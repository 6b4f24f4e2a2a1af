--------------------------- MODULE MessageProofs ---------------------------
(***************************************************************************)
(* Proofs about Message and about RequestReply, whose requests and replies *)
(* carry the identifiers that Message converts.                            *)
(*                                                                         *)
(* The proofs about Message go from numbers to messages. First integers    *)
(* and dates, with the arithmetic of their conversions. Then scalars. Then *)
(* containers: a claim about every value is proved for a value whose       *)
(* elements satisfy it, and a least nested value that does not satisfy it  *)
(* would contradict that. Then the properties of a message, class by       *)
(* class, what is sent of them and what is read of them. At last the life  *)
(* of a message, with the invariant MessageInv.                            *)
(***************************************************************************)
EXTENDS Message, RequestReply, FiniteSetTheorems, WellFoundedInduction, TLAPS

-----------------------------------------------------------------------------
(* Integers                                                                *)

\* Division with a rest between 0 and the divisor.
LEMMA Division ==
    ASSUME NEW n \in Int, NEW k \in Nat \ {0}
    PROVE  /\ n \div k \in Int
           /\ n % k \in 0 .. k - 1
           /\ n = k * (n \div k) + (n % k)
  <1>1. n \div k \in Int
    OBVIOUS
  <1>2. n % k \in Int /\ 0 <= n % k /\ n % k < k
    OBVIOUS
  <1>3. n = k * (n \div k) + (n % k)
    OBVIOUS
  <1>4. QED
    BY <1>1, <1>2, <1>3

\* The quotient and the rest of a division are the only ones.
LEMMA DivisionIsUnique ==
    ASSUME NEW k \in Nat \ {0}, NEW q \in Int, NEW r \in 0 .. k - 1
    PROVE  (k * q + r) \div k = q /\ (k * q + r) % k = r
  OBVIOUS

\* A number and the number that is k larger have the same rest.
LEMMA SameRest ==
    ASSUME NEW n \in Int, NEW k \in Nat \ {0}
    PROVE  (n + k) % k = n % k
  <1> DEFINE q == n \div k
             r == n % k
  <1>1. q \in Int /\ r \in 0 .. k - 1 /\ n = k * q + r
    BY Division
  <1> HIDE DEF q, r
  <1>2. k * (q + 1) = k * q + k
    BY <1>1
  <1>3. q + 1 \in Int /\ k * q \in Int
    BY <1>1
  <1>4. n + k = k * (q + 1) + r
    BY <1>1, <1>2, <1>3
  <1>5. (k * (q + 1) + r) % k = r
    BY <1>1, <1>3, DivisionIsUnique
  <1>6. QED
    BY <1>4, <1>5 DEF r

\* What the conversions of an integer between its signed and its unsigned type do.
LEMMA SignedInRange ==
    ASSUME NEW limit \in Nat \ {0}, NEW n \in Int
    PROVE  Signed(n, limit) \in -limit .. limit - 1
  <1>1. 2 * limit \in Nat \ {0} /\ n + limit \in Int
    OBVIOUS
  <1>2. (n + limit) % (2 * limit) \in 0 .. 2 * limit - 1
    BY <1>1, Division
  <1>3. QED
    BY <1>2 DEF Signed

\* A number in the range of its type is the same in it.
LEMMA SignedSame ==
    ASSUME NEW limit \in Nat \ {0}, NEW n \in -limit .. limit - 1
    PROVE  Signed(n, limit) = n
  <1>1. 2 * limit \in Nat \ {0} /\ n + limit \in 0 .. 2 * limit - 1
    OBVIOUS
  <1>2. (n + limit) % (2 * limit) = n + limit
    BY <1>1
  <1>3. QED
    BY <1>2 DEF Signed

\* An unsigned number that was read as a signed one comes back.
LEMMA UnsignedOfSigned ==
    ASSUME NEW limit \in Nat \ {0}, NEW n \in 0 .. 2 * limit - 1
    PROVE  Unsigned(Signed(n, limit), limit) = n
  <1>1. CASE n < limit
    <2>1. Signed(n, limit) = n
      BY <1>1, SignedSame
    <2>2. QED
      BY <2>1 DEF Unsigned
  <1>2. CASE n >= limit
    <2>1. /\ 2 * limit \in Nat \ {0} /\ n - limit \in Int /\ n - 2 * limit \in Int
          /\ n - limit \in 0 .. 2 * limit - 1
      BY <1>2
    <2>2. (n - limit) % (2 * limit) = n - limit
      BY <2>1
    <2>3. (n - limit + 2 * limit) % (2 * limit) = (n - limit) % (2 * limit)
      BY <2>1, SameRest, Zenon
    <2>4. n - limit + 2 * limit = n + limit
      OBVIOUS
    <2>5. Signed(n, limit) = n - 2 * limit
      BY <2>2, <2>3, <2>4 DEF Signed
    <2>6. (n - 2 * limit + 2 * limit) % (2 * limit) = (n - 2 * limit) % (2 * limit)
      BY <2>1, SameRest, Zenon
    <2>7. (n - 2 * limit) % (2 * limit) = n
      BY <2>6
    <2>8. QED
      BY <2>5, <2>7 DEF Unsigned
  <1>3. QED
    BY <1>1, <1>2

\* A signed number that was sent as an unsigned one comes back.
LEMMA SignedOfUnsigned ==
    ASSUME NEW limit \in Nat \ {0}, NEW n \in -limit .. limit - 1
    PROVE  /\ Unsigned(n, limit) \in 0 .. 2 * limit - 1
           /\ Signed(Unsigned(n, limit), limit) = n
  <1>1. 2 * limit \in Nat \ {0} /\ n \in Int /\ n + limit \in Int
    OBVIOUS
  <1>2. Unsigned(n, limit) \in 0 .. 2 * limit - 1
    BY <1>1, Division DEF Unsigned
  <1>3. CASE n >= 0
    BY <1>3, SignedSame DEF Unsigned
  <1>4. CASE n < 0
    <2>1. n + 2 * limit \in 0 .. 2 * limit - 1 /\ n + limit \in 0 .. 2 * limit - 1
      BY <1>4
    <2>2. n % (2 * limit) = n + 2 * limit
      <3>1. (n + 2 * limit) % (2 * limit) = n % (2 * limit)
        BY <1>1, SameRest, Zenon
      <3>2. (n + 2 * limit) % (2 * limit) = n + 2 * limit
        BY <2>1, <1>1
      <3>3. QED
        BY <3>1, <3>2
    <2>3. (n + limit + 2 * limit) % (2 * limit) = n + limit
      <3>1. (n + limit + 2 * limit) % (2 * limit) = (n + limit) % (2 * limit)
        BY <1>1, SameRest, Zenon
      <3>2. QED
        BY <3>1, <2>1, <1>1
    <2>4. n + 2 * limit + limit = n + limit + 2 * limit
      OBVIOUS
    <2>5. QED
      BY <1>2, <2>2, <2>3, <2>4 DEF Unsigned, Signed
  <1>5. QED
    BY <1>2, <1>3, <1>4

-----------------------------------------------------------------------------
(* Dates                                                                   *)

\* Multiplication keeps an order.
LEMMA MultipleOrder ==
    ASSUME NEW k \in Nat, NEW a \in Int, NEW b \in Int, a <= b
    PROVE  k * a <= k * b
  <1>1. b - a \in Nat /\ k * (b - a) \in Nat
    OBVIOUS
  <1>2. k * (b - a) = k * b - k * a /\ k * a \in Int /\ k * b \in Int
    OBVIOUS
  <1>3. QED
    BY <1>1, <1>2

\* A timestamp becomes the second that has begun and the milliseconds in it,
\* before the epoch as well: makeAbsolute() makes up for the truncation.
LEMMA DateOfTimestamp ==
    ASSUME NEW ms \in Int
    PROVE  /\ TimestampToDate(ms) = <<"date", <<ms \div Thousand, (ms % Thousand) * Thousand>>>>
           /\ ms \div Thousand \in Int
           /\ (ms % Thousand) * Thousand \in 0 .. Thousand * Thousand - 1
  <1> DEFINE T == Thousand
             q == Quotient(ms, T)
             r == Remainder(ms, T)
  <1>1. T \in Nat \ {0} /\ T * T \in Nat \ {0}
    BY LimitsAssumption
  <1>2. /\ ms \div T \in Int /\ ms % T \in 0 .. T - 1 /\ ms = T * (ms \div T) + (ms % T)
        /\ (-ms) \div T \in Int /\ (-ms) % T \in 0 .. T - 1 /\ -ms = T * ((-ms) \div T) + ((-ms) % T)
    BY <1>1, Division
  <1>3. q \in Int /\ r \in Int /\ ms = T * q + r /\ r > -T /\ r < T /\ (ms >= 0 => r >= 0) /\ (ms < 0 => r <= 0)
    <2>1. CASE ms >= 0
      <3>1. q = ms \div T /\ r = ms % T
        BY <1>1, <1>2, <2>1 DEF Quotient, Remainder
      <3>2. QED
        BY <3>1, <1>1, <1>2, <2>1
    <2>2. CASE ms < 0
      <3>1. q = -((-ms) \div T) /\ r = ms - T * q
        BY <2>2 DEF Quotient, Remainder
      <3>2. T * q = -(T * ((-ms) \div T))
        BY <3>1, <1>1, <1>2
      <3>3. r = -((-ms) % T)
        BY <3>1, <3>2, <1>1, <1>2
      <3>4. QED
        BY <3>1, <3>2, <3>3, <1>1, <1>2, <2>2
    <2>3. QED
      BY <2>1, <2>2
  <1>4. TimestampToDate(ms) = <<"date", <<q + (r * T) \div (T * T), (r * T) % (T * T)>>>>
    BY DEF TimestampToDate, MakeAbsolute
  <1> HIDE DEF q, r, T
  <1>5. CASE r >= 0
    <2>1. ms \div T = q /\ ms % T = r
      BY <1>1, <1>3, <1>5, DivisionIsUnique
    <2>2. r * T \in 0 .. T * T - 1
      <3>1. T * r >= 0 /\ T * r <= T * (T - 1)
        BY <1>1, <1>3, <1>5, MultipleOrder
      <3>2. T * (T - 1) = T * T - T /\ T * r = r * T /\ T * T \in Nat /\ r * T \in Int
        BY <1>1, <1>3
      <3>3. QED
        BY <3>1, <3>2, <1>1
    <2>3. (r * T) \div (T * T) = 0 /\ (r * T) % (T * T) = r * T
      BY <1>1, <2>2
    <2>4. QED
      BY <1>3, <1>4, <2>1, <2>2, <2>3 DEF T
  <1>6. CASE r < 0
    <2>1. /\ q - 1 \in Int /\ r + T \in 0 .. T - 1
          /\ ms = T * (q - 1) + (r + T)
      <3>1. T * (q - 1) = T * q - T /\ T * q \in Int
        BY <1>1, <1>3
      <3>2. QED
        BY <3>1, <1>1, <1>3, <1>6
    <2>2. ms \div T = q - 1 /\ ms % T = r + T
      BY <1>1, <2>1, DivisionIsUnique
    <2>3. (r + T) * T \in 0 .. T * T - 1
      <3>1. T * (r + T) >= T * 0 /\ T * (r + T) <= T * (T - 1)
        BY <1>1, <2>1, MultipleOrder
      <3>2. /\ T * (T - 1) = T * T - T /\ T * (r + T) = (r + T) * T /\ T * 0 = 0
            /\ T * T \in Nat /\ (r + T) * T \in Int
        BY <1>1, <1>3
      <3>3. QED
        BY <3>1, <3>2, <1>1
    <2>4. r * T = (T * T) * (-1) + (r + T) * T
      BY <1>1, <1>3
    <2>5. (r * T) \div (T * T) = -1 /\ (r * T) % (T * T) = (r + T) * T
      <3>1. -1 \in Int
        OBVIOUS
      <3>2. /\ ((T * T) * (-1) + (r + T) * T) \div (T * T) = -1
            /\ ((T * T) * (-1) + (r + T) * T) % (T * T) = (r + T) * T
        BY <1>1, <2>3, <3>1, DivisionIsUnique, Zenon
      <3>3. QED
        BY <2>4, <3>2
    <2>6. QED
      BY <1>3, <1>4, <2>2, <2>3, <2>5 DEF T
  <1>7. QED
    BY <1>3, <1>5, <1>6

\* A date is sent to the millisecond before it.
LEMMA TimestampOfDate ==
    ASSUME NEW date \in Int \X (0 .. Thousand * Thousand - 1)
    PROVE  /\ DateToTimestamp(date) \in Int
           /\ TimestampToDate(DateToTimestamp(date)) = <<"date", DateLeft(date)>>
           /\ DateLeft(date) \in Int \X (0 .. Thousand * Thousand - 1)
  <1> DEFINE T == Thousand
             secs == date[1]
             us == date[2]
             m == us \div T
             ms == DateToTimestamp(date)
  <1>1. T \in Nat \ {0} /\ T * T \in Nat \ {0}
    BY LimitsAssumption
  <1>2. secs \in Int /\ us \in 0 .. T * T - 1
    OBVIOUS
  <1>3. ms = secs * T + m
    BY <1>2 DEF DateToTimestamp, Quotient
  <1> HIDE DEF T, secs, us, ms
  <1>4. m \in Int /\ us % T \in 0 .. T - 1 /\ us = T * m + (us % T)
    BY <1>1, <1>2, Division
  <1> HIDE DEF m
  <1>5. m \in 0 .. T - 1
    <2>1. m >= 0
      <3>1. m < 0 => T * m <= T * (-1)
        BY <1>1, <1>4, MultipleOrder
      <3>2. T * m \in Int /\ T * (-1) = -T
        BY <1>1, <1>4
      <3>3. QED
        BY <3>1, <3>2, <1>1, <1>2, <1>4
    <2>2. m < T
      <3>1. m >= T => T * m >= T * T
        BY <1>1, <1>4, MultipleOrder
      <3>2. T * m \in Int
        BY <1>1, <1>4
      <3>3. QED
        BY <3>1, <3>2, <1>1, <1>2, <1>4
    <2>3. QED
      BY <2>1, <2>2, <1>1, <1>4
  <1>6. ms = T * secs + m /\ ms \in Int
    BY <1>1, <1>2, <1>3, <1>5
  <1>7. ms \div T = secs /\ ms % T = m
    BY <1>1, <1>2, <1>5, <1>6, DivisionIsUnique
  <1>8. TimestampToDate(ms) = <<"date", <<secs, m * T>>>>
    BY <1>6, <1>7, DateOfTimestamp DEF T
  <1>9. m * T = us - (us % T)
    BY <1>1, <1>2, <1>4, <1>5
  <1>10. (ms % T) * T \in 0 .. T * T - 1
    BY <1>6, DateOfTimestamp DEF T
  <1>11. QED
    BY <1>2, <1>6, <1>7, <1>8, <1>9, <1>10 DEF DateLeft, T, secs, us, ms

\* Of a relative date the microseconds are cut to milliseconds, towards zero, and the date is read as a point
\* in time.
LEMMA TimestampOfRelative ==
    ASSUME NEW date \in Int \X (-(Thousand * Thousand) + 1 .. Thousand * Thousand - 1)
    PROVE  /\ DateToTimestamp(date) \in Int
           /\ TimestampToDate(DateToTimestamp(date)) = <<"date", RelativeLeft(date)>>
  <1> DEFINE T == Thousand
             secs == date[1]
             us == date[2]
             m == Quotient(us, T)
             ms == DateToTimestamp(date)
  <1>1. T \in Nat \ {0} /\ T * T \in Nat \ {0}
    BY LimitsAssumption
  <1>2. secs \in Int /\ us \in Int /\ us > -(T * T) /\ us < T * T
    BY <1>1
  <1>3. ms = secs * T + m
    BY DEF DateToTimestamp
  <1>4. RelativeLeft(date) = LET whole == us - (us - T * m)
                             IN IF whole >= 0 THEN <<secs, whole>> ELSE <<secs - 1, whole + T * T>>
    BY DEF RelativeLeft, Remainder
  <1> DEFINE a == IF us >= 0 THEN us ELSE -us
             q == a \div T
  <1>5. a \in 0 .. T * T - 1 /\ m = IF us >= 0 THEN q ELSE -q
    BY <1>1, <1>2 DEF Quotient
  <1> HIDE DEF T, secs, us, ms, m, a
  <1>6. q \in Int /\ a % T \in 0 .. T - 1 /\ a = T * q + (a % T)
    BY <1>1, <1>5, Division
  <1> HIDE DEF q
  <1>7. q \in 0 .. T - 1
    <2>1. q < 0 => T * q <= T * (-1)
      BY <1>1, <1>6, MultipleOrder
    <2>2. q >= T => T * q >= T * T
      BY <1>1, <1>6, MultipleOrder
    <2>3. T * q \in Int /\ T * (-1) = -T
      BY <1>1, <1>6
    <2>4. QED
      BY <2>1, <2>2, <2>3, <1>1, <1>5, <1>6
  <1>8. /\ m \in -T + 1 .. T - 1 /\ ms \in Int /\ ms = T * secs + m
        /\ T * m \in Int /\ us - (us - T * m) = T * m
    <2>1. m \in -T + 1 .. T - 1
      BY <1>1, <1>5, <1>7
    <2>2. T * m \in Int /\ T * secs \in Int /\ secs * T = T * secs
      BY <1>1, <1>2, <2>1
    <2>3. QED
      BY <1>2, <1>3, <2>1, <2>2
  <1>9. CASE m >= 0
    <2>1. ms \div T = secs /\ ms % T = m
      BY <1>1, <1>2, <1>8, <1>9, DivisionIsUnique
    <2>2. T * m >= 0 /\ m * T = T * m
      <3>1. T * m >= T * 0
        BY <1>1, <1>8, <1>9, MultipleOrder
      <3>2. T * 0 = 0 /\ m * T = T * m
        BY <1>1, <1>8
      <3>3. QED
        BY <3>1, <3>2
    <2>3. RelativeLeft(date) = <<secs, T * m>>
      BY <1>4, <1>8, <2>2
    <2>4. TimestampToDate(ms) = <<"date", <<secs, m * T>>>>
      BY <1>8, <2>1, DateOfTimestamp DEF T
    <2>5. QED
      BY <1>8, <2>2, <2>3, <2>4 DEF ms
  <1>10. CASE m < 0
    <2>1. secs - 1 \in Int /\ m + T \in 0 .. T - 1 /\ ms = T * (secs - 1) + (m + T)
      <3>1. T * (secs - 1) = T * secs - T /\ T * secs \in Int
        BY <1>1, <1>2
      <3>2. QED
        BY <3>1, <1>1, <1>2, <1>8, <1>10
    <2>2. ms \div T = secs - 1 /\ ms % T = m + T
      BY <1>1, <2>1, DivisionIsUnique
    <2>3. T * m < 0
      <3>1. T * m <= T * (-1)
        BY <1>1, <1>8, <1>10, MultipleOrder
      <3>2. T * (-1) = -T
        BY <1>1
      <3>3. QED
        BY <1>1, <1>8, <3>1, <3>2
    <2>4. (m + T) * T = T * m + T * T
      BY <1>1, <1>8
    <2>5. RelativeLeft(date) = <<secs - 1, T * m + T * T>>
      BY <1>4, <1>8, <2>3
    <2>6. TimestampToDate(ms) = <<"date", <<secs - 1, (m + T) * T>>>>
      BY <1>8, <2>2, DateOfTimestamp DEF T
    <2>7. QED
      BY <1>8, <2>4, <2>5, <2>6 DEF ms
  <1>11. QED
    BY <1>8, <1>9, <1>10

\* A date of either kind is sent as a timestamp, that is read as what should be left of it.
LEMMA TimestampOfValue ==
    ASSUME NEW v, IsValue(v), TypeOf(v) \in {"date", "relative"}
    PROVE  /\ DateToTimestamp(v[2]) \in Int
           /\ TimestampToDate(DateToTimestamp(v[2])) = ValueLeft(v)
           /\ \E date : ValueLeft(v) = <<"date", date>>
  <1>1. CASE TypeOf(v) = "date"
    BY <1>1, TimestampOfDate DEF IsValue, ValueLeft
  <1>2. CASE TypeOf(v) = "relative"
    BY <1>2, TimestampOfRelative DEF IsValue, ValueLeft
  <1>3. QED
    BY <1>1, <1>2

\* A date that was read has whole milliseconds: nothing of it is lost again.
LEMMA DateReadLeft ==
    ASSUME NEW ms \in Int
    PROVE  ValueLeft(TimestampToDate(ms)) = TimestampToDate(ms)
  <1> DEFINE T == Thousand
             us == (ms % T) * T
  <1>1. T \in Nat \ {0} /\ ms % T \in 0 .. T - 1
    BY LimitsAssumption, Division
  <1>2. TimestampToDate(ms) = <<"date", <<ms \div T, us>>>>
    BY DateOfTimestamp
  <1>3. us % T = 0 /\ us \in Int
    <2>1. us = T * (ms % T) + 0 /\ us \in Int
      BY <1>1
    <2>2. QED
      BY <1>1, <2>1, DivisionIsUnique
  <1> HIDE DEF us
  <1>4. DateLeft(<<ms \div T, us>>) = <<ms \div T, us>>
    BY <1>3 DEF DateLeft
  <1>5. QED
    BY <1>2, <1>4 DEF ValueLeft, TypeOf

\* A timestamp that was read is sent as it was.
LEMMA TimestampComesBack ==
    ASSUME NEW ms \in Int
    PROVE  DateToTimestamp(TimestampToDate(ms)[2]) = ms
  <1> DEFINE T == Thousand
             us == (ms % T) * T
  <1>1. T \in Nat \ {0} /\ ms % T \in 0 .. T - 1 /\ ms \div T \in Int /\ ms = T * (ms \div T) + (ms % T)
    BY LimitsAssumption, Division
  <1>2. TimestampToDate(ms)[2] = <<ms \div T, us>>
    BY DateOfTimestamp
  <1>3. us \div T = ms % T
    <2>1. us = T * (ms % T) + 0
      BY <1>1
    <2>2. QED
      BY <1>1, <2>1, DivisionIsUnique
  <1>4. us >= 0
    BY DateOfTimestamp
  <1> HIDE DEF us
  <1>5. DateToTimestamp(<<ms \div T, us>>) = (ms \div T) * T + (ms % T)
    BY <1>3, <1>4 DEF DateToTimestamp, Quotient
  <1>6. QED
    BY <1>1, <1>2, <1>5

\* The epoch, and nothing else, is the timestamp 0.
LEMMA EpochIsZero ==
    ASSUME NEW ms \in Int
    PROVE  TimestampToDate(ms) = <<"date", <<0, 0>>>> <=> ms = 0
  <1>1. ASSUME ms = 0
        PROVE  TimestampToDate(ms) = <<"date", <<0, 0>>>>
    <2>1. Thousand \in Nat \ {0} /\ 0 \in 0 .. Thousand - 1 /\ 0 \in Int
      BY LimitsAssumption
    <2>2. 0 \div Thousand = 0 /\ 0 % Thousand = 0
      BY <2>1
    <2>3. TimestampToDate(0) = <<"date", <<0 \div Thousand, (0 % Thousand) * Thousand>>>>
      BY <2>1, DateOfTimestamp, Zenon
    <2>4. 0 * Thousand = 0
      BY <2>1
    <2>5. QED
      BY <1>1, <2>2, <2>3, <2>4
  <1>2. ASSUME TimestampToDate(ms) = <<"date", <<0, 0>>>>
        PROVE  ms = 0
    <2>1. DateToTimestamp(<<0, 0>>) = ms
      BY <1>2, TimestampComesBack
    <2>2. DateToTimestamp(<<0, 0>>) = 0 * Thousand + 0 \div Thousand
      BY DEF DateToTimestamp, Quotient
    <2>3. Thousand \in Nat \ {0}
      BY LimitsAssumption
    <2>4. 0 * Thousand + 0 \div Thousand = 0
      BY <2>3
    <2>5. QED
      BY <2>1, <2>2, <2>4
  <1>3. QED
    BY <1>1, <1>2

\* The parts of an entry that is made of a key and its value.
LEMMA EntryPartsAt ==
    ASSUME NEW keyType, NEW keys, NEW f, NEW entries, NEW i, entries[i] = <<<<keyType, keys[i]>>, f[keys[i]]>>
    PROVE  entries[i][1] = <<keyType, keys[i]>> /\ entries[i][2] = f[keys[i]]
  OBVIOUS

\* The hash of a map whose keys have the names in S.
LEMMA HashOfMap ==
    ASSUME NEW entries, NEW S, {KeyText(entries[i][1]) : i \in DOMAIN entries} = S
    PROVE  MapToHash(<<"MAP", entries>>) =
             <<"hash", [key \in S |-> ElementToQore(entries[LastOf(entries, key)][2])]>>
  BY DEF MapToHash

\* The text of a key that is a string or a symbol.
LEMMA TextOfKey ==
    ASSUME NEW keyType \in {"STRING", "SYMBOL"}, NEW key
    PROVE  KeyText(<<keyType, key>>) = key
  BY DEF KeyText, TypeOf

\* The sequence that enumerates a finite set has every element once.
LEMMA KeysOf ==
    ASSUME NEW S, IsFiniteSet(S)
    PROVE  LET keys == SetToSeq(S)
           IN /\ DOMAIN keys = 1 .. Cardinality(S) /\ Cardinality(S) \in Nat
              /\ \A i \in DOMAIN keys : keys[i] \in S
              /\ \A i, j \in DOMAIN keys : keys[i] = keys[j] => i = j
              /\ \A key \in S : \E i \in DOMAIN keys : keys[i] = key
  <1> DEFINE n == Cardinality(S)
             keys == SetToSeq(S)
  <1>1. n \in Nat /\ ExistsBijection(1 .. n, S)
    BY FS_CardinalityType
  <1>2. \E f \in [1 .. n -> S] : IsInjective(f)
    BY <1>1 DEF ExistsBijection, Bijection, Injection
  <1>3. keys \in [1 .. n -> S] /\ IsInjective(keys)
    BY <1>2 DEF SetToSeq
  <1>4. IsFiniteSet(1 .. n) /\ Cardinality(1 .. n) = n
    BY <1>1, FS_Interval
  <1>5. keys \in Injection(1 .. n, S)
    BY <1>3 DEF Injection
  <1>6. keys \in Surjection(1 .. n, S)
    BY <1>4, <1>5, FS_Injection
  <1>7. \A key \in S : \E i \in 1 .. n : keys[i] = key
    BY <1>6 DEF Surjection
  <1> HIDE DEF keys, n
  <1>8. DOMAIN keys = 1 .. n
    BY <1>3
  <1>9. \A i, j \in DOMAIN keys : keys[i] = keys[j] => i = j
    BY <1>3 DEF IsInjective
  <1>10. \A i \in DOMAIN keys : keys[i] \in S
    BY <1>3, <1>8
  <1>11. QED
    BY <1>1, <1>7, <1>8, <1>9, <1>10 DEF keys, n

\* The entries of a map that is made of the values f of the keys in S.
EntriesFrom(keyType, S, f) ==
    [i \in DOMAIN SetToSeq(S) |-> <<<<keyType, SetToSeq(S)[i]>>, f[SetToSeq(S)[i]]>>]

\* What is read of the values f of the keys in S.
ElementsRead(S, f) == [key \in S |-> ElementToQore(f[key])]

\* The entries hold the values f of the keys in S, and are read as a hash of them.
HoldsAll(entries, S, f) ==
    /\ Len(entries) \in Nat /\ DOMAIN entries = 1 .. Len(entries)
    /\ entries = [i \in DOMAIN entries |-> entries[i]]
    /\ \A i \in DOMAIN entries : \E key \in S : entries[i][2] = f[key]
    /\ \A key \in S : \E i \in DOMAIN entries : entries[i][2] = f[key]
    /\ entries = <<>> <=> S = {}
    /\ MapToHash(<<"MAP", entries>>) = <<"hash", ElementsRead(S, f)>>

\* A map that is made of a hash is read as a hash of the same keys.
LEMMA MapComesBack ==
    ASSUME NEW S, IsFiniteSet(S), NEW f, NEW keyType \in {"STRING", "SYMBOL"}
    PROVE  HoldsAll(EntriesFrom(keyType, S, f), S, f)
  <1> DEFINE n == Cardinality(S)
             keys == SetToSeq(S)
             entries == EntriesFrom(keyType, S, f)
  <1>1. /\ n \in Nat /\ DOMAIN keys = 1 .. n
        /\ \A i \in DOMAIN keys : keys[i] \in S
        /\ \A i, j \in DOMAIN keys : keys[i] = keys[j] => i = j
        /\ \A key \in S : \E i \in DOMAIN keys : keys[i] = key
    BY KeysOf
  <1>2. /\ DOMAIN entries = 1 .. n /\ entries = [i \in 1 .. n |-> entries[i]]
        /\ \A i \in DOMAIN entries : entries[i] = <<<<keyType, keys[i]>>, f[keys[i]]>>
    BY <1>1 DEF EntriesFrom
  <1> HIDE DEF keys, n, entries
  <1>3. DOMAIN entries = 1 .. n /\ Len(entries) = n
    BY <1>1, <1>2
  <1>4. \A i \in 1 .. n : entries[i] = <<<<keyType, keys[i]>>, f[keys[i]]>>
    BY <1>2
  <1>5. \A i \in 1 .. n : entries[i][2] = f[keys[i]] /\ entries[i][1] = <<keyType, keys[i]>>
    <2>1. SUFFICES ASSUME NEW i \in 1 .. n
                   PROVE  entries[i][2] = f[keys[i]] /\ entries[i][1] = <<keyType, keys[i]>>
      OBVIOUS
    <2>2. entries[i] = <<<<keyType, keys[i]>>, f[keys[i]]>>
      BY <1>4
    <2>3. QED
      BY <2>2, EntryPartsAt
  <1>6. \A i \in 1 .. n : KeyText(entries[i][1]) = keys[i]
    BY <1>5, TextOfKey
  <1>7. {KeyText(entries[i][1]) : i \in DOMAIN entries} = S
    <2>1. \A i \in DOMAIN entries : KeyText(entries[i][1]) \in S
      BY <1>1, <1>3, <1>6
    <2>2. \A key \in S : \E i \in DOMAIN entries : key = KeyText(entries[i][1])
      BY <1>1, <1>3, <1>6
    <2>3. {KeyText(entries[i][1]) : i \in DOMAIN entries} \subseteq S
      BY <2>1
    <2>4. S \subseteq {KeyText(entries[i][1]) : i \in DOMAIN entries}
      BY <2>2
    <2>5. QED
      BY <2>3, <2>4, Zenon
  <1>8. ASSUME NEW key \in S
        PROVE  entries[LastOf(entries, key)][2] = f[key]
    <2>1. PICK i \in 1 .. n : keys[i] = key
      BY <1>1
    <2>2. Named(entries, key) = {i}
      <3>1. \A j \in 1 .. n : KeyText(entries[j][1]) = key <=> j = i
        BY <1>1, <1>6, <2>1
      <3>2. QED
        BY <1>3, <2>1, <3>1 DEF Named
    <2>3. LastOf(entries, key) = i
      BY <2>1, <2>2 DEF LastOf
    <2>4. QED
      BY <1>5, <2>1, <2>3
  <1>9. MapToHash(<<"MAP", entries>>) =
          <<"hash", [key \in S |-> ElementToQore(entries[LastOf(entries, key)][2])]>>
    BY <1>7, HashOfMap
  <1>10. MapToHash(<<"MAP", entries>>) = <<"hash", ElementsRead(S, f)>>
    BY <1>8, <1>9 DEF ElementsRead
  <1>11. \A i \in DOMAIN entries : \E key \in S : entries[i][2] = f[key]
    BY <1>1, <1>3, <1>5
  <1>12. \A key \in S : \E i \in DOMAIN entries : entries[i][2] = f[key]
    BY <1>1, <1>3, <1>5
  <1>13. entries = <<>> <=> S = {}
    <2>1. S = {} => n = 0
      BY <1>1
    <2>2. n = 0 => entries = <<>>
      BY <1>1, <1>3
    <2>3. entries = <<>> => DOMAIN entries = {}
      OBVIOUS
    <2>4. S # {} => DOMAIN entries # {}
      BY <1>12
    <2>5. QED
      BY <2>1, <2>2, <2>3, <2>4
  <1>14. QED
    BY <1>1, <1>2, <1>3, <1>10, <1>11, <1>12, <1>13 DEF entries, HoldsAll

-----------------------------------------------------------------------------
(* Scalars                                                                 *)

ScalarTypes == {"NULL_TYPE", "BOOLEAN", "LONG", "DOUBLE", "STRING", "BINARY", "TIMESTAMP"}

\* A scalar that is sent is read as what should be left of it.
LEMMA ScalarComesBack ==
    ASSUME NEW v, IsValue(v), QoreToScalar(v) # Error
    PROVE  /\ QoreToScalar(v) = <<QoreToScalar(v)[1], QoreToScalar(v)[2]>>
           /\ TypeOf(QoreToScalar(v)) \in ScalarTypes
           /\ TypeOf(QoreToScalar(v)) = "TIMESTAMP" => QoreToScalar(v)[2] \in Int
           /\ TypeOf(v) \notin {"hash", "list", "number"}
           /\ ScalarToQore(QoreToScalar(v)) = ValueLeft(v)
  <1> DEFINE w == QoreToScalar(v)
  <1>0. v = <<v[1], v[2]>>
    BY DEF IsValue
  <1>1. CASE TypeOf(v) = "nothing"
    <2>1. w = <<"NULL_TYPE", 0>> /\ v = Nothing
      BY <1>1 DEF QoreToScalar, IsNullOrNothing, Null, IsValue
    <2>2. ScalarToQore(w) = v
      BY <2>1 DEF ScalarToQore, TypeOf, IntegerTypes, Nothing
    <2>3. ValueLeft(v) = v
      BY <1>1 DEF ValueLeft
    <2>4. QED
      BY <1>1, <2>1, <2>2, <2>3 DEF ScalarTypes, TypeOf
  <1>2. CASE TypeOf(v) = "bool"
    <2>1. w = <<"BOOLEAN", v[2]>>
      BY <1>2 DEF QoreToScalar, IsNullOrNothing
    <2>2. ScalarToQore(w) = v
      BY <1>0, <1>2, <2>1 DEF ScalarToQore, TypeOf, IntegerTypes
    <2>3. ValueLeft(v) = v
      BY <1>2 DEF ValueLeft
    <2>4. QED
      BY <1>2, <2>1, <2>2, <2>3 DEF ScalarTypes, TypeOf
  <1>3. CASE TypeOf(v) = "int"
    <2>1. w = <<"LONG", v[2]>> /\ v[2] \in LongRange
      BY <1>3 DEF QoreToScalar, IsNullOrNothing, IsValue
    <2>2. Signed(v[2], LongLimit) = v[2]
      BY <2>1, LimitsAssumption, SignedSame DEF LongRange
    <2>3. ScalarToQore(w) = v
      BY <1>0, <1>3, <2>1, <2>2 DEF ScalarToQore, TypeOf, IntegerTypes
    <2>4. ValueLeft(v) = v
      BY <1>3 DEF ValueLeft
    <2>5. QED
      BY <1>3, <2>1, <2>3, <2>4 DEF ScalarTypes, TypeOf
  <1>4. CASE TypeOf(v) = "float"
    <2>1. w = <<"DOUBLE", v[2]>>
      BY <1>4 DEF QoreToScalar, IsNullOrNothing
    <2>2. ScalarToQore(w) = v
      BY <1>0, <1>4, <2>1 DEF ScalarToQore, TypeOf, IntegerTypes
    <2>3. ValueLeft(v) = v
      BY <1>4 DEF ValueLeft
    <2>4. QED
      BY <1>4, <2>1, <2>2, <2>3 DEF ScalarTypes, TypeOf
  <1>5. CASE TypeOf(v) = "string"
    <2>1. w = <<"STRING", v[2]>>
      BY <1>5 DEF QoreToScalar, IsNullOrNothing
    <2>2. ScalarToQore(w) = v
      BY <1>0, <1>5, <2>1 DEF ScalarToQore, TypeOf, IntegerTypes
    <2>3. ValueLeft(v) = v
      BY <1>5 DEF ValueLeft
    <2>4. QED
      BY <1>5, <2>1, <2>2, <2>3 DEF ScalarTypes, TypeOf
  <1>6. CASE TypeOf(v) = "binary"
    <2>1. w = <<"BINARY", v[2]>>
      BY <1>6 DEF QoreToScalar, IsNullOrNothing
    <2>2. ScalarToQore(w) = v
      BY <1>0, <1>6, <2>1 DEF ScalarToQore, TypeOf, IntegerTypes
    <2>3. ValueLeft(v) = v
      BY <1>6 DEF ValueLeft
    <2>4. QED
      BY <1>6, <2>1, <2>2, <2>3 DEF ScalarTypes, TypeOf
  <1>7. CASE TypeOf(v) \in {"date", "relative"}
    <2>1. w = <<"TIMESTAMP", DateToTimestamp(v[2])>>
      BY <1>7 DEF QoreToScalar, IsNullOrNothing
    <2>2. DateToTimestamp(v[2]) \in Int /\ TimestampToDate(DateToTimestamp(v[2])) = ValueLeft(v)
      BY <1>7, TimestampOfValue
    <2>3. ScalarToQore(w) = ValueLeft(v)
      BY <2>1, <2>2 DEF ScalarToQore, TypeOf, IntegerTypes
    <2>4. TypeOf(v) \notin {"hash", "list", "number"}
      BY <1>7
    <2> HIDE DEF w
    <2>5. w = <<w[1], w[2]>> /\ TypeOf(w) = "TIMESTAMP" /\ w[2] \in Int
      BY <2>1, <2>2 DEF TypeOf
    <2>6. QED
      BY <2>3, <2>4, <2>5 DEF ScalarTypes, w
  <1>8. CASE TypeOf(v) = "NULL"
    <2>1. w = <<"NULL_TYPE", 0>>
      BY <1>8 DEF QoreToScalar, IsNullOrNothing, Null
    <2>2. ScalarToQore(w) = Nothing
      BY <2>1 DEF ScalarToQore, TypeOf, IntegerTypes
    <2>3. ValueLeft(v) = Nothing
      BY <1>8 DEF ValueLeft
    <2>4. QED
      BY <1>8, <2>1, <2>2, <2>3 DEF ScalarTypes, TypeOf
  <1>9. QED
    BY <1>1, <1>2, <1>3, <1>4, <1>5, <1>6, <1>7, <1>8 DEF QoreToScalar, IsNullOrNothing

\* A scalar that is read is a value of Qore, that can be sent and loses nothing more.
LEMMA ScalarIsRead ==
    ASSUME NEW w, TypeOf(w) \in IntegerTypes \cup {"TIMESTAMP"} => w[2] \in Int
    PROVE  /\ IsValue(ScalarToQore(w))
           /\ TypeOf(ScalarToQore(w)) \notin {"hash", "list", "number"}
           /\ QoreToScalar(ScalarToQore(w)) # Error
           /\ ValueLeft(ScalarToQore(w)) = ScalarToQore(w)
  <1> DEFINE v == ScalarToQore(w)
             Plain == {"bool", "float", "string", "binary"}
  <1>1. CASE TypeOf(w) = "NULL_TYPE"
    <2>1. v = <<"nothing", 0>>
      BY <1>1 DEF ScalarToQore, IntegerTypes, Nothing
    <2>2. QED
      BY <2>1 DEF IsValue, TypeOf, Nothing, QoreToScalar, IsNullOrNothing, ValueLeft, Error, Null
  <1>2. CASE TypeOf(w) \in IntegerTypes
    <2>1. v = <<"int", Signed(w[2], LongLimit)>>
      BY <1>2 DEF ScalarToQore, IntegerTypes
    <2>2. Signed(w[2], LongLimit) \in LongRange
      BY <1>2, LimitsAssumption, SignedInRange DEF LongRange
    <2>3. QED
      BY <2>1, <2>2 DEF IsValue, TypeOf, QoreToScalar, IsNullOrNothing, ValueLeft, Error
  <1>3. CASE TypeOf(w) = "TIMESTAMP"
    <2>1. v = TimestampToDate(w[2])
      BY <1>3 DEF ScalarToQore, IntegerTypes
    <2>2. /\ v = <<"date", <<w[2] \div Thousand, (w[2] % Thousand) * Thousand>>>>
          /\ w[2] \div Thousand \in Int /\ (w[2] % Thousand) * Thousand \in 0 .. Thousand * Thousand - 1
      BY <1>3, <2>1, DateOfTimestamp
    <2>3. ValueLeft(v) = v
      BY <1>3, <2>1, DateReadLeft
    <2>4. PICK date \in Int \X (0 .. Thousand * Thousand - 1) : v = <<"date", date>>
      BY <2>2
    <2>5. QED
      BY <2>3, <2>4 DEF IsValue, TypeOf, QoreToScalar, IsNullOrNothing, Error
  <1>4. CASE TypeOf(w) \notin IntegerTypes \cup {"NULL_TYPE", "TIMESTAMP"}
    <2>1. \E x : \E type \in Plain : v = <<type, x>>
      BY <1>4 DEF ScalarToQore, ToText
    <2>2. v = <<v[1], v[2]>> /\ TypeOf(v) \in Plain
      BY <2>1 DEF TypeOf
    <2> HIDE DEF v
    <2>3. IsValue(v)
      BY <2>2 DEF IsValue
    <2>4. QoreToScalar(v) \in {<<"BOOLEAN", v[2]>>, <<"DOUBLE", v[2]>>, <<"STRING", v[2]>>, <<"BINARY", v[2]>>}
      BY <2>2 DEF QoreToScalar, IsNullOrNothing
    <2>5. QoreToScalar(v) # Error
      BY <2>4 DEF Error
    <2>6. ValueLeft(v) = v
      BY <2>2 DEF ValueLeft
    <2>7. QED
      BY <2>2, <2>3, <2>5, <2>6 DEF v
  <1>5. QED
    BY <1>1, <1>2, <1>3, <1>4

-----------------------------------------------------------------------------
(* Containers                                                              *)

\* A set of natural numbers has a least one.
LEMMA LeastNumber ==
    ASSUME NEW T, T \subseteq Nat, T # {}
    PROVE  \E m \in T : \A n \in T : m <= n
  <1>1. PICK m \in T : \A n \in T : ~(<<n, m>> \in OpToRel(<, Nat))
    BY NatLessThanWellFounded, WFMin
  <1>2. \A n \in T : ~(n < m)
    BY <1>1 DEF OpToRel
  <1>3. QED
    BY <1>2

\* Of values some are nested least.
LEMMA LeastNested ==
    ASSUME NEW S, S # {}, \A v \in S : Depth(v) \in Nat
    PROVE  \E v \in S : \A u \in S : Depth(v) <= Depth(u)
  <1> DEFINE depths == {Depth(v) : v \in S}
  <1>1. depths \subseteq Nat /\ depths # {}
    OBVIOUS
  <1> HIDE DEF depths
  <1>2. \E d \in depths : \A e \in depths : d <= e
    BY <1>1, LeastNumber
  <1>3. QED
    BY <1>2 DEF depths

\* What a hash is sent as.
LEMMA HashIsSent ==
    ASSUME NEW S, IsFiniteSet(S), NEW f, NEW keyType \in {"STRING", "SYMBOL"}, NEW entries,
           entries = EntriesFrom(keyType, S, f), MapOf(entries) # Error
    PROVE  /\ MapOf(entries) = <<"MAP", entries>>
           /\ HoldsAll(entries, S, f)
           /\ \A key \in S : f[key] # Error
  <1>1. /\ MapOf(entries) = <<"MAP", entries>>
        /\ \A i \in DOMAIN entries : entries[i][2] # Error
    BY DEF MapOf
  <1>2. HoldsAll(entries, S, f)
    BY MapComesBack
  <1>3. \A key \in S : f[key] # Error
    BY <1>1, <1>2 DEF HoldsAll
  <1>4. QED
    BY <1>1, <1>2, <1>3

\* The conversions of a hash and of properties are maps of entries.
LEMMA HashIsEntries ==
    ASSUME NEW v, IsFiniteSet(DOMAIN v[2])
    PROVE  HashToMap(v) =
             MapOf(EntriesFrom("STRING", DOMAIN v[2], [key \in DOMAIN v[2] |-> ElementToProton(v[2][key])]))
  <1> DEFINE S == DOMAIN v[2]
             f == [key \in S |-> ElementToProton(v[2][key])]
             keys == SetToSeq(S)
  <1>1. \A i \in DOMAIN keys : keys[i] \in S
    BY KeysOf
  <1>2. \A i \in DOMAIN keys : f[keys[i]] = ElementToProton(v[2][keys[i]])
    BY <1>1
  <1>3. HashToMap(v) = MapOf([i \in DOMAIN keys |-> <<<<"STRING", keys[i]>>, ElementToProton(v[2][keys[i]])>>])
    BY DEF HashToMap
  <1> HIDE DEF S, f, keys
  <1>4. [i \in DOMAIN keys |-> <<<<"STRING", keys[i]>>, ElementToProton(v[2][keys[i]])>>]
        = [i \in DOMAIN keys |-> <<<<"STRING", keys[i]>>, f[keys[i]]>>]
    BY <1>2
  <1>5. [i \in DOMAIN keys |-> <<<<"STRING", keys[i]>>, f[keys[i]]>>] = EntriesFrom("STRING", S, f)
    BY DEF EntriesFrom, keys
  <1>6. QED
    BY <1>3, <1>4, <1>5 DEF S, f

\* The entries of a map of properties.
LEMMA PropertyEntries ==
    ASSUME NEW v, IsFiniteSet(DOMAIN v[2]), NEW keyType
    PROVE  EntriesOf(keyType, v) =
             MapOf(EntriesFrom(keyType, DOMAIN v[2], [key \in DOMAIN v[2] |-> QoreToScalar(v[2][key])]))
  <1> DEFINE S == DOMAIN v[2]
             f == [key \in S |-> QoreToScalar(v[2][key])]
             keys == SetToSeq(S)
  <1>1. \A i \in DOMAIN keys : keys[i] \in S
    BY KeysOf
  <1>2. \A i \in DOMAIN keys : f[keys[i]] = QoreToScalar(v[2][keys[i]])
    BY <1>1
  <1>3. EntriesOf(keyType, v) = MapOf([i \in DOMAIN keys |-> <<<<keyType, keys[i]>>, QoreToScalar(v[2][keys[i]])>>])
    BY DEF EntriesOf
  <1> HIDE DEF S, f, keys
  <1>4. [i \in DOMAIN keys |-> <<<<keyType, keys[i]>>, QoreToScalar(v[2][keys[i]])>>]
        = [i \in DOMAIN keys |-> <<<<keyType, keys[i]>>, f[keys[i]]>>]
    BY <1>2
  <1>5. [i \in DOMAIN keys |-> <<<<keyType, keys[i]>>, f[keys[i]]>>] = EntriesFrom(keyType, S, f)
    BY DEF EntriesFrom, keys
  <1>6. QED
    BY <1>3, <1>4, <1>5 DEF S, f

\* A value whose elements come back comes back.
LEMMA ValueComesBackIf ==
    ASSUME NEW v \in Values, QoreToProton(v) # Error,
           \A u \in Values : Depth(u) < Depth(v) /\ QoreToProton(u) # Error =>
               ProtonToQore(QoreToProton(u)) = ValueLeft(u)
    PROVE  ProtonToQore(QoreToProton(v)) = ValueLeft(v)
  <1>1. IsValue(v)
    BY ValuesAssumption
  <1>2. ASSUME NEW u \in Values, Depth(u) < Depth(v), ElementToProton(u) # Error
        PROVE  ElementToQore(ElementToProton(u)) = ElementLeft(u)
    <2>1. ElementToProton(u) = QoreToProton(u) /\ ElementLeft(u) = ValueLeft(u)
      BY ValuesAssumption
    <2>2. QoreToProton(u) \in WireValues
      BY <1>2, <2>1, ValuesAssumption
    <2>3. ElementToQore(QoreToProton(u)) = ProtonToQore(QoreToProton(u))
      BY <2>2, WireAssumption
    <2>4. QED
      BY <1>2, <2>1, <2>3
  <1>3. CASE TypeOf(v) = "hash"
    <2> DEFINE S == DOMAIN v[2]
               f == [key \in S |-> ElementToProton(v[2][key])]
               entries == EntriesFrom("STRING", S, f)
    <2>1. /\ IsFiniteSet(S)
          /\ \A key \in S : v[2][key] \in Values /\ Depth(v[2][key]) < Depth(v)
      BY <1>1, <1>3, ValuesAssumption DEF IsValue
    <2>2. QoreToProton(v) = MapOf(entries)
      BY <1>3, <2>1, HashIsEntries DEF QoreToProton
    <2>3. \A key \in S : f[key] = ElementToProton(v[2][key])
      OBVIOUS
    <2> HIDE DEF S, f
    <2>4. MapOf(entries) = <<"MAP", entries>> /\ HoldsAll(entries, S, f) /\ \A key \in S : f[key] # Error
      BY <2>1, <2>2, HashIsSent
    <2> HIDE DEF entries
    <2>5. ProtonToQore(QoreToProton(v)) = <<"hash", ElementsRead(S, f)>>
      BY <2>2, <2>4 DEF ProtonToQore, HoldsAll, TypeOf
    <2>6. \A key \in S : ElementToQore(f[key]) = ElementLeft(v[2][key])
      BY <1>2, <2>1, <2>3, <2>4
    <2>7. ElementsRead(S, f) = [key \in S |-> ElementLeft(v[2][key])]
      BY <2>6 DEF ElementsRead
    <2>8. ValueLeft(v) = <<"hash", [key \in S |-> ElementLeft(v[2][key])]>>
      BY <1>3 DEF ValueLeft, S
    <2>9. QED
      BY <2>5, <2>7, <2>8
  <1>4. CASE TypeOf(v) = "list"
    <2> DEFINE elements == [i \in DOMAIN v[2] |-> ElementToProton(v[2][i])]
    <2>1. \A i \in DOMAIN v[2] : v[2][i] \in Values /\ Depth(v[2][i]) < Depth(v)
      <3>1. v[2] \in Seq(Values)
        BY <1>1, <1>4 DEF IsValue
      <3>2. \A i \in DOMAIN v[2] : Depth(v[2][i]) < Depth(v)
        BY <1>4, ValuesAssumption
      <3>3. QED
        BY <3>1, <3>2
    <2>2. QoreToProton(v) = <<"LIST", elements>> /\ Error \notin Range(elements)
      BY <1>4 DEF QoreToProton, ListToProton
    <2>3. \A i \in DOMAIN v[2] : elements[i] # Error
      BY <2>2 DEF Range
    <2>4. \A i \in DOMAIN v[2] : ElementToQore(elements[i]) = ElementLeft(v[2][i])
      BY <1>2, <2>1, <2>3
    <2>5. ProtonToQore(QoreToProton(v)) = <<"list", [i \in DOMAIN v[2] |-> ElementToQore(elements[i])]>>
      BY <2>2 DEF ProtonToQore, TypeOf
    <2>6. ValueLeft(v) = <<"list", [i \in DOMAIN v[2] |-> ElementLeft(v[2][i])]>>
      BY <1>4 DEF ValueLeft
    <2> HIDE DEF elements
    <2>7. QED
      BY <2>4, <2>5, <2>6
  <1>5. CASE TypeOf(v) = "number"
    <2>1. QoreToProton(v) = <<"DOUBLE", v[2].float>>
      BY <1>5 DEF QoreToProton
    <2>2. ProtonToQore(QoreToProton(v)) = <<"float", v[2].float>>
      BY <2>1 DEF ProtonToQore, ScalarToQore, IntegerTypes, TypeOf
    <2>3. ValueLeft(v) = <<"float", v[2].float>>
      BY <1>5 DEF ValueLeft
    <2>4. QED
      BY <2>2, <2>3
  <1>6. CASE TypeOf(v) \notin {"hash", "list", "number"}
    <2>1. QoreToProton(v) = QoreToScalar(v)
      BY <1>6 DEF QoreToProton
    <2>2. TypeOf(QoreToScalar(v)) \in ScalarTypes /\ ScalarToQore(QoreToScalar(v)) = ValueLeft(v)
      BY <1>1, <2>1, ScalarComesBack
    <2>3. ProtonToQore(QoreToScalar(v)) = ScalarToQore(QoreToScalar(v))
      BY <2>2 DEF ProtonToQore, ScalarTypes
    <2>4. QED
      BY <2>1, <2>2, <2>3
  <1>7. QED
    BY <1>3, <1>4, <1>5, <1>6

\* Every value that can be sent is read as what should be left of it.
LEMMA ValueComesBack ==
    ASSUME NEW v \in Values, QoreToProton(v) # Error
    PROVE  ProtonToQore(QoreToProton(v)) = ValueLeft(v)
  <1> DEFINE Wrong == {u \in Values : QoreToProton(u) # Error /\ ProtonToQore(QoreToProton(u)) # ValueLeft(u)}
  <1>1. \A u \in Values : Depth(u) \in Nat
    BY ValuesAssumption
  <1>2. ASSUME Wrong # {}
        PROVE  FALSE
    <2>1. \A u \in Wrong : Depth(u) \in Nat
      BY <1>1
    <2>2. PICK u \in Wrong : \A x \in Wrong : Depth(u) <= Depth(x)
      BY <1>2, <2>1, LeastNested
    <2>3. \A x \in Values : Depth(x) < Depth(u) /\ QoreToProton(x) # Error =>
              ProtonToQore(QoreToProton(x)) = ValueLeft(x)
      BY <1>1, <2>2
    <2>4. QED
      BY <2>2, <2>3, ValueComesBackIf
  <1>3. QED
    BY <1>2

\* A set of numbers up to k has a greatest one.
LEMMA GreatestNumber ==
    ASSUME NEW k \in Nat, NEW S, S \subseteq 1 .. k, S # {}
    PROVE  \E m \in S : \A n \in S : n <= m
  <1> DEFINE T == {k - n : n \in S}
  <1>1. T \subseteq Nat /\ T # {}
    <2>1. \A n \in S : n \in Nat /\ k - n \in Nat
      OBVIOUS
    <2>2. QED
      BY <2>1
  <1> HIDE DEF T
  <1>2. PICK m \in T : \A n \in T : m <= n
    BY <1>1, LeastNumber
  <1>3. PICK x \in S : m = k - x
    BY DEF T
  <1>4. \A n \in S : k - x <= k - n
    BY <1>2, <1>3 DEF T
  <1>5. \A n \in S : n <= x
    BY <1>4
  <1>6. QED
    BY <1>5

\* The last entry of a name is an entry.
LEMMA LastIsNamed ==
    ASSUME NEW entries, IsEntries(entries), NEW key, Named(entries, key) # {}
    PROVE  LastOf(entries, key) \in DOMAIN entries
  <1> DEFINE S == Named(entries, key)
  <1>1. Len(entries) \in Nat /\ DOMAIN entries = 1 .. Len(entries)
    BY DEF IsEntries
  <1>2. S \subseteq 1 .. Len(entries)
    BY <1>1 DEF Named
  <1>3. \E m \in S : \A n \in S : n <= m
    BY <1>1, <1>2, GreatestNumber
  <1>4. LastOf(entries, key) \in S
    BY <1>3 DEF LastOf
  <1>5. QED
    BY <1>1, <1>2, <1>4

\* A hash that is read has finitely many keys, and the value of each is that of an entry.
LEMMA MapIsRead ==
    ASSUME NEW entries, IsEntries(entries)
    PROVE  \E h : /\ MapToHash(<<"MAP", entries>>) = <<"hash", h>>
                  /\ h = [key \in DOMAIN h |-> h[key]]
                  /\ IsFiniteSet(DOMAIN h)
                  /\ \A key \in DOMAIN h : \E i \in DOMAIN entries : h[key] = ElementToQore(entries[i][2])
                  /\ DOMAIN h = {} => entries = <<>>
  <1> DEFINE S == {KeyText(entries[i][1]) : i \in DOMAIN entries}
             h == [key \in S |-> ElementToQore(entries[LastOf(entries, key)][2])]
  <1>1. Len(entries) \in Nat /\ DOMAIN entries = 1 .. Len(entries)
    BY DEF IsEntries
  <1>2. MapToHash(<<"MAP", entries>>) = <<"hash", h>>
    BY HashOfMap
  <1>3. IsFiniteSet(S)
    <2> DEFINE n == Len(entries)
               text == [i \in 1 .. n |-> KeyText(entries[i][1])]
    <2>1. IsFiniteSet(1 .. n)
      BY <1>1, FS_Interval
    <2>2. text \in [1 .. n -> S] /\ \A key \in S : \E i \in 1 .. n : text[i] = key
      BY <1>1
    <2> HIDE DEF text, n, S
    <2>3. text \in Surjection(1 .. n, S)
      BY <2>2 DEF Surjection
    <2>4. QED
      BY <2>1, <2>3, FS_Surjection
  <1>4. ASSUME NEW key \in S
        PROVE  LastOf(entries, key) \in DOMAIN entries
    <2>1. Named(entries, key) # {}
      BY DEF Named
    <2>2. QED
      BY <2>1, LastIsNamed
  <1>5. DOMAIN h = S /\ h = [key \in DOMAIN h |-> h[key]]
    OBVIOUS
  <1>6. \A key \in DOMAIN h : \E i \in DOMAIN entries : h[key] = ElementToQore(entries[i][2])
    BY <1>4
  <1>7. DOMAIN h = {} => entries = <<>>
    <2>1. ASSUME DOMAIN h = {}
          PROVE  DOMAIN entries = {}
      BY <1>5, <2>1
    <2>2. DOMAIN entries = {} => Len(entries) = 0
      BY <1>1
    <2>3. Len(entries) = 0 => entries = <<>>
      BY DEF IsEntries
    <2>4. QED
      BY <2>1, <2>2, <2>3
  <1> HIDE DEF h, S
  <1>8. QED
    BY <1>2, <1>3, <1>5, <1>6, <1>7

\* What is read of an element is a value of its own, and can be sent.
IsSentAgain(w) ==
    /\ QoreToProton(ProtonToQore(w)) # Error
    /\ ValueLeft(ProtonToQore(w)) = ProtonToQore(w)

\* A value whose elements can be sent again can be sent again.
LEMMA ValueIsSentAgainIf ==
    ASSUME NEW w \in WireValues,
           \A x \in WireValues : Depth(x) < Depth(w) => IsSentAgain(x)
    PROVE  IsSentAgain(w)
  <1> DEFINE v == ProtonToQore(w)
  <1>1. w = <<w[1], w[2]>> /\ v \in Values
    BY WireAssumption
  <1>2. ASSUME NEW x \in WireValues, Depth(x) < Depth(w)
        PROVE  /\ ElementToProton(ElementToQore(x)) # Error
               /\ ElementLeft(ElementToQore(x)) = ElementToQore(x)
    <2>1. IsSentAgain(x)
      BY <1>2
    <2>2. ElementToQore(x) = ProtonToQore(x) /\ ProtonToQore(x) \in Values
      BY WireAssumption
    <2>3. /\ ElementToProton(ProtonToQore(x)) = QoreToProton(ProtonToQore(x))
          /\ ElementLeft(ProtonToQore(x)) = ValueLeft(ProtonToQore(x))
      BY <2>2, ValuesAssumption
    <2>4. QED
      BY <2>1, <2>2, <2>3 DEF IsSentAgain
  <1>3. CASE TypeOf(w) = "MAP"
    <2> DEFINE entries == w[2]
    <2>1. IsEntries(entries) /\ \A i \in DOMAIN entries : Depth(entries[i][2]) < Depth(w)
      BY <1>3, WireAssumption
    <2>2. w = <<"MAP", entries>>
      BY <1>1, <1>3 DEF TypeOf
    <2>3. v = MapToHash(w)
      BY <1>3 DEF ProtonToQore
    <2> HIDE DEF entries, v
    <2>4. PICK h : /\ MapToHash(<<"MAP", entries>>) = <<"hash", h>>
                   /\ h = [key \in DOMAIN h |-> h[key]]
                   /\ IsFiniteSet(DOMAIN h)
                   /\ \A key \in DOMAIN h : \E i \in DOMAIN entries : h[key] = ElementToQore(entries[i][2])
      BY <2>1, MapIsRead
    <2>5. v = <<"hash", h>>
      BY <2>2, <2>3, <2>4
    <2>6. ASSUME NEW key \in DOMAIN h
          PROVE  ElementToProton(h[key]) # Error /\ ElementLeft(h[key]) = h[key]
      <3>1. PICK i \in DOMAIN entries : h[key] = ElementToQore(entries[i][2])
        BY <2>4
      <3>2. entries[i][2] \in WireValues /\ Depth(entries[i][2]) < Depth(w)
        BY <2>1 DEF IsEntries
      <3>3. QED
        BY <1>2, <3>1, <3>2
    <2>7. ValueLeft(v) = <<"hash", [key \in DOMAIN h |-> ElementLeft(h[key])]>>
      BY <2>5 DEF ValueLeft, TypeOf
    <2>8. [key \in DOMAIN h |-> ElementLeft(h[key])] = h
      BY <2>4, <2>6
    <2> DEFINE f == [key \in DOMAIN h |-> ElementToProton(h[key])]
               again == EntriesFrom("STRING", DOMAIN h, f)
    <2>9. QoreToProton(v) = MapOf(again)
      <3>1. v[2] = h
        BY <2>5
      <3>2. HashToMap(v) = MapOf(again)
        BY <2>4, <3>1, HashIsEntries
      <3>3. QED
        BY <2>5, <3>2 DEF QoreToProton, TypeOf
    <2>10. \A key \in DOMAIN h : f[key] # Error
      BY <2>6
    <2> HIDE DEF f
    <2>11. HoldsAll(again, DOMAIN h, f)
      BY <2>4, MapComesBack
    <2> HIDE DEF again
    <2>12. \A i \in DOMAIN again : again[i][2] # Error
      BY <2>10, <2>11 DEF HoldsAll
    <2>13. MapOf(again) # Error
      BY <2>12 DEF MapOf, Error
    <2>14. QED
      BY <2>5, <2>7, <2>8, <2>9, <2>13 DEF IsSentAgain, v
  <1>4. CASE TypeOf(w) \in {"LIST", "ARRAY"}
    <2> DEFINE l == [i \in DOMAIN w[2] |-> ElementToQore(w[2][i])]
    <2>1. v = <<"list", l>>
      BY <1>4 DEF ProtonToQore
    <2>2. \A i \in DOMAIN w[2] : w[2][i] \in WireValues /\ Depth(w[2][i]) < Depth(w)
      BY <1>4, WireAssumption
    <2>3. \A i \in DOMAIN l : ElementToProton(l[i]) # Error /\ ElementLeft(l[i]) = l[i]
      BY <1>2, <2>2
    <2>4. l = [i \in DOMAIN l |-> l[i]]
      OBVIOUS
    <2> HIDE DEF l, v
    <2>5. ValueLeft(v) = <<"list", [i \in DOMAIN l |-> ElementLeft(l[i])]>>
      BY <2>1 DEF ValueLeft, TypeOf
    <2>6. ValueLeft(v) = v
      BY <2>1, <2>3, <2>4, <2>5
    <2> DEFINE elements == [i \in DOMAIN l |-> ElementToProton(l[i])]
    <2>7. Error \notin Range(elements)
      BY <2>3 DEF Range
    <2>8. QoreToProton(v) = <<"LIST", elements>>
      BY <2>1, <2>7 DEF QoreToProton, ListToProton, TypeOf
    <2>9. QoreToProton(v) # Error
      BY <2>8 DEF Error
    <2>10. QED
      BY <2>6, <2>9 DEF IsSentAgain, v
  <1>5. CASE TypeOf(w) \notin {"MAP", "LIST", "ARRAY"}
    <2>1. v = ScalarToQore(w)
      BY <1>5 DEF ProtonToQore
    <2>2. TypeOf(w) \in IntegerTypes \cup {"TIMESTAMP"} => w[2] \in Int
      BY WireAssumption
    <2>3. /\ TypeOf(v) \notin {"hash", "list", "number"}
          /\ QoreToScalar(v) # Error
          /\ ValueLeft(v) = v
      BY <2>1, <2>2, ScalarIsRead
    <2>4. QoreToProton(v) = QoreToScalar(v)
      BY <2>3 DEF QoreToProton
    <2>5. QED
      BY <2>3, <2>4 DEF IsSentAgain
  <1>6. QED
    BY <1>3, <1>4, <1>5

\* Every value that is read can be sent again and loses nothing more.
LEMMA ValueIsSentAgain ==
    ASSUME NEW w \in WireValues
    PROVE  IsSentAgain(w)
  <1> DEFINE Wrong == {x \in WireValues : ~IsSentAgain(x)}
  <1>1. \A x \in WireValues : Depth(x) \in Nat
    BY WireAssumption
  <1>2. ASSUME Wrong # {}
        PROVE  FALSE
    <2>1. \A x \in Wrong : Depth(x) \in Nat
      BY <1>1
    <2>2. PICK x \in Wrong : \A y \in Wrong : Depth(x) <= Depth(y)
      BY <1>2, <2>1, LeastNested
    <2>3. \A y \in WireValues : Depth(y) < Depth(x) => IsSentAgain(y)
      BY <1>1, <2>2
    <2>4. QED
      BY <2>2, <2>3, ValueIsSentAgainIf
  <1>3. QED
    BY <1>2

-----------------------------------------------------------------------------
(* Properties                                                              *)

\* What is read of a property, and whether it is read at all.
PropertyRead(name, w) == IF name \in IdProperties THEN MessageIdToQore(w) ELSE ProtonToQore(w)
IsKept(name, v) == v \notin MeansUnset \/ (name \in IdProperties /\ v # Nothing)

\* A property that is sent has its type in AMQP, and is read as what should be left of it.
PropertySurvives(name, v) ==
    /\ IsWireProperty(name, Applied(name, v))
    /\ Applied(name, v) # Unset(name) <=> IsKept(name, PropertyLeft(name, v))
    /\ Applied(name, v) # Unset(name) => PropertyRead(name, Applied(name, v)) = PropertyLeft(name, v)

\* The number of 32 bits that has the low bits of a number.
LEMMA SequenceIsSigned ==
    ASSUME NEW n \in Int
    PROVE  SequenceLeft(n) = Signed(n, IntLimit)
  <1> DEFINE L == IntLimit
             k == 2 * L
             s == Signed(n, L)
  <1>1. L \in Nat \ {0} /\ k \in Nat \ {0}
    BY LimitsAssumption
  <1>2. s \in -L .. L - 1
    BY <1>1, SignedInRange
  <1>3. s = ((n + L) % k) - L
    BY DEF Signed
  <1> HIDE DEF s, L, k
  <1>4. n + L \in Int
    BY <1>1
  <1>5. (n + L) \div k \in Int /\ n + L = k * ((n + L) \div k) + ((n + L) % k) /\ (n + L) % k \in 0 .. k - 1
    BY <1>1, <1>4, Division, Zenon
  <1>6. PICK q \in Int, r \in Int : n + L = k * q + r /\ s = r - L
    <2>1. (n + L) % k \in Int
      BY <1>1, <1>5
    <2>2. QED
      BY <1>3, <1>5, <2>1, Zenon
  <1>7. PICK j \in Int : j = -q
    BY <1>6
  <1>8. s - n = k * j + 0
    <2>1. k * j = -(k * q) /\ k * q \in Int
      BY <1>1, <1>7
    <2>2. QED
      BY <1>1, <1>6, <2>1
  <1>9. (s - n) % k = 0
    <2>1. 0 \in 0 .. k - 1
      BY <1>1
    <2>2. (k * j + 0) % k = 0
      BY <1>1, <2>1, DivisionIsUnique, Zenon
    <2>3. QED
      BY <1>8, <2>2, Zenon
  <1>10. ASSUME NEW t \in -L .. L - 1, (t - n) % k = 0
        PROVE  t = s
    <2>1. t - n \in Int /\ s \in Int /\ t \in Int
      BY <1>1, <1>2
    <2>2. PICK p \in Int : t - n = k * p
      <3>1. t - n = k * ((t - n) \div k) + 0 /\ (t - n) \div k \in Int
        BY <1>1, <1>10, <2>1, Division
      <3>2. QED
        BY <3>1, <1>1
    <2>3. t - s = k * (p + q)
      <3>1. k * (p + q) = k * p + k * q /\ k * (-q) = -(k * q) /\ k * q \in Int /\ k * p \in Int
        BY <1>1
      <3>2. QED
        BY <1>1, <1>6, <2>1, <2>2, <3>1
    <2>4. t - s < k /\ t - s > -k
      BY <1>1, <1>2 DEF k
    <2>5. PICK c \in Int : c = p + q
      OBVIOUS
    <2>6. c >= 1 => k * c >= k * 1
      BY <1>1, MultipleOrder
    <2>7. c <= -1 => k * c <= k * (-1)
      BY <1>1, MultipleOrder
    <2>8. c = 0
      BY <1>1, <2>1, <2>3, <2>4, <2>5, <2>6, <2>7
    <2>9. QED
      BY <1>1, <2>1, <2>3, <2>5, <2>8
  <1>11. SequenceLeft(n) = s
    <2>1. SequenceLeft(n) = CHOOSE t \in -L .. L - 1 : (t - n) % k = 0
      BY DEF SequenceLeft, IntRange, L, k
    <2>2. QED
      BY <1>2, <1>9, <1>10, <2>1
  <1>12. QED
    BY <1>11 DEF s, L

\* The classes of properties have no names in common.
LEMMA NamesDiffer ==
    /\ IdProperties \cap (TextProperties \cup TimeProperties \cup MapProperties \cup {"group_sequence"}) = {}
    /\ TextProperties \cap (TimeProperties \cup MapProperties \cup {"group_sequence"}) = {}
    /\ TimeProperties \cap (MapProperties \cup {"group_sequence"}) = {}
    /\ "group_sequence" \notin MapProperties
    /\ PropertyNames =
         IdProperties \cup TextProperties \cup TimeProperties \cup MapProperties \cup {"group_sequence"}
    /\ MapProperties = {"application_properties"} \cup Annotations
    /\ "application_properties" \notin Annotations
  BY DEF IdProperties, TextProperties, TimeProperties, MapProperties, Annotations, PropertyNames

\* The footer is not one of the properties that are sent.
LEMMA FooterIsNoName == "footer" \notin PropertyNames
  BY NamesDiffer DEF IdProperties, TextProperties, TimeProperties, MapProperties, Annotations

\* What Proton has for a property that is not set, by its class.
LEMMA UnsetOf ==
    ASSUME NEW name \in PropertyNames
    PROVE  /\ name \in IdProperties => Unset(name) = Null
           /\ name \in TextProperties => Unset(name) = <<"STRING", Empty>>
           /\ name \in TimeProperties => Unset(name) = <<"TIMESTAMP", 0>>
           /\ name \in MapProperties => Unset(name) = <<"MAP", <<>>>>
           /\ name = "group_sequence" => Unset(name) = <<"INT", 0>>
  BY NamesDiffer DEF Unset

\* A property that is not set has its type in AMQP.
LEMMA UnsetIsWire ==
    ASSUME NEW name \in PropertyNames
    PROVE  IsWireProperty(name, Unset(name)) /\ Unset(name) # Error
  <1>1. CASE name \in IdProperties
    <2>1. Unset(name) = Null
      BY <1>1, UnsetOf
    <2>2. name # "application_properties"
      BY <1>1, NamesDiffer
    <2>4. QED
      BY <1>1, <2>1, <2>2 DEF IsWireProperty, TypeOf, Null, Error
  <1>2. CASE name \in TextProperties
    <2>1. Unset(name) = <<"STRING", Empty>>
      BY <1>2, UnsetOf
    <2>2. name # "application_properties"
      BY <1>2, NamesDiffer
    <2>4. QED
      BY <1>2, <2>1, <2>2 DEF IsWireProperty, TypeOf, Error
  <1>3. CASE name \in TimeProperties
    <2>1. Unset(name) = <<"TIMESTAMP", 0>>
      BY <1>3, UnsetOf
    <2>2. name # "application_properties"
      BY <1>3, NamesDiffer
    <2>4. QED
      BY <1>3, <2>1, <2>2 DEF IsWireProperty, TypeOf, Error
  <1>4. CASE name = "group_sequence"
    <2>1. Unset(name) = <<"INT", 0>>
      BY <1>4, UnsetOf
    <2>2. name # "application_properties"
      BY <1>4, NamesDiffer
    <2>3. 0 \in IntRange
      BY LimitsAssumption DEF IntRange
    <2>4. QED
      BY <1>4, <2>1, <2>2, <2>3 DEF IsWireProperty, TypeOf, Error
  <1>5. CASE name \in MapProperties
    <2>1. Unset(name) = <<"MAP", <<>>>>
      BY <1>5, UnsetOf
    <2>3. IsEntries(<<>>) /\ DOMAIN <<>> = {}
      BY DEF IsEntries
    <2>4. QED
      BY <1>5, <2>1, <2>3 DEF IsWireProperty, TypeOf, Error
  <1>6. QED
    BY <1>1, <1>2, <1>3, <1>4, <1>5, NamesDiffer

\* What is left of a property, by its class.
LEMMA LeftOf ==
    ASSUME NEW name \in PropertyNames, NEW v
    PROVE  /\ name # "group_sequence" => PropertyLeft(name, v) = ValueLeft(v)
           /\ TypeOf(v) # "int" => PropertyLeft(name, v) = ValueLeft(v)
           /\ name = "group_sequence" /\ TypeOf(v) = "int" => PropertyLeft(name, v) = <<"int", SequenceLeft(v[2])>>
  BY DEF PropertyLeft

\* What a property is sent as, by its class.
LEMMA AppliedOf ==
    ASSUME NEW name \in PropertyNames, NEW v
    PROVE  /\ IsNullOrNothing(v) => Applied(name, v) = Unset(name)
           /\ ~IsNullOrNothing(v) =>
                /\ name \in IdProperties => Applied(name, v) = QoreToMessageId(v)
                /\ name \in TextProperties \cup TimeProperties => Applied(name, v) = QoreToScalar(v)
                /\ name = "application_properties" => Applied(name, v) = EntriesOf("STRING", v)
                /\ name \in Annotations => Applied(name, v) = EntriesOf("SYMBOL", v)
                /\ name = "group_sequence" => Applied(name, v) = <<"INT", Signed(v[2], IntLimit)>>
  BY NamesDiffer DEF Applied

\* A property that an application sets to nothing or to NULL is not set.
LEMMA NothingSurvives ==
    ASSUME NEW name \in PropertyNames, NEW v, IsProperty(name, v), IsNullOrNothing(v)
    PROVE  PropertySurvives(name, v)
  <1>1. v \in {Nothing, QoreNull}
    BY DEF IsProperty, IsValue, IsNullOrNothing
  <1>2. Applied(name, v) = Unset(name)
    BY AppliedOf
  <1>3. IsWireProperty(name, Unset(name))
    BY UnsetIsWire
  <1>4. PropertyLeft(name, v) = Nothing
    <2>1. v[1] \in {"nothing", "NULL"} /\ TypeOf(v) = v[1]
      BY <1>1 DEF Nothing, QoreNull, TypeOf
    <2>2. PropertyLeft(name, v) = ValueLeft(v)
      BY <2>1, LeftOf
    <2>3. CASE v = Nothing
      <3>1. TypeOf(v) = "nothing"
        BY <2>3 DEF Nothing, TypeOf
      <3>2. ValueLeft(v) = v
        BY <3>1 DEF ValueLeft
      <3>3. QED
        BY <2>2, <2>3, <3>2
    <2>4. CASE v = QoreNull
      <3>1. TypeOf(v) = "NULL"
        BY <2>4 DEF QoreNull, TypeOf
      <3>2. QED
        BY <2>2, <3>1 DEF ValueLeft
    <2>5. QED
      BY <1>1, <2>3, <2>4
  <1>5. ~IsKept(name, Nothing)
    BY DEF IsKept, MeansUnset
  <1>6. QED
    BY <1>2, <1>3, <1>4, <1>5 DEF PropertySurvives

\* An identifier comes back with its sign, however large it is.
LEMMA IdSurvives ==
    ASSUME NEW name \in IdProperties, NEW v, IsProperty(name, v), ~IsNullOrNothing(v),
           Applied(name, v) # Error
    PROVE  PropertySurvives(name, v)
  <1> DEFINE w == Applied(name, v)
  <1>0. /\ name \in PropertyNames /\ name # "group_sequence" /\ name # "application_properties"
        /\ name \notin MapProperties
    BY NamesDiffer DEF MapProperties
  <1>1. IsValue(v) /\ v = <<v[1], v[2]>>
    BY DEF IsProperty, IsValue
  <1>2. w = QoreToMessageId(v)
    BY <1>0, AppliedOf
  <1>3. TypeOf(v) \in {"int", "string", "binary"}
    BY <1>2 DEF QoreToMessageId
  <1>4. PropertyLeft(name, v) = v
    BY <1>0, <1>3, LeftOf DEF ValueLeft
  <1>5. IsKept(name, v)
    BY <1>3 DEF IsKept, Nothing, TypeOf
  <1>6. PropertyRead(name, w) = ScalarToQore(w)
    BY DEF PropertyRead, MessageIdToQore
  <1>7. CASE TypeOf(v) = "int"
    <2>1. w = <<"ULONG", Unsigned(v[2], LongLimit)>>
      BY <1>2, <1>7 DEF QoreToMessageId
    <2>2. /\ Unsigned(v[2], LongLimit) \in 0 .. 2 * LongLimit - 1
          /\ Signed(Unsigned(v[2], LongLimit), LongLimit) = v[2]
      BY <1>1, <1>7, LimitsAssumption, SignedOfUnsigned DEF IsValue, LongRange
    <2>3. ScalarToQore(w) = v
      BY <1>1, <1>7, <2>1, <2>2 DEF ScalarToQore, IntegerTypes, TypeOf
    <2> DEFINE u == Unsigned(v[2], LongLimit)
    <2> HIDE DEF w, u
    <2>4. w = <<"ULONG", u>> /\ u \in 0 .. 2 * LongLimit - 1
      BY <2>1, <2>2 DEF u
    <2>5. IsWireProperty(name, w)
      BY <1>0, <2>4 DEF IsWireProperty, TypeOf
    <2>6. w # Unset(name)
      BY <1>0, <2>4, UnsetOf DEF Null
    <2>7. QED
      BY <1>4, <1>5, <1>6, <2>3, <2>5, <2>6 DEF PropertySurvives, w
  <1>8. CASE TypeOf(v) \in {"string", "binary"}
    <2>1. w = QoreToScalar(v) /\ w # Error
      BY <1>2, <1>8 DEF QoreToMessageId
    <2>2. TypeOf(w) \in {"STRING", "BINARY"} /\ w = <<w[1], w[2]>>
      <3>1. w \in {<<"STRING", v[2]>>, <<"BINARY", v[2]>>}
        BY <1>8, <2>1 DEF QoreToScalar, IsNullOrNothing
      <3>2. QED
        BY <3>1 DEF TypeOf
    <2>3. ScalarToQore(w) = v
      BY <1>1, <1>8, <2>1, ScalarComesBack DEF ValueLeft
    <2> HIDE DEF w
    <2>4. IsWireProperty(name, w)
      BY <1>0, <2>2 DEF IsWireProperty
    <2>5. w # Unset(name)
      BY <1>0, <2>2, UnsetOf DEF Null, TypeOf
    <2>6. QED
      BY <1>4, <1>5, <1>6, <2>3, <2>4, <2>5 DEF PropertySurvives, w
  <1>9. QED
    BY <1>3, <1>7, <1>8

\* A text comes back.
LEMMA TextSurvives ==
    ASSUME NEW name \in TextProperties, NEW v, IsProperty(name, v), TypeOf(v) = "string"
    PROVE  PropertySurvives(name, v)
  <1> DEFINE w == Applied(name, v)
  <1>0. /\ name \in PropertyNames /\ name # "group_sequence" /\ name # "application_properties"
        /\ name \notin MapProperties /\ name \notin IdProperties
    BY NamesDiffer DEF MapProperties
  <1>1. IsValue(v) /\ v = <<"string", v[2]>>
    BY DEF IsProperty, IsValue, TypeOf
  <1>2. w = <<"STRING", v[2]>>
    BY <1>0, AppliedOf DEF QoreToScalar, IsNullOrNothing
  <1>3. PropertyLeft(name, v) = v
    BY <1>0, LeftOf DEF ValueLeft
  <1>4. w # Unset(name) <=> IsKept(name, v)
    <2>1. w # Unset(name) <=> v[2] # Empty
      BY <1>0, <1>2, UnsetOf
    <2>2. IsKept(name, v) <=> v[2] # Empty
      BY <1>0, <1>1 DEF IsKept, MeansUnset, Nothing
    <2>3. QED
      BY <2>1, <2>2
  <1>5. PropertyRead(name, w) = v
    <2>1. PropertyRead(name, w) = ProtonToQore(w)
      BY <1>0 DEF PropertyRead
    <2>2. ProtonToQore(<<"STRING", v[2]>>) = <<"string", v[2]>>
      BY DEF ProtonToQore, ScalarToQore, IntegerTypes, TypeOf
    <2>3. QED
      BY <1>1, <1>2, <2>1, <2>2
  <1>6. IsWireProperty(name, <<"STRING", v[2]>>)
    BY <1>0 DEF IsWireProperty, TypeOf
  <1>7. QED
    BY <1>2, <1>3, <1>4, <1>5, <1>6 DEF PropertySurvives

\* A time comes back to the millisecond before it.
LEMMA TimeSurvives ==
    ASSUME NEW name \in TimeProperties, NEW v, IsProperty(name, v), TypeOf(v) \in {"date", "relative"}
    PROVE  PropertySurvives(name, v)
  <1> DEFINE w == Applied(name, v)
             ms == DateToTimestamp(v[2])
  <1>0. /\ name \in PropertyNames /\ name # "group_sequence" /\ name # "application_properties"
        /\ name \notin MapProperties /\ name \notin IdProperties /\ name \notin TextProperties
    BY NamesDiffer DEF MapProperties
  <1>1. IsValue(v)
    BY DEF IsProperty
  <1>2. w = <<"TIMESTAMP", ms>>
    BY <1>0, AppliedOf DEF QoreToScalar, IsNullOrNothing
  <1>3. ms \in Int /\ TimestampToDate(ms) = ValueLeft(v) /\ \E date : ValueLeft(v) = <<"date", date>>
    BY <1>1, TimestampOfValue
  <1>4. PropertyLeft(name, v) = TimestampToDate(ms)
    BY <1>0, <1>3, LeftOf
  <1> HIDE DEF w, ms
  <1>5. w # Unset(name) <=> IsKept(name, TimestampToDate(ms))
    <2>1. w # Unset(name) <=> ms # 0
      <3>1. Unset(name) = <<"TIMESTAMP", 0>>
        BY <1>0, UnsetOf
      <3>2. ms \in Int
        BY <1>3
      <3>3. QED
        BY <1>2, <3>1, <3>2
    <2>2. TimestampToDate(ms) = <<"date", <<0, 0>>>> <=> ms = 0
      BY <1>3, EpochIsZero
    <2>3. IsKept(name, TimestampToDate(ms)) <=> TimestampToDate(ms) # <<"date", <<0, 0>>>>
      <3>1. PICK date : TimestampToDate(ms) = <<"date", date>>
        BY <1>3
      <3>2. TypeOf(TimestampToDate(ms)) = "date"
        BY <3>1 DEF TypeOf
      <3>3. \A v0 \in MeansUnset : TypeOf(v0) = "date" => v0 = <<"date", <<0, 0>>>>
        BY DEF MeansUnset, Nothing, TypeOf
      <3>4. <<"date", <<0, 0>>>> \in MeansUnset
        BY DEF MeansUnset
      <3>5. QED
        BY <1>0, <3>2, <3>3, <3>4 DEF IsKept
    <2>4. QED
      BY <2>1, <2>2, <2>3
  <1>6. PropertyRead(name, w) = TimestampToDate(ms)
    <2>1. PropertyRead(name, w) = ProtonToQore(w)
      BY <1>0 DEF PropertyRead
    <2>2. ProtonToQore(w) = TimestampToDate(ms)
      BY <1>2 DEF ProtonToQore, ScalarToQore, IntegerTypes, TypeOf
    <2>3. QED
      BY <2>1, <2>2
  <1>7. IsWireProperty(name, w)
    BY <1>0, <1>2, <1>3 DEF IsWireProperty, TypeOf
  <1>8. QED
    BY <1>4, <1>5, <1>6, <1>7 DEF PropertySurvives, w

\* A sequence number keeps its low bits.
LEMMA SequenceSurvives ==
    ASSUME NEW v, IsProperty("group_sequence", v), TypeOf(v) = "int"
    PROVE  PropertySurvives("group_sequence", v)
  <1> DEFINE name == "group_sequence"
             w == Applied(name, v)
             n == Signed(v[2], IntLimit)
  <1>0. /\ name \in PropertyNames /\ name # "application_properties"
        /\ name \notin MapProperties /\ name \notin IdProperties /\ name \notin TextProperties
        /\ name \notin TimeProperties /\ name \notin Annotations
    BY NamesDiffer DEF MapProperties
  <1>1. v[2] \in Int
    BY DEF IsProperty, IsValue, LongRange
  <1>2. w = <<"INT", n>>
    BY <1>0, AppliedOf DEF IsNullOrNothing
  <1>3. PropertyLeft(name, v) = <<"int", n>>
    BY <1>0, <1>1, LeftOf, SequenceIsSigned
  <1>4. n \in IntRange
    BY <1>1, LimitsAssumption, SignedInRange DEF IntRange
  <1> HIDE DEF w, n
  <1>5. n \in -LongLimit .. LongLimit - 1 /\ LongLimit \in Nat \ {0}
    BY <1>4, LimitsAssumption DEF IntRange
  <1>6. Signed(n, LongLimit) = n
    BY <1>5, SignedSame
  <1>7. w # Unset(name) <=> IsKept(name, <<"int", n>>)
    <2>1. w # Unset(name) <=> n # 0
      BY <1>0, <1>2, UnsetOf
    <2>2. IsKept(name, <<"int", n>>) <=> n # 0
      BY <1>0 DEF IsKept, MeansUnset, Nothing
    <2>3. QED
      BY <2>1, <2>2
  <1>8. PropertyRead(name, w) = <<"int", n>>
    <2>1. PropertyRead(name, w) = ProtonToQore(w)
      BY <1>0 DEF PropertyRead
    <2>2. ProtonToQore(w) = <<"int", n>>
      BY <1>2, <1>6 DEF ProtonToQore, ScalarToQore, IntegerTypes, TypeOf
    <2>3. QED
      BY <2>1, <2>2
  <1>9. IsWireProperty(name, w)
    BY <1>0, <1>2, <1>4 DEF IsWireProperty, TypeOf
  <1>10. QED
    BY <1>3, <1>7, <1>8, <1>9 DEF PropertySurvives, w

\* A map of properties comes back.
LEMMA MapSurvives ==
    ASSUME NEW name \in MapProperties, NEW v, IsProperty(name, v), TypeOf(v) = "hash", Applied(name, v) # Error
    PROVE  PropertySurvives(name, v)
  <1> DEFINE w == Applied(name, v)
             S == DOMAIN v[2]
             f == [key \in S |-> QoreToScalar(v[2][key])]
  <1>0. /\ name \in PropertyNames /\ name # "group_sequence"
        /\ name \notin TextProperties /\ name \notin IdProperties /\ name \notin TimeProperties
        /\ name = "application_properties" \/ name \in Annotations
    BY NamesDiffer
  <1>1. v[2] \in [S -> Values] /\ IsFiniteSet(S)
    BY DEF IsProperty, IsValue
  <1>2. PICK keyType \in {"STRING", "SYMBOL"} : w = EntriesOf(keyType, v)
    BY <1>0, AppliedOf DEF IsNullOrNothing
  <1> DEFINE entries == EntriesFrom(keyType, S, f)
  <1>3. w = MapOf(entries)
    BY <1>1, <1>2, PropertyEntries
  <1>4. \A key \in S : f[key] = QoreToScalar(v[2][key])
    OBVIOUS
  <1> HIDE DEF w, f
  <1>5. MapOf(entries) = <<"MAP", entries>> /\ HoldsAll(entries, S, f) /\ \A key \in S : f[key] # Error
    BY <1>1, <1>3, HashIsSent DEF w
  <1> HIDE DEF entries
  <1>6. ASSUME NEW key \in S
        PROVE  /\ f[key] \in WireValues /\ TypeOf(f[key]) \in ScalarTypes
               /\ ElementToQore(f[key]) = ElementLeft(v[2][key])
    <2> DEFINE x == v[2][key]
    <2>1. x \in Values /\ IsValue(x) /\ f[key] = QoreToScalar(x) /\ f[key] # Error
      BY <1>1, <1>4, <1>5, ValuesAssumption
    <2> HIDE DEF x
    <2>2. /\ TypeOf(f[key]) \in ScalarTypes /\ TypeOf(x) \notin {"hash", "list", "number"}
          /\ ScalarToQore(f[key]) = ValueLeft(x)
      BY <2>1, ScalarComesBack
    <2>3. QoreToProton(x) = f[key]
      BY <2>1, <2>2 DEF QoreToProton
    <2>4. f[key] \in WireValues /\ ElementLeft(x) = ValueLeft(x)
      BY <2>1, <2>3, ValuesAssumption
    <2>5. ElementToQore(f[key]) = ProtonToQore(f[key])
      BY <2>4, WireAssumption
    <2>6. ProtonToQore(f[key]) = ScalarToQore(f[key])
      BY <2>2 DEF ProtonToQore, ScalarTypes
    <2>7. QED
      BY <2>2, <2>4, <2>5, <2>6 DEF x
  <1>7. w = <<"MAP", entries>>
    BY <1>3, <1>5
  <1>8. IsWireProperty(name, w)
    <2>1. \A i \in DOMAIN entries : entries[i][2] \in WireValues /\ TypeOf(entries[i][2]) \in ScalarTypes
      BY <1>5, <1>6 DEF HoldsAll
    <2>2. IsEntries(entries)
      BY <1>5, <2>1 DEF HoldsAll, IsEntries
    <2>3. w[2] = entries /\ TypeOf(w) = "MAP" /\ w = <<w[1], w[2]>>
      BY <1>7 DEF TypeOf
    <2>4. \A i \in DOMAIN entries : TypeOf(entries[i][2]) \notin {"MAP", "LIST", "ARRAY"}
      BY <2>1 DEF ScalarTypes
    <2>5. QED
      BY <2>2, <2>3, <2>4 DEF IsWireProperty
  <1> DEFINE left == [key \in S |-> ElementLeft(v[2][key])]
  <1>9. PropertyLeft(name, v) = <<"hash", left>>
    BY <1>0, LeftOf DEF ValueLeft
  <1>10. left = <<>> <=> S = {}
    <2>1. S = {} => left = <<>>
      OBVIOUS
    <2>2. left = <<>> => DOMAIN left = {}
      OBVIOUS
    <2>3. DOMAIN left = S
      OBVIOUS
    <2>4. QED
      BY <2>1, <2>2, <2>3
  <1>11. ElementsRead(S, f) = left
    BY <1>6 DEF ElementsRead
  <1> HIDE DEF left
  <1>12. w # Unset(name) <=> IsKept(name, <<"hash", left>>)
    <2>1. w # Unset(name) <=> S # {}
      BY <1>0, <1>5, <1>7, UnsetOf DEF HoldsAll
    <2>2. IsKept(name, <<"hash", left>>) <=> left # <<>>
      BY <1>0 DEF IsKept, MeansUnset, Nothing
    <2>3. QED
      BY <1>10, <2>1, <2>2
  <1>13. PropertyRead(name, w) = <<"hash", left>>
    <2>1. PropertyRead(name, w) = ProtonToQore(w)
      BY <1>0 DEF PropertyRead
    <2>2. ProtonToQore(w) = MapToHash(w)
      BY <1>7 DEF ProtonToQore, TypeOf
    <2>3. QED
      BY <1>5, <1>7, <1>11, <2>1, <2>2 DEF HoldsAll
  <1>14. QED
    BY <1>8, <1>9, <1>12, <1>13 DEF PropertySurvives, w

\* Every property that can be sent survives.
LEMMA PropertiesSurvive ==
    ASSUME NEW name \in PropertyNames, NEW v, IsProperty(name, v), Applied(name, v) # Error
    PROVE  PropertySurvives(name, v)
  <1>1. CASE IsNullOrNothing(v)
    BY <1>1, NothingSurvives
  <1>2. CASE ~IsNullOrNothing(v)
    <2>1. CASE name \in IdProperties
      BY <1>2, <2>1, IdSurvives
    <2>2. CASE name \in TextProperties
      <3>1. TypeOf(v) = "string"
        BY <1>2, <2>2, NamesDiffer DEF IsProperty
      <3>2. QED
        BY <2>2, <3>1, TextSurvives
    <2>3. CASE name \in TimeProperties
      <3>1. TypeOf(v) \in {"date", "relative"}
        BY <1>2, <2>3, NamesDiffer DEF IsProperty
      <3>2. QED
        BY <2>3, <3>1, TimeSurvives
    <2>4. CASE name \in MapProperties
      <3>1. TypeOf(v) = "hash"
        BY <1>2, <2>4, NamesDiffer DEF IsProperty
      <3>2. QED
        BY <2>4, <3>1, MapSurvives
    <2>5. CASE name = "group_sequence"
      <3>1. TypeOf(v) = "int"
        BY <1>2, <2>5, NamesDiffer DEF IsProperty
      <3>2. QED
        BY <2>5, <3>1, SequenceSurvives
    <2>6. QED
      BY <2>1, <2>2, <2>3, <2>4, <2>5, NamesDiffer
  <1>3. QED
    BY <1>1, <1>2

\* The values of a hash that are no scalars.
HasCompound(v) == \E key \in DOMAIN v[2] : TypeOf(v[2][key]) \in {"list", "hash"}

\* A property that is read has its type in Qore and loses nothing more; what cannot be
\* sent again are annotations that are not scalars.
SentAgain(name, v) ==
    /\ IsProperty(name, v)
    /\ PropertyLeft(name, v) = v
    /\ IsKept(name, v)
    /\ Applied(name, v) = Error => name \in Annotations /\ HasCompound(v)

\* An identifier that is read.
LEMMA IdIsRead ==
    ASSUME NEW name \in IdProperties, NEW w, IsWireProperty(name, w), w # Unset(name)
    PROVE  SentAgain(name, PropertyRead(name, w))
  <1> DEFINE v == PropertyRead(name, w)
  <1>0. /\ name \in PropertyNames /\ name # "group_sequence"
        /\ name \notin MapProperties /\ name \notin TextProperties /\ name \notin TimeProperties
        /\ name \notin Annotations /\ name # "application_properties"
    BY NamesDiffer DEF MapProperties
  <1>1. v = ScalarToQore(w)
    BY DEF PropertyRead, MessageIdToQore
  <1>2. TypeOf(w) \in {"STRING", "BINARY", "UUID", "ULONG"} /\ (TypeOf(w) = "ULONG" => w[2] \in Int)
    BY <1>0, UnsetOf, LimitsAssumption DEF IsWireProperty
  <1>3. TypeOf(w) \in IntegerTypes \cup {"TIMESTAMP"} => w[2] \in Int
    BY <1>2 DEF IntegerTypes
  <1>4. IsValue(v) /\ ValueLeft(v) = v
    BY <1>1, <1>3, ScalarIsRead
  <1>5. TypeOf(v) \in {"string", "binary", "int"}
    BY <1>1, <1>2 DEF ScalarToQore, IntegerTypes, TypeOf, ToText
  <1> HIDE DEF v
  <1>6. Applied(name, v) # Error
    <2>1. Applied(name, v) = QoreToMessageId(v)
      BY <1>0, <1>5, AppliedOf DEF IsNullOrNothing
    <2>2. Applied(name, v) \in {<<"STRING", v[2]>>, <<"BINARY", v[2]>>, <<"ULONG", Unsigned(v[2], LongLimit)>>}
      BY <1>5, <2>1 DEF QoreToMessageId, QoreToScalar, IsNullOrNothing
    <2>3. QED
      BY <2>2 DEF Error
  <1>7. IsKept(name, v)
    BY <1>5 DEF IsKept, Nothing, TypeOf
  <1>8. PropertyLeft(name, v) = v
    BY <1>0, <1>4, LeftOf
  <1>9. IsProperty(name, v)
    BY <1>4 DEF IsProperty
  <1>10. QED
    BY <1>6, <1>7, <1>8, <1>9 DEF SentAgain, v

\* A text that is read.
LEMMA TextIsRead ==
    ASSUME NEW name \in TextProperties, NEW w, IsWireProperty(name, w), w # Unset(name)
    PROVE  SentAgain(name, PropertyRead(name, w))
  <1> DEFINE v == PropertyRead(name, w)
  <1>0. /\ name \in PropertyNames /\ name # "group_sequence" /\ name \notin IdProperties
        /\ name \notin MapProperties /\ name \notin TimeProperties
        /\ name \notin Annotations /\ name # "application_properties"
    BY NamesDiffer DEF MapProperties
  <1>1. TypeOf(w) = "STRING" /\ w = <<w[1], w[2]>> /\ w # <<"STRING", Empty>>
    BY <1>0, UnsetOf DEF IsWireProperty
  <1>2. v = <<"string", w[2]>> /\ w[2] # Empty
    BY <1>0, <1>1 DEF PropertyRead, ProtonToQore, ScalarToQore, IntegerTypes, TypeOf
  <1> HIDE DEF v
  <1>3. IsValue(v) /\ TypeOf(v) = "string"
    BY <1>2 DEF IsValue, TypeOf
  <1>4. Applied(name, v) # Error
    <2>1. Applied(name, v) = QoreToScalar(v)
      BY <1>0, <1>3, AppliedOf DEF IsNullOrNothing
    <2>2. QED
      BY <1>3, <2>1 DEF QoreToScalar, IsNullOrNothing, Error
  <1>5. IsKept(name, v)
    BY <1>2 DEF IsKept, Nothing, MeansUnset
  <1>6. PropertyLeft(name, v) = v
    BY <1>0, <1>3, LeftOf DEF ValueLeft
  <1>7. QED
    BY <1>3, <1>4, <1>5, <1>6 DEF SentAgain, v, IsProperty

\* A time that is read.
LEMMA TimeIsRead ==
    ASSUME NEW name \in TimeProperties, NEW w, IsWireProperty(name, w), w # Unset(name)
    PROVE  SentAgain(name, PropertyRead(name, w))
  <1> DEFINE v == PropertyRead(name, w)
             ms == w[2]
  <1>0. /\ name \in PropertyNames /\ name # "group_sequence" /\ name \notin IdProperties
        /\ name \notin MapProperties /\ name \notin TextProperties
        /\ name \notin Annotations /\ name # "application_properties"
    BY NamesDiffer DEF MapProperties
  <1>1. TypeOf(w) = "TIMESTAMP" /\ ms \in Int /\ w = <<w[1], w[2]>> /\ w # <<"TIMESTAMP", 0>>
    BY <1>0, UnsetOf DEF IsWireProperty
  <1>2. v = ScalarToQore(w) /\ v = TimestampToDate(ms)
    BY <1>0, <1>1 DEF PropertyRead, ProtonToQore, ScalarToQore, IntegerTypes
  <1>3. ms # 0
    BY <1>1 DEF TypeOf
  <1>4. IsValue(v) /\ ValueLeft(v) = v
    BY <1>1, <1>2, ScalarIsRead DEF IntegerTypes
  <1> HIDE DEF v, ms
  <1>5. v # <<"date", <<0, 0>>>>
    BY <1>1, <1>2, <1>3, EpochIsZero
  <1>6. TypeOf(v) = "date"
    BY <1>1, <1>2, DateOfTimestamp DEF TypeOf
  <1>7. Applied(name, v) # Error
    <2>1. Applied(name, v) = QoreToScalar(v)
      BY <1>0, <1>6, AppliedOf DEF IsNullOrNothing
    <2>2. QED
      BY <1>6, <2>1 DEF QoreToScalar, IsNullOrNothing, Error
  <1>8. IsKept(name, v)
    BY <1>5, <1>6 DEF IsKept, Nothing, MeansUnset, TypeOf
  <1>9. PropertyLeft(name, v) = v
    BY <1>0, <1>4, LeftOf
  <1>10. QED
    BY <1>4, <1>6, <1>7, <1>8, <1>9 DEF SentAgain, v, IsProperty

\* A sequence number that is read.
LEMMA SequenceIsRead ==
    ASSUME NEW w, IsWireProperty("group_sequence", w), w # Unset("group_sequence")
    PROVE  SentAgain("group_sequence", PropertyRead("group_sequence", w))
  <1> DEFINE name == "group_sequence"
             v == PropertyRead(name, w)
             n == w[2]
  <1>0. /\ name \in PropertyNames /\ name \notin IdProperties /\ name \notin TimeProperties
        /\ name \notin MapProperties /\ name \notin TextProperties
        /\ name \notin Annotations /\ name # "application_properties"
    BY NamesDiffer DEF MapProperties
  <1>1. TypeOf(w) = "INT" /\ n \in IntRange /\ w = <<w[1], w[2]>> /\ w # <<"INT", 0>>
    BY <1>0, UnsetOf DEF IsWireProperty
  <1>2. /\ n \in -IntLimit .. IntLimit - 1 /\ n \in -LongLimit .. LongLimit - 1 /\ n \in LongRange
        /\ IntLimit \in Nat \ {0} /\ LongLimit \in Nat \ {0} /\ n \in Int
    BY <1>1, LimitsAssumption DEF IntRange, LongRange
  <1>3. Signed(n, LongLimit) = n /\ Signed(n, IntLimit) = n
    BY <1>2, SignedSame
  <1>4. v = <<"int", n>>
    BY <1>0, <1>1, <1>3 DEF PropertyRead, ProtonToQore, ScalarToQore, IntegerTypes
  <1>5. n # 0
    BY <1>1 DEF TypeOf
  <1> HIDE DEF v, n
  <1>6. IsValue(v) /\ TypeOf(v) = "int"
    BY <1>2, <1>4 DEF IsValue, TypeOf
  <1>7. Applied(name, v) # Error
    <2>1. Applied(name, v) = <<"INT", Signed(v[2], IntLimit)>>
      BY <1>0, <1>6, AppliedOf DEF IsNullOrNothing
    <2>2. QED
      BY <2>1 DEF Error
  <1>8. IsKept(name, v)
    BY <1>4, <1>5 DEF IsKept, Nothing, MeansUnset
  <1>9. PropertyLeft(name, v) = v
    <2>1. v[2] = n
      BY <1>4
    <2>2. QED
      BY <1>0, <1>2, <1>3, <1>4, <1>6, <2>1, LeftOf, SequenceIsSigned
  <1>10. QED
    BY <1>6, <1>7, <1>8, <1>9 DEF SentAgain, v, IsProperty

\* What is read of an element: a value, that can be sent unless it is a container.
LEMMA ElementIsRead ==
    ASSUME NEW x \in WireValues
    PROVE  /\ ElementToQore(x) \in Values
           /\ ElementLeft(ElementToQore(x)) = ElementToQore(x)
           /\ QoreToScalar(ElementToQore(x)) = Error =>
                TypeOf(x) \in {"MAP", "LIST", "ARRAY"} /\ TypeOf(ElementToQore(x)) \in {"list", "hash"}
  <1>1. ElementToQore(x) = ProtonToQore(x) /\ ProtonToQore(x) \in Values
    BY WireAssumption
  <1>2. ElementLeft(ProtonToQore(x)) = ProtonToQore(x)
    BY <1>1, ValuesAssumption, ValueIsSentAgain DEF IsSentAgain
  <1>3. CASE TypeOf(x) \in {"MAP", "LIST", "ARRAY"}
    <2>1. TypeOf(ProtonToQore(x)) \in {"list", "hash"}
      BY <1>3 DEF ProtonToQore, MapToHash, TypeOf
    <2>2. QED
      BY <1>1, <1>2, <1>3, <2>1
  <1>4. CASE TypeOf(x) \notin {"MAP", "LIST", "ARRAY"}
    <2>1. ProtonToQore(x) = ScalarToQore(x)
      BY <1>4 DEF ProtonToQore
    <2>2. QoreToScalar(ScalarToQore(x)) # Error
      BY WireAssumption, ScalarIsRead
    <2>3. QED
      BY <1>1, <1>2, <2>1, <2>2
  <1>5. QED
    BY <1>3, <1>4

\* A map of properties that is read.
LEMMA MapPropertyIsRead ==
    ASSUME NEW name \in MapProperties, NEW w, IsWireProperty(name, w), w # Unset(name)
    PROVE  SentAgain(name, PropertyRead(name, w))
  <1> DEFINE v == PropertyRead(name, w)
             entries == w[2]
  <1>0. /\ name \in PropertyNames /\ name # "group_sequence" /\ name \notin IdProperties
        /\ name \notin TextProperties /\ name \notin TimeProperties
        /\ name = "application_properties" \/ name \in Annotations
    BY NamesDiffer
  <1>1. TypeOf(w) = "MAP" /\ IsEntries(entries) /\ w = <<w[1], w[2]>> /\ w # <<"MAP", <<>>>>
    BY <1>0, UnsetOf DEF IsWireProperty
  <1>2. /\ \A i \in DOMAIN entries : entries[i][2] \in WireValues
        /\ name = "application_properties" =>
             \A i \in DOMAIN entries : TypeOf(entries[i][2]) \notin {"MAP", "LIST", "ARRAY"}
    BY <1>1 DEF IsEntries, IsWireProperty
  <1>3. w = <<"MAP", entries>> /\ entries # <<>>
    BY <1>1 DEF TypeOf
  <1>4. v = MapToHash(w)
    BY <1>0, <1>1 DEF PropertyRead, ProtonToQore
  <1> HIDE DEF v, entries
  <1>5. PICK h : /\ MapToHash(<<"MAP", entries>>) = <<"hash", h>>
                 /\ h = [key \in DOMAIN h |-> h[key]]
                 /\ IsFiniteSet(DOMAIN h)
                 /\ \A key \in DOMAIN h : \E i \in DOMAIN entries : h[key] = ElementToQore(entries[i][2])
                 /\ DOMAIN h = {} => entries = <<>>
    BY <1>1, MapIsRead
  <1>6. v = <<"hash", h>> /\ TypeOf(v) = "hash" /\ v[2] = h
    BY <1>3, <1>4, <1>5 DEF TypeOf
  <1>7. ASSUME NEW key \in DOMAIN h
        PROVE  /\ h[key] \in Values
               /\ ElementLeft(h[key]) = h[key]
               /\ QoreToScalar(h[key]) = Error =>
                    name \in Annotations /\ TypeOf(h[key]) \in {"list", "hash"}
    <2>1. PICK i \in DOMAIN entries : h[key] = ElementToQore(entries[i][2])
      BY <1>5
    <2>2. QED
      BY <1>0, <1>2, <2>1, ElementIsRead
  <1>8. IsProperty(name, v)
    <2>1. h \in [DOMAIN h -> Values]
      BY <1>5, <1>7
    <2>2. IsValue(v)
      BY <1>5, <1>6, <2>1 DEF IsValue
    <2>3. QED
      BY <1>6, <2>2 DEF IsProperty
  <1>9. PropertyLeft(name, v) = v
    <2>1. ValueLeft(v) = <<"hash", [key \in DOMAIN h |-> ElementLeft(h[key])]>>
      BY <1>6 DEF ValueLeft
    <2>2. [key \in DOMAIN h |-> ElementLeft(h[key])] = h
      BY <1>5, <1>7
    <2>3. QED
      BY <1>0, <1>6, <2>1, <2>2, LeftOf
  <1>10. IsKept(name, v)
    <2>1. h # <<>>
      BY <1>3, <1>5
    <2>2. QED
      BY <1>6, <2>1 DEF IsKept, MeansUnset, Nothing
  <1>11. ASSUME Applied(name, v) = Error
         PROVE  name \in Annotations /\ HasCompound(v)
    <2>1. PICK keyType \in {"STRING", "SYMBOL"} : Applied(name, v) = EntriesOf(keyType, v)
      BY <1>0, <1>6, AppliedOf DEF IsNullOrNothing
    <2> DEFINE f == [key \in DOMAIN h |-> QoreToScalar(h[key])]
               again == EntriesFrom(keyType, DOMAIN h, f)
    <2>2. EntriesOf(keyType, v) = MapOf(again)
      BY <1>5, <1>6, PropertyEntries
    <2>3. \A key \in DOMAIN h : f[key] = QoreToScalar(h[key])
      OBVIOUS
    <2> HIDE DEF f
    <2>4. HoldsAll(again, DOMAIN h, f)
      BY <1>5, MapComesBack
    <2> HIDE DEF again
    <2>5. \E i \in DOMAIN again : again[i][2] = Error
      BY <1>11, <2>1, <2>2 DEF MapOf, Error
    <2>6. PICK key \in DOMAIN h : f[key] = Error
      BY <2>4, <2>5 DEF HoldsAll
    <2>7. QED
      BY <1>6, <1>7, <2>3, <2>6 DEF HasCompound
  <1>12. QED
    BY <1>8, <1>9, <1>10, <1>11 DEF SentAgain, v

\* Every property that is read can be sent again, but for some annotations.
LEMMA PropertiesAreRead ==
    ASSUME NEW name \in PropertyNames, NEW w, IsWireProperty(name, w), w # Unset(name)
    PROVE  SentAgain(name, PropertyRead(name, w))
  BY IdIsRead, TextIsRead, TimeIsRead, MapPropertyIsRead, SequenceIsRead, NamesDiffer

-----------------------------------------------------------------------------
(* Messages                                                                *)

\* What an application may ask for.
IsRequest(request) ==
    /\ request.body \in Values
    /\ DOMAIN request.properties \subseteq PropertyNames \cup {"footer"}
    /\ \A name \in DOMAIN request.properties \ {"footer"} : IsProperty(name, request.properties[name])

\* What a receiver should read of what an application asked for.
Wanted(request) == [body |-> ValueLeft(request.body), properties |-> PropertiesLeft(request.properties)]

\* The message that is made of a request.
MessageOf(request) == NewMessage(request.body, request.properties)

\* A property of a message that is made.
LEMMA PropertyOf ==
    ASSUME NEW request, NEW name \in PropertyNames
    PROVE  /\ name \in DOMAIN request.properties =>
                MessageOf(request).properties[name] = Applied(name, request.properties[name])
           /\ name \notin DOMAIN request.properties => MessageOf(request).properties[name] = Unset(name)
  BY DEF MessageOf, NewMessage

\* A message that is made of a request has the types of Proton.
LEMMA MessageIsWire ==
    ASSUME NEW request, IsRequest(request), ~Refused(MessageOf(request))
    PROVE  IsWireMessage(MessageOf(request))
  <1> DEFINE m == MessageOf(request)
  <1>1. /\ m = [body |-> m.body, properties |-> m.properties]
        /\ m.properties = [name \in PropertyNames |-> m.properties[name]]
        /\ m.body = QoreToProton(request.body)
    BY DEF MessageOf, NewMessage
  <1>2. m.body \in WireValues
    BY <1>1, ValuesAssumption DEF IsRequest, Refused
  <1>3. ASSUME NEW name \in PropertyNames
        PROVE  IsWireProperty(name, m.properties[name])
    <2>1. CASE name \in DOMAIN request.properties
      <3>1. IsProperty(name, request.properties[name])
        BY <2>1, FooterIsNoName DEF IsRequest
      <3>2. Applied(name, request.properties[name]) # Error
        BY <2>1, PropertyOf DEF Refused
      <3>3. IsWireProperty(name, Applied(name, request.properties[name]))
        BY <3>1, <3>2, PropertiesSurvive DEF PropertySurvives
      <3>4. QED
        BY <2>1, <3>3, PropertyOf
    <2>2. CASE name \notin DOMAIN request.properties
      BY <2>2, PropertyOf, UnsetIsWire
    <2>3. QED
      BY <2>1, <2>2
  <1> HIDE DEF m
  <1>4. QED
    BY <1>1, <1>2, <1>3 DEF IsWireMessage, m

\* A message that is made of a request is read as what should be left of it.
LEMMA MessageIsRead ==
    ASSUME NEW request, IsRequest(request), ~Refused(MessageOf(request))
    PROVE  Read(MessageOf(request)) = Wanted(request)
  <1> DEFINE m == MessageOf(request)
             p == request.properties
             left == [name \in DOMAIN p \ {"footer"} |-> PropertyLeft(name, p[name])]
             Found == {name \in PropertyNames : m.properties[name] # Unset(name)}
             Kept == {name \in DOMAIN left : IsKept(name, left[name])}
  <1>1. ProtonToQore(m.body) = ValueLeft(request.body)
    <2>1. m.body = QoreToProton(request.body)
      BY DEF MessageOf, NewMessage
    <2>2. QED
      BY <2>1, ValueComesBack DEF IsRequest, Refused
  <1>2. ASSUME NEW name \in PropertyNames \cap DOMAIN p
        PROVE  /\ name \in Found <=> name \in Kept
               /\ name \in Found => PropertyRead(name, m.properties[name]) = left[name]
    <2>1. IsProperty(name, p[name]) /\ name # "footer"
      BY FooterIsNoName DEF IsRequest
    <2>2. m.properties[name] = Applied(name, p[name]) /\ Applied(name, p[name]) # Error
      BY PropertyOf DEF Refused
    <2>3. PropertySurvives(name, p[name])
      BY <2>1, <2>2, PropertiesSurvive
    <2>4. name \in DOMAIN left /\ left[name] = PropertyLeft(name, p[name])
      BY <2>1
    <2> HIDE DEF left, m, p
    <2>5. QED
      BY <2>2, <2>3, <2>4 DEF PropertySurvives
  <1>3. Found \subseteq DOMAIN p
    BY PropertyOf
  <1>4. Kept \subseteq PropertyNames \cap DOMAIN p
    BY DEF IsRequest
  <1>5. Found = Kept
    BY <1>2, <1>3, <1>4
  <1>6. GetProperties(m) = [name \in Found |-> PropertyRead(name, m.properties[name])]
    BY DEF GetProperties, PropertyRead
  <1>7. PropertiesLeft(p) = [name \in Kept |-> left[name]]
    BY DEF PropertiesLeft, IsKept
  <1>8. \A name \in Found : PropertyRead(name, m.properties[name]) = left[name]
    BY <1>2, <1>3
  <1> HIDE DEF Found, Kept, left, m, p
  <1>9. GetProperties(m) = PropertiesLeft(p)
    BY <1>5, <1>6, <1>7, <1>8
  <1>10. QED
    BY <1>1, <1>9 DEF Read, Wanted, m, p

\* What is read of a message.
LEMMA ReadOf ==
    ASSUME NEW m, NEW name \in PropertyNames
    PROVE  /\ name \in DOMAIN Read(m).properties <=> m.properties[name] # Unset(name)
           /\ name \in DOMAIN Read(m).properties =>
                Read(m).properties[name] = PropertyRead(name, m.properties[name])
  BY DEF Read, GetProperties, PropertyRead

\* What is read of a message can be asked for.
LEMMA ReadIsRequest ==
    ASSUME NEW m, IsWireMessage(m)
    PROVE  /\ IsRequest(Read(m))
           /\ DOMAIN Read(m).properties \subseteq PropertyNames
           /\ \A name \in DOMAIN Read(m).properties : SentAgain(name, Read(m).properties[name])
  <1>1. Read(m).body \in Values
    BY WireAssumption DEF Read, IsWireMessage
  <1>2. DOMAIN Read(m).properties \subseteq PropertyNames
    BY DEF Read, GetProperties
  <1>3. ASSUME NEW name \in DOMAIN Read(m).properties
        PROVE  SentAgain(name, Read(m).properties[name])
    <2>1. name \in PropertyNames
      BY <1>2
    <2>2. /\ IsWireProperty(name, m.properties[name]) /\ m.properties[name] # Unset(name)
          /\ Read(m).properties[name] = PropertyRead(name, m.properties[name])
      BY <2>1, ReadOf DEF IsWireMessage
    <2>3. QED
      BY <2>1, <2>2, PropertiesAreRead
  <1>4. QED
    BY <1>1, <1>2, <1>3 DEF IsRequest, SentAgain

\* What is read of a message loses nothing when it is sent again.
LEMMA ReadIsWanted ==
    ASSUME NEW m, IsWireMessage(m)
    PROVE  Wanted(Read(m)) = Read(m)
  <1> DEFINE p == Read(m).properties
             left == [name \in DOMAIN p \ {"footer"} |-> PropertyLeft(name, p[name])]
             Kept == {name \in DOMAIN left : IsKept(name, left[name])}
  <1>1. ValueLeft(Read(m).body) = Read(m).body
    <2>1. Read(m).body = ProtonToQore(m.body) /\ m.body \in WireValues
      BY DEF Read, IsWireMessage
    <2>2. QED
      BY <2>1, ValueIsSentAgain DEF IsSentAgain
  <1>2. DOMAIN p \subseteq PropertyNames /\ \A name \in DOMAIN p : SentAgain(name, p[name])
    BY ReadIsRequest
  <1>3. p = [name \in DOMAIN p |-> p[name]]
    BY DEF Read, GetProperties
  <1>4. PropertiesLeft(p) = [name \in Kept |-> left[name]]
    BY DEF PropertiesLeft, IsKept
  <1> HIDE DEF p
  <1>5. DOMAIN p \ {"footer"} = DOMAIN p
    BY <1>2, FooterIsNoName
  <1>6. \A name \in DOMAIN p : left[name] = p[name]
    BY <1>2, <1>5 DEF SentAgain
  <1>7. DOMAIN left = DOMAIN p
    BY <1>5
  <1> HIDE DEF left
  <1>8. Kept = DOMAIN p
    BY <1>2, <1>6, <1>7 DEF SentAgain
  <1>9. PropertiesLeft(p) = p
    BY <1>3, <1>4, <1>6, <1>8
  <1>10. Read(m) = [body |-> Read(m).body, properties |-> Read(m).properties]
    BY DEF Read
  <1>11. QED
    BY <1>1, <1>9, <1>10 DEF Wanted, p

\* What is read of a message and refused has annotations that are not scalars.
LEMMA ReadIsRefused ==
    ASSUME NEW m, IsWireMessage(m), Refused(MessageOf(Read(m)))
    PROVE  Compound(Read(m).properties)
  <1> DEFINE r == Read(m)
             again == MessageOf(r)
  <1>1. again.body # Error
    <2>1. again.body = QoreToProton(ProtonToQore(m.body)) /\ m.body \in WireValues
      BY DEF MessageOf, NewMessage, Read, IsWireMessage
    <2>2. QED
      BY <2>1, ValueIsSentAgain DEF IsSentAgain
  <1>2. PICK name \in PropertyNames : again.properties[name] = Error
    BY <1>1 DEF Refused
  <1>3. name \in DOMAIN r.properties /\ Applied(name, r.properties[name]) = Error
    BY <1>2, PropertyOf, UnsetIsWire
  <1>4. SentAgain(name, r.properties[name])
    BY <1>3, ReadIsRequest
  <1> HIDE DEF r
  <1>5. name \in Annotations /\ HasCompound(r.properties[name])
    BY <1>3, <1>4 DEF SentAgain
  <1>6. QED
    BY <1>3, <1>5 DEF Compound, HasCompound, r

-----------------------------------------------------------------------------
(* The life of a message                                                   *)

\* A message that is on its way is read as what its sender asked for.
Faithful ==
    stage \in {"sent", "forwarded", "replied", "received"} /\ asked # <<>> => Read(wire) = Wanted(asked[1])

\* What was read is what there is to read.
Current == stage = "received" => got = Read(wire)

\* What is forwarded is what was read.
Unchanged == stage = "forwarded" => got = Read(wire)

\* Without a message there is no request for one.
AskedForOne == stage = "idle" => asked = <<>>

MessageInv == TypeOK /\ Faithful /\ Current /\ Unchanged /\ AskedForOne

\* A message without body and properties.
LEMMA NoMessageIsWire ==
    /\ IsWireMessage(NoMessage)
    /\ ~Refused(NoMessage)
  <1>1. QoreToProton(Nothing) = Null /\ Null # Error
    BY DEF QoreToProton, QoreToScalar, IsNullOrNothing, Nothing, TypeOf, Null, Error
  <1>2. /\ NoMessage = [body |-> NoMessage.body, properties |-> NoMessage.properties]
        /\ NoMessage.body = Null
        /\ NoMessage.properties = [name \in PropertyNames |-> NoMessage.properties[name]]
        /\ \A name \in PropertyNames : NoMessage.properties[name] = Unset(name)
    BY <1>1 DEF NoMessage, NewMessage
  <1>3. \A name \in PropertyNames : IsWireProperty(name, Unset(name)) /\ Unset(name) # Error
    BY UnsetIsWire
  <1>4. IsWireMessage(NoMessage)
    BY <1>2, <1>3, WireAssumption DEF IsWireMessage
  <1>5. ~Refused(NoMessage)
    BY <1>1, <1>2, <1>3 DEF Refused
  <1>6. QED
    BY <1>4, <1>5

\* What is read has the types of Qore.
LEMMA ReadTypes ==
    ASSUME NEW m, IsWireMessage(m)
    PROVE  /\ Read(m).body \in Values
           /\ DOMAIN Read(m).properties \subseteq PropertyNames
           /\ \A name \in DOMAIN Read(m).properties : IsProperty(name, Read(m).properties[name])
  BY ReadIsRequest DEF IsRequest, SentAgain

\* Nothing is a value of Qore.
LEMMA NothingIsValue == Nothing \in Values
  <1>1. ProtonToQore(Null) = Nothing
    BY DEF ProtonToQore, ScalarToQore, IntegerTypes, Null, TypeOf
  <1>2. QED
    BY <1>1, WireAssumption

\* There is no message at first.
LEMMA MessageInitInv == Init => MessageInv
  <1> SUFFICES ASSUME Init
               PROVE  MessageInv
    OBVIOUS
  <1>1. TypeOK
    BY NoMessageIsWire, ReadTypes DEF Init, TypeOK
  <1>2. Faithful /\ Current /\ Unchanged /\ AskedForOne
    BY DEF Init, Faithful, Current, Unchanged, AskedForOne
  <1>3. QED
    BY <1>1, <1>2 DEF MessageInv

\* A message that is made is read as its request says.
LEMMA MadeIsFaithful ==
    ASSUME NEW request, IsRequest(request), NEW then \in {"sent", "forwarded", "replied"},
           Construct(request.body, request.properties, then)
    PROVE  /\ IsWireMessage(wire')
           /\ stage' \in {then, "refused"}
           /\ stage' = "refused" <=> Refused(MessageOf(request))
           /\ stage' # "refused" => wire' = MessageOf(request) /\ Read(wire') = Wanted(request)
  <1>1. CASE Refused(MessageOf(request))
    <2>1. stage' = "refused" /\ wire' = NoMessage
      BY <1>1 DEF Construct, MessageOf
    <2>2. QED
      BY <1>1, <2>1, NoMessageIsWire
  <1>2. CASE ~Refused(MessageOf(request))
    <2>1. stage' = then /\ wire' = MessageOf(request)
      BY <1>2 DEF Construct, MessageOf
    <2>2. QED
      BY <1>2, <2>1, MessageIsWire, MessageIsRead
  <1>3. QED
    BY <1>1, <1>2

\* Create() sends what an application asked for.
LEMMA CreateInv ==
    ASSUME MessageInv, NEW request \in Requests, Create(request)
    PROVE  MessageInv'
  <1>1. IsRequest(request)
    BY RequestsAssumption DEF IsRequest
  <1>2. asked' = <<request>> /\ got' = got /\ Construct(request.body, request.properties, "sent")
    BY DEF Create
  <1>3. /\ IsWireMessage(wire') /\ stage' \in {"sent", "refused"}
        /\ stage' # "refused" => Read(wire') = Wanted(request)
    BY <1>1, <1>2, MadeIsFaithful
  <1>4. TypeOK'
    BY <1>2, <1>3 DEF MessageInv, TypeOK
  <1>5. Faithful'
    BY <1>2, <1>3 DEF Faithful
  <1>6. Current' /\ Unchanged' /\ AskedForOne'
    BY <1>3 DEF Current, Unchanged, AskedForOne
  <1>7. QED
    BY <1>4, <1>5, <1>6 DEF MessageInv

\* Arrive() leaves no request behind: the message is that of another program.
LEMMA ArriveInv ==
    ASSUME MessageInv, NEW message \in ForeignMessages, Arrive(message)
    PROVE  MessageInv'
  <1>1. IsWireMessage(message)
    BY ForeignAssumption
  <1>2. stage' = "sent" /\ wire' = message /\ asked' = asked /\ got' = got
    BY DEF Arrive
  <1>3. TypeOK'
    BY <1>1, <1>2 DEF MessageInv, TypeOK
  <1>4. asked = <<>>
    BY DEF MessageInv, AskedForOne, Arrive
  <1>5. Faithful' /\ Current' /\ Unchanged' /\ AskedForOne'
    BY <1>2, <1>4 DEF Faithful, Current, Unchanged, AskedForOne
  <1>6. QED
    BY <1>3, <1>5 DEF MessageInv

\* Receive() reads what there is to read.
LEMMA ReceiveInv ==
    ASSUME MessageInv, Receive
    PROVE  MessageInv'
  <1>1. /\ stage \in {"sent", "forwarded", "replied"} /\ stage' = "received"
        /\ got' = Read(wire) /\ asked' = asked /\ wire' = wire
    BY DEF Receive
  <1>2. TypeOK'
    BY <1>1, ReadTypes DEF MessageInv, TypeOK
  <1>3. Faithful' /\ Current' /\ Unchanged' /\ AskedForOne'
    BY <1>1 DEF MessageInv, Faithful, Current, Unchanged, AskedForOne
  <1>4. QED
    BY <1>2, <1>3 DEF MessageInv

\* Forward() sends what was read, and nothing of it is lost.
LEMMA ForwardInv ==
    ASSUME MessageInv, Forward
    PROVE  MessageInv' /\ (stage' = "refused" => Compound(got.properties))
  <1>1. stage = "received" /\ asked' = asked /\ got' = got /\ Construct(got.body, got.properties, "forwarded")
    BY DEF Forward
  <1>2. got = Read(wire) /\ IsWireMessage(wire)
    BY <1>1 DEF MessageInv, Current, TypeOK
  <1>3. IsRequest(got) /\ Wanted(got) = got
    BY <1>2, ReadIsRequest, ReadIsWanted
  <1>4. /\ IsWireMessage(wire') /\ stage' \in {"forwarded", "refused"}
        /\ stage' = "refused" <=> Refused(MessageOf(got))
        /\ stage' # "refused" => Read(wire') = got
    BY <1>1, <1>3, MadeIsFaithful
  <1>5. stage' = "refused" => Compound(got.properties)
    BY <1>2, <1>4, ReadIsRefused
  <1>6. TypeOK'
    BY <1>1, <1>4 DEF MessageInv, TypeOK
  <1>7. Faithful'
    BY <1>1, <1>2, <1>4 DEF MessageInv, Faithful
  <1>8. Current' /\ Unchanged' /\ AskedForOne'
    BY <1>1, <1>4 DEF Current, Unchanged, AskedForOne
  <1>9. QED
    BY <1>5, <1>6, <1>7, <1>8 DEF MessageInv

\* The request that a reply is.
ReplyTo(id) == [body |-> Nothing, properties |-> [correlation_id |-> id]]

\* A reply whose identifier is one can be asked for.
LEMMA ReplyIsRequest ==
    ASSUME NEW id, IsValue(id)
    PROVE  IsRequest(ReplyTo(id))
  <1>1. DOMAIN ReplyTo(id).properties = {"correlation_id"} /\ ReplyTo(id).properties["correlation_id"] = id
    BY DEF ReplyTo
  <1>2. "correlation_id" \in IdProperties /\ "correlation_id" \in PropertyNames
    BY NamesDiffer DEF IdProperties
  <1>3. IsProperty("correlation_id", id)
    BY <1>2 DEF IsProperty
  <1>4. ReplyTo(id).body = Nothing
    BY DEF ReplyTo
  <1>5. QED
    BY <1>1, <1>2, <1>3, <1>4, NothingIsValue DEF IsRequest

\* An identifier that is read and sent back is the identifier, but for a UUID.
LEMMA IdIsSentBack ==
    ASSUME NEW name \in IdProperties, NEW w, IsWireProperty(name, w), w # Unset(name), TypeOf(w) # "UUID"
    PROVE  /\ QoreToMessageId(PropertyRead(name, w)) = w
           /\ w # Error
           /\ ~IsNullOrNothing(PropertyRead(name, w))
  <1> DEFINE v == PropertyRead(name, w)
  <1>0. /\ name \in PropertyNames /\ name # "group_sequence"
        /\ name \notin MapProperties /\ name \notin TextProperties /\ name \notin TimeProperties
    BY NamesDiffer
  <1>1. /\ w = <<w[1], w[2]>>
        /\ TypeOf(w) \in {"STRING", "BINARY", "ULONG"}
        /\ TypeOf(w) = "ULONG" => w[2] \in 0 .. 2 * LongLimit - 1
    BY <1>0, UnsetOf DEF IsWireProperty
  <1>2. v = ScalarToQore(w)
    BY DEF PropertyRead, MessageIdToQore
  <1>3. CASE TypeOf(w) = "STRING"
    <2>1. v = <<"string", w[2]>>
      BY <1>2, <1>3 DEF ScalarToQore, IntegerTypes
    <2>2. QoreToMessageId(v) = <<"STRING", w[2]>>
      BY <2>1 DEF QoreToMessageId, QoreToScalar, IsNullOrNothing, TypeOf
    <2>3. QED
      BY <1>1, <1>3, <2>1, <2>2 DEF IsNullOrNothing, TypeOf, Error
  <1>4. CASE TypeOf(w) = "BINARY"
    <2>1. v = <<"binary", w[2]>>
      BY <1>2, <1>4 DEF ScalarToQore, IntegerTypes
    <2>2. QoreToMessageId(v) = <<"BINARY", w[2]>>
      BY <2>1 DEF QoreToMessageId, QoreToScalar, IsNullOrNothing, TypeOf
    <2>3. QED
      BY <1>1, <1>4, <2>1, <2>2 DEF IsNullOrNothing, TypeOf, Error
  <1>5. CASE TypeOf(w) = "ULONG"
    <2>1. v = <<"int", Signed(w[2], LongLimit)>>
      BY <1>2, <1>5 DEF ScalarToQore, IntegerTypes
    <2>2. Unsigned(Signed(w[2], LongLimit), LongLimit) = w[2]
      BY <1>1, <1>5, LimitsAssumption, UnsignedOfSigned
    <2>3. QoreToMessageId(v) = <<"ULONG", w[2]>>
      BY <2>1, <2>2 DEF QoreToMessageId, IsNullOrNothing, TypeOf
    <2>4. QED
      BY <1>1, <1>5, <2>1, <2>3 DEF IsNullOrNothing, TypeOf, Error
  <1>6. QED
    BY <1>1, <1>3, <1>4, <1>5

\* A reply with an identifier that can be sent is not refused.
LEMMA ReplyIsSent ==
    ASSUME NEW id, ~IsNullOrNothing(id), QoreToMessageId(id) # Error
    PROVE  /\ ~Refused(MessageOf(ReplyTo(id)))
           /\ MessageOf(ReplyTo(id)).properties["correlation_id"] = QoreToMessageId(id)
  <1> DEFINE m == MessageOf(ReplyTo(id))
  <1>0. "correlation_id" \in IdProperties /\ "correlation_id" \in PropertyNames
    BY NamesDiffer DEF IdProperties
  <1>1. /\ ReplyTo(id).body = Nothing
        /\ DOMAIN ReplyTo(id).properties = {"correlation_id"}
        /\ ReplyTo(id).properties["correlation_id"] = id
    BY DEF ReplyTo
  <1>2. m.properties["correlation_id"] = QoreToMessageId(id)
    BY <1>0, <1>1, PropertyOf, AppliedOf
  <1>3. \A name \in PropertyNames : name # "correlation_id" => m.properties[name] # Error
    BY <1>1, PropertyOf, UnsetIsWire
  <1>4. m.body # Error
    <2>1. m.body = QoreToProton(Nothing)
      BY <1>1 DEF MessageOf, NewMessage
    <2>2. QED
      BY <2>1 DEF QoreToProton, QoreToScalar, IsNullOrNothing, Nothing, TypeOf, Null, Error
  <1> HIDE DEF m
  <1>5. ~Refused(m)
    BY <1>2, <1>3, <1>4 DEF Refused
  <1>6. QED
    BY <1>2, <1>5 DEF m

\* Reply() sends the identifier of the request as the correlation ID.
LEMMA ReplyInv ==
    ASSUME MessageInv, Reply
    PROVE  /\ MessageInv'
           /\ TypeOf(wire.properties["message_id"]) # "UUID" =>
                stage' = "replied" /\ wire'.properties["correlation_id"] = wire.properties["message_id"]
  <1> DEFINE id == got.properties["message_id"]
  <1>1. /\ stage = "received" /\ "message_id" \in DOMAIN got.properties /\ got' = got
        /\ asked' = <<ReplyTo(id)>>
        /\ Construct(ReplyTo(id).body, ReplyTo(id).properties, "replied")
    BY DEF Reply, ReplyTo
  <1>2. IsValue(id)
    BY <1>1 DEF MessageInv, TypeOK, IsProperty
  <1> HIDE DEF id
  <1>3. IsRequest(ReplyTo(id))
    BY <1>2, ReplyIsRequest
  <1>4. /\ IsWireMessage(wire') /\ stage' \in {"replied", "refused"}
        /\ stage' # "refused" => Read(wire') = Wanted(ReplyTo(id))
    BY <1>1, <1>3, MadeIsFaithful
  <1>5. TypeOK'
    BY <1>1, <1>4 DEF MessageInv, TypeOK
  <1>6. Faithful'
    BY <1>1, <1>4 DEF Faithful
  <1>7. Current' /\ Unchanged' /\ AskedForOne'
    BY <1>4 DEF Current, Unchanged, AskedForOne
  <1>8. ASSUME TypeOf(wire.properties["message_id"]) # "UUID"
        PROVE  stage' = "replied" /\ wire'.properties["correlation_id"] = wire.properties["message_id"]
    <2> DEFINE w == wire.properties["message_id"]
    <2>1. got = Read(wire) /\ IsWireMessage(wire)
      BY <1>1 DEF MessageInv, Current, TypeOK
    <2>2. "message_id" \in IdProperties /\ "message_id" \in PropertyNames
      BY NamesDiffer DEF IdProperties
    <2>3. IsWireProperty("message_id", w) /\ w # Unset("message_id") /\ id = PropertyRead("message_id", w)
      BY <1>1, <2>1, <2>2, ReadOf DEF IsWireMessage, id
    <2>4. QoreToMessageId(id) = w /\ w # Error /\ ~IsNullOrNothing(id)
      BY <1>8, <2>2, <2>3, IdIsSentBack
    <2>5. /\ ~Refused(MessageOf(ReplyTo(id)))
          /\ MessageOf(ReplyTo(id)).properties["correlation_id"] = w
      BY <2>4, ReplyIsSent
    <2>6. QED
      BY <1>1, <1>3, <2>5, MadeIsFaithful
  <1>9. QED
    BY <1>5, <1>6, <1>7, <1>8 DEF MessageInv

\* Drop() starts again.
LEMMA DropInv ==
    ASSUME MessageInv, Drop
    PROVE  MessageInv'
  <1>1. stage' = "idle" /\ asked' = <<>> /\ wire' = NoMessage /\ got' = Read(NoMessage)
    BY DEF Drop
  <1>2. TypeOK'
    BY <1>1, NoMessageIsWire, ReadTypes DEF TypeOK
  <1>3. Faithful' /\ Current' /\ Unchanged' /\ AskedForOne'
    BY <1>1 DEF Faithful, Current, Unchanged, AskedForOne
  <1>4. QED
    BY <1>2, <1>3 DEF MessageInv

\* Every step keeps the invariant.
LEMMA MessageStepInv == MessageInv /\ [Next]_vars => MessageInv'
  <1> SUFFICES ASSUME MessageInv, [Next]_vars
               PROVE  MessageInv'
    OBVIOUS
  <1>1. ASSUME NEW request \in Requests, Create(request)
        PROVE  MessageInv'
    BY <1>1, CreateInv
  <1>2. ASSUME NEW message \in ForeignMessages, Arrive(message)
        PROVE  MessageInv'
    BY <1>2, ArriveInv
  <1>3. CASE Receive
    BY <1>3, ReceiveInv
  <1>4. CASE Forward
    BY <1>4, ForwardInv
  <1>5. CASE Reply
    BY <1>5, ReplyInv
  <1>6. CASE Drop
    BY <1>6, DropInv
  <1>7. CASE UNCHANGED vars
    BY <1>7 DEF vars, MessageInv, TypeOK, Faithful, Current, Unchanged, AskedForOne
  <1>8. QED
    BY <1>1, <1>2, <1>3, <1>4, <1>5, <1>6, <1>7 DEF Next

\* The inductive invariant holds.
LEMMA MessageInvHolds == Spec => []MessageInv
  BY MessageInitInv, MessageStepInv, PTL DEF Spec

(***************************************************************************)
(* What is sent has the types of Proton and what is read those of Qore,    *)
(* for every message of an application or of another program.              *)
(***************************************************************************)
THEOREM MessageTypeCorrect == Spec => []TypeOK
  <1>1. MessageInv => TypeOK
    BY DEF MessageInv
  <1>2. QED
    BY <1>1, MessageInvHolds, PTL

(***************************************************************************)
(* A receiver reads what the sender asked for, up to the losses that       *)
(* ValueLeft and PropertiesLeft name, however often it was forwarded.      *)
(***************************************************************************)
THEOREM MessagesRoundTrip == Spec => []RoundTrip
  <1>1. MessageInv => RoundTrip
    BY DEF MessageInv, Faithful, Current, RoundTrip, Wanted
  <1>2. QED
    BY <1>1, MessageInvHolds, PTL

(***************************************************************************)
(* A message that is forwarded is read again as it was read before, and    *)
(* only annotations that are not scalars keep it from being forwarded.     *)
(***************************************************************************)
THEOREM ForwardingIsExact == Spec => ForwardIsExact
  <1>1. MessageInv /\ [Next]_vars =>
          [/\ stage = "forwarded" /\ stage' = "received" => got' = got
           /\ Forward /\ stage' = "refused" => Compound(got.properties)]_vars
    <2> SUFFICES ASSUME MessageInv, Next
                 PROVE  /\ stage = "forwarded" /\ stage' = "received" => got' = got
                        /\ Forward /\ stage' = "refused" => Compound(got.properties)
      OBVIOUS
    <2>1. Forward /\ stage' = "refused" => Compound(got.properties)
      BY ForwardInv
    <2>2. ASSUME stage = "forwarded", stage' = "received"
          PROVE  got' = got
      <3>1. Receive
        BY <2>2 DEF Next, Create, Arrive, Forward, Reply, Drop
      <3>2. QED
        BY <2>2, <3>1 DEF Receive, MessageInv, Unchanged
    <2>3. QED
      BY <2>1, <2>2
  <1>2. QED
    BY <1>1, MessageInvHolds, PTL DEF Spec, ForwardIsExact

(***************************************************************************)
(* The correlation ID of a reply is the message ID of the request, of      *)
(* whatever width and type, but for a UUID.                                *)
(***************************************************************************)
THEOREM RepliesCorrelate == Spec => ReplyCorrelates
  <1>1. MessageInv /\ [Next]_vars =>
          [Reply /\ TypeOf(wire.properties["message_id"]) # "UUID" =>
               /\ stage' = "replied"
               /\ wire'.properties["correlation_id"] = wire.properties["message_id"]]_vars
    BY ReplyInv
  <1>2. QED
    BY <1>1, MessageInvHolds, PTL DEF Spec, ReplyCorrelates

-----------------------------------------------------------------------------
(* Requests and replies                                                    *)

Busy(t) == call[t].at \in {"waiting", "done"}
Holds(q, r) == \E i \in DOMAIN q : q[i] = r

\* Where a request, or the reply to it, can be.
Known(r) ==
    \/ r \in unanswered
    \/ \E g \in Helpers : Holds(inbox[g], r)
    \/ \E t \in Threads : Busy(t) /\ r = call[t].request
    \/ \E t \in Threads : call[t].at = "done" /\ r = call[t].reply

RRTypes ==
    /\ RRTypeOK
    /\ call \in [Threads -> {Idle} \cup [at : {"waiting"}, request : Request]
                              \cup [at : {"done"}, request : Request, reply : Request]]

Counters == \A h \in Helpers : counter[h] <= requests

Counted == \A r \in Request : Known(r) =>
    /\ r.helper \in made
    /\ r.id[2] <= counter[r.helper]

Distinct == \A r, s \in Request :
    Known(r) /\ Known(s) /\ r.helper = s.helper /\ r.id = s.id => r = s

Addressed == \A g \in Helpers, r \in Request :
    Holds(inbox[g], r) => Home[r.helper] = Home[g]

Asking == \A t \in Threads :
    /\ Busy(t) => t \in users[call[t].request.helper]
    /\ call[t].at = "done" =>
         /\ call[t].reply.id = call[t].request.id
         /\ Home[call[t].reply.helper] = Home[call[t].request.helper]

NotLost == \A t \in Threads : Waiting(t) =>
    LET request == call[t].request
    IN \/ request \in unanswered
       \/ Holds(inbox[request.helper], request)
       \/ \E g \in made : SameAddress(g, request.helper)
       \/ users[request.helper] # {t}

RRInv ==
    /\ RRTypes
    /\ Counters
    /\ Counted
    /\ Distinct
    /\ Addressed
    /\ Asking
    /\ NotLost

-----------------------------------------------------------------------------
(* Inboxes                                                                 *)

\* An inbox holds what it held before and the reply appended to it.
LEMMA HoldsAppend ==
    ASSUME NEW q \in Seq(Request), NEW x \in Request, NEW y
    PROVE  /\ Holds(Append(q, x), y) <=> Holds(q, y) \/ y = x
           /\ Append(q, x) \in Seq(Request)
  <1>1. /\ DOMAIN Append(q, x) = 1 .. (Len(q) + 1)
        /\ DOMAIN q = 1 .. Len(q)
        /\ \A i \in DOMAIN q : Append(q, x)[i] = q[i]
        /\ Append(q, x)[Len(q) + 1] = x
        /\ Len(q) \in Nat
        /\ Append(q, x) \in Seq(Request)
    OBVIOUS
  <1>2. QED
    BY <1>1 DEF Holds

\* Taking the head of an inbox loses that reply at most.
LEMMA HoldsTail ==
    ASSUME NEW q \in Seq(Request), q # <<>>, NEW y
    PROVE  /\ Holds(Tail(q), y) => Holds(q, y)
           /\ Holds(q, y) => Holds(Tail(q), y) \/ y = Head(q)
           /\ Holds(q, Head(q))
           /\ Head(q) \in Request
           /\ Tail(q) \in Seq(Request)
  <1>1. /\ DOMAIN Tail(q) = 1 .. (Len(q) - 1)
        /\ DOMAIN q = 1 .. Len(q)
        /\ Len(q) \in Nat \ {0}
        /\ Head(q) = q[1]
        /\ \A i \in DOMAIN Tail(q) : Tail(q)[i] = q[i + 1]
        /\ Tail(q) \in Seq(Request)
        /\ Head(q) \in Request
    OBVIOUS
  <1>2. Holds(Tail(q), y) => Holds(q, y)
    <2>1. SUFFICES ASSUME NEW i \in DOMAIN Tail(q), Tail(q)[i] = y
                   PROVE  Holds(q, y)
      BY DEF Holds
    <2>2. i + 1 \in DOMAIN q /\ q[i + 1] = y
      BY <1>1, <2>1
    <2>3. QED
      BY <2>2 DEF Holds
  <1>3. Holds(q, y) => Holds(Tail(q), y) \/ y = Head(q)
    <2>1. SUFFICES ASSUME NEW i \in DOMAIN q, q[i] = y, y # Head(q)
                   PROVE  Holds(Tail(q), y)
      BY DEF Holds
    <2>2. i - 1 \in DOMAIN Tail(q) /\ Tail(q)[i - 1] = y
      BY <1>1, <2>1
    <2>3. QED
      BY <2>2 DEF Holds
  <1>4. Holds(q, Head(q))
    BY <1>1 DEF Holds
  <1>5. QED
    BY <1>1, <1>2, <1>3, <1>4

-----------------------------------------------------------------------------
(* Every step preserves the invariant                                      *)

\* Nothing has been asked at first.
LEMMA RRInitInv == RRInit => RRInv
  <1>1. SUFFICES ASSUME RRInit PROVE RRInv
    OBVIOUS
  <1>2. /\ \A g \in Helpers : inbox[g] = <<>> /\ inbox[g] \in Seq(Request)
        /\ \A g \in Helpers : \A r : ~Holds(inbox[g], r)
        /\ \A t \in Threads : call[t].at = "idle"
    BY <1>1 DEF RRInit, Holds, Idle
  <1>3. RRTypes
    BY <1>1, <1>2, RequestReplyAssumption DEF RRInit, RRTypes, RRTypeOK
  <1>4. \A r : ~Known(r)
    BY <1>1, <1>2 DEF RRInit, Known, Busy
  <1>5. Counters /\ Counted /\ Distinct
    BY <1>1, <1>4 DEF RRInit, Counters, Counted, Distinct
  <1>6. Addressed /\ Asking /\ NotLost
    BY <1>2 DEF Addressed, Asking, NotLost, Busy, Waiting
  <1>7. QED
    BY <1>3, <1>5, <1>6 DEF RRInv

\* A new helper has the address of its thread; nothing else changes.
LEMMA MakeHelperInv == ASSUME RRInv, NEW h \in Helpers, MakeHelper(h) PROVE RRInv'
  <1>1. /\ made' = made \cup {h}
        /\ UNCHANGED <<counter, call, unanswered, inbox, requests, users>>
    BY DEF MakeHelper
  <1>2. RRTypes'
    BY <1>1 DEF RRInv, RRTypes, RRTypeOK
  <1>3. \A r : Known(r)' <=> Known(r)
    BY <1>1 DEF Known, Busy, Holds
  <1>4. Counters' /\ Counted' /\ Distinct'
    BY <1>1, <1>3 DEF RRInv, Counters, Counted, Distinct
  <1>5. Addressed' /\ Asking'
    BY <1>1 DEF RRInv, Addressed, Asking, Holds, Busy
  <1>6. NotLost'
    BY <1>1 DEF RRInv, NotLost, Waiting, Holds
  <1>7. QED
    BY <1>2, <1>4, <1>5, <1>6 DEF RRInv

\* The counter of the helper tells a new request from all that are known.
LEMMA AskInv == ASSUME RRInv, NEW t \in Threads, NEW h \in Helpers, Ask(t, h) PROVE RRInv'
  <1> DEFINE request == [id |-> <<t, counter[h] + 1>>, helper |-> h, number |-> requests + 1]
  <1>1. /\ call[t] = Idle /\ h \in made /\ requests < MaxRequests
        /\ call' = [call EXCEPT ![t] = [at |-> "waiting", request |-> request]]
        /\ unanswered' = unanswered \cup {request}
        /\ counter' = [counter EXCEPT ![h] = @ + 1]
        /\ requests' = requests + 1
        /\ users' = [users EXCEPT ![h] = @ \cup {t}]
        /\ UNCHANGED <<made, inbox>>
    BY DEF Ask, Send
  <1>2. /\ counter[h] + 1 \in 1 .. MaxRequests
        /\ requests + 1 \in 1 .. MaxRequests
        /\ counter \in [Helpers -> 0 .. MaxRequests]
    BY <1>1, RequestReplyAssumption DEF RRInv, RRTypes, RRTypeOK, Counters
  <1>3. /\ request \in Request
        /\ request.id = <<t, counter[h] + 1>> /\ request.id[2] = counter[h] + 1
        /\ request.helper = h
    BY <1>2 DEF Request
  <1> HIDE DEF request
  <1>4. /\ call'[t] = [at |-> "waiting", request |-> request]
        /\ \A u \in Threads \ {t} : call'[u] = call[u]
    BY <1>1 DEF RRInv, RRTypes
  <1>5. RRTypes'
    <2>1. [at |-> "waiting", request |-> request] \in [at : {"waiting"}, request : Request]
      BY <1>3
    <2>2. /\ made' \subseteq Helpers /\ requests' \in 0 .. MaxRequests /\ unanswered' \subseteq Request
          /\ inbox' \in [Helpers -> Seq(Request)] /\ users' \in [Helpers -> SUBSET Threads]
          /\ counter' \in [Helpers -> 0 .. MaxRequests]
      BY <1>1, <1>2, <1>3 DEF RRInv, RRTypes, RRTypeOK
    <2>3. call' \in [Threads -> {Idle} \cup [at : {"waiting"}, request : Request]
                                  \cup [at : {"done"}, request : Request, reply : Request]]
      BY <1>1, <2>1 DEF RRInv, RRTypes
    <2>4. QED
      BY <2>2, <2>3 DEF RRTypes, RRTypeOK
  <1>6. \A r : Known(r)' <=> Known(r) \/ r = request
    <2>1. call[t].at = "idle"
      BY <1>1 DEF Idle
    <2>2. QED
      BY <1>1, <1>4, <2>1 DEF Known, Busy, Holds
  <1>7. Counters'
    BY <1>1, <1>2 DEF RRInv, Counters, RRTypes, RRTypeOK
  <1>8. Counted'
    BY <1>1, <1>2, <1>3, <1>6 DEF RRInv, Counted, Request
  <1>9. Distinct'
    <2>1. \A r \in Request : Known(r) /\ r.helper = h => r.id[2] < request.id[2]
      BY <1>2, <1>3 DEF RRInv, Counted, Request
    <2>2. \A r \in Request : Known(r) /\ r.helper = h => r.id # request.id
      BY <2>1, <1>2, <1>3 DEF Request
    <2>3. QED
      BY <1>3, <1>6, <2>2 DEF RRInv, Distinct
  <1>10. Addressed'
    BY <1>1 DEF RRInv, Addressed, Holds
  <1>11. Asking'
    BY <1>1, <1>3, <1>4 DEF RRInv, RRTypes, RRTypeOK, Asking, Busy, Request
  <1>12. NotLost'
    <2>1. SUFFICES ASSUME NEW u \in Threads, Waiting(u)'
                   PROVE  LET own == call'[u].request
                          IN \/ own \in unanswered'
                             \/ Holds(inbox[own.helper], own)
                             \/ \E g \in made : SameAddress(g, own.helper)
                             \/ users'[own.helper] # {u}
      BY <1>1 DEF NotLost, Waiting, Holds
    <2>2. CASE u = t
      BY <1>1, <1>4, <2>2
    <2>3. CASE u # t
      <3>1. Waiting(u) /\ call'[u] = call[u] /\ call[u].request.helper \in Helpers
        BY <1>4, <2>1, <2>3 DEF RRInv, RRTypes, Waiting, Idle, Request
      <3>2. users[call[u].request.helper] # {u} => users'[call[u].request.helper] # {u}
        BY <1>1, <2>3, <3>1 DEF RRInv, RRTypes, RRTypeOK, Asking, Busy, Waiting
      <3>3. QED
        BY <1>1, <3>1, <3>2 DEF RRInv, NotLost
    <2>4. QED
      BY <2>2, <2>3
  <1>13. QED
    BY <1>5, <1>7, <1>8, <1>9, <1>10, <1>11, <1>12 DEF RRInv

\* The broker gives a reply to some receiver of its address.
LEMMA ServerRepliesInv == ASSUME RRInv, NEW request \in unanswered, ServerReplies(request) PROVE RRInv'
  <1>1. PICK to \in {{g} : g \in ReceiversOf(request.helper)} \cup {ReceiversOf(request.helper)} :
          inbox' = [g \in Helpers |-> IF g \in to THEN Append(inbox[g], request) ELSE inbox[g]]
    BY DEF ServerReplies
  <1>2. /\ unanswered' = unanswered \ {request}
        /\ UNCHANGED <<made, counter, call, requests, users>>
    BY DEF ServerReplies
  <1>3. /\ request \in Request /\ Known(request)
        /\ request.helper \in made /\ request.helper \in Helpers
    BY DEF RRInv, RRTypes, RRTypeOK, Known, Counted, Request
  <1>4. /\ to \subseteq ReceiversOf(request.helper)
        /\ request.helper \in to \/ \E g \in made : SameAddress(g, request.helper)
    BY <1>1, <1>3 DEF ReceiversOf, SameAddress
  <1>5. \A g \in Helpers :
          /\ inbox[g] \in Seq(Request)
          /\ inbox'[g] \in Seq(Request)
          /\ \A r : Holds(inbox'[g], r) <=> Holds(inbox[g], r) \/ (g \in to /\ r = request)
    BY <1>1, <1>3, HoldsAppend DEF RRInv, RRTypes, RRTypeOK
  <1>6. RRTypes'
    BY <1>1, <1>2, <1>5 DEF RRInv, RRTypes, RRTypeOK
  <1>7. \A r : Known(r)' => Known(r)
    BY <1>2, <1>3, <1>5 DEF Known, Busy
  <1>8. Counters' /\ Counted' /\ Distinct'
    BY <1>2, <1>7 DEF RRInv, Counters, Counted, Distinct
  <1>9. Addressed'
    BY <1>4, <1>5 DEF RRInv, Addressed, ReceiversOf
  <1>10. Asking'
    BY <1>2 DEF RRInv, Asking, Busy
  <1>11. NotLost'
    <2>1. SUFFICES ASSUME NEW t \in Threads, Waiting(t)
                   PROVE  LET own == call[t].request
                          IN \/ own \in unanswered'
                             \/ Holds(inbox'[own.helper], own)
                             \/ \E g \in made : SameAddress(g, own.helper)
                             \/ users[own.helper] # {t}
      BY <1>2 DEF NotLost, Waiting
    <2>2. call[t].request.helper \in Helpers
      BY <2>1 DEF RRInv, RRTypes, Waiting, Idle, Request
    <2>3. QED
      BY <1>2, <1>4, <1>5, <2>1, <2>2 DEF RRInv, NotLost
  <1>12. QED
    BY <1>6, <1>8, <1>9, <1>10, <1>11 DEF RRInv

\* A reply is returned to the thread that waits for its ID, or discarded.
LEMMA TakeReplyInv == ASSUME RRInv, NEW t \in Threads, TakeReply(t) PROVE RRInv'
  <1> DEFINE own == call[t].request
             h == own.helper
             reply == Head(inbox[h])
             answered == [at |-> "done", request |-> own, reply |-> reply]
  <1>1. /\ call[t] \in [at : {"waiting"}, request : Request]
        /\ own \in Request /\ h \in Helpers
        /\ Busy(t) /\ call[t].at = "waiting"
    BY DEF RRInv, RRTypes, TakeReply, Waiting, Idle, Request, Busy
  <1>2. /\ inbox[h] # <<>>
        /\ inbox' = [inbox EXCEPT ![h] = Tail(@)]
        /\ call' = IF reply.id = own.id THEN [call EXCEPT ![t] = answered] ELSE call
        /\ UNCHANGED <<made, counter, unanswered, requests, users>>
    BY <1>1 DEF TakeReply
  <1>3. /\ \A g \in Helpers : inbox[g] \in Seq(Request)
        /\ reply \in Request /\ Holds(inbox[h], reply)
        /\ inbox'[h] = Tail(inbox[h]) /\ inbox'[h] \in Seq(Request)
        /\ \A g \in Helpers \ {h} : inbox'[g] = inbox[g]
        /\ \A r : /\ Holds(inbox'[h], r) => Holds(inbox[h], r)
                  /\ Holds(inbox[h], r) => Holds(inbox'[h], r) \/ r = reply
    BY <1>1, <1>2, HoldsTail DEF RRInv, RRTypes, RRTypeOK
  <1>4. Known(reply) /\ Home[reply.helper] = Home[h]
    BY <1>1, <1>3 DEF RRInv, Known, Addressed
  <1> HIDE DEF reply
  <1>5. /\ call' \in [Threads -> {Idle} \cup [at : {"waiting"}, request : Request]
                                   \cup [at : {"done"}, request : Request, reply : Request]]
        /\ \A u \in Threads \ {t} : call'[u] = call[u]
        /\ call'[t] = call[t] \/ (call'[t] = answered /\ reply.id = own.id)
    <2>1. answered \in [at : {"done"}, request : Request, reply : Request]
      BY <1>1, <1>3
    <2>2. QED
      BY <1>2, <2>1 DEF RRInv, RRTypes
  <1>6. RRTypes'
    <2>1. inbox' \in [Helpers -> Seq(Request)]
      BY <1>1, <1>2, <1>3 DEF RRInv, RRTypes, RRTypeOK
    <2>2. QED
      BY <1>2, <1>5, <2>1 DEF RRInv, RRTypes, RRTypeOK
  <1>7. \A r : Known(r)' => Known(r)
    <2>1. SUFFICES ASSUME NEW r, Known(r)' PROVE Known(r)
      OBVIOUS
    <2>2. CASE r \in unanswered'
      BY <1>2, <2>2 DEF Known
    <2>3. CASE \E g \in Helpers : Holds(inbox'[g], r)
      BY <1>1, <1>3, <2>3 DEF Known
    <2>4. CASE \E u \in Threads : Busy(u)' /\ r = call'[u].request
      BY <1>1, <1>5, <2>4 DEF Known, Busy
    <2>5. CASE \E u \in Threads : call'[u].at = "done" /\ r = call'[u].reply
      BY <1>1, <1>4, <1>5, <2>5 DEF Known
    <2>6. QED
      BY <2>1, <2>2, <2>3, <2>4, <2>5 DEF Known
  <1>8. Counters' /\ Counted' /\ Distinct'
    BY <1>2, <1>7 DEF RRInv, Counters, Counted, Distinct
  <1>9. Addressed'
    BY <1>1, <1>3 DEF RRInv, Addressed
  <1>10. Asking'
    BY <1>1, <1>2, <1>4, <1>5 DEF RRInv, Asking, Busy
  <1>11. NotLost'
    <2>1. SUFFICES ASSUME NEW u \in Threads, Waiting(u)'
                   PROVE  \/ call[u].request \in unanswered
                          \/ Holds(inbox'[call[u].request.helper], call[u].request)
                          \/ \E g \in made : SameAddress(g, call[u].request.helper)
                          \/ users[call[u].request.helper] # {u}
      BY <1>2, <1>5 DEF NotLost, Waiting
    <2>2. call'[u] = call[u] /\ Waiting(u) /\ call[u].request.helper \in Helpers
      BY <1>5, <2>1 DEF RRInv, RRTypes, Waiting, Idle, Request
    <2>3. CASE u = t
      <3>1. reply.id # own.id
        BY <1>1, <1>2, <1>5, <2>1, <2>3 DEF RRInv, RRTypes, Waiting
      <3>2. QED
        BY <1>3, <2>2, <2>3, <3>1 DEF RRInv, NotLost
    <2>4. CASE u # t /\ call[u].request.helper = h
      BY <1>1, <2>4 DEF RRInv, Asking
    <2>5. CASE u # t /\ call[u].request.helper # h
      BY <1>3, <2>2, <2>5 DEF RRInv, NotLost
    <2>6. QED
      BY <2>3, <2>4, <2>5
  <1>12. QED
    BY <1>6, <1>8, <1>9, <1>10, <1>11 DEF RRInv

\* A thread that stops waiting, with its reply or without, only forgets.
LEMMA LeaveInv ==
    ASSUME RRInv, NEW t \in Threads, call' = [call EXCEPT ![t] = Idle],
           UNCHANGED <<made, counter, unanswered, inbox, requests, users>>
    PROVE  RRInv'
  <1>1. /\ call'[t].at = "idle"
        /\ \A u \in Threads \ {t} : call'[u] = call[u]
    BY DEF RRInv, RRTypes, Idle
  <1>2. RRTypes'
    BY DEF RRInv, RRTypes, RRTypeOK
  <1>3. \A r : Known(r)' => Known(r)
    BY <1>1 DEF Known, Busy, Holds
  <1>4. Counters' /\ Counted' /\ Distinct'
    BY <1>3 DEF RRInv, Counters, Counted, Distinct
  <1>5. Addressed'
    BY DEF RRInv, Addressed, Holds
  <1>6. Asking' /\ NotLost'
    BY <1>1 DEF RRInv, Asking, NotLost, Busy, Waiting, Holds
  <1>7. QED
    BY <1>2, <1>4, <1>5, <1>6 DEF RRInv

\* Every step of the specification preserves the invariant.
LEMMA RRStepInv == RRInv /\ [RRNext]_RRvars => RRInv'
  <1>1. SUFFICES ASSUME RRInv, [RRNext]_RRvars PROVE RRInv'
    OBVIOUS
  <1>2. CASE UNCHANGED RRvars
    BY <1>1, <1>2
    DEF RRvars, RRInv, RRTypes, RRTypeOK, Counters, Counted, Distinct, Addressed, Asking, NotLost, Known,
        Busy, Waiting, Holds
  <1>3. ASSUME NEW h \in Helpers, MakeHelper(h) PROVE RRInv'
    BY <1>1, <1>3, MakeHelperInv
  <1>4. ASSUME NEW t \in Threads, NEW h \in Helpers, Ask(t, h) PROVE RRInv'
    BY <1>1, <1>4, AskInv
  <1>5. ASSUME NEW request \in unanswered, ServerReplies(request) PROVE RRInv'
    BY <1>1, <1>5, ServerRepliesInv
  <1>6. ASSUME NEW t \in Threads, TakeReply(t) PROVE RRInv'
    BY <1>1, <1>6, TakeReplyInv
  <1>7. ASSUME NEW t \in Threads, TimeOut(t) \/ Return(t) PROVE RRInv'
    BY <1>1, <1>7, LeaveInv DEF TimeOut, Return
  <1>8. QED
    BY <1>1, <1>2, <1>3, <1>4, <1>5, <1>6, <1>7 DEF RRNext

-----------------------------------------------------------------------------
(* Theorems                                                                *)

\* request() returns the reply to its own request unless helpers that were
\* made in one thread share an address, because a message ID tells a request
\* from all others of its helper wherever its reply is.
LEMMA RRInvOwnReply == RRInv => OwnReply
  <1>1. SUFFICES ASSUME RRInv PROVE OwnReply
    OBVIOUS
  <1>2. ASSUME NEW t \in Threads, call[t].at = "done"
        PROVE  \/ call[t].reply = call[t].request
               \/ SameAddress(call[t].reply.helper, call[t].request.helper)
    <2>1. /\ call[t].request \in Request /\ call[t].reply \in Request
          /\ Busy(t)
      BY <1>1, <1>2 DEF RRInv, RRTypes, Idle, Busy
    <2>2. Known(call[t].request) /\ Known(call[t].reply)
      BY <1>2, <2>1 DEF Known
    <2>3. QED
      BY <1>1, <1>2, <2>1, <2>2 DEF RRInv, Asking, Distinct, SameAddress
  <1>3. ASSUME NEW t \in Threads, Waiting(t)
        PROVE  LET request == call[t].request
               IN \/ request \in unanswered
                  \/ \E i \in DOMAIN inbox[request.helper] : inbox[request.helper][i] = request
                  \/ \E g \in made : SameAddress(g, request.helper)
                  \/ users[request.helper] # {t}
    BY <1>1, <1>3 DEF RRInv, NotLost, Holds
  <1>4. QED
    BY <1>2, <1>3 DEF OwnReply

\* The counters stay below their bounds and every reply is of a request.
THEOREM RequestsTypeCorrect == RRSpec => []RRTypeOK
  <1>1. RRInv => RRTypeOK
    BY DEF RRInv, RRTypes
  <1>2. QED
    BY RRInitInv, RRStepInv, <1>1, PTL DEF RRSpec

\* For any helpers, threads and number of requests, a thread gets the reply
\* to its own request, and a reply that has come is not lost for it, except
\* where helpers share an address or threads share a helper.
THEOREM RepliesAreOwn == RRSpec => []OwnReply
  BY RRInitInv, RRStepInv, RRInvOwnReply, PTL DEF RRSpec
=============================================================================
