---------------------------- MODULE LinksProofs ----------------------------
(***************************************************************************)
(* The invariants of Links, proved for any threads, addresses,             *)
(* subscriptions, names, entries and number of connections.                *)
(*                                                                         *)
(* First what a queue or a registry has left when an element goes, and how *)
(* it is counted. Then the inductive invariant IInv, for which only the    *)
(* user of a name knows it: there is one lemma for each action. Last the   *)
(* registry, by two more invariants on top of IInv: Durables, for          *)
(* subscriptions, which have one entry at most, and Plains, for the other  *)
(* links, which are counted.                                               *)
(***************************************************************************)
EXTENDS Links, FiniteSetTheorems, SequenceTheorems, WellFoundedInduction, TLAPS

-----------------------------------------------------------------------------
(* Sequences                                                               *)

\* r is s without its element i
From(i, j) == IF j < i THEN j ELSE j + 1
Removed(s, r, i) ==
    /\ i \in DOMAIN s
    /\ DOMAIN r = 1 .. Len(s) - 1 /\ Len(r) = Len(s) - 1
    /\ \A j \in DOMAIN r : From(i, j) \in DOMAIN s /\ r[j] = s[From(i, j)]

\* how many elements of s are in W
At(s, W) == {i \in DOMAIN s : s[i] \in W}
Count(s, W) == Cardinality(At(s, W))

\* RemoveAt() takes one element away and keeps the order of the others.
LEMMA RemovedAt ==
    ASSUME NEW S, NEW s \in Seq(S), NEW i \in DOMAIN s
    PROVE  RemoveAt(s, i) \in Seq(S) /\ Removed(s, RemoveAt(s, i), i)
  <1> DEFINE a == SubSeq(s, 1, i - 1)
             b == SubSeq(s, i + 1, Len(s))
  <1>1. Len(s) \in Nat /\ DOMAIN s = 1 .. Len(s) /\ i \in 1 .. Len(s) /\ \A j \in 1 .. Len(s) : s[j] \in S
    BY LenProperties, ElementOfSeq
  <1>2. a \in Seq(S) /\ Len(a) = i - 1 /\ \A j \in 1 .. i - 1 : a[j] = s[j]
    <2>1. \A j \in 1 .. i - 1 : s[j] \in S
      BY <1>1
    <2>2. /\ a \in Seq(S) /\ Len(a) = IF 1 <= i - 1 THEN (i - 1) - 1 + 1 ELSE 0
          /\ \A j \in 1 .. (i - 1) - 1 + 1 : a[j] = s[1 + j - 1]
      BY <2>1, <1>1, SubSeqProperties
    <2>3. QED
      BY <2>2, <1>1
  <1>3. b \in Seq(S) /\ Len(b) = Len(s) - i /\ \A j \in 1 .. Len(s) - i : b[j] = s[i + j]
    <2>1. \A j \in i + 1 .. Len(s) : s[j] \in S
      BY <1>1
    <2>2. /\ b \in Seq(S) /\ Len(b) = IF i + 1 <= Len(s) THEN Len(s) - (i + 1) + 1 ELSE 0
          /\ \A j \in 1 .. Len(s) - (i + 1) + 1 : b[j] = s[(i + 1) + j - 1]
      BY <2>1, <1>1, SubSeqProperties
    <2>3. QED
      BY <2>2, <1>1
  <1> HIDE DEF a, b
  <1>4. a \o b \in Seq(S) /\ Len(a \o b) = Len(s) - 1
    <2>1. a \o b \in Seq(S) /\ Len(a \o b) = Len(a) + Len(b)
      BY <1>2, <1>3, ConcatProperties
    <2>2. Len(a) + Len(b) = Len(s) - 1
      BY <1>1, <1>2, <1>3
    <2>3. QED
      BY <2>1, <2>2
  <1>5. \A j \in 1 .. Len(s) - 1 : (a \o b)[j] = IF j <= i - 1 THEN a[j] ELSE b[j - (i - 1)]
    <2>1. \A j \in 1 .. Len(a) + Len(b) : (a \o b)[j] = IF j <= Len(a) THEN a[j] ELSE b[j - Len(a)]
      BY <1>2, <1>3, ConcatProperties
    <2>2. Len(a) + Len(b) = Len(s) - 1 /\ Len(a) = i - 1
      BY <1>1, <1>2, <1>3
    <2>3. QED
      BY <2>1, <2>2
  <1>6. \A j \in 1 .. Len(s) - 1 : From(i, j) \in 1 .. Len(s) /\ (a \o b)[j] = s[From(i, j)]
    <2> SUFFICES ASSUME NEW j \in 1 .. Len(s) - 1
                 PROVE  From(i, j) \in 1 .. Len(s) /\ (a \o b)[j] = s[From(i, j)]
      OBVIOUS
    <2>1. CASE j < i
      BY <2>1, <1>1, <1>2, <1>5 DEF From
    <2>2. CASE ~(j < i)
      <3>1. j - (i - 1) \in 1 .. Len(s) - i /\ i + (j - (i - 1)) = j + 1 /\ ~(j <= i - 1)
        BY <2>2, <1>1
      <3>2. b[j - (i - 1)] = s[j + 1]
        BY <3>1, <1>3
      <3>3. QED
        <4>1. From(i, j) = j + 1 /\ j + 1 \in 1 .. Len(s)
          BY <2>2, <1>1 DEF From
        <4>2. (a \o b)[j] = b[j - (i - 1)]
          BY <3>1, <1>5
        <4>3. QED
          BY <4>1, <4>2, <3>2
    <2>3. QED
      BY <2>1, <2>2
  <1>7. RemoveAt(s, i) = a \o b
    BY DEF RemoveAt, a, b
  <1>8. DOMAIN (a \o b) = 1 .. Len(s) - 1
    BY <1>4, LenProperties
  <1>9. QED
    BY <1>1, <1>4, <1>6, <1>7, <1>8 DEF Removed

\* So does Tail(), with the first element.
LEMMA TailRemoved ==
    ASSUME NEW S, NEW s \in Seq(S), s # <<>>
    PROVE  Tail(s) \in Seq(S) /\ Head(s) = s[1] /\ Removed(s, Tail(s), 1)
  <1>1. Len(s) \in Nat \ {0} /\ DOMAIN s = 1 .. Len(s)
    BY LenProperties, EmptySeq
  <1>2. Tail(s) \in Seq(S) /\ Len(Tail(s)) = Len(s) - 1 /\ \A j \in 1 .. Len(Tail(s)) : Tail(s)[j] = s[j + 1]
    BY HeadTailProperties
  <1>3. DOMAIN Tail(s) = 1 .. Len(s) - 1
    BY <1>2, LenProperties
  <1>4. Head(s) = s[1]
    OBVIOUS
  <1>5. QED
    BY <1>1, <1>2, <1>3, <1>4 DEF Removed, From

\* Append() puts one element behind the others.
LEMMA Appended ==
    ASSUME NEW S, NEW s \in Seq(S), NEW x \in S
    PROVE  /\ Append(s, x) \in Seq(S)
           /\ Len(Append(s, x)) = Len(s) + 1 /\ Len(s) \in Nat
           /\ DOMAIN s = 1 .. Len(s) /\ DOMAIN Append(s, x) = 1 .. Len(s) + 1
           /\ \A i \in 1 .. Len(s) : Append(s, x)[i] = s[i]
           /\ Append(s, x)[Len(s) + 1] = x
  BY LenProperties

\* The elements that are left when one goes.
LEMMA Others ==
    ASSUME NEW S, NEW s \in Seq(S), NEW r \in Seq(S), NEW i, Removed(s, r, i)
    PROVE  /\ \A j \in DOMAIN r : From(i, j) \in DOMAIN s /\ From(i, j) # i /\ r[j] = s[From(i, j)]
           /\ \A j, k \in DOMAIN r : From(i, j) = From(i, k) => j = k
           /\ \A k \in DOMAIN s : k # i => \E j \in DOMAIN r : From(i, j) = k
  <1>1. Len(s) \in Nat /\ i \in 1 .. Len(s) /\ DOMAIN s = 1 .. Len(s) /\ DOMAIN r = 1 .. Len(s) - 1
    BY LenProperties DEF Removed
  <1>2. \A j \in DOMAIN r : From(i, j) \in DOMAIN s /\ From(i, j) # i /\ r[j] = s[From(i, j)]
    BY <1>1 DEF Removed, From
  <1>3. \A j, k \in DOMAIN r : From(i, j) = From(i, k) => j = k
    BY <1>1 DEF From
  <1>4. ASSUME NEW k \in DOMAIN s, k # i PROVE \E j \in DOMAIN r : From(i, j) = k
    <2> DEFINE j == IF k < i THEN k ELSE k - 1
    <2>1. j \in DOMAIN r /\ From(i, j) = k
      BY <1>1, <1>4 DEF From
    <2>2. QED
      BY <2>1
  <1>5. QED
    BY <1>2, <1>3, <1>4

\* A count is a number.
LEMMA Counts ==
    ASSUME NEW S, NEW s \in Seq(S), NEW W
    PROVE  IsFiniteSet(At(s, W)) /\ Count(s, W) \in Nat /\ Count(s, W) <= Len(s)
  <1>1. Len(s) \in Nat /\ DOMAIN s = 1 .. Len(s) /\ At(s, W) \subseteq 1 .. Len(s)
    BY LenProperties DEF At
  <1>2. IsFiniteSet(1 .. Len(s)) /\ Cardinality(1 .. Len(s)) = Len(s)
    <2>1. 1 \in Int /\ Len(s) \in Int
      BY <1>1
    <2>2. IsFiniteSet(1 .. Len(s)) /\ Cardinality(1 .. Len(s)) = IF 1 > Len(s) THEN 0 ELSE Len(s) - 1 + 1
      BY <2>1, FS_Interval
    <2>3. QED
      BY <1>1, <2>2
  <1>3. IsFiniteSet(At(s, W)) /\ Cardinality(At(s, W)) <= Len(s)
    BY <1>1, <1>2, FS_Subset
  <1>4. QED
    BY <1>3, FS_CardinalityType DEF Count

\* An element that goes is not counted any more.
LEMMA CountRemoved ==
    ASSUME NEW S, NEW s \in Seq(S), NEW r \in Seq(S), NEW i, Removed(s, r, i), NEW W
    PROVE  Count(r, W) = IF s[i] \in W THEN Count(s, W) - 1 ELSE Count(s, W)
  <1>1. Len(s) \in Nat /\ DOMAIN s = 1 .. Len(s) /\ i \in 1 .. Len(s) /\ DOMAIN r = 1 .. Len(s) - 1
    BY LenProperties DEF Removed
  <1> DEFINE f == [j \in At(r, W) |-> From(i, j)]
             T == At(s, W) \ {i}
  <1>2. \A j \in At(r, W) : j \in 1 .. Len(s) - 1 /\ f[j] \in T
    BY <1>1 DEF Removed, At, From
  <1>3. \A j, k \in At(r, W) : f[j] = f[k] => j = k
    BY <1>1, <1>2 DEF From
  <1>4. \A k \in T : \E j \in At(r, W) : f[j] = k
    <2> SUFFICES ASSUME NEW k \in T PROVE \E j \in At(r, W) : f[j] = k
      OBVIOUS
    <2> DEFINE j == IF k < i THEN k ELSE k - 1
    <2>1. k \in 1 .. Len(s) /\ k # i /\ s[k] \in W
      BY <1>1 DEF At
    <2>2. j \in 1 .. Len(s) - 1 /\ From(i, j) = k
      BY <2>1, <1>1 DEF From
    <2>3. j \in At(r, W)
      BY <2>1, <2>2, <1>1 DEF At, Removed
    <2>4. QED
      BY <2>2, <2>3
  <1>5. f \in Bijection(At(r, W), T)
    <2>1. f \in [At(r, W) -> T]
      BY <1>2
    <2>2. QED
      BY <2>1, <1>3, <1>4 DEF Bijection, Injection, Surjection, IsInjective
  <1>6. ExistsBijection(At(r, W), T)
    BY <1>5 DEF ExistsBijection
  <1>7. IsFiniteSet(At(r, W)) /\ IsFiniteSet(At(s, W)) /\ Count(s, W) \in Nat
    BY Counts
  <1>8. Cardinality(T) = Count(r, W)
    BY <1>6, <1>7, FS_Bijection DEF Count
  <1>9. Cardinality(T) = IF i \in At(s, W) THEN Count(s, W) - 1 ELSE Count(s, W)
    BY <1>7, FS_RemoveElement DEF Count
  <1>10. QED
    BY <1>1, <1>8, <1>9 DEF At

\* An element that comes is counted.
LEMMA CountAppended ==
    ASSUME NEW S, NEW s \in Seq(S), NEW x \in S, NEW W
    PROVE  Count(Append(s, x), W) = IF x \in W THEN Count(s, W) + 1 ELSE Count(s, W)
  <1>1. /\ Len(s) \in Nat /\ DOMAIN s = 1 .. Len(s) /\ DOMAIN Append(s, x) = 1 .. Len(s) + 1
        /\ \A i \in 1 .. Len(s) : Append(s, x)[i] = s[i]
        /\ Append(s, x)[Len(s) + 1] = x
    BY Appended
  <1>2. IsFiniteSet(At(s, W)) /\ Len(s) + 1 \notin At(s, W)
    <2>1. IsFiniteSet(At(s, W))
      BY Counts
    <2>2. QED
      BY <2>1, <1>1 DEF At
  <1>3. CASE x \in W
    <2>1. At(Append(s, x), W) = At(s, W) \cup {Len(s) + 1}
      BY <1>1, <1>3 DEF At
    <2>2. QED
      BY <2>1, <1>2, <1>3, FS_AddElement DEF Count
  <1>4. CASE x \notin W
    <2>1. At(Append(s, x), W) = At(s, W)
      BY <1>1, <1>4 DEF At
    <2>2. QED
      BY <2>1, <1>4 DEF Count
  <1>5. QED
    BY <1>3, <1>4

-----------------------------------------------------------------------------
(* The inductive invariant                                                 *)

\* A name tells what kind of link it was given to.
Kinds ==
    /\ \A n \in DOMAIN links :
         \/ n \in 1 .. made /\ links[n].info.kind \in Cached
         \/ n \in Subscriptions /\ links[n].info.kind = "durable" /\ links[n].info.sub = n
    /\ \A k \in Cached, a \in Addresses : cache[k][a] # None => cache[k][a] \in DOMAIN links

\* A creation that is queued has a call that waits for it. What is closed was created.
JobsOwned ==
    /\ \A i \in DOMAIN jobs : jobs[i].do = "create" => pc[jobs[i].thread] = Creating(jobs[i].info)
    /\ \A i, j \in DOMAIN jobs :
         jobs[i].do = "create" /\ jobs[j].do = "create" /\ jobs[i].thread = jobs[j].thread => i = j
    /\ \A i \in DOMAIN jobs : jobs[i].do # "create" =>
         jobs[i].name \in DOMAIN links /\ (jobs[i].do = "detach" => jobs[i].name \in Subscriptions)

\* A subscription has one thread.
PlacesOwned == \A t \in Threads :
    /\ pc[t].at = "creating" => Uses(t, pc[t].info.kind)
    /\ pc[t].at \in {"attaching", "erased"} =>
         pc[t].name \in DOMAIN links /\ (pc[t].name \in Subscriptions => t = Subscriber)
    /\ pc[t].at = "erased" /\ pc[t].op = "detach" => pc[t].name \in Subscriptions

IsAttaching(t, n) == pc[t].at = "attaching" /\ pc[t].name = n

\* Nobody is about to close n.
Unclosed(n) ==
    /\ \A i \in DOMAIN jobs : ~Closes(i, n)
    /\ \A t \in Threads : ~(pc[t].at = "erased" /\ pc[t].name = n)

\* A name that a call is about to return is known to this call only.
Fresh == \A t \in Threads, n \in Names : IsAttaching(t, n) =>
    /\ Unclosed(n) /\ n \notin returned
    /\ \A k \in Cached, a \in Addresses : cache[k][a] # n
    /\ \A u \in Threads : IsAttaching(u, n) => u = t

\* A name that was returned is not being closed.
Kept ==
    /\ \A n \in returned :
         /\ n \in DOMAIN links /\ Unclosed(n)
         /\ links[n].info.kind # "sender" => n \in attached
    /\ \A t \in Threads : pc[t].at = "creating" => pc[t].info.sub \notin returned

\* A subscription is closed before it is created again.
Behind == \A i, j \in DOMAIN jobs : i < j /\ jobs[i].do = "create" => ~Closes(j, jobs[i].info.sub)

Usable == \A n \in DOMAIN links :
    /\ n \in returned \/ \E t \in Threads : IsAttaching(t, n)
    /\ up /\ links[n].open = opens
    => n \in names /\ n \in table /\ n \in live

Gone ==
    /\ live \subseteq table
    /\ closed \subseteq DOMAIN links /\ (~up => closed = {} /\ live = {})
    /\ \A n \in closed : \/ \E i \in DOMAIN jobs : Closes(i, n)
                         \/ n \notin live \cup table /\ (n \in names \cup attached => n \in Subscriptions)

\* The links that are queued are within the bounds.
PlainJobs == {j \in CreateJobs : j.info.kind # "durable"}
Bounds ==
    /\ Len(registry) + Count(jobs, CreateJobs) <= MaxEntries
    /\ made + Count(jobs, PlainJobs) <= MaxLinks

IInv ==
    /\ TypeOK /\ Kinds /\ JobsOwned /\ PlacesOwned
    /\ Fresh /\ Kept /\ Behind
    /\ Usable /\ Gone /\ Bounds

\* A plain receiver whose attach is not answered is known to the call that makes it only. A subscription comes
\* back, so its name may be known from before.
Owed ==
    /\ ~up => awaited = {}
    /\ \A n \in awaited \ Subscriptions :
         /\ n \notin returned \cup attached \cup closed
         /\ \A k \in Cached, a \in Addresses : cache[k][a] # n
         /\ \A t \in Threads : ~(pc[t].at = "erased" /\ pc[t].name = n)

Jobs == CreateJobs \cup CloseJobs

-----------------------------------------------------------------------------
(* What the sets have                                                      *)

\* Only durable receivers have a subscription.
LEMMA InfoFacts == \A info \in LinkInfos :
    /\ info = LinkInfo(info.kind, info.addr, info.sub)
    /\ info.addr \in Addresses
    /\ \/ info.kind \in Cached /\ info.kind # "durable" /\ info.sub = None
       \/ info.kind = "durable" /\ info.sub \in Subscriptions
  BY DEF LinkInfos, LinkInfo, Cached

\* A job creates or closes.
LEMMA JobFacts ==
    /\ \A j \in Jobs : j.do = "create" =>
         j \in CreateJobs /\ j.thread \in Threads /\ j.info \in LinkInfos /\ j = CreateJob(j.thread, j.info)
    /\ \A j \in Jobs : j.do # "create" =>
         j \in CloseJobs /\ j.name \in Names /\ j.do \in Operations \cup {"release"} /\ j \notin CreateJobs
    /\ \A t \in Threads, info \in LinkInfos :
         CreateJob(t, info) \in CreateJobs /\ CreateJob(t, info).do = "create"
         /\ CreateJob(t, info).thread = t /\ CreateJob(t, info).info = info
    /\ \A n \in Names, op \in Operations \cup {"release"} :
         CloseJob(n, op) \in CloseJobs /\ CloseJob(n, op).do = op /\ op # "create" /\ CloseJob(n, op).name = n
         /\ CloseJob(n, op) \notin CreateJobs
  BY DEF Jobs, CreateJobs, CloseJobs, CreateJob, CloseJob, Operations

\* Where a thread is says what it has.
LEMMA PlaceFacts ==
    /\ \A p \in Places :
         /\ p.at = "creating" => p = Creating(p.info) /\ p.info \in LinkInfos
         /\ p.at = "attaching" => p = Attaching(p.name) /\ p.name \in Names
         /\ p.at = "erased" => p = Erased(p.name, p.op) /\ p.name \in Names /\ p.op \in Operations
    /\ Idle \in Places /\ Idle.at = "idle"
    /\ Clearing \in Places /\ Clearing.at = "clearing"
    /\ \A info : Creating(info).at = "creating" /\ Creating(info).info = info
    /\ \A info \in LinkInfos : Creating(info) \in Places
    /\ \A n : Attaching(n).at = "attaching" /\ Attaching(n).name = n
    /\ \A n \in Names : Attaching(n) \in Places
    /\ \A n, op : Erased(n, op).at = "erased" /\ Erased(n, op).name = n /\ Erased(n, op).op = op
    /\ \A n \in Names, op \in Operations : Erased(n, op) \in Places
  <1>1. \A p \in Places : p.at = "creating" => p = Creating(p.info) /\ p.info \in LinkInfos
    BY DEF Places, Idle, Clearing, Creating, Attaching
  <1>2. \A p \in Places : p.at = "attaching" => p = Attaching(p.name) /\ p.name \in Names
    BY DEF Places, Idle, Clearing, Creating, Attaching
  <1>3. \A p \in Places : p.at = "erased" => p = Erased(p.name, p.op) /\ p.name \in Names /\ p.op \in Operations
    BY DEF Places, Idle, Clearing, Creating, Attaching, Erased
  <1>4. \A n \in Names, op \in Operations : Erased(n, op) \in Places
    BY DEF Places, Erased
  <1>5. (\A info \in LinkInfos : Creating(info) \in Places) /\ (\A n \in Names : Attaching(n) \in Places)
    BY DEF Places
  <1>6. Idle \in Places /\ Idle.at = "idle" /\ Clearing \in Places /\ Clearing.at = "clearing"
    BY DEF Places, Idle, Clearing
  <1>7. /\ \A info : Creating(info).at = "creating" /\ Creating(info).info = info
        /\ \A n : Attaching(n).at = "attaching" /\ Attaching(n).name = n
        /\ \A n, op : Erased(n, op).at = "erased" /\ Erased(n, op).name = n /\ Erased(n, op).op = op
    BY DEF Creating, Attaching, Erased
  <1>8. QED
    BY <1>1, <1>2, <1>3, <1>4, <1>5, <1>6, <1>7

\* The creations that are queued are the create jobs.
LEMMA QueuedCount == ASSUME TypeOK PROVE Queued = Count(jobs, CreateJobs)
  <1>1. \A i \in DOMAIN jobs : jobs[i] \in Jobs
    BY ElementOfSeq, LenProperties DEF TypeOK, Jobs
  <1>2. {i \in DOMAIN jobs : jobs[i].do = "create"} = At(jobs, CreateJobs)
    BY <1>1, JobFacts DEF At
  <1>3. QED
    BY <1>2 DEF Queued, Count

\* What an empty queue counts.
LEMMA CountEmpty == \A W : Count(<<>>, W) = 0
  <1>1. \A W : At(<<>>, W) = {}
    BY DEF At
  <1>2. QED
    BY <1>1, FS_EmptySet DEF Count

\* What the queue has, and how much of it.
LEMMA JobsType ==
    ASSUME TypeOK
    PROVE  /\ jobs \in Seq(Jobs) /\ Len(jobs) \in Nat /\ DOMAIN jobs = 1 .. Len(jobs)
           /\ \A i \in DOMAIN jobs :
                /\ jobs[i] \in Jobs
                /\ jobs[i].do = "create" => jobs[i].thread \in Threads /\ jobs[i].info \in LinkInfos
                /\ jobs[i].do # "create" => jobs[i].name \in Names
           /\ Count(jobs, CreateJobs) \in Nat /\ Count(jobs, PlainJobs) \in Nat
           /\ Count(jobs, PlainJobs) <= Count(jobs, CreateJobs)
           /\ Len(registry) \in Nat
  <1>1. jobs \in Seq(Jobs) /\ registry \in Seq(LinkInfos)
    BY DEF TypeOK, Jobs
  <1>2. Len(jobs) \in Nat /\ DOMAIN jobs = 1 .. Len(jobs) /\ Len(registry) \in Nat
    BY <1>1, LenProperties
  <1>3. \A i \in DOMAIN jobs : jobs[i] \in Jobs
    BY <1>1, <1>2, ElementOfSeq
  <1>4. Count(jobs, CreateJobs) \in Nat /\ Count(jobs, PlainJobs) \in Nat
    BY <1>1, Counts
  <1>5. Count(jobs, PlainJobs) <= Count(jobs, CreateJobs)
    <2>1. At(jobs, PlainJobs) \subseteq At(jobs, CreateJobs) /\ IsFiniteSet(At(jobs, CreateJobs))
      BY <1>1, Counts DEF At, PlainJobs
    <2>2. QED
      BY <2>1, FS_Subset DEF Count
  <1>6. QED
    BY <1>1, <1>2, <1>3, <1>4, <1>5, JobFacts

\* What the assumption says of names.
LEMMA NameFacts ==
    /\ MaxLinks \in Nat /\ MaxEntries \in Nat
    /\ \A n \in Names : n # None
    /\ \A n \in Nat : n \notin Subscriptions /\ (n \in 1 .. MaxLinks => n \in Names)
    /\ Subscriptions \subseteq Names /\ None \notin Names
  BY LinksAssumption DEF Names

\* A thread goes somewhere.
LEMMA GotoType ==
    ASSUME TypeOK, NEW t \in Threads, NEW p \in Places, Goto(t, p)
    PROVE  pc' \in [Threads -> Places] /\ pc'[t] = p /\ \A u \in Threads : u # t => pc'[u] = pc[u]
  BY DEF TypeOK, Goto

\* The connection goes.
LEMMA LoseInv == ASSUME IInv, Lose PROVE IInv'
  <1>1. TypeOK'
    <2>1. jobs' \in Seq(CreateJobs \cup CloseJobs)
      BY EmptySeq DEF IInv, TypeOK, Lose
    <2>2. QED
      BY <2>1 DEF IInv, TypeOK, Lose
  <1>2. Kinds'
    BY DEF IInv, Kinds, Lose
  <1>3. JobsOwned'
    BY DEF IInv, JobsOwned, Closes, Lose
  <1>4. PlacesOwned'
    BY DEF IInv, PlacesOwned, Lose
  <1>5. Fresh'
    BY DEF IInv, Fresh, Unclosed, Closes, IsAttaching, Lose
  <1>6. Kept'
    BY DEF IInv, Kept, Unclosed, Closes, Lose
  <1>7. Behind'
    BY DEF IInv, Behind, Closes, Lose
  <1>8. Usable'
    BY DEF IInv, Usable, IsAttaching, Lose
  <1>9. Gone'
    BY DEF IInv, Gone, Closes, Lose
  <1>10. Bounds'
    <2>1. CASE jobs' = jobs
      BY <2>1 DEF IInv, Bounds, Lose
    <2>2. CASE jobs' = <<>>
      BY <2>2, CountEmpty, JobsType DEF IInv, TypeOK, Bounds, Lose
    <2>3. QED
      BY <2>1, <2>2 DEF Lose
  <1>11. QED
    BY <1>1, <1>2, <1>3, <1>4, <1>5, <1>6, <1>7, <1>8, <1>9, <1>10 DEF IInv

\* The client clears its caches.
LEMMA ClearCacheInv == ASSUME IInv, NEW t \in Threads, ClearCache(t) PROVE IInv'
  <1>1. pc' \in [Threads -> Places] /\ pc'[t] = Idle /\ \A u \in Threads : u # t => pc'[u] = pc[u]
    BY GotoType, PlaceFacts DEF IInv, ClearCache
  <1>2. TypeOK'
    BY <1>1, PlaceFacts, JobsType DEF IInv, TypeOK, ClearCache, conn, tables, history
  <1>3. Kinds'
    BY <1>1, PlaceFacts, JobsType DEF IInv, Kinds, ClearCache, conn, tables, history
  <1>4. JobsOwned'
    BY <1>1, PlaceFacts, JobsType DEF IInv, JobsOwned, Closes, ClearCache, conn, tables, history
  <1>5. PlacesOwned'
    BY <1>1, PlaceFacts, JobsType DEF IInv, PlacesOwned, ClearCache, conn, tables, history
  <1>6. Fresh'
    BY <1>1, PlaceFacts, JobsType, NameFacts DEF IInv, Fresh, Unclosed, Closes, IsAttaching, ClearCache,
        conn, tables, history
  <1>7. Kept'
    BY <1>1, PlaceFacts, JobsType DEF IInv, Kept, Unclosed, Closes, ClearCache, conn, tables, history
  <1>8. Behind'
    BY <1>1, PlaceFacts, JobsType DEF IInv, Behind, Closes, ClearCache, conn, tables, history
  <1>9. Usable'
    BY <1>1, PlaceFacts, JobsType DEF IInv, Usable, IsAttaching, ClearCache, conn, tables, history
  <1>10. Gone'
    BY <1>1, PlaceFacts, JobsType DEF IInv, Gone, Closes, ClearCache, conn, tables, history
  <1>11. Bounds'
    BY DEF IInv, Bounds, ClearCache, tables
  <1>12. QED
    BY <1>2, <1>3, <1>4, <1>5, <1>6, <1>7, <1>8, <1>9, <1>10, <1>11 DEF IInv

\* The connection is closed.
LEMMA CloseInv == ASSUME IInv, NEW t \in Threads, Close(t) PROVE IInv'
  <1>1. pc' \in [Threads -> Places] /\ pc'[t] = Clearing /\ \A u \in Threads : u # t => pc'[u] = pc[u]
    BY GotoType, PlaceFacts DEF IInv, Close
  <1>2. TypeOK'
    <2>1. jobs' \in Seq(CreateJobs \cup CloseJobs)
      BY EmptySeq DEF Close
    <2>2. QED
      BY <2>1, <1>1 DEF IInv, TypeOK, Close
  <1>3. Kinds'
    BY <1>1, PlaceFacts DEF IInv, Kinds, Close, conn, tables, history
  <1>4. JobsOwned'
    BY <1>1, PlaceFacts DEF IInv, JobsOwned, Closes, Close, conn, tables, history
  <1>5. PlacesOwned'
    BY <1>1, PlaceFacts DEF IInv, PlacesOwned, Close, conn, tables, history
  <1>6. Fresh'
    BY <1>1, PlaceFacts DEF IInv, Fresh, Unclosed, Closes, IsAttaching, Close, conn, tables, history
  <1>7. Kept'
    BY <1>1, PlaceFacts DEF IInv, Kept, Unclosed, Closes, Close, conn, tables, history
  <1>8. Behind'
    BY <1>1, PlaceFacts DEF IInv, Behind, Closes, Close, conn, tables, history
  <1>9. Usable'
    BY <1>1, PlaceFacts DEF IInv, Usable, IsAttaching, Close, conn, tables, history
  <1>10. Gone'
    BY <1>1, PlaceFacts DEF IInv, Gone, Closes, Close, conn, tables, history
  <1>11. Bounds'
    BY CountEmpty, JobsType DEF IInv, TypeOK, Bounds, Close
  <1>12. QED
    BY <1>2, <1>3, <1>4, <1>5, <1>6, <1>7, <1>8, <1>9, <1>10, <1>11 DEF IInv

\* The broker answers an attach. What is closed meanwhile is a link that no call returned, or a subscription.
LEMMA OnReceiverOpenInv == ASSUME IInv, Owed, NEW n \in awaited, OnReceiverOpen(n) PROVE IInv'
  <1>1. TypeOK'
    BY DEF IInv, TypeOK, OnReceiverOpen, conn, history
  <1>2. Kinds'
    BY DEF IInv, Kinds, OnReceiverOpen, conn, history
  <1>3. JobsOwned'
    BY DEF IInv, JobsOwned, Closes, OnReceiverOpen, conn, history
  <1>4. PlacesOwned'
    BY DEF IInv, PlacesOwned, OnReceiverOpen, conn, history
  <1>5. Fresh'
    BY DEF IInv, Fresh, Unclosed, Closes, IsAttaching, OnReceiverOpen, conn, history
  <1>6. Kept'
    BY DEF IInv, Kept, Unclosed, Closes, OnReceiverOpen, conn, history
  <1>7. Behind'
    BY DEF IInv, Behind, Closes, OnReceiverOpen, conn, history
  <1>8. Usable'
    BY DEF IInv, Usable, IsAttaching, OnReceiverOpen, conn, history
  <1>9. Gone'
    <2>1. n \in closed => n \in Subscriptions
      BY DEF Owed
    <2>2. QED
      BY <2>1 DEF IInv, Gone, Closes, OnReceiverOpen, conn, history
  <1>10. Bounds'
    BY DEF IInv, Bounds, Count, At, OnReceiverOpen, conn, history
  <1>11. QED
    BY <1>1, <1>2, <1>3, <1>4, <1>5, <1>6, <1>7, <1>8, <1>9, <1>10 DEF IInv

\* A call returns a name.
LEMMA CreatedInv == ASSUME IInv, NEW t \in Threads, NEW n \in Names, Created(t, n) PROVE IInv'
  <1>1. pc' \in [Threads -> Places] /\ pc'[t] = Idle /\ \A u \in Threads : u # t => pc'[u] = pc[u]
    BY GotoType, PlaceFacts DEF IInv, Created
  <1>2. pc[t].at = "attaching" /\ pc[t].name = n /\ n \in DOMAIN links
    BY PlaceFacts DEF IInv, PlacesOwned, Created
  <1>3. links[n].info \in LinkInfos /\ (links[n].info.kind \in Cached => n \in 1 .. made)
    BY <1>2 DEF IInv, TypeOK, Kinds, Cached
  <1>4. cache' \in [Cached -> [Addresses -> 1 .. MaxLinks \cup {None}]]
    BY <1>3, InfoFacts, NameFacts DEF IInv, TypeOK, Created
  <1>5. \A k \in Cached, a \in Addresses : cache'[k][a] = cache[k][a] \/ cache'[k][a] = n
    BY <1>3, InfoFacts DEF IInv, TypeOK, Created
  <1>6. TypeOK'
    BY <1>1, <1>4 DEF IInv, TypeOK, Created, conn, tables
  <1>7. Kinds'
    BY <1>2, <1>5 DEF IInv, Kinds, Created, tables
  <1>8. JobsOwned'
    BY <1>1, <1>2, PlaceFacts, JobsType DEF IInv, JobsOwned, Closes, Created, conn, tables, history
  <1>9. PlacesOwned'
    BY <1>1, <1>2, PlaceFacts, JobsType DEF IInv, PlacesOwned, Created, conn, tables, history
  <1>10. Fresh'
    BY <1>1, <1>2, <1>5, PlaceFacts DEF IInv, Fresh, Unclosed, Closes, IsAttaching, Created
  <1>11. Kept'
    <2>1. Unclosed(n) /\ \A m : Unclosed(m) => Unclosed(m)'
      BY <1>1, <1>2, PlaceFacts DEF IInv, Fresh, Unclosed, Closes, IsAttaching, Created
    <2>2. \A m \in returned' : m \in DOMAIN links /\ Unclosed(m)' /\ (links[m].info.kind # "sender" => m
        \in attached)
      BY <2>1, <1>2 DEF IInv, Kept, Created
    <2>3. \A u \in Threads : pc'[u].at = "creating" => pc'[u].info.sub # n
      <3> SUFFICES ASSUME NEW u \in Threads, pc'[u].at = "creating", pc'[u].info.sub = n PROVE FALSE
        OBVIOUS
      <3>1. u # t /\ pc[u].at = "creating" /\ pc[u].info.sub = n /\ pc[u].info \in LinkInfos
        BY <1>1, PlaceFacts DEF IInv, TypeOK
      <3>2. pc[u].info.kind = "durable" /\ n \in Subscriptions
        BY <3>1, InfoFacts, NameFacts
      <3>3. u = Subscriber
        BY <3>1, <3>2 DEF IInv, PlacesOwned, Uses
      <3>4. t = Subscriber
        BY <1>2, <3>2 DEF IInv, PlacesOwned
      <3>5. QED
        BY <3>1, <3>3, <3>4
    <2>4. QED
      BY <2>2, <2>3, <1>1, PlaceFacts DEF IInv, Kept, Created, tables
  <1>12. Behind'
    BY <1>1, <1>2, PlaceFacts, JobsType DEF IInv, Behind, Closes, Created, conn, tables, history
  <1>13. Usable'
    BY <1>1, <1>2, PlaceFacts, JobsType DEF IInv, Usable, IsAttaching, Created, conn, tables, history
  <1>14. Gone'
    BY <1>1, <1>2, PlaceFacts, JobsType DEF IInv, Gone, Closes, Created, conn, tables, history
  <1>15. Bounds'
    BY <1>1, <1>2, PlaceFacts, JobsType DEF IInv, Bounds, Count, At, Created, conn, tables, history
  <1>16. QED
    BY <1>6, <1>7, <1>8, <1>9, <1>10, <1>11, <1>12, <1>13, <1>14, <1>15 DEF IInv

\* A creation is scheduled.
LEMMA CreateInv == ASSUME IInv, NEW t \in Threads, NEW info \in LinkInfos, Create(t, info) PROVE IInv'
  <1> DEFINE job == CreateJob(t, info)
  <1>1. pc' \in [Threads -> Places] /\ pc'[t] = Creating(info) /\ \A u \in Threads : u # t => pc'[u] = pc[u]
    BY GotoType, PlaceFacts DEF IInv, Create
  <1>2. pc[t].at = "idle" /\ job \in Jobs /\ job \in CreateJobs
    BY PlaceFacts, JobFacts DEF Create, Jobs
  <1>3. /\ jobs' \in Seq(Jobs) /\ Len(jobs') = Len(jobs) + 1
        /\ DOMAIN jobs' = 1 .. Len(jobs) + 1
        /\ \A i \in DOMAIN jobs : jobs'[i] = jobs[i]
        /\ jobs'[Len(jobs) + 1] = job
    BY <1>2, JobsType, Appended DEF IInv, Create
  <1>4. job.do = "create" /\ job.thread = t /\ job.info = info
    BY JobFacts
  <1>5. /\ Count(jobs', CreateJobs) = Count(jobs, CreateJobs) + 1
        /\ Count(jobs', PlainJobs) =
            IF info.kind = "durable" THEN Count(jobs, PlainJobs) ELSE Count(jobs, PlainJobs) + 1
    BY <1>2, <1>4, JobsType, CountAppended DEF IInv, Create, PlainJobs
  <1>6. \A i \in DOMAIN jobs' :
          \/ i \in DOMAIN jobs /\ jobs'[i] = jobs[i]
          \/ i = Len(jobs) + 1 /\ jobs'[i] = job
    BY <1>3, JobsType DEF IInv
  <1>7. \A m : Unclosed(m) => Unclosed(m)'
    BY <1>1, <1>4, <1>6, PlaceFacts DEF Unclosed, Closes
  <1>8. TypeOK'
    BY <1>1, <1>3 DEF IInv, TypeOK, Jobs, Create, conn, tables
  <1>9. Kinds'
    BY DEF IInv, Kinds, Create, tables
  <1>10. JobsOwned'
    BY <1>1, <1>2, <1>4, <1>6, PlaceFacts, JobsType DEF IInv, JobsOwned, Create, tables
  <1>11. PlacesOwned'
    BY <1>1, PlaceFacts DEF IInv, PlacesOwned, Create, tables
  <1>12. Fresh'
    BY <1>1, <1>7, PlaceFacts DEF IInv, Fresh, IsAttaching, Create
  <1>13. Kept'
    BY <1>1, <1>7, PlaceFacts DEF IInv, Kept, Create, tables
  <1>14. Behind'
    BY <1>4, <1>6, JobsType DEF IInv, Behind, Closes
  <1>15. Usable'
    BY <1>1, PlaceFacts DEF IInv, Usable, IsAttaching, Create, conn, tables
  <1>16. Gone'
    BY <1>3, JobsType DEF IInv, Gone, Closes, Create, conn, tables
  <1>17. Bounds'
    <2>1. Len(registry) + Count(jobs, CreateJobs) < MaxEntries
      BY QueuedCount DEF IInv, Create, Room
    <2>2. info.kind # "durable" => made + Count(jobs, CreateJobs) < MaxLinks
      BY QueuedCount DEF IInv, Create, Room
    <2>3. made \in Nat /\ registry' = registry /\ made' = made
      BY DEF IInv, TypeOK, Create, tables
    <2>4. QED
      BY <2>1, <2>2, <2>3, <1>5, JobsType, NameFacts DEF IInv, Bounds
  <1>18. QED
    BY <1>8, <1>9, <1>10, <1>11, <1>12, <1>13, <1>14, <1>15, <1>16, <1>17 DEF IInv

\* A close is put into the queue.
LEMMA CloseAppended ==
    ASSUME TypeOK, NEW n \in Names, NEW op \in Operations \cup {"release"}, jobs' = Append(jobs, CloseJob(n, op))
    PROVE  /\ jobs' \in Seq(Jobs) /\ Len(jobs) + 1 \in DOMAIN jobs'
           /\ \A i \in DOMAIN jobs : i \in DOMAIN jobs' /\ jobs'[i] = jobs[i]
           /\ \A i \in DOMAIN jobs' :
                \/ i \in DOMAIN jobs /\ jobs'[i] = jobs[i]
                \/ i = Len(jobs) + 1 /\ jobs'[i] = CloseJob(n, op)
           /\ jobs'[Len(jobs) + 1] = CloseJob(n, op)
           /\ Count(jobs', CreateJobs) = Count(jobs, CreateJobs) /\
               Count(jobs', PlainJobs) = Count(jobs, PlainJobs)
  <1>1. CloseJob(n, op) \in Jobs /\ CloseJob(n, op) \notin CreateJobs /\ CloseJob(n, op) \notin PlainJobs
    BY JobFacts DEF Jobs, PlainJobs
  <1>2. /\ jobs' \in Seq(Jobs) /\ DOMAIN jobs' = 1 .. Len(jobs) + 1
        /\ \A i \in DOMAIN jobs : jobs'[i] = jobs[i]
        /\ jobs'[Len(jobs) + 1] = CloseJob(n, op)
    BY <1>1, JobsType, Appended
  <1>3. /\ Count(jobs', CreateJobs) = Count(jobs, CreateJobs) /\
            Count(jobs', PlainJobs) = Count(jobs, PlainJobs)
    BY <1>1, JobsType, CountAppended
  <1>4. QED
    BY <1>2, <1>3, JobsType

\* A job leaves the queue: the others keep their order.
LEMMA JobGone ==
    ASSUME TypeOK, NEW i, Removed(jobs, jobs', i), jobs' \in Seq(Jobs)
    PROVE  /\ \A j \in DOMAIN jobs' : /\ From(i, j) \in DOMAIN jobs /\ From(i, j) # i
                                      /\ jobs'[j] = jobs[From(i, j)]
           /\ \A j, k \in DOMAIN jobs' : (j < k => From(i, j) < From(i, k)) /\
               (From(i, j) = From(i, k) => j = k)
           /\ \A k \in DOMAIN jobs : k # i => \E j \in DOMAIN jobs' : From(i, j) = k
           /\ Count(jobs', CreateJobs) =
                  IF jobs[i] \in CreateJobs THEN Count(jobs, CreateJobs) - 1 ELSE Count(jobs, CreateJobs)
           /\ Count(jobs', PlainJobs) =
                  IF jobs[i] \in PlainJobs THEN Count(jobs, PlainJobs) - 1 ELSE Count(jobs, PlainJobs)
  <1>1. Len(jobs) \in Nat /\ i \in 1 .. Len(jobs) /\ DOMAIN jobs = 1 .. Len(jobs) /\
            DOMAIN jobs' = 1 .. Len(jobs) - 1
    BY JobsType DEF Removed
  <1>2. \A j \in DOMAIN jobs' : From(i, j) \in DOMAIN jobs /\ From(i, j) # i /\ jobs'[j] = jobs[From(i, j)]
    BY JobsType, Others
  <1>3. \A j, k \in DOMAIN jobs' : (j < k => From(i, j) < From(i, k)) /\ (From(i, j) = From(i, k) => j = k)
    BY <1>1 DEF From
  <1>4. \A k \in DOMAIN jobs : k # i => \E j \in DOMAIN jobs' : From(i, j) = k
    <2>1. jobs \in Seq(Jobs)
      BY JobsType
    <2>2. QED
      BY <2>1, Others
  <1>5. /\ Count(jobs', CreateJobs) =
               IF jobs[i] \in CreateJobs THEN Count(jobs, CreateJobs) - 1 ELSE Count(jobs, CreateJobs)
        /\ Count(jobs', PlainJobs) =
               IF jobs[i] \in PlainJobs THEN Count(jobs, PlainJobs) - 1 ELSE Count(jobs, PlainJobs)
    BY JobsType, CountRemoved
  <1>6. QED
    BY <1>2, <1>3, <1>4, <1>5

\* What is not being closed is not being closed afterwards, and what follows in the queue still does.
LEMMA GoneCloses ==
    ASSUME TypeOK, NEW i, Removed(jobs, jobs', i), jobs' \in Seq(Jobs)
    PROVE  /\ \A m : (\A k \in DOMAIN jobs : ~Closes(k, m)) => (\A j \in DOMAIN jobs' : ~Closes(j, m)')
           /\ \A m : (\E k \in DOMAIN jobs : Closes(k, m)) /\
               ~Closes(i, m) => \E j \in DOMAIN jobs' : Closes(j, m)'
           /\ Behind => Behind'
  <1>1. \A m : (\A k \in DOMAIN jobs : ~Closes(k, m)) => (\A j \in DOMAIN jobs' : ~Closes(j, m)')
    BY JobGone DEF Closes
  <1>2. \A m : (\E k \in DOMAIN jobs : Closes(k, m)) /\ ~Closes(i, m) => \E j \in DOMAIN jobs' : Closes(j, m)'
    BY JobGone DEF Closes
  <1>3. Behind => Behind'
    BY JobGone DEF Behind, Closes
  <1>4. QED
    BY <1>1, <1>2, <1>3

\* A close is scheduled.
LEMMA ScheduleCloseInv ==
    ASSUME IInv, NEW t \in Threads, NEW n \in Names, NEW op \in Operations, ScheduleClose(t, n, op)
    PROVE  IInv'
  <1>1. pc' \in [Threads -> Places] /\ pc'[t] = Idle /\ \A u \in Threads : u # t => pc'[u] = pc[u]
    BY GotoType, PlaceFacts DEF IInv, ScheduleClose
  <1>2. /\ pc[t].at = "erased" /\ pc[t].name = n /\ pc[t].op = op
        /\ n \in DOMAIN links /\ (n \in Subscriptions => t = Subscriber) /\
            (op = "detach" => n \in Subscriptions)
    BY PlaceFacts DEF IInv, PlacesOwned, ScheduleClose
  <1>3. up => jobs' = Append(jobs, CloseJob(n, op)) /\ closed' = closed \cup {n}
    BY DEF ScheduleClose
  <1>4. ~up => jobs' = jobs /\ closed' = closed
    BY DEF ScheduleClose
  <1>5. /\ jobs' \in Seq(Jobs)
        /\ \A i \in DOMAIN jobs : i \in DOMAIN jobs' /\ jobs'[i] = jobs[i]
        /\ Count(jobs', CreateJobs) = Count(jobs, CreateJobs) /\
            Count(jobs', PlainJobs) = Count(jobs, PlainJobs)
        /\ up => \E i \in DOMAIN jobs' : Closes(i, n)'
    BY <1>3, <1>4, CloseAppended, JobsType, JobFacts DEF IInv, Closes
  <1>6. \A i \in DOMAIN jobs' :
          \/ i \in DOMAIN jobs /\ jobs'[i] = jobs[i]
          \/ i = Len(jobs) + 1 /\ jobs'[i] = CloseJob(n, op)
    BY <1>3, <1>4, CloseAppended, JobsType DEF IInv
  <1>7. CloseJob(n, op).do # "create" /\ CloseJob(n, op).do = op /\ CloseJob(n, op).name = n
    BY JobFacts
  <1>8. \A m : m # n /\ Unclosed(m) => Unclosed(m)'
    BY <1>1, <1>6, <1>7, PlaceFacts DEF Unclosed, Closes
  <1>9. ~Unclosed(n)
    BY <1>2 DEF Unclosed
  <1>10. TypeOK'
    BY <1>1, <1>3, <1>4, <1>5 DEF IInv, TypeOK, Jobs, ScheduleClose, conn, tables
  <1>11. Kinds'
    BY DEF IInv, Kinds, ScheduleClose, tables
  <1>12. JobsOwned'
    <2>1. \A i \in DOMAIN jobs' : jobs'[i].do = "create" =>
            /\ i \in DOMAIN jobs /\ jobs'[i] = jobs[i]
            /\ pc[jobs[i].thread] = Creating(jobs[i].info) /\ jobs[i].thread \in Threads \ {t}
      BY <1>2, <1>6, <1>7, PlaceFacts, JobsType DEF IInv, JobsOwned
    <2>2. \A i \in DOMAIN jobs' : jobs'[i].do = "create" => pc'[jobs'[i].thread] = Creating(jobs'[i].info)
      BY <2>1, <1>1
    <2>3. \A i, j \in DOMAIN jobs' :
            jobs'[i].do = "create" /\ jobs'[j].do = "create" /\ jobs'[i].thread = jobs'[j].thread => i = j
      BY <2>1 DEF IInv, JobsOwned
    <2>4. \A i \in DOMAIN jobs' : jobs'[i].do # "create" =>
            jobs'[i].name \in DOMAIN links /\ (jobs'[i].do = "detach" => jobs'[i].name \in Subscriptions)
      BY <1>2, <1>6, <1>7 DEF IInv, JobsOwned
    <2>5. QED
      BY <2>2, <2>3, <2>4 DEF JobsOwned, ScheduleClose, tables
  <1>13. PlacesOwned'
    BY <1>1, PlaceFacts DEF IInv, PlacesOwned, ScheduleClose, tables
  <1>14. Fresh'
    BY <1>1, <1>8, <1>9, PlaceFacts DEF IInv, Fresh, IsAttaching, ScheduleClose
  <1>15. Kept'
    BY <1>1, <1>8, <1>9, PlaceFacts DEF IInv, Kept, ScheduleClose, tables
  <1>16. Behind'
    <2>1. \A i \in DOMAIN jobs : jobs[i].do = "create" => jobs[i].info.sub # n
      BY <1>2, JobsType, InfoFacts, NameFacts, PlaceFacts DEF IInv, JobsOwned, PlacesOwned, Uses, Cached
    <2>2. QED
      BY <2>1, <1>6, <1>7, JobsType DEF IInv, Behind, Closes
  <1>17. Usable'
    BY <1>1, PlaceFacts DEF IInv, Usable, IsAttaching, ScheduleClose, conn, tables
  <1>18. Gone'
    BY <1>2, <1>3, <1>4, <1>5 DEF IInv, Gone, Closes, ScheduleClose, conn, tables
  <1>19. Bounds'
    BY <1>5 DEF IInv, Bounds, ScheduleClose, tables
  <1>20. QED
    BY <1>10, <1>11, <1>12, <1>13, <1>14, <1>15, <1>16, <1>17, <1>18, <1>19 DEF IInv

\* A call gives up before its link is there.
LEMMA GiveUpCreatingInv == ASSUME IInv, NEW t \in Threads, GiveUp(t), pc[t].at = "creating" PROVE IInv'
  <1>1. pc' \in [Threads -> Places] /\ pc'[t] = Idle /\ \A u \in Threads : u # t => pc'[u] = pc[u]
    BY GotoType, PlaceFacts DEF IInv, GiveUp
  <1>2. pc[t] = Creating(pc[t].info) /\ pc[t].info \in LinkInfos /\ pc[t].at # "attaching"
    BY PlaceFacts DEF IInv, TypeOK
  <1>3. Withdraw(CreateJob(t, pc[t].info))
    BY <1>2 DEF GiveUp
  <1>4. \A i \in DOMAIN jobs : jobs[i].do = "create" /\ jobs[i].thread = t => jobs[i] = CreateJob(t, pc[t].info)
    BY <1>2, JobsType, JobFacts, PlaceFacts DEF IInv, JobsOwned
  <1>5. \/ jobs' = jobs /\ \A i \in DOMAIN jobs : ~(jobs[i].do = "create" /\ jobs[i].thread = t)
        \/ \E i \in DOMAIN jobs : /\ jobs[i] = CreateJob(t, pc[t].info) /\ jobs' \in Seq(Jobs)
                                  /\ Removed(jobs, jobs', i)
    <2>1. CASE \E i \in DOMAIN jobs : jobs[i] = CreateJob(t, pc[t].info) /\ jobs' = RemoveAt(jobs, i)
      BY <2>1, RemovedAt, JobsType DEF IInv
    <2>2. CASE (\A i \in DOMAIN jobs : jobs[i] # CreateJob(t, pc[t].info)) /\ UNCHANGED jobs
      BY <2>2, <1>4
    <2>3. QED
      BY <2>1, <2>2, <1>3 DEF Withdraw
  <1>6. /\ jobs' \in Seq(Jobs)
        /\ \A j \in DOMAIN jobs' : \E k \in DOMAIN jobs : jobs'[j] = jobs[k] /\ ~(jobs[k].do = "create" /\
            jobs[k].thread = t)
        /\ \A m : (\A k \in DOMAIN jobs : ~Closes(k, m)) => (\A j \in DOMAIN jobs' : ~Closes(j, m)')
        /\ \A m : (\E k \in DOMAIN jobs : Closes(k, m)) => \E j \in DOMAIN jobs' : Closes(j, m)'
        /\ Behind'
        /\ Count(jobs', CreateJobs) <= Count(jobs, CreateJobs) /\ Count(jobs', CreateJobs) \in Nat
        /\ Count(jobs', PlainJobs) <= Count(jobs, PlainJobs) /\ Count(jobs', PlainJobs) \in Nat
        /\ \A i, j \in DOMAIN jobs' :
             jobs'[i].do = "create" /\ jobs'[j].do = "create" /\ jobs'[i].thread = jobs'[j].thread => i = j
    <2>1. CASE jobs' = jobs /\ \A i \in DOMAIN jobs : ~(jobs[i].do = "create" /\ jobs[i].thread = t)
      BY <2>1, JobsType DEF IInv, Closes, Behind, JobsOwned
    <2>2. CASE \E i \in DOMAIN jobs : /\ jobs[i] = CreateJob(t, pc[t].info) /\ jobs' \in Seq(Jobs)
                                      /\ Removed(jobs, jobs', i)
      <3>0. PICK i \in DOMAIN jobs :
              jobs[i] = CreateJob(t, pc[t].info) /\ jobs' \in Seq(Jobs) /\ Removed(jobs, jobs', i)
        BY <2>2
      <3>1. jobs[i].do = "create" /\ jobs[i].thread = t /\ jobs[i] \in CreateJobs
        BY <3>0, <1>2, JobFacts
      <3>2. \A j \in DOMAIN jobs' :
              \E k \in DOMAIN jobs : jobs'[j] = jobs[k] /\ ~(jobs[k].do = "create" /\ jobs[k].thread = t)
        BY <3>0, <3>1, JobGone DEF IInv, JobsOwned
      <3>3. /\ \A m : (\A k \in DOMAIN jobs : ~Closes(k, m)) => (\A j \in DOMAIN jobs' : ~Closes(j, m)')
            /\ \A m : (\E k \in DOMAIN jobs : Closes(k, m)) => \E j \in DOMAIN jobs' : Closes(j, m)'
            /\ Behind'
        <4>1. \A m : ~Closes(i, m)
          BY <3>1 DEF Closes
        <4>2. QED
          BY <3>0, <4>1, GoneCloses DEF IInv
      <3>4. /\ Count(jobs', CreateJobs) <= Count(jobs, CreateJobs) /\ Count(jobs', CreateJobs) \in Nat
            /\ Count(jobs', PlainJobs) <= Count(jobs, PlainJobs) /\ Count(jobs', PlainJobs) \in Nat
        BY <3>0, JobGone, JobsType, Counts DEF IInv
      <3>5. \A k, l \in DOMAIN jobs' :
              jobs'[k].do = "create" /\ jobs'[l].do = "create" /\ jobs'[k].thread = jobs'[l].thread => k = l
        BY <3>0, JobGone DEF IInv, JobsOwned
      <3>6. QED
        BY <3>0, <3>2, <3>3, <3>4, <3>5
    <2>3. QED
      BY <2>1, <2>2, <1>5
  <1>7. \A m : Unclosed(m) => Unclosed(m)'
    BY <1>1, <1>6, PlaceFacts DEF Unclosed
  <1>8. TypeOK'
    BY <1>1, <1>6 DEF IInv, TypeOK, Jobs, GiveUp, conn, tables, history
  <1>9. Kinds'
    BY DEF IInv, Kinds, GiveUp, tables
  <1>10. JobsOwned'
    <2>1. \A j \in DOMAIN jobs' : jobs'[j].do = "create" => pc'[jobs'[j].thread] = Creating(jobs'[j].info)
      BY <1>1, <1>6, JobsType DEF IInv, JobsOwned
    <2>2. \A j \in DOMAIN jobs' : jobs'[j].do # "create" =>
            jobs'[j].name \in DOMAIN links /\ (jobs'[j].do = "detach" => jobs'[j].name \in Subscriptions)
      BY <1>6 DEF IInv, JobsOwned
    <2>3. QED
      BY <2>1, <2>2, <1>6 DEF JobsOwned, GiveUp, tables
  <1>11. PlacesOwned'
    BY <1>1, PlaceFacts DEF IInv, PlacesOwned, GiveUp, tables
  <1>12. Fresh'
    BY <1>1, <1>7, PlaceFacts DEF IInv, Fresh, IsAttaching, GiveUp, history
  <1>13. Kept'
    BY <1>1, <1>7, PlaceFacts DEF IInv, Kept, GiveUp, tables, history
  <1>14. Behind'
    BY <1>6
  <1>15. Usable'
    BY <1>1, PlaceFacts DEF IInv, Usable, IsAttaching, GiveUp, conn, tables, history
  <1>16. Gone'
    BY <1>6 DEF IInv, Gone, GiveUp, conn, tables, history
  <1>17. Bounds'
    BY <1>6, JobsType, NameFacts DEF IInv, TypeOK, Bounds, GiveUp, tables
  <1>18. QED
    BY <1>8, <1>9, <1>10, <1>11, <1>12, <1>13, <1>14, <1>15, <1>16, <1>17 DEF IInv

\* A call gives up when its link is there.
LEMMA GiveUpAttachingInv == ASSUME IInv, NEW t \in Threads, GiveUp(t), pc[t].at = "attaching" PROVE IInv'
  <1> DEFINE n == pc[t].name
  <1>1. pc' \in [Threads -> Places] /\ pc'[t] = Idle /\ \A u \in Threads : u # t => pc'[u] = pc[u]
    BY GotoType, PlaceFacts DEF IInv, GiveUp
  <1>2. n \in Names /\ n \in DOMAIN links /\ (n \in Subscriptions => t = Subscriber) /\ IsAttaching(t, n)
    BY PlaceFacts DEF IInv, TypeOK, PlacesOwned, IsAttaching
  <1>3. jobs' = Append(jobs, CloseJob(n, "release")) \/ jobs' = jobs
    BY DEF GiveUp
  <1>4. /\ jobs' \in Seq(Jobs)
        /\ \A i \in DOMAIN jobs : i \in DOMAIN jobs' /\ jobs'[i] = jobs[i]
        /\ Count(jobs', CreateJobs) = Count(jobs, CreateJobs) /\
            Count(jobs', PlainJobs) = Count(jobs, PlainJobs)
    BY <1>2, <1>3, CloseAppended, JobsType DEF IInv
  <1>5. \A i \in DOMAIN jobs' :
          \/ i \in DOMAIN jobs /\ jobs'[i] = jobs[i]
          \/ i = Len(jobs) + 1 /\ jobs'[i] = CloseJob(n, "release")
    BY <1>2, <1>3, CloseAppended, JobsType DEF IInv
  <1>6. LET job == CloseJob(n, "release") IN job.do # "create" /\ job.do # "detach" /\ job.name = n
    BY <1>2, JobFacts
  <1>7. \A m : m # n /\ Unclosed(m) => Unclosed(m)'
    BY <1>1, <1>5, <1>6, PlaceFacts DEF Unclosed, Closes
  <1>8. n \notin returned /\ \A u \in Threads \ {t} : ~IsAttaching(u, n)
    BY <1>2 DEF IInv, Fresh
  <1>9. TypeOK'
    BY <1>1, <1>4 DEF IInv, TypeOK, Jobs, GiveUp, conn, tables, history
  <1>10. Kinds'
    BY DEF IInv, Kinds, GiveUp, tables
  <1>11. JobsOwned'
    <2>1. \A i \in DOMAIN jobs' : jobs'[i].do = "create" =>
            /\ i \in DOMAIN jobs /\ jobs'[i] = jobs[i]
            /\ pc[jobs[i].thread] = Creating(jobs[i].info) /\ jobs[i].thread \in Threads \ {t}
      BY <1>5, <1>6, PlaceFacts, JobsType DEF IInv, JobsOwned
    <2>2. \A i \in DOMAIN jobs' : jobs'[i].do = "create" => pc'[jobs'[i].thread] = Creating(jobs'[i].info)
      BY <2>1, <1>1
    <2>3. \A i, j \in DOMAIN jobs' :
            jobs'[i].do = "create" /\ jobs'[j].do = "create" /\ jobs'[i].thread = jobs'[j].thread => i = j
      BY <2>1 DEF IInv, JobsOwned
    <2>4. \A i \in DOMAIN jobs' : jobs'[i].do # "create" =>
            jobs'[i].name \in DOMAIN links /\ (jobs'[i].do = "detach" => jobs'[i].name \in Subscriptions)
      BY <1>2, <1>5, <1>6 DEF IInv, JobsOwned
    <2>5. QED
      BY <2>2, <2>3, <2>4 DEF JobsOwned, GiveUp, tables
  <1>12. PlacesOwned'
    BY <1>1, PlaceFacts DEF IInv, PlacesOwned, GiveUp, tables
  <1>13. Fresh'
    BY <1>1, <1>7, <1>8, PlaceFacts DEF IInv, Fresh, IsAttaching, GiveUp, history
  <1>14. Kept'
    BY <1>1, <1>7, <1>8, PlaceFacts DEF IInv, Kept, GiveUp, tables, history
  <1>15. Behind'
    <2>1. \A i \in DOMAIN jobs : jobs[i].do = "create" => jobs[i].info.sub # n
      BY <1>2, JobsType, InfoFacts, NameFacts, PlaceFacts DEF IInv, JobsOwned, PlacesOwned, Uses, Cached
    <2>2. QED
      BY <2>1, <1>5, <1>6, JobsType DEF IInv, Behind, Closes
  <1>16. Usable'
    BY <1>1, PlaceFacts DEF IInv, Usable, IsAttaching, GiveUp, conn, tables, history
  <1>17. Gone'
    BY <1>4 DEF IInv, Gone, Closes, GiveUp, conn, tables, history
  <1>18. Bounds'
    BY <1>4 DEF IInv, Bounds, GiveUp, tables
  <1>19. QED
    BY <1>9, <1>10, <1>11, <1>12, <1>13, <1>14, <1>15, <1>16, <1>17, <1>18 DEF IInv

\* The name of a link that no call is still making is erased.
LEMMA EraseInv ==
    ASSUME IInv, NEW t \in Threads, NEW n \in Names, NEW op \in Operations,
           pc[t] = Idle, EraseName(t, n, op), n \in DOMAIN links,
           n \in Subscriptions => t = Subscriber, op = "detach" => n \in Subscriptions,
           \A u \in Threads : ~IsAttaching(u, n),
           cache' \in [Cached -> [Addresses -> 1 .. MaxLinks \cup {None}]],
           \A k \in Cached, a \in Addresses : cache'[k][a] = cache[k][a] \/ cache'[k][a] = None
    PROVE  IInv'
  <1>1. /\ pc' \in [Threads -> Places] /\ \A u \in Threads : u # t => pc'[u] = pc[u]
        /\ pc'[t] = IF up /\ n \in names THEN Erased(n, op) ELSE Idle
    BY GotoType, PlaceFacts DEF IInv, EraseName
  <1>2. pc[t].at = "idle" /\ ~IsAttaching(t, n)'
    BY <1>1, PlaceFacts DEF IsAttaching
  <1>3. \A m : Unclosed(m) /\ (~up \/ m # n) => Unclosed(m)'
    BY <1>1, PlaceFacts DEF Unclosed, Closes, EraseName
  <1>4. \A u \in Threads : \A m : IsAttaching(u, m)' => IsAttaching(u, m) /\ m # n
    BY <1>1, <1>2, PlaceFacts DEF IsAttaching
  <1>5. IF up THEN returned' = returned \ {n} ELSE returned' = returned /\ names' = names /\
            attached' = attached
    BY DEF EraseName
  <1>6. names \ {n} \subseteq names' /\ names' \subseteq names /\ attached \ {n} \subseteq attached' /\
            attached' \subseteq attached
    BY DEF EraseName
  <1>7. TypeOK'
    BY <1>1, <1>5, <1>6 DEF IInv, TypeOK, EraseName, conn, tables
  <1>8. Kinds'
    BY NameFacts DEF IInv, Kinds, EraseName
  <1>9. JobsOwned'
    BY <1>1, <1>2, PlaceFacts, JobsType DEF IInv, JobsOwned, EraseName
  <1>10. PlacesOwned'
    BY <1>1, PlaceFacts DEF IInv, PlacesOwned, EraseName
  <1>11. Fresh'
    BY <1>3, <1>4, <1>5, NameFacts DEF IInv, Fresh
  <1>12. Kept'
    <2>1. \A m \in returned' : m \in DOMAIN links /\ Unclosed(m)' /\ (links[m].info.kind # "sender" => m
        \in attached')
      BY <1>3, <1>5, <1>6 DEF IInv, Kept
    <2>2. \A u \in Threads : pc'[u].at = "creating" => pc'[u].info.sub \notin returned'
      BY <1>1, <1>5, PlaceFacts DEF IInv, Kept
    <2>3. QED
      BY <2>1, <2>2 DEF Kept, EraseName
  <1>13. Behind'
    BY DEF IInv, Behind, Closes, EraseName
  <1>14. Usable'
    BY <1>4, <1>5, <1>6 DEF IInv, Usable, EraseName, conn
  <1>15. Gone'
    BY <1>6 DEF IInv, Gone, Closes, EraseName, conn
  <1>16. Bounds'
    BY DEF IInv, Bounds, EraseName
  <1>17. QED
    BY <1>7, <1>8, <1>9, <1>10, <1>11, <1>12, <1>13, <1>14, <1>15, <1>16 DEF IInv

\* The client closes a link, or a producer or consumer does.
LEMMA ClientCloseInv ==
    ASSUME IInv, NEW t \in Threads, NEW k \in Cached, NEW a \in Addresses,
           ClientClose(t, k, a) \/ WrapperClose(t, k, a)
    PROVE  IInv'
  <1> DEFINE n == cache[k][a]
  <1>1. n \in Names /\ n \in DOMAIN links /\ n \notin Subscriptions /\ k \in Operations /\ k # "detach"
    BY NameFacts DEF IInv, TypeOK, Kinds, ClientClose, WrapperClose, Cached, Operations
  <1>2. pc[t] = Idle /\ EraseName(t, n, k)
    BY DEF ClientClose, WrapperClose
  <1>3. ASSUME NEW u \in Threads, IsAttaching(u, n) PROVE FALSE
    <2>1. Fresh /\ n \in Names
      BY <1>1 DEF IInv
    <2>2. cache[k][a] # n
      BY <2>1, <1>3 DEF Fresh
    <2>3. QED
      BY <2>2
  <1>4. /\ cache' \in [Cached -> [Addresses -> 1 .. MaxLinks \cup {None}]]
        /\ \A l \in Cached, b \in Addresses : cache'[l][b] = cache[l][b] \/ cache'[l][b] = None
    <2>1. cache \in [Cached -> [Addresses -> 1 .. MaxLinks \cup {None}]]
      BY DEF IInv, TypeOK
    <2>2. cache' = [cache EXCEPT ![k][a] = None] \/ cache' = cache
      BY DEF ClientClose, WrapperClose
    <2>3. QED
      BY <2>1, <2>2
  <1> HIDE DEF n
  <1>5. QED
    BY <1>1, <1>2, <1>3, <1>4, EraseInv

\* A durable consumer closes or ends its subscription.
LEMMA DurableCloseInv ==
    ASSUME IInv, NEW t \in Threads, NEW s \in Subscriptions, NEW op \in Operations, DurableClose(t, s, op)
    PROVE  IInv'
  <1>1. s \in Names /\ s \in DOMAIN links /\ t = Subscriber
    BY NameFacts DEF IInv, Kept, DurableClose, Uses
  <1>2. pc[t] = Idle /\ EraseName(t, s, op)
    BY DEF DurableClose
  <1>3. \A u \in Threads : ~IsAttaching(u, s)
    BY <1>1 DEF IInv, Fresh, DurableClose
  <1>4. /\ cache' \in [Cached -> [Addresses -> 1 .. MaxLinks \cup {None}]]
        /\ \A l \in Cached, b \in Addresses : cache'[l][b] = cache[l][b] \/ cache'[l][b] = None
    BY DEF IInv, TypeOK, DurableClose
  <1>5. QED
    BY <1>1, <1>2, <1>3, <1>4, EraseInv

\* A link is made.
LEMMA RunCreateInv == ASSUME IInv, RunCreate PROVE IInv'
  <1>1. /\ jobs # <<>> /\ jobs' = Tail(jobs) /\ jobs \in Seq(Jobs) /\ jobs' \in Seq(Jobs) /\
            Removed(jobs, jobs', 1)
        /\ Head(jobs) = jobs[1] /\ 1 \in DOMAIN jobs /\ jobs[1].do = "create"
    BY JobsType, TailRemoved DEF IInv, RunCreate, Removed
  <1>job. PICK info \in LinkInfos, t \in Threads : info = Head(jobs).info /\ t = Head(jobs).thread
    BY <1>1, JobsType DEF IInv
  <1>2. /\ jobs[1] = CreateJob(t, info) /\ pc[t] = Creating(info)
        /\ jobs[1].thread = t /\ jobs[1].info = info /\ jobs[1] \in CreateJobs
    BY <1>1, <1>job, JobsType, JobFacts DEF IInv, JobsOwned
  <1>name. PICK n : n = IF info.kind = "durable" THEN info.sub ELSE made + 1
    OBVIOUS
  <1>3. /\ made' = (IF info.kind = "durable" THEN made ELSE made + 1)
        /\ links' = [m \in DOMAIN links \cup {n} |-> IF m = n THEN [info |-> info, open |-> opens] ELSE links[m]]
        /\ table' = table \cup {n} /\ names' = names \cup {n} /\ live' = live \cup {n}
        /\ registry' = Append(registry, info) /\ closed' = closed \ {n}
        /\ Goto(t, Attaching(n))
    BY <1>job, <1>name DEF RunCreate
  <1>4. /\ Count(jobs', CreateJobs) = Count(jobs, CreateJobs) - 1
        /\ Count(jobs', PlainJobs) =
            IF info.kind = "durable" THEN Count(jobs, PlainJobs) ELSE Count(jobs, PlainJobs) - 1
    BY <1>1, <1>2, JobGone DEF IInv, PlainJobs
  <1>5. made \in Nat /\ made' \in 0 .. MaxLinks /\ made <= made' /\ made' + Count(jobs', PlainJobs) <= MaxLinks
    <2>1. made \in Nat /\ made + Count(jobs, PlainJobs) <= MaxLinks /\ Count(jobs, PlainJobs) \in Nat
      BY JobsType DEF IInv, TypeOK, Bounds
    <2>2. Count(jobs', PlainJobs) \in Nat
      BY <1>1, Counts
    <2>3. QED
      BY <2>1, <2>2, <1>3, <1>4, NameFacts
  <1>6. /\ registry' \in Seq(LinkInfos) /\ Len(registry') = Len(registry) + 1 /\ Len(registry) \in Nat
    BY <1>2, <1>3, Appended DEF IInv, TypeOK
  <1>7. /\ info.kind = "durable" => n = info.sub /\ n \in Subscriptions /\ t = Subscriber
        /\ info.kind # "durable" => n \in 1 .. made' /\ n \notin 1 .. made /\ n \notin Subscriptions /\
            info.kind \in Cached
    BY <1>name, <1>2, <1>3, <1>5, InfoFacts, NameFacts, PlaceFacts DEF IInv, PlacesOwned, Uses, Cached
  <1>8. n \in Names
    BY <1>5, <1>7, NameFacts
  <1>9. /\ pc' \in [Threads -> Places] /\ pc'[t] = Attaching(n) /\ \A u \in Threads : u # t => pc'[u] = pc[u]
        /\ pc[t].at = "creating" /\ pc[t].info = info
    BY <1>2, <1>3, <1>8, GotoType, PlaceFacts DEF IInv
  <1>10. n \in DOMAIN links => n \in Subscriptions /\ info.kind = "durable"
    BY <1>7 DEF IInv, Kinds
  <1>11. \A u \in Threads : pc[u].at \in {"attaching", "erased"} => pc[u].name # n
    BY <1>7, <1>9, <1>10 DEF IInv, PlacesOwned
  <1>12. \A i \in DOMAIN jobs' : ~Closes(i, n)'
    <2>1. \A i \in DOMAIN jobs : ~Closes(i, n)
      <3>1. CASE info.kind = "durable"
        <4>1. \A i \in DOMAIN jobs : i = 1 \/ 1 < i
          BY JobsType DEF IInv
        <4>2. QED
          BY <4>1, <3>1, <1>1, <1>2, <1>7 DEF IInv, Behind, Closes
      <3>2. CASE info.kind # "durable"
        BY <3>2, <1>7, <1>10 DEF IInv, JobsOwned, Closes
      <3>3. QED
        BY <3>1, <3>2
    <2>2. QED
      BY <2>1, <1>1, GoneCloses DEF IInv
  <1>13. n \notin returned
    BY <1>2, <1>7, <1>9, <1>10 DEF IInv, Kept
  <1>14. \A k \in Cached, a \in Addresses : cache[k][a] # n
    BY <1>7, <1>8, <1>10, NameFacts DEF IInv, TypeOK, Kinds
  <1>15. \A m : Unclosed(m) => Unclosed(m)'
    <2>1. \A m : (\A k \in DOMAIN jobs : ~Closes(k, m)) => (\A j \in DOMAIN jobs' : ~Closes(j, m)')
      BY <1>1, GoneCloses DEF IInv
    <2>2. QED
      BY <2>1, <1>9, PlaceFacts DEF Unclosed
  <1>16. Unclosed(n)'
    BY <1>9, <1>11, <1>12, PlaceFacts DEF Unclosed
  <1>17. \A u \in Threads : \A m : IsAttaching(u, m)' => (u = t /\ m = n) \/ (u # t /\ IsAttaching(u, m) /\
             m # n)
    BY <1>9, <1>11, PlaceFacts DEF IsAttaching
  <1>18. /\ DOMAIN links' = DOMAIN links \cup {n} /\ links'[n] = [info |-> info, open |-> opens]
         /\ \A m \in DOMAIN links : m # n => links'[m] = links[m]
    BY <1>3
  <1>19. up /\ UNCHANGED <<up, opens, attached, cache, returned, astray>>
        /\ awaited' = IF info.kind = "sender" THEN awaited ELSE awaited \cup {n}
    BY <1>job, <1>name DEF RunCreate, conn
  <1>20. TypeOK'
    <2>1. links'[n] \in [info : LinkInfos, open : 1 .. opens] /\ opens \in Nat
      BY <1>2, <1>18 DEF IInv, TypeOK
    <2>2. \A m \in DOMAIN links' : links'[m] \in [info : LinkInfos, open : 1 .. opens]
      BY <2>1, <1>18 DEF IInv, TypeOK
    <2>3. attached' \cup awaited' \subseteq {m \in DOMAIN links' : links'[m].info.kind # "sender"}
      <3>1. ASSUME NEW m \in attached \cup awaited
            PROVE  m \in DOMAIN links' /\ links'[m].info.kind # "sender"
        <4>1. m \in DOMAIN links /\ links[m].info.kind # "sender"
          BY <3>1 DEF IInv, TypeOK
        <4>2. QED
          BY <4>1, <1>10, <1>18
      <3>2. info.kind # "sender" => n \in DOMAIN links' /\ links'[n].info.kind # "sender"
        BY <1>18
      <3>3. QED
        BY <3>1, <3>2, <1>19
    <2>4. Len(registry') <= MaxEntries
      <3>1. Count(jobs, CreateJobs) \in Nat /\ Count(jobs, CreateJobs) >= 1
        <4>1. Count(jobs', CreateJobs) \in Nat /\ Count(jobs, CreateJobs) \in Nat
          BY <1>1, Counts
        <4>2. QED
          BY <4>1, <1>4
      <3>2. QED
        BY <3>1, <1>6, NameFacts DEF IInv, Bounds
    <2>5. QED
      BY <2>2, <2>3, <2>4, <1>1, <1>3, <1>5, <1>6, <1>8, <1>9, <1>18, <1>19 DEF IInv, TypeOK, Jobs
  <1>21. Kinds'
    <2>1. \A m \in DOMAIN links' :
            \/ m \in 1 .. made' /\ links'[m].info.kind \in Cached
            \/ m \in Subscriptions /\ links'[m].info.kind = "durable" /\ links'[m].info.sub = m
      <3>1. \A m \in 1 .. made : m \in 1 .. made'
        BY <1>5
      <3>2. QED
        BY <3>1, <1>7, <1>18 DEF IInv, Kinds
    <2>2. QED
      BY <2>1, <1>18, <1>19 DEF IInv, Kinds
  <1>22. JobsOwned'
    <2>1. \A j \in DOMAIN jobs' : jobs'[j].do = "create" =>
            /\ pc[jobs'[j].thread] = Creating(jobs'[j].info) /\ jobs'[j].thread \in Threads /\
                jobs'[j].thread # t
      BY <1>1, <1>2, JobGone, JobsType DEF IInv, JobsOwned
    <2>2. \A j, k \in DOMAIN jobs' :
            jobs'[j].do = "create" /\ jobs'[k].do = "create" /\ jobs'[j].thread = jobs'[k].thread => j = k
      BY <1>1, JobGone DEF IInv, JobsOwned
    <2>3. \A j \in DOMAIN jobs' : jobs'[j].do # "create" =>
            jobs'[j].name \in DOMAIN links /\ (jobs'[j].do = "detach" => jobs'[j].name \in Subscriptions)
      BY <1>1, JobGone DEF IInv, JobsOwned
    <2>4. QED
      BY <2>1, <2>2, <2>3, <1>9, <1>18 DEF JobsOwned
  <1>23. PlacesOwned'
    BY <1>7, <1>9, <1>18, PlaceFacts DEF IInv, PlacesOwned
  <1>24. Fresh'
    <2>1. ASSUME NEW u \in Threads, NEW m \in Names, IsAttaching(u, m)'
          PROVE  /\ Unclosed(m)' /\ m \notin returned'
                 /\ \A k \in Cached, a \in Addresses : cache'[k][a] # m
                 /\ \A v \in Threads : IsAttaching(v, m)' => v = u
      <3>1. CASE u = t /\ m = n
        BY <3>1, <1>13, <1>14, <1>16, <1>17, <1>19
      <3>2. CASE u # t /\ IsAttaching(u, m) /\ m # n
        <4>1. /\ Unclosed(m) /\ m \notin returned
              /\ \A k \in Cached, a \in Addresses : cache[k][a] # m
              /\ \A v \in Threads : IsAttaching(v, m) => v = u
          BY <3>2 DEF IInv, Fresh
        <4>2. QED
          BY <4>1, <3>2, <1>15, <1>17, <1>19
      <3>3. QED
        BY <2>1, <3>1, <3>2, <1>17
    <2>2. QED
      BY <2>1 DEF Fresh
  <1>25. Kept'
    <2>1. \A m \in returned : m \in DOMAIN links' /\ Unclosed(m)' /\
              (links'[m].info.kind # "sender" => m \in attached)
      BY <1>13, <1>15, <1>18 DEF IInv, Kept
    <2>2. \A u \in Threads : pc'[u].at = "creating" => pc'[u].info.sub \notin returned
      BY <1>9, PlaceFacts DEF IInv, Kept
    <2>3. QED
      BY <2>1, <2>2, <1>19 DEF Kept
  <1>26. Behind'
    BY <1>1, GoneCloses DEF IInv
  <1>27. Usable'
    BY <1>3, <1>13, <1>17, <1>18, <1>19 DEF IInv, Usable
  <1>28. Gone'
    <2>1. \A m \in closed' : m # n /\ m \in closed
      BY <1>3
    <2>2. \A m : (\E k \in DOMAIN jobs : Closes(k, m)) => \E j \in DOMAIN jobs' : Closes(j, m)'
      <3>1. \A m : ~Closes(1, m)
        BY <1>1 DEF Closes
      <3>2. QED
        BY <3>1, <1>1, GoneCloses DEF IInv
    <2>3. QED
      BY <2>1, <2>2, <1>3, <1>18, <1>19 DEF IInv, Gone
  <1>29. Bounds'
    BY <1>4, <1>5, <1>6, JobsType, NameFacts DEF IInv, Bounds
  <1>30. QED
    BY <1>20, <1>21, <1>22, <1>23, <1>24, <1>25, <1>26, <1>27, <1>28, <1>29 DEF IInv

\* A link is closed.
LEMMA RunCloseInv == ASSUME IInv, RunClose PROVE IInv'
  <1>1. /\ jobs # <<>> /\ jobs' = Tail(jobs) /\ jobs \in Seq(Jobs) /\ jobs' \in Seq(Jobs) /\
            Removed(jobs, jobs', 1)
        /\ Head(jobs) = jobs[1] /\ 1 \in DOMAIN jobs /\ jobs[1].do # "create"
    BY JobsType, TailRemoved DEF IInv, RunClose, Removed
  <1>2. PICK n \in Names, op \in Operations \cup {"release"} : n = jobs[1].name /\ op = jobs[1].do
    BY <1>1, JobsType, JobFacts DEF IInv
  <1>3. n \in DOMAIN links /\ (op = "detach" => n \in Subscriptions) /\ Closes(1, n)
    BY <1>1, <1>2 DEF IInv, JobsOwned, Closes
  <1>4. CloseLink(n, op)
    BY <1>1, <1>2 DEF RunClose
  <1>5. /\ names' = (IF op = "detach" THEN names ELSE names \ {n})
        /\ attached' = (IF op = "detach" THEN attached ELSE attached \ {n})
        /\ IF n \in table THEN table' = table \ {n} /\ live' = live \ {n}
                          ELSE table' = table /\ live' = live
    BY <1>4 DEF CloseLink
  <1>6. UNCHANGED <<up, opens, awaited, links, made, pc, cache, returned, closed>>
    BY DEF RunClose, conn
  <1>7. registry' \in Seq(LinkInfos) /\ Len(registry') <= Len(registry) /\ Len(registry') \in Nat
    <2>1. registry' = registry \/ \E i \in DOMAIN registry : registry' = RemoveAt(registry, i)
      BY <1>4 DEF CloseLink, Erase, Entries
    <2>2. registry \in Seq(LinkInfos) /\ Len(registry) \in Nat
      BY LenProperties DEF IInv, TypeOK
    <2>3. ASSUME NEW i \in DOMAIN registry, registry' = RemoveAt(registry, i)
          PROVE  registry' \in Seq(LinkInfos) /\ Len(registry') = Len(registry) - 1
      BY <2>2, <2>3, RemovedAt DEF Removed
    <2>4. registry' \in Seq(LinkInfos) => Len(registry') \in Nat
      BY LenProperties
    <2>5. QED
      BY <2>1, <2>2, <2>3, <2>4
  <1>8. astray' \subseteq Addresses \cup Subscriptions
    <2>1. links[n].info \in LinkInfos
      BY <1>3 DEF IInv, TypeOK
    <2>2. Where(links[n].info) \subseteq Addresses \cup Subscriptions
      BY <2>1, InfoFacts DEF Where
    <2>3. astray' \subseteq astray \cup Where(links[n].info)
      BY <1>4 DEF CloseLink
    <2>4. QED
      BY <2>2, <2>3 DEF IInv, TypeOK
  <1>9. n \notin returned /\ \A u \in Threads : ~IsAttaching(u, n)
    BY <1>1, <1>2, <1>3 DEF IInv, Kept, Fresh, Unclosed
  <1>10. \A m : Unclosed(m) => Unclosed(m)'
    <2>1. \A m : (\A k \in DOMAIN jobs : ~Closes(k, m)) => (\A j \in DOMAIN jobs' : ~Closes(j, m)')
      BY <1>1, GoneCloses DEF IInv
    <2>2. QED
      BY <2>1, <1>6 DEF Unclosed
  <1>11. TypeOK'
    <2>1. /\ table' \subseteq DOMAIN links' /\ live' \subseteq DOMAIN links' /\ names' \subseteq DOMAIN links'
          /\ attached' \cup awaited' \subseteq {m \in DOMAIN links' : links'[m].info.kind # "sender"}
      BY <1>5, <1>6 DEF IInv, TypeOK
    <2>2. Len(registry') <= MaxEntries
      BY <1>7, JobsType, NameFacts DEF IInv, TypeOK
    <2>3. QED
      BY <2>1, <2>2, <1>1, <1>6, <1>7, <1>8 DEF IInv, TypeOK, Jobs
  <1>12. Kinds'
    BY <1>6 DEF IInv, Kinds
  <1>13. JobsOwned'
    <2>1. \A j \in DOMAIN jobs' : jobs'[j].do = "create" => pc[jobs'[j].thread] = Creating(jobs'[j].info)
      BY <1>1, JobGone DEF IInv, JobsOwned
    <2>2. \A j, k \in DOMAIN jobs' :
            jobs'[j].do = "create" /\ jobs'[k].do = "create" /\ jobs'[j].thread = jobs'[k].thread => j = k
      BY <1>1, JobGone DEF IInv, JobsOwned
    <2>3. \A j \in DOMAIN jobs' : jobs'[j].do # "create" =>
            jobs'[j].name \in DOMAIN links /\ (jobs'[j].do = "detach" => jobs'[j].name \in Subscriptions)
      BY <1>1, JobGone DEF IInv, JobsOwned
    <2>4. QED
      BY <2>1, <2>2, <2>3, <1>6 DEF JobsOwned
  <1>14. PlacesOwned'
    BY <1>6 DEF IInv, PlacesOwned
  <1>15. Fresh'
    BY <1>6, <1>10 DEF IInv, Fresh, IsAttaching
  <1>16. Kept'
    BY <1>5, <1>6, <1>9, <1>10 DEF IInv, Kept
  <1>17. Behind'
    BY <1>1, GoneCloses DEF IInv
  <1>18. Usable'
    BY <1>5, <1>6, <1>9 DEF IInv, Usable, IsAttaching
  <1>19. Gone'
    <2>1. \A m : (\E k \in DOMAIN jobs : Closes(k, m)) /\ m # n => \E j \in DOMAIN jobs' : Closes(j, m)'
      <3>1. \A m : m # n => ~Closes(1, m)
        BY <1>2 DEF Closes
      <3>2. QED
        BY <3>1, <1>1, GoneCloses DEF IInv
    <2>2. n \notin live' \cup table' /\ (n \in names' \cup attached' => n \in Subscriptions)
      BY <1>3, <1>5 DEF IInv, Gone
    <2>3. live' \subseteq table' /\ live' \subseteq live /\ table' \subseteq table
      BY <1>5 DEF IInv, Gone
    <2>4. names' \subseteq names /\ attached' \subseteq attached
      BY <1>5
    <2>5. ASSUME NEW m \in closed'
          PROVE  \/ \E j \in DOMAIN jobs' : Closes(j, m)'
                 \/ m \notin live' \cup table' /\ (m \in names' \cup attached' => m \in Subscriptions)
      BY <2>1, <2>2, <2>3, <2>4, <1>6 DEF IInv, Gone
    <2>6. closed' \subseteq DOMAIN links' /\ (~up' => closed' = {} /\ live' = {})
      BY <2>3, <1>6 DEF IInv, Gone
    <2>7. QED
      BY <2>3, <2>5, <2>6 DEF Gone
  <1>20. Bounds'
    <2>1. Count(jobs', CreateJobs) = Count(jobs, CreateJobs) /\ Count(jobs', PlainJobs) = Count(jobs, PlainJobs)
      BY <1>1, JobGone, JobFacts DEF IInv, PlainJobs, CreateJobs
    <2>2. QED
      BY <2>1, <1>6, <1>7, JobsType, NameFacts DEF IInv, TypeOK, Bounds
  <1>21. QED
    BY <1>11, <1>12, <1>13, <1>14, <1>15, <1>16, <1>17, <1>18, <1>19, <1>20 DEF IInv

\* A set of numbers up to k has a greatest one.
LEMMA MaxIsIn ==
    ASSUME NEW k \in Nat, NEW S, S \subseteq 1 .. k, S # {}
    PROVE  Max(S) \in S /\ \A y \in S : y <= Max(S)
  <1> DEFINE T == {k - x : x \in S}
  <1>1. T \subseteq Nat /\ T # {}
    <2>1. \A x \in S : x \in Nat /\ k - x \in Nat
      OBVIOUS
    <2>2. QED
      BY <2>1
  <1>2. PICK m \in T : \A y \in T : ~(<<y, m>> \in OpToRel(<, Nat))
    BY <1>1, NatLessThanWellFounded, WFMin
  <1>3. \A y \in T : ~(y < m)
    BY <1>1, <1>2 DEF OpToRel
  <1>4. PICK x \in S : m = k - x
    OBVIOUS
  <1>5. \A y \in S : x >= y
    <2>1. \A y \in S : ~(k - y < k - x)
      BY <1>3, <1>4
    <2>2. QED
      BY <2>1
  <1>6. \E z \in S : \A y \in S : z >= y
    BY <1>5
  <1>7. Max(S) \in S /\ \A y \in S : Max(S) >= y
    BY <1>6 DEF Max
  <1>8. QED
    BY <1>7

\* The names that a reconnection gives: new ones to plain links, that of the subscription to the others.
LEMMA Recovery ==
    ASSUME TypeOK
    PROVE  /\ IsFiniteSet(Plain) /\ Cardinality(Plain) \in Nat /\ made \in Nat
           /\ DOMAIN registry = 1 .. Len(registry) /\ Len(registry) \in Nat
           /\ \A i \in DOMAIN registry : registry[i] \in LinkInfos
           /\ \A i \in Plain : NewName(i) \in made + 1 .. made + Cardinality(Plain)
           /\ \A i, j \in Plain : NewName(i) = NewName(j) => i = j
           /\ \A i \in DOMAIN registry \ Plain :
                registry[i].kind = "durable" /\ NewName(i) = registry[i].sub /\ NewName(i) \in Subscriptions
           /\ \A n \in Again : \E i \in DOMAIN registry : NewName(i) = n /\ Recovered(n) = registry[i]
  <1>1. registry \in Seq(LinkInfos) /\ DOMAIN registry = 1 .. Len(registry) /\ Len(registry) \in Nat /\
            made \in Nat
    BY LenProperties DEF TypeOK
  <1>2. \A i \in DOMAIN registry : registry[i] \in LinkInfos
    BY <1>1, ElementOfSeq
  <1>3. Plain \subseteq 1 .. Len(registry) /\ IsFiniteSet(1 .. Len(registry))
    BY <1>1, FS_Interval DEF Plain
  <1>4. IsFiniteSet(Plain) /\ Cardinality(Plain) \in Nat
    BY <1>3, FS_Subset, FS_CardinalityType
  <1> DEFINE UpTo(i) == {j \in Plain : j <= i}
  <1>5. \A i \in Plain : /\ IsFiniteSet(UpTo(i)) /\ Cardinality(UpTo(i)) \in Nat
                         /\ Cardinality(UpTo(i)) <= Cardinality(Plain)
    BY <1>4, FS_Subset, FS_CardinalityType
  <1>6. \A i \in Plain : Cardinality(UpTo(i)) # 0
    <2>1. \A i \in Plain : i \in UpTo(i)
      BY <1>3
    <2>2. QED
      BY <2>1, <1>5, FS_EmptySet
  <1>7. ASSUME NEW i \in Plain, NEW j \in Plain, i < j
        PROVE  Cardinality(UpTo(i)) # Cardinality(UpTo(j))
    <2>1. UpTo(i) \in SUBSET UpTo(j)
      <3>1. \A h \in Plain : h \in Nat
        BY <1>1, <1>3
      <3>2. \A h \in Plain : h <= i => h <= j
        BY <3>1, <1>7
      <3>3. QED
        BY <3>2
    <2>2. j \in UpTo(j) /\ j \notin UpTo(i)
      BY <1>3, <1>7
    <2>3. Cardinality(UpTo(j)) = Cardinality(UpTo(i)) => UpTo(j) = UpTo(i)
      BY <2>1, <1>5, FS_Subset
    <2>4. QED
      BY <2>2, <2>3
  <1>8. \A i \in Plain : NewName(i) = made + Cardinality(UpTo(i))
    BY DEF NewName
  <1> HIDE DEF UpTo
  <1>9. \A i \in Plain : NewName(i) \in made + 1 .. made + Cardinality(Plain)
    BY <1>1, <1>4, <1>5, <1>6, <1>8
  <1>10. \A i, j \in Plain : NewName(i) = NewName(j) => i = j
    <2> SUFFICES ASSUME NEW i \in Plain, NEW j \in Plain, NewName(i) = NewName(j) PROVE i = j
      OBVIOUS
    <2>1. Cardinality(UpTo(i)) = Cardinality(UpTo(j))
      BY <1>1, <1>5, <1>8
    <2>2. i \in Nat /\ j \in Nat
      BY <1>3
    <2>3. QED
      BY <2>1, <2>2, <1>7
  <1>11. \A i \in DOMAIN registry \ Plain :
           registry[i].kind = "durable" /\ NewName(i) = registry[i].sub /\ NewName(i) \in Subscriptions
    BY <1>2, InfoFacts DEF Plain, NewName, Cached
  <1>12. ASSUME NEW n \in Again
         PROVE  \E i \in DOMAIN registry : NewName(i) = n /\ Recovered(n) = registry[i]
    <2> DEFINE S == {i \in DOMAIN registry : NewName(i) = n}
    <2>1. S \subseteq 1 .. Len(registry) /\ S # {}
      BY <1>1 DEF Again
    <2>2. Max(S) \in S
      BY <2>1, <1>1, MaxIsIn
    <2>3. QED
      BY <2>2 DEF Recovered
  <1>13. QED
    BY <1>1, <1>2, <1>4, <1>9, <1>10, <1>11, <1>12

\* The connection is opened again.
LEMMA ReopenInv == ASSUME IInv, Owed, Reopen PROVE IInv'
  <1>1. /\ ~up /\ up' = TRUE /\ opens' = opens + 1 /\ opens < MaxOpens
        /\ UNCHANGED <<attached, registry, jobs, pc, cache, returned, closed, astray>>
    BY DEF Reopen, history
  <1>2. made \in Nat /\ opens \in Nat /\ opens' \in 1 .. MaxOpens /\ live = {} /\ closed = {}
    BY <1>1, LinksAssumption DEF IInv, TypeOK, Gone
  <1>open. awaited = {}
    BY <1>1 DEF Owed
  <1>3. PICK again \in SUBSET Names :
          /\ DOMAIN links' = DOMAIN links \cup again /\ made' \in Nat /\ made <= made'
          /\ made' + Count(jobs, PlainJobs) <= MaxLinks
          /\ table' = table \cup again /\ names' = names \cup again /\ live' = again
          /\ awaited' = {n \in again : links'[n].info.kind # "sender"}
          /\ \A n \in DOMAIN links \ again : links'[n] = links[n]
          /\ \A n \in again :
               /\ links'[n] \in [info : LinkInfos, open : {opens + 1}]
               /\ \/ n \in 1 .. made' /\ n \notin 1 .. made /\ links'[n].info.kind \in Cached
                  \/ n \in Subscriptions /\ links'[n].info.kind = "durable" /\ links'[n].info.sub = n
    <2>1. CASE Recover
      <3>1. /\ made + Cardinality(Plain) + Count(jobs, CreateJobs) <= MaxLinks /\
                made' = made + Cardinality(Plain)
            /\ links' = [n \in DOMAIN links \cup Again |->
                            IF n \in Again THEN [info |-> Recovered(n), open |-> opens + 1] ELSE links[n]]
            /\ table' = table \cup Again /\ names' = names \cup Again /\ live' = Again
            /\ awaited' = {n \in Again : Recovered(n).kind # "sender"}
        BY <2>1, QueuedCount DEF IInv, Reopen
      <3>2. \A n \in Again : \E i \in DOMAIN registry :
              NewName(i) = n /\ Recovered(n) = registry[i] /\ registry[i] \in LinkInfos
        BY Recovery DEF IInv
      <3>3. \A i \in Plain : registry[i].kind \in Cached /\ NewName(i) \in 1 .. made' /\
                NewName(i) \notin 1 .. made
        BY <3>1, Recovery, InfoFacts DEF IInv, Plain
      <3>4. \A n \in Again :
              \/ n \in 1 .. made' /\ n \notin 1 .. made /\ Recovered(n).kind \in Cached
              \/ n \in Subscriptions /\ Recovered(n).kind = "durable" /\ Recovered(n).sub = n
        BY <3>2, <3>3, Recovery DEF IInv
      <3>5. /\ Count(jobs, CreateJobs) \in Nat /\ Cardinality(Plain) \in Nat
            /\ Count(jobs, PlainJobs) \in Nat /\ Count(jobs, PlainJobs) <= Count(jobs, CreateJobs)
        BY Recovery, JobsType DEF IInv
      <3>6. made' \in Nat /\ made <= made' /\ made' + Count(jobs, PlainJobs) <= MaxLinks /\ made' <= MaxLinks
        BY <3>1, <3>5, <1>2, NameFacts
      <3>7. Again \in SUBSET Names
        BY <3>4, <3>6, NameFacts
      <3>8. \A n \in Again : links'[n] = [info |-> Recovered(n), open |-> opens + 1] /\
                Recovered(n) \in LinkInfos
        BY <3>1, <3>2
      <3>9. ASSUME NEW n \in Again
            PROVE  links'[n] \in [info : LinkInfos, open : {opens + 1}] /\ links'[n].info = Recovered(n)
        <4>1. links'[n] = [info |-> Recovered(n), open |-> opens + 1] /\ Recovered(n) \in LinkInfos
          BY <3>8
        <4>2. PICK info \in LinkInfos : info = Recovered(n)
          BY <4>1
        <4>3. links'[n] = [info |-> info, open |-> opens + 1]
          BY <4>1, <4>2
        <4>4. QED
          BY <4>2, <4>3
      <3>10. awaited' = {n \in Again : links'[n].info.kind # "sender"}
        BY <3>1, <3>9
      <3>11. QED
        BY <3>1, <3>4, <3>6, <3>7, <3>9, <3>10
    <2>2. CASE ~Recover
      <3>1. UNCHANGED <<made, links, table, names>> /\ live' = {} /\ awaited' = {} /\ {} \in SUBSET Names
        BY <2>2, <1>2, <1>open DEF Reopen
      <3>2. made' \in Nat /\ made <= made' /\ made' + Count(jobs, PlainJobs) <= MaxLinks
        BY <3>1, <1>2 DEF IInv, Bounds
      <3>3. QED
        BY <3>1, <3>2
    <2>3. QED
      BY <2>1, <2>2
  <1>4. Count(jobs, CreateJobs) \in Nat /\ Count(jobs, PlainJobs) \in Nat /\
            Count(jobs, PlainJobs) <= Count(jobs, CreateJobs)
    BY JobsType DEF IInv
  <1>5. \A m : Unclosed(m) => Unclosed(m)'
    BY <1>1 DEF Unclosed, Closes
  <1>6. \A n \in DOMAIN links \cap again :
          n \in Subscriptions /\ links[n].info.kind = "durable" /\ links'[n].info.kind = "durable"
    <2>1. \A n \in 1 .. made' : n \notin Subscriptions
      BY <1>3, NameFacts
    <2>2. QED
      BY <2>1, <1>3, <1>2, NameFacts DEF IInv, Kinds
  <1>7. TypeOK'
    <2>1. \A n \in DOMAIN links' : links'[n] \in [info : LinkInfos, open : 1 .. opens']
      <3>1. \A n \in DOMAIN links : links[n] \in [info : LinkInfos, open : 1 .. opens']
        BY <1>1, <1>2 DEF IInv, TypeOK
      <3>2. \A n \in again : links'[n] \in [info : LinkInfos, open : 1 .. opens']
        BY <1>1, <1>2, <1>3
      <3>3. QED
        BY <3>1, <3>2, <1>3
    <2>2. attached' \cup awaited' \subseteq {n \in DOMAIN links' : links'[n].info.kind # "sender"}
      <3>1. ASSUME NEW n \in attached
            PROVE  n \in DOMAIN links' /\ links'[n].info.kind # "sender"
        <4>1. n \in DOMAIN links /\ links[n].info.kind # "sender"
          BY DEF IInv, TypeOK
        <4>2. QED
          BY <4>1, <1>3, <1>6
      <3>2. QED
        BY <3>1, <1>1, <1>3
    <2>3. /\ table' \subseteq DOMAIN links' /\ live' \subseteq DOMAIN links'
          /\ names' \subseteq DOMAIN links' /\ DOMAIN links' \subseteq Names
      BY <1>1, <1>2, <1>3 DEF IInv, TypeOK
    <2>4. made' \in 0 .. MaxLinks
      BY <1>3, <1>4, NameFacts
    <2>5. up' \in BOOLEAN /\ opens' \in 1 .. MaxOpens
      BY <1>1, <1>2
    <2>6. QED
      BY <2>1, <2>2, <2>3, <2>4, <2>5, <1>1 DEF IInv, TypeOK
  <1>8. Kinds'
    <2>1. \A n \in 1 .. made : n \in 1 .. made'
      BY <1>2, <1>3
    <2>2. QED
      BY <2>1, <1>1, <1>3 DEF IInv, Kinds
  <1>9. JobsOwned'
    BY <1>1, <1>3 DEF IInv, JobsOwned
  <1>10. PlacesOwned'
    BY <1>1, <1>3 DEF IInv, PlacesOwned
  <1>11. Fresh'
    BY <1>1, <1>5 DEF IInv, Fresh, IsAttaching
  <1>12. Kept'
    BY <1>1, <1>3, <1>5, <1>6 DEF IInv, Kept
  <1>13. Behind'
    BY <1>1 DEF IInv, Behind, Closes
  <1>14. Usable'
    <2>1. \A n \in DOMAIN links \ again : links'[n].open # opens'
      BY <1>1, <1>2, <1>3 DEF IInv, TypeOK
    <2>2. QED
      BY <2>1, <1>3 DEF IInv, Usable
  <1>15. Gone'
    BY <1>1, <1>2, <1>3 DEF IInv, Gone
  <1>16. Bounds'
    BY <1>1, <1>3, <1>4, NameFacts DEF IInv, Bounds
  <1>17. QED
    BY <1>7, <1>8, <1>9, <1>10, <1>11, <1>12, <1>13, <1>14, <1>15, <1>16 DEF IInv

\* At first there is nothing.
LEMMA InitInv == Init => IInv /\ Owed
  <1> SUFFICES ASSUME Init PROVE IInv /\ Owed
    OBVIOUS
  <1>1. DOMAIN jobs = {} /\ DOMAIN links = {} /\ jobs \in Seq(Jobs) /\ registry \in Seq(LinkInfos) /\
            Len(registry) = 0
    BY EmptySeq DEF Init
  <1>2. \A t \in Threads : pc[t] = Idle /\ pc[t].at = "idle"
    BY PlaceFacts DEF Init
  <1>3. TypeOK
    BY <1>1, PlaceFacts, LinksAssumption DEF Init, TypeOK, Jobs
  <1>4. Kinds /\ JobsOwned /\ PlacesOwned
    BY <1>1, <1>2 DEF Init, Kinds, JobsOwned, PlacesOwned
  <1>5. Fresh /\ Kept /\ Behind /\ Usable /\ Gone
    BY <1>1, <1>2 DEF Init, Fresh, IsAttaching, Kept, Behind, Usable, Gone
  <1>6. Bounds
    BY <1>1, CountEmpty, NameFacts DEF Init, Bounds
  <1>7. Owed
    BY DEF Init, Owed
  <1>8. QED
    BY <1>3, <1>4, <1>5, <1>6, <1>7 DEF IInv

\* Every step keeps the invariant.
LEMMA NextInv == IInv /\ Owed /\ [Next]_vars => IInv'
  <1> SUFFICES ASSUME IInv, Owed, [Next]_vars PROVE IInv'
    OBVIOUS
  <1>1. CASE UNCHANGED vars
    BY <1>1 DEF vars, conn, tables, history, IInv, TypeOK, Kinds, JobsOwned, PlacesOwned, Fresh, Kept, Behind,
       Usable, Gone, Bounds, Count, At, Unclosed, Closes, IsAttaching
  <1>2. CASE EventThread
    BY <1>2, RunCreateInv, RunCloseInv, LoseInv, ReopenInv, OnReceiverOpenInv DEF EventThread
  <1>3. ASSUME NEW t \in Threads, Thread(t) PROVE IInv'
    <2>1. ASSUME GiveUp(t) PROVE IInv'
      <3>1. pc[t].at = "creating" \/ pc[t].at = "attaching"
        BY <2>1 DEF GiveUp
      <3>2. QED
        BY <2>1, <3>1, GiveUpCreatingInv, GiveUpAttachingInv
    <2>2. ASSUME NEW k \in Cached, NEW a \in Addresses, ClientClose(t, k, a) \/ WrapperClose(t, k, a) PROVE IInv'
      BY <2>2, ClientCloseInv
    <2>3. ASSUME NEW s \in Subscriptions, NEW op \in Operations, DurableClose(t, s, op) PROVE IInv'
      BY <2>3, DurableCloseInv
    <2>4. ASSUME NEW n \in Names, NEW op \in Operations, ScheduleClose(t, n, op) PROVE IInv'
      BY <2>4, ScheduleCloseInv
    <2>5. QED
      BY <1>3, <2>1, <2>2, <2>3, <2>4, CreateInv, CloseInv, ClearCacheInv, CreatedInv DEF Thread
  <1>4. QED
    BY <1>1, <1>2, <1>3 DEF Next

\* The invariant holds in every state.
\* And who knows an unanswered receiver.
LEMMA NextOwed == IInv /\ Owed /\ [Next]_vars => Owed'
  <1> SUFFICES ASSUME IInv, Owed, [Next]_vars PROVE Owed'
    OBVIOUS
  <1>1. CASE UNCHANGED vars
    BY <1>1 DEF vars, conn, tables, history, Owed
  <1>2. CASE RunCreate
    <2>1. PICK info \in LinkInfos, t \in Threads :
            info = Head(jobs).info /\ t = Head(jobs).thread
      <3>1. jobs # <<>> /\ Head(jobs) = jobs[1] /\ 1 \in DOMAIN jobs /\ jobs[1].do = "create"
        BY <1>2, JobsType, TailRemoved DEF IInv, RunCreate, Removed
      <3>2. QED
        BY <3>1, JobsType DEF IInv
    <2>2. PICK n : n = IF info.kind = "durable" THEN info.sub ELSE made + 1
      OBVIOUS
    <2>3. /\ up /\ UNCHANGED <<up, attached, cache, returned>>
          /\ closed' = closed \ {n} /\ Goto(t, Attaching(n))
          /\ awaited' = IF info.kind = "sender" THEN awaited ELSE awaited \cup {n}
      BY <1>2, <2>1, <2>2 DEF RunCreate, conn
    <2>4. n \in Subscriptions \/ n \notin DOMAIN links
      <3>1. made \in Nat /\ made + 1 \notin 1 .. made
        BY DEF IInv, TypeOK
      <3>2. QED
        BY <3>1, <2>2, InfoFacts, NameFacts DEF IInv, Kinds
    <2>5. \A u \in Threads : pc'[u].at = "erased" => pc'[u] = pc[u]
      BY <2>3, PlaceFacts DEF IInv, TypeOK, Goto
    <2>6. ASSUME n \notin DOMAIN links
          PROVE  /\ n \notin returned \cup attached
                 /\ \A k \in Cached, a \in Addresses : cache[k][a] # n \/ cache[k][a] = None
                 /\ \A u \in Threads : ~(pc[u].at = "erased" /\ pc[u].name = n)
      BY <2>6 DEF IInv, TypeOK, Kinds, PlacesOwned, Kept
    <2>7. n # None
      BY <2>2, InfoFacts, NameFacts, LinksAssumption DEF IInv, TypeOK
    <2>8. QED
      BY <2>3, <2>4, <2>5, <2>6, <2>7 DEF Owed
  <1>3. CASE RunClose
    BY <1>3 DEF RunClose, CloseLink, conn, Owed
  <1>4. CASE Lose
    BY <1>4 DEF Lose, Owed
  <1>5. CASE Reopen
    <2>1. up' /\ awaited = {} /\ UNCHANGED <<attached, pc, cache, returned, closed>>
      BY <1>5 DEF Reopen, history, Owed
    <2>2. ASSUME NEW n \in awaited' \ Subscriptions
          PROVE  n \notin DOMAIN links /\ n # None
      <3>1. Recover /\ n \in Again
        BY <1>5, <2>1 DEF Reopen
      <3>2. PICK i \in DOMAIN registry : NewName(i) = n
        BY <3>1 DEF Again
      <3>3. i \in Plain /\ made \in Nat /\ n \in made + 1 .. made + Cardinality(Plain)
            /\ Cardinality(Plain) \in Nat
        BY <3>2, <2>2, Recovery DEF IInv
      <3>4. n \notin 1 .. made /\ n \in Nat
        BY <3>3
      <3>5. QED
        BY <3>4, <2>2, LinksAssumption DEF IInv, Kinds
    <2>3. QED
      BY <2>1, <2>2 DEF IInv, TypeOK, Kinds, PlacesOwned, Kept, Gone, Owed
  <1>6. ASSUME NEW n \in awaited, OnReceiverOpen(n) PROVE Owed'
    BY <1>6 DEF OnReceiverOpen, conn, history, Owed
  <1>7. ASSUME NEW t \in Threads, Thread(t) PROVE Owed'
    <2>1. ASSUME NEW info \in LinkInfos, Create(t, info) PROVE Owed'
      <3>1. \A u \in Threads : pc'[u].at = "erased" => pc'[u] = pc[u]
        BY <2>1, PlaceFacts DEF IInv, TypeOK, Create, Goto
      <3>2. QED
        BY <2>1, <3>1 DEF Create, conn, tables, Owed
    <2>2. CASE GiveUp(t)
      <3>1. \A u \in Threads : pc'[u].at = "erased" => pc'[u] = pc[u]
        BY <2>2, PlaceFacts DEF IInv, TypeOK, GiveUp, Goto
      <3>2. QED
        BY <2>2, <3>1 DEF GiveUp, conn, tables, history, Owed
    <2>3. CASE Close(t)
      BY <2>3 DEF Close, Owed
    <2>4. CASE ClearCache(t)
      <3>1. \A u \in Threads : pc'[u].at = "erased" => pc'[u] = pc[u]
        BY <2>4, PlaceFacts DEF IInv, TypeOK, ClearCache, Goto
      <3>2. \A n \in awaited : n # None
        BY NameFacts DEF IInv, TypeOK
      <3>3. QED
        BY <2>4, <3>1, <3>2 DEF ClearCache, conn, tables, history, Owed
    <2>5. ASSUME NEW n \in Names, Created(t, n) PROVE Owed'
      <3>1. \A u \in Threads : pc'[u].at = "erased" => pc'[u] = pc[u]
        BY <2>5, PlaceFacts DEF IInv, TypeOK, Created, Goto
      <3>2. n \notin awaited \ Subscriptions
        BY <2>5 DEF IInv, TypeOK, Created, Owed
      <3>3. \A k \in Cached, a \in Addresses : cache'[k][a] \in {cache[k][a], n}
        BY <2>5 DEF IInv, TypeOK, Created
      <3>4. QED
        BY <2>5, <3>1, <3>2, <3>3 DEF Created, conn, tables, Owed
    <2>6. ASSUME NEW n, NEW op, EraseName(t, n, op), n \notin awaited \ Subscriptions,
                 \A k \in Cached, a \in Addresses : cache'[k][a] \in {cache[k][a], None}
          PROVE  Owed'
      <3>1. \A u \in Threads : pc'[u].at = "erased" => pc'[u] = pc[u] \/ pc'[u].name = n
        BY <2>6, PlaceFacts DEF IInv, TypeOK, EraseName, Goto
      <3>2. \A m \in awaited : m # None
        BY NameFacts DEF IInv, TypeOK
      <3>3. returned' \subseteq returned /\ attached' \subseteq attached /\ UNCHANGED <<up, awaited, closed>>
        BY <2>6 DEF EraseName, conn
      <3>4. QED
        BY <2>6, <3>1, <3>2, <3>3 DEF Owed
    <2>7. ASSUME NEW k \in Cached, NEW a \in Addresses, ClientClose(t, k, a) \/ WrapperClose(t, k, a)
          PROVE  Owed'
      <3>1. EraseName(t, cache[k][a], k) /\ cache[k][a] \notin awaited \ Subscriptions
        BY <2>7 DEF ClientClose, WrapperClose, Owed
      <3>2. \A l \in Cached, b \in Addresses : cache'[l][b] \in {cache[l][b], None}
        BY <2>7 DEF IInv, TypeOK, ClientClose, WrapperClose
      <3>3. QED
        BY <3>1, <3>2, <2>6
    <2>8. ASSUME NEW s \in Subscriptions, NEW op \in Operations, DurableClose(t, s, op) PROVE Owed'
      <3>1. EraseName(t, s, op) /\ UNCHANGED cache
        BY <2>8 DEF DurableClose
      <3>2. QED
        BY <3>1, <2>6
    <2>9. ASSUME NEW n \in Names, NEW op \in Operations, ScheduleClose(t, n, op) PROVE Owed'
      <3>1. \A u \in Threads : pc'[u].at = "erased" => pc'[u] = pc[u]
        BY <2>9, PlaceFacts DEF IInv, TypeOK, ScheduleClose, Goto
      <3>2. n \notin awaited \ Subscriptions
        BY <2>9, PlaceFacts DEF ScheduleClose, Owed
      <3>3. QED
        BY <2>9, <3>1, <3>2 DEF ScheduleClose, conn, tables, Owed
    <2>10. QED
      BY <1>7, <2>1, <2>2, <2>3, <2>4, <2>5, <2>7, <2>8, <2>9 DEF Thread
  <1>8. QED
    BY <1>1, <1>2, <1>3, <1>4, <1>5, <1>6, <1>7 DEF Next, EventThread

LEMMA Invariance == Spec => [](IInv /\ Owed)
  BY InitInv, NextInv, NextOwed, PTL DEF Spec

-----------------------------------------------------------------------------
(* What holds of the links                                                 *)

\* The state has its types: the tables have nothing but links that were created, only receivers
\* are attached or wait for the broker's answer, and the bounds of names and entries hold.
THEOREM TypeCorrect == Spec => []TypeOK
  <1>1. IInv => TypeOK
    BY DEF IInv
  <1>2. QED
    BY <1>1, Invariance, PTL

\* createSender() and the others return a name that can be used until its user closes it or the connection
\* goes; a close that returned is carried out.
THEOREM NamesAreHeld == Spec => []NamesHold
  <1>1. ASSUME IInv PROVE NamesHold
    <2>1. ASSUME NEW n \in returned, up, links[n].open = opens
          PROVE  n \in names /\ n \in table /\ n \in live /\ (links[n].info.kind # "sender" => n \in attached)
      BY <1>1, <2>1 DEF IInv, Kept, Usable
    <2>2. \A n \in closed : \/ \E i \in DOMAIN jobs : Closes(i, n)
                            \/ n \notin live \cup table /\ (n \in names \cup attached => n \in Subscriptions)
      BY <1>1 DEF IInv, Gone
    <2>3. QED
      BY <2>1, <2>2 DEF NamesHold
  <1>2. QED
    BY <1>1, Invariance, PTL

-----------------------------------------------------------------------------
(* The registry                                                            *)

\* A subscription that no close went astray of has one entry or none: one, if it is open; none, if it is being
\* created.
Durables == Recover => \A s \in Subscriptions \ astray :
    /\ \A i, j \in DOMAIN registry : registry[i].sub = s /\ registry[j].sub = s => i = j
    /\ up => (s \in live <=> \E i \in DOMAIN registry : registry[i].sub = s)
    /\ up => \A i \in DOMAIN registry : registry[i].sub = s => registry[i] = links[s].info
    /\ \A k \in DOMAIN jobs : jobs[k].do = "create" /\ jobs[k].info.sub = s =>
         \A i \in DOMAIN registry : registry[i].sub # s

\* Of plain links as many are open as the registry has.
Plains == Recover /\ up => \A info \in LinkInfos :
    info.kind # "durable" /\ info.addr \notin astray => Registered(info) = Open(info)

RInv == IInv /\ Owed /\ Durables /\ Plains

\* the links that are open and that info describes
Opened(info) == {n \in live : links[n].info = info}

\* Of plain links there are finitely many.
LEMMA OpenCount ==
    ASSUME TypeOK, Kinds, NEW info \in LinkInfos, info.kind # "durable"
    PROVE  IsFiniteSet(Opened(info)) /\ Open(info) = Cardinality(Opened(info)) /\ Open(info) \in Nat
  <1>1. Opened(info) \subseteq 1 .. made
    BY DEF TypeOK, Kinds, Opened
  <1>2. IsFiniteSet(1 .. made)
    <2>1. 1 \in Int /\ made \in Int
      BY NameFacts DEF TypeOK
    <2>2. QED
      BY <2>1, FS_Interval
  <1>3. Open(info) = Cardinality(Opened(info))
    BY DEF Open, Opened
  <1>4. QED
    BY <1>1, <1>2, <1>3, FS_Subset, FS_CardinalityType

\* What the registry has.
LEMMA RegistryType ==
    ASSUME TypeOK
    PROVE  /\ registry \in Seq(LinkInfos) /\ Len(registry) \in Nat /\ DOMAIN registry = 1 .. Len(registry)
           /\ \A i \in DOMAIN registry :
                /\ registry[i] \in LinkInfos
                /\ registry[i].sub \in Subscriptions <=> registry[i].kind = "durable"
           /\ \A info : Registered(info) = Count(registry, {info})
           /\ \A info : Count(registry, {info}) \in Nat
  <1>1. registry \in Seq(LinkInfos) /\ Len(registry) \in Nat /\ DOMAIN registry = 1 .. Len(registry)
    BY LenProperties DEF TypeOK
  <1>2. \A i \in DOMAIN registry : registry[i] \in LinkInfos
    BY <1>1, ElementOfSeq
  <1>3. \A info : At(registry, {info}) = {i \in DOMAIN registry : registry[i] = info}
    BY DEF At
  <1>4. \A info : Registered(info) = Count(registry, {info})
    BY <1>3 DEF Registered, Count
  <1>5. \A info : Count(registry, {info}) \in Nat
    BY <1>1, Counts
  <1>6. \A i \in DOMAIN registry : registry[i].sub \in Subscriptions <=> registry[i].kind = "durable"
    BY <1>2, InfoFacts, NameFacts, LinksAssumption
  <1>7. QED
    BY <1>1, <1>2, <1>4, <1>5, <1>6

\* The registry and the links stay, or the links go with the connection.
LEMMA RegistryKept ==
    ASSUME Durables, Plains, UNCHANGED <<registry, astray>>, ~up' \/ UNCHANGED <<up, live, links>>,
           \A k \in DOMAIN jobs' : jobs'[k].do = "create" => \E j \in DOMAIN jobs : jobs[j] = jobs'[k]
    PROVE  Durables' /\ Plains'
  <1>1. Durables'
    BY DEF Durables
  <1>2. Plains'
    BY DEF Plains, Registered, Open
  <1>3. QED
    BY <1>1, <1>2

\* A link is created.
LEMMA RunCreateRegistry == ASSUME RInv, RunCreate PROVE Durables' /\ Plains'
  <1>1. /\ jobs # <<>> /\ jobs' = Tail(jobs) /\ jobs' \in Seq(Jobs) /\ Removed(jobs, jobs', 1)
        /\ Head(jobs) = jobs[1] /\ 1 \in DOMAIN jobs /\ jobs[1].do = "create" /\ TypeOK
    BY JobsType, TailRemoved DEF RInv, IInv, RunCreate, Removed
  <1>2. PICK info \in LinkInfos, t \in Threads :
          info = jobs[1].info /\ t = jobs[1].thread /\ pc[t] = Creating(info)
    BY <1>1, JobsType DEF RInv, IInv, JobsOwned
  <1>3. PICK n : n = IF info.kind = "durable" THEN info.sub ELSE made + 1
    OBVIOUS
  <1>4. /\ DOMAIN links' = DOMAIN links \cup {n} /\ links'[n].info = info
        /\ \A m \in DOMAIN links : m # n => links'[m] = links[m]
        /\ live' = live \cup {n} /\ registry' = Append(registry, info) /\ UNCHANGED astray /\ up
    BY <1>1, <1>2, <1>3 DEF RunCreate
  <1>5. /\ info.kind = "durable" => n = info.sub /\ n \in Subscriptions
        /\ info.kind # "durable" => n \notin DOMAIN links /\ n \notin Subscriptions /\ info.sub = None
    <2>1. CASE info.kind = "durable"
      BY <1>3, <2>1, InfoFacts
    <2>2. CASE info.kind # "durable"
      <3>1. made \in Nat /\ n = made + 1 /\ n \in Nat /\ n \notin 1 .. made
        BY <1>1, <1>3, <2>2 DEF TypeOK
      <3>2. n \notin Subscriptions /\ info.sub = None
        BY <2>2, <3>1, InfoFacts, NameFacts
      <3>3. n \notin DOMAIN links
        BY <3>1, <3>2 DEF RInv, IInv, Kinds
      <3>4. QED
        BY <2>2, <3>2, <3>3
    <2>3. QED
      BY <2>1, <2>2
  <1>6. /\ DOMAIN registry' = 1 .. Len(registry) + 1 /\ registry'[Len(registry) + 1] = info
        /\ \A i \in DOMAIN registry : i \in DOMAIN registry' /\ registry'[i] = registry[i]
        /\ \A i \in DOMAIN registry' : i \in DOMAIN registry \/ i = Len(registry) + 1
    BY <1>1, <1>4, Appended, RegistryType
  <1>7. \A k \in DOMAIN jobs' : jobs'[k].do = "create" =>
          /\ \E j \in DOMAIN jobs : j # 1 /\ jobs[j] = jobs'[k]
          /\ info.kind = "durable" => jobs'[k].info.sub # info.sub
    <2>1. ASSUME NEW k \in DOMAIN jobs', jobs'[k].do = "create"
          PROVE  \E j \in DOMAIN jobs : j # 1 /\ jobs[j] = jobs'[k]
      BY <1>1, JobGone
    <2>2. ASSUME NEW j \in DOMAIN jobs, j # 1, jobs[j].do = "create", info.kind = "durable"
          PROVE  jobs[j].info.sub # info.sub
      <3>1. /\ pc[jobs[j].thread] = Creating(jobs[j].info) /\ jobs[j].thread \in Threads
            /\ jobs[j].info \in LinkInfos /\ jobs[j].thread # t
        BY <1>1, <1>2, <2>2, JobsType DEF RInv, IInv, JobsOwned
      <3>2. t = Subscriber
        BY <1>2, <2>2, PlaceFacts DEF RInv, IInv, PlacesOwned, Uses
      <3>3. jobs[j].info.kind # "durable"
        BY <3>1, <3>2, PlaceFacts DEF RInv, IInv, PlacesOwned, Uses
      <3>4. QED
        BY <2>2, <3>1, <3>3, <1>5, InfoFacts, NameFacts
    <2>3. QED
      BY <2>1, <2>2
  <1>8. Durables'
    <2> SUFFICES ASSUME Recover, NEW s \in Subscriptions \ astray
                 PROVE  /\ \A i, j \in DOMAIN registry' : registry'[i].sub = s /\ registry'[j].sub = s => i = j
                        /\ s \in live' <=> \E i \in DOMAIN registry' : registry'[i].sub = s
                        /\ \A i \in DOMAIN registry' : registry'[i].sub = s => registry'[i] = links'[s].info
                        /\ \A k \in DOMAIN jobs' : jobs'[k].do = "create" /\ jobs'[k].info.sub = s =>
                             \A i \in DOMAIN registry' : registry'[i].sub # s
      BY <1>4 DEF Durables
    <2>1. CASE info.sub = s
      <3>1. info.kind = "durable" /\ n = s
        BY <2>1, <1>5, NameFacts
      <3>2. \A i \in DOMAIN registry : registry[i].sub # s
        BY <2>1, <1>1, <1>2 DEF RInv, Durables
      <3>3. QED
        BY <2>1, <3>1, <3>2, <1>4, <1>6, <1>7
    <2>2. CASE info.sub # s
      <3>1. n # s
        BY <2>2, <1>5
      <3>2. /\ \A i, j \in DOMAIN registry : registry[i].sub = s /\ registry[j].sub = s => i = j
            /\ s \in live <=> \E i \in DOMAIN registry : registry[i].sub = s
            /\ \A i \in DOMAIN registry : registry[i].sub = s => registry[i] = links[s].info
            /\ \A k \in DOMAIN jobs : jobs[k].do = "create" /\ jobs[k].info.sub = s =>
                 \A i \in DOMAIN registry : registry[i].sub # s
        BY <1>4 DEF RInv, Durables
      <3>3. s \in live => s \in DOMAIN links
        BY <1>1 DEF TypeOK
      <3>4. QED
        BY <2>2, <3>1, <3>2, <3>3, <1>4, <1>6, <1>7
    <2>3. QED
      BY <2>1, <2>2
  <1>9. Plains'
    <2> SUFFICES ASSUME Recover, NEW i \in LinkInfos, i.kind # "durable", i.addr \notin astray
                 PROVE  Registered(i)' = Open(i)'
      BY <1>4 DEF Plains
    <2>1. Registered(i) = Open(i) /\ Registered(i) = Count(registry, {i}) /\ Open(i) = Cardinality(Opened(i))
      BY <1>1, <1>4, RegistryType, OpenCount DEF RInv, IInv, Plains
    <2>2. Registered(i)' = Count(registry', {i})
      <3>1. At(registry', {i}) = {j \in DOMAIN registry' : registry'[j] = i}
        BY DEF At
      <3>2. QED
        BY <3>1 DEF Registered, Count
    <2>3. Count(registry', {i}) = IF info = i THEN Count(registry, {i}) + 1 ELSE Count(registry, {i})
      BY <1>1, <1>4, RegistryType, CountAppended
    <2>4. Open(i)' = Cardinality(Opened(i)')
      BY DEF Open, Opened
    <2>5. CASE info = i
      <3>1. Opened(i)' = Opened(i) \cup {n} /\ n \notin Opened(i)
        BY <2>5, <1>1, <1>4, <1>5 DEF Opened, TypeOK
      <3>2. IsFiniteSet(Opened(i))
        BY OpenCount DEF RInv, IInv
      <3>3. Cardinality(Opened(i)') = Cardinality(Opened(i)) + 1
        BY <3>1, <3>2, FS_AddElement
      <3>4. QED
        BY <3>3, <2>1, <2>2, <2>3, <2>4, <2>5
    <2>6. CASE info # i
      <3>1. n \in DOMAIN links => links[n].info # i
        <4>1. \A m \in 1 .. made : m \notin Subscriptions
          BY <1>1, NameFacts DEF TypeOK
        <4>2. QED
          BY <4>1, <1>5 DEF RInv, IInv, Kinds
      <3>2. \A m \in live : m \in DOMAIN links
        BY <1>1 DEF TypeOK
      <3>3. Opened(i)' = Opened(i)
        BY <2>6, <3>1, <3>2, <1>4 DEF Opened
      <3>4. QED
        BY <3>3, <2>1, <2>2, <2>3, <2>4, <2>6
    <2>7. QED
      BY <2>5, <2>6
  <1>10. QED
    BY <1>8, <1>9

\* A link is closed, and its entry goes with it, unless the close goes astray.
LEMMA RunCloseRegistry == ASSUME RInv, RunClose PROVE Durables' /\ Plains'
  <1>1. /\ jobs # <<>> /\ jobs' = Tail(jobs) /\ jobs' \in Seq(Jobs) /\ Removed(jobs, jobs', 1)
        /\ Head(jobs) = jobs[1] /\ 1 \in DOMAIN jobs /\ jobs[1].do # "create" /\ TypeOK
    BY JobsType, TailRemoved DEF RInv, IInv, RunClose, Removed
  <1>2. PICK n \in Names, op \in Operations \cup {"release"} : n = jobs[1].name /\ op = jobs[1].do
    BY <1>1, JobsType, JobFacts
  <1>3. n \in DOMAIN links /\ (op = "detach" => n \in Subscriptions)
    BY <1>1, <1>2 DEF RInv, IInv, JobsOwned
  <1>4. CloseLink(n, op) /\ up /\ UNCHANGED <<up, links>>
    BY <1>1, <1>2 DEF RunClose, conn
  <1>5. \A k \in DOMAIN jobs' : \E j \in DOMAIN jobs : jobs[j] = jobs'[k]
    BY <1>1, JobGone
  <1>6. CASE n \notin table
    <2>1. UNCHANGED <<registry, astray, up, live, links>>
      BY <1>4, <1>6 DEF CloseLink
    <2>2. QED
      BY <2>1, <1>5, RegistryKept DEF RInv
  <1>7. ASSUME n \in table PROVE Durables' /\ Plains'
    <2>1. PICK info \in LinkInfos : info = links[n].info
      BY <1>1, <1>3 DEF TypeOK
    <2>2. /\ info.kind = "durable" => n \in Subscriptions /\ info.sub = n
          /\ info.kind # "durable" => n \notin Subscriptions /\ info.sub = None
      <3>1. \A m \in 1 .. made : m \notin Subscriptions
        BY <1>1, NameFacts DEF TypeOK
      <3>2. QED
        BY <3>1, <1>3, <2>1, InfoFacts DEF RInv, IInv, Kinds, Cached
    <2>3. live' = live \ {n} /\ astray \subseteq astray'
      BY <1>4, <1>7 DEF CloseLink
    <2>4. \/ /\ n \in live /\ op \in {info.kind, "release", "detach"} /\ astray' = astray
             /\ \/ Entries(n, op) = {} /\ registry' = registry
                \/ \E i \in Entries(n, op) : registry' = RemoveAt(registry, i)
          \/ /\ Where(info) \subseteq astray'
             /\ \/ registry' = registry
                \/ \E i \in Entries(n, op) : registry' = RemoveAt(registry, i)
      BY <1>4, <1>7, <2>1 DEF CloseLink, Erase
    <2>5. \A i \in DOMAIN registry : i \in Entries(n, op) <=>
            IF op = "detach" THEN registry[i].sub = n
            ELSE /\ registry[i].kind = IF op = "release" THEN info.kind ELSE op
                 /\ registry[i].addr = info.addr /\ (registry[i].kind = "durable" => registry[i].sub = n)
      BY <2>1 DEF Entries
    <2>6. \A i \in Entries(n, op) : i \in DOMAIN registry
      BY DEF Entries
    <2>7. \A i \in Entries(n, op) :
            \/ registry[i].kind # "durable" /\ registry[i].sub = None /\ registry[i].addr = info.addr
            \/ registry[i].kind = "durable" /\ registry[i].sub = n /\ info.kind = "durable"
      <3>1. ASSUME NEW i \in Entries(n, op)
            PROVE  \/ registry[i].kind # "durable" /\ registry[i].sub = None /\ registry[i].addr = info.addr
                   \/ registry[i].kind = "durable" /\ registry[i].sub = n /\ info.kind = "durable"
        <4>1. registry[i] \in LinkInfos /\ (registry[i].sub \in Subscriptions <=> registry[i].kind = "durable")
          BY <1>1, <2>6, RegistryType
        <4>2. registry[i].kind # "durable" => registry[i].sub = None
          BY <4>1, InfoFacts
        <4>3. CASE op = "detach"
          BY <4>1, <4>3, <2>2, <2>5, <2>6, <1>3
        <4>4. CASE op # "detach"
          BY <4>1, <4>2, <4>4, <2>2, <2>5, <2>6
        <4>5. QED
          BY <4>3, <4>4
      <3>2. QED
        BY <3>1
    <2>8. \A i \in Entries(n, op) : registry' = RemoveAt(registry, i) =>
            registry' \in Seq(LinkInfos) /\ Removed(registry, registry', i)
      BY <1>1, <2>6, RegistryType, RemovedAt
    <2>9. Durables'
      <3> SUFFICES ASSUME Recover, NEW s \in Subscriptions \ astray'
                   PROVE  /\ \A i, j \in DOMAIN registry' : registry'[i].sub = s /\
                                   registry'[j].sub = s => i = j
                          /\ s \in live' <=> \E i \in DOMAIN registry' : registry'[i].sub = s
                          /\ \A i \in DOMAIN registry' : registry'[i].sub = s => registry'[i] = links[s].info
                          /\ \A k \in DOMAIN jobs' : jobs'[k].do = "create" /\ jobs'[k].info.sub = s =>
                               \A i \in DOMAIN registry' : registry'[i].sub # s
        BY <1>4 DEF Durables
      <3>1. /\ \A i, j \in DOMAIN registry : registry[i].sub = s /\ registry[j].sub = s => i = j
            /\ s \in live <=> \E i \in DOMAIN registry : registry[i].sub = s
            /\ \A i \in DOMAIN registry : registry[i].sub = s => registry[i] = links[s].info
            /\ \A k \in DOMAIN jobs : jobs[k].do = "create" /\ jobs[k].info.sub = s =>
                 \A i \in DOMAIN registry : registry[i].sub # s
        BY <1>4, <2>3 DEF RInv, Durables
      <3>2. CASE s # n
        <4>1. CASE registry' = registry
          BY <4>1, <3>1, <3>2, <1>5, <2>3
        <4>2. ASSUME NEW i \in Entries(n, op), registry' = RemoveAt(registry, i)
              PROVE  /\ \A j \in DOMAIN registry' : \E k \in DOMAIN registry :
                          registry'[j] = registry[k] /\ k = From(i, j)
                     /\ \A j, k \in DOMAIN registry' : From(i, j) = From(i, k) => j = k
                     /\ \A k \in DOMAIN registry : registry[k].sub = s =>
                          \E j \in DOMAIN registry' : registry'[j] = registry[k]
          <5>1. registry[i].sub # s
            BY <2>7, <3>2, NameFacts
          <5>2. registry \in Seq(LinkInfos) /\ registry' \in Seq(LinkInfos) /\ Removed(registry, registry', i)
            BY <4>2, <1>1, <2>8, RegistryType
          <5>3. QED
            BY <5>1, <5>2, Others
        <4>3. CASE \E i \in Entries(n, op) : registry' = RemoveAt(registry, i)
          <5>1. PICK i \in Entries(n, op) : registry' = RemoveAt(registry, i)
            BY <4>3
          <5>2. \A j, k \in DOMAIN registry' : registry'[j].sub = s /\ registry'[k].sub = s => j = k
            BY <5>1, <4>2, <3>1
          <5>3. s \in live' <=> \E j \in DOMAIN registry' : registry'[j].sub = s
            BY <5>1, <4>2, <3>1, <3>2, <2>3
          <5>4. \A j \in DOMAIN registry' : registry'[j].sub = s => registry'[j] = links[s].info
            BY <5>1, <4>2, <3>1
          <5>5. \A k \in DOMAIN jobs' : jobs'[k].do = "create" /\ jobs'[k].info.sub = s =>
                  \A j \in DOMAIN registry' : registry'[j].sub # s
            BY <5>1, <4>2, <3>1, <1>5
          <5>6. QED
            BY <5>2, <5>3, <5>4, <5>5
        <4>4. QED
          BY <4>1, <4>3, <2>4
      <3>3. CASE s = n
        <4>1. info.kind = "durable" /\ info.sub = n /\ n \in Where(info)
          BY <3>3, <2>2, NameFacts DEF Where
        <4>2. n \in live /\ op \in {"durable", "release", "detach"}
          BY <4>1, <3>3, <2>4
        <4>3. PICK k \in DOMAIN registry : registry[k].sub = n
          BY <4>2, <3>1, <3>3
        <4>4. registry[k] = info
          BY <4>3, <3>1, <3>3, <2>1
        <4>5. k \in Entries(n, op)
          BY <4>1, <4>2, <4>4, <2>5
        <4>6. PICK i \in Entries(n, op) : registry' = RemoveAt(registry, i)
          BY <4>1, <4>5, <3>3, <2>4
        <4>7. registry[i].sub = n
          BY <4>5, <2>5, <2>6, <2>7, <4>1, <4>2
        <4>8. i = k
          BY <4>3, <4>7, <3>1, <3>3, <2>6
        <4>9. \A j \in DOMAIN registry' : \E h \in DOMAIN registry : h # k /\ registry'[j] = registry[h]
          <5>1. registry \in Seq(LinkInfos) /\ registry' \in Seq(LinkInfos) /\ Removed(registry, registry', k)
            BY <4>6, <4>8, <1>1, <2>8, RegistryType
          <5>2. QED
            BY <5>1, Others
        <4>10. \A j \in DOMAIN registry' : registry'[j].sub # s
          BY <4>9, <4>3, <3>1, <3>3
        <4>11. QED
          BY <4>10, <3>3, <2>3
      <3>4. QED
        BY <3>2, <3>3
    <2>10. Plains'
      <3> SUFFICES ASSUME Recover, NEW p \in LinkInfos, p.kind # "durable", p.addr \notin astray'
                   PROVE  Registered(p)' = Open(p)'
        BY DEF Plains
      <3>1. /\ Registered(p) = Open(p) /\ Registered(p) = Count(registry, {p}) /\
                Open(p) = Cardinality(Opened(p))
            /\ IsFiniteSet(Opened(p)) /\ Open(p) \in Nat
        BY <1>1, <1>4, <2>3, RegistryType, OpenCount DEF RInv, IInv, Plains
      <3>2. Registered(p)' = Count(registry', {p})
        <4>1. At(registry', {p}) = {j \in DOMAIN registry' : registry'[j] = p}
          BY DEF At
        <4>2. QED
          BY <4>1 DEF Registered, Count
      <3>3. Open(p)' = Cardinality(Opened(p)') /\ Opened(p)' = Opened(p) \ {n}
        BY <1>4, <2>3 DEF Open, Opened
      <3>4. \A i \in Entries(n, op) : registry' = RemoveAt(registry, i) =>
              Count(registry', {p}) = IF registry[i] = p THEN Count(registry, {p}) - 1 ELSE Count(registry, {p})
        <4>1. ASSUME NEW i \in Entries(n, op), registry' = RemoveAt(registry, i)
              PROVE  Count(registry', {p}) =
                         IF registry[i] \in {p} THEN Count(registry, {p}) - 1 ELSE Count(registry, {p})
          BY <4>1, <1>1, <2>8, RegistryType, CountRemoved
        <4>2. QED
          BY <4>1
      <3>5. CASE p = info
        <4>1. p.addr \in Where(info)
          BY <3>5, InfoFacts, LinksAssumption DEF Where
        <4>2. n \in live /\ op \in {info.kind, "release"}
          BY <4>1, <3>5, <2>2, <2>4, <1>3
        <4>3. \A i \in DOMAIN registry : i \in Entries(n, op) <=> registry[i] = p
          <5>1. \A i \in DOMAIN registry :
                  i \in Entries(n, op) <=> registry[i].kind = info.kind /\ registry[i].addr = info.addr
            <6>1. op # "detach" /\ info.kind # "durable"
              BY <4>2, <3>5, InfoFacts DEF Cached
            <6>2. QED
              BY <6>1, <4>2, <2>5
          <5>2. \A i \in DOMAIN registry :
                  registry[i] = p <=> registry[i].kind = info.kind /\ registry[i].addr = info.addr
            <6>1. \A i \in DOMAIN registry : registry[i] \in LinkInfos
              BY <1>1, RegistryType
            <6>2. \A e \in LinkInfos : e.kind = p.kind => e = LinkInfo(p.kind, e.addr, None)
              BY InfoFacts
            <6>3. p = LinkInfo(p.kind, p.addr, None)
              BY <6>2
            <6>4. QED
              BY <6>1, <6>2, <6>3, <3>5
          <5>3. QED
            BY <5>1, <5>2
        <4>4. n \in Opened(p)
          BY <4>2, <3>5, <2>1 DEF Opened
        <4>5. Cardinality(Opened(p) \ {n}) = Open(p) - 1 /\ Open(p) # 0
          <5>1. Cardinality(Opened(p) \ {n}) = Cardinality(Opened(p)) - 1
            BY <4>4, <3>1, FS_RemoveElement
          <5>2. Opened(p) # {}
            BY <4>4
          <5>3. QED
            BY <5>1, <5>2, <3>1, FS_EmptySet
        <4>6. At(registry, {p}) # {}
          BY <4>5, <3>1, FS_EmptySet DEF Count
        <4>7. PICK i \in Entries(n, op) : registry' = RemoveAt(registry, i)
          <5>1. Entries(n, op) # {}
            BY <4>3, <4>6 DEF At
          <5>2. QED
            BY <5>1, <4>1, <3>5, <2>4
        <4>8. registry[i] = p
          BY <4>3, <2>6
        <4>9. Count(registry', {p}) = Count(registry, {p}) - 1
          BY <4>7, <4>8, <3>4
        <4>10. QED
          BY <4>5, <4>9, <3>1, <3>2, <3>3
      <3>6. CASE p # info
        <4>1. Opened(p) \ {n} = Opened(p)
          BY <3>6, <2>1 DEF Opened
        <4>2. \A i \in Entries(n, op) : registry' = RemoveAt(registry, i) => registry[i] # p
          <5>1. ASSUME NEW i \in Entries(n, op), registry[i] = p PROVE FALSE
            <6>1. p.addr = info.addr /\ p.sub = None
              BY <5>1, <2>7
            <6>2. p.addr \in Where(info)
              BY <6>1, InfoFacts, LinksAssumption DEF Where
            <6>3. op \in {info.kind, "release", "detach"}
              BY <6>2, <2>4
            <6>4. op # "detach"
              BY <5>1, <6>1, <1>3, <2>5, <2>6, NameFacts
            <6>5. p.kind = info.kind
              BY <5>1, <6>3, <6>4, <2>5, <2>6
            <6>6. p = info
              BY <6>1, <6>5, InfoFacts
            <6>7. QED
              BY <6>6, <3>6
          <5>2. QED
            BY <5>1
        <4>3. Count(registry', {p}) = Count(registry, {p})
          BY <4>2, <3>4, <2>4
        <4>4. QED
          BY <4>1, <4>3, <3>1, <3>2, <3>3
      <3>7. QED
        BY <3>5, <3>6
    <2>11. QED
      BY <2>9, <2>10
  <1>8. QED
    BY <1>6, <1>7

\* The links that are opened again are those that the registry has.
LEMMA ReopenRegistry == ASSUME RInv, Reopen PROVE Durables' /\ Plains'
  <1>1. ~up /\ UNCHANGED <<registry, astray, jobs>> /\ TypeOK
    BY DEF RInv, IInv, Reopen, history
  <1>2. CASE ~Recover
    BY <1>2 DEF Durables, Plains
  <1>3. CASE Recover
    <2>1. /\ live' = Again
          /\ \A n \in Again : links'[n].info = Recovered(n)
      BY <1>3 DEF Reopen
    <2>2. /\ \A i \in Plain : NewName(i) \in Nat /\ NewName(i) \notin Subscriptions
          /\ \A i, j \in Plain : NewName(i) = NewName(j) => i = j
          /\ \A i \in DOMAIN registry \ Plain : NewName(i) = registry[i].sub /\ NewName(i) \in Subscriptions
          /\ \A n \in Again : \E i \in DOMAIN registry : NewName(i) = n /\ Recovered(n) = registry[i]
      BY <1>1, Recovery, NameFacts
    <2>3. \A i \in DOMAIN registry : NewName(i) \in Again /\
              (i \in Plain <=> registry[i].sub \notin Subscriptions)
      BY <1>1, RegistryType DEF Again, Plain
    <2>4. Durables'
      <3> SUFFICES ASSUME NEW s \in Subscriptions \ astray
                   PROVE  /\ \A i, j \in DOMAIN registry : registry[i].sub = s /\ registry[j].sub = s => i = j
                          /\ s \in live' <=> \E i \in DOMAIN registry : registry[i].sub = s
                          /\ \A i \in DOMAIN registry : registry[i].sub = s => registry[i] = links'[s].info
                          /\ \A k \in DOMAIN jobs : jobs[k].do = "create" /\ jobs[k].info.sub = s =>
                               \A i \in DOMAIN registry : registry[i].sub # s
        BY <1>1 DEF Durables
      <3>1. /\ \A i, j \in DOMAIN registry : registry[i].sub = s /\ registry[j].sub = s => i = j
            /\ \A k \in DOMAIN jobs : jobs[k].do = "create" /\ jobs[k].info.sub = s =>
                 \A i \in DOMAIN registry : registry[i].sub # s
        BY <1>3 DEF RInv, Durables
      <3>2. \A i \in DOMAIN registry : NewName(i) = s <=> registry[i].sub = s
        BY <2>2, <2>3
      <3>3. s \in live' <=> \E i \in DOMAIN registry : registry[i].sub = s
        BY <3>2, <2>1, <2>2, <2>3
      <3>4. ASSUME NEW i \in DOMAIN registry, registry[i].sub = s
            PROVE  registry[i] = links'[s].info
        <4>1. s \in Again
          BY <3>4, <3>2, <2>3
        <4>2. PICK j \in DOMAIN registry : NewName(j) = s /\ Recovered(s) = registry[j]
          BY <4>1, <2>2
        <4>3. j = i
          BY <4>2, <3>1, <3>2, <3>4
        <4>4. QED
          BY <4>1, <4>2, <4>3, <2>1
      <3>5. QED
        BY <3>1, <3>3, <3>4
    <2>5. Plains'
      <3> SUFFICES ASSUME NEW p \in LinkInfos, p.kind # "durable"
                   PROVE  Registered(p)' = Open(p)'
        BY DEF Plains
      <3> DEFINE I == {i \in DOMAIN registry : registry[i] = p}
                 N == {n \in Again : Recovered(n) = p}
                 f == [i \in I |-> NewName(i)]
      <3>1. Registered(p)' = Cardinality(I)
        BY <1>1 DEF Registered
      <3>2. Open(p)' = Cardinality(N)
        <4>1. {n \in live' : links'[n].info = p} = N
          BY <2>1
        <4>2. QED
          BY <4>1 DEF Open
      <3>3. I \subseteq Plain
        BY DEF Plain
      <3>4. IsFiniteSet(I)
        BY <3>3, <1>1, Recovery, FS_Subset
      <3>5. \A n \in Again : \A i \in Plain : NewName(i) = n => Recovered(n) = registry[i]
        <4> SUFFICES ASSUME NEW n \in Again, NEW i \in Plain, NewName(i) = n PROVE Recovered(n) = registry[i]
          OBVIOUS
        <4>1. PICK j \in DOMAIN registry : NewName(j) = n /\ Recovered(n) = registry[j]
          BY <2>2
        <4>2. j \in Plain /\ j = i
          BY <4>1, <2>2
        <4>3. QED
          BY <4>1, <4>2
      <3>6. \A i \in I : f[i] \in N
        BY <3>3, <3>5, <2>3
      <3>7. \A i, j \in I : f[i] = f[j] => i = j
        BY <3>3, <2>2
      <3>8. \A n \in N : \E i \in I : f[i] = n
        BY <2>2
      <3>9. f \in Bijection(I, N)
        <4>1. f \in [I -> N]
          BY <3>6
        <4>2. QED
          BY <4>1, <3>7, <3>8 DEF Bijection, Injection, Surjection, IsInjective
      <3>10. Cardinality(I) = Cardinality(N)
        <4>1. ExistsBijection(I, N)
          BY <3>9 DEF ExistsBijection
        <4>2. QED
          BY <4>1, <3>4, FS_Bijection
      <3>11. QED
        BY <3>1, <3>2, <3>10
    <2>6. QED
      BY <2>4, <2>5
  <1>4. QED
    BY <1>2, <1>3

\* A link is created only for a subscription that has none.
LEMMA CreateRegistry ==
    ASSUME RInv, NEW t \in Threads, NEW info \in LinkInfos, Create(t, info)
    PROVE  Durables' /\ Plains'
  <1> DEFINE job == CreateJob(t, info)
  <1>1. up /\ UNCHANGED <<up, live, links, registry, astray>> /\ (info.kind = "durable" => info.sub \notin live)
    BY DEF Create, conn, tables
  <1>2. job \in Jobs /\ job.info = info
    BY JobFacts DEF Jobs
  <1>3. \A k \in DOMAIN jobs' : \/ k \in DOMAIN jobs /\ jobs'[k] = jobs[k]
                                \/ jobs'[k] = job
    <2>1. jobs \in Seq(Jobs) /\ jobs' = Append(jobs, job)
      BY JobsType DEF RInv, IInv, Create
    <2>2. /\ DOMAIN jobs' = 1 .. Len(jobs) + 1 /\ DOMAIN jobs = 1 .. Len(jobs) /\ Len(jobs) \in Nat
          /\ \A i \in 1 .. Len(jobs) : jobs'[i] = jobs[i]
          /\ jobs'[Len(jobs) + 1] = job
      BY <2>1, <1>2, Appended
    <2>3. QED
      BY <2>2
  <1>4. info.sub \in Subscriptions => info.kind = "durable"
    BY InfoFacts, NameFacts
  <1>5. Durables'
    BY <1>1, <1>2, <1>3, <1>4 DEF RInv, Durables
  <1>6. Plains'
    BY <1>1 DEF RInv, Plains, Registered, Open
  <1>7. QED
    BY <1>5, <1>6

\* What a job leaves or a close adds is no creation.
LEMMA NoNewCreate ==
    ASSUME RInv, \/ \E t \in Threads : GiveUp(t)
                 \/ \E t \in Threads, n \in Names, op \in Operations : ScheduleClose(t, n, op)
    PROVE  \A k \in DOMAIN jobs' : jobs'[k].do = "create" => \E j \in DOMAIN jobs : jobs[j] = jobs'[k]
  <1>1. jobs \in Seq(Jobs) /\ TypeOK
    BY JobsType DEF RInv, IInv
  <1>2. \/ jobs' = jobs
        \/ \E i \in DOMAIN jobs : jobs' = RemoveAt(jobs, i)
        \/ \E n \in Names, op \in Operations \cup {"release"} : jobs' = Append(jobs, CloseJob(n, op))
    BY <1>1, PlaceFacts DEF GiveUp, Withdraw, ScheduleClose, TypeOK
  <1>3. ASSUME NEW i \in DOMAIN jobs, jobs' = RemoveAt(jobs, i)
        PROVE  \A k \in DOMAIN jobs' : \E j \in DOMAIN jobs : jobs[j] = jobs'[k]
    <2>1. Removed(jobs, jobs', i)
      BY <1>1, <1>3, RemovedAt
    <2>2. QED
      BY <2>1 DEF Removed
  <1>4. ASSUME NEW n \in Names, NEW op \in Operations \cup {"release"}, jobs' = Append(jobs, CloseJob(n, op))
        PROVE  \A k \in DOMAIN jobs' : jobs'[k].do = "create" => \E j \in DOMAIN jobs : jobs[j] = jobs'[k]
    BY <1>1, <1>4, CloseAppended, JobFacts
  <1>5. QED
    BY <1>2, <1>3, <1>4

\* At first nothing is registered and nothing is open.
LEMMA InitRegistry == Init => RInv
  <1> SUFFICES ASSUME Init PROVE RInv
    OBVIOUS
  <1>1. Durables
    BY DEF Init, Durables
  <1>2. Plains
    <2>1. \A info : {i \in DOMAIN registry : registry[i] = info} = {} /\
              {n \in live : links[n].info = info} = {}
      BY DEF Init
    <2>2. QED
      BY <2>1 DEF Plains, Registered, Open
  <1>3. QED
    BY <1>1, <1>2, InitInv DEF RInv

\* Every step keeps what is said of the registry.
LEMMA NextRegistry == RInv /\ [Next]_vars => RInv'
  <1> SUFFICES ASSUME RInv, [Next]_vars PROVE Durables' /\ Plains'
    BY NextInv, NextOwed DEF RInv
  <1>1. ASSUME UNCHANGED <<up, live, links, registry, astray, jobs>> PROVE Durables' /\ Plains'
    BY <1>1, RegistryKept DEF RInv
  <1>2. CASE UNCHANGED vars
    BY <1>1, <1>2 DEF vars, conn, tables, history
  <1>3. CASE EventThread
    <2>1. CASE Lose
      <3>1. /\ UNCHANGED <<registry, astray>> /\ ~up'
            /\ \A k \in DOMAIN jobs' : \E j \in DOMAIN jobs : jobs[j] = jobs'[k]
        BY <2>1 DEF Lose
      <3>2. QED
        BY <3>1, RegistryKept DEF RInv
    <2>2. ASSUME NEW n \in awaited, OnReceiverOpen(n) PROVE Durables' /\ Plains'
      BY <2>2, <1>1 DEF OnReceiverOpen, conn, history
    <2>3. QED
      BY <1>3, <2>1, <2>2, RunCreateRegistry, RunCloseRegistry, ReopenRegistry DEF EventThread
  <1>4. ASSUME NEW t \in Threads, Thread(t) PROVE Durables' /\ Plains'
    <2>1. ASSUME NEW info \in LinkInfos, Create(t, info) PROVE Durables' /\ Plains'
      BY <2>1, CreateRegistry
    <2>2. CASE GiveUp(t)
      <3>1. UNCHANGED <<registry, astray, up, live, links>>
        BY <2>2 DEF GiveUp, conn, tables, history
      <3>2. QED
        BY <2>2, <3>1, NoNewCreate, RegistryKept DEF RInv
    <2>3. CASE Close(t)
      <3>1. UNCHANGED <<registry, astray>> /\ ~up' /\ DOMAIN jobs' = {}
        BY <2>3 DEF Close
      <3>2. QED
        BY <3>1, RegistryKept DEF RInv
    <2>4. CASE ClearCache(t)
      BY <2>4, <1>1 DEF ClearCache, conn, tables, history
    <2>5. ASSUME NEW n \in Names, Created(t, n) PROVE Durables' /\ Plains'
      BY <2>5, <1>1 DEF Created, conn, tables
    <2>6. ASSUME NEW k \in Cached, NEW a \in Addresses, ClientClose(t, k, a) \/ WrapperClose(t, k, a)
          PROVE  Durables' /\ Plains'
      BY <2>6, <1>1 DEF ClientClose, WrapperClose, EraseName, conn
    <2>7. ASSUME NEW s \in Subscriptions, NEW op \in Operations, DurableClose(t, s, op)
          PROVE  Durables' /\ Plains'
      BY <2>7, <1>1 DEF DurableClose, EraseName, conn
    <2>8. ASSUME NEW n \in Names, NEW op \in Operations, ScheduleClose(t, n, op) PROVE Durables' /\ Plains'
      <3>1. UNCHANGED <<registry, astray, up, live, links>>
        BY <2>8 DEF ScheduleClose, conn, tables
      <3>2. QED
        BY <2>8, <3>1, NoNewCreate, RegistryKept DEF RInv
    <2>9. QED
      BY <1>4, <2>1, <2>2, <2>3, <2>4, <2>5, <2>6, <2>7, <2>8 DEF Thread
  <1>5. QED
    BY <1>2, <1>3, <1>4 DEF Next

\* A reconnection makes again the links that are open, no more and no less, for every address and
\* subscription that
\* no close went astray of.
THEOREM RegistryIsExact == Spec => []RegistryIsOpenLinks
  <1>1. Spec => []RInv
    BY InitRegistry, NextRegistry, PTL DEF Spec
  <1>2. ASSUME RInv PROVE RegistryIsOpenLinks
    <2> SUFFICES ASSUME up, Recover, NEW info \in LinkInfos, Place(info) \notin astray
                 PROVE  Registered(info) = Open(info)
      BY DEF RegistryIsOpenLinks
    <2>1. CASE info.kind # "durable"
      BY <2>1, <1>2 DEF RInv, Plains, Place
    <2>2. CASE info.kind = "durable"
      <3> DEFINE s == info.sub
                 I == {i \in DOMAIN registry : registry[i] = info}
                 N == {n \in live : links[n].info = info}
      <3>1. s \in Subscriptions \ astray /\ TypeOK
        BY <2>2, <1>2, InfoFacts DEF Place, RInv, IInv
      <3>2. /\ \A i, j \in DOMAIN registry : registry[i].sub = s /\ registry[j].sub = s => i = j
            /\ s \in live <=> \E i \in DOMAIN registry : registry[i].sub = s
            /\ \A i \in DOMAIN registry : registry[i].sub = s => registry[i] = links[s].info
        BY <3>1, <1>2 DEF RInv, Durables
      <3>3. N \subseteq {s}
        BY <3>1, <2>2, <1>2 DEF RInv, IInv, Kinds, Cached, TypeOK
      <3>4. CASE \E i \in DOMAIN registry : registry[i] = info
        <4>1. PICK i \in DOMAIN registry : registry[i] = info
          BY <3>4
        <4>2. I = {i}
          BY <4>1, <3>2
        <4>3. N = {s}
          BY <4>1, <3>2, <3>3
        <4>4. QED
          BY <4>2, <4>3, FS_Singleton DEF Registered, Open
      <3>5. CASE \A i \in DOMAIN registry : registry[i] # info
        <4>1. I = {} /\ N = {}
          BY <3>5, <3>2, <3>3
        <4>2. QED
          BY <4>1 DEF Registered, Open
      <3>6. QED
        BY <3>4, <3>5
    <2>3. QED
      BY <2>1, <2>2
  <1>3. QED
    BY <1>1, <1>2, PTL

=============================================================================
