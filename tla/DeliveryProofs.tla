--------------------------- MODULE DeliveryProofs ---------------------------
(***************************************************************************)
(* The invariants of Delivery, proved for any threads, receivers,          *)
(* deliveries, dispositions and number of connections.                     *)
(*                                                                         *)
(* A tag is a token. The event thread puts it in pending_tags_, one call   *)
(* takes it, that call alone schedules a job, and the job settles. While   *)
(* the tag is that of one delivery only, it is at one of these places      *)
(* (Token), the delivery is on the event thread until it is settled        *)
(* (Stored), and what was asked is applied or queued (Effect). None of it  *)
(* would hold for a tag that two deliveries share.                         *)
(***************************************************************************)
EXTENDS Delivery, FiniteSetTheorems, TLAPS

\* what is done about a delivery
InSettle(th, d) == pc[th].at = "settle" /\ pc[th].delivery = d
SettlesIt(i, d) == jobs[i] \in SettleJobs /\ jobs[i].delivery = d
InEvt(where, d) == evt = [at |-> where, delivery |-> d]

-----------------------------------------------------------------------------
(* The inductive invariant                                                 *)

\* Whatever has or had to do with a delivery, the delivery was made.
AllMade ==
    /\ \A d \in Deliveries : asked[d] # <<>> \/ applied[d] # <<>> => d \in Made
    /\ \A i \in DOMAIN jobs : jobs[i] \in SettleJobs =>
         jobs[i].delivery \in Made /\ jobs[i].tag = made[jobs[i].delivery].tag
    /\ \A th \in Threads : pc[th].at = "settle" => pc[th].delivery \in Made
    /\ \A d \in Deliveries : InEvt("tag", d) \/ InEvt("push", d) => d \in Made
    /\ \A t \in pending : \E d \in Made : made[d].tag = t
    /\ \A t \in Tags : deliveries[t] # None => deliveries[t] \in Made /\ made[deliveries[t]].tag = t
    /\ \A d \in Made : made[d].open <= opens
    /\ held \subseteq Made
    /\ \A r \in Receivers : \A i \in DOMAIN received[r] : received[r][i] \in Made

\* Where the tag of a delivery is, if it is its own.
Token(d) ==
    /\ InEvt("tag", d) => made[d].tag \notin pending
    /\ asked[d] # <<>> => Len(asked[d]) = 1
    /\ (\E th \in Threads : InSettle(th, d)) \/ asked[d] # <<>> =>
         made[d].tag \notin pending /\ ~InEvt("tag", d)
    /\ \A th \in Threads : InSettle(th, d) =>
         asked[d] = <<>> /\ \A other \in Threads : InSettle(other, d) => other = th
    /\ \A i \in DOMAIN jobs : SettlesIt(i, d) =>
         /\ asked[d] = <<jobs[i].disp>> /\ applied[d] = <<>>
         /\ \A j \in DOMAIN jobs : SettlesIt(j, d) => j = i

Stored(d) == applied[d] = <<>> => deliveries[made[d].tag] = d

Effect(d) ==
    /\ applied[d] \in {<<>>, asked[d]}
    /\ asked[d] # <<>> =>
         \/ applied[d] # <<>>
         \/ \E i \in DOMAIN jobs : SettlesIt(i, d)
         \/ ~up \/ made[d].open # opens

Tokens == \A d \in Made : OwnTag(d) => Token(d) /\ Stored(d) /\ Effect(d)

\* The event thread handles a message of an open link.
InFlight == \A d \in Deliveries :
    InEvt("tag", d) \/ InEvt("push", d) => made[d].receiver \in live

Sleepers ==
    /\ connected => up
    /\ \A th \in asleep : /\ pc[th].at = "receive" /\ received[pc[th].receiver] = <<>>
                          /\ up \/ evt = [at |-> "lost"]

Forgotten == \A r \in Receivers : connected /\ opens = 1 /\ r \notin live => received[r] = <<>>

IInv ==
    /\ TypeOK
    /\ AllMade
    /\ Tokens
    /\ InFlight
    /\ Sleepers
    /\ Forgotten

-----------------------------------------------------------------------------
(* Calls, jobs and deliveries                                              *)

\* What a thread that is doing one thing or another carries along.
LEMMA PCFacts ==
    ASSUME TypeOK, NEW th \in Threads
    PROVE  /\ pc[th] \in PC
           /\ pc[th].at = "settle" => pc[th].delivery \in Deliveries /\ pc[th].disp \in Dispositions
           /\ pc[th].at = "receive" => pc[th].receiver \in Receivers
           /\ \A r \in Receivers : pc[th] = Receiving(r) => pc[th].at = "receive" /\ pc[th].receiver = r
  <1>1. pc[th] \in PC
    BY DEF TypeOK
  <1>2. CASE pc[th] = Idle
    BY <1>2 DEF PC, Idle, Receiving
  <1>3. CASE \E r \in Receivers : pc[th] = Receiving(r)
    BY <1>1, <1>3 DEF Receiving
  <1>4. CASE \E d \in Deliveries, disp \in Dispositions : pc[th] = Settling(d, disp)
    BY <1>1, <1>4 DEF Settling, Receiving
  <1>5. CASE \E r \in Receivers, step \in {"forget", "close"} : pc[th] = Closing(r, step)
    BY <1>1, <1>5 DEF Closing, Receiving
  <1>6. QED
    BY <1>1, <1>2, <1>3, <1>4, <1>5 DEF PC

\* The places of a thread, told apart.
LEMMA PlaceFacts ==
    /\ Idle \in PC /\ Idle.at = "idle"
    /\ \A r \in Receivers : Receiving(r) \in PC /\ Receiving(r).at = "receive" /\ Receiving(r).receiver = r
    /\ \A d \in Deliveries, disp \in Dispositions :
         /\ Settling(d, disp) \in PC /\ Settling(d, disp).at = "settle"
         /\ Settling(d, disp).delivery = d /\ Settling(d, disp).disp = disp
    /\ \A r \in Receivers, step \in {"forget", "close"} : Closing(r, step) \in PC /\ Closing(r, step).at = step
  <1>1. Idle \in PC /\ Idle.at = "idle"
    BY DEF PC, Idle
  <1>2. \A r \in Receivers : Receiving(r) \in PC /\ Receiving(r).at = "receive" /\ Receiving(r).receiver = r
    <2>1. \A r \in Receivers : Receiving(r) \in PC
      BY DEF PC
    <2>2. QED
      BY <2>1 DEF Receiving
  <1>3. \A d \in Deliveries, disp \in Dispositions :
          /\ Settling(d, disp) \in PC /\ Settling(d, disp).at = "settle"
          /\ Settling(d, disp).delivery = d /\ Settling(d, disp).disp = disp
    <2>1. \A d \in Deliveries, disp \in Dispositions : Settling(d, disp) \in PC
      BY DEF PC
    <2>2. QED
      BY <2>1 DEF Settling
  <1>4. \A r \in Receivers, step \in {"forget", "close"} : Closing(r, step) \in PC /\ Closing(r, step).at = step
    <2>1. \A r \in Receivers, step \in {"forget", "close"} : Closing(r, step) \in PC
      BY DEF PC
    <2>2. QED
      BY <2>1 DEF Closing
  <1>5. QED
    BY <1>1, <1>2, <1>3, <1>4

\* A thread that goes on is at a new place, and the others where they were.
LEMMA GotoFacts ==
    ASSUME TypeOK, NEW th \in Threads, NEW where \in PC, Goto(th, where)
    PROVE  /\ pc' \in [Threads -> PC]
           /\ pc'[th] = where
           /\ \A u \in Threads \ {th} : pc'[u] = pc[u]
  <1>1. pc \in [Threads -> PC]
    BY DEF TypeOK
  <1>2. pc' = [pc EXCEPT ![th] = where]
    BY DEF Goto
  <1>3. QED
    BY <1>1, <1>2

\* The steps of the event thread, told apart.
LEMMA EvtFacts ==
    /\ Idle \in Evts /\ [at |-> "lost"] \in Evts /\ [at |-> "lost"] # Idle
    /\ \A d \in Deliveries, where \in {"tag", "push"} :
         /\ [at |-> where, delivery |-> d] \in Evts
         /\ [at |-> where, delivery |-> d] # Idle
         /\ [at |-> where, delivery |-> d] # [at |-> "lost"]
         /\ \A e \in Deliveries, w \in {"tag", "push"} :
              [at |-> where, delivery |-> d] = [at |-> w, delivery |-> e] <=> where = w /\ d = e
  BY DEF Evts, Idle

\* A job settles a delivery or closes a receiver.
LEMMA JobFacts ==
    ASSUME NEW job \in SettleJobs \cup CloseJobs
    PROVE  /\ job \in SettleJobs <=> "tag" \in DOMAIN job
           /\ job \in CloseJobs <=> "close" \in DOMAIN job
           /\ job \in SettleJobs => job \notin CloseJobs /\ job.tag \in Tags /\ job.delivery \in Deliveries
                                    /\ job.disp \in Dispositions
           /\ job \in CloseJobs => job.close \in Receivers
  <1>1. CASE job \in SettleJobs
    BY <1>1 DEF SettleJobs, CloseJobs
  <1>2. CASE job \in CloseJobs
    BY <1>2 DEF SettleJobs, CloseJobs
  <1>3. QED
    BY <1>1, <1>2

\* The elements of a sequence without its head, and after one is appended.
LEMMA QueueFacts ==
    ASSUME NEW S, NEW q \in Seq(S)
    PROVE  /\ DOMAIN q = 1 .. Len(q) /\ Len(q) \in Nat
           /\ \A i \in DOMAIN q : q[i] \in S
           /\ \A x \in S : /\ Append(q, x) \in Seq(S) /\ Append(q, x) # <<>>
                           /\ DOMAIN Append(q, x) = 1 .. Len(q) + 1
                           /\ Append(q, x)[Len(q) + 1] = x
                           /\ \A i \in DOMAIN q : Append(q, x)[i] = q[i]
           /\ q # <<>> => /\ Tail(q) \in Seq(S) /\ Head(q) \in S
                          /\ 1 \in DOMAIN q /\ Head(q) = q[1]
                          /\ DOMAIN Tail(q) = 1 .. Len(q) - 1
                          /\ \A i \in DOMAIN Tail(q) : i + 1 \in DOMAIN q /\ Tail(q)[i] = q[i + 1]
  <1>1. DOMAIN q = 1 .. Len(q) /\ Len(q) \in Nat /\ \A i \in DOMAIN q : q[i] \in S
    OBVIOUS
  <1>2. \A x \in S : /\ Append(q, x) \in Seq(S) /\ Append(q, x) # <<>>
                     /\ DOMAIN Append(q, x) = 1 .. Len(q) + 1
                     /\ Append(q, x)[Len(q) + 1] = x
                     /\ \A i \in DOMAIN q : Append(q, x)[i] = q[i]
    OBVIOUS
  <1>3. q # <<>> => /\ Tail(q) \in Seq(S) /\ Head(q) \in S
                    /\ 1 \in DOMAIN q /\ Head(q) = q[1]
                    /\ DOMAIN Tail(q) = 1 .. Len(q) - 1
                    /\ \A i \in DOMAIN Tail(q) : i + 1 \in DOMAIN q /\ Tail(q)[i] = q[i + 1]
    OBVIOUS
  <1>4. QED
    BY <1>1, <1>2, <1>3

\* An empty sequence, and one that was empty before.
LEMMA EmptyFacts ==
    /\ \A S : <<>> \in Seq(S)
    /\ DOMAIN <<>> = {}
    /\ \A x : Append(<<>>, x) = <<x>> /\ Len(<<x>>) = 1 /\ <<x>> # <<>>
  OBVIOUS

\* A delivery that was made has a tag, a receiver and a connection.
LEMMA MadeFacts ==
    ASSUME TypeOK, NEW d \in Made
    PROVE  /\ d \in Deliveries
           /\ made[d] \in [receiver : Receivers, tag : Tags, open : 1 .. MaxOpens]
           /\ made[d].tag \in Tags /\ made[d].receiver \in Receivers /\ made[d].open \in 1 .. MaxOpens
  BY DEF TypeOK, Made

\* While no delivery is made, the deliveries and what their tags mean stay.
LEMMA SameDeliveries ==
    ASSUME UNCHANGED made
    PROVE  Made' = Made /\ \A d \in Made : OwnTag(d)' <=> OwnTag(d)
  BY DEF Made, OwnTag

\* Steps that settle nothing leave the tags where they are.
LEMMA TokensKept ==
    ASSUME IInv, UNCHANGED <<made, asked, applied, deliveries, pending, jobs, up, opens>>,
           \A th \in Threads, d \in Deliveries : InSettle(th, d)' <=> InSettle(th, d),
           \A d \in Deliveries : InEvt("tag", d)' => InEvt("tag", d)
    PROVE  Tokens'
  <1>1. SUFFICES ASSUME NEW d \in Made, OwnTag(d) PROVE Token(d)' /\ Stored(d)' /\ Effect(d)'
    BY SameDeliveries DEF Tokens
  <1>2. d \in Deliveries /\ Token(d) /\ Stored(d) /\ Effect(d)
    BY <1>1, MadeFacts DEF IInv, Tokens
  <1>3. Token(d)'
    BY <1>1, <1>2 DEF Token, SettlesIt, SettleJobs, Tags
  <1>4. Stored(d)' /\ Effect(d)'
    BY <1>1, <1>2 DEF Stored, Effect, SettlesIt, SettleJobs, Tags
  <1>5. QED
    BY <1>3, <1>4

\* ... and concern only deliveries that were made.
LEMMA AllMadeKept ==
    ASSUME IInv, UNCHANGED <<made, asked, applied, deliveries, pending, jobs, opens>>,
           \A th \in Threads : pc'[th].at = "settle" => pc'[th] = pc[th],
           \A d \in Deliveries, where \in {"tag", "push"} :
             InEvt(where, d)' => InEvt("tag", d) \/ InEvt("push", d),
           held' \subseteq Made,
           \A r \in Receivers : \A i \in DOMAIN received'[r] : received'[r][i] \in Made
    PROVE  AllMade'
  BY SameDeliveries DEF IInv, AllMade, SettleJobs, Tags

-----------------------------------------------------------------------------
(* Every step preserves the invariant                                      *)

\* At first nothing is delivered.
LEMMA InitInv == Init => IInv
  <1>1. SUFFICES ASSUME Init PROVE IInv
    OBVIOUS
  <1>2. /\ \A th \in Threads : pc[th].at = "idle"
        /\ pc \in [Threads -> PC]
    BY <1>1, PlaceFacts DEF Init, Idle
  <1>3. TypeOK
    <2>1. /\ received \in [Receivers -> Seq(Deliveries)]
          /\ asked \in [Deliveries -> Seq(Dispositions)]
          /\ applied \in [Deliveries -> Seq(Dispositions)]
          /\ jobs \in Seq(SettleJobs \cup CloseJobs)
      BY <1>1, EmptyFacts DEF Init
    <2>2. /\ made \in [Deliveries -> {None} \cup [receiver : Receivers, tag : Tags, open : 1 .. MaxOpens]]
          /\ deliveries \in [Tags -> Deliveries \cup {None}]
          /\ opens \in 1 .. MaxOpens
      BY <1>1, DeliveryAssumption DEF Init
    <2>3. QED
      BY <1>1, <1>2, <2>1, <2>2, DeliveryAssumption, EvtFacts DEF Init, TypeOK
  <1>4. Made = {} /\ DOMAIN jobs = {}
    BY <1>1, EmptyFacts DEF Init, Made
  <1>5. AllMade
    BY <1>1, <1>2, <1>4, EmptyFacts, EvtFacts DEF Init, AllMade, InEvt
  <1>6. Tokens /\ InFlight
    BY <1>1, <1>4, EvtFacts DEF Init, Tokens, InFlight, InEvt
  <1>7. Sleepers /\ Forgotten
    BY <1>1 DEF Init, Sleepers, Forgotten
  <1>8. QED
    BY <1>3, <1>5, <1>6, <1>7 DEF IInv

\* A delivery is made: nothing is known of it yet, and whoever had its tag shares it now.
LEMMA OnMessageInv == ASSUME IInv, NEW r \in Receivers, OnMessage(r) PROVE IInv'
  <1>1. PICK d \in Deliveries \ Made, t \in FreeTags(r) :
          /\ made' = [made EXCEPT ![d] = [receiver |-> r, tag |-> t, open |-> opens]]
          /\ deliveries' = [deliveries EXCEPT ![t] = d]
          /\ evt' = [at |-> "tag", delivery |-> d]
    <2>1. Deliveries \ Made # {}
      BY DEF OnMessage, Made
    <2>2. (CHOOSE e \in Deliveries \ Made : TRUE) \in Deliveries \ Made
      BY <2>1
    <2>3. QED
      BY <2>2 DEF OnMessage
  <1>2. /\ evt = Idle /\ r \in live
        /\ UNCHANGED <<connected, up, workQueue, opens, names, used, live, received, pending, jobs, pc, asleep, held,
                       asked, applied>>
    BY DEF OnMessage, conn
  <1>3. t \in Tags
    <2>1. Made \subseteq Deliveries /\ IsFiniteSet(Deliveries) /\ Made # Deliveries
      BY <1>1, DeliveryAssumption DEF Made
    <2>2. /\ IsFiniteSet(Made) /\ Cardinality(Made) <= Cardinality(Deliveries)
          /\ Cardinality(Made) # Cardinality(Deliveries)
      BY <2>1, FS_Subset
    <2>3. Cardinality(Made) \in Nat /\ Cardinality(Deliveries) \in Nat
      BY <2>1, <2>2, FS_CardinalityType
    <2>4. t \in 1 .. 1 + Cardinality(Made)
      BY <1>1 DEF FreeTags
    <2>5. QED
      BY <2>2, <2>3, <2>4 DEF Tags
  <1>4. /\ Made' = Made \cup {d}
        /\ made'[d].tag = t /\ made'[d].receiver = r /\ made'[d].open = opens
        /\ \A e \in Made : made'[e] = made[e]
        /\ \A e \in Made : OwnTag(e)' => OwnTag(e) /\ made[e].tag # t
        /\ made' \in [Deliveries -> {None} \cup [receiver : Receivers, tag : Tags, open : 1 .. MaxOpens]]
    <2>1. /\ made' \in [Deliveries -> {None} \cup [receiver : Receivers, tag : Tags, open : 1 .. MaxOpens]]
          /\ made'[d] = [receiver |-> r, tag |-> t, open |-> opens]
          /\ \A e \in Deliveries \ {d} : made'[e] = made[e]
          /\ made'[d] # None
      <3> DEFINE new == [receiver |-> r, tag |-> t, open |-> opens]
                 Records == [receiver : Receivers, tag : Tags, open : 1 .. MaxOpens]
      <3>1. opens \in 1 .. MaxOpens /\ made \in [Deliveries -> {None} \cup Records]
        BY DEF IInv, TypeOK
      <3>2. new \in Records
        BY <1>3, <3>1
      <3>3. new # None
        BY DEF None
      <3>4. made' = [made EXCEPT ![d] = new]
        BY <1>1
      <3>5. QED
        <4> HIDE DEF new, Records
        <4>1. /\ made' \in [Deliveries -> {None} \cup Records] /\ made'[d] = new
              /\ \A e \in Deliveries \ {d} : made'[e] = made[e]
          BY <3>1, <3>2, <3>4
        <4>2. QED
          BY <3>3, <4>1 DEF new, Records
    <2>2. Made' = Made \cup {d}
      BY <1>1, <2>1 DEF Made
    <2>3. \A e \in Made : OwnTag(e)' => OwnTag(e) /\ made[e].tag # t
      BY <1>1, <2>1, <2>2 DEF OwnTag, Made
    <2>4. QED
      BY <1>1, <2>1, <2>2, <2>3 DEF Made
  <1>5. TypeOK'
    <2>1. evt' \in Evts
      BY <1>1, EvtFacts
    <2>2. deliveries' \in [Tags -> Deliveries \cup {None}]
      BY <1>1, <1>3 DEF IInv, TypeOK
    <2>3. QED
      BY <1>2, <1>4, <2>1, <2>2 DEF IInv, TypeOK
  <1>6. /\ asked[d] = <<>> /\ applied[d] = <<>> /\ (\A th \in Threads : ~InSettle(th, d))
        /\ \A i \in DOMAIN jobs : ~SettlesIt(i, d)
    BY <1>1 DEF IInv, AllMade, InSettle, SettlesIt
  <1>7. AllMade'
    <2>1. \A tt \in Tags : deliveries'[tt] = IF tt = t THEN d ELSE deliveries[tt]
      BY <1>1 DEF IInv, TypeOK
    <2>2. \A e \in Deliveries : InEvt("tag", e)' \/ InEvt("push", e)' => e = d
      BY <1>1, EvtFacts DEF InEvt
    <2>3. opens \in Nat
      BY DEF IInv, TypeOK
    <2>4. QED
      BY <1>1, <1>2, <1>4, <2>1, <2>2, <2>3 DEF IInv, AllMade, SettleJobs, Tags
  <1>8. Tokens'
    <2>1. ASSUME OwnTag(d)' PROVE Token(d)' /\ Stored(d)' /\ Effect(d)'
      <3>1. t \notin pending
        BY <1>1, <1>4, <2>1 DEF IInv, AllMade, OwnTag
      <3>2. deliveries'[t] = d
        BY <1>1, <1>3 DEF IInv, TypeOK
      <3>3. \A i \in DOMAIN jobs' : ~SettlesIt(i, d)'
        BY <1>2, <1>6 DEF SettlesIt, SettleJobs, Tags
      <3>4. Token(d)'
        BY <1>2, <1>4, <1>6, <3>1, <3>3 DEF Token, InSettle
      <3>5. Stored(d)' /\ Effect(d)'
        BY <1>2, <1>4, <1>6, <3>2 DEF Stored, Effect
      <3>6. QED
        BY <3>4, <3>5
    <2>2. ASSUME NEW e \in Made, OwnTag(e)' PROVE Token(e)' /\ Stored(e)' /\ Effect(e)'
      <3>1. OwnTag(e) /\ made[e].tag # t /\ made'[e] = made[e] /\ Token(e) /\ Stored(e) /\ Effect(e)
            /\ e \in Deliveries /\ e # d /\ made[e].tag \in Tags
        BY <1>1, <1>4, <2>2, MadeFacts DEF IInv, Tokens
      <3>2. ~InEvt("tag", e)'
        BY <1>1, <3>1, EvtFacts DEF InEvt
      <3>3. deliveries'[made[e].tag] = deliveries[made[e].tag]
        BY <1>1, <3>1 DEF IInv, TypeOK
      <3>4. Token(e)'
        BY <1>2, <3>1, <3>2 DEF Token, InSettle, SettlesIt, SettleJobs, Tags
      <3>5. Stored(e)' /\ Effect(e)'
        BY <1>2, <3>1, <3>3 DEF Stored, Effect, SettlesIt, SettleJobs, Tags
      <3>6. QED
        BY <3>4, <3>5
    <2>3. QED
      BY <1>4, <2>1, <2>2 DEF Tokens
  <1>9. InFlight'
    BY <1>1, <1>2, <1>4, EvtFacts DEF InFlight, InEvt
  <1>10. Sleepers' /\ Forgotten'
    BY <1>1, <1>2, EvtFacts DEF IInv, Sleepers, Forgotten
  <1>11. QED
    BY <1>5, <1>7, <1>8, <1>9, <1>10 DEF IInv

\* The tag of a delivery is there once its own step put it there.
LEMMA StoreTagInv == ASSUME IInv, NEW d \in Deliveries, StoreTag(d) PROVE IInv'
  <1>1. /\ InEvt("tag", d) /\ InEvt("push", d)' /\ d \in Made
        /\ pending' = pending \cup {made[d].tag}
        /\ UNCHANGED <<connected, up, workQueue, opens, names, used, live, received, deliveries, jobs, pc, asleep,
                       made, held, asked, applied>>
    BY DEF StoreTag, conn, history, InEvt, IInv, AllMade
  <1>2. /\ evt' \in Evts /\ evt # [at |-> "lost"]
        /\ \A e \in Deliveries : ~InEvt("tag", e)' /\ (InEvt("push", e)' => e = d)
    BY <1>1, EvtFacts DEF InEvt
  <1>3. TypeOK'
    <2>1. made[d].tag \in Tags
      BY <1>1, MadeFacts DEF IInv
    <2>2. pending' \subseteq Tags
      BY <1>1, <2>1 DEF IInv, TypeOK
    <2>3. QED
      BY <1>1, <1>2, <2>2 DEF IInv, TypeOK
  <1>4. AllMade'
    BY <1>1, <1>2, SameDeliveries DEF IInv, AllMade, SettleJobs, Tags
  <1>5. Tokens'
    <2>1. SUFFICES ASSUME NEW e \in Made, OwnTag(e) PROVE Token(e)' /\ Stored(e)' /\ Effect(e)'
      BY <1>1, SameDeliveries DEF Tokens
    <2>2. e \in Deliveries /\ Token(e) /\ Stored(e) /\ Effect(e)
      BY <2>1, MadeFacts DEF IInv, Tokens
    <2>3. e # d => made[e].tag # made[d].tag
      BY <1>1, <2>1 DEF OwnTag
    <2>4. Token(e)'
      BY <1>1, <1>2, <2>2, <2>3 DEF Token, InSettle, SettlesIt, SettleJobs, Tags
    <2>5. Stored(e)' /\ Effect(e)'
      BY <1>1, <2>2 DEF Stored, Effect, SettlesIt, SettleJobs, Tags
    <2>6. QED
      BY <2>4, <2>5
  <1>6. InFlight'
    BY <1>1, <1>2 DEF IInv, InFlight
  <1>7. Sleepers' /\ Forgotten'
    BY <1>1, <1>2, EvtFacts DEF IInv, Sleepers, Forgotten, InEvt
  <1>8. QED
    BY <1>3, <1>4, <1>5, <1>6, <1>7 DEF IInv

\* A message is with the receiver that got it, and everybody is awake.
LEMMA PushInv == ASSUME IInv, NEW d \in Deliveries, Push(d) PROVE IInv'
  <1>1. /\ InEvt("push", d) /\ evt' = Idle /\ asleep' = {} /\ d \in Made
        /\ received' = [received EXCEPT ![made[d].receiver] = Append(@, d)]
        /\ UNCHANGED <<connected, up, workQueue, opens, names, used, live, deliveries, pending, jobs, pc,
                       made, held, asked, applied>>
    BY DEF Push, conn, history, InEvt, IInv, AllMade
  <1>2. /\ made[d].receiver \in live /\ made[d].receiver \in Receivers
        /\ \A e \in Deliveries : ~InEvt("tag", e)' /\ ~InEvt("push", e)'
    BY <1>1, MadeFacts, EvtFacts DEF InEvt, IInv, InFlight
  <1>3. /\ received' \in [Receivers -> Seq(Deliveries)]
        /\ \A r \in Receivers : \A i \in DOMAIN received'[r] : received'[r][i] \in Made
        /\ \A r \in Receivers \ {made[d].receiver} : received'[r] = received[r]
    <2> DEFINE own == made[d].receiver
               q == received[own]
    <2>1. q \in Seq(Deliveries) /\ own \in Receivers
      BY <1>2 DEF IInv, TypeOK
    <2>2. /\ Append(q, d) \in Seq(Deliveries)
          /\ \A i \in DOMAIN Append(q, d) : Append(q, d)[i] \in Made
      BY <1>1, <2>1, QueueFacts DEF IInv, AllMade
    <2>3. /\ \A r \in Receivers : received'[r] = IF r = own THEN Append(q, d) ELSE received[r]
          /\ received' \in [Receivers -> Seq(Deliveries)]
      BY <1>1, <2>1, <2>2 DEF IInv, TypeOK
    <2>4. QED
      BY <2>2, <2>3 DEF IInv, AllMade
  <1>4. TypeOK'
    BY <1>1, <1>3, EvtFacts DEF IInv, TypeOK
  <1>5. AllMade'
    BY <1>1, <1>2, <1>3, AllMadeKept DEF IInv, AllMade
  <1>6. Tokens'
    BY <1>1, <1>2, TokensKept DEF InSettle
  <1>7. InFlight'
    BY <1>2 DEF InFlight
  <1>8. Sleepers' /\ Forgotten'
    BY <1>1, <1>2, <1>3 DEF IInv, Sleepers, Forgotten
  <1>9. QED
    BY <1>4, <1>5, <1>6, <1>7, <1>8 DEF IInv

\* The job of a delivery settles it as asked: no other job or call has its tag.
LEMMA RunSettleInv == ASSUME IInv, RunSettle PROVE IInv'
  <1>1. PICK job \in SettleJobs :
          /\ jobs # <<>> /\ job = Head(jobs) /\ Dispose(job.tag, job.disp)
          /\ job.tag \in Tags /\ job.delivery \in Made /\ job.tag = made[job.delivery].tag /\ job.disp \in Dispositions
    <2>1. jobs \in Seq(SettleJobs \cup CloseJobs) /\ jobs # <<>>
      BY DEF IInv, TypeOK, RunSettle
    <2>2. Head(jobs) \in SettleJobs \cup CloseJobs /\ 1 \in DOMAIN jobs /\ Head(jobs) = jobs[1]
      BY <2>1, QueueFacts
    <2>3. Head(jobs) \in SettleJobs
      BY <2>2, JobFacts DEF RunSettle
    <2>4. QED
      BY <2>1, <2>2, <2>3, JobFacts DEF RunSettle, IInv, AllMade
  <1>2. /\ jobs \in Seq(SettleJobs \cup CloseJobs)
        /\ 1 \in DOMAIN jobs /\ job = jobs[1] /\ DOMAIN jobs = 1 .. Len(jobs) /\ Len(jobs) \in Nat
        /\ jobs' \in Seq(SettleJobs \cup CloseJobs) /\ DOMAIN jobs' = 1 .. Len(jobs) - 1
        /\ \A i \in DOMAIN jobs' : i + 1 \in DOMAIN jobs /\ jobs'[i] = jobs[i + 1]
    <2>1. jobs \in Seq(SettleJobs \cup CloseJobs) /\ jobs' = Tail(jobs)
      BY DEF IInv, TypeOK, RunSettle
    <2>2. QED
      BY <1>1, <2>1, QueueFacts
  <1>3. /\ evt = Idle
        /\ UNCHANGED <<connected, up, workQueue, opens, names, used, live, received, pending, evt, pc, asleep,
                       made, held, asked>>
    BY DEF RunSettle, conn
  <1>4. LET e == deliveries[job.tag]
        IN IF e = None
           THEN UNCHANGED <<deliveries, applied>>
           ELSE /\ e \in Made /\ made[e].tag = job.tag
                /\ applied' = [applied EXCEPT ![e] = Append(@, job.disp)]
                /\ deliveries' = [deliveries EXCEPT ![job.tag] = None]
    BY <1>1 DEF Dispose, IInv, AllMade
  <1>5. TypeOK'
    <2>1. applied' \in [Deliveries -> Seq(Dispositions)] /\ deliveries' \in [Tags -> Deliveries \cup {None}]
      <3>1. CASE deliveries[job.tag] = None
        BY <1>4, <3>1 DEF IInv, TypeOK
      <3>2. CASE deliveries[job.tag] # None
        <4>1. deliveries[job.tag] \in Deliveries
          BY <1>4, <3>2 DEF Made
        <4>2. Append(applied[deliveries[job.tag]], job.disp) \in Seq(Dispositions)
          BY <1>1, <4>1, QueueFacts DEF IInv, TypeOK
        <4>3. /\ applied' = [applied EXCEPT ![deliveries[job.tag]] = Append(applied[deliveries[job.tag]], job.disp)]
              /\ deliveries' = [deliveries EXCEPT ![job.tag] = None]
          BY <1>4, <3>2
        <4>4. applied \in [Deliveries -> Seq(Dispositions)] /\ deliveries \in [Tags -> Deliveries \cup {None}]
          BY DEF IInv, TypeOK
        <4>5. applied' \in [Deliveries -> Seq(Dispositions)]
          BY <4>1, <4>2, <4>3, <4>4
        <4>6. deliveries' \in [Tags -> Deliveries \cup {None}]
          BY <4>3, <4>4
        <4>7. QED
          BY <4>5, <4>6
      <3>3. QED
        BY <3>1, <3>2
    <2>2. QED
      BY <1>2, <1>3, <2>1 DEF IInv, TypeOK
  <1>6. AllMade'
    <2>1. \A d \in Deliveries : applied'[d] # <<>> => d \in Made
      BY <1>4 DEF IInv, TypeOK, AllMade
    <2>2. \A t \in Tags : deliveries'[t] # None => deliveries'[t] \in Made /\ made[deliveries'[t]].tag = t
      BY <1>4 DEF IInv, TypeOK, AllMade
    <2>3. \A i \in DOMAIN jobs' : jobs'[i] \in SettleJobs =>
            jobs'[i].delivery \in Made /\ jobs'[i].tag = made[jobs'[i].delivery].tag
      BY <1>2 DEF IInv, AllMade
    <2>4. QED
      BY <1>3, <2>1, <2>2, <2>3, SameDeliveries DEF IInv, AllMade, InEvt, SettleJobs, Tags
  <1>7. Tokens'
    <2>1. SUFFICES ASSUME NEW e \in Made, OwnTag(e) PROVE Token(e)' /\ Stored(e)' /\ Effect(e)'
      BY <1>3, SameDeliveries DEF Tokens
    <2>2. /\ e \in Deliveries /\ Token(e) /\ Stored(e) /\ Effect(e) /\ made[e].tag \in Tags
          /\ applied[e] \in Seq(Dispositions)
      <3>1. Token(e) /\ Stored(e) /\ Effect(e)
        BY <2>1 DEF IInv, Tokens
      <3>2. e \in Deliveries /\ made[e].tag \in Tags
        BY <2>1, MadeFacts DEF IInv
      <3>3. applied[e] \in Seq(Dispositions)
        BY <3>2 DEF IInv, TypeOK
      <3>4. QED
        BY <3>1, <3>2, <3>3
    <2>3. /\ \A i \in DOMAIN jobs' : SettlesIt(i, e)' => SettlesIt(i + 1, e)
          /\ \A i \in DOMAIN jobs : SettlesIt(i, e) /\ i # 1 => i - 1 \in DOMAIN jobs' /\ SettlesIt(i - 1, e)'
      BY <1>2 DEF SettlesIt, SettleJobs, Tags
    <2>4. CASE job.delivery = e
      <3>1. SettlesIt(1, e) /\ asked[e] = <<job.disp>> /\ applied[e] = <<>> /\ deliveries[job.tag] = e
        BY <1>1, <1>2, <2>2, <2>4 DEF SettlesIt, Token, Stored
      <3>2. applied'[e] = asked[e]
        BY <1>4, <2>2, <3>1, EmptyFacts, DeliveryAssumption DEF IInv, TypeOK
      <3>3. \A i \in DOMAIN jobs' : ~SettlesIt(i, e)'
        <4>1. SUFFICES ASSUME NEW i \in DOMAIN jobs', SettlesIt(i, e)' PROVE FALSE
          OBVIOUS
        <4>2. SettlesIt(i + 1, e) /\ i + 1 \in DOMAIN jobs /\ i + 1 # 1
          BY <1>2, <2>3, <4>1
        <4>3. QED
          BY <1>2, <2>2, <3>1, <4>2 DEF Token
      <3>4. Token(e)'
        BY <1>3, <2>2, <3>3 DEF Token, InSettle, InEvt
      <3>5. Stored(e)' /\ Effect(e)'
        BY <1>3, <3>1, <3>2, EmptyFacts DEF Stored, Effect
      <3>6. QED
        BY <3>4, <3>5
    <2>5. CASE job.delivery # e
      <3>1. made[e].tag # job.tag /\ ~SettlesIt(1, e)
        BY <1>1, <1>2, <2>1, <2>5 DEF OwnTag, SettlesIt
      <3>2. applied'[e] = applied[e] /\ deliveries'[made[e].tag] = deliveries[made[e].tag]
        BY <1>4, <2>2, <3>1 DEF IInv, TypeOK
      <3>3. Token(e)'
        <4>1. \A i \in DOMAIN jobs' : SettlesIt(i, e)' =>
                 asked[e] = <<jobs'[i].disp>> /\ applied[e] = <<>>
                 /\ \A j \in DOMAIN jobs' : SettlesIt(j, e)' => j = i
          BY <1>2, <2>2, <2>3 DEF Token
        <4>2. QED
          BY <1>3, <2>2, <3>2, <4>1 DEF Token, InSettle, InEvt
      <3>4. Stored(e)'
        BY <1>3, <2>2, <3>2 DEF Stored
      <3>5. Effect(e)'
        BY <1>3, <2>2, <2>3, <3>1, <3>2 DEF Effect
      <3>6. QED
        BY <3>3, <3>4, <3>5
    <2>6. QED
      BY <2>4, <2>5
  <1>8. InFlight' /\ Sleepers' /\ Forgotten'
    BY <1>3 DEF IInv, InFlight, Sleepers, Forgotten, InEvt
  <1>9. QED
    BY <1>5, <1>6, <1>7, <1>8 DEF IInv

\* Once its link is closed, a receiver has no messages.
LEMMA RunCloseInv == ASSUME IInv, RunClose PROVE IInv'
  <1>1. PICK r \in Receivers :
          /\ names' = names \ {r} /\ live' = live \ {r} /\ received' = [received EXCEPT ![r] = <<>>]
    <2>1. jobs \in Seq(SettleJobs \cup CloseJobs) /\ jobs # <<>>
      BY DEF IInv, TypeOK, RunClose
    <2>2. Head(jobs) \in SettleJobs \cup CloseJobs
      BY <2>1, QueueFacts
    <2>3. Head(jobs) \in CloseJobs /\ Head(jobs).close \in Receivers
      BY <2>2, JobFacts DEF RunClose
    <2>4. QED
      BY <2>3 DEF RunClose, CloseReceiverLink
  <1>2. /\ jobs \in Seq(SettleJobs \cup CloseJobs) /\ 1 \in DOMAIN jobs /\ jobs[1] \notin SettleJobs
        /\ DOMAIN jobs = 1 .. Len(jobs) /\ Len(jobs) \in Nat
        /\ jobs' \in Seq(SettleJobs \cup CloseJobs) /\ DOMAIN jobs' = 1 .. Len(jobs) - 1
        /\ \A i \in DOMAIN jobs' : i + 1 \in DOMAIN jobs /\ jobs'[i] = jobs[i + 1]
    <2>1. jobs \in Seq(SettleJobs \cup CloseJobs) /\ jobs' = Tail(jobs) /\ jobs # <<>> /\ "close" \in DOMAIN Head(jobs)
      BY DEF IInv, TypeOK, RunClose
    <2>2. Head(jobs) \in SettleJobs \cup CloseJobs /\ Head(jobs) = jobs[1]
      BY <2>1, QueueFacts
    <2>3. Head(jobs) \in CloseJobs /\ Head(jobs) \notin SettleJobs
      BY <2>1, <2>2, JobFacts
    <2>4. QED
      BY <2>1, <2>2, <2>3, QueueFacts
  <1>3. /\ evt = Idle
        /\ UNCHANGED <<connected, up, workQueue, opens, used, deliveries, pending, evt, pc, asleep,
                       made, held, asked, applied>>
    BY DEF RunClose, history
  <1>4. /\ received' \in [Receivers -> Seq(Deliveries)] /\ received'[r] = <<>>
        /\ \A other \in Receivers : other # r => received'[other] = received[other]
    BY <1>1, EmptyFacts DEF IInv, TypeOK
  <1>5. TypeOK'
    BY <1>1, <1>2, <1>3, <1>4 DEF IInv, TypeOK
  <1>6. AllMade'
    <2>1. \A other \in Receivers : \A i \in DOMAIN received'[other] : received'[other][i] \in Made
      BY <1>4, EmptyFacts DEF IInv, AllMade
    <2>2. \A i \in DOMAIN jobs' : jobs'[i] \in SettleJobs =>
            jobs'[i].delivery \in Made /\ jobs'[i].tag = made[jobs'[i].delivery].tag
      BY <1>2 DEF IInv, AllMade
    <2>3. QED
      BY <1>3, <2>1, <2>2, SameDeliveries DEF IInv, AllMade, InEvt, SettleJobs, Tags
  <1>7. Tokens'
    <2>1. SUFFICES ASSUME NEW e \in Made, OwnTag(e) PROVE Token(e)' /\ Stored(e)' /\ Effect(e)'
      BY <1>3, SameDeliveries DEF Tokens
    <2>2. Token(e) /\ Stored(e) /\ Effect(e)
      BY <2>1 DEF IInv, Tokens
    <2>3. /\ \A i \in DOMAIN jobs' : SettlesIt(i, e)' => SettlesIt(i + 1, e)
          /\ \A i \in DOMAIN jobs : SettlesIt(i, e) => i - 1 \in DOMAIN jobs' /\ SettlesIt(i - 1, e)'
      BY <1>2 DEF SettlesIt, SettleJobs, Tags
    <2>4. Token(e)'
      <3>1. \A i \in DOMAIN jobs' : SettlesIt(i, e)' =>
               asked[e] = <<jobs'[i].disp>> /\ applied[e] = <<>>
               /\ \A j \in DOMAIN jobs' : SettlesIt(j, e)' => j = i
        BY <1>2, <2>2, <2>3 DEF Token
      <3>2. QED
        BY <1>3, <2>2, <3>1 DEF Token, InSettle, InEvt
    <2>5. Stored(e)' /\ Effect(e)'
      BY <1>3, <2>2, <2>3 DEF Stored, Effect
    <2>6. QED
      BY <2>4, <2>5
  <1>8. InFlight'
    BY <1>3, EvtFacts DEF InFlight, InEvt
  <1>9. Sleepers' /\ Forgotten'
    <2>1. \A th \in asleep : pc[th].at = "receive" => pc[th].receiver \in Receivers
      BY PCFacts DEF IInv, TypeOK
    <2>2. Sleepers'
      BY <1>3, <1>4, <2>1 DEF IInv, Sleepers
    <2>3. Forgotten'
      BY <1>1, <1>3, <1>4 DEF IInv, Forgotten
    <2>4. QED
      BY <2>2, <2>3
  <1>10. QED
    BY <1>5, <1>6, <1>7, <1>8, <1>9 DEF IInv

\* The loss of the connection is no news to the tags, and excuses the jobs it drops.
LEMMA LoseInv == ASSUME IInv, Lose PROVE IInv'
  <1>1. /\ evt = Idle /\ evt' = [at |-> "lost"] /\ up' = FALSE /\ connected' = FALSE /\ workQueue' \in BOOLEAN
        /\ live' = {} /\ jobs' \in {jobs, <<>>}
        /\ UNCHANGED <<opens, names, used, received, deliveries, pending, pc, asleep, made, held, asked, applied>>
    BY DEF Lose, store, history
  <1>2. /\ jobs' \in Seq(SettleJobs \cup CloseJobs)
        /\ \A i \in DOMAIN jobs' : i \in DOMAIN jobs /\ jobs'[i] = jobs[i]
    BY <1>1, EmptyFacts DEF IInv, TypeOK
  <1>3. evt' \in Evts /\ \A e \in Deliveries : ~InEvt("tag", e)' /\ ~InEvt("push", e)'
    BY <1>1, EvtFacts DEF InEvt
  <1>4. TypeOK'
    BY <1>1, <1>2, <1>3 DEF IInv, TypeOK
  <1>5. AllMade'
    BY <1>1, <1>2, <1>3, SameDeliveries DEF IInv, AllMade, SettleJobs, Tags
  <1>6. Tokens'
    <2>1. SUFFICES ASSUME NEW e \in Made, OwnTag(e) PROVE Token(e)' /\ Stored(e)' /\ Effect(e)'
      BY <1>1, SameDeliveries DEF Tokens
    <2>2. Token(e) /\ Stored(e) /\ Effect(e) /\ e \in Deliveries
      BY <2>1, MadeFacts DEF IInv, Tokens
    <2>3. \A i \in DOMAIN jobs' : SettlesIt(i, e)' => i \in DOMAIN jobs /\ SettlesIt(i, e)
      BY <1>2 DEF SettlesIt, SettleJobs, Tags
    <2>4. Token(e)'
      BY <1>1, <1>2, <1>3, <2>2, <2>3 DEF Token, InSettle
    <2>5. Stored(e)' /\ Effect(e)'
      BY <1>1, <2>2 DEF Stored, Effect
    <2>6. QED
      BY <2>4, <2>5
  <1>7. InFlight'
    BY <1>3 DEF InFlight
  <1>8. Sleepers' /\ Forgotten'
    BY <1>1 DEF IInv, Sleepers, Forgotten
  <1>9. QED
    BY <1>4, <1>5, <1>6, <1>7, <1>8 DEF IInv

\* A link that the broker closes keeps its messages, on a connection that counts as lost.
LEMMA OnErrorInv == ASSUME IInv, NEW r \in Receivers, OnError(r) PROVE IInv'
  <1>1. /\ evt = Idle /\ live' = live \ {r} /\ connected' = FALSE
        /\ UNCHANGED <<up, workQueue, opens, names, used, received, deliveries, pending, jobs, evt, pc, asleep,
                       made, held, asked, applied>>
    BY DEF OnError, store, history
  <1>2. TypeOK'
    BY <1>1 DEF IInv, TypeOK
  <1>3. AllMade'
    BY <1>1, AllMadeKept DEF IInv, AllMade, InEvt
  <1>4. Tokens'
    BY <1>1, TokensKept DEF InSettle, InEvt
  <1>5. InFlight'
    BY <1>1, EvtFacts DEF InFlight, InEvt
  <1>6. Sleepers' /\ Forgotten'
    BY <1>1 DEF IInv, Sleepers, Forgotten
  <1>7. QED
    BY <1>2, <1>3, <1>4, <1>5, <1>6 DEF IInv

\* The broadcast leaves nobody asleep.
LEMMA WakeReceiversInv == ASSUME IInv, WakeReceivers PROVE IInv'
  <1>1. /\ evt' = Idle /\ asleep' = {}
        /\ UNCHANGED <<connected, up, workQueue, opens, names, used, live, received, deliveries, pending, jobs, pc,
                       made, held, asked, applied>>
    BY DEF WakeReceivers, conn, store, history
  <1>2. \A e \in Deliveries : ~InEvt("tag", e)' /\ ~InEvt("push", e)'
    BY <1>1, EvtFacts DEF InEvt
  <1>3. TypeOK'
    BY <1>1, EvtFacts DEF IInv, TypeOK
  <1>4. AllMade'
    BY <1>1, <1>2, AllMadeKept DEF IInv, AllMade
  <1>5. Tokens'
    BY <1>1, <1>2, TokensKept DEF InSettle
  <1>6. InFlight'
    BY <1>2 DEF InFlight
  <1>7. Sleepers' /\ Forgotten'
    BY <1>1 DEF IInv, Sleepers, Forgotten
  <1>8. QED
    BY <1>3, <1>4, <1>5, <1>6, <1>7 DEF IInv

\* On a new connection no delivery is of the connection that is open.
LEMMA ReopenInv == ASSUME IInv, Reopen PROVE IInv'
  <1>1. /\ evt = Idle /\ up = FALSE /\ up' = TRUE /\ connected' = TRUE /\ workQueue' = TRUE
        /\ opens' = opens + 1 /\ opens' \in 1 .. MaxOpens /\ opens \in Nat \ {0} /\ opens' # 1
        /\ live' \subseteq Receivers \ used /\ names' = names \cup live' /\ used' = used \cup live'
        /\ UNCHANGED <<received, deliveries, pending, jobs, evt, pc, asleep, made, held, asked, applied>>
    BY DeliveryAssumption DEF Reopen, store, history, IInv, TypeOK
  <1>2. \A d \in Made : made[d].open <= opens /\ made[d].open \in Nat
    BY MadeFacts DEF IInv, AllMade
  <1>3. TypeOK'
    BY <1>1 DEF IInv, TypeOK
  <1>4. AllMade'
    BY <1>1, <1>2, SameDeliveries DEF IInv, AllMade, InEvt, SettleJobs, Tags
  <1>5. Tokens'
    <2>1. SUFFICES ASSUME NEW e \in Made, OwnTag(e) PROVE Token(e)' /\ Stored(e)' /\ Effect(e)'
      BY <1>1, SameDeliveries DEF Tokens
    <2>2. Token(e) /\ Stored(e) /\ Effect(e)
      BY <2>1 DEF IInv, Tokens
    <2>3. Token(e)'
      BY <1>1, <2>2 DEF Token, InSettle, InEvt, SettlesIt, SettleJobs, Tags
    <2>4. Stored(e)' /\ Effect(e)'
      BY <1>1, <1>2, <2>1, <2>2 DEF Stored, Effect
    <2>5. QED
      BY <2>3, <2>4
  <1>6. InFlight'
    BY <1>1, EvtFacts DEF InFlight, InEvt
  <1>7. Sleepers' /\ Forgotten'
    BY <1>1 DEF IInv, Sleepers, Forgotten
  <1>8. QED
    BY <1>3, <1>4, <1>5, <1>6, <1>7 DEF IInv

-----------------------------------------------------------------------------
(* The threads of the application                                          *)

\* A thread that comes to receive is awake.
LEMMA ReceiveInv == ASSUME IInv, NEW th \in Threads, NEW r \in Receivers, Receive(th, r) PROVE IInv'
  <1>1. /\ pc[th] = Idle /\ Goto(th, Receiving(r))
        /\ UNCHANGED <<connected, up, workQueue, opens, names, used, live, received, deliveries, pending, jobs, evt,
                       asleep, made, held, asked, applied>>
    BY DEF Receive, conn, store, history
  <1>2. /\ pc' \in [Threads -> PC] /\ pc'[th].at = "receive" /\ pc[th].at = "idle"
        /\ \A u \in Threads \ {th} : pc'[u] = pc[u]
    BY <1>1, PlaceFacts, GotoFacts DEF IInv
  <1>3. TypeOK'
    BY <1>1, <1>2 DEF IInv, TypeOK
  <1>4. AllMade'
    BY <1>1, <1>2, AllMadeKept DEF IInv, AllMade, InEvt
  <1>5. Tokens'
    BY <1>1, <1>2, TokensKept DEF InSettle, InEvt
  <1>6. InFlight'
    BY <1>1 DEF IInv, InFlight, InEvt
  <1>7. Sleepers' /\ Forgotten'
    <2>1. th \notin asleep
      BY <1>2 DEF IInv, Sleepers
    <2>2. QED
      BY <1>1, <1>2, <2>1 DEF IInv, TypeOK, Sleepers, Forgotten
  <1>8. QED
    BY <1>3, <1>4, <1>5, <1>6, <1>7 DEF IInv

\* A thread whose wait is over takes a message that was made, or leaves.
LEMMA ReceivedFacts ==
    ASSUME IInv, NEW th \in Threads, NEW r \in Receivers, Received(th, r), UNCHANGED made
    PROVE  /\ Goto(th, Idle)
           /\ received' \in [Receivers -> Seq(Deliveries)] /\ held' \subseteq Made /\ held' \subseteq Deliveries
           /\ \A other \in Receivers : \A i \in DOMAIN received'[other] : received'[other][i] \in Made
           /\ \A other \in Receivers : received[other] = <<>> => received'[other] = <<>>
  <1>1. received \in [Receivers -> Seq(Deliveries)] /\ received[r] \in Seq(Deliveries) /\ Made \subseteq Deliveries
    BY DEF IInv, TypeOK, Made
  <1>2. CASE received[r] = <<>>
    BY <1>1, <1>2 DEF Received, IInv, AllMade
  <1>3. CASE received[r] # <<>>
    <2>1. received' = [received EXCEPT ![r] = Tail(received[r])] /\ held' = held \cup {Head(received[r])}
      BY <1>3 DEF Received
    <2>2. /\ Tail(received[r]) \in Seq(Deliveries) /\ Head(received[r]) \in Made
          /\ \A i \in DOMAIN Tail(received[r]) : Tail(received[r])[i] \in Made
      BY <1>1, <1>3, QueueFacts DEF IInv, AllMade
    <2>3. /\ received' \in [Receivers -> Seq(Deliveries)] /\ received'[r] = Tail(received[r])
          /\ \A other \in Receivers \ {r} : received'[other] = received[other]
      BY <1>1, <2>1, <2>2
    <2>4. \A other \in Receivers : received[other] = <<>> => received'[other] = <<>>
      BY <1>3, <2>3
    <2>5. \A other \in Receivers : \A i \in DOMAIN received'[other] : received'[other][i] \in Made
      BY <2>2, <2>3 DEF IInv, AllMade
    <2>6. held' \subseteq Made
      BY <2>1, <2>2 DEF IInv, AllMade
    <2>7. QED
      BY <1>1, <2>3, <2>4, <2>5, <2>6 DEF Received
  <1>4. QED
    BY <1>2, <1>3

\* A thread falls asleep only after a test that found no message on a connection that is up.
LEMMA TestReceiveInv == ASSUME IInv, NEW th \in Threads, NEW r \in Receivers, TestReceive(th, r) PROVE IInv'
  <1>1. /\ pc[th] = Receiving(r) /\ th \notin asleep
        /\ UNCHANGED <<connected, up, workQueue, opens, names, used, live, deliveries, pending, jobs, evt,
                       made, asked, applied>>
    BY DEF TestReceive, conn
  <1>2. /\ pc' \in [Threads -> PC] /\ pc'[th].at # "settle" /\ pc[th].at = "receive"
        /\ \A u \in Threads \ {th} : pc'[u] = pc[u]
    <2>1. pc[th].at = "receive" /\ pc \in [Threads -> PC]
      BY <1>1, PCFacts DEF IInv, TypeOK
    <2>2. CASE UNCHANGED pc
      BY <2>1, <2>2
    <2>3. CASE Received(th, r)
      BY <1>1, <2>1, <2>3, ReceivedFacts, GotoFacts, PlaceFacts DEF IInv
    <2>4. QED
      BY <2>2, <2>3 DEF TestReceive
  <1>3. /\ received' \in [Receivers -> Seq(Deliveries)] /\ held' \subseteq Made /\ held' \subseteq Deliveries
        /\ \A other \in Receivers : \A i \in DOMAIN received'[other] : received'[other][i] \in Made
        /\ \A other \in Receivers : received[other] = <<>> => received'[other] = <<>>
        /\ asleep' \subseteq Threads
    <2>1. CASE Received(th, r) /\ UNCHANGED asleep
      BY <1>1, <2>1, ReceivedFacts DEF IInv, TypeOK
    <2>2. CASE UNCHANGED <<held, received>> /\ asleep' = asleep \cup {th}
      BY <2>2 DEF IInv, TypeOK, AllMade, Made
    <2>3. QED
      BY <2>1, <2>2 DEF TestReceive
  <1>4. TypeOK'
    BY <1>1, <1>2, <1>3 DEF IInv, TypeOK
  <1>5. AllMade'
    BY <1>1, <1>2, <1>3, AllMadeKept DEF IInv, AllMade, InEvt
  <1>6. Tokens'
    BY <1>1, <1>2, TokensKept DEF InSettle, InEvt
  <1>7. InFlight'
    BY <1>1 DEF IInv, InFlight, InEvt
  <1>8. Sleepers' /\ Forgotten'
    <2>1. \A u \in asleep : u # th /\ u \in Threads /\ pc'[u] = pc[u] /\ pc[u].receiver \in Receivers
      BY <1>1, <1>2, PCFacts DEF IInv, TypeOK, Sleepers
    <2>2. \A u \in asleep : /\ pc'[u].at = "receive" /\ received'[pc'[u].receiver] = <<>>
                            /\ up' \/ evt' = [at |-> "lost"]
      BY <1>1, <1>3, <2>1 DEF IInv, Sleepers
    <2>3. \A u \in asleep' \ asleep : /\ pc'[u].at = "receive" /\ received'[pc'[u].receiver] = <<>> /\ up'
      <3>0. SUFFICES ASSUME NEW u \in asleep' \ asleep
                     PROVE  pc'[u].at = "receive" /\ received'[pc'[u].receiver] = <<>> /\ up'
        OBVIOUS
      <3>1. /\ asleep' = asleep \cup {th} /\ UNCHANGED pc /\ UNCHANGED received /\ received[r] = <<>> /\ connected
        BY <3>0 DEF TestReceive
      <3>2. pc[th].receiver = r /\ up
        BY <1>1, <3>1, PCFacts DEF IInv, Sleepers
      <3>3. QED
        BY <1>1, <1>2, <3>0, <3>1, <3>2
    <2>4. Sleepers'
      BY <1>1, <2>2, <2>3 DEF IInv, Sleepers
    <2>5. Forgotten'
      BY <1>1, <1>3 DEF IInv, Forgotten
    <2>6. QED
      BY <2>4, <2>5
  <1>9. QED
    BY <1>4, <1>5, <1>6, <1>7, <1>8 DEF IInv

\* A thread whose wait times out is awake, and takes a message if there is one after all.
LEMMA ReceiveTimeOutInv == ASSUME IInv, NEW th \in Threads, NEW r \in Receivers, ReceiveTimeOut(th, r) PROVE IInv'
  <1>1. /\ pc[th] = Receiving(r) /\ asleep' = asleep \ {th}
        /\ UNCHANGED <<connected, up, workQueue, opens, names, used, live, deliveries, pending, jobs, evt,
                       made, asked, applied>>
    BY DEF ReceiveTimeOut, conn
  <1>2. /\ pc' \in [Threads -> PC] /\ pc'[th].at # "settle" /\ pc[th].at = "receive"
        /\ \A u \in Threads \ {th} : pc'[u] = pc[u]
    <2>1. pc[th].at = "receive"
      BY <1>1, PCFacts DEF IInv
    <2>2. Goto(th, Idle)
      BY <1>1, ReceivedFacts DEF ReceiveTimeOut
    <2>3. QED
      BY <2>1, <2>2, GotoFacts, PlaceFacts DEF IInv
  <1>3. /\ received' \in [Receivers -> Seq(Deliveries)] /\ held' \subseteq Made /\ held' \subseteq Deliveries
        /\ \A other \in Receivers : \A i \in DOMAIN received'[other] : received'[other][i] \in Made
        /\ \A other \in Receivers : received[other] = <<>> => received'[other] = <<>>
        /\ asleep' \subseteq Threads
    <2>1. CASE Received(th, r)
      BY <1>1, <2>1, ReceivedFacts DEF IInv, TypeOK
    <2>2. CASE UNCHANGED <<held, received>>
      BY <1>1, <2>2 DEF IInv, TypeOK, AllMade, Made
    <2>3. QED
      BY <2>1, <2>2 DEF ReceiveTimeOut
  <1>4. TypeOK'
    BY <1>1, <1>2, <1>3 DEF IInv, TypeOK
  <1>5. AllMade'
    BY <1>1, <1>2, <1>3, AllMadeKept DEF IInv, AllMade, InEvt
  <1>6. Tokens'
    BY <1>1, <1>2, TokensKept DEF InSettle, InEvt
  <1>7. InFlight'
    BY <1>1 DEF IInv, InFlight, InEvt
  <1>8. Sleepers' /\ Forgotten'
    <2>1. \A u \in asleep' : u \in asleep /\ u \in Threads /\ pc'[u] = pc[u] /\ pc[u].receiver \in Receivers
      BY <1>1, <1>2, PCFacts DEF IInv, TypeOK, Sleepers
    <2>2. Sleepers'
      BY <1>1, <1>3, <2>1 DEF IInv, Sleepers
    <2>3. Forgotten'
      BY <1>1, <1>3 DEF IInv, Forgotten
    <2>4. QED
      BY <2>2, <2>3
  <1>9. QED
    BY <1>4, <1>5, <1>6, <1>7, <1>8 DEF IInv

\* A thread that is cancelled leaves the messages where they are.
LEMMA CancelReceiveInv == ASSUME IInv, NEW th \in Threads, NEW r \in Receivers, CancelReceive(th, r) PROVE IInv'
  <1>1. /\ pc[th] = Receiving(r) /\ asleep' = asleep \ {th} /\ Goto(th, Idle)
        /\ UNCHANGED <<connected, up, workQueue, opens, names, used, live, received, deliveries, pending, jobs, evt,
                       made, held, asked, applied>>
    BY DEF CancelReceive, conn, store, history
  <1>2. /\ pc' \in [Threads -> PC] /\ pc'[th].at # "settle" /\ pc[th].at = "receive"
        /\ \A u \in Threads \ {th} : pc'[u] = pc[u]
    BY <1>1, PCFacts, GotoFacts, PlaceFacts DEF IInv
  <1>3. TypeOK'
    BY <1>1, <1>2 DEF IInv, TypeOK
  <1>4. AllMade'
    BY <1>1, <1>2, AllMadeKept DEF IInv, AllMade, InEvt
  <1>5. Tokens'
    BY <1>1, <1>2, TokensKept DEF InSettle, InEvt
  <1>6. InFlight'
    BY <1>1 DEF IInv, InFlight, InEvt
  <1>7. Sleepers' /\ Forgotten'
    BY <1>1, <1>2 DEF IInv, TypeOK, Sleepers, Forgotten
  <1>8. QED
    BY <1>3, <1>4, <1>5, <1>6, <1>7 DEF IInv

\* A call that finds the tag of a delivery takes it from everybody else.
LEMMA SettleInv ==
    ASSUME IInv, NEW th \in Threads, NEW d \in Deliveries, NEW disp \in Dispositions, Settle(th, d, disp)
    PROVE  IInv'
  <1>1. /\ pc[th] = Idle /\ d \in held /\ made[d].tag \in pending /\ pending' = pending \ {made[d].tag}
        /\ Goto(th, Settling(d, disp))
        /\ UNCHANGED <<connected, up, workQueue, opens, names, used, live, received, deliveries, jobs, evt, asleep,
                       made, held, asked, applied>>
    BY DEF Settle, conn, history
  <1>2. /\ pc' \in [Threads -> PC] /\ pc'[th].at = "settle" /\ pc'[th].delivery = d /\ pc[th].at = "idle"
        /\ \A u \in Threads \ {th} : pc'[u] = pc[u]
    BY <1>1, PlaceFacts, GotoFacts DEF IInv
  <1>3. d \in Made /\ made[d].tag \in Tags
    BY <1>1, MadeFacts DEF IInv, AllMade
  <1>4. TypeOK'
    BY <1>1, <1>2 DEF IInv, TypeOK
  <1>5. AllMade'
    <2>1. \A u \in Threads : pc'[u].at = "settle" => pc'[u].delivery \in Made
      BY <1>2, <1>3 DEF IInv, AllMade
    <2>2. QED
      BY <1>1, <2>1, SameDeliveries DEF IInv, AllMade, InEvt, SettleJobs, Tags
  <1>6. Tokens'
    <2>1. SUFFICES ASSUME NEW e \in Made, OwnTag(e) PROVE Token(e)' /\ Stored(e)' /\ Effect(e)'
      BY <1>1, SameDeliveries DEF Tokens
    <2>2. Token(e) /\ Stored(e) /\ Effect(e)
      BY <2>1 DEF IInv, Tokens
    <2>3. Stored(e)' /\ Effect(e)'
      BY <1>1, <2>2 DEF Stored, Effect, SettlesIt, SettleJobs, Tags
    <2>4. CASE e = d
      <3>1. (\A u \in Threads : ~InSettle(u, d)) /\ asked[d] = <<>> /\ ~InEvt("tag", d)
        BY <1>1, <2>2, <2>4 DEF Token
      <3>2. \A i \in DOMAIN jobs : ~SettlesIt(i, d)
        BY <2>2, <2>4, <3>1, EmptyFacts DEF Token
      <3>3. \A u \in Threads : InSettle(u, d)' => u = th
        BY <1>2, <3>1 DEF InSettle
      <3>4. QED
        BY <1>1, <2>3, <2>4, <3>1, <3>2, <3>3 DEF Token, SettlesIt, SettleJobs, Tags, InEvt
    <2>5. CASE e # d
      <3>1. made[e].tag # made[d].tag
        BY <1>3, <2>1, <2>5 DEF OwnTag
      <3>2. \A u \in Threads : InSettle(u, e)' <=> InSettle(u, e)
        BY <1>2, <2>5 DEF InSettle
      <3>3. QED
        BY <1>1, <2>2, <2>3, <3>1, <3>2 DEF Token, SettlesIt, SettleJobs, Tags, InEvt
    <2>6. QED
      BY <2>4, <2>5
  <1>7. InFlight'
    BY <1>1 DEF IInv, InFlight, InEvt
  <1>8. Sleepers' /\ Forgotten'
    <2>1. th \notin asleep
      BY <1>2 DEF IInv, Sleepers
    <2>2. QED
      BY <1>1, <1>2, <2>1 DEF IInv, TypeOK, Sleepers, Forgotten
  <1>9. QED
    BY <1>4, <1>5, <1>6, <1>7, <1>8 DEF IInv

\* The call that has the tag schedules the only job for it, or gives up.
LEMMA ScheduleSettleInv ==
    ASSUME IInv, NEW th \in Threads, NEW d \in Deliveries, NEW disp \in Dispositions, ScheduleSettle(th, d, disp)
    PROVE  IInv'
  <1>1. /\ pc[th] = Settling(d, disp) /\ Goto(th, Idle)
        /\ UNCHANGED <<connected, up, workQueue, opens, names, used, live, received, deliveries, pending, evt, asleep,
                       made, held, applied>>
    BY DEF ScheduleSettle, conn, store
  <1>2. /\ pc' \in [Threads -> PC] /\ pc'[th].at = "idle" /\ pc[th].at = "settle" /\ pc[th].delivery = d
        /\ \A u \in Threads \ {th} : pc'[u] = pc[u]
    BY <1>1, PlaceFacts, GotoFacts DEF IInv
  <1>3. /\ d \in Made
        /\ SettleJob(d, disp) \in SettleJobs /\ SettleJob(d, disp).delivery = d
        /\ SettleJob(d, disp).tag = made[d].tag /\ SettleJob(d, disp).disp = disp
    <2>1. d \in Made
      BY <1>2 DEF IInv, AllMade
    <2>2. made[d].tag \in Tags
      BY <2>1, MadeFacts DEF IInv
    <2>3. QED
      BY <2>1, <2>2 DEF SettleJob, SettleJobs
  <1>4. /\ jobs \in Seq(SettleJobs \cup CloseJobs) /\ DOMAIN jobs = 1 .. Len(jobs) /\ Len(jobs) \in Nat
        /\ asked \in [Deliveries -> Seq(Dispositions)]
    <2>1. jobs \in Seq(SettleJobs \cup CloseJobs) /\ asked \in [Deliveries -> Seq(Dispositions)]
      BY DEF IInv, TypeOK
    <2>2. QED
      BY <2>1, QueueFacts
  <1>5. CASE ~workQueue
    <2>1. UNCHANGED <<jobs, asked>>
      BY <1>5 DEF ScheduleSettle
    <2>2. TypeOK'
      BY <1>1, <1>2, <2>1 DEF IInv, TypeOK
    <2>3. AllMade'
      BY <1>1, <1>2, <2>1, AllMadeKept DEF IInv, AllMade, InEvt
    <2>4. Tokens'
      <3>1. SUFFICES ASSUME NEW e \in Made, OwnTag(e) PROVE Token(e)' /\ Stored(e)' /\ Effect(e)'
        BY <1>1, SameDeliveries DEF Tokens
      <3>2. Token(e) /\ Stored(e) /\ Effect(e)
        BY <3>1 DEF IInv, Tokens
      <3>3. \A u \in Threads : InSettle(u, e)' => InSettle(u, e)
        BY <1>2 DEF InSettle
      <3>4. Token(e)'
        BY <1>1, <2>1, <3>2, <3>3 DEF Token, SettlesIt, SettleJobs, Tags, InEvt
      <3>5. Stored(e)' /\ Effect(e)'
        BY <1>1, <2>1, <3>2 DEF Stored, Effect, SettlesIt, SettleJobs, Tags
      <3>6. QED
        BY <3>4, <3>5
    <2>5. InFlight' /\ Sleepers' /\ Forgotten'
      <3>1. th \notin asleep
        BY <1>2 DEF IInv, Sleepers
      <3>2. QED
        BY <1>1, <1>2, <3>1 DEF IInv, TypeOK, InFlight, InEvt, Sleepers, Forgotten
    <2>6. QED
      BY <2>2, <2>3, <2>4, <2>5 DEF IInv
  <1>6. CASE workQueue
    <2> DEFINE job == SettleJob(d, disp)
    <2>1. jobs' = Append(jobs, job) /\ asked' = [asked EXCEPT ![d] = Append(@, disp)]
      BY <1>6 DEF ScheduleSettle
    <2>2. PICK n \in Nat : n = Len(jobs) + 1
      BY <1>4
    <2>3. /\ jobs' \in Seq(SettleJobs \cup CloseJobs) /\ DOMAIN jobs' = 1 .. n /\ n \notin DOMAIN jobs
          /\ jobs'[n] = job /\ \A i \in DOMAIN jobs : jobs'[i] = jobs[i]
      <3>1. job \in SettleJobs \cup CloseJobs
        BY <1>3
      <3> HIDE DEF job
      <3>2. QED
        BY <1>4, <2>2, <2>1, <3>1, QueueFacts
    <2>4. /\ asked' \in [Deliveries -> Seq(Dispositions)] /\ asked'[d] = Append(asked[d], disp)
          /\ \A e \in Deliveries \ {d} : asked'[e] = asked[e]
      BY <1>4, <2>1, QueueFacts
    <2>5. TypeOK'
      BY <1>1, <1>2, <2>3, <2>4 DEF IInv, TypeOK
    <2>6. AllMade'
      <3>1. \A u \in Threads : pc'[u].at = "settle" => pc'[u].delivery \in Made
        BY <1>2 DEF IInv, AllMade
      <3>2. \A i \in DOMAIN jobs' : jobs'[i] \in SettleJobs =>
              jobs'[i].delivery \in Made /\ jobs'[i].tag = made[jobs'[i].delivery].tag
        <4>1. SUFFICES ASSUME NEW i \in DOMAIN jobs', jobs'[i] \in SettleJobs
                       PROVE  jobs'[i].delivery \in Made /\ jobs'[i].tag = made[jobs'[i].delivery].tag
          OBVIOUS
        <4>2. CASE i = n
          BY <1>3, <2>3, <4>2
        <4>3. CASE i # n
          <5>1. i \in DOMAIN jobs /\ jobs'[i] = jobs[i]
            BY <1>4, <2>2, <2>3, <4>3
          <5>2. QED
            BY <4>1, <5>1 DEF IInv, AllMade
        <4>4. QED
          BY <4>2, <4>3
      <3>3. \A e \in Deliveries : asked'[e] # <<>> => e \in Made
        BY <1>3, <2>4 DEF IInv, AllMade
      <3>4. QED
        BY <1>1, <3>1, <3>2, <3>3, SameDeliveries DEF IInv, AllMade, InEvt, SettleJobs, Tags
    <2>7. Tokens'
      <3>1. SUFFICES ASSUME NEW e \in Made, OwnTag(e) PROVE Token(e)' /\ Stored(e)' /\ Effect(e)'
        BY <1>1, SameDeliveries DEF Tokens
      <3>2. Token(e) /\ Stored(e) /\ Effect(e) /\ e \in Deliveries
        BY <3>1, MadeFacts DEF IInv, Tokens
      <3>3. \A i \in DOMAIN jobs : i \in DOMAIN jobs' /\ (SettlesIt(i, e)' <=> SettlesIt(i, e))
        BY <1>4, <2>2, <2>3 DEF SettlesIt, SettleJobs, Tags
      <3>4. CASE e = d
        <4>1. /\ asked[d] = <<>> /\ made[d].tag \notin pending /\ ~InEvt("tag", d) /\ applied[d] = <<>>
              /\ \A u \in Threads : InSettle(u, d) => u = th
          BY <1>2, <3>2, <3>4, EmptyFacts DEF Token, Effect, InSettle
        <4>2. asked'[d] = <<disp>> /\ Len(asked'[d]) = 1
          BY <2>4, <4>1, EmptyFacts
        <4>3. \A u \in Threads : ~InSettle(u, d)'
          BY <1>2, <4>1 DEF InSettle
        <4>4. \A i \in DOMAIN jobs : ~SettlesIt(i, d)
          BY <3>2, <3>4, <4>1, EmptyFacts DEF Token
        <4>5. /\ \A i \in DOMAIN jobs' : SettlesIt(i, d)' => i = n
              /\ n \in DOMAIN jobs' /\ SettlesIt(n, d)'
          <5>1. DOMAIN jobs' = DOMAIN jobs \cup {n}
            BY <1>4, <2>2, <2>3
          <5>2. SettlesIt(n, d)'
            BY <1>3, <2>3 DEF SettlesIt, SettleJobs, Tags
          <5>3. QED
            BY <3>3, <3>4, <4>4, <5>1, <5>2
        <4>6. Token(d)'
          <5>1. \A i \in DOMAIN jobs' : SettlesIt(i, d)' =>
                  asked'[d] = <<jobs'[i].disp>> /\ \A j \in DOMAIN jobs' : SettlesIt(j, d)' => j = i
            BY <1>3, <2>3, <4>2, <4>5
          <5>2. QED
            BY <1>1, <4>1, <4>2, <4>3, <5>1 DEF Token, InEvt
        <4>7. Stored(d)' /\ Effect(d)'
          BY <1>1, <3>2, <3>4, <4>1, <4>5 DEF Stored, Effect
        <4>8. QED
          BY <3>4, <4>6, <4>7
      <3>5. CASE e # d
        <4>1. asked'[e] = asked[e] /\ \A u \in Threads : InSettle(u, e)' => InSettle(u, e)
          BY <1>2, <2>4, <3>2, <3>5 DEF InSettle
        <4>2. \A i \in DOMAIN jobs' : SettlesIt(i, e)' => i \in DOMAIN jobs /\ jobs'[i] = jobs[i]
          <5>1. DOMAIN jobs' = DOMAIN jobs \cup {n}
            BY <1>4, <2>2, <2>3
          <5>2. ~SettlesIt(n, e)'
            BY <1>3, <2>3, <3>5 DEF SettlesIt, SettleJobs, Tags
          <5>3. QED
            BY <2>3, <5>1, <5>2
        <4>3. Token(e)'
          <5>1. \A i \in DOMAIN jobs' : SettlesIt(i, e)' =>
                  /\ asked[e] = <<jobs'[i].disp>> /\ applied[e] = <<>>
                  /\ \A j \in DOMAIN jobs' : SettlesIt(j, e)' => j = i
            BY <3>2, <3>3, <4>2 DEF Token
          <5>2. QED
            BY <1>1, <3>2, <4>1, <5>1 DEF Token, InEvt
        <4>4. Stored(e)' /\ Effect(e)'
          BY <1>1, <3>2, <3>3, <4>1 DEF Stored, Effect
        <4>5. QED
          BY <4>3, <4>4
      <3>6. QED
        BY <3>4, <3>5
    <2>8. InFlight' /\ Sleepers' /\ Forgotten'
      <3>1. th \notin asleep
        BY <1>2 DEF IInv, Sleepers
      <3>2. QED
        BY <1>1, <1>2, <3>1 DEF IInv, TypeOK, InFlight, InEvt, Sleepers, Forgotten
    <2>9. QED
      BY <2>5, <2>6, <2>7, <2>8 DEF IInv
  <1>7. TypeOK' /\ AllMade' /\ Tokens' /\ InFlight' /\ Sleepers' /\ Forgotten'
    BY <1>5, <1>6 DEF IInv
  <1>8. QED
    BY <1>7 DEF IInv

\* A receiver whose name is gone is still attached.
LEMMA CloseReceiverInv == ASSUME IInv, NEW th \in Threads, NEW r \in Receivers, CloseReceiver(th, r) PROVE IInv'
  <1>1. /\ pc[th] = Idle /\ Goto(th, Closing(r, "forget")) /\ names' = names \ {r}
        /\ UNCHANGED <<connected, up, workQueue, opens, used, live, received, deliveries, pending, jobs, evt, asleep,
                       made, held, asked, applied>>
    BY DEF CloseReceiver, store, history
  <1>2. /\ pc' \in [Threads -> PC] /\ pc'[th].at = "forget" /\ pc[th].at = "idle"
        /\ \A u \in Threads \ {th} : pc'[u] = pc[u]
    BY <1>1, PlaceFacts, GotoFacts DEF IInv
  <1>3. TypeOK'
    BY <1>1, <1>2 DEF IInv, TypeOK
  <1>4. AllMade'
    BY <1>1, <1>2, AllMadeKept DEF IInv, AllMade, InEvt
  <1>5. Tokens'
    BY <1>1, <1>2, TokensKept DEF InSettle, InEvt
  <1>6. InFlight'
    BY <1>1 DEF IInv, InFlight, InEvt
  <1>7. Sleepers' /\ Forgotten'
    <2>1. th \notin asleep
      BY <1>2 DEF IInv, Sleepers
    <2>2. QED
      BY <1>1, <1>2, <2>1 DEF IInv, TypeOK, Sleepers, Forgotten
  <1>8. QED
    BY <1>3, <1>4, <1>5, <1>6, <1>7 DEF IInv

\* Messages that are forgotten leave the receiver with none.
LEMMA ForgetMessagesInv == ASSUME IInv, NEW th \in Threads, NEW r \in Receivers, ForgetMessages(th, r) PROVE IInv'
  <1>1. /\ pc[th] = Closing(r, "forget") /\ Goto(th, Closing(r, "close"))
        /\ received' = [received EXCEPT ![r] = <<>>]
        /\ UNCHANGED <<connected, up, workQueue, opens, names, used, live, deliveries, pending, jobs, evt, asleep,
                       made, held, asked, applied>>
    BY DEF ForgetMessages, conn, history
  <1>2. /\ pc' \in [Threads -> PC] /\ pc'[th].at = "close" /\ pc[th].at = "forget"
        /\ \A u \in Threads \ {th} : pc'[u] = pc[u]
    BY <1>1, PlaceFacts, GotoFacts DEF IInv
  <1>3. /\ received' \in [Receivers -> Seq(Deliveries)]
        /\ \A other \in Receivers : received'[other] \in {received[other], <<>>}
    BY <1>1, EmptyFacts DEF IInv, TypeOK
  <1>4. TypeOK'
    BY <1>1, <1>2, <1>3 DEF IInv, TypeOK
  <1>5. AllMade'
    <2>1. \A other \in Receivers : \A i \in DOMAIN received'[other] : received'[other][i] \in Made
      BY <1>3, EmptyFacts DEF IInv, AllMade
    <2>2. QED
      BY <1>1, <1>2, <2>1, AllMadeKept DEF IInv, AllMade, InEvt
  <1>6. Tokens'
    BY <1>1, <1>2, TokensKept DEF InSettle, InEvt
  <1>7. InFlight'
    BY <1>1 DEF IInv, InFlight, InEvt
  <1>8. Sleepers' /\ Forgotten'
    <2>1. \A u \in asleep : u # th /\ pc[u].receiver \in Receivers /\ pc'[u] = pc[u]
      BY <1>2, PCFacts DEF IInv, TypeOK, Sleepers
    <2>2. QED
      BY <1>1, <1>3, <2>1 DEF IInv, Sleepers, Forgotten
  <1>9. QED
    BY <1>4, <1>5, <1>6, <1>7, <1>8 DEF IInv

\* The job that closes a link settles nothing.
LEMMA ScheduleCloseInv == ASSUME IInv, NEW th \in Threads, NEW r \in Receivers, ScheduleClose(th, r) PROVE IInv'
  <1>1. /\ pc[th] = Closing(r, "close") /\ Goto(th, Idle)
        /\ jobs' = IF workQueue THEN Append(jobs, CloseJob(r)) ELSE jobs
        /\ UNCHANGED <<connected, up, workQueue, opens, names, used, live, received, deliveries, pending, evt, asleep,
                       made, held, asked, applied>>
    BY DEF ScheduleClose, conn, store, history
  <1>2. /\ pc' \in [Threads -> PC] /\ pc'[th].at = "idle" /\ pc[th].at = "close"
        /\ \A u \in Threads \ {th} : pc'[u] = pc[u]
    BY <1>1, PlaceFacts, GotoFacts DEF IInv
  <1>3. /\ jobs \in Seq(SettleJobs \cup CloseJobs) /\ jobs' \in Seq(SettleJobs \cup CloseJobs)
        /\ DOMAIN jobs \subseteq DOMAIN jobs'
        /\ \A i \in DOMAIN jobs : jobs'[i] = jobs[i]
        /\ \A i \in DOMAIN jobs' : jobs'[i] \in SettleJobs => i \in DOMAIN jobs
    <2>1. jobs \in Seq(SettleJobs \cup CloseJobs)
      BY DEF IInv, TypeOK
    <2>2. CASE ~workQueue
      BY <1>1, <2>1, <2>2
    <2>3. CASE workQueue
      <3> DEFINE job == CloseJob(r)
      <3>1. job \in CloseJobs /\ job \in SettleJobs \cup CloseJobs /\ job \notin SettleJobs
        <4>1. job \in CloseJobs
          BY DEF CloseJob, CloseJobs
        <4>2. QED
          BY <4>1, JobFacts
      <3>2. jobs' = Append(jobs, job)
        BY <1>1, <2>3
      <3> HIDE DEF job
      <3>3. /\ jobs' \in Seq(SettleJobs \cup CloseJobs) /\ DOMAIN jobs' = 1 .. Len(jobs) + 1
            /\ jobs'[Len(jobs) + 1] = job /\ \A i \in DOMAIN jobs : jobs'[i] = jobs[i]
            /\ DOMAIN jobs = 1 .. Len(jobs) /\ Len(jobs) \in Nat
        BY <2>1, <3>1, <3>2, QueueFacts
      <3>4. DOMAIN jobs' = DOMAIN jobs \cup {Len(jobs) + 1}
        BY <3>3
      <3>5. QED
        BY <2>1, <3>1, <3>3, <3>4
    <2>4. QED
      BY <2>2, <2>3
  <1>4. TypeOK'
    BY <1>1, <1>2, <1>3 DEF IInv, TypeOK
  <1>5. AllMade'
    <2>1. \A u \in Threads : pc'[u].at = "settle" => pc'[u].delivery \in Made
      BY <1>2 DEF IInv, AllMade
    <2>2. \A i \in DOMAIN jobs' : jobs'[i] \in SettleJobs =>
            jobs'[i].delivery \in Made /\ jobs'[i].tag = made[jobs'[i].delivery].tag
      BY <1>3 DEF IInv, AllMade
    <2>3. QED
      BY <1>1, <2>1, <2>2, SameDeliveries DEF IInv, AllMade, InEvt, SettleJobs, Tags
  <1>6. Tokens'
    <2>1. SUFFICES ASSUME NEW e \in Made, OwnTag(e) PROVE Token(e)' /\ Stored(e)' /\ Effect(e)'
      BY <1>1, SameDeliveries DEF Tokens
    <2>2. Token(e) /\ Stored(e) /\ Effect(e)
      BY <2>1 DEF IInv, Tokens
    <2>3. /\ \A i \in DOMAIN jobs : i \in DOMAIN jobs' /\ (SettlesIt(i, e)' <=> SettlesIt(i, e)) /\ jobs'[i] = jobs[i]
          /\ \A i \in DOMAIN jobs' : SettlesIt(i, e)' => i \in DOMAIN jobs
      BY <1>3 DEF SettlesIt, SettleJobs, Tags
    <2>4. \A u \in Threads : InSettle(u, e)' <=> InSettle(u, e)
      BY <1>2 DEF InSettle
    <2>5. Token(e)'
      BY <1>1, <2>2, <2>3, <2>4 DEF Token, InEvt
    <2>6. Stored(e)' /\ Effect(e)'
      BY <1>1, <2>2, <2>3 DEF Stored, Effect
    <2>7. QED
      BY <2>5, <2>6
  <1>7. InFlight'
    BY <1>1 DEF IInv, InFlight, InEvt
  <1>8. Sleepers' /\ Forgotten'
    <2>1. th \notin asleep
      BY <1>2 DEF IInv, Sleepers
    <2>2. QED
      BY <1>1, <1>2, <2>1 DEF IInv, TypeOK, Sleepers, Forgotten
  <1>9. QED
    BY <1>4, <1>5, <1>6, <1>7, <1>8 DEF IInv

-----------------------------------------------------------------------------
(* The invariants                                                          *)

\* A step that changes nothing keeps what was so.
LEMMA StutterInv == ASSUME IInv, UNCHANGED vars PROVE IInv'
  <1>1. UNCHANGED <<connected, up, workQueue, opens, names, used, live, received, deliveries, pending, jobs, evt, pc,
                    asleep, made, held, asked, applied>>
    BY DEF vars, conn, store, history
  <1>2. TypeOK'
    BY <1>1 DEF IInv, TypeOK
  <1>3. AllMade'
    BY <1>1, AllMadeKept DEF IInv, AllMade, InEvt
  <1>4. Tokens'
    BY <1>1, TokensKept DEF InSettle, InEvt
  <1>5. InFlight' /\ Sleepers' /\ Forgotten'
    BY <1>1 DEF IInv, InFlight, InEvt, Sleepers, Forgotten
  <1>6. QED
    BY <1>2, <1>3, <1>4, <1>5 DEF IInv

\* Whatever happens next, the invariant is kept.
LEMMA StepInv == IInv /\ [Next]_vars => IInv'
  <1>1. SUFFICES ASSUME IInv, [Next]_vars PROVE IInv'
    OBVIOUS
  <1>2. CASE UNCHANGED vars
    BY <1>1, <1>2, StutterInv
  <1>3. ASSUME NEW d \in Deliveries, StoreTag(d) \/ Push(d) PROVE IInv'
    BY <1>1, <1>3, StoreTagInv, PushInv
  <1>4. ASSUME NEW r \in Receivers, OnMessage(r) \/ OnError(r) PROVE IInv'
    BY <1>1, <1>4, OnMessageInv, OnErrorInv
  <1>5. CASE RunSettle \/ RunClose \/ Lose \/ WakeReceivers \/ Reopen
    BY <1>1, <1>5, RunSettleInv, RunCloseInv, LoseInv, WakeReceiversInv, ReopenInv
  <1>6. ASSUME NEW th \in Threads, Thread(th) PROVE IInv'
    <2>1. ASSUME NEW r \in Receivers,
                 \/ Receive(th, r) \/ TestReceive(th, r) \/ ReceiveTimeOut(th, r) \/ CancelReceive(th, r)
                 \/ CloseReceiver(th, r) \/ ForgetMessages(th, r) \/ ScheduleClose(th, r)
          PROVE  IInv'
      BY <1>1, <2>1, ReceiveInv, TestReceiveInv, ReceiveTimeOutInv, CancelReceiveInv, CloseReceiverInv,
         ForgetMessagesInv, ScheduleCloseInv
    <2>2. ASSUME NEW d \in Deliveries, NEW disp \in Dispositions, Settle(th, d, disp) \/ ScheduleSettle(th, d, disp)
          PROVE  IInv'
      BY <1>1, <2>2, SettleInv, ScheduleSettleInv
    <2>3. QED
      BY <1>6, <2>1, <2>2 DEF Thread
  <1>7. QED
    BY <1>1, <1>2, <1>3, <1>4, <1>5, <1>6 DEF Next, EventThread

\* The invariant holds whatever the program and the broker do.
LEMMA Invariant == Spec => []IInv
  <1>1. Init => IInv
    BY InitInv
  <1>2. IInv /\ [Next]_vars => IInv'
    BY StepInv
  <1>3. QED
    BY <1>1, <1>2, PTL DEF Spec

\* Every variable keeps its type: a tag or a job never names a delivery that was not made.
THEOREM TypeCorrect == Spec => []TypeOK
  <1>1. IInv => TypeOK
    BY DEF IInv
  <1>2. QED
    BY <1>1, Invariant, PTL

\* Of the calls that settle a delivery with a tag of its own only one succeeds, and its disposition is applied to that
\* delivery once, for any number of threads, deliveries and connections.
THEOREM SettlesAsAsked == Spec => []SettledAsAsked
  <1>1. IInv => SettledAsAsked
    <2>1. SUFFICES ASSUME IInv, NEW d \in Made, OwnTag(d)
                   PROVE  Len(asked[d]) <= 1 /\ applied[d] \in {<<>>, asked[d]}
      BY DEF SettledAsAsked
    <2>2. Token(d) /\ Effect(d) /\ d \in Deliveries /\ asked[d] \in Seq(Dispositions)
      BY <2>1, MadeFacts DEF IInv, Tokens, TypeOK
    <2>3. applied[d] \in {<<>>, asked[d]}
      BY <2>2 DEF Effect
    <2>4. asked[d] = <<>> => Len(asked[d]) = 0
      OBVIOUS
    <2>5. asked[d] # <<>> => Len(asked[d]) = 1
      BY <2>2 DEF Token
    <2>6. \A n : n = 0 \/ n = 1 => n <= 1
      OBVIOUS
    <2>7. QED
      BY <2>3, <2>4, <2>5, <2>6, Zenon
  <1>2. QED
    BY <1>1, Invariant, PTL

\* A disposition that was accepted from its caller is applied or queued, unless the connection was lost.
THEOREM SuccessIsNeverDropped == Spec => []SuccessTakesEffect
  <1>1. IInv => SuccessTakesEffect
    <2>1. SUFFICES ASSUME IInv, NEW d \in Deliveries, asked[d] # <<>>, OwnTag(d)
                   PROVE  \/ applied[d] # <<>>
                          \/ \E i \in DOMAIN jobs : "tag" \in DOMAIN jobs[i] /\ jobs[i].delivery = d
                          \/ ~up \/ made[d].open # opens
      BY DEF SuccessTakesEffect
    <2>2. Effect(d)
      BY <2>1 DEF IInv, AllMade, Tokens
    <2>3. ASSUME NEW i \in DOMAIN jobs, SettlesIt(i, d)
          PROVE  "tag" \in DOMAIN jobs[i] /\ jobs[i].delivery = d
      BY <2>3, JobFacts DEF SettlesIt
    <2>4. QED
      BY <2>1, <2>2, <2>3 DEF Effect
  <1>2. QED
    BY <1>1, Invariant, PTL

\* No thread sleeps in receive() over a message, or through the loss of its connection.
THEOREM NoLostWakeup == Spec => []SleepersHaveNothing
  <1>1. IInv => SleepersHaveNothing
    BY DEF IInv, Sleepers, SleepersHaveNothing
  <1>2. QED
    BY <1>1, Invariant, PTL

\* A receiver that was closed has no messages, those that came while it was being closed included.
THEOREM ClosedIsForgotten == Spec => []ClosedHasNoMessages
  <1>1. IInv => ClosedHasNoMessages
    BY DEF IInv, Forgotten, ClosedHasNoMessages
  <1>2. QED
    BY <1>1, Invariant, PTL
=============================================================================
