--------------------------- MODULE ManagementProofs ---------------------------
(***************************************************************************)
(* The invariants of Management, proved for any threads and any number of  *)
(* connections, requests and reply receivers.                              *)
(*                                                                         *)
(* None of the properties is inductive. What they rest on: the thread that *)
(* makes the links is the one that holds mgmt_mutex_ (MutexHeld), and the  *)
(* only one that has a job to make them in the work queue (OneInitJob);    *)
(* the reply receiver that is known is the newest one, made on the         *)
(* connection that is open or was open last, but while on_connection_open()*)
(* still has to forget it (LinksOfOpen); the address a thread has seen is  *)
(* still there while that connection is (SetSaw).                          *)
(***************************************************************************)
EXTENDS Management, SequenceTheorems, FiniteSetTheorems, TLAPS

InitPlaces == {"creating", "address", "set"}
IdPlaces == {"schedule", "waiting", "leave", "done"}
PC == [at : {"idle", "test", "lock", "creating", "address", "build"}]
         \cup [at : {"set"}, open : Opens]
         \cup [at : {"schedule", "waiting", "leave"}, id : Ids, to : Receivers \cup {None}]
         \cup [at : {"done"}, id : Ids, reply : Ids]
InitJobs == [thread : Threads]
IsInit(job) == job \in InitJobs

-----------------------------------------------------------------------------
(* The inductive invariant                                                 *)

\* The requests that have an ID or will get one are within the bound.
Bound ==
    LET starting == {t \in Threads : pc[t].at \in Starting}
    IN IsFiniteSet(starting) /\ counter + Cardinality(starting) <= MaxRequests

\* Every ID that is still somewhere has been given out.
IdsGiven ==
    /\ \A i \in DOMAIN jobs : jobs[i] \in Requests => jobs[i].id <= counter
    /\ \A t \in Threads : pc[t].at \in IdPlaces => pc[t].id <= counter
    /\ \A id \in DOMAIN replies : replies[id] = id

MutexHeld == \A t \in Threads : pc[t].at \in InitPlaces <=> mutex = t

OneInitJob ==
    /\ \A i \in DOMAIN jobs : IsInit(jobs[i]) => pc[jobs[i].thread].at = "creating"
    /\ \A i, j \in DOMAIN jobs : IsInit(jobs[i]) /\ IsInit(jobs[j]) => i = j

\* A request is forgotten when its call returns.
PendingHasCall == \A id \in pending : \E t \in Threads : pc[t].at \in IdPlaces /\ pc[t].id = id

DoneOwn == \A t \in Threads : pc[t].at = "done" => pc[t].reply = pc[t].id

LinksOfOpen == receiver # None =>
    /\ receiver \in DOMAIN made
    /\ sender = made[receiver]
    /\ IF opening = "done" THEN made[receiver] = opens ELSE made[receiver] < opens

\* Who has seen the address of the reply receiver can rely on it until the connection goes.
SetSaw == \A t \in Threads : pc[t].at = "set" =>
    /\ pc[t].open <= opens
    /\ pc[t].open = opens => opening = "done" /\ (connected => address # None)

InitializedHasLinks ==
    /\ initialized /\ connected /\ opening = "done" /\ opens \notin late => address # None
    /\ initialized /\ opening = "address" => opens \in late
    /\ initialized => mutex = None

Sleepers == \A t \in asleep :
    /\ pc[t].at = "address" => address = None /\ up
    /\ pc[t].at = "waiting" => pc[t].id \notin failed /\ pc[t].id \notin DOMAIN replies

IInv ==
    /\ TypeOK
    /\ Bound
    /\ IdsGiven
    /\ MutexHeld
    /\ OneInitJob
    /\ PendingHasCall
    /\ DoneOwn
    /\ LinksOfOpen
    /\ SetSaw
    /\ InitializedHasLinks
    /\ Sleepers

-----------------------------------------------------------------------------
(* Calls, jobs and the work queue                                          *)

\* What a thread that is doing one thing or another carries along.
LEMMA PCFacts ==
    ASSUME TypeOK, NEW t \in Threads
    PROVE  /\ pc[t].at \in {"idle", "test", "lock", "creating", "address", "build"} => pc[t] = At(pc[t].at)
           /\ pc[t].at = "set" => pc[t].open \in Opens
           /\ pc[t].at \in {"schedule", "waiting", "leave"} =>
                pc[t] \in [at : {"schedule", "waiting", "leave"}, id : Ids, to : Receivers \cup {None}]
           /\ pc[t].at = "done" => pc[t] \in [at : {"done"}, id : Ids, reply : Ids]
           /\ pc[t].at \in IdPlaces <=> "id" \in DOMAIN pc[t]
           /\ pc[t].at \in IdPlaces => pc[t].id \in Ids
           /\ pc[t].at \in {"idle", "test", "lock", "creating", "address", "build", "set"} \cup IdPlaces
  <1>1. pc[t] \in PC
    BY DEF TypeOK, PC
  <1>2. CASE pc[t] \in [at : {"idle", "test", "lock", "creating", "address", "build"}]
    BY <1>2 DEF At, IdPlaces
  <1>3. CASE pc[t] \in [at : {"set"}, open : Opens]
    BY <1>3 DEF IdPlaces
  <1>4. CASE pc[t] \in [at : {"schedule", "waiting", "leave"}, id : Ids, to : Receivers \cup {None}]
    BY <1>4 DEF IdPlaces
  <1>5. CASE pc[t] \in [at : {"done"}, id : Ids, reply : Ids]
    BY <1>5 DEF IdPlaces
  <1>6. QED
    BY <1>1, <1>2, <1>3, <1>4, <1>5 DEF PC

\* A job makes the links for a thread, or sends a request.
LEMMA JobFacts ==
    ASSUME NEW job \in InitJobs \cup Requests
    PROVE  /\ IsInit(job) <=> "thread" \in DOMAIN job
           /\ job \in Requests <=> "id" \in DOMAIN job
           /\ IsInit(job) <=> job \notin Requests
           /\ IsInit(job) => job.thread \in Threads /\ job = InitJob(job.thread)
           /\ job \in Requests => job.id \in Ids
  <1>1. CASE job \in InitJobs
    BY <1>1 DEF InitJobs, IsInit, Requests, InitJob
  <1>2. CASE job \in Requests
    BY <1>2 DEF InitJobs, IsInit, Requests, InitJob
  <1>3. QED
    BY <1>1, <1>2

\* The job that makes the links for a thread is told from all others.
LEMMA InitJobFacts ==
    ASSUME NEW t \in Threads
    PROVE  InitJob(t) \in InitJobs /\ IsInit(InitJob(t)) /\ InitJob(t).thread = t
  BY DEF InitJobs, IsInit, InitJob

\* What a call waits to send is a job.
LEMMA SendJobFacts ==
    ASSUME NEW id \in Ids, NEW to \in Receivers \cup {None}
    PROVE  /\ SendJob(id, to) \in Requests /\ SendJob(id, to).id = id
           /\ ~IsInit(SendJob(id, to))
  BY DEF Requests, SendJob, IsInit, InitJobs

\* The elements of a sequence without its head, and after one is appended.
LEMMA QueueFacts ==
    ASSUME NEW S, NEW q \in Seq(S)
    PROVE  /\ DOMAIN q = 1 .. Len(q) /\ Len(q) \in Nat
           /\ \A x \in S : /\ Append(q, x) \in Seq(S)
                           /\ DOMAIN Append(q, x) = 1 .. Len(q) + 1
                           /\ Append(q, x)[Len(q) + 1] = x
                           /\ \A i \in DOMAIN q : Append(q, x)[i] = q[i]
           /\ q # <<>> => /\ Tail(q) \in Seq(S) /\ Head(q) \in S
                          /\ 1 \in DOMAIN q /\ Head(q) = q[1]
                          /\ \A i \in DOMAIN Tail(q) : i + 1 \in DOMAIN q /\ Tail(q)[i] = q[i + 1]
  <1>1. DOMAIN q = 1 .. Len(q) /\ Len(q) \in Nat
    OBVIOUS
  <1>2. \A x \in S : /\ Append(q, x) \in Seq(S)
                     /\ DOMAIN Append(q, x) = 1 .. Len(q) + 1
                     /\ Append(q, x)[Len(q) + 1] = x
                     /\ \A i \in DOMAIN q : Append(q, x)[i] = q[i]
    OBVIOUS
  <1>3. q # <<>> => /\ Tail(q) \in Seq(S) /\ Head(q) \in S
                    /\ 1 \in DOMAIN q /\ Head(q) = q[1]
                    /\ \A i \in DOMAIN Tail(q) : i + 1 \in DOMAIN q /\ Tail(q)[i] = q[i + 1]
    OBVIOUS
  <1>4. QED
    BY <1>1, <1>2, <1>3

\* An empty sequence.
LEMMA EmptyFacts ==
    ASSUME NEW S
    PROVE  <<>> \in Seq(S) /\ DOMAIN <<>> = {} /\ Len(<<>>) = 0
  OBVIOUS

\* A sequence from which the element at i is removed.
LEMMA RemoveAtFacts ==
    ASSUME NEW S, NEW q \in Seq(S), NEW i \in DOMAIN q
    PROVE  /\ RemoveAt(q, i) \in Seq(S)
           /\ DOMAIN RemoveAt(q, i) = 1 .. Len(q) - 1
           /\ \A j \in 1 .. Len(q) - 1 : RemoveAt(q, i)[j] = IF j < i THEN q[j] ELSE q[j + 1]
  <1> DEFINE a == SubSeq(q, 1, i - 1)
             b == SubSeq(q, i + 1, Len(q))
  <1>1. DOMAIN q = 1 .. Len(q) /\ Len(q) \in Nat /\ i \in Nat /\ i >= 1 /\ i <= Len(q)
    OBVIOUS
  <1>2. a \in Seq(S) /\ Len(a) = i - 1 /\ \A j \in 1 .. i - 1 : a[j] = q[j]
    BY <1>1
  <1>3. b \in Seq(S) /\ Len(b) = Len(q) - i /\ \A j \in 1 .. Len(q) - i : b[j] = q[i + j]
    BY <1>1
  <1> HIDE DEF a, b
  <1>4. /\ a \o b \in Seq(S)
        /\ Len(a \o b) = Len(a) + Len(b)
        /\ \A k \in 1 .. Len(a) + Len(b) : (a \o b)[k] = IF k <= Len(a) THEN a[k] ELSE b[k - Len(a)]
    BY <1>2, <1>3, ConcatProperties, Zenon
  <1>5. PICK c \in Seq(S) : c = RemoveAt(q, i) /\ c = a \o b
    BY <1>4 DEF RemoveAt, a, b
  <1>6. Len(c) = Len(q) - 1
    <2>1. Len(c) = Len(a) + Len(b)
      BY <1>4, <1>5, Zenon
    <2>2. Len(a) + Len(b) = Len(q) - 1
      BY <1>1, <1>2, <1>3
    <2>3. QED
      BY <2>1, <2>2, Zenon
  <1>7. ASSUME NEW j \in 1 .. Len(q) - 1 PROVE c[j] = IF j < i THEN q[j] ELSE q[j + 1]
    <2>1. CASE j < i
      BY <1>1, <1>2, <1>3, <1>4, <1>5, <2>1
    <2>2. CASE ~(j < i)
      <3>1. c[j] = b[j - (i - 1)]
        BY <1>1, <1>2, <1>3, <1>4, <1>5, <2>2
      <3>2. j - (i - 1) \in 1 .. Len(q) - i /\ i + (j - (i - 1)) = j + 1
        BY <1>1, <2>2
      <3>3. QED
        BY <1>3, <3>1, <3>2, <2>2
    <2>3. QED
      BY <2>1, <2>2
  <1>8. DOMAIN c = 1 .. Len(q) - 1
    BY <1>5, <1>6
  <1>9. QED
    BY <1>5, <1>7, <1>8, Zenon

\* No more requests are to get an ID than before.
LEMMA BoundKept ==
    ASSUME Bound, counter \in Nat, UNCHANGED counter,
           \A t \in Threads : pc'[t].at \in Starting => pc[t].at \in Starting
    PROVE  Bound'
  <1> DEFINE before == {t \in Threads : pc[t].at \in Starting}
             after == {t \in Threads : pc'[t].at \in Starting}
  <1>1. after \subseteq before /\ IsFiniteSet(before) /\ counter + Cardinality(before) <= MaxRequests
    BY DEF Bound
  <1> HIDE DEF before, after
  <1>2. IsFiniteSet(after) /\ Cardinality(after) <= Cardinality(before)
    BY <1>1, FS_Subset
  <1>3. Cardinality(after) \in Nat /\ Cardinality(before) \in Nat
    BY <1>1, <1>2, FS_CardinalityType
  <1>4. counter' + Cardinality(after) <= MaxRequests
    BY <1>1, <1>2, <1>3, ManagementAssumption
  <1>5. QED
    BY <1>2, <1>4 DEF Bound, after

\* A thread that goes on is at a new place, and the others where they were.
LEMMA GotoFacts ==
    ASSUME TypeOK, NEW t \in Threads, NEW where \in PC, Goto(t, where)
    PROVE  /\ pc' \in [Threads -> PC]
           /\ pc'[t] = where
           /\ \A u \in Threads \ {t} : pc'[u] = pc[u]
  BY DEF TypeOK, PC, Goto

\* Places that carry nothing along are places.
LEMMA AtFacts ==
    ASSUME NEW where \in {"idle", "test", "lock", "creating", "address", "build"}
    PROVE  At(where) \in PC /\ At(where).at = where
  BY DEF At, PC

-----------------------------------------------------------------------------
(* Every step preserves the invariant                                      *)

\* Nothing has been made or asked at first.
LEMMA InitInv == Init => IInv
  <1>1. SUFFICES ASSUME Init PROVE IInv
    OBVIOUS
  <1>2. /\ \A t \in Threads : pc[t].at = "idle"
        /\ pc \in [Threads -> PC]
    BY <1>1, AtFacts DEF Init, Idle, At, PC
  <1>3. TypeOK
    <2>1. jobs \in Seq([thread : Threads] \cup Requests) /\ made \in Seq(Opens) /\ Len(made) = 0
      BY <1>1, EmptyFacts DEF Init
    <2>2. opens \in Opens /\ counter \in 0 .. MaxRequests /\ Len(made) <= MaxReceivers
      BY <1>1, <2>1, ManagementAssumption DEF Init, Opens
    <2>3. DOMAIN replies = {}
      BY <1>1, EmptyFacts DEF Init
    <2>4. QED
      BY <1>1, <1>2, <2>1, <2>2, <2>3 DEF Init, TypeOK, PC
  <1>4. Bound
    <2>1. {t \in Threads : pc[t].at \in Starting} = {}
      BY <1>2 DEF Starting
    <2>2. counter + Cardinality({}) <= MaxRequests
      BY <1>1, FS_EmptySet, ManagementAssumption DEF Init
    <2>3. QED
      BY <2>1, <2>2, FS_EmptySet DEF Bound
  <1>5. IdsGiven /\ MutexHeld /\ OneInitJob /\ PendingHasCall /\ DoneOwn
    BY <1>1, <1>2, ManagementAssumption
    DEF Init, IdsGiven, MutexHeld, OneInitJob, PendingHasCall, DoneOwn, InitPlaces, IdPlaces
  <1>6. LinksOfOpen /\ SetSaw /\ InitializedHasLinks /\ Sleepers
    BY <1>1, <1>2 DEF Init, LinksOfOpen, SetSaw, InitializedHasLinks, Sleepers
  <1>7. QED
    BY <1>3, <1>4, <1>5, <1>6 DEF IInv

\* The links are made on the connection that is open, for the thread that waits.
LEMMA RunInitInv == ASSUME IInv, opening = "done", RunInit PROVE IInv'
  <1>1. PICK t \in Threads : Head(jobs) = InitJob(t) /\ t = Head(jobs).thread
    <2>1. Head(jobs) \in InitJobs \cup Requests /\ "thread" \in DOMAIN Head(jobs)
      BY QueueFacts DEF IInv, TypeOK, RunInit, InitJobs
    <2>2. QED
      BY <2>1, JobFacts
  <1>2. /\ jobs \in Seq(InitJobs \cup Requests) /\ jobs # <<>>
        /\ up /\ Len(made) < MaxReceivers
        /\ sender' = opens /\ made' = Append(made, opens)
        /\ receiver' = Len(made) + 1 /\ address' = None
        /\ Goto(t, At("address")) /\ jobs' = Tail(jobs)
        /\ UNCHANGED <<connected, up, workQueue, opens, opening, initialized, mutex, counter, pending, replies,
                       failed, requests, answers, asleep, late>>
    BY <1>1, QueueFacts DEF IInv, TypeOK, RunInit, InitJobs, conn, calls, broker
  <1>3. /\ pc[t].at = "creating" /\ mutex = t
        /\ pc' \in [Threads -> PC] /\ pc'[t] = At("address") /\ pc'[t].at = "address"
        /\ \A u \in Threads \ {t} : pc'[u] = pc[u]
    BY <1>1, <1>2, QueueFacts, InitJobFacts, GotoFacts, AtFacts DEF IInv, OneInitJob, MutexHeld, InitPlaces
  <1>4. /\ \A i \in DOMAIN jobs' : i + 1 \in DOMAIN jobs /\ jobs'[i] = jobs[i + 1]
        /\ jobs' \in Seq(InitJobs \cup Requests) /\ DOMAIN jobs' \subseteq Nat \ {0}
        /\ \A i \in DOMAIN jobs' : ~IsInit(jobs'[i])
    <2>1. /\ \A i \in DOMAIN jobs' : i + 1 \in DOMAIN jobs /\ jobs'[i] = jobs[i + 1]
          /\ jobs' \in Seq(InitJobs \cup Requests) /\ DOMAIN jobs' \subseteq Nat \ {0}
          /\ 1 \in DOMAIN jobs /\ IsInit(jobs[1])
      BY <1>1, <1>2, QueueFacts, InitJobFacts
    <2>2. QED
      BY <2>1 DEF IInv, OneInitJob
  <1>5. TypeOK'
    <2>1. made' \in Seq(Opens) /\ Len(made') = Len(made) + 1 /\ Len(made) \in Nat /\ receiver' \in Receivers
      BY <1>2, ManagementAssumption DEF IInv, TypeOK, Receivers
    <2>2. QED
      <3>1. asleep' \subseteq {u \in Threads : pc'[u].at \in {"address", "waiting"}}
        BY <1>2, <1>3 DEF IInv, TypeOK
      <3>2. jobs' \in Seq([thread : Threads] \cup Requests) /\ pc' \in [Threads -> PC]
        BY <1>3, <1>4 DEF InitJobs
      <3>3. sender' \in Opens \cup {None} /\ Len(made') <= MaxReceivers
        BY <1>2, <2>1, ManagementAssumption DEF IInv, TypeOK
      <3>4. QED
        BY <1>2, <2>1, <3>1, <3>2, <3>3 DEF IInv, TypeOK, PC
  <1>6. Bound'
    BY <1>2, <1>3, BoundKept DEF IInv, TypeOK, Starting
  <1>7. IdsGiven' /\ MutexHeld' /\ OneInitJob'
    BY <1>2, <1>3, <1>4 DEF IInv, IdsGiven, MutexHeld, OneInitJob, InitPlaces, IdPlaces
  <1>8. PendingHasCall' /\ DoneOwn'
    <2>1. PendingHasCall /\ DoneOwn /\ pending' = pending
      BY <1>2 DEF IInv
    <2>2. pc[t].at \notin IdPlaces /\ pc'[t].at # "done"
      BY <1>3 DEF IdPlaces
    <2>3. PendingHasCall'
      <3>1. SUFFICES ASSUME NEW id \in pending
                     PROVE  \E u \in Threads : pc'[u].at \in IdPlaces /\ pc'[u].id = id
        BY <2>1 DEF PendingHasCall, IdPlaces
      <3>2. PICK u \in Threads : pc[u].at \in IdPlaces /\ pc[u].id = id
        BY <2>1 DEF PendingHasCall
      <3>3. QED
        BY <1>3, <2>2, <3>2
    <2>4. DoneOwn'
      BY <1>3, <2>1, <2>2 DEF DoneOwn
    <2>5. QED
      BY <2>3, <2>4
  <1>9. LinksOfOpen'
    <2>1. /\ made' = Append(made, opens) /\ made \in Seq(Opens) /\ opens \in Opens
          /\ Len(made) \in Nat /\ Len(made) + 1 \in 1 .. Len(made) + 1
      BY <1>2 DEF IInv, TypeOK
    <2>2. made'[receiver'] = opens /\ receiver' \in DOMAIN made'
      BY <1>2, <2>1, QueueFacts
    <2>3. QED
      BY <1>2, <2>2 DEF LinksOfOpen
  <1>10. SetSaw' /\ InitializedHasLinks' /\ Sleepers'
    BY <1>2, <1>3, ManagementAssumption
    DEF IInv, TypeOK, MutexHeld, SetSaw, InitializedHasLinks, Sleepers, InitPlaces
  <1>11. QED
    BY <1>5, <1>6, <1>7, <1>8, <1>9, <1>10 DEF IInv

\* The address is that of a receiver of the open connection, and everybody wakes up.
LEMMA OnReceiverOpenInv == ASSUME IInv, NEW r \in Receivers, OnReceiverOpen(r) PROVE IInv'
  <1>1. /\ r = receiver /\ address = None /\ address' = r /\ asleep' = {}
        /\ UNCHANGED <<connected, up, workQueue, opens, opening, initialized, sender, receiver, made, mutex,
                       counter, pending, replies, failed, jobs, requests, answers, pc, late>>
    BY DEF OnReceiverOpen, conn, links, calls, broker
  <1>2. TypeOK'
    BY <1>1 DEF IInv, TypeOK
  <1>3. Bound' /\ IdsGiven' /\ MutexHeld' /\ OneInitJob' /\ PendingHasCall' /\ DoneOwn' /\ LinksOfOpen'
    BY <1>1 DEF IInv, Bound, IdsGiven, MutexHeld, OneInitJob, PendingHasCall, DoneOwn, LinksOfOpen
  <1>4. SetSaw' /\ InitializedHasLinks' /\ Sleepers'
    BY <1>1, ManagementAssumption DEF IInv, TypeOK, SetSaw, InitializedHasLinks, Sleepers, Receivers
  <1>5. QED
    BY <1>2, <1>3, <1>4 DEF IInv

\* A refused reply receiver has no address.
LEMMA OnErrorInv == ASSUME IInv, NEW r \in Receivers, OnError(r) PROVE IInv'
  <1>1. /\ r = receiver /\ address = None /\ connected' = FALSE
        /\ UNCHANGED <<up, workQueue, opens, opening, initialized, sender, receiver, address, made, mutex,
                       counter, pending, replies, failed, jobs, requests, answers, pc, asleep, late>>
    BY DEF OnError, conn, links, calls, broker
  <1>2. TypeOK'
    BY <1>1 DEF IInv, TypeOK
  <1>3. Bound' /\ IdsGiven' /\ MutexHeld' /\ OneInitJob' /\ PendingHasCall' /\ DoneOwn' /\ LinksOfOpen'
    BY <1>1 DEF IInv, Bound, IdsGiven, MutexHeld, OneInitJob, PendingHasCall, DoneOwn, LinksOfOpen
  <1>4. SetSaw' /\ InitializedHasLinks' /\ Sleepers'
    BY <1>1, ManagementAssumption DEF IInv, TypeOK, SetSaw, InitializedHasLinks, Sleepers, Receivers
  <1>5. QED
    BY <1>2, <1>3, <1>4 DEF IInv

\* A request is at the broker, or failed and its thread awake, or lost.
LEMMA RunSendInv == ASSUME IInv, RunSend PROVE IInv'
  <1>1. /\ jobs \in Seq(InitJobs \cup Requests) /\ jobs # <<>> /\ jobs' = Tail(jobs)
        /\ Head(jobs) \in Requests /\ Head(jobs) = jobs[1] /\ 1 \in DOMAIN jobs
        /\ requests' \in {requests, requests \cup {Head(jobs)}}
        /\ \/ failed' = failed \cup {Head(jobs).id} /\ asleep' = {}
           \/ UNCHANGED <<failed, asleep>>
        /\ UNCHANGED <<connected, up, workQueue, opens, opening, initialized, sender, receiver, address, made,
                       mutex, counter, pending, replies, answers, pc, late>>
    <2>1. jobs \in Seq(InitJobs \cup Requests) /\ jobs # <<>>
      BY DEF IInv, TypeOK, RunSend, InitJobs
    <2>2. Head(jobs) \in InitJobs \cup Requests /\ Head(jobs) = jobs[1] /\ 1 \in DOMAIN jobs
      BY <2>1, QueueFacts
    <2>3. Head(jobs) \in Requests
      BY <2>2, JobFacts DEF RunSend
    <2>4. QED
      BY <2>1, <2>2, <2>3 DEF RunSend, conn, links
  <1>2. /\ \A i \in DOMAIN jobs' : i + 1 \in DOMAIN jobs /\ jobs'[i] = jobs[i + 1]
        /\ jobs' \in Seq(InitJobs \cup Requests) /\ DOMAIN jobs' \subseteq Nat \ {0}
    BY <1>1, QueueFacts
  <1>3. Head(jobs).id \in 1 .. counter
    BY <1>1 DEF IInv, IdsGiven, TypeOK, Requests, Ids
  <1>4. TypeOK'
    <2>1. jobs' \in Seq([thread : Threads] \cup Requests)
      BY <1>2 DEF InitJobs
    <2>2. requests' \subseteq Requests /\ failed' \subseteq 1 .. counter /\ asleep' \subseteq asleep
      BY <1>1, <1>3 DEF IInv, TypeOK
    <2>3. QED
      BY <1>1, <2>1, <2>2 DEF IInv, TypeOK
  <1>5. Bound' /\ MutexHeld' /\ PendingHasCall' /\ DoneOwn' /\ LinksOfOpen'
    BY <1>1 DEF IInv, Bound, MutexHeld, PendingHasCall, DoneOwn, LinksOfOpen
  <1>6. IdsGiven' /\ OneInitJob'
    BY <1>1, <1>2 DEF IInv, IdsGiven, OneInitJob
  <1>7. SetSaw' /\ InitializedHasLinks' /\ Sleepers'
    BY <1>1 DEF IInv, SetSaw, InitializedHasLinks, Sleepers
  <1>8. QED
    BY <1>4, <1>5, <1>6, <1>7 DEF IInv

\* An answer is on its way.
LEMMA AnswerInv == ASSUME IInv, NEW q \in requests, Answer(q) PROVE IInv'
  <1>1. /\ requests' = requests \ {q} /\ answers' = answers \cup {q}
        /\ UNCHANGED <<connected, up, workQueue, opens, opening, initialized, sender, receiver, address, made,
                       mutex, counter, pending, replies, failed, jobs, pc, asleep, late>>
    BY DEF Answer, conn, links, calls
  <1>2. TypeOK'
    BY <1>1 DEF IInv, TypeOK
  <1>3. Bound' /\ IdsGiven' /\ MutexHeld' /\ OneInitJob' /\ PendingHasCall' /\ DoneOwn'
    BY <1>1 DEF IInv, Bound, IdsGiven, MutexHeld, OneInitJob, PendingHasCall, DoneOwn
  <1>4. LinksOfOpen' /\ SetSaw' /\ InitializedHasLinks' /\ Sleepers'
    BY <1>1 DEF IInv, LinksOfOpen, SetSaw, InitializedHasLinks, Sleepers
  <1>5. QED
    BY <1>2, <1>3, <1>4 DEF IInv

\* A reply is kept for its own request, if that waits, and everybody wakes up.
LEMMA OnMessageInv == ASSUME IInv, NEW q \in answers, OnMessage(q) PROVE IInv'
  <1>1. /\ answers' = answers \ {q}
        /\ \/ /\ q.id \in pending
              /\ replies' = [i \in DOMAIN replies \cup {q.id} |-> IF i = q.id THEN q.id ELSE replies[i]]
              /\ asleep' = {}
           \/ UNCHANGED <<replies, asleep>>
        /\ UNCHANGED <<connected, up, workQueue, opens, opening, initialized, sender, receiver, address, made,
                       mutex, counter, pending, failed, jobs, requests, pc, late>>
    BY DEF OnMessage, conn, links
  <1>2. TypeOK'
    BY <1>1 DEF IInv, TypeOK
  <1>3. IdsGiven' /\ Sleepers'
    BY <1>1 DEF IInv, IdsGiven, Sleepers
  <1>4. Bound' /\ MutexHeld' /\ OneInitJob' /\ PendingHasCall' /\ DoneOwn'
    BY <1>1 DEF IInv, Bound, MutexHeld, OneInitJob, PendingHasCall, DoneOwn
  <1>5. LinksOfOpen' /\ SetSaw' /\ InitializedHasLinks'
    BY <1>1 DEF IInv, LinksOfOpen, SetSaw, InitializedHasLinks
  <1>6. QED
    BY <1>2, <1>3, <1>4, <1>5 DEF IInv

\* A loss wakes everybody; what is known of the links stays for now.
LEMMA LoseInv == ASSUME IInv, Lose PROVE IInv'
  <1>1. /\ connected' = FALSE /\ up' = FALSE /\ workQueue' \in BOOLEAN
        /\ requests' = {} /\ answers' = {} /\ asleep' = {} /\ jobs' \in {jobs, <<>>}
        /\ UNCHANGED <<opens, opening, initialized, sender, receiver, address, made, mutex, counter, pending,
                       replies, failed, pc, late>>
    BY DEF Lose, GoDown, links, calls
  <1>2. TypeOK'
    <2>1. jobs' \in Seq([thread : Threads] \cup Requests)
      BY <1>1, EmptyFacts DEF IInv, TypeOK
    <2>2. QED
      BY <1>1, <2>1 DEF IInv, TypeOK
  <1>3. IdsGiven' /\ OneInitJob' /\ Sleepers'
    BY <1>1 DEF IInv, IdsGiven, OneInitJob, Sleepers
  <1>4. Bound' /\ MutexHeld' /\ PendingHasCall' /\ DoneOwn'
    BY <1>1 DEF IInv, Bound, MutexHeld, PendingHasCall, DoneOwn
  <1>5. LinksOfOpen' /\ SetSaw' /\ InitializedHasLinks'
    BY <1>1 DEF IInv, LinksOfOpen, SetSaw, InitializedHasLinks
  <1>6. QED
    BY <1>2, <1>3, <1>4, <1>5 DEF IInv

\* What is known is that of an earlier connection when a new one opens.
LEMMA ReopenInv == ASSUME IInv, opening = "done", Reopen PROVE IInv'
  <1>1. /\ ~up /\ opens < MaxOpens
        /\ connected' = TRUE /\ up' = TRUE /\ workQueue' = TRUE /\ opens' = opens + 1 /\ opening' = "flag"
        /\ UNCHANGED <<initialized, sender, receiver, address, made, mutex, counter, pending, replies, failed,
                       jobs, requests, answers, pc, asleep, late>>
    BY DEF Reopen, links, calls, broker
  <1>2. TypeOK'
    <2>1. opens' \in Opens
      BY <1>1, ManagementAssumption DEF IInv, TypeOK, Opens
    <2>2. QED
      BY <1>1, <2>1 DEF IInv, TypeOK
  <1>3. IdsGiven' /\ OneInitJob' /\ Sleepers'
    BY <1>1 DEF IInv, IdsGiven, OneInitJob, Sleepers
  <1>4. Bound' /\ MutexHeld' /\ PendingHasCall' /\ DoneOwn'
    BY <1>1 DEF IInv, Bound, MutexHeld, PendingHasCall, DoneOwn
  <1>5. LinksOfOpen' /\ SetSaw' /\ InitializedHasLinks'
    <2>1. \A t \in Threads : pc[t].at = "set" => pc[t].open \in Opens
      BY PCFacts DEF IInv
    <2>2. QED
      BY <1>1, <2>1 DEF IInv, TypeOK, LinksOfOpen, SetSaw, InitializedHasLinks, Opens
  <1>6. QED
    BY <1>2, <1>3, <1>4, <1>5 DEF IInv

\* The flag is cleared, whoever has set it.
LEMMA ForgetInitializedInv == ASSUME IInv, ForgetInitialized PROVE IInv'
  <1>1. /\ opening = "flag" /\ opening' = "address" /\ initialized' = FALSE /\ late' = late \ {opens}
        /\ UNCHANGED <<connected, up, workQueue, opens, sender, receiver, address, made, mutex, counter, pending,
                       replies, failed, jobs, requests, answers, pc, asleep>>
    BY DEF ForgetInitialized, calls, broker
  <1>2. TypeOK'
    BY <1>1 DEF IInv, TypeOK
  <1>3. Bound' /\ IdsGiven' /\ MutexHeld' /\ OneInitJob' /\ PendingHasCall' /\ DoneOwn'
    BY <1>1 DEF IInv, Bound, IdsGiven, MutexHeld, OneInitJob, PendingHasCall, DoneOwn
  <1>4. LinksOfOpen' /\ SetSaw' /\ InitializedHasLinks' /\ Sleepers'
    BY <1>1 DEF IInv, LinksOfOpen, SetSaw, InitializedHasLinks, Sleepers
  <1>5. QED
    BY <1>2, <1>3, <1>4 DEF IInv

\* Nothing of the links of an earlier connection is known any more; who has seen its address is known to be late.
LEMMA ForgetAddressInv == ASSUME IInv, ForgetAddress PROVE IInv'
  <1>1. /\ opening = "address" /\ opening' = "done" /\ receiver' = None /\ address' = None
        /\ UNCHANGED <<connected, up, workQueue, opens, initialized, sender, made, mutex, counter, pending,
                       replies, failed, jobs, requests, answers, pc, asleep, late>>
    BY DEF ForgetAddress, calls, broker
  <1>2. TypeOK'
    BY <1>1 DEF IInv, TypeOK
  <1>3. Bound' /\ IdsGiven' /\ MutexHeld' /\ OneInitJob' /\ PendingHasCall' /\ DoneOwn'
    BY <1>1 DEF IInv, Bound, IdsGiven, MutexHeld, OneInitJob, PendingHasCall, DoneOwn
  <1>4. LinksOfOpen' /\ SetSaw' /\ InitializedHasLinks' /\ Sleepers'
    BY <1>1 DEF IInv, TypeOK, LinksOfOpen, SetSaw, InitializedHasLinks, Sleepers
  <1>5. QED
    BY <1>2, <1>3, <1>4 DEF IInv

\* close() forgets everything, and wakes everybody.
LEMMA CloseInv == ASSUME IInv, NEW t \in Threads, Close(t) PROVE IInv'
  <1>1. /\ connected' = FALSE /\ up' = FALSE /\ workQueue' = FALSE
        /\ requests' = {} /\ answers' = {} /\ jobs' = <<>> /\ asleep' = {}
        /\ initialized' = FALSE /\ sender' = None /\ receiver' = None /\ address' = None
        /\ pending' = {} /\ replies' = <<>>
        /\ UNCHANGED <<opens, opening, made, mutex, counter, failed, pc, late>>
    BY DEF Close, GoDown
  <1>2. TypeOK'
    <2>1. jobs' \in Seq([thread : Threads] \cup Requests) /\ DOMAIN replies' = {}
      BY <1>1, EmptyFacts
    <2>2. QED
      BY <1>1, <2>1 DEF IInv, TypeOK
  <1>3. IdsGiven' /\ OneInitJob' /\ Sleepers'
    BY <1>1 DEF IInv, IdsGiven, OneInitJob, Sleepers
  <1>4. Bound' /\ MutexHeld' /\ PendingHasCall' /\ DoneOwn'
    BY <1>1 DEF IInv, Bound, MutexHeld, PendingHasCall, DoneOwn
  <1>5. LinksOfOpen' /\ SetSaw' /\ InitializedHasLinks'
    BY <1>1 DEF IInv, LinksOfOpen, SetSaw, InitializedHasLinks
  <1>6. QED
    BY <1>2, <1>3, <1>4, <1>5 DEF IInv

\* A call starts while there is an ID left for it.
LEMMA StartInv == ASSUME IInv, NEW t \in Threads, Start(t) PROVE IInv'
  <1>1. /\ pc[t].at = "idle" /\ Goto(t, At("test"))
        /\ counter + Cardinality({u \in Threads : pc[u].at \in Starting}) < MaxRequests
        /\ UNCHANGED <<connected, up, workQueue, opens, opening, initialized, sender, receiver, address, made,
                       mutex, counter, pending, replies, failed, jobs, requests, answers, asleep, late>>
    BY AtFacts DEF Start, conn, links, calls, broker, Idle
  <1>2. /\ pc'[t].at = "test" /\ pc' \in [Threads -> PC]
        /\ \A u \in Threads \ {t} : pc'[u] = pc[u]
    BY <1>1, GotoFacts, AtFacts DEF IInv, Idle
  <1>3. TypeOK'
    BY <1>1, <1>2 DEF IInv, TypeOK, PC
  <1>4. Bound'
    <2> DEFINE before == {u \in Threads : pc[u].at \in Starting}
               after == {u \in Threads : pc'[u].at \in Starting}
    <2>1. after = before \cup {t} /\ t \notin before
      BY <1>1, <1>2 DEF Starting
    <2>2. IsFiniteSet(before) /\ counter + Cardinality(before) < MaxRequests /\ counter \in Nat
      BY <1>1 DEF IInv, Bound, TypeOK
    <2> HIDE DEF before, after
    <2>3. IsFiniteSet(after) /\ Cardinality(after) = Cardinality(before) + 1 /\ Cardinality(before) \in Nat
      BY <2>1, <2>2, FS_AddElement, FS_CardinalityType
    <2>4. counter' + Cardinality(after) <= MaxRequests
      BY <1>1, <2>2, <2>3, ManagementAssumption
    <2>5. QED
      BY <2>3, <2>4 DEF Bound, after
  <1>5. IdsGiven' /\ MutexHeld' /\ PendingHasCall'
    BY <1>1, <1>2 DEF IInv, IdsGiven, MutexHeld, PendingHasCall, InitPlaces, IdPlaces
  <1>6. OneInitJob'
    BY <1>1, <1>2 DEF IInv, OneInitJob, IsInit, InitJobs
  <1>7. DoneOwn' /\ LinksOfOpen' /\ SetSaw' /\ InitializedHasLinks' /\ Sleepers'
    BY <1>1, <1>2 DEF IInv, TypeOK, DoneOwn, LinksOfOpen, SetSaw, InitializedHasLinks, Sleepers
  <1>8. QED
    BY <1>3, <1>4, <1>5, <1>6, <1>7 DEF IInv

\* The first test of mgmt_initialized_ changes nothing.
LEMMA TestInv == ASSUME IInv, NEW t \in Threads, Test(t) PROVE IInv'
  <1>1. /\ pc[t].at = "test" /\ Goto(t, IF initialized THEN At("build") ELSE At("lock"))
        /\ UNCHANGED <<connected, up, workQueue, opens, opening, initialized, sender, receiver, address, made,
                       mutex, counter, pending, replies, failed, jobs, requests, answers, asleep, late>>
    BY AtFacts DEF Test, conn, links, calls, broker
  <1>2. /\ pc'[t].at \in {"lock", "build"} /\ pc' \in [Threads -> PC]
        /\ \A u \in Threads \ {t} : pc'[u] = pc[u]
    BY <1>1, GotoFacts, AtFacts DEF IInv
  <1>3. TypeOK'
    BY <1>1, <1>2 DEF IInv, TypeOK, PC
  <1>4. Bound'
    BY <1>1, <1>2, BoundKept DEF IInv, TypeOK, Starting
  <1>5. IdsGiven' /\ MutexHeld' /\ PendingHasCall'
    BY <1>1, <1>2 DEF IInv, IdsGiven, MutexHeld, PendingHasCall, InitPlaces, IdPlaces
  <1>6. OneInitJob'
    BY <1>1, <1>2 DEF IInv, OneInitJob, IsInit, InitJobs
  <1>7. DoneOwn' /\ LinksOfOpen' /\ SetSaw' /\ InitializedHasLinks' /\ Sleepers'
    BY <1>1, <1>2 DEF IInv, TypeOK, DoneOwn, LinksOfOpen, SetSaw, InitializedHasLinks, Sleepers
  <1>8. QED
    BY <1>3, <1>4, <1>5, <1>6, <1>7 DEF IInv

\* mgmt_mutex_ is taken when it is free, and no other job makes links then.
LEMMA LockInv == ASSUME IInv, NEW t \in Threads, Lock(t) PROVE IInv'
  <1>1. /\ pc[t].at = "lock" /\ mutex = None
        /\ \/ initialized /\ Goto(t, At("build")) /\ UNCHANGED <<mutex, jobs>>
           \/ Goto(t, At("idle")) /\ UNCHANGED <<mutex, jobs>>
           \/ ~initialized /\ mutex' = t /\ jobs' = Append(jobs, InitJob(t)) /\ Goto(t, At("creating"))
        /\ UNCHANGED <<connected, up, workQueue, opens, opening, initialized, sender, receiver, address, made,
                       counter, pending, replies, failed, requests, answers, asleep, late>>
    BY AtFacts DEF Lock, conn, links, calls, broker, Idle
  <1>2. /\ \/ pc'[t].at \in {"idle", "build"} /\ UNCHANGED <<mutex, jobs>>
           \/ ~initialized /\ mutex' = t /\ jobs' = Append(jobs, InitJob(t)) /\ pc'[t].at = "creating"
        /\ pc' \in [Threads -> PC]
        /\ \A u \in Threads \ {t} : pc'[u] = pc[u]
    BY <1>1, GotoFacts, AtFacts DEF IInv
  <1>3. /\ jobs \in Seq(InitJobs \cup Requests)
        /\ \A i \in DOMAIN jobs : jobs[i] \in InitJobs \cup Requests /\ ~IsInit(jobs[i])
    <2>1. jobs \in Seq(InitJobs \cup Requests)
      BY DEF IInv, TypeOK, InitJobs
    <2>2. \A i \in DOMAIN jobs : jobs[i] \in InitJobs \cup Requests
      BY <2>1
    <2>3. \A i \in DOMAIN jobs : IsInit(jobs[i]) => jobs[i].thread \in Threads
      BY <2>2, JobFacts
    <2>4. QED
      BY <1>1, <2>1, <2>2, <2>3, ManagementAssumption DEF IInv, OneInitJob, MutexHeld, InitPlaces
  <1>4. /\ jobs' \in Seq(InitJobs \cup Requests)
        /\ \A i \in DOMAIN jobs' : \/ i \in DOMAIN jobs /\ jobs'[i] = jobs[i]
                                   \/ /\ jobs'[i] = InitJob(t) /\ i = Len(jobs) + 1
                                      /\ mutex' = t /\ pc'[t].at = "creating"
        /\ \A i \in DOMAIN jobs : i # Len(jobs) + 1
    BY <1>2, <1>3, QueueFacts, InitJobFacts
  <1>5. TypeOK'
    BY <1>1, <1>2, <1>4 DEF IInv, TypeOK, PC, InitJobs
  <1>6. Bound'
    BY <1>1, <1>2, BoundKept DEF IInv, TypeOK, Starting
  <1>7. IdsGiven'
    BY <1>1, <1>2, <1>3, <1>4, InitJobFacts, JobFacts DEF IInv, IdsGiven, IdPlaces
  <1>8. OneInitJob'
    BY <1>2, <1>3, <1>4, InitJobFacts DEF OneInitJob
  <1>9. MutexHeld' /\ PendingHasCall' /\ DoneOwn'
    BY <1>1, <1>2, ManagementAssumption DEF IInv, MutexHeld, PendingHasCall, DoneOwn, InitPlaces, IdPlaces
  <1>10. LinksOfOpen' /\ SetSaw' /\ InitializedHasLinks' /\ Sleepers'
    BY <1>1, <1>2 DEF IInv, TypeOK, LinksOfOpen, SetSaw, InitializedHasLinks, Sleepers
  <1>11. QED
    BY <1>5, <1>6, <1>7, <1>8, <1>9, <1>10 DEF IInv

\* Who gives up takes its job back and leaves the mutex free.
LEMMA GiveUpInitInv == ASSUME IInv, NEW t \in Threads, GiveUpInit(t) PROVE IInv'
  <1>1. /\ pc[t].at \in {"creating", "address"} /\ DropInitJob(t)
        /\ mutex' = None /\ asleep' = asleep \ {t} /\ Goto(t, At("idle"))
        /\ UNCHANGED <<connected, up, workQueue, opens, opening, initialized, sender, receiver, address, made,
                       counter, pending, replies, failed, requests, answers, late>>
    BY AtFacts DEF GiveUpInit, conn, links, calls, broker, Idle
  <1>2. /\ pc'[t].at = "idle" /\ pc' \in [Threads -> PC]
        /\ \A u \in Threads \ {t} : pc'[u] = pc[u]
    BY <1>1, GotoFacts, AtFacts DEF IInv
  <1>3. /\ jobs \in Seq(InitJobs \cup Requests)
        /\ \A i \in DOMAIN jobs : /\ jobs[i] \in InitJobs \cup Requests
                                  /\ IsInit(jobs[i]) => jobs[i] = InitJob(t)
    <2>1. jobs \in Seq(InitJobs \cup Requests)
      BY DEF IInv, TypeOK, InitJobs
    <2>2. \A i \in DOMAIN jobs : jobs[i] \in InitJobs \cup Requests
      BY <2>1
    <2>3. \A i \in DOMAIN jobs : IsInit(jobs[i]) => jobs[i].thread \in Threads /\ jobs[i] = InitJob(jobs[i].thread)
      BY <2>2, JobFacts
    <2>4. mutex = t
      BY <1>1 DEF IInv, MutexHeld, InitPlaces
    <2>5. QED
      BY <2>1, <2>2, <2>3, <2>4 DEF IInv, OneInitJob, MutexHeld, InitPlaces
  <1>4. /\ jobs' \in Seq(InitJobs \cup Requests)
        /\ \A i \in DOMAIN jobs' : /\ ~IsInit(jobs'[i])
                                   /\ \E j \in DOMAIN jobs : jobs'[i] = jobs[j]
    <2>1. CASE ~(\E i \in DOMAIN jobs : jobs[i] = InitJob(t))
      BY <1>1, <1>3, <2>1 DEF DropInitJob
    <2>2. CASE \E i \in DOMAIN jobs : jobs[i] = InitJob(t)
      <3>1. PICK i \in DOMAIN jobs : jobs[i] = InitJob(t) /\ jobs' = RemoveAt(jobs, i)
        BY <1>1, <2>2 DEF DropInitJob
      <3>2. /\ jobs' \in Seq(InitJobs \cup Requests)
            /\ DOMAIN jobs' = 1 .. Len(jobs) - 1
            /\ \A j \in 1 .. Len(jobs) - 1 : jobs'[j] = IF j < i THEN jobs[j] ELSE jobs[j + 1]
            /\ DOMAIN jobs = 1 .. Len(jobs) /\ Len(jobs) \in Nat
        BY <1>3, <3>1, RemoveAtFacts, QueueFacts
      <3>3. ASSUME NEW j \in DOMAIN jobs'
            PROVE  \E k \in DOMAIN jobs \ {i} : jobs'[j] = jobs[k]
        <4>1. CASE j < i
          BY <3>2, <4>1
        <4>2. CASE ~(j < i)
          BY <3>2, <4>2
        <4>3. QED
          BY <4>1, <4>2
      <3>4. \A k \in DOMAIN jobs \ {i} : ~IsInit(jobs[k])
        BY <1>3, <3>1, InitJobFacts DEF IInv, OneInitJob
      <3>5. QED
        BY <3>2, <3>3, <3>4
    <2>3. QED
      BY <2>1, <2>2
  <1>5. TypeOK'
    BY <1>1, <1>2, <1>4 DEF IInv, TypeOK, PC, InitJobs
  <1>6. Bound'
    BY <1>1, <1>2, BoundKept DEF IInv, TypeOK, Starting
  <1>7. IdsGiven'
    BY <1>1, <1>2, <1>4 DEF IInv, IdsGiven, IdPlaces
  <1>8. OneInitJob'
    BY <1>4 DEF OneInitJob
  <1>9. MutexHeld' /\ PendingHasCall' /\ DoneOwn'
    BY <1>1, <1>2, ManagementAssumption DEF IInv, MutexHeld, PendingHasCall, DoneOwn, InitPlaces, IdPlaces
  <1>10. LinksOfOpen' /\ SetSaw' /\ InitializedHasLinks' /\ Sleepers'
    BY <1>1, <1>2 DEF IInv, TypeOK, LinksOfOpen, SetSaw, InitializedHasLinks, Sleepers
  <1>11. QED
    BY <1>5, <1>6, <1>7, <1>8, <1>9, <1>10 DEF IInv

\* A thread goes on with an address that is still there, or sleeps without one.
LEMMA TestAddressInv == ASSUME IInv, NEW t \in Threads, TestAddress(t) PROVE IInv'
  <1>1. /\ pc[t].at = "address" /\ t \notin asleep
        /\ \/ address # None /\ Goto(t, [at |-> "set", open |-> made[address]]) /\ UNCHANGED <<mutex, asleep>>
           \/ Goto(t, At("idle")) /\ mutex' = None /\ UNCHANGED asleep
           \/ address = None /\ connected /\ asleep' = asleep \cup {t} /\ UNCHANGED <<mutex, pc>>
        /\ UNCHANGED <<connected, up, workQueue, opens, opening, initialized, sender, receiver, address, made,
                       counter, pending, replies, failed, jobs, requests, answers, late>>
    BY AtFacts DEF TestAddress, conn, links, calls, broker, Idle
  <1>2. address # None => /\ [at |-> "set", open |-> made[address]] \in PC
                          /\ IF opening = "done" THEN made[address] = opens ELSE made[address] < opens
    BY DEF IInv, TypeOK, LinksOfOpen, PC
  <1>3. /\ \/ address # None /\ pc'[t] = [at |-> "set", open |-> made[address]] /\ UNCHANGED <<mutex, asleep>>
           \/ pc'[t].at = "idle" /\ mutex' = None /\ UNCHANGED asleep
           \/ address = None /\ connected /\ asleep' = asleep \cup {t} /\ UNCHANGED <<mutex, pc>>
        /\ pc' \in [Threads -> PC]
        /\ \A u \in Threads \ {t} : pc'[u] = pc[u]
    <2>1. pc \in [Threads -> PC]
      BY DEF IInv, TypeOK, PC
    <2>2. QED
      BY <1>1, <1>2, <2>1, GotoFacts, AtFacts DEF IInv
  <1>4. mutex = t /\ \A i \in DOMAIN jobs : ~IsInit(jobs[i])
    <2>1. mutex = t
      BY <1>1 DEF IInv, MutexHeld, InitPlaces
    <2>2. \A i \in DOMAIN jobs : IsInit(jobs[i]) => jobs[i].thread \in Threads
      BY DEF IsInit, InitJobs
    <2>3. QED
      BY <1>1, <2>1, <2>2 DEF IInv, OneInitJob, MutexHeld, InitPlaces
  <1>5. TypeOK'
    BY <1>1, <1>3 DEF IInv, TypeOK, PC
  <1>6. Bound'
    BY <1>1, <1>3, BoundKept DEF IInv, TypeOK, Starting
  <1>7. IdsGiven' /\ MutexHeld' /\ OneInitJob' /\ PendingHasCall' /\ DoneOwn'
    BY <1>1, <1>3, <1>4, ManagementAssumption
    DEF IInv, IdsGiven, MutexHeld, OneInitJob, PendingHasCall, DoneOwn, InitPlaces, IdPlaces
  <1>8. LinksOfOpen' /\ InitializedHasLinks'
    BY <1>1, <1>3, <1>4 DEF IInv, LinksOfOpen, InitializedHasLinks
  <1>9. SetSaw'
    <2>1. \A u \in Threads \ {t} : pc'[u] = pc[u]
      BY <1>3
    <2>2. pc'[t].at = "set" =>
            /\ pc'[t].open <= opens /\ address # None
            /\ pc'[t].open = opens => opening = "done"
      <3>1. opens \in Nat /\ (address # None => made[address] \in Nat)
        <4>1. opens \in Nat /\ made \in Seq(Opens) /\ (address # None => address \in DOMAIN made)
          BY DEF IInv, TypeOK, LinksOfOpen, Opens
        <4>2. \A i \in DOMAIN made : made[i] \in Opens
          BY <4>1
        <4>3. QED
          BY <4>1, <4>2 DEF Opens
      <3>2. pc'[t].at = "set" => address # None /\ pc'[t].open = made[address]
        BY <1>1, <1>3
      <3>3. QED
        BY <1>2, <3>1, <3>2
    <2>3. QED
      BY <1>1, <2>1, <2>2 DEF IInv, SetSaw
  <1>10. Sleepers'
    BY <1>1, <1>3 DEF IInv, TypeOK, Sleepers
  <1>11. QED
    BY <1>5, <1>6, <1>7, <1>8, <1>9, <1>10 DEF IInv

\* The links are there, or the connection is not that of the call.
LEMMA SetInitializedInv == ASSUME IInv, NEW t \in Threads, SetInitialized(t) PROVE IInv'
  <1>1. /\ pc[t].at = "set" /\ mutex = t
        /\ initialized' = TRUE /\ mutex' = None /\ Goto(t, At("build"))
        /\ late' = IF pc[t].open = opens THEN late ELSE late \cup {opens}
        /\ UNCHANGED <<connected, up, workQueue, opens, opening, sender, receiver, address, made, counter, pending,
                       replies, failed, jobs, requests, answers, asleep>>
    BY DEF SetInitialized, conn, calls, broker, IInv, MutexHeld, InitPlaces
  <1>2. /\ pc'[t].at = "build" /\ pc' \in [Threads -> PC]
        /\ \A u \in Threads \ {t} : pc'[u] = pc[u]
    BY <1>1, GotoFacts, AtFacts DEF IInv
  <1>3. TypeOK'
    BY <1>1, <1>2 DEF IInv, TypeOK, PC
  <1>4. Bound'
    BY <1>1, <1>2, BoundKept DEF IInv, TypeOK, Starting
  <1>5. IdsGiven' /\ MutexHeld' /\ PendingHasCall' /\ DoneOwn'
    BY <1>1, <1>2, ManagementAssumption DEF IInv, IdsGiven, MutexHeld, PendingHasCall, DoneOwn, InitPlaces, IdPlaces
  <1>6. OneInitJob'
    BY <1>1, <1>2 DEF IInv, OneInitJob, IsInit, InitJobs
  <1>7. LinksOfOpen' /\ SetSaw' /\ InitializedHasLinks' /\ Sleepers'
    BY <1>1, <1>2 DEF IInv, TypeOK, LinksOfOpen, SetSaw, InitializedHasLinks, Sleepers
  <1>8. QED
    BY <1>3, <1>4, <1>5, <1>6, <1>7 DEF IInv

\* A request gets an ID that no other had.
LEMMA BuildInv == ASSUME IInv, NEW t \in Threads, Build(t) PROVE IInv'
  <1>1. /\ pc[t].at = "build" /\ counter' = counter + 1 /\ pending' = pending \cup {counter + 1}
        /\ Goto(t, Call("schedule", counter + 1, address))
        /\ UNCHANGED <<connected, up, workQueue, opens, opening, initialized, sender, receiver, address, made,
                       mutex, replies, failed, jobs, requests, answers, asleep, late>>
    BY AtFacts DEF Build, conn, links, broker
  <1>2. counter \in Nat /\ counter + 1 \in Ids
        /\ IsFiniteSet({u \in Threads : pc[u].at \in Starting} \ {t})
        /\ counter + 1 + Cardinality({u \in Threads : pc[u].at \in Starting} \ {t}) <= MaxRequests
    <2> DEFINE before == {u \in Threads : pc[u].at \in Starting}
               rest == before \ {t}
    <2>1. /\ t \in before
      BY <1>1 DEF Starting
    <2>2. IsFiniteSet(before) /\ counter + Cardinality(before) <= MaxRequests /\ counter \in Nat
      BY DEF IInv, Bound, TypeOK
    <2> HIDE DEF before
    <2>3. IsFiniteSet(rest) /\ Cardinality(rest) = Cardinality(before) - 1
      BY <2>1, <2>2, FS_RemoveElement
    <2>4. Cardinality(before) \in Nat /\ Cardinality(rest) \in Nat
      BY <2>2, <2>3, FS_CardinalityType
    <2> HIDE DEF rest
    <2>5. counter + 1 \in Ids /\ counter + 1 + Cardinality(rest) <= MaxRequests
      BY <2>2, <2>3, <2>4, ManagementAssumption DEF Ids
    <2>6. QED
      BY <2>2, <2>3, <2>5 DEF rest, before
  <1>3. /\ pc'[t].at = "schedule" /\ pc'[t].id = counter + 1 /\ pc' \in [Threads -> PC]
        /\ \A u \in Threads \ {t} : pc'[u] = pc[u]
    <2>1. Call("schedule", counter + 1, address) \in PC
      BY <1>2 DEF IInv, TypeOK, Call, PC
    <2>2. QED
      BY <1>1, <2>1, GotoFacts DEF IInv, Call
  <1>4. TypeOK'
    BY <1>1, <1>2, <1>3, SMTT(30) DEF IInv, TypeOK, PC, Ids
  <1>5. Bound'
    <2>1. {u \in Threads : pc'[u].at \in Starting} = {u \in Threads : pc[u].at \in Starting} \ {t}
      BY <1>1, <1>3 DEF Starting
    <2>2. QED
      BY <1>1, <1>2, <2>1 DEF Bound
  <1>6. IdsGiven'
    <2>1. /\ \A i \in DOMAIN jobs : jobs[i] \in Requests => jobs[i].id \in Nat
          /\ \A u \in Threads : pc[u].at \in IdPlaces => pc[u].id \in Nat
      BY PCFacts DEF IInv, Requests, Ids
    <2>2. QED
      BY <1>1, <1>2, <1>3, <2>1 DEF IInv, IdsGiven
  <1>7. MutexHeld' /\ PendingHasCall' /\ DoneOwn'
    BY <1>1, <1>3 DEF IInv, MutexHeld, PendingHasCall, DoneOwn, InitPlaces, IdPlaces
  <1>8. OneInitJob'
    BY <1>1, <1>3 DEF IInv, OneInitJob, IsInit, InitJobs
  <1>9. LinksOfOpen' /\ SetSaw' /\ InitializedHasLinks' /\ Sleepers'
    BY <1>1, <1>3 DEF IInv, TypeOK, LinksOfOpen, SetSaw, InitializedHasLinks, Sleepers
  <1>10. QED
    BY <1>4, <1>5, <1>6, <1>7, <1>8, <1>9 DEF IInv

\* A request that has an ID is in the work queue, or its call leaves.
LEMMA ScheduleInv == ASSUME IInv, NEW t \in Threads, Schedule(t) PROVE IInv'
  <1>1. /\ pc[t].at = "schedule"
        /\ pc[t] \in [at : {"schedule", "waiting", "leave"}, id : Ids, to : Receivers \cup {None}]
    BY PCFacts DEF IInv, Schedule
  <1>2. /\ jobs' \in {jobs, Append(jobs, SendJob(pc[t].id, pc[t].to))}
        /\ \E where \in {"waiting", "leave"} : Goto(t, [pc[t] EXCEPT !.at = where])
        /\ UNCHANGED <<connected, up, workQueue, opens, opening, initialized, sender, receiver, address, made,
                       mutex, counter, pending, replies, failed, requests, answers, asleep, late>>
    BY DEF Schedule, conn, links, calls, broker
  <1>3. /\ pc'[t].at \in {"waiting", "leave"} /\ pc'[t].id = pc[t].id /\ pc' \in [Threads -> PC]
        /\ \A u \in Threads \ {t} : pc'[u] = pc[u]
    <2>1. PICK where \in {"waiting", "leave"} : Goto(t, [pc[t] EXCEPT !.at = where])
      BY <1>2
    <2>2. /\ [pc[t] EXCEPT !.at = where] \in PC
          /\ [pc[t] EXCEPT !.at = where].at = where
          /\ [pc[t] EXCEPT !.at = where].id = pc[t].id
      BY <1>1 DEF PC
    <2>3. QED
      BY <2>1, <2>2, GotoFacts DEF IInv
  <1>4. /\ jobs \in Seq(InitJobs \cup Requests) /\ jobs' \in Seq(InitJobs \cup Requests)
        /\ \A i \in DOMAIN jobs' : \/ i \in DOMAIN jobs /\ jobs'[i] = jobs[i]
                                   \/ ~IsInit(jobs'[i]) /\ jobs'[i].id = pc[t].id
    <2>1. /\ SendJob(pc[t].id, pc[t].to) \in Requests /\ SendJob(pc[t].id, pc[t].to).id = pc[t].id
          /\ ~IsInit(SendJob(pc[t].id, pc[t].to))
      BY <1>1, SendJobFacts
    <2>2. jobs \in Seq(InitJobs \cup Requests)
      BY DEF IInv, TypeOK, InitJobs
    <2>3. CASE UNCHANGED jobs
      BY <2>2, <2>3
    <2>4. CASE jobs' = Append(jobs, SendJob(pc[t].id, pc[t].to))
      <3>1. PICK job \in Requests : job = SendJob(pc[t].id, pc[t].to) /\ job.id = pc[t].id /\ ~IsInit(job)
        BY <2>1
      <3>2. /\ jobs' \in Seq(InitJobs \cup Requests)
            /\ DOMAIN jobs' = 1 .. Len(jobs) + 1 /\ DOMAIN jobs = 1 .. Len(jobs) /\ Len(jobs) \in Nat
            /\ jobs'[Len(jobs) + 1] = job
            /\ \A i \in DOMAIN jobs : jobs'[i] = jobs[i]
        BY <2>2, <2>4, <3>1, QueueFacts
      <3>3. QED
        BY <2>2, <3>1, <3>2
    <2>5. QED
      BY <1>2, <2>3, <2>4
  <1>5. TypeOK'
    BY <1>1, <1>2, <1>3, <1>4 DEF IInv, TypeOK, PC, InitJobs
  <1>6. Bound'
    BY <1>2, <1>3, BoundKept DEF IInv, TypeOK, Starting
  <1>7. IdsGiven'
    BY <1>1, <1>2, <1>3, <1>4 DEF IInv, IdsGiven, IdPlaces
  <1>8. OneInitJob'
    BY <1>1, <1>2, <1>3, <1>4 DEF IInv, OneInitJob, IsInit, InitJobs
  <1>9. MutexHeld' /\ PendingHasCall' /\ DoneOwn'
    BY <1>1, <1>2, <1>3 DEF IInv, MutexHeld, PendingHasCall, DoneOwn, InitPlaces, IdPlaces
  <1>10. LinksOfOpen' /\ SetSaw' /\ InitializedHasLinks' /\ Sleepers'
    BY <1>1, <1>2, <1>3 DEF IInv, TypeOK, LinksOfOpen, SetSaw, InitializedHasLinks, Sleepers
  <1>11. QED
    BY <1>5, <1>6, <1>7, <1>8, <1>9, <1>10 DEF IInv

\* A call takes the reply kept for it, or sleeps without one.
LEMMA TestReplyInv == ASSUME IInv, NEW t \in Threads, TestReply(t) PROVE IInv'
  <1>1. /\ pc[t].at = "waiting"
        /\ pc[t] \in [at : {"schedule", "waiting", "leave"}, id : Ids, to : Receivers \cup {None}]
    BY PCFacts DEF IInv, TestReply
  <1>2. /\ t \notin asleep
        /\ \/ Goto(t, [pc[t] EXCEPT !.at = "leave"]) /\ UNCHANGED asleep
           \/ /\ pc[t].id \in DOMAIN replies /\ UNCHANGED asleep
              /\ Goto(t, [at |-> "done", id |-> pc[t].id, reply |-> replies[pc[t].id]])
           \/ /\ pc[t].id \notin failed /\ pc[t].id \notin DOMAIN replies
              /\ asleep' = asleep \cup {t} /\ UNCHANGED pc
        /\ UNCHANGED <<connected, up, workQueue, opens, opening, initialized, sender, receiver, address, made,
                       mutex, counter, pending, replies, failed, jobs, requests, answers, late>>
    BY DEF TestReply, conn, links, calls, broker
  <1>3. /\ \/ pc'[t].at = "leave" /\ pc'[t].id = pc[t].id /\ UNCHANGED asleep
           \/ pc'[t].at = "done" /\ pc'[t].id = pc[t].id /\ pc'[t].reply = pc[t].id /\ UNCHANGED asleep
           \/ /\ pc[t].id \notin failed /\ pc[t].id \notin DOMAIN replies
              /\ asleep' = asleep \cup {t} /\ UNCHANGED pc
        /\ pc' \in [Threads -> PC]
        /\ \A u \in Threads \ {t} : pc'[u] = pc[u]
    <2>1. CASE Goto(t, [pc[t] EXCEPT !.at = "leave"]) /\ UNCHANGED asleep
      <3>1. /\ [pc[t] EXCEPT !.at = "leave"] \in PC
            /\ [pc[t] EXCEPT !.at = "leave"].at = "leave"
            /\ [pc[t] EXCEPT !.at = "leave"].id = pc[t].id
        BY <1>1 DEF PC
      <3>2. QED
        BY <2>1, <3>1, GotoFacts DEF IInv
    <2>2. CASE /\ pc[t].id \in DOMAIN replies /\ UNCHANGED asleep
               /\ Goto(t, [at |-> "done", id |-> pc[t].id, reply |-> replies[pc[t].id]])
      <3>1. replies[pc[t].id] = pc[t].id
        BY <2>2 DEF IInv, IdsGiven
      <3>2. [at |-> "done", id |-> pc[t].id, reply |-> pc[t].id] \in PC
        BY <1>1 DEF PC
      <3>3. QED
        BY <2>2, <3>1, <3>2, GotoFacts DEF IInv
    <2>3. CASE /\ pc[t].id \notin failed /\ pc[t].id \notin DOMAIN replies
               /\ asleep' = asleep \cup {t} /\ UNCHANGED pc
      BY <2>3 DEF IInv, TypeOK, PC
    <2>4. QED
      BY <1>2, <2>1, <2>2, <2>3
  <1>4. TypeOK'
    BY <1>1, <1>2, <1>3 DEF IInv, TypeOK, PC
  <1>5. Bound'
    BY <1>2, <1>3, BoundKept DEF IInv, TypeOK, Starting
  <1>6. IdsGiven' /\ MutexHeld' /\ PendingHasCall' /\ DoneOwn'
    BY <1>1, <1>2, <1>3 DEF IInv, IdsGiven, MutexHeld, PendingHasCall, DoneOwn, InitPlaces, IdPlaces
  <1>7. OneInitJob'
    BY <1>1, <1>2, <1>3 DEF IInv, OneInitJob, IsInit, InitJobs
  <1>8. LinksOfOpen' /\ SetSaw' /\ InitializedHasLinks'
    BY <1>1, <1>2, <1>3 DEF IInv, LinksOfOpen, SetSaw, InitializedHasLinks
  <1>9. Sleepers'
    BY <1>1, <1>2, <1>3 DEF IInv, TypeOK, Sleepers
  <1>10. QED
    BY <1>4, <1>5, <1>6, <1>7, <1>8, <1>9 DEF IInv

\* A call that gives up still has its request to forget.
LEMMA GiveUpReplyInv == ASSUME IInv, NEW t \in Threads, GiveUpReply(t) PROVE IInv'
  <1>1. /\ pc[t].at = "waiting"
        /\ pc[t] \in [at : {"schedule", "waiting", "leave"}, id : Ids, to : Receivers \cup {None}]
    BY PCFacts DEF IInv, GiveUpReply
  <1>2. /\ asleep' = asleep \ {t} /\ Goto(t, [pc[t] EXCEPT !.at = "leave"])
        /\ UNCHANGED <<connected, up, workQueue, opens, opening, initialized, sender, receiver, address, made,
                       mutex, counter, pending, replies, failed, jobs, requests, answers, late>>
    BY DEF GiveUpReply, conn, links, calls, broker
  <1>3. /\ pc'[t].at = "leave" /\ pc'[t].id = pc[t].id /\ pc' \in [Threads -> PC]
        /\ \A u \in Threads \ {t} : pc'[u] = pc[u]
    <2>1. /\ [pc[t] EXCEPT !.at = "leave"] \in PC
          /\ [pc[t] EXCEPT !.at = "leave"].at = "leave"
          /\ [pc[t] EXCEPT !.at = "leave"].id = pc[t].id
      BY <1>1 DEF PC
    <2>2. QED
      BY <1>2, <2>1, GotoFacts DEF IInv
  <1>4. TypeOK'
    BY <1>1, <1>2, <1>3 DEF IInv, TypeOK, PC
  <1>5. Bound'
    BY <1>2, <1>3, BoundKept DEF IInv, TypeOK, Starting
  <1>6. IdsGiven' /\ MutexHeld' /\ PendingHasCall' /\ DoneOwn'
    BY <1>1, <1>2, <1>3 DEF IInv, IdsGiven, MutexHeld, PendingHasCall, DoneOwn, InitPlaces, IdPlaces
  <1>7. OneInitJob'
    BY <1>1, <1>2, <1>3 DEF IInv, OneInitJob, IsInit, InitJobs
  <1>8. LinksOfOpen' /\ SetSaw' /\ InitializedHasLinks' /\ Sleepers'
    BY <1>1, <1>2, <1>3 DEF IInv, TypeOK, LinksOfOpen, SetSaw, InitializedHasLinks, Sleepers
  <1>9. QED
    BY <1>4, <1>5, <1>6, <1>7, <1>8 DEF IInv

\* A call that returns forgets its request and its reply.
LEMMA LeaveInv == ASSUME IInv, NEW t \in Threads, Leave(t) PROVE IInv'
  <1>1. /\ pc[t].at \in {"done", "leave"} /\ Goto(t, At("idle"))
        /\ pending' = pending \ {pc[t].id}
        /\ replies' = [i \in DOMAIN replies \ {pc[t].id} |-> replies[i]]
        /\ UNCHANGED <<connected, up, workQueue, opens, opening, initialized, sender, receiver, address, made,
                       mutex, counter, failed, jobs, requests, answers, asleep, late>>
    BY DEF Leave, conn, links, broker, Idle
  <1>2. /\ pc'[t].at = "idle" /\ pc' \in [Threads -> PC]
        /\ \A u \in Threads \ {t} : pc'[u] = pc[u]
    BY <1>1, GotoFacts, AtFacts DEF IInv
  <1>3. TypeOK'
    BY <1>1, <1>2 DEF IInv, TypeOK, PC
  <1>4. Bound'
    BY <1>1, <1>2, BoundKept DEF IInv, TypeOK, Starting
  <1>5. IdsGiven' /\ MutexHeld' /\ PendingHasCall' /\ DoneOwn'
    BY <1>1, <1>2 DEF IInv, IdsGiven, MutexHeld, PendingHasCall, DoneOwn, InitPlaces, IdPlaces
  <1>6. OneInitJob'
    BY <1>1, <1>2 DEF IInv, OneInitJob, IsInit, InitJobs
  <1>7. LinksOfOpen' /\ SetSaw' /\ InitializedHasLinks' /\ Sleepers'
    BY <1>1, <1>2 DEF IInv, TypeOK, LinksOfOpen, SetSaw, InitializedHasLinks, Sleepers
  <1>8. QED
    BY <1>3, <1>4, <1>5, <1>6, <1>7 DEF IInv

\* Every step of the specification preserves the invariant.
LEMMA StepInv == IInv /\ [Next]_vars => IInv'
  <1>1. SUFFICES ASSUME IInv, [Next]_vars PROVE IInv'
    OBVIOUS
  <1>2. CASE UNCHANGED vars
    BY <1>1, <1>2
    DEF vars, conn, links, calls, broker, IInv, TypeOK, Bound, IdsGiven, MutexHeld, OneInitJob, PendingHasCall,
        DoneOwn, LinksOfOpen, SetSaw, InitializedHasLinks, Sleepers
  <1>3. CASE EventThread \/ Broker
    BY <1>1, <1>3, RunInitInv, RunSendInv, LoseInv, ReopenInv, ForgetInitializedInv, ForgetAddressInv,
       OnReceiverOpenInv, OnErrorInv, AnswerInv, OnMessageInv DEF EventThread, Broker
  <1>4. ASSUME NEW t \in Threads, Start(t) \/ Going(t) \/ GivingUp(t) \/ Close(t) PROVE IInv'
    BY <1>1, <1>4, StartInv, TestInv, LockInv, TestAddressInv, SetInitializedInv, BuildInv, ScheduleInv,
       TestReplyInv, LeaveInv, GiveUpInitInv, GiveUpReplyInv, CloseInv DEF Going, GivingUp
  <1>5. QED
    BY <1>1, <1>2, <1>3, <1>4 DEF Next

-----------------------------------------------------------------------------
(* Theorems                                                                *)

\* The invariant of every behavior.
LEMMA Invariant == Spec => []IInv
  BY InitInv, StepInv, PTL DEF Spec

\* IDs stay below the bound, and every variable is of its type.
THEOREM TypeCorrect == Spec => []TypeOK
  <1>1. IInv => TypeOK
    BY DEF IInv
  <1>2. QED
    BY Invariant, <1>1, PTL

\* managementRequest() returns the reply to its own request, because replies
\* are kept by ID; and it leaves neither its request nor a reply behind.
THEOREM RepliesAreOwn == Spec => []OwnReply
  <1>1. ASSUME IInv PROVE OwnReply
    <2>1. \A t \in Threads : pc[t].at = "done" => pc[t].reply = pc[t].id
      BY <1>1 DEF IInv, DoneOwn
    <2>2. \A t \in Threads : pc[t].at \in IdPlaces <=> "id" \in DOMAIN pc[t]
      BY <1>1, PCFacts DEF IInv
    <2>3. DOMAIN replies \subseteq pending
      BY <1>1 DEF IInv, TypeOK
    <2>4. QED
      BY <1>1, <2>1, <2>2, <2>3 DEF IInv, PendingHasCall, OwnReply
  <1>2. QED
    BY Invariant, <1>1, PTL

\* mgmt_initialized_ on an open connection means that the sender and the reply
\* address are of that connection, but while on_connection_open() has still to
\* forget earlier ones, or when a call that saw an earlier address has set it;
\* and nobody makes the links again while it is set: only the holder of
\* mgmt_mutex_ makes them.
THEOREM LinksAreCurrent == Spec => []InitializedIsCurrent
  <1>1. ASSUME IInv PROVE InitializedIsCurrent
    <2>1. initialized /\ connected /\ opening = "done" /\ opens \notin late =>
            sender = opens /\ receiver \in Attached /\ address = receiver
      BY <1>1 DEF IInv, TypeOK, InitializedHasLinks, LinksOfOpen, Attached
    <2>2. initialized => \A t \in Threads : pc[t].at \notin {"creating", "address", "set"}
      BY <1>1, ManagementAssumption DEF IInv, InitializedHasLinks, MutexHeld, InitPlaces
    <2>3. QED
      BY <2>1, <2>2 DEF InitializedIsCurrent
  <1>2. QED
    BY Invariant, <1>1, PTL

\* No wakeup is lost: what a sleeping thread waits for is not there.
THEOREM NoLostWakeup == Spec => []SleepersWait
  <1>1. ASSUME IInv PROVE SleepersWait
    BY <1>1 DEF IInv, TypeOK, Sleepers, SleepersWait
  <1>2. QED
    BY Invariant, <1>1, PTL
=============================================================================
