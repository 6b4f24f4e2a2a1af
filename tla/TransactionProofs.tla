------------------------- MODULE TransactionProofs -------------------------
(***************************************************************************)
(* The invariants of Transaction, proved for any ids, links and messages,  *)
(* and any number of begins.                                               *)
(*                                                                         *)
(* SentInside and AtomicInTime are proved for one thread: txn_active_,     *)
(* txn_id_ and the flags of the answers are shared, and a second thread    *)
(* that begins resets them under the first. For one thread, SentInside     *)
(* needs to know that a begin that comes to its end without an error has   *)
(* an id (Inside). AtomicInTime rests on there being at most one request   *)
(* at any time, in the work queue or on a link, which is what the thread   *)
(* waits for (OneRequest), so that an answer is the answer to it, and the  *)
(* id does not change under the messages that are sent with it (Ended).    *)
(***************************************************************************)
EXTENDS Transaction, TLAPS

-----------------------------------------------------------------------------
(* The inductive invariant                                                 *)

Beginning == {"begin", "creating", "credit", "declaring", "closing"}
Ending == {"committing", "rollingBack"} \cup Ends

\* A begin has a number.
Begun == \A t \in Threads : pc[t] \in Beginning => call[t] \in 1 .. MaxBegins

IInv ==
    /\ TypeOK
    /\ Begun

OneThread == \A t, u \in Threads : t = u

\* What is sent while a transaction is active is sent under its id.
Inside ==
    /\ active => id # None
    /\ ~active => inside = {}
    /\ \A m \in inside \ Acks : under[m] # "plain"
    /\ \A t \in Threads :
         /\ pc[t] \in Beginning \cup {"plain"} => ~active
         /\ pc[t] \in Ending \cup {"sending"} => active
         /\ pc[t] \in {"sending", "plain"} => arg[t] \in Messages \ Acks /\ under[arg[t]] = None
         /\ pc[t] \in {"creating", "credit", "declaring"} /\ declareDone /\ ~error => id # None

\* What a thread waits for, and has no answer to yet.
Awaited(kind, x) ==
    \E t \in Threads :
        \/ kind = "declare" /\ pc[t] = "declaring" /\ ~declareDone
        \/ kind \in Ends /\ pc[t] = Waiting(kind) /\ ~dischargeDone /\ x = id

Asks(i) == jobs[i].kind \in {"declare"} \cup Ends

\* There is one request at most, in the queue or on a link, and it is awaited.
OneRequest ==
    /\ \A i, j \in DOMAIN jobs : Asks(i) /\ Asks(j) => i = j
    /\ \A i \in DOMAIN jobs : Asks(i) => /\ Awaited(jobs[i].kind, jobs[i].about)
                                         /\ \A l \in Links : wire[l] = <<>>
    /\ \A l \in Links : wire[l] # <<>> => /\ Awaited(Head(wire[l]).kind, Head(wire[l]).txn)
                                          /\ Tail(wire[l]) = <<>>
                                          /\ \A k \in Links : wire[k] # <<>> => k = l

\* How a transaction ends is what was said of its messages.
Ended ==
    /\ \A t \in Threads :
         /\ pc[t] \in {"creating", "credit"} => ~declareDone
         /\ \A kind \in Ends :
              pc[t] = Waiting(kind) /\ dischargeDone /\ ~error => id \in Txns /\ txns[id] = Outcome(kind)
    /\ \A m \in inside \ Acks : under[m] = id \/ \E t \in Threads : pc[t] = "sending" /\ arg[t] = m
    /\ \A m \in Messages \ Acks : told[m] # None => under[m] \in Txns /\ txns[under[m]] = told[m]

Timely == gaveUp \/ (OneRequest /\ Ended)

-----------------------------------------------------------------------------
(* Jobs, requests and places                                               *)

\* Jobs by their kind.
LEMMA JobFacts ==
    /\ \A x \in Txns \cup {None}, kind \in {"declare"} \cup Ends : /\ Job(kind, x) \in Jobs
                                                                   /\ Job(kind, x).kind = kind
                                                                   /\ Job(kind, x).about = x
    /\ \A l \in Links : Job("release", l) \in Jobs /\ Job("release", l).kind = "release"
    /\ \A c \in 1 .. MaxBegins : CreateJob(c) \in Jobs /\ CreateJob(c).kind = "create"
    /\ \A job \in Jobs : /\ job.kind = "create" => job.call \in 1 .. MaxBegins
                         /\ job.kind \in {"declare"} \cup Ends => job.about \in Txns \cup {None}
                         /\ job.kind = "release" => job.about \in Links
    /\ "create" \notin {"declare"} \cup Ends /\ "release" \notin {"declare"} \cup Ends /\ "declare" \notin Ends
  <1>1. "create" \notin {"declare"} \cup Ends /\ "release" \notin {"declare"} \cup Ends /\ "declare" \notin Ends
    BY DEF Ends
  <1>2. \A x \in Txns \cup {None}, kind \in {"declare"} \cup Ends : /\ Job(kind, x) \in Jobs
                                                                     /\ Job(kind, x).kind = kind
                                                                     /\ Job(kind, x).about = x
    BY DEF Job, Jobs
  <1>3. \A l \in Links : Job("release", l) \in Jobs /\ Job("release", l).kind = "release"
    BY DEF Job, Jobs
  <1>4. \A c \in 1 .. MaxBegins : CreateJob(c) \in Jobs /\ CreateJob(c).kind = "create"
    BY DEF CreateJob, Jobs
  <1>5. \A job \in Jobs : /\ job.kind = "create" => job.call \in 1 .. MaxBegins
                          /\ job.kind \in {"declare"} \cup Ends => job.about \in Txns \cup {None}
                          /\ job.kind = "release" => job.about \in Links
    BY <1>1 DEF Jobs
  <1>6. QED
    BY <1>1, <1>2, <1>3, <1>4, <1>5

\* The job that runs next, and what is queued once it is gone.
LEMMA RunsFacts ==
    ASSUME TypeOK, NEW kind, RunsNext(kind)
    PROVE  /\ Head(jobs) \in Jobs /\ Head(jobs).kind = kind /\ Head(jobs) = jobs[1] /\ 1 \in DOMAIN jobs
           /\ jobs' \in Seq(Jobs)
           /\ \A i \in DOMAIN jobs' : i + 1 \in DOMAIN jobs /\ i + 1 # 1 /\ jobs'[i] = jobs[i + 1]
           /\ \A i, j \in DOMAIN jobs' : i + 1 = j + 1 => i = j
  <1>1. jobs \in Seq(Jobs) /\ jobs # <<>> /\ Head(jobs).kind = kind /\ jobs' = Tail(jobs)
    BY DEF TypeOK, RunsNext
  <1>2. /\ Head(jobs) \in Jobs /\ Head(jobs) = jobs[1] /\ 1 \in DOMAIN jobs
        /\ jobs' \in Seq(Jobs) /\ DOMAIN jobs' = 1 .. Len(jobs) - 1
        /\ DOMAIN jobs = 1 .. Len(jobs) /\ Len(jobs) \in Nat
        /\ \A i \in DOMAIN jobs' : jobs'[i] = jobs[i + 1]
    BY <1>1
  <1>3. \A i, j \in DOMAIN jobs' : i + 1 \in DOMAIN jobs /\ i + 1 # 1 /\ (i + 1 = j + 1 => i = j)
    BY <1>2
  <1>4. QED
    BY <1>1, <1>2, <1>3

\* What is queued once a job is added.
LEMMA AppendFacts ==
    ASSUME TypeOK, NEW job \in Jobs, jobs' = Append(jobs, job)
    PROVE  /\ jobs' \in Seq(Jobs)
           /\ \E n \in DOMAIN jobs' \ DOMAIN jobs :
                /\ jobs'[n] = job
                /\ \A i \in DOMAIN jobs' \ {n} : i \in DOMAIN jobs /\ jobs'[i] = jobs[i]
  <1>1. jobs \in Seq(Jobs)
    BY DEF TypeOK
  <1>2. PICK n \in Nat : n = Len(jobs) + 1
    BY <1>1
  <1>3. /\ jobs' \in Seq(Jobs) /\ DOMAIN jobs' = DOMAIN jobs \cup {n} /\ n \notin DOMAIN jobs /\ jobs'[n] = job
        /\ \A i \in DOMAIN jobs : jobs'[i] = jobs[i]
    BY <1>1, <1>2
  <1>4. QED
    BY <1>3

\* A thread that goes on is at a new place, and the others where they were.
LEMMA GotoFacts ==
    ASSUME TypeOK, NEW t \in Threads, NEW where \in Places, Goto(t, where)
    PROVE  /\ pc' \in [Threads -> Places] /\ pc'[t] = where
           /\ \A u \in Threads \ {t} : pc'[u] = pc[u]
  <1>1. pc \in [Threads -> Places]
    BY DEF TypeOK
  <1>2. QED
    BY <1>1 DEF Goto

\* The places that threads go to.
LEMMA PlaceFacts ==
    /\ {"idle", "begin", "creating", "credit", "declaring", "closing", "sending", "plain", "committing",
        "rollingBack", "commit", "rollback"} = Places
    /\ \A kind \in Ends : Waiting(kind) \in {"committing", "rollingBack"} /\ kind \in {"commit", "rollback"}
    /\ \A kind, other \in Ends : Waiting(kind) = Waiting(other) => kind = other
    /\ Beginning \cap (Ending \cup {"idle", "sending", "plain"}) = {}
    /\ Ending \cap {"idle", "sending", "plain"} = {}
    /\ \A kind \in Ends : Waiting(kind) \in Ending /\ kind \in Ending
  BY DEF Places, Ends, Waiting, Beginning, Ending

\* A link that is closed has no requests, and its transactions are rolled back; what is over stays as it is.
LEMMA EndLinkFacts ==
    ASSUME TypeOK, NEW l \in Links, EndLink(l)
    PROVE  /\ link' \in [Links -> {"none", "opening", "open", "closed"}]
           /\ txns' \in [Txns -> {"none", "declared", "committed", "rolledBack"}]
           /\ wire' \in [Links -> Seq(Requests)]
           /\ \A k \in Links : wire'[k] \in {wire[k], <<>>}
           /\ \A x \in Txns : txns[x] \in {"committed", "rolledBack"} => txns'[x] = txns[x]
  <1>1. /\ link \in [Links -> {"none", "opening", "open", "closed"}]
        /\ txns \in [Txns -> {"none", "declared", "committed", "rolledBack"}]
        /\ wire \in [Links -> Seq(Requests)]
        /\ link' = [link EXCEPT ![l] = "closed"]
        /\ wire' = [wire EXCEPT ![l] = <<>>]
    BY DEF TypeOK, EndLink
  <1>2. \A x \in Txns : txns'[x] = IF on[x] = l /\ txns[x] = "declared" THEN "rolledBack" ELSE txns[x]
    BY DEF EndLink
  <1>3. txns' \in [Txns -> {"none", "declared", "committed", "rolledBack"}]
    BY <1>1 DEF EndLink
  <1>4. <<>> \in Seq(Requests)
    OBVIOUS
  <1>5. wire' \in [Links -> Seq(Requests)] /\ \A k \in Links : wire'[k] \in {wire[k], <<>>}
    BY <1>1, <1>4
  <1>6. QED
    BY <1>1, <1>2, <1>3, <1>5

\* A request is on its way on the coordinator that there is, or nowhere.
LEMMA SendRequestFacts ==
    ASSUME TypeOK, NEW kind \in {"declare"} \cup Ends, NEW x \in Txns \cup {None}, SendRequest(kind, x)
    PROVE  /\ wire' \in [Links -> Seq(Requests)]
           /\ \/ wire' = wire
              \/ \E l \in Links : /\ wire'[l] = Append(wire[l], Request(kind, x))
                                  /\ \A k \in Links \ {l} : wire'[k] = wire[k]
  <1>1. wire \in [Links -> Seq(Requests)] /\ coordinator \in Links \cup {None}
    BY DEF TypeOK
  <1>2. Request(kind, x) \in Requests
    BY DEF Request, Requests
  <1>3. CASE wire' = wire
    BY <1>1, <1>3
  <1>4. CASE coordinator # None /\ wire' = [wire EXCEPT ![coordinator] = Append(@, Request(kind, x))]
    <2>1. PICK l \in Links : l = coordinator
      BY <1>1, <1>4
    <2>2. Append(wire[l], Request(kind, x)) \in Seq(Requests)
      BY <1>1, <1>2
    <2>3. QED
      BY <1>1, <1>4, <2>1, <2>2
  <1>5. QED
    BY <1>3, <1>4 DEF SendRequest

\* The request that is answered is gone from its link.
LEMMA AnsweringFacts ==
    ASSUME TypeOK, NEW l \in Links, NEW kinds, Answering(l, kinds)
    PROVE  /\ Head(wire[l]) \in Requests /\ Head(wire[l]).kind \in kinds /\ wire[l] # <<>>
           /\ Head(wire[l]).txn \in Txns \cup {None}
           /\ wire' \in [Links -> Seq(Requests)]
           /\ wire'[l] = Tail(wire[l]) /\ \A k \in Links \ {l} : wire'[k] = wire[k]
  <1>1. /\ wire \in [Links -> Seq(Requests)] /\ wire[l] # <<>> /\ Head(wire[l]).kind \in kinds
        /\ wire' = [wire EXCEPT ![l] = Tail(@)]
    BY DEF TypeOK, Answering
  <1>2. wire[l] \in Seq(Requests)
    BY <1>1
  <1>3. Head(wire[l]) \in Requests /\ Tail(wire[l]) \in Seq(Requests)
    BY <1>1, <1>2
  <1>4. Head(wire[l]).txn \in Txns \cup {None}
    BY <1>3 DEF Requests
  <1>5. QED
    BY <1>1, <1>3, <1>4

-----------------------------------------------------------------------------
(* Types, for any number of threads                                        *)

\* Whether the coordinator is used again or made, the call has its work.
LEMMA RunCreateInv == ASSUME IInv, RunCreate PROVE IInv'
  <1>1. jobs' \in Seq(Jobs) /\ Head(jobs).call \in 1 .. MaxBegins
    BY RunsFacts, JobFacts DEF RunCreate, IInv
  <1>2. /\ UNCHANGED <<active, id, declareDone, dischargeDone, error, wire, txns, on, pc, arg, call,
                       under, inside, told, gaveUp, begins>>
    BY DEF RunCreate, history
  <1>3. ready' \in BOOLEAN /\ coordinator' \in Links \cup {None}
    BY DEF RunCreate, IInv, TypeOK
  <1>4. link' = link \/ \E l \in Links : link' = [link EXCEPT ![l] = "opening"]
    BY DEF RunCreate
  <1>5. link' \in [Links -> {"none", "opening", "open", "closed"}]
    BY <1>4 DEF IInv, TypeOK
  <1>6. work' \in [1 .. MaxBegins -> WorkStates]
    <2>1. PICK c \in 1 .. MaxBegins : c = Head(jobs).call
      BY <1>1
    <2>2. PICK made \in Links \cup {None} :
            work' = [work EXCEPT ![c].done = TRUE] \/ work' = [work EXCEPT ![c].done = TRUE, ![c].made = made]
      BY <2>1 DEF RunCreate
    <2>3. work \in [1 .. MaxBegins -> WorkStates] /\ work[c] \in WorkStates
      BY DEF IInv, TypeOK
    <2>4. [work[c] EXCEPT !.done = TRUE] \in WorkStates /\ [work[c] EXCEPT !.done = TRUE, !.made = made] \in WorkStates
      BY <2>3 DEF WorkStates
    <2>5. QED
      BY <2>2, <2>3, <2>4
  <1>7. TypeOK'
    BY <1>1, <1>2, <1>3, <1>5, <1>6 DEF IInv, TypeOK
  <1>8. Begun'
    BY <1>2 DEF IInv, Begun
  <1>9. QED
    BY <1>7, <1>8 DEF IInv

\* A Declare is sent on the coordinator, or nowhere.
LEMMA RunDeclareInv == ASSUME IInv, RunDeclare PROVE IInv'
  <1>1. jobs' \in Seq(Jobs)
    BY RunsFacts, JobFacts DEF RunDeclare, IInv
  <1>2. wire' \in [Links -> Seq(Requests)]
    BY SendRequestFacts DEF RunDeclare, IInv
  <1>3. /\ UNCHANGED <<active, id, ready, declareDone, dischargeDone, error, coordinator, link, txns,
                       on, pc, arg, call, work, under, inside, told, gaveUp, begins>>
    BY DEF RunDeclare, flags, broker, local, history
  <1>4. TypeOK'
    BY <1>1, <1>2, <1>3 DEF IInv, TypeOK
  <1>5. Begun'
    BY <1>3 DEF IInv, Begun
  <1>6. QED
    BY <1>4, <1>5 DEF IInv

\* A Discharge is sent on the coordinator, or nowhere.
LEMMA RunDischargeInv == ASSUME IInv, NEW kind \in Ends, RunDischarge(kind) PROVE IInv'
  <1>1. jobs' \in Seq(Jobs) /\ Head(jobs).about \in Txns \cup {None}
    BY RunsFacts, JobFacts DEF RunDischarge, IInv
  <1>2. wire' \in [Links -> Seq(Requests)]
    BY <1>1, SendRequestFacts DEF RunDischarge, IInv
  <1>3. /\ UNCHANGED <<active, id, ready, declareDone, dischargeDone, error, coordinator, link, txns,
                       on, pc, arg, call, work, under, inside, told, gaveUp, begins>>
    BY DEF RunDischarge, flags, broker, local, history
  <1>4. TypeOK'
    BY <1>1, <1>2, <1>3 DEF IInv, TypeOK
  <1>5. Begun'
    BY <1>3 DEF IInv, Begun
  <1>6. QED
    BY <1>4, <1>5 DEF IInv

\* A coordinator that is released is closed.
LEMMA RunReleaseInv == ASSUME IInv, RunRelease PROVE IInv'
  <1>1. jobs' \in Seq(Jobs) /\ Head(jobs).about \in Links
    BY RunsFacts, JobFacts DEF RunRelease, IInv
  <1>2. /\ wire' \in [Links -> Seq(Requests)] /\ coordinator' \in Links \cup {None}
        /\ link' \in [Links -> {"none", "opening", "open", "closed"}]
        /\ txns' \in [Txns -> {"none", "declared", "committed", "rolledBack"}]
    BY <1>1, EndLinkFacts DEF RunRelease, IInv, TypeOK
  <1>3. /\ UNCHANGED <<active, id, ready, declareDone, dischargeDone, error, on, pc, arg, call, work,
                       under, inside, told, gaveUp, begins>>
    BY DEF RunRelease, flags, broker, local, history
  <1>4. TypeOK'
    BY <1>1, <1>2, <1>3 DEF IInv, TypeOK
  <1>5. Begun'
    BY <1>3 DEF IInv, Begun
  <1>6. QED
    BY <1>4, <1>5 DEF IInv

\* A coordinator that is attached is open.
LEMMA AttachInv == ASSUME IInv, NEW l \in Links, Attach(l) PROVE IInv'
  <1>1. /\ link' \in [Links -> {"none", "opening", "open", "closed"}]
        /\ UNCHANGED <<active, id, ready, declareDone, dischargeDone, error, coordinator, jobs, wire,
                       txns, on, pc, arg, call, work, under, inside, told, gaveUp, begins>>
    BY DEF Attach, flags, broker, local, history, IInv, TypeOK
  <1>2. TypeOK'
    BY <1>1 DEF IInv, TypeOK
  <1>3. Begun'
    BY <1>1 DEF IInv, Begun
  <1>4. QED
    BY <1>2, <1>3 DEF IInv

\* Credit changes one flag.
LEMMA OnSendableInv == ASSUME IInv, OnSendable PROVE IInv'
  <1>1. /\ ready' \in BOOLEAN
        /\ UNCHANGED <<active, id, declareDone, dischargeDone, error, coordinator, link, jobs, wire,
                       txns, on, pc, arg, call, work, under, inside, told, gaveUp, begins>>
    BY DEF OnSendable, flags, broker, local, history, IInv, TypeOK
  <1>2. TypeOK'
    BY <1>1 DEF IInv, TypeOK
  <1>3. Begun'
    BY <1>1 DEF IInv, Begun
  <1>4. QED
    BY <1>2, <1>3 DEF IInv

\* A coordinator that the broker closes ends the wait for its credit.
LEMMA OnCoordinatorCloseInv == ASSUME IInv, NEW l \in Links, OnCoordinatorClose(l) PROVE IInv'
  <1>1. /\ wire' \in [Links -> Seq(Requests)] /\ error' \in BOOLEAN /\ ready' \in BOOLEAN
        /\ link' \in [Links -> {"none", "opening", "open", "closed"}]
        /\ txns' \in [Txns -> {"none", "declared", "committed", "rolledBack"}]
        /\ UNCHANGED <<active, id, declareDone, dischargeDone, coordinator, jobs, on, pc, arg, call,
                       work, under, inside, told, gaveUp, begins>>
    BY EndLinkFacts DEF OnCoordinatorClose, flags, broker, local, history, IInv, TypeOK
  <1>2. TypeOK'
    BY <1>1 DEF IInv, TypeOK
  <1>3. Begun'
    BY <1>1 DEF IInv, Begun
  <1>4. QED
    BY <1>2, <1>3 DEF IInv

\* A transaction that is declared has an id.
LEMMA AnswerDeclaredInv == ASSUME IInv, NEW l \in Links, AnswerDeclared(l) PROVE IInv'
  <1>1. /\ wire' \in [Links -> Seq(Requests)]
        /\ UNCHANGED <<active, ready, dischargeDone, error, coordinator, link, jobs, pc, arg, call,
                       work, under, inside, told, gaveUp, begins>>
    BY AnsweringFacts DEF AnswerDeclared, Answering, local, history, IInv
  <1>2. PICK x \in Txns :
          /\ txns' = [txns EXCEPT ![x] = "declared"]
          /\ on' = [on EXCEPT ![x] = l]
          /\ id' \in {id, x} /\ declareDone' \in {TRUE, declareDone}
    BY DEF AnswerDeclared
  <1>3. txns' \in [Txns -> {"none", "declared", "committed", "rolledBack"}]
    BY <1>2 DEF IInv, TypeOK
  <1>4. on' \in [Txns -> Links \cup {None}] /\ id' \in Txns \cup {None} /\ declareDone' \in BOOLEAN
    BY <1>2 DEF IInv, TypeOK
  <1>5. TypeOK'
    BY <1>1, <1>3, <1>4 DEF IInv, TypeOK
  <1>6. Begun'
    BY <1>1 DEF IInv, Begun
  <1>7. QED
    BY <1>5, <1>6 DEF IInv

\* A transaction ends as it was asked to.
LEMMA AnswerAcceptedInv == ASSUME IInv, NEW l \in Links, AnswerAccepted(l) PROVE IInv'
  <1>1. /\ wire' \in [Links -> Seq(Requests)]
        /\ txns' \in [Txns -> {"none", "declared", "committed", "rolledBack"}]
        /\ dischargeDone' \in BOOLEAN
        /\ UNCHANGED <<active, id, ready, declareDone, error, coordinator, link, jobs, on, pc, arg,
                       call, work, under, inside, told, gaveUp, begins>>
    BY AnsweringFacts DEF AnswerAccepted, Answering, Outcome, flags, broker, local, history, IInv, TypeOK
  <1>2. TypeOK'
    BY <1>1 DEF IInv, TypeOK
  <1>3. Begun'
    BY <1>1 DEF IInv, Begun
  <1>4. QED
    BY <1>2, <1>3 DEF IInv

\* A request that is rejected ends the wait for a discharge.
LEMMA AnswerRejectedInv == ASSUME IInv, NEW l \in Links, AnswerRejected(l) PROVE IInv'
  <1>1. /\ wire' \in [Links -> Seq(Requests)]
        /\ txns' \in [Txns -> {"none", "declared", "committed", "rolledBack"}]
        /\ dischargeDone' \in BOOLEAN /\ error' \in BOOLEAN
        /\ UNCHANGED <<active, id, ready, declareDone, coordinator, link, jobs, on, pc, arg, call,
                       work, under, inside, told, gaveUp, begins>>
    BY AnsweringFacts DEF AnswerRejected, Answering, Undo, flags, broker, local, history, IInv, TypeOK
  <1>2. TypeOK'
    BY <1>1 DEF IInv, TypeOK
  <1>3. Begun'
    BY <1>1 DEF IInv, Begun
  <1>4. QED
    BY <1>2, <1>3 DEF IInv

\* Any other outcome ends both waits.
LEMMA AnswerUnexpectedInv == ASSUME IInv, NEW l \in Links, AnswerUnexpected(l) PROVE IInv'
  <1>1. /\ wire' \in [Links -> Seq(Requests)]
        /\ txns' \in [Txns -> {"none", "declared", "committed", "rolledBack"}]
        /\ dischargeDone' \in BOOLEAN /\ declareDone' \in BOOLEAN /\ error' \in BOOLEAN
        /\ UNCHANGED <<active, id, ready, coordinator, link, jobs, on, pc, arg, call, work, under,
                       inside, told, gaveUp, begins>>
    BY AnsweringFacts DEF AnswerUnexpected, Answering, Undo, flags, broker, local, history, IInv, TypeOK
  <1>2. TypeOK'
    BY <1>1 DEF IInv, TypeOK
  <1>3. Begun'
    BY <1>1 DEF IInv, Begun
  <1>4. QED
    BY <1>2, <1>3 DEF IInv

\* A begin is counted.
LEMMA BeginInv == ASSUME IInv, NEW t \in Threads, Begin(t) PROVE IInv'
  <1>1. /\ begins' \in 1 .. MaxBegins /\ call' \in [Threads -> 0 .. MaxBegins] /\ call'[t] \in 1 .. MaxBegins
        /\ \A u \in Threads \ {t} : call'[u] = call[u]
        /\ UNCHANGED <<active, id, ready, declareDone, dischargeDone, error, coordinator, link, jobs,
                       wire, txns, on, arg, work, under, inside, told, gaveUp>>
    BY TransactionAssumption DEF Begin, flags, broker, local, history, IInv, TypeOK
  <1>2. "begin" \in Places
    BY PlaceFacts DEF Places
  <1>3. pc' \in [Threads -> Places] /\ pc'[t] = "begin" /\ \A u \in Threads \ {t} : pc'[u] = pc[u]
    BY <1>2, GotoFacts DEF Begin, IInv
  <1>4. TypeOK'
    BY <1>1, <1>3 DEF IInv, TypeOK
  <1>5. Begun'
    BY <1>1, <1>3 DEF IInv, Begun
  <1>6. QED
    BY <1>4, <1>5 DEF IInv

\* A call that begins has a number, and the work that it schedules is a job.
LEMMA BegunFacts ==
    ASSUME IInv, NEW t \in Threads, pc[t] \in Beginning
    PROVE  /\ call[t] \in 1 .. MaxBegins /\ CreateJob(call[t]) \in Jobs
           /\ work[call[t]] \in WorkStates /\ work[call[t]].made \in Links \cup {None}
  <1>1. call[t] \in 1 .. MaxBegins
    BY DEF IInv, Begun
  <1>2. work[call[t]] \in WorkStates
    BY <1>1 DEF IInv, TypeOK
  <1>3. QED
    BY <1>1, <1>2, JobFacts DEF WorkStates

\* A begin starts from nothing.
LEMMA ResetStateInv == ASSUME IInv, NEW t \in Threads, ResetState(t) PROVE IInv'
  <1>1. /\ ready' = FALSE /\ declareDone' = FALSE /\ dischargeDone' = FALSE /\ error' = FALSE /\ id' = None
        /\ jobs' \in Seq(Jobs)
        /\ UNCHANGED <<active, coordinator, link, wire, txns, on, arg, call, work, under, inside,
                       told, gaveUp, begins>>
    BY AppendFacts, BegunFacts, PlaceFacts
    DEF ResetState, Beginning, flags, broker, local, history, IInv, TypeOK
  <1>2. "creating" \in Places
    BY PlaceFacts DEF Places
  <1>3. pc' \in [Threads -> Places] /\ pc'[t] = "creating" /\ \A u \in Threads \ {t} : pc'[u] = pc[u]
    BY <1>2, GotoFacts DEF ResetState, IInv
  <1>4. TypeOK'
    BY <1>1, <1>3 DEF IInv, TypeOK
  <1>5. Begun'
    BY <1>1, <1>3, PlaceFacts DEF IInv, Begun, Beginning, Ending, ResetState
  <1>6. QED
    BY <1>4, <1>5 DEF IInv

\* A call whose work is done waits for credit.
LEMMA CreatedInv == ASSUME IInv, NEW t \in Threads, Created(t) PROVE IInv'
  <1>1. /\ UNCHANGED <<active, id, ready, declareDone, dischargeDone, error, coordinator, link, jobs,
                       wire, txns, on, arg, call, work, under, inside, told, gaveUp, begins>>
    BY DEF Created, flags, broker, local, history, IInv, TypeOK
  <1>2. "credit" \in Places
    BY PlaceFacts DEF Places
  <1>3. pc' \in [Threads -> Places] /\ pc'[t] = "credit" /\ \A u \in Threads \ {t} : pc'[u] = pc[u]
    BY <1>2, GotoFacts DEF Created, IInv
  <1>4. TypeOK'
    BY <1>1, <1>3 DEF IInv, TypeOK
  <1>5. Begun'
    BY <1>1, <1>3, PlaceFacts DEF IInv, Begun, Beginning, Ending, Created
  <1>6. QED
    BY <1>4, <1>5 DEF IInv

\* A call that gives up leaves its work abandoned.
LEMMA GiveUpCreateInv == ASSUME IInv, NEW t \in Threads, GiveUpCreate(t) PROVE IInv'
  <1>1. /\ work' \in [1 .. MaxBegins -> WorkStates]
        /\ UNCHANGED <<active, id, ready, declareDone, dischargeDone, error, coordinator, link, jobs,
                       wire, txns, on, arg, call, under, inside, told, gaveUp, begins>>
    BY BegunFacts DEF GiveUpCreate, Beginning, WorkStates, flags, broker, local, history, IInv, TypeOK
  <1>2. "closing" \in Places
    BY PlaceFacts DEF Places
  <1>3. pc' \in [Threads -> Places] /\ pc'[t] = "closing" /\ \A u \in Threads \ {t} : pc'[u] = pc[u]
    BY <1>2, GotoFacts DEF GiveUpCreate, IInv
  <1>4. TypeOK'
    BY <1>1, <1>3 DEF IInv, TypeOK
  <1>5. Begun'
    BY <1>1, <1>3, PlaceFacts DEF IInv, Begun, Beginning, Ending, GiveUpCreate
  <1>6. QED
    BY <1>4, <1>5 DEF IInv

\* A call that has credit schedules its Declare.
LEMMA CreditedInv == ASSUME IInv, NEW t \in Threads, Credited(t) PROVE IInv'
  <1>1. /\ jobs' \in Seq(Jobs)
        /\ UNCHANGED <<active, id, ready, declareDone, dischargeDone, error, coordinator, link, wire,
                       txns, on, arg, call, work, under, inside, told, gaveUp, begins>>
    BY AppendFacts, JobFacts DEF Credited, flags, broker, local, history, IInv, TypeOK
  <1>2. "declaring" \in Places
    BY PlaceFacts DEF Places
  <1>3. pc' \in [Threads -> Places] /\ pc'[t] = "declaring" /\ \A u \in Threads \ {t} : pc'[u] = pc[u]
    BY <1>2, GotoFacts DEF Credited, IInv
  <1>4. TypeOK'
    BY <1>1, <1>3 DEF IInv, TypeOK
  <1>5. Begun'
    BY <1>1, <1>3, PlaceFacts DEF IInv, Begun, Beginning, Ending, Credited
  <1>6. QED
    BY <1>4, <1>5 DEF IInv

\* A begin ends with an active transaction, or closes its coordinator.
LEMMA DeclaredInv == ASSUME IInv, NEW t \in Threads, Declared(t) PROVE IInv'
  <1>1. /\ active' \in BOOLEAN /\ inside' \subseteq Messages
        /\ UNCHANGED <<id, ready, declareDone, dischargeDone, error, coordinator, link, jobs, wire,
                       txns, on, arg, call, work, under, told, gaveUp, begins>>
    BY DEF Declared, broker, IInv, TypeOK
  <1>2. PICK where \in {"closing", "idle"} : Goto(t, where)
    BY DEF Declared
  <1>3. where \in Places
    BY PlaceFacts
  <1>4. pc' \in [Threads -> Places] /\ pc'[t] = where /\ \A u \in Threads \ {t} : pc'[u] = pc[u]
    BY <1>2, <1>3, GotoFacts DEF IInv
  <1>5. TypeOK'
    BY <1>1, <1>4 DEF IInv, TypeOK
  <1>6. Begun'
    BY <1>1, <1>4 DEF IInv, Begun, Beginning, Declared
  <1>7. QED
    BY <1>5, <1>6 DEF IInv

\* A call that gives up closes its coordinator.
LEMMA GiveUpBeginInv == ASSUME IInv, NEW t \in Threads, GiveUpBegin(t) PROVE IInv'
  <1>1. /\ gaveUp' \in BOOLEAN
        /\ UNCHANGED <<active, id, ready, declareDone, dischargeDone, error, coordinator, link, jobs,
                       wire, txns, on, arg, call, work, under, inside, told, begins>>
    BY DEF GiveUpBegin, flags, broker, local, history, IInv, TypeOK
  <1>2. "closing" \in Places
    BY PlaceFacts DEF Places
  <1>3. pc' \in [Threads -> Places] /\ pc'[t] = "closing" /\ \A u \in Threads \ {t} : pc'[u] = pc[u]
    BY <1>2, GotoFacts DEF GiveUpBegin, IInv
  <1>4. TypeOK'
    BY <1>1, <1>3 DEF IInv, TypeOK
  <1>5. Begun'
    BY <1>1, <1>3, PlaceFacts DEF IInv, Begun, Beginning, Ending, GiveUpBegin
  <1>6. QED
    BY <1>4, <1>5 DEF IInv

\* Only a coordinator that the call made is released.
LEMMA CloseCoordinatorInv == ASSUME IInv, NEW t \in Threads, CloseCoordinator(t) PROVE IInv'
  <1>1. /\ jobs' \in Seq(Jobs)
        /\ UNCHANGED <<active, id, ready, declareDone, dischargeDone, error, coordinator, link, wire,
                       txns, on, arg, call, work, under, inside, told, gaveUp, begins>>
    BY AppendFacts, BegunFacts, JobFacts
    DEF CloseCoordinator, Beginning, flags, broker, local, history, IInv, TypeOK
  <1>2. "idle" \in Places
    BY PlaceFacts DEF Places
  <1>3. pc' \in [Threads -> Places] /\ pc'[t] = "idle" /\ \A u \in Threads \ {t} : pc'[u] = pc[u]
    BY <1>2, GotoFacts DEF CloseCoordinator, IInv
  <1>4. TypeOK'
    BY <1>1, <1>3 DEF IInv, TypeOK
  <1>5. Begun'
    BY <1>1, <1>3, PlaceFacts DEF IInv, Begun, Beginning, Ending, CloseCoordinator
  <1>6. QED
    BY <1>4, <1>5 DEF IInv

\* The end of a transaction starts with its call.
LEMMA EndInv == ASSUME IInv, NEW t \in Threads, NEW kind \in Ends, End(t, kind) PROVE IInv'
  <1>1. /\ UNCHANGED <<active, id, ready, declareDone, dischargeDone, error, coordinator, link, jobs,
                       wire, txns, on, arg, call, work, under, inside, told, gaveUp, begins>>
    BY DEF End, flags, broker, local, history, IInv, TypeOK
  <1>2. kind \in Places
    BY PlaceFacts
  <1>3. pc' \in [Threads -> Places] /\ pc'[t] = kind /\ \A u \in Threads \ {t} : pc'[u] = pc[u]
    BY <1>2, GotoFacts DEF End, IInv
  <1>4. TypeOK'
    BY <1>1, <1>3 DEF IInv, TypeOK
  <1>5. Begun'
    BY <1>1, <1>3, PlaceFacts DEF IInv, Begun, Beginning, Ending, End
  <1>6. QED
    BY <1>4, <1>5 DEF IInv

\* A discharge is scheduled for the id that there is.
LEMMA DischargeInv == ASSUME IInv, NEW t \in Threads, NEW kind \in Ends, Discharge(t, kind) PROVE IInv'
  <1>1. /\ dischargeDone' \in BOOLEAN /\ error' \in BOOLEAN
        /\ arg' \in [Threads -> Txns \cup Messages \cup {None}]
        /\ jobs' \in Seq(Jobs)
        /\ UNCHANGED <<active, id, ready, declareDone, coordinator, link, wire, txns, on, call, work,
                       under, inside, told, gaveUp, begins>>
    BY AppendFacts, JobFacts DEF Discharge, flags, broker, local, history, IInv, TypeOK
  <1>2. Waiting(kind) \in Places
    BY PlaceFacts
  <1>3. pc' \in [Threads -> Places] /\ pc'[t] = Waiting(kind) /\ \A u \in Threads \ {t} : pc'[u] = pc[u]
    BY <1>2, GotoFacts DEF Discharge, IInv
  <1>4. TypeOK'
    BY <1>1, <1>3 DEF IInv, TypeOK
  <1>5. Begun'
    BY <1>1, <1>3, PlaceFacts DEF IInv, Begun, Beginning, Ending, Discharge
  <1>6. QED
    BY <1>4, <1>5 DEF IInv

\* The end of the wait ends the transaction.
LEMMA DischargedInv == ASSUME IInv, NEW t \in Threads, NEW kind \in Ends, Discharged(t, kind) PROVE IInv'
  <1>1. /\ active' = FALSE /\ id' = None /\ inside' \subseteq Messages
        /\ told' \in [Messages -> {None, "committed", "rolledBack"}]
        /\ UNCHANGED <<ready, declareDone, dischargeDone, error, coordinator, link, jobs, wire, txns,
                       on, arg, call, work, under, gaveUp, begins>>
    BY DEF Discharged, Outcome, flags, broker, local, history, IInv, TypeOK
  <1>2. "idle" \in Places
    BY PlaceFacts DEF Places
  <1>3. pc' \in [Threads -> Places] /\ pc'[t] = "idle" /\ \A u \in Threads \ {t} : pc'[u] = pc[u]
    BY <1>2, GotoFacts DEF Discharged, IInv
  <1>4. TypeOK'
    BY <1>1, <1>3 DEF IInv, TypeOK
  <1>5. Begun'
    BY <1>1, <1>3, PlaceFacts DEF IInv, Begun, Beginning, Ending, Discharged
  <1>6. QED
    BY <1>4, <1>5 DEF IInv

\* A wait that is given up ends the transaction.
LEMMA GiveUpDischargeInv == ASSUME IInv, NEW t \in Threads, NEW kind \in Ends, GiveUpDischarge(t, kind) PROVE IInv'
  <1>1. /\ active' = FALSE /\ id' = None /\ inside' \subseteq Messages /\ gaveUp' = TRUE
        /\ UNCHANGED <<ready, declareDone, dischargeDone, error, coordinator, link, jobs, wire, txns,
                       on, arg, call, work, under, told, begins>>
    BY DEF GiveUpDischarge, flags, broker, local, history, IInv, TypeOK
  <1>2. "idle" \in Places
    BY PlaceFacts DEF Places
  <1>3. pc' \in [Threads -> Places] /\ pc'[t] = "idle" /\ \A u \in Threads \ {t} : pc'[u] = pc[u]
    BY <1>2, GotoFacts DEF GiveUpDischarge, IInv
  <1>4. TypeOK'
    BY <1>1, <1>3 DEF IInv, TypeOK
  <1>5. Begun'
    BY <1>1, <1>3, PlaceFacts DEF IInv, Begun, Beginning, Ending, GiveUpDischarge
  <1>6. QED
    BY <1>4, <1>5 DEF IInv

\* A message that is sent has its transaction.
LEMMA SendUnderInv == ASSUME IInv, NEW t \in Threads, SendUnder(t) PROVE IInv'
  <1>1. /\ arg' \in [Threads -> Txns \cup Messages \cup {None}]
        /\ under' \in [Messages -> Txns \cup {None, "plain"}]
        /\ UNCHANGED <<active, id, ready, declareDone, dischargeDone, error, coordinator, link, jobs,
                       wire, txns, on, call, work, inside, told, gaveUp, begins>>
    BY DEF SendUnder, flags, broker, IInv, TypeOK
  <1>2. "idle" \in Places
    BY PlaceFacts
  <1>3. pc' \in [Threads -> Places] /\ pc'[t] = "idle" /\ \A u \in Threads \ {t} : pc'[u] = pc[u]
    BY <1>2, GotoFacts DEF SendUnder, IInv
  <1>4. TypeOK'
    BY <1>1, <1>3 DEF IInv, TypeOK
  <1>5. Begun'
    BY <1>1, <1>3, PlaceFacts DEF IInv, Begun, Beginning
  <1>6. QED
    BY <1>4, <1>5 DEF IInv

\* A message on its way has been read with what is active.
LEMMA SendInv == ASSUME IInv, NEW t \in Threads, NEW m \in Messages, Send(t, m) PROVE IInv'
  <1>1. /\ arg' \in [Threads -> Txns \cup Messages \cup {None}] /\ inside' \subseteq Messages
        /\ UNCHANGED <<active, id, ready, declareDone, dischargeDone, error, coordinator, link, jobs,
                       wire, txns, on, call, work, under, told, gaveUp, begins>>
    BY DEF Send, flags, broker, IInv, TypeOK
  <1>2. PICK where \in {"sending", "plain"} : Goto(t, where)
    BY DEF Send
  <1>3. where \in Places
    BY PlaceFacts
  <1>4. pc' \in [Threads -> Places] /\ pc'[t] = where /\ \A u \in Threads \ {t} : pc'[u] = pc[u]
    BY <1>2, <1>3, GotoFacts DEF IInv
  <1>5. TypeOK'
    BY <1>1, <1>4 DEF IInv, TypeOK
  <1>6. Begun'
    BY <1>1, <1>4, PlaceFacts DEF IInv, Begun, Beginning
  <1>7. QED
    BY <1>5, <1>6 DEF IInv

\* A disposition is never part of a transaction at the broker.
LEMMA SettleInv == ASSUME IInv, NEW t \in Threads, NEW m \in Messages, Settle(t, m) PROVE IInv'
  <1>1. /\ under' \in [Messages -> Txns \cup {None, "plain"}] /\ inside' \subseteq Messages
        /\ UNCHANGED <<active, id, ready, declareDone, dischargeDone, error, coordinator, link, jobs,
                       wire, txns, on, pc, arg, call, work, told, gaveUp, begins>>
    BY DEF Settle, flags, broker, local, history, IInv, TypeOK
  <1>2. TypeOK'
    BY <1>1 DEF IInv, TypeOK
  <1>3. Begun'
    BY <1>1 DEF IInv, Begun
  <1>4. QED
    BY <1>2, <1>3 DEF IInv

\* At first nothing has begun.
LEMMA InitInv == Init => IInv
  <1>1. SUFFICES ASSUME Init PROVE IInv
    OBVIOUS
  <1>2. /\ "idle" \in Places /\ "idle" \notin Beginning /\ NoWork \in WorkStates
        /\ <<>> \in Seq(Jobs) /\ <<>> \in Seq(Requests) /\ 0 \in 0 .. MaxBegins
    BY PlaceFacts, TransactionAssumption DEF NoWork, WorkStates, Beginning
  <1>3. TypeOK
    BY <1>1, <1>2 DEF Init, TypeOK
  <1>4. Begun
    BY <1>1, <1>2 DEF Init, Begun
  <1>5. QED
    BY <1>3, <1>4 DEF IInv

\* Whatever happens next, the invariant is kept.
LEMMA StepInv == IInv /\ [Next]_vars => IInv'
  <1>1. SUFFICES ASSUME IInv, [Next]_vars PROVE IInv'
    OBVIOUS
  <1>2. CASE UNCHANGED vars
    <2>1. TypeOK'
      BY <1>1, <1>2 DEF vars, flags, broker, local, history, IInv, TypeOK
    <2>2. Begun'
      BY <1>1, <1>2 DEF vars, local, IInv, Begun
    <2>3. QED
      BY <2>1, <2>2 DEF IInv
  <1>3. CASE EventThread
    BY <1>1, <1>3, RunCreateInv, RunDeclareInv, RunReleaseInv, RunDischargeInv, AttachInv, OnCoordinatorCloseInv,
       AnswerDeclaredInv, AnswerAcceptedInv, AnswerRejectedInv, AnswerUnexpectedInv, OnSendableInv DEF EventThread
  <1>4. ASSUME NEW t \in Threads, Thread(t) PROVE IInv'
    BY <1>1, <1>4, BeginInv, ResetStateInv, CreatedInv, GiveUpCreateInv, CreditedInv, DeclaredInv, GiveUpBeginInv,
       CloseCoordinatorInv, EndInv, DischargeInv, DischargedInv, GiveUpDischargeInv, SendUnderInv, SendInv, SettleInv
       DEF Thread
  <1>5. QED
    BY <1>1, <1>2, <1>3, <1>4 DEF Next

\* The invariant holds whatever the threads and the broker do.
LEMMA Invariant == Spec => []IInv
  <1>1. Init => IInv
    BY InitInv
  <1>2. IInv /\ [Next]_vars => IInv'
    BY StepInv
  <1>3. QED
    BY <1>1, <1>2, PTL DEF Spec

\* Every variable keeps its type, for any number of threads.
THEOREM TypeCorrect == Spec => []TypeOK
  <1>1. IInv => TypeOK
    BY DEF IInv
  <1>2. QED
    BY <1>1, Invariant, PTL

-----------------------------------------------------------------------------
(* What one thread sends in its transaction                                *)

\* A step of the event thread that gives no begin an answer without an id.
LEMMA InsideKept ==
    ASSUME Inside, UNCHANGED <<active, pc, arg, under, inside>>,
           id' = id \/ id' # None,
           declareDone' /\ ~error' => (declareDone /\ ~error) \/ id' # None
    PROVE  Inside'
  <1>1. /\ active => id # None
        /\ ~active => inside = {}
        /\ \A m \in inside \ Acks : under[m] # "plain"
        /\ \A t \in Threads :
             /\ pc[t] \in Beginning \cup {"plain"} => ~active
             /\ pc[t] \in Ending \cup {"sending"} => active
             /\ pc[t] \in {"sending", "plain"} => arg[t] \in Messages \ Acks /\ under[arg[t]] = None
    BY DEF Inside
  <1>2. \A t \in Threads : pc[t] \in {"creating", "credit", "declaring"} /\ declareDone' /\ ~error' => id' # None
    BY DEF Inside
  <1>3. QED
    BY <1>1, <1>2 DEF Inside

\* The steps of the event thread.
LEMMA EventInside == ASSUME IInv, Inside, EventThread PROVE Inside'
  <1>1. CASE RunCreate \/ RunDeclare \/ RunRelease \/ OnSendable \/ \E kind \in Ends : RunDischarge(kind)
    <2>1. UNCHANGED <<active, pc, arg, under, inside, id, declareDone, error>>
      BY <1>1 DEF RunCreate, RunDeclare, RunRelease, OnSendable, RunDischarge, flags, local, history
    <2>2. QED
      BY <2>1, InsideKept
  <1>2. CASE \E l \in Links : Attach(l) \/ OnCoordinatorClose(l)
    <2>1. UNCHANGED <<active, pc, arg, under, inside, id, declareDone>> /\ (error' = TRUE \/ error' = error)
      BY <1>2 DEF Attach, OnCoordinatorClose, flags, local, history
    <2>2. QED
      BY <2>1, InsideKept
  <1>3. ASSUME NEW l \in Links, AnswerDeclared(l) PROVE Inside'
    <2>1. UNCHANGED <<active, pc, arg, under, inside, error>>
      BY <1>3 DEF AnswerDeclared, Answering, local, history
    <2>2. id' # None \/ UNCHANGED <<id, declareDone>>
      BY <1>3, TransactionAssumption DEF AnswerDeclared
    <2>3. QED
      BY <2>1, <2>2, InsideKept
  <1>4. ASSUME NEW l \in Links, AnswerAccepted(l) PROVE Inside'
    <2>1. UNCHANGED <<active, pc, arg, under, inside, error, id, declareDone>>
      BY <1>4 DEF AnswerAccepted, Answering, local, history
    <2>2. QED
      BY <2>1, InsideKept
  <1>5. ASSUME NEW l \in Links, AnswerRejected(l) \/ AnswerUnexpected(l) PROVE Inside'
    <2>1. UNCHANGED <<active, pc, arg, under, inside, id>> /\ (error' = TRUE \/ UNCHANGED <<error, declareDone>>)
      BY <1>5 DEF AnswerRejected, AnswerUnexpected, Answering, local, history
    <2>2. QED
      BY <2>1, InsideKept
  <1>6. QED
    BY <1>1, <1>2, <1>3, <1>4, <1>5 DEF EventThread

\* The steps of a begin: nothing is active before its end, which has an id.
LEMMA BeginInside ==
    ASSUME OneThread, IInv, Inside, NEW t \in Threads,
           \/ Begin(t) \/ ResetState(t) \/ Created(t) \/ GiveUpCreate(t) \/ Credited(t) \/ Declared(t)
           \/ GiveUpBegin(t) \/ CloseCoordinator(t)
    PROVE  Inside'
  <1>1. Threads = {t} /\ pc \in [Threads -> Places]
    BY DEF OneThread, IInv, TypeOK
  <1>2. ~active /\ inside = {}
    BY DEF Inside, Beginning, Begin, ResetState, Created, GiveUpCreate, Credited, Declared, GiveUpBegin,
           CloseCoordinator
  <1>3. CASE Begin(t) \/ Created(t) \/ GiveUpCreate(t) \/ Credited(t) \/ GiveUpBegin(t) \/ CloseCoordinator(t)
    <2>1. UNCHANGED <<active, id, declareDone, error, inside, under>>
      BY <1>3 DEF Begin, Created, GiveUpCreate, Credited, GiveUpBegin, CloseCoordinator, flags, history
    <2>2. PICK where \in {"begin", "credit", "closing", "declaring", "idle"} : Goto(t, where)
      BY <1>3 DEF Begin, Created, GiveUpCreate, Credited, GiveUpBegin, CloseCoordinator
    <2>3. pc'[t] = where
      BY <1>1, <2>2 DEF Goto
    <2>4. pc'[t] \in {"credit", "declaring"} => pc[t] \in {"creating", "credit", "declaring"}
      BY <1>1, <1>3 DEF Begin, Created, GiveUpCreate, Credited, GiveUpBegin, CloseCoordinator, Goto
    <2>5. QED
      BY <1>1, <1>2, <2>1, <2>3, <2>4 DEF Inside, Ending, Ends
  <1>4. CASE ResetState(t)
    BY <1>1, <1>2, <1>4 DEF ResetState, Goto, Inside, Ending, Ends, history
  <1>5. CASE Declared(t)
    <2>1. CASE error
      BY <1>1, <1>2, <1>5, <2>1 DEF Declared, Goto, Inside, Ending, Ends
    <2>2. CASE ~error
      <3>1. id # None
        BY <1>5, <2>2 DEF Declared, Inside
      <3>2. QED
        BY <1>1, <1>2, <1>5, <2>2, <3>1 DEF Declared, Goto, Inside, Beginning, Ending, Ends
    <2>3. QED
      BY <2>1, <2>2
  <1>6. QED
    BY <1>3, <1>4, <1>5

\* The steps of a commit or a rollback: the transaction has ended when it returns.
LEMMA EndInside ==
    ASSUME OneThread, IInv, Inside, NEW t \in Threads, NEW kind \in Ends,
           End(t, kind) \/ Discharge(t, kind) \/ Discharged(t, kind) \/ GiveUpDischarge(t, kind)
    PROVE  Inside'
  <1>1. Threads = {t} /\ pc \in [Threads -> Places]
    BY DEF OneThread, IInv, TypeOK
  <1>2. CASE End(t, kind) \/ Discharge(t, kind)
    <2>1. active
      BY <1>2, PlaceFacts DEF End, Discharge, Inside
    <2>2. UNCHANGED <<active, id, inside, under>>
      BY <1>2 DEF End, Discharge, flags, history
    <2>3. pc'[t] \in {kind, Waiting(kind)}
      BY <1>1, <1>2 DEF End, Discharge, Goto
    <2>4. pc'[t] \in Ending /\ pc'[t] \notin {"plain", "sending", "creating", "credit", "declaring"} \cup Beginning
      BY <2>3, PlaceFacts DEF Ends, Beginning, Waiting
    <2>5. QED
      BY <1>1, <2>1, <2>2, <2>4 DEF Inside
  <1>3. CASE Discharged(t, kind) \/ GiveUpDischarge(t, kind)
    <2>1. active' = FALSE /\ inside' = {} /\ pc'[t] = "idle"
      BY <1>1, <1>3 DEF Discharged, GiveUpDischarge, Goto
    <2>2. QED
      BY <1>1, <2>1 DEF Inside, Beginning, Ending, Ends
  <1>4. QED
    BY <1>2, <1>3

\* What is sent is given the id while it is active.
LEMMA SendInside ==
    ASSUME OneThread, IInv, Inside, NEW t \in Threads,
           SendUnder(t) \/ \E m \in Messages : Send(t, m) \/ Settle(t, m)
    PROVE  Inside'
  <1>1. Threads = {t} /\ pc \in [Threads -> Places] /\ arg \in [Threads -> Txns \cup Messages \cup {None}]
        /\ under \in [Messages -> Txns \cup {None, "plain"}] /\ id \in Txns \cup {None}
        /\ inside \subseteq Messages /\ active \in BOOLEAN
    BY DEF OneThread, IInv, TypeOK
  <1>2. CASE SendUnder(t)
    <2>1. PICK a \in Messages \ Acks : a = arg[t] /\ under[a] = None
      BY <1>2 DEF SendUnder, Inside
    <2>2. UNCHANGED <<active, id, inside>> /\ pc'[t] = "idle"
      BY <1>1, <1>2 DEF SendUnder, Goto, flags
    <2>3. \A m \in Messages : under'[m] # "plain" \/ inside = {} \/ under'[m] = under[m]
      <3>1. CASE pc[t] = "sending"
        <4>1. id # None /\ id # "plain"
          BY <1>1, <3>1, TransactionAssumption DEF Inside
        <4>2. \A m \in Messages : under'[m] \in {id, under[m]}
          BY <1>1, <1>2, <2>1, <3>1, <4>1 DEF SendUnder
        <4>3. QED
          BY <4>1, <4>2
      <3>2. CASE pc[t] = "plain"
        BY <3>2 DEF Inside
      <3>3. QED
        BY <1>2, <3>1, <3>2 DEF SendUnder
    <2>4. QED
      BY <1>1, <2>2, <2>3 DEF Inside, Beginning, Ending, Ends
  <1>3. ASSUME NEW m \in Messages, Send(t, m) PROVE Inside'
    <2>1. UNCHANGED <<active, id, under>> /\ m \notin Acks /\ under[m] = None /\ arg'[t] = m
      BY <1>1, <1>3 DEF Send, flags
    <2>2. inside' = IF active THEN inside \cup {m} ELSE inside
      BY <1>3 DEF Send
    <2>3. pc'[t] = IF active THEN "sending" ELSE "plain"
      BY <1>1, <1>3 DEF Send, Goto
    <2>4. None # "plain"
      BY DEF None
    <2>5. QED
      BY <1>1, <2>1, <2>2, <2>3, <2>4 DEF Inside, Beginning, Ending, Ends
  <1>4. ASSUME NEW m \in Messages, Settle(t, m) PROVE Inside'
    <2>1. UNCHANGED <<active, id, pc, arg>> /\ m \in Acks /\ pc[t] = "idle"
          /\ \A n \in Messages \ Acks : under'[n] = under[n]
      BY <1>1, <1>4 DEF Settle, flags, local
    <2>2. inside' = IF active THEN inside \cup {m} ELSE inside
      BY <1>4 DEF Settle
    <2>3. QED
      BY <1>1, <2>1, <2>2 DEF Inside, Beginning, Ending, Ends
  <1>5. QED
    BY <1>2, <1>3, <1>4

\* Whatever happens next, a message is sent under the id of its transaction.
LEMMA StepInside == ASSUME OneThread, IInv, Inside, [Next]_vars PROVE Inside'
  <1>1. CASE UNCHANGED vars
    <2>1. UNCHANGED <<active, pc, arg, under, inside, id, declareDone, error>>
      BY <1>1 DEF vars, flags, local, history
    <2>2. QED
      BY <2>1, InsideKept
  <1>2. ASSUME NEW t \in Threads, Thread(t) PROVE Inside'
    BY <1>2, BeginInside, EndInside, SendInside DEF Thread
  <1>3. QED
    BY <1>1, <1>2, EventInside DEF Next

\* At first no transaction is active.
LEMMA InitInside == Init => Inside
  BY DEF Init, Inside, Beginning, Ending, Ends

\* A transaction that is active has an id, and what is sent while it is active is part of a transaction, when one thread
\* at a time uses the connection, whatever is late, rejected or given up.
THEOREM SentUnderItsId == ASSUME OneThread PROVE Spec => []SentInside
  <1>1. Init => Inside
    BY InitInside
  <1>2. IInv /\ Inside /\ [Next]_vars => Inside'
    BY StepInside
  <1>3. Inside => SentInside
    BY DEF Inside, SentInside
  <1>4. QED
    BY <1>1, <1>2, <1>3, Invariant, PTL DEF Spec

-----------------------------------------------------------------------------
(* One request at a time                                                   *)

\* No request is queued, and none is on a link.
Quiet ==
    /\ \A i \in DOMAIN jobs : ~Asks(i)
    /\ \A l \in Links : wire[l] = <<>>

\* A thread that waits for no answer, or has it, has no request out.
LEMMA NoneAsked ==
    ASSUME OneThread, IInv, OneRequest, NEW t \in Threads,
           ~(pc[t] = "declaring" /\ ~declareDone),
           \A kind \in Ends : ~(pc[t] = Waiting(kind) /\ ~dischargeDone)
    PROVE  Quiet
  <1>1. Threads = {t}
    BY DEF OneThread
  <1>2. \A kind, x : ~Awaited(kind, x)
    BY <1>1 DEF Awaited
  <1>3. QED
    BY <1>2 DEF Quiet, OneRequest

\* When there is no request, one that is awaited can be scheduled.
LEMMA FirstRequest ==
    ASSUME IInv, Quiet, NEW kind \in {"declare"} \cup Ends, NEW x \in Txns \cup {None},
           jobs' = Append(jobs, Job(kind, x)), UNCHANGED wire, Awaited(kind, x)'
    PROVE  OneRequest'
  <1>1. /\ Job(kind, x) \in Jobs /\ Job(kind, x).kind = kind /\ Job(kind, x).about = x
    BY JobFacts
  <1>2. PICK n \in DOMAIN jobs' \ DOMAIN jobs :
          /\ jobs'[n] = Job(kind, x)
          /\ \A i \in DOMAIN jobs' \ {n} : i \in DOMAIN jobs /\ jobs'[i] = jobs[i]
    BY <1>1, AppendFacts DEF IInv
  <1>3. \A i \in DOMAIN jobs' : Asks(i)' => i = n
    BY <1>2 DEF Quiet, Asks
  <1>4. \A l \in Links : wire'[l] = <<>>
    BY DEF Quiet
  <1>5. jobs'[n].kind = kind /\ jobs'[n].about = x
    BY <1>1, <1>2
  <1>6. Awaited(jobs[n].kind, jobs[n].about)'
    BY <1>5 DEF Awaited
  <1>7. QED
    BY <1>3, <1>4, <1>6 DEF OneRequest

\* The request that runs goes from the queue to the link, or nowhere.
LEMMA RequestSent ==
    ASSUME IInv, OneRequest, NEW kind \in {"declare"} \cup Ends, NEW x \in Txns \cup {None},
           RunsNext(kind), SendRequest(kind, x), kind \in Ends => x = Head(jobs).about,
           UNCHANGED <<pc, id, declareDone, dischargeDone>>
    PROVE  OneRequest'
  <1>1. /\ Head(jobs).kind = kind /\ Head(jobs) = jobs[1] /\ 1 \in DOMAIN jobs
        /\ \A i \in DOMAIN jobs' : i + 1 \in DOMAIN jobs /\ i + 1 # 1 /\ jobs'[i] = jobs[i + 1]
    BY RunsFacts DEF IInv
  <1>2. Asks(1)
    BY <1>1 DEF Asks
  <1>3. Awaited(kind, x)
    BY <1>1, <1>2, JobFacts DEF OneRequest, Awaited
  <1>4. \A i \in DOMAIN jobs' : ~Asks(i)'
    BY <1>1, <1>2 DEF OneRequest, Asks
  <1>5. \A l \in Links : wire[l] = <<>>
    BY <1>1, <1>2 DEF OneRequest
  <1>6. CASE wire' = wire
    BY <1>4, <1>5, <1>6 DEF OneRequest
  <1>7. ASSUME NEW l \in Links, wire'[l] = Append(wire[l], Request(kind, x)),
               \A k \in Links \ {l} : wire'[k] = wire[k]
        PROVE  OneRequest'
    <2>1. wire'[l] = Append(<<>>, Request(kind, x))
      BY <1>5, <1>7
    <2>2. Head(wire'[l]) = Request(kind, x) /\ Tail(wire'[l]) = <<>>
      <3>1. \A r : Head(Append(<<>>, r)) = r /\ Tail(Append(<<>>, r)) = <<>>
        OBVIOUS
      <3>2. QED
        BY <2>1, <3>1
    <2>3. Head(wire'[l]).kind = kind /\ Head(wire'[l]).txn = x
      BY <2>2 DEF Request
    <2>4. Awaited(Head(wire[l]).kind, Head(wire[l]).txn)'
      BY <1>3, <2>3 DEF Awaited
    <2>5. \A k \in Links : wire'[k] # <<>> => k = l
      BY <1>5, <1>7
    <2>6. QED
      BY <1>4, <2>2, <2>4, <2>5 DEF OneRequest
  <1>8. QED
    BY <1>6, <1>7, SendRequestFacts DEF IInv

\* A job that runs and is no request, or a link that ends, leaves at most the request that there was.
LEMMA OneRequestKept ==
    ASSUME IInv, OneRequest, UNCHANGED <<pc, id, declareDone, dischargeDone>>,
           UNCHANGED jobs \/ \E kind \in {"create", "release"} : RunsNext(kind),
           \A l \in Links : wire'[l] \in {wire[l], <<>>}
    PROVE  OneRequest'
  <1>1. /\ \A i, j \in DOMAIN jobs' : Asks(i)' /\ Asks(j)' => i = j
        /\ \A i \in DOMAIN jobs' : Asks(i)' => \E j \in DOMAIN jobs : Asks(j) /\ jobs'[i] = jobs[j]
    <2>1. CASE UNCHANGED jobs
      BY <2>1 DEF OneRequest, Asks
    <2>2. ASSUME NEW kind \in {"create", "release"}, RunsNext(kind)
          PROVE  /\ \A i, j \in DOMAIN jobs' : Asks(i)' /\ Asks(j)' => i = j
                 /\ \A i \in DOMAIN jobs' : Asks(i)' => \E j \in DOMAIN jobs : Asks(j) /\ jobs'[i] = jobs[j]
      <3>1. /\ \A i \in DOMAIN jobs' : i + 1 \in DOMAIN jobs /\ jobs'[i] = jobs[i + 1]
            /\ \A i, j \in DOMAIN jobs' : i + 1 = j + 1 => i = j
        BY <2>2, RunsFacts DEF IInv
      <3>2. QED
        BY <3>1 DEF OneRequest, Asks
    <2>3. QED
      BY <2>1, <2>2
  <1>2. \A kind, x : Awaited(kind, x) => Awaited(kind, x)'
    BY DEF Awaited
  <1>3. ASSUME NEW i \in DOMAIN jobs', Asks(i)'
        PROVE  Awaited(jobs[i].kind, jobs[i].about)' /\ \A l \in Links : wire'[l] = <<>>
    <2>1. PICK j \in DOMAIN jobs : Asks(j) /\ jobs'[i] = jobs[j]
      BY <1>1, <1>3
    <2>2. Awaited(jobs[j].kind, jobs[j].about) /\ \A l \in Links : wire[l] = <<>>
      BY <2>1 DEF OneRequest
    <2>3. QED
      BY <2>1, <2>2 DEF Awaited
  <1>4. ASSUME NEW l \in Links, wire'[l] # <<>>
        PROVE  /\ Awaited(Head(wire[l]).kind, Head(wire[l]).txn)'
               /\ Tail(wire'[l]) = <<>>
               /\ \A k \in Links : wire'[k] # <<>> => k = l
    <2>1. wire'[l] = wire[l] /\ wire[l] # <<>>
      BY <1>4
    <2>2. /\ Awaited(Head(wire[l]).kind, Head(wire[l]).txn) /\ Tail(wire[l]) = <<>>
          /\ \A k \in Links : wire[k] # <<>> => k = l
      BY <2>1 DEF OneRequest
    <2>3. \A k \in Links : wire'[k] # <<>> => k = l
      BY <2>2
    <2>4. QED
      BY <2>1, <2>2, <2>3 DEF Awaited
  <1>5. QED
    BY <1>1, <1>3, <1>4 DEF OneRequest

\* The answer is to the request that is awaited; then there is none.
LEMMA Answered ==
    ASSUME IInv, OneRequest, NEW l \in Links, NEW kinds, Answering(l, kinds)
    PROVE  Awaited(Head(wire[l]).kind, Head(wire[l]).txn) /\ OneRequest'
  <1>1. /\ wire[l] # <<>> /\ wire'[l] = Tail(wire[l]) /\ \A k \in Links \ {l} : wire'[k] = wire[k]
    BY AnsweringFacts DEF IInv
  <1>2. /\ Awaited(Head(wire[l]).kind, Head(wire[l]).txn) /\ Tail(wire[l]) = <<>>
        /\ \A k \in Links : wire[k] # <<>> => k = l
        /\ \A i \in DOMAIN jobs : ~Asks(i)
    BY <1>1 DEF OneRequest
  <1>3. \A k \in Links : wire'[k] = <<>>
    BY <1>1, <1>2
  <1>4. jobs' = jobs
    BY DEF Answering
  <1>5. \A i \in DOMAIN jobs' : ~Asks(i)'
    BY <1>2, <1>4 DEF Asks
  <1>6. QED
    BY <1>2, <1>3, <1>5 DEF OneRequest

\* A thread that has no request out, and asks for nothing, leaves it so.
LEMMA QuietKept ==
    ASSUME IInv, Quiet, UNCHANGED wire,
           \/ UNCHANGED jobs
           \/ \E job \in Jobs : job.kind \in {"create", "release"} /\ jobs' = Append(jobs, job)
    PROVE  OneRequest'
  <1>1. \A i \in DOMAIN jobs' : ~Asks(i)'
    <2>1. CASE UNCHANGED jobs
      BY <2>1 DEF Quiet, Asks
    <2>2. ASSUME NEW job \in Jobs, job.kind \in {"create", "release"}, jobs' = Append(jobs, job)
          PROVE  \A i \in DOMAIN jobs' : ~Asks(i)'
      <3>1. PICK n \in DOMAIN jobs' \ DOMAIN jobs :
              /\ jobs'[n] = job
              /\ \A i \in DOMAIN jobs' \ {n} : i \in DOMAIN jobs /\ jobs'[i] = jobs[i]
        BY <2>2, AppendFacts DEF IInv
      <3>2. job.kind \notin {"declare"} \cup Ends
        BY <2>2, JobFacts
      <3>3. QED
        BY <3>1, <3>2 DEF Quiet, Asks
    <2>3. QED
      BY <2>1, <2>2
  <1>2. \A l \in Links : wire'[l] = <<>>
    BY DEF Quiet
  <1>3. QED
    BY <1>1, <1>2 DEF OneRequest

-----------------------------------------------------------------------------
(* How a transaction ends                                                  *)

\* A step of the event thread that gives no answer but an error, and leaves as it is what is over.
LEMMA EndedKept ==
    ASSUME IInv, Ended, UNCHANGED <<pc, arg, inside, under, told, id>>,
           \A x \in Txns : txns[x] \in {"committed", "rolledBack"} => txns'[x] = txns[x],
           \/ UNCHANGED declareDone
           \/ \A t \in Threads : pc[t] \notin {"creating", "credit"},
           (dischargeDone' = dischargeDone /\ error' = error) \/ error' = TRUE
    PROVE  Ended'
  <1>1. \A t \in Threads : pc[t] \in {"creating", "credit"} => ~declareDone'
    BY DEF Ended
  <1>2. ASSUME NEW t \in Threads, NEW kind \in Ends, pc[t] = Waiting(kind), dischargeDone', ~error'
        PROVE  id \in Txns /\ txns'[id] = Outcome(kind)
    <2>1. dischargeDone' = dischargeDone /\ error' = error
      BY <1>2
    <2>2. dischargeDone /\ ~error
      BY <1>2, <2>1
    <2>3. id \in Txns /\ txns[id] = Outcome(kind)
      BY <1>2, <2>2 DEF Ended
    <2>4. QED
      BY <2>3 DEF Outcome
  <1>3. ASSUME NEW m \in Messages \ Acks, told[m] # None
        PROVE  under[m] \in Txns /\ txns'[under[m]] = told[m]
    <2>1. under[m] \in Txns /\ txns[under[m]] = told[m]
      BY <1>3 DEF Ended
    <2>2. told[m] \in {"committed", "rolledBack"}
      BY <1>3 DEF IInv, TypeOK
    <2>3. QED
      BY <2>1, <2>2
  <1>4. \A m \in inside \ Acks : under[m] = id \/ \E t \in Threads : pc[t] = "sending" /\ arg[t] = m
    BY DEF Ended
  <1>5. QED
    BY <1>1, <1>2, <1>3, <1>4 DEF Ended

\* Jobs that run, links, and credit: no answer.
LEMMA WorkTimely ==
    ASSUME IInv, OneRequest, Ended,
           \/ RunCreate \/ RunDeclare \/ RunRelease \/ OnSendable
           \/ \E kind \in Ends : RunDischarge(kind)
           \/ \E l \in Links : Attach(l) \/ OnCoordinatorClose(l)
    PROVE  OneRequest' /\ Ended'
  <1>1. UNCHANGED <<pc, arg, inside, under, told, id, declareDone, dischargeDone>>
    BY DEF RunCreate, RunDeclare, RunRelease, OnSendable, RunDischarge, Attach, OnCoordinatorClose, flags,
        local,
           history
  <1>2. OneRequest'
    <2>1. CASE RunDeclare
      BY <1>1, <2>1, RequestSent, JobFacts DEF RunDeclare
    <2>2. ASSUME NEW kind \in Ends, RunDischarge(kind) PROVE OneRequest'
      <3>1. Head(jobs).about \in Txns \cup {None}
        BY <2>2, RunsFacts, JobFacts DEF RunDischarge, IInv
      <3>2. QED
        BY <1>1, <2>2, <3>1, RequestSent DEF RunDischarge
    <2>3. CASE RunCreate \/ OnSendable \/ \E l \in Links : Attach(l)
      <3>1. UNCHANGED wire /\ (UNCHANGED jobs \/ RunsNext("create"))
        BY <2>3 DEF RunCreate, OnSendable, Attach, broker
      <3>2. QED
        BY <1>1, <3>1, OneRequestKept
    <2>4. CASE RunRelease
      <3>1. PICK l \in Links : EndLink(l)
        BY <2>4, RunsFacts, JobFacts DEF RunRelease, IInv
      <3>2. RunsNext("release") /\ \A k \in Links : wire'[k] \in {wire[k], <<>>}
        BY <2>4, <3>1, EndLinkFacts DEF RunRelease, IInv
      <3>3. QED
        BY <1>1, <3>2, OneRequestKept
    <2>5. ASSUME NEW l \in Links, OnCoordinatorClose(l) PROVE OneRequest'
      <3>1. UNCHANGED jobs /\ \A k \in Links : wire'[k] \in {wire[k], <<>>}
        BY <2>5, EndLinkFacts DEF OnCoordinatorClose, IInv
      <3>2. QED
        BY <1>1, <3>1, OneRequestKept
    <2>6. QED
      BY <2>1, <2>2, <2>3, <2>4, <2>5
  <1>3. \A x \in Txns : txns[x] \in {"committed", "rolledBack"} => txns'[x] = txns[x]
    <2>1. CASE RunRelease
      <3>1. PICK l \in Links : EndLink(l)
        BY <2>1, RunsFacts, JobFacts DEF RunRelease, IInv
      <3>2. QED
        BY <3>1, EndLinkFacts DEF IInv
    <2>2. CASE \E l \in Links : OnCoordinatorClose(l)
      BY <2>2, EndLinkFacts DEF OnCoordinatorClose, IInv
    <2>3. CASE ~RunRelease /\ ~\E l \in Links : OnCoordinatorClose(l)
      BY <2>3 DEF RunCreate, RunDeclare, OnSendable, RunDischarge, Attach, broker
    <2>4. QED
      BY <2>1, <2>2, <2>3
  <1>4. error' = error \/ error' = TRUE
    BY DEF RunCreate, RunDeclare, RunRelease, OnSendable, RunDischarge, Attach, OnCoordinatorClose, flags
  <1>5. Ended'
    BY <1>1, <1>3, <1>4, EndedKept
  <1>6. QED
    BY <1>2, <1>5

\* An answer is the answer to what the thread waits for.
LEMMA AnswersTimely ==
    ASSUME OneThread, IInv, Inside, OneRequest, Ended, NEW l \in Links,
           AnswerDeclared(l) \/ AnswerAccepted(l) \/ AnswerRejected(l) \/ AnswerUnexpected(l)
    PROVE  OneRequest' /\ Ended'
  <1>1. PICK kinds : Answering(l, kinds)
    BY DEF AnswerDeclared, AnswerAccepted, AnswerRejected, AnswerUnexpected
  <1>2. PICK kind, x : kind = Head(wire[l]).kind /\ x = Head(wire[l]).txn
    OBVIOUS
  <1>3. OneRequest' /\ Awaited(kind, x)
    BY <1>1, <1>2, Answered
  <1>4. UNCHANGED <<pc, arg, inside, under, told>>
    BY <1>1 DEF Answering, local, history
  <1>5. PICK t \in Threads : \/ kind = "declare" /\ pc[t] = "declaring" /\ ~declareDone
                             \/ kind \in Ends /\ pc[t] = Waiting(kind) /\ ~dischargeDone /\ x = id
    BY <1>3 DEF Awaited
  <1>6. Threads = {t}
    BY DEF OneThread
  <1>7. pc[t] \notin {"creating", "credit"}
    BY <1>5, PlaceFacts
  <1>8. CASE AnswerDeclared(l)
    <2>1. kind = "declare"
      BY <1>2, <1>8, <1>1, AnsweringFacts DEF AnswerDeclared, Answering
    <2>2. pc[t] = "declaring" /\ inside = {}
      BY <1>5, <2>1, JobFacts DEF Inside, Beginning
    <2>3. \A y \in Txns : txns[y] \in {"committed", "rolledBack"} => txns'[y] = txns[y]
      BY <1>8 DEF AnswerDeclared, IInv, TypeOK
    <2>4. \A other \in Ends : pc[t] # Waiting(other)
      BY <2>2, PlaceFacts
    <2>5. ASSUME NEW m \in Messages \ Acks, told[m] # None
          PROVE  under[m] \in Txns /\ txns'[under[m]] = told[m]
      <3>1. under[m] \in Txns /\ txns[under[m]] = told[m]
        BY <2>5 DEF Ended
      <3>2. told[m] \in {"committed", "rolledBack"}
        BY <2>5 DEF IInv, TypeOK
      <3>3. QED
        BY <2>3, <3>1, <3>2
    <2>6. QED
      BY <1>3, <1>4, <1>6, <1>7, <2>2, <2>4, <2>5 DEF Ended
  <1>9. CASE AnswerAccepted(l)
    <2>1. kind \in Ends
      BY <1>2, <1>9, <1>1, AnsweringFacts DEF AnswerAccepted, Answering
    <2>2. pc[t] = Waiting(kind) /\ x = id /\ ~dischargeDone
      BY <1>5, <2>1, JobFacts
    <2>3. /\ x \in Txns /\ txns[x] = "declared" /\ txns' = [txns EXCEPT ![x] = Outcome(kind)]
          /\ UNCHANGED <<id, declareDone, error>>
      BY <1>1, <1>2, <1>9, AnsweringFacts DEF AnswerAccepted, IInv
    <2>4. /\ txns'[x] = Outcome(kind)
          /\ \A y \in Txns : txns[y] \in {"committed", "rolledBack"} => txns'[y] = txns[y]
      BY <2>3 DEF IInv, TypeOK
    <2>5. \A other \in Ends : pc[t] = Waiting(other) => other = kind
      BY <2>1, <2>2, PlaceFacts
    <2>6. ASSUME NEW m \in Messages \ Acks, told[m] # None
          PROVE  under[m] \in Txns /\ txns'[under[m]] = told[m]
      <3>1. under[m] \in Txns /\ txns[under[m]] = told[m]
        BY <2>6 DEF Ended
      <3>2. told[m] \in {"committed", "rolledBack"}
        BY <2>6 DEF IInv, TypeOK
      <3>3. QED
        BY <2>4, <3>1, <3>2
    <2>7. \A m \in inside \ Acks : under[m] = id \/ \E u \in Threads : pc[u] = "sending" /\ arg[u] = m
      BY DEF Ended
    <2>8. QED
      BY <1>3, <1>4, <1>6, <1>7, <2>2, <2>3, <2>4, <2>5, <2>6, <2>7 DEF Ended
  <1>10. CASE AnswerRejected(l) \/ AnswerUnexpected(l)
    <2>1. \A y \in Txns : txns[y] \in {"committed", "rolledBack"} => txns'[y] = txns[y]
      BY <1>10 DEF AnswerRejected, AnswerUnexpected, Undo
    <2>2. UNCHANGED id /\ ((dischargeDone' = dischargeDone /\ error' = error) \/ error' = TRUE)
      BY <1>10 DEF AnswerRejected, AnswerUnexpected
    <2>3. QED
      BY <1>3, <1>4, <1>6, <1>7, <2>1, <2>2, EndedKept
  <1>11. QED
    BY <1>8, <1>9, <1>10

\* The steps of a begin ask for one transaction, when credit has come.
LEMMA BeginTimely ==
    ASSUME OneThread, IInv, Inside, OneRequest, Ended, NEW t \in Threads,
           \/ Begin(t) \/ ResetState(t) \/ Created(t) \/ GiveUpCreate(t) \/ Credited(t) \/ Declared(t)
           \/ CloseCoordinator(t)
    PROVE  OneRequest' /\ Ended'
  <1>1. Threads = {t} /\ pc \in [Threads -> Places]
    BY DEF OneThread, IInv, TypeOK
  <1>2. Quiet
    <2>1. pc[t] \in {"idle", "begin", "creating", "credit", "closing"} \/ (pc[t] = "declaring" /\ declareDone)
      BY DEF Begin, ResetState, Created, GiveUpCreate, Credited, Declared, CloseCoordinator
    <2>2. \A kind \in Ends : pc[t] # Waiting(kind)
      BY <2>1, PlaceFacts
    <2>3. QED
      BY <2>1, <2>2, NoneAsked
  <1>3. inside = {} /\ inside' = {}
    BY DEF Inside, Beginning, Begin, ResetState, Created, GiveUpCreate, Credited, Declared, CloseCoordinator,
        history
  <1>4. UNCHANGED <<wire, txns, under, told>>
    BY DEF Begin, ResetState, Created, GiveUpCreate, Credited, Declared, CloseCoordinator, broker, history
  <1>5. Ended'
    <2>1. PICK where \in {"begin", "creating", "credit", "closing", "declaring", "idle"} : Goto(t, where)
      BY DEF Begin, ResetState, Created, GiveUpCreate, Credited, Declared, CloseCoordinator
    <2>2. pc'[t] = where
      BY <1>1, <2>1 DEF Goto
    <2>3. \A kind \in Ends : pc'[t] # Waiting(kind)
      BY <2>2, PlaceFacts
    <2>4. pc'[t] \in {"creating", "credit"} => ~declareDone'
      <3>1. CASE ResetState(t)
        BY <3>1 DEF ResetState
      <3>2. CASE Created(t)
        BY <3>2 DEF Created, Ended, flags
      <3>3. CASE Begin(t) \/ GiveUpCreate(t) \/ Credited(t) \/ Declared(t) \/ CloseCoordinator(t)
        BY <1>1, <3>3 DEF Begin, GiveUpCreate, Credited, Declared, CloseCoordinator, Goto
      <3>4. QED
        BY <3>1, <3>2, <3>3
    <2>5. QED
      BY <1>1, <1>3, <1>4, <2>3, <2>4 DEF Ended
  <1>6. OneRequest'
    <2>1. CASE Credited(t)
      <3>1. jobs' = Append(jobs, Job("declare", None)) /\ pc'[t] = "declaring" /\ ~declareDone'
        BY <1>1, <2>1 DEF Credited, Goto, Ended, flags
      <3>2. Awaited("declare", None)'
        BY <3>1 DEF Awaited
      <3>3. QED
        BY <1>2, <1>4, <3>1, <3>2, FirstRequest
    <2>2. CASE ResetState(t)
      BY <1>2, <1>4, <2>2, BegunFacts, QuietKept DEF ResetState, Beginning, CreateJob
    <2>3. CASE CloseCoordinator(t)
      <3>1. UNCHANGED jobs \/ \E job \in Jobs : job.kind = "release" /\ jobs' = Append(jobs, job)
        BY <2>3, BegunFacts, JobFacts DEF CloseCoordinator, Beginning
      <3>2. QED
        BY <1>2, <1>4, <3>1, QuietKept
    <2>4. CASE Begin(t) \/ Created(t) \/ GiveUpCreate(t) \/ Declared(t)
      <3>1. UNCHANGED jobs
        BY <2>4 DEF Begin, Created, GiveUpCreate, Declared
      <3>2. QED
        BY <1>2, <1>4, <3>1, QuietKept
    <2>5. QED
      BY <2>1, <2>2, <2>3, <2>4
  <1>7. QED
    BY <1>5, <1>6

\* The steps of a commit or a rollback ask for one end, and say of the messages what became of their transaction.
LEMMA EndTimely ==
    ASSUME OneThread, IInv, Inside, OneRequest, Ended, NEW t \in Threads, NEW kind \in Ends,
           End(t, kind) \/ Discharge(t, kind) \/ Discharged(t, kind)
    PROVE  OneRequest' /\ Ended'
  <1>1. Threads = {t} /\ pc \in [Threads -> Places] /\ id \in Txns \cup {None} /\ inside \subseteq Messages
        /\ told \in [Messages -> {None, "committed", "rolledBack"}]
    BY DEF OneThread, IInv, TypeOK
  <1>2. pc[t] \in {"idle", kind, Waiting(kind)} /\ pc[t] # "sending" /\ pc[t] # "declaring"
    BY PlaceFacts DEF End, Discharge, Discharged
  <1>3. Quiet
    <2>1. \A other \in Ends : pc[t] = Waiting(other) => dischargeDone
      BY PlaceFacts DEF End, Discharge, Discharged, Ends
    <2>2. QED
      BY <1>2, <2>1, NoneAsked
  <1>4. UNCHANGED <<wire, txns, under>>
    BY DEF End, Discharge, Discharged, broker, history
  <1>5. \A m \in inside \ Acks : under[m] = id
    BY <1>1, <1>2 DEF Ended
  <1>6. CASE End(t, kind)
    <2>1. UNCHANGED <<id, inside, told, jobs>> /\ pc'[t] = kind
      BY <1>1, <1>6 DEF End, Goto, flags, history
    <2>2. pc'[t] \notin {"creating", "credit"} /\ \A other \in Ends : pc'[t] # Waiting(other)
      BY <2>1, PlaceFacts
    <2>3. OneRequest'
      BY <1>3, <1>4, <2>1, QuietKept
    <2>4. Ended'
      BY <1>1, <1>4, <1>5, <2>1, <2>2 DEF Ended
    <2>5. QED
      BY <2>3, <2>4
  <1>7. CASE Discharge(t, kind)
    <2>1. /\ UNCHANGED <<id, inside, told>> /\ pc'[t] = Waiting(kind) /\ dischargeDone' = FALSE
          /\ jobs' = Append(jobs, Job(kind, id))
      BY <1>1, <1>7 DEF Discharge, Goto, history
    <2>2. pc'[t] \notin {"creating", "credit"}
      BY <2>1, PlaceFacts
    <2>3. PICK x \in Txns \cup {None} : x = id
      BY <1>1
    <2>4. Awaited(kind, x)'
      BY <2>1, <2>3 DEF Awaited
    <2>5. OneRequest'
      BY <1>3, <1>4, <2>1, <2>3, <2>4, FirstRequest
    <2>6. Ended'
      BY <1>1, <1>4, <1>5, <2>1, <2>2 DEF Ended
    <2>7. QED
      BY <2>5, <2>6
  <1>8. CASE Discharged(t, kind)
    <2>1. /\ inside' = {} /\ pc'[t] = "idle" /\ UNCHANGED jobs
          /\ told' = [m \in Messages |-> IF m \in inside /\ ~error THEN Outcome(kind) ELSE told[m]]
      BY <1>1, <1>8 DEF Discharged, Goto
    <2>2. pc'[t] \notin {"creating", "credit"} /\ \A other \in Ends : pc'[t] # Waiting(other)
      BY <2>1, PlaceFacts
    <2>3. OneRequest'
      BY <1>3, <1>4, <2>1, QuietKept
    <2>4. ASSUME NEW m \in Messages \ Acks, told'[m] # None
          PROVE  under[m] \in Txns /\ txns[under[m]] = told'[m]
      <3>1. CASE m \in inside /\ ~error
        <4>1. under[m] = id
          BY <1>5, <3>1
        <4>2. id \in Txns /\ txns[id] = Outcome(kind)
          BY <1>8, <3>1 DEF Discharged, Ended
        <4>3. QED
          BY <2>1, <3>1, <4>1, <4>2
      <3>2. CASE ~(m \in inside /\ ~error)
        <4>1. told'[m] = told[m]
          BY <2>1, <3>2
        <4>2. QED
          BY <2>4, <4>1 DEF Ended
      <3>3. QED
        BY <3>1, <3>2
    <2>5. Ended'
      BY <1>1, <1>4, <2>1, <2>2, <2>4 DEF Ended
    <2>6. QED
      BY <2>3, <2>5
  <1>9. QED
    BY <1>6, <1>7, <1>8

\* What is sent gets the id that its transaction ends with.
LEMMA SendTimely ==
    ASSUME OneThread, IInv, Inside, OneRequest, Ended, NEW t \in Threads,
           SendUnder(t) \/ \E m \in Messages : Send(t, m) \/ Settle(t, m)
    PROVE  OneRequest' /\ Ended'
  <1>1. Threads = {t} /\ pc \in [Threads -> Places] /\ arg \in [Threads -> Txns \cup Messages \cup {None}]
        /\ under \in [Messages -> Txns \cup {None, "plain"}] /\ id \in Txns \cup {None}
        /\ inside \subseteq Messages /\ active \in BOOLEAN
    BY DEF OneThread, IInv, TypeOK
  <1>2. pc[t] \in {"idle", "sending", "plain"}
    BY DEF SendUnder, Send, Settle
  <1>3. OneRequest'
    <2>1. Quiet
      BY <1>2, PlaceFacts, NoneAsked
    <2>2. UNCHANGED <<wire, jobs>>
      BY DEF SendUnder, Send, Settle, broker
    <2>3. QED
      BY <2>1, <2>2, QuietKept
  <1>4. UNCHANGED <<id, txns, told>> /\ pc'[t] \in {"idle", "sending", "plain"}
    BY <1>1 DEF SendUnder, Send, Settle, flags, broker, local, Goto
  <1>5. pc'[t] \notin {"creating", "credit"} /\ \A other \in Ends : pc'[t] # Waiting(other)
    BY <1>4, PlaceFacts
  <1>6. \A m \in Messages \ Acks : told[m] # None => under[m] \in Txns /\ txns[under[m]] = told[m]
    BY DEF Ended
  <1>7. CASE SendUnder(t)
    <2>1. PICK a \in Messages \ Acks : a = arg[t] /\ under[a] = None
      BY <1>7 DEF SendUnder, Inside
    <2>2. UNCHANGED inside /\ \A m \in Messages \ {a} : under'[m] = under[m]
      BY <1>1, <1>7, <2>1 DEF SendUnder
    <2>3. told[a] = None
      BY <1>6, <2>1, TransactionAssumption
    <2>4. \A m \in inside \ Acks : under'[m] = id
      <3>1. CASE pc[t] = "sending"
        <4>1. id # None
          BY <3>1 DEF Inside
        <4>2. under'[a] = id
          BY <1>1, <1>7, <2>1, <3>1, <4>1 DEF SendUnder
        <4>3. \A m \in inside \ (Acks \cup {a}) : under[m] = id
          BY <1>1, <2>1 DEF Ended
        <4>4. QED
          BY <1>1, <2>2, <4>2, <4>3
      <3>2. CASE pc[t] = "plain"
        BY <3>2 DEF Inside
      <3>3. QED
        BY <1>7, <3>1, <3>2 DEF SendUnder
    <2>5. \A m \in Messages \ Acks : told[m] # None => under'[m] \in Txns /\ txns[under'[m]] = told[m]
      BY <1>6, <2>2, <2>3
    <2>6. Ended'
      BY <1>1, <1>4, <1>5, <2>2, <2>4, <2>5 DEF Ended
    <2>7. QED
      BY <1>3, <2>6
  <1>8. ASSUME NEW m \in Messages, Send(t, m) PROVE Ended'
    <2>1. UNCHANGED under /\ arg'[t] = m /\ pc[t] = "idle"
      BY <1>1, <1>8 DEF Send
    <2>2. \A n \in inside \ Acks : under[n] = id
      BY <1>1, <2>1 DEF Ended
    <2>3. \A n \in inside' \ Acks : under[n] = id \/ (pc'[t] = "sending" /\ arg'[t] = n)
      BY <1>1, <1>8, <2>1, <2>2 DEF Send, Goto
    <2>4. QED
      BY <1>1, <1>4, <1>5, <1>6, <2>1, <2>3 DEF Ended
  <1>9. ASSUME NEW m \in Messages, Settle(t, m) PROVE Ended'
    <2>1. pc[t] = "idle" /\ \A n \in Messages \ Acks : under'[n] = under[n]
      BY <1>1, <1>9 DEF Settle
    <2>2. \A n \in inside' \ Acks : n \in inside /\ under[n] = id
      BY <1>1, <1>9, <2>1 DEF Settle, Ended
    <2>3. QED
      BY <1>1, <1>4, <1>5, <1>6, <2>1, <2>2 DEF Ended
  <1>10. QED
    BY <1>3, <1>7, <1>8, <1>9

\* Whatever happens next, an answer is to what is awaited, unless a wait has been given up.
LEMMA StepTimely == ASSUME OneThread, IInv, Inside, Timely, [Next]_vars PROVE Timely'
  <1>1. gaveUp' \in {TRUE, gaveUp} /\ gaveUp \in BOOLEAN
    BY DEF Next, EventThread, Thread, RunCreate, RunDeclare, RunRelease, RunDischarge, Attach,
        OnCoordinatorClose,
           AnswerDeclared, AnswerAccepted, AnswerRejected, AnswerUnexpected, Answering, OnSendable, Begin, ResetState,
           Created, GiveUpCreate, Credited, Declared, GiveUpBegin, CloseCoordinator, End, Discharge, Discharged,
           GiveUpDischarge, SendUnder, Send, Settle, history, vars, IInv, TypeOK
  <1>2. CASE gaveUp
    BY <1>1, <1>2 DEF Timely
  <1>3. CASE ~gaveUp
    <2>1. OneRequest /\ Ended
      BY <1>3 DEF Timely
    <2>2. CASE UNCHANGED vars
      <3>1. UNCHANGED <<pc, arg, inside, under, told, id, jobs, wire, txns, declareDone, dischargeDone, error>>
        BY <2>2 DEF vars, flags, broker, local, history
      <3>2. OneRequest'
        BY <2>1, <3>1, OneRequestKept
      <3>3. Ended'
        BY <2>1, <3>1, EndedKept
      <3>4. QED
        BY <3>2, <3>3 DEF Timely
    <2>3. CASE EventThread
      BY <2>1, <2>3, WorkTimely, AnswersTimely DEF EventThread, Timely
    <2>4. ASSUME NEW t \in Threads, Thread(t) PROVE Timely'
      <3>1. CASE GiveUpBegin(t) \/ \E kind \in Ends : GiveUpDischarge(t, kind)
        BY <3>1 DEF GiveUpBegin, GiveUpDischarge, Timely
      <3>2. CASE ~(GiveUpBegin(t) \/ \E kind \in Ends : GiveUpDischarge(t, kind))
        BY <2>1, <2>4, <3>2, BeginTimely, EndTimely, SendTimely DEF Thread, Timely
      <3>3. QED
        BY <3>1, <3>2
    <2>5. QED
      BY <2>2, <2>3, <2>4 DEF Next
  <1>4. QED
    BY <1>1, <1>2, <1>3

\* At first nothing is asked for, and nothing is said.
LEMMA InitTimely == Init => Timely
  <1>1. SUFFICES ASSUME Init PROVE OneRequest /\ Ended
    BY DEF Timely
  <1>2. DOMAIN jobs = {} /\ \A l \in Links : wire[l] = <<>>
    BY <1>1 DEF Init
  <1>3. OneRequest
    BY <1>2 DEF OneRequest
  <1>4. \A t \in Threads : pc[t] = "idle"
    BY <1>1 DEF Init
  <1>5. Ended
    BY <1>1, <1>4 DEF Init, Ended
  <1>6. QED
    BY <1>3, <1>5

\* A commit that returned delivered all that was sent since the begin, a rollback nothing of it, whatever is rejected or
\* closed on the way, when one thread at a time uses the connection and has given up no wait for the broker.
THEOREM AtomicUntilGivenUp == ASSUME OneThread PROVE Spec => []AtomicInTime
  <1>1. Init => Inside /\ Timely
    BY InitInside, InitTimely
  <1>2. IInv /\ Inside /\ Timely /\ [Next]_vars => Inside' /\ Timely'
    BY StepInside, StepTimely
  <1>3. IInv /\ Timely => AtomicInTime
    <2>1. SUFFICES ASSUME Timely, ~gaveUp, NEW m \in Messages \ Acks PROVE AllOrNothing(m)
      BY DEF AtomicInTime
    <2>2. told[m] # None => under[m] \in Txns /\ txns[under[m]] = told[m]
      BY <2>1 DEF Timely, Ended
    <2>3. CASE told[m] = "committed"
      BY <2>2, <2>3 DEF AllOrNothing, Delivered, None
    <2>4. CASE told[m] = "rolledBack"
      <3>1. under[m] \in Txns /\ under[m] # "plain" /\ txns[under[m]] # "committed"
        BY <2>2, <2>4, TransactionAssumption DEF None
      <3>2. QED
        BY <2>4, <3>1 DEF AllOrNothing, Delivered
    <2>5. QED
      BY <2>3, <2>4 DEF AllOrNothing
  <1>4. QED
    BY <1>1, <1>2, <1>3, Invariant, PTL DEF Spec
=============================================================================
