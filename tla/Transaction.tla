---------------------------- MODULE Transaction ----------------------------
(***************************************************************************)
(* beginTransaction(), commitTransaction() and rollbackTransaction(): the  *)
(* coordinator link, the Declare and Discharge sent on it, and the answers *)
(* that on_tracker_settle() stores for the thread that waits; and what     *)
(* send() and settle() make of an active transaction.                      *)
(*                                                                         *)
(* The connection stays up. The broker answers the requests of a link in   *)
(* order, when it likes; it can reject them, and close the coordinator,    *)
(* which rolls back what was declared on it. How the work of a send        *)
(* reaches the broker is in Sending: here a message is sent when it is     *)
(* given its transaction.                                                  *)
(***************************************************************************)
EXTENDS Naturals, Sequences, FiniteSets

CONSTANTS Threads,
          Txns,      \* transaction ids that the broker can give
          Links,     \* coordinator links that can be created
          Messages,  \* what a transaction is made of: messages sent ...
          Acks,      \* ... and dispositions of received messages
          MaxBegins  \* bound: the calls of beginTransaction()

None == "none"

ASSUME TransactionAssumption ==
    /\ Acks \subseteq Messages
    /\ MaxBegins \in Nat
    /\ None \notin Txns \cup Links \cup Messages
    /\ "plain" \notin Txns

VARIABLES
    active,        \* txn_active_
    id,            \* txn_id_
    ready,         \* txn_coordinator_ready_
    declareDone,   \* txn_declare_done_
    dischargeDone, \* txn_discharge_done_
    error,         \* txn_error_ is set
    coordinator,   \* txn_coordinator_link_
    link,          \* the coordinator links
    jobs,          \* the jobs of the work queue
    wire,          \* the requests of each link that the broker has yet to answer
    txns,          \* the transactions at the broker
    on,            \* the link that each was declared on
    pc,            \* what each thread is doing
    arg,           \* the message that it sends, or the id that it discharges
    call,          \* the number of its last beginTransaction()
    work,          \* the WorkState of each beginTransaction(), and the link that it made
    under,         \* the transaction of each message
    inside,        \* the messages since the transaction began (history)
    told,          \* what a call said of each message
    gaveUp,        \* a wait for the broker has ended before the broker answered (history)
    begins         \* the calls of beginTransaction() so far

flags == <<active, id, ready, declareDone, dischargeDone, error>>
broker == <<link, wire, txns, on>>
local == <<pc, arg, call, work>>
history == <<under, inside, told, gaveUp>>
vars == <<flags, coordinator, broker, jobs, local, history, begins>>

Request(kind, x) == [kind |-> kind, txn |-> x]
Job(kind, x) == [kind |-> kind, call |-> 0, about |-> x]
CreateJob(c) == [kind |-> "create", call |-> c, about |-> None]
Ends == {"commit", "rollback"}

Requests == [kind : {"declare"} \cup Ends, txn : Txns \cup {None}]
Jobs == [kind : {"create"}, call : 1 .. MaxBegins, about : {None}]
            \cup [kind : {"declare"} \cup Ends, call : {0}, about : Txns \cup {None}]
            \cup [kind : {"release"}, call : {0}, about : Links]
WorkStates == [done : BOOLEAN, abandoned : BOOLEAN, made : Links \cup {None}]
Places == {"idle", "begin", "creating", "credit", "declaring", "closing", "sending", "plain", "committing",
           "rollingBack"} \cup Ends

TypeOK ==
    /\ active \in BOOLEAN /\ ready \in BOOLEAN /\ error \in BOOLEAN
    /\ declareDone \in BOOLEAN /\ dischargeDone \in BOOLEAN
    /\ id \in Txns \cup {None}
    /\ coordinator \in Links \cup {None}
    /\ link \in [Links -> {"none", "opening", "open", "closed"}]
    /\ jobs \in Seq(Jobs)
    /\ wire \in [Links -> Seq(Requests)]
    /\ txns \in [Txns -> {"none", "declared", "committed", "rolledBack"}]
    /\ on \in [Txns -> Links \cup {None}]
    /\ pc \in [Threads -> Places]
    /\ arg \in [Threads -> Txns \cup Messages \cup {None}]
    /\ call \in [Threads -> 0 .. MaxBegins]
    /\ work \in [1 .. MaxBegins -> WorkStates]
    /\ under \in [Messages -> Txns \cup {None, "plain"}]
    /\ inside \subseteq Messages
    /\ told \in [Messages -> {None, "committed", "rolledBack"}]
    /\ gaveUp \in BOOLEAN
    /\ begins \in 0 .. MaxBegins

NoWork == [done |-> FALSE, abandoned |-> FALSE, made |-> None]

Init ==
    /\ active = FALSE /\ id = None
    /\ ready = FALSE /\ declareDone = FALSE /\ dischargeDone = FALSE /\ error = FALSE
    /\ coordinator = None
    /\ link = [l \in Links |-> "none"]
    /\ jobs = <<>>
    /\ wire = [l \in Links |-> <<>>]
    /\ txns = [x \in Txns |-> "none"]
    /\ on = [x \in Txns |-> None]
    /\ pc = [t \in Threads |-> "idle"]
    /\ arg = [t \in Threads |-> None]
    /\ call = [t \in Threads |-> 0]
    /\ work = [c \in 1 .. MaxBegins |-> NoWork]
    /\ under = [m \in Messages |-> None]
    /\ inside = {}
    /\ told = [m \in Messages |-> None]
    /\ gaveUp = FALSE
    /\ begins = 0

Goto(t, where) == pc' = [pc EXCEPT ![t] = where]

RunsNext(kind) == jobs # <<>> /\ Head(jobs).kind = kind /\ jobs' = Tail(jobs)

-----------------------------------------------------------------------------
(* beginTransaction()                                                      *)

\* there is no active transaction
Begin(t) ==
    /\ pc[t] = "idle" /\ ~active /\ begins < MaxBegins
    /\ begins' = begins + 1
    /\ call' = [call EXCEPT ![t] = begins']
    /\ Goto(t, "begin")
    /\ UNCHANGED <<flags, coordinator, broker, jobs, arg, work, history>>

\* the mutant keeps what an earlier transaction left
BeginDirty(t) ==
    /\ pc[t] = "begin"
    /\ jobs' = Append(jobs, CreateJob(call[t]))
    /\ Goto(t, "creating")
    /\ UNCHANGED <<flags, coordinator, broker, arg, call, work, history, begins>>

\* the state of the last transaction is reset, and work scheduled for the coordinator
ResetState(t) ==
    /\ pc[t] = "begin"
    /\ ready' = FALSE /\ declareDone' = FALSE /\ dischargeDone' = FALSE /\ error' = FALSE
    /\ id' = None
    /\ jobs' = Append(jobs, CreateJob(call[t]))
    /\ Goto(t, "creating")
    /\ UNCHANGED <<active, coordinator, broker, arg, call, work, history, begins>>

\* both ends of the coordinator are open
Usable == coordinator # None /\ link[coordinator] = "open"

\* the work: an open coordinator is used again, and is ready if it has credit; otherwise one is made
RunCreate ==
    /\ RunsNext("create")
    /\ LET c == Head(jobs).call IN
       \/ /\ work[c].abandoned
          /\ work' = [work EXCEPT ![c].done = TRUE]
          /\ UNCHANGED <<ready, coordinator, link>>
       \/ /\ ~work[c].abandoned
          /\ Usable
          /\ ready' \in {ready, TRUE}
          /\ work' = [work EXCEPT ![c].done = TRUE]
          /\ UNCHANGED <<coordinator, link>>
       \/ /\ ~work[c].abandoned
          /\ ~Usable
          /\ \E l \in Links :
                 /\ link[l] = "none"
                 /\ link' = [link EXCEPT ![l] = "opening"]
                 /\ coordinator' = l
                 /\ work' = [work EXCEPT ![c].done = TRUE, ![c].made = l]
          /\ UNCHANGED ready
    /\ UNCHANGED <<active, id, declareDone, dischargeDone, error, wire, txns, on, pc, arg, call, history,
                   begins>>

Created(t) ==
    /\ pc[t] = "creating" /\ work[call[t]].done
    /\ Goto(t, "credit")
    /\ UNCHANGED <<flags, coordinator, broker, jobs, arg, call, work, history, begins>>

\* the wait for the work times out or is cancelled: the work releases what it makes, or closing does
GiveUpCreate(t) ==
    /\ pc[t] = "creating"
    /\ work' = [work EXCEPT ![call[t]].abandoned = TRUE]
    /\ Goto(t, "closing")
    /\ UNCHANGED <<flags, coordinator, broker, jobs, arg, call, history, begins>>

\* the coordinator has credit, or has been closed: Declare is scheduled
Credited(t) ==
    /\ pc[t] = "credit" /\ ready
    /\ jobs' = Append(jobs, Job("declare", None))
    /\ Goto(t, "declaring")
    /\ UNCHANGED <<flags, coordinator, broker, arg, call, work, history, begins>>

\* a request is sent on the link that is the coordinator now; one that is closed takes nothing
SendRequest(kind, x) ==
    wire' = IF coordinator # None /\ link[coordinator] # "closed"
            THEN [wire EXCEPT ![coordinator] = Append(@, Request(kind, x))] ELSE wire

RunDeclare ==
    /\ RunsNext("declare")
    /\ SendRequest("declare", None)
    /\ UNCHANGED <<flags, coordinator, link, txns, on, local, history, begins>>

\* the answer of the broker: the transaction is active, unless there is an error
Declared(t) ==
    /\ pc[t] = "declaring" /\ declareDone
    /\ IF error
       THEN Goto(t, "closing") /\ UNCHANGED <<active, inside>>
       ELSE Goto(t, "idle") /\ active' = TRUE /\ inside' = {}
    /\ UNCHANGED <<id, ready, declareDone, dischargeDone, error, coordinator, broker, jobs, arg, call, work,
                   under, told, gaveUp, begins>>

\* the wait for credit, or for the answer, times out or is cancelled
GiveUpBegin(t) ==
    /\ pc[t] \in {"credit", "declaring"}
    /\ gaveUp' = TRUE
    /\ Goto(t, "closing")
    /\ UNCHANGED <<flags, coordinator, broker, jobs, arg, call, work, under, inside, told, begins>>

\* ~CoordinatorGuard() and scheduleRelease(): only the coordinator that this call made
CloseCoordinator(t) ==
    /\ pc[t] = "closing"
    /\ jobs' = IF work[call[t]].made # None THEN Append(jobs, Job("release", work[call[t]].made)) ELSE jobs
    /\ Goto(t, "idle")
    /\ UNCHANGED <<flags, coordinator, broker, arg, call, work, history, begins>>

\* what the broker makes of a link that is closed: its transactions are rolled back
EndLink(l) ==
    /\ link' = [link EXCEPT ![l] = "closed"]
    /\ txns' = [x \in Txns |-> IF on[x] = l /\ txns[x] = "declared" THEN "rolledBack" ELSE txns[x]]
    /\ wire' = [wire EXCEPT ![l] = <<>>]

RunRelease ==
    /\ RunsNext("release")
    /\ LET l == Head(jobs).about
       IN  /\ EndLink(l)
           /\ coordinator' = IF coordinator = l THEN None ELSE coordinator
    /\ UNCHANGED <<flags, on, local, history, begins>>

-----------------------------------------------------------------------------
(* commitTransaction() and rollbackTransaction()                           *)

\* there is an active transaction
End(t, kind) ==
    /\ pc[t] = "idle" /\ active
    /\ Goto(t, kind)
    /\ UNCHANGED <<flags, coordinator, broker, jobs, arg, call, work, history, begins>>

Waiting(kind) == IF kind = "commit" THEN "committing" ELSE "rollingBack"
Outcome(kind) == IF kind = "commit" THEN "committed" ELSE "rolledBack"

\* discharge() up to its wait
Discharge(t, kind) ==
    /\ pc[t] = kind
    /\ dischargeDone' = FALSE /\ error' = FALSE
    /\ arg' = [arg EXCEPT ![t] = id]
    /\ jobs' = Append(jobs, Job(kind, id))
    /\ Goto(t, Waiting(kind))
    /\ UNCHANGED <<active, id, ready, declareDone, coordinator, broker, call, work, history, begins>>

\* the mutant sends the link where the id belongs
DischargeLink(kind) ==
    /\ RunsNext(kind)
    /\ SendRequest(kind, coordinator)
    /\ UNCHANGED <<flags, coordinator, link, txns, on, local, history, begins>>

RunDischarge(kind) ==
    /\ RunsNext(kind)
    /\ SendRequest(kind, Head(jobs).about)
    /\ UNCHANGED <<flags, coordinator, link, txns, on, local, history, begins>>

\* the mutant reports an error of the broker as success
DischargedBlindly(t, kind) ==
    /\ pc[t] = Waiting(kind) /\ dischargeDone
    /\ active' = FALSE /\ id' = None
    /\ told' = [m \in Messages |-> IF m \in inside THEN Outcome(kind) ELSE told[m]]
    /\ inside' = {}
    /\ Goto(t, "idle")
    /\ UNCHANGED <<ready, declareDone, dischargeDone, error, coordinator, broker, jobs, arg, call, work,
                   under, gaveUp, begins>>

\* the answer of the broker ends the wait: success, unless there is an error
Discharged(t, kind) ==
    /\ pc[t] = Waiting(kind) /\ dischargeDone
    /\ active' = FALSE /\ id' = None
    /\ told' = [m \in Messages |-> IF m \in inside /\ ~error THEN Outcome(kind) ELSE told[m]]
    /\ inside' = {}
    /\ Goto(t, "idle")
    /\ UNCHANGED <<ready, declareDone, dischargeDone, error, coordinator, broker, jobs, arg, call, work,
                   under, gaveUp, begins>>

\* the wait times out or is cancelled: "indeterminate -- mark as inactive"
GiveUpDischarge(t, kind) ==
    /\ pc[t] = Waiting(kind)
    /\ gaveUp' = TRUE
    /\ active' = FALSE /\ id' = None
    /\ inside' = {}
    /\ Goto(t, "idle")
    /\ UNCHANGED <<ready, declareDone, dischargeDone, error, coordinator, broker, jobs, arg, call, work,
                   under, told, begins>>

-----------------------------------------------------------------------------
(* What a transaction is made of                                           *)

\* send() and sendBatch() read txn_active_ ...
Send(t, m) ==
    /\ pc[t] = "idle"
    /\ m \notin Acks /\ under[m] = None
    /\ \A u \in Threads : arg[u] # m
    /\ arg' = [arg EXCEPT ![t] = m]
    /\ Goto(t, IF active THEN "sending" ELSE "plain")
    /\ inside' = IF active THEN inside \cup {m} ELSE inside
    /\ UNCHANGED <<flags, coordinator, broker, jobs, call, work, under, told, gaveUp, begins>>

\* ... then txn_id_; a message without an id is sent outside
SendUnder(t) ==
    /\ pc[t] \in {"sending", "plain"}
    /\ under' = [under EXCEPT ![arg[t]] = IF pc[t] = "sending" /\ id # None THEN id ELSE "plain"]
    /\ arg' = [arg EXCEPT ![t] = None]
    /\ Goto(t, "idle")
    /\ UNCHANGED <<flags, coordinator, broker, jobs, call, work, inside, told, gaveUp, begins>>

\* settle() does not look at the transaction
Settle(t, m) ==
    /\ pc[t] = "idle"
    /\ m \in Acks /\ under[m] = None
    /\ under' = [under EXCEPT ![m] = "plain"]
    /\ inside' = IF active THEN inside \cup {m} ELSE inside
    /\ UNCHANGED <<flags, coordinator, broker, jobs, local, told, gaveUp, begins>>

-----------------------------------------------------------------------------
(* The broker, and the handlers that its answers call                      *)

Attach(l) ==
    /\ link[l] = "opening"
    /\ link' = [link EXCEPT ![l] = "open"]
    /\ UNCHANGED <<flags, coordinator, wire, txns, on, jobs, local, history, begins>>

OnSendable ==
    /\ Usable /\ ~ready
    /\ ready' = TRUE
    /\ UNCHANGED <<active, id, declareDone, dischargeDone, error, coordinator, broker, jobs, local, history,
                   begins>>

\* on_sender_error() and on_sender_close() unblock the wait for credit
OnCoordinatorClose(l) ==
    /\ link[l] \in {"opening", "open"}
    /\ EndLink(l)
    /\ IF l = coordinator THEN error' = TRUE /\ ready' = TRUE ELSE UNCHANGED <<error, ready>>
    /\ UNCHANGED <<active, id, declareDone, dischargeDone, coordinator, on, jobs, local, history, begins>>

\* the next request of a link can be answered: on_tracker_settle() looks at answers of the coordinator only
Answering(l, kinds) ==
    /\ link[l] = "open"
    /\ wire[l] # <<>> /\ Head(wire[l]).kind \in kinds
    /\ wire' = [wire EXCEPT ![l] = Tail(@)]
    /\ UNCHANGED <<active, ready, coordinator, link, jobs, local, history, begins>>

FromCoordinator(l) == l = coordinator

\* Declared: a new transaction, whatever call asked for it
AnswerDeclared(l) ==
    /\ Answering(l, {"declare"})
    /\ \E x \in Txns :
           /\ txns[x] = "none"
           /\ txns' = [txns EXCEPT ![x] = "declared"]
           /\ on' = [on EXCEPT ![x] = l]
           /\ IF FromCoordinator(l) THEN id' = x /\ declareDone' = TRUE ELSE UNCHANGED <<id, declareDone>>
    /\ UNCHANGED <<dischargeDone, error>>

\* a discharge is accepted
AnswerAccepted(l) ==
    /\ Answering(l, Ends)
    /\ LET x == Head(wire[l]).txn
       IN  /\ x # None /\ txns[x] = "declared"
           /\ txns' = [txns EXCEPT ![x] = Outcome(Head(wire[l]).kind)]
    /\ IF FromCoordinator(l) THEN dischargeDone' = TRUE ELSE UNCHANGED dischargeDone
    /\ UNCHANGED <<id, declareDone, error, on>>

\* a transaction whose discharge fails is rolled back
Undo(x) == txns' = [y \in Txns |-> IF y = x /\ txns[y] = "declared" THEN "rolledBack" ELSE txns[y]]

\* rejected, for a discharge or a Declare: taken for the rejection of a discharge
AnswerRejected(l) ==
    /\ Answering(l, {"declare"} \cup Ends)
    /\ Undo(Head(wire[l]).txn)
    /\ IF FromCoordinator(l) THEN error' = TRUE /\ dischargeDone' = TRUE
       ELSE UNCHANGED <<error, dischargeDone>>
    /\ UNCHANGED <<id, declareDone, on>>

\* any other outcome ends both waits
AnswerUnexpected(l) ==
    /\ Answering(l, {"declare"} \cup Ends)
    /\ Undo(Head(wire[l]).txn)
    /\ IF FromCoordinator(l) THEN error' = TRUE /\ dischargeDone' = TRUE /\ declareDone' = TRUE
       ELSE UNCHANGED <<error, dischargeDone, declareDone>>
    /\ UNCHANGED <<id, on>>

-----------------------------------------------------------------------------
EventThread ==
    \/ RunCreate \/ RunDeclare \/ RunRelease \/ \E kind \in Ends : RunDischarge(kind)
    \/ \E l \in Links : \/ Attach(l) \/ OnCoordinatorClose(l)
                         \/ AnswerDeclared(l) \/ AnswerAccepted(l) \/ AnswerRejected(l) \/ AnswerUnexpected(l)
    \/ OnSendable

Thread(t) ==
    \/ Begin(t) \/ ResetState(t) \/ Created(t) \/ GiveUpCreate(t) \/ Credited(t) \/ Declared(t)
    \/ GiveUpBegin(t) \/ CloseCoordinator(t)
    \/ \E kind \in Ends : \/ End(t, kind) \/ Discharge(t, kind) \/ Discharged(t, kind)
                          \/ GiveUpDischarge(t, kind)
    \/ SendUnder(t)
    \/ \E m \in Messages : Send(t, m) \/ Settle(t, m)

Next == EventThread \/ \E t \in Threads : Thread(t)

Spec == Init /\ [][Next]_vars

-----------------------------------------------------------------------------
(* Properties                                                              *)

Delivered(m) == under[m] = "plain" \/ (under[m] \in Txns /\ txns[under[m]] = "committed")

\* a commit that returned delivered m, a rollback did not
AllOrNothing(m) == /\ told[m] = "committed" => Delivered(m)
                   /\ told[m] = "rolledBack" => ~Delivered(m)

(***************************************************************************)
(* A commit that returned delivered all that was sent since the begin, a   *)
(* rollback nothing of it, whatever was rejected or closed on the way, if  *)
(* no wait for the broker has given up before it answered.                 *)
(***************************************************************************)
AtomicInTime == gaveUp \/ \A m \in Messages \ Acks : AllOrNothing(m)

(***************************************************************************)
(* README.md: after commitTransaction() both messages are delivered, and   *)
(* after rollbackTransaction() none is, when begins have timed out, too.   *)
(***************************************************************************)
Atomic == \A m \in Messages \ Acks : AllOrNothing(m)

(***************************************************************************)
(* A transaction that is active, with no call under way, has an id, and a  *)
(* message sent while it is active is part of a transaction, even when     *)
(* answers come late, are lost to a timeout, or are rejections.            *)
(***************************************************************************)
SentInside ==
    /\ active /\ (\A t \in Threads : pc[t] = "idle") => id # None
    /\ \A m \in inside \ Acks : under[m] # "plain"
=============================================================================
