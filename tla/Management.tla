---------------------------- MODULE Management ----------------------------
(***************************************************************************)
(* managementRequest(): threads share one sender to $management and one    *)
(* dynamic receiver for the replies, made by the first request of a        *)
(* connection under mgmt_mutex_; a reply is matched to its request by the  *)
(* message ID, and the calls wait for theirs on recv_cv_.                  *)
(*                                                                         *)
(* The broker answers in any order, late or never, and only to a receiver  *)
(* of the connection that is open. The connection is lost and opened again *)
(* by Proton, or closed and connected again, MaxOpens times in all;        *)
(* MaxRequests bounds the requests and MaxReceivers the reply receivers.   *)
(***************************************************************************)
EXTENDS Naturals, Sequences, FiniteSets, SequencesExt

CONSTANTS Threads, MaxOpens, MaxRequests, MaxReceivers, None

ASSUME ManagementAssumption ==
    /\ MaxOpens \in Nat \ {0} /\ MaxRequests \in Nat /\ MaxReceivers \in Nat
    /\ None \notin Nat \cup Threads

Ids == 1 .. MaxRequests
Receivers == 1 .. MaxReceivers
Opens == 1 .. MaxOpens

VARIABLES
    connected,    \* connected_
    up,           \* the connection to the broker is open
    workQueue,    \* work_queue_ is not null
    opens,        \* how often the connection has been opened
    opening,      \* what on_connection_open() has still to forget: "flag", "address", or it is "done"
    initialized,  \* mgmt_initialized_
    mutex,        \* who holds mgmt_mutex_
    sender,       \* the connection of mgmt_sender_, or None
    receiver,     \* the receiver of mgmt_receiver_name_, or None
    address,      \* the receiver of mgmt_reply_address_, or None
    made,         \* the connection of each reply receiver made
    counter,      \* mgmt_request_counter_
    pending,      \* mgmt_pending_
    replies,      \* mgmt_replies_: the request that each reply is for
    failed,       \* the requests that could not be sent
    jobs,         \* the jobs of the work queue
    requests,     \* what the broker has to answer
    answers,      \* answers on their way
    pc,           \* what each thread is doing
    asleep,       \* the threads that sleep on recv_cv_
    late          \* the connections for which mgmt_initialized_ was set by a call that saw an earlier address

conn == <<connected, up, workQueue, opens, opening>>
links == <<initialized, sender, receiver, address, made>>
calls == <<counter, pending, replies, failed>>
broker == <<requests, answers>>
vars == <<conn, links, mutex, calls, jobs, broker, pc, asleep, late>>

At(where) == [at |-> where]
Call(where, id, to) == [at |-> where, id |-> id, to |-> to]
Idle == At("idle")
InitJob(t) == [thread |-> t]
SendJob(id, to) == [id |-> id, to |-> to]
Requests == [id : Ids, to : Receivers \cup {None}]

TypeOK ==
    /\ connected \in BOOLEAN /\ up \in BOOLEAN /\ workQueue \in BOOLEAN /\ (connected => up)
    /\ opens \in Opens /\ opening \in {"flag", "address", "done"}
    /\ initialized \in BOOLEAN
    /\ mutex \in Threads \cup {None}
    /\ sender \in Opens \cup {None}
    /\ receiver \in Receivers \cup {None} /\ address \in {receiver, None}
    /\ made \in Seq(Opens) /\ Len(made) <= MaxReceivers
    /\ counter \in 0 .. MaxRequests
    /\ pending \subseteq 1 .. counter
    /\ DOMAIN replies \subseteq pending /\ \A id \in DOMAIN replies : replies[id] \in 1 .. counter
    /\ failed \subseteq 1 .. counter
    /\ jobs \in Seq([thread : Threads] \cup Requests)
    /\ requests \subseteq Requests /\ answers \subseteq Requests
    /\ pc \in [Threads -> [at : {"idle", "test", "lock", "creating", "address", "build"}]
                  \cup [at : {"set"}, open : Opens]
                  \cup [at : {"schedule", "waiting", "leave"}, id : Ids, to : Receivers \cup {None}]
                  \cup [at : {"done"}, id : Ids, reply : Ids]]
    /\ asleep \subseteq {t \in Threads : pc[t].at \in {"address", "waiting"}}
    /\ late \subseteq Opens

Init ==
    /\ connected = TRUE /\ up = TRUE /\ workQueue = TRUE /\ opens = 1 /\ opening = "done"
    /\ initialized = FALSE /\ mutex = None
    /\ sender = None /\ receiver = None /\ address = None /\ made = <<>>
    /\ counter = 0 /\ pending = {} /\ replies = <<>> /\ failed = {}
    /\ jobs = <<>> /\ requests = {} /\ answers = {}
    /\ pc = [t \in Threads |-> Idle]
    /\ asleep = {} /\ late = {}

Goto(t, where) == pc' = [pc EXCEPT ![t] = where]

\* the receivers that are open at the broker
Attached == {r \in DOMAIN made : up /\ made[r] = opens}

-----------------------------------------------------------------------------
(* The event thread and the broker                                         *)

\* the work that makes the management links
RunInit ==
    /\ up /\ jobs # <<>> /\ "thread" \in DOMAIN Head(jobs)
    /\ Len(made) < MaxReceivers
    /\ sender' = opens
    /\ made' = Append(made, opens)
    /\ receiver' = Len(made')
    /\ address' = None
    /\ Goto(Head(jobs).thread, At("address"))
    /\ jobs' = Tail(jobs)
    /\ UNCHANGED <<conn, initialized, mutex, calls, broker, asleep, late>>

\* the mutant takes the address and wakes nobody
OnReceiverOpenQuietly(r) ==
    /\ r \in Attached /\ r = receiver /\ address = None
    /\ address' = r
    /\ UNCHANGED <<conn, initialized, sender, receiver, made, mutex, calls, jobs, broker, pc, asleep, late>>

\* on_receiver_open(): the address of the reply receiver; that of an earlier one is ignored
OnReceiverOpen(r) ==
    /\ r \in Attached /\ r = receiver /\ address = None
    /\ address' = r
    /\ asleep' = {}
    /\ UNCHANGED <<conn, initialized, sender, receiver, made, mutex, calls, jobs, broker, pc, late>>

\* on_error(): the broker refuses the reply receiver, which clears connected_ and wakes nobody
OnError(r) ==
    /\ r \in Attached /\ r = receiver /\ address = None
    /\ connected' = FALSE
    /\ UNCHANGED <<up, workQueue, opens, opening, links, mutex, calls, jobs, broker, pc, asleep, late>>

\* the job that sends a request; a sender of an earlier connection fails, or sends into the void; so does one
\* that clearLinks() has reset, unless it ends the program: it is undefined
RunSend ==
    /\ up /\ jobs # <<>> /\ "id" \in DOMAIN Head(jobs)
    /\ IF sender = opens
       THEN requests' = requests \cup {Head(jobs)} /\ UNCHANGED <<failed, asleep>>
       ELSE /\ \/ failed' = failed \cup {Head(jobs).id} /\ asleep' = {}
               \/ UNCHANGED <<failed, asleep>>
            /\ UNCHANGED requests
    /\ jobs' = Tail(jobs)
    /\ UNCHANGED <<conn, links, mutex, counter, pending, replies, answers, pc, late>>

\* the broker answers a request, to a receiver that it knows
Answer(q) ==
    /\ q \in requests /\ q.to \in Attached
    /\ requests' = requests \ {q}
    /\ answers' = answers \cup {q}
    /\ UNCHANGED <<conn, links, mutex, calls, jobs, pc, asleep, late>>

\* the mutant takes a reply for that of the request that has waited longest
OnMessageInOrder(q) ==
    /\ q \in answers /\ q.to = receiver
    /\ answers' = answers \ {q}
    /\ IF pending # {}
       THEN LET id == CHOOSE i \in pending : \A j \in pending : i <= j IN
            /\ replies' = [i \in DOMAIN replies \cup {id} |-> IF i = id THEN q.id ELSE replies[i]]
            /\ asleep' = {}
       ELSE UNCHANGED <<replies, asleep>>
    /\ UNCHANGED <<conn, links, mutex, counter, pending, failed, jobs, requests, pc, late>>

\* the mutant keeps replies that nobody waits for
OnMessageAlways(q) ==
    /\ q \in answers /\ q.to = receiver
    /\ answers' = answers \ {q}
    /\ replies' = [i \in DOMAIN replies \cup {q.id} |-> IF i = q.id THEN q.id ELSE replies[i]]
    /\ asleep' = {}
    /\ UNCHANGED <<conn, links, mutex, counter, pending, failed, jobs, requests, pc, late>>

\* on_message(): a reply to a request that does not wait any more is dropped
OnMessage(q) ==
    /\ q \in answers /\ q.to = receiver
    /\ answers' = answers \ {q}
    /\ IF q.id \in pending
       THEN /\ replies' = [i \in DOMAIN replies \cup {q.id} |-> IF i = q.id THEN q.id ELSE replies[i]]
            /\ asleep' = {}
       ELSE UNCHANGED <<replies, asleep>>
    /\ UNCHANGED <<conn, links, mutex, counter, pending, failed, jobs, requests, pc, late>>

\* the connection goes, and what the broker had to answer with it
GoDown ==
    /\ connected' = FALSE /\ up' = FALSE
    /\ requests' = {} /\ answers' = {}

\* on_connection_close(), or on_transport_error(), which keeps the work queue; jobs are dropped, or run
\* once Proton has connected again
Lose ==
    /\ up
    /\ GoDown
    /\ workQueue' \in BOOLEAN
    /\ jobs' \in {jobs, <<>>}
    /\ asleep' = {}
    /\ UNCHANGED <<opens, opening, links, mutex, calls, pc, late>>

\* on_connection_open(), again: the work queue and connected_, which the other threads see from here ...
Reopen ==
    /\ ~up /\ opens < MaxOpens
    /\ connected' = TRUE /\ up' = TRUE /\ workQueue' = TRUE /\ opens' = opens + 1
    /\ opening' = "flag"
    /\ UNCHANGED <<links, mutex, calls, jobs, broker, pc, asleep, late>>

\* the mutant leaves mgmt_initialized_ as it was
ForgetNothing ==
    /\ opening = "flag" /\ opening' = "address"
    /\ UNCHANGED <<connected, up, workQueue, opens, links, mutex, calls, jobs, broker, pc, asleep, late>>

\* ... then mgmt_initialized_, so that the management links are made again when they are needed ...
ForgetInitialized ==
    /\ opening = "flag" /\ opening' = "address"
    /\ initialized' = FALSE
    /\ late' = late \ {opens}
    /\ UNCHANGED <<connected, up, workQueue, opens, sender, receiver, address, made, mutex, calls, jobs, broker,
                   pc, asleep>>

\* ... and under recv_mutex_ the address of the reply receiver
ForgetAddress ==
    /\ opening = "address" /\ opening' = "done"
    /\ receiver' = None /\ address' = None
    /\ UNCHANGED <<connected, up, workQueue, opens, initialized, sender, made, mutex, calls, jobs, broker,
                   pc, asleep, late>>

-----------------------------------------------------------------------------
(* A management request                                                    *)

\* where a call is before it has its ID
Starting == {"test", "lock", "creating", "address", "set", "build"}

\* getBrokerInfo() and the like, when connected
Start(t) ==
    /\ pc[t] = Idle /\ connected
    /\ counter + Cardinality({u \in Threads : pc[u].at \in Starting}) < MaxRequests
    /\ Goto(t, At("test"))
    /\ UNCHANGED <<conn, links, mutex, calls, jobs, broker, asleep, late>>

\* the first test of mgmt_initialized_, without the mutex
Test(t) ==
    /\ pc[t] = At("test")
    /\ Goto(t, IF initialized THEN At("build") ELSE At("lock"))
    /\ UNCHANGED <<conn, links, mutex, calls, jobs, broker, asleep, late>>

\* the second test, with the mutex, and the work is scheduled, which fails without a work queue
Lock(t) ==
    /\ pc[t] = At("lock") /\ mutex = None
    /\ IF initialized
       THEN Goto(t, At("build")) /\ UNCHANGED <<mutex, jobs>>
       ELSE IF ~workQueue
       THEN Goto(t, Idle) /\ UNCHANGED <<mutex, jobs>>
       ELSE mutex' = t /\ jobs' = Append(jobs, InitJob(t)) /\ Goto(t, At("creating"))
    /\ UNCHANGED <<conn, links, calls, broker, asleep, late>>

\* work that did not run will not; a loss may have dropped it already
DropInitJob(t) ==
    \/ \E i \in DOMAIN jobs : jobs[i] = InitJob(t) /\ jobs' = RemoveAt(jobs, i)
    \/ ~(\E i \in DOMAIN jobs : jobs[i] = InitJob(t)) /\ UNCHANGED jobs

\* the mutant leaves the mutex locked
GiveUpInitLocked(t) ==
    /\ pc[t].at \in {"creating", "address"}
    /\ DropInitJob(t)
    /\ asleep' = asleep \ {t}
    /\ Goto(t, Idle)
    /\ UNCHANGED <<conn, links, mutex, calls, broker, late>>

\* a wait of the initialization times out or is cancelled: links that were made stay
GiveUpInit(t) ==
    /\ pc[t].at \in {"creating", "address"}
    /\ DropInitJob(t)
    /\ mutex' = None /\ asleep' = asleep \ {t}
    /\ Goto(t, Idle)
    /\ UNCHANGED <<conn, links, calls, broker, late>>

\* the wait for the address, tested under recv_mutex_
TestAddress(t) ==
    /\ pc[t] = At("address") /\ t \notin asleep
    /\ CASE address # None -> Goto(t, [at |-> "set", open |-> made[address]]) /\ UNCHANGED <<mutex, asleep>>
         [] address = None /\ ~connected -> Goto(t, Idle) /\ mutex' = None /\ UNCHANGED asleep
         [] address = None /\ connected -> asleep' = asleep \cup {t} /\ UNCHANGED <<mutex, pc>>
    /\ UNCHANGED <<conn, links, calls, jobs, broker, late>>

\* mgmt_initialized_ is set, whatever has become of the connection
SetInitialized(t) ==
    /\ pc[t].at = "set"
    /\ initialized' = TRUE /\ mutex' = None
    /\ late' = IF pc[t].open = opens THEN late ELSE late \cup {opens}
    /\ Goto(t, At("build"))
    /\ UNCHANGED <<conn, sender, receiver, address, made, calls, jobs, broker, asleep>>

\* the request gets an ID and the reply address, and waits from here
Build(t) ==
    /\ pc[t] = At("build")
    /\ counter' = counter + 1
    /\ pending' = pending \cup {counter'}
    /\ Goto(t, Call("schedule", counter', address))
    /\ UNCHANGED <<conn, links, mutex, replies, failed, jobs, broker, asleep, late>>

\* it is sent on the event thread, or the call fails
Schedule(t) ==
    /\ pc[t].at = "schedule"
    /\ jobs' = IF workQueue THEN Append(jobs, SendJob(pc[t].id, pc[t].to)) ELSE jobs
    /\ Goto(t, [pc[t] EXCEPT !.at = IF workQueue THEN "waiting" ELSE "leave"])
    /\ UNCHANGED <<conn, links, mutex, calls, broker, asleep, late>>

\* the wait for the reply, tested under recv_mutex_: connected_ is not looked at
TestReply(t) ==
    /\ pc[t].at = "waiting" /\ t \notin asleep
    /\ LET id == pc[t].id IN
       CASE id \in failed -> Goto(t, [pc[t] EXCEPT !.at = "leave"]) /\ UNCHANGED asleep
         [] id \notin failed /\ id \in DOMAIN replies ->
                Goto(t, [at |-> "done", id |-> id, reply |-> replies[id]]) /\ UNCHANGED asleep
         [] id \notin failed \cup DOMAIN replies -> asleep' = asleep \cup {t} /\ UNCHANGED pc
    /\ UNCHANGED <<conn, links, mutex, calls, jobs, broker, late>>

\* the wait times out or is cancelled
GiveUpReply(t) ==
    /\ pc[t].at = "waiting" /\ t \in asleep
    /\ asleep' = asleep \ {t}
    /\ Goto(t, [pc[t] EXCEPT !.at = "leave"])
    /\ UNCHANGED <<conn, links, mutex, calls, jobs, broker, late>>

\* the call returns: PendingRequest forgets the request and its reply
Leave(t) ==
    /\ pc[t].at \in {"done", "leave"}
    /\ pending' = pending \ {pc[t].id}
    /\ replies' = [i \in DOMAIN replies \ {pc[t].id} |-> replies[i]]
    /\ Goto(t, Idle)
    /\ UNCHANGED <<conn, links, mutex, counter, failed, jobs, broker, asleep, late>>

\* close(): the event thread comes to its end, and clearLinks() forgets everything, also what others wait for
Close(t) ==
    /\ pc[t] = Idle /\ connected /\ opening = "done"
    /\ GoDown
    /\ workQueue' = FALSE /\ jobs' = <<>> /\ asleep' = {}
    /\ initialized' = FALSE /\ sender' = None /\ receiver' = None /\ address' = None
    /\ pending' = {} /\ replies' = <<>>
    /\ UNCHANGED <<opens, opening, made, mutex, counter, failed, pc, late>>

-----------------------------------------------------------------------------
\* the event thread runs one handler or job after the other
EventThread ==
    \/ ForgetInitialized \/ ForgetAddress
    \/ /\ opening = "done"
       /\ \/ RunInit \/ RunSend \/ Lose \/ Reopen
          \/ \E r \in Receivers : OnReceiverOpen(r) \/ OnError(r)
          \/ \E q \in answers : OnMessage(q)

Broker == \E q \in requests : Answer(q)

\* what a call does without a timeout, and with one
Going(t) == Test(t) \/ Lock(t) \/ TestAddress(t) \/ SetInitialized(t) \/ Build(t) \/ Schedule(t) \/ TestReply(t)
                \/ Leave(t)
GivingUp(t) == GiveUpInit(t) \/ GiveUpReply(t)

Next == EventThread \/ Broker \/ \E t \in Threads : Start(t) \/ Going(t) \/ GivingUp(t) \/ Close(t)

Spec == Init /\ [][Next]_vars

(***************************************************************************)
(* Threads run, and the waits have timeouts. Nothing is asked of the       *)
(* broker or of the event thread. mgmt_mutex_ is taken by a thread that    *)
(* waits for it, if it is free again and again.                            *)
(***************************************************************************)
FairSpec ==
    /\ Spec
    /\ \A t \in Threads : WF_vars(Going(t) \/ GivingUp(t)) /\ SF_vars(Lock(t))

-----------------------------------------------------------------------------
(* Properties                                                              *)

(***************************************************************************)
(* "the reply is matched to the request by its message ID": a call returns *)
(* the reply to its own request, however late and in whatever order the    *)
(* replies come. "the request no longer waits when this call returns: a    *)
(* later reply is dropped": whatever a reply races with, a call that is    *)
(* over leaves neither its request nor a reply behind.                     *)
(***************************************************************************)
OwnReply ==
    /\ \A t \in Threads : pc[t].at = "done" => pc[t].reply = pc[t].id
    /\ pending \cup DOMAIN replies \subseteq {pc[t].id : t \in {u \in Threads : "id" \in DOMAIN pc[u]}}

(***************************************************************************)
(* mgmt_initialized_ on an open connection means that its sender and the   *)
(* address of its reply receiver are there, so a request is not sent into  *)
(* the void; but while on_connection_open() has connected_ set already and *)
(* the rest not forgotten yet, and when a call that saw the address of an  *)
(* earlier connection has set the flag. And nobody makes the links again   *)
(* while it is set, which would take the reply address from the requests   *)
(* of other threads.                                                       *)
(***************************************************************************)
InitializedIsCurrent ==
    /\ initialized /\ connected /\ opening = "done" /\ opens \notin late =>
         sender = opens /\ receiver \in Attached /\ address = receiver
    /\ initialized => \A t \in Threads : pc[t].at \notin {"creating", "address", "set"}

(***************************************************************************)
(* No wakeup is lost: a thread sleeps only while what it waits for is not  *)
(* there. A link error may leave it to its timeout.                        *)
(***************************************************************************)
SleepersWait ==
    \A t \in asleep :
        IF pc[t].at = "address"
        THEN address = None /\ up
        ELSE pc[t].id \notin failed \cup DOMAIN replies

(***************************************************************************)
(* Every request ends, with mgmt_mutex_ free for the next one: a broker    *)
(* that does not answer, a job that is dropped, or a loss holds up nobody  *)
(* for good.                                                               *)
(***************************************************************************)
RequestsEnd == \A t \in Threads : pc[t] # Idle ~> pc[t] = Idle
=============================================================================
