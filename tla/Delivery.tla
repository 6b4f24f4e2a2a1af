------------------------------ MODULE Delivery ------------------------------
(***************************************************************************)
(* Receiving and settling: on_message() stores a delivery for the event    *)
(* thread and its message for receive(); accept(), reject(), release() and *)
(* modify() find the delivery again by its tag; closeReceiver() forgets    *)
(* what a receiver has queued.                                             *)
(*                                                                         *)
(* A delivery stays on the event thread (pending_deliveries_); the threads *)
(* of the application see the message and the tag, in pending_tags_. Both  *)
(* are keyed by the tag alone, which the broker chooses: AMQP makes it     *)
(* unique for a link only. A connection that is lost can be opened again   *)
(* by Proton, MaxOpens times in all; receivers are then recovered under    *)
(* new names. The broker may close a link with an error, which the program *)
(* takes for the end of the connection.                                    *)
(***************************************************************************)
EXTENDS Integers, Sequences, FiniteSets

CONSTANTS Threads,           \* threads of the application
          Receivers,         \* link names
          First,             \* the receivers that are open at first
          Deliveries,        \* deliveries the broker can make
          Dispositions,      \* accepted, rejected, released, modified
          MaxOpens           \* bound: how often the connection is opened

None == [none |-> TRUE]

ASSUME DeliveryAssumption ==
    /\ First \subseteq Receivers
    /\ IsFiniteSet(Deliveries) /\ None \notin Deliveries
    /\ MaxOpens \in Nat \ {0}

Tags == 1 .. Cardinality(Deliveries)

VARIABLES
    connected,  \* connected_
    up,         \* the connection to the broker is open
    workQueue,  \* work_queue_ is not null
    opens,      \* how often the connection has been opened
    names,      \* receiver_names_
    used,       \* the names that links have had
    live,       \* the receivers attached at the broker
    made,       \* the deliveries made: receiver, tag and opening of each
    received,   \* received_messages_
    deliveries, \* pending_deliveries_
    pending,    \* pending_tags_
    jobs,       \* the jobs of the work queue
    evt,        \* the event thread: idle, or in the middle of a handler
    pc,         \* what each thread of the application is doing
    asleep,     \* the threads that sleep on recv_cv_
    held,       \* the deliveries whose message the application has
    asked,      \* the dispositions that calls for a delivery returned without error
    applied     \* the dispositions applied to each delivery

conn == <<connected, up, workQueue, opens, names, used, live>>
store == <<received, deliveries, pending>>
history == <<made, held, asked, applied>>
vars == <<conn, store, jobs, evt, pc, asleep, history>>

Idle == [at |-> "idle"]
Receiving(r) == [at |-> "receive", receiver |-> r]
Settling(d, disp) == [at |-> "settle", delivery |-> d, disp |-> disp]
Closing(r, step) == [at |-> step, receiver |-> r]
SettleJob(d, disp) == [tag |-> made[d].tag, delivery |-> d, disp |-> disp]
CloseJob(r) == [close |-> r]

\* the places of a thread, the steps of the event thread and its jobs
PC == {Idle} \cup {Receiving(r) : r \in Receivers}
         \cup {Settling(d, disp) : d \in Deliveries, disp \in Dispositions}
         \cup {Closing(r, step) : r \in Receivers, step \in {"forget", "close"}}
Evts == {Idle} \cup [at : {"tag", "push"}, delivery : Deliveries] \cup [at : {"lost"}]
SettleJobs == [tag : Tags, delivery : Deliveries, disp : Dispositions]
CloseJobs == [close : Receivers]

TypeOK ==
    /\ connected \in BOOLEAN /\ up \in BOOLEAN /\ workQueue \in BOOLEAN
    /\ opens \in 1 .. MaxOpens
    /\ names \subseteq used /\ live \subseteq used /\ used \subseteq Receivers
    /\ made \in [Deliveries -> {None} \cup [receiver : Receivers, tag : Tags, open : 1 .. MaxOpens]]
    /\ received \in [Receivers -> Seq(Deliveries)]
    /\ deliveries \in [Tags -> Deliveries \cup {None}]
    /\ pending \subseteq Tags
    /\ jobs \in Seq(SettleJobs \cup CloseJobs)
    /\ evt \in Evts
    /\ pc \in [Threads -> PC]
    /\ asleep \subseteq Threads
    /\ held \subseteq Deliveries
    /\ asked \in [Deliveries -> Seq(Dispositions)]
    /\ applied \in [Deliveries -> Seq(Dispositions)]

Init ==
    /\ connected = TRUE /\ up = TRUE /\ workQueue = TRUE
    /\ opens = 1
    /\ names = First /\ used = First /\ live = First
    /\ made = [d \in Deliveries |-> None]
    /\ received = [r \in Receivers |-> <<>>]
    /\ deliveries = [t \in Tags |-> None]
    /\ pending = {}
    /\ jobs = <<>>
    /\ evt = Idle
    /\ pc = [th \in Threads |-> Idle]
    /\ asleep = {}
    /\ held = {}
    /\ asked = [d \in Deliveries |-> <<>>]
    /\ applied = [d \in Deliveries |-> <<>>]

-----------------------------------------------------------------------------
(* The event thread                                                        *)

Made == {d \in Deliveries : made[d] # None}

\* the tags that the broker can choose: a new one, or one that it has not used on this link
FreeTags(r) ==
    1 .. 1 + Cardinality(Made) \ {made[d].tag : d \in {e \in Made : made[e].open = opens
                                                                   /\ made[e].receiver = r}}

\* on_message() stores the delivery ...
OnMessage(r) ==
    /\ evt = Idle
    /\ r \in live /\ Made # Deliveries
    /\ LET d == CHOOSE e \in Deliveries \ Made : TRUE IN
       /\ \E t \in FreeTags(r) :
              /\ made' = [made EXCEPT ![d] = [receiver |-> r, tag |-> t, open |-> opens]]
              /\ deliveries' = [deliveries EXCEPT ![t] = d]
       /\ evt' = [at |-> "tag", delivery |-> d]
    /\ UNCHANGED <<conn, received, pending, jobs, pc, asleep, held, asked, applied>>

\* the mutant stores the delivery where its tag belongs
StoreDelivery(d) ==
    /\ evt = [at |-> "tag", delivery |-> d]
    /\ pending' = pending \cup {d}
    /\ evt' = [at |-> "push", delivery |-> d]
    /\ UNCHANGED <<conn, received, deliveries, jobs, pc, asleep, history>>

\* ... then its tag ...
StoreTag(d) ==
    /\ evt = [at |-> "tag", delivery |-> d]
    /\ pending' = pending \cup {made[d].tag}
    /\ evt' = [at |-> "push", delivery |-> d]
    /\ UNCHANGED <<conn, received, deliveries, jobs, pc, asleep, history>>

\* the mutant wakes nobody
PushQuietly(d) ==
    /\ evt = [at |-> "push", delivery |-> d]
    /\ received' = [received EXCEPT ![made[d].receiver] = Append(@, d)]
    /\ evt' = Idle
    /\ UNCHANGED <<conn, deliveries, pending, jobs, pc, asleep, history>>

\* ... and hands the message to the receiving threads
Push(d) ==
    /\ evt = [at |-> "push", delivery |-> d]
    /\ received' = [received EXCEPT ![made[d].receiver] = Append(@, d)]
    /\ asleep' = {}
    /\ evt' = Idle
    /\ UNCHANGED <<conn, deliveries, pending, jobs, pc, history>>

\* the job of settle() and modify(): the delivery of the tag is forgotten and settled
Dispose(t, disp) ==
    IF deliveries[t] = None
    THEN UNCHANGED <<deliveries, applied>>
    ELSE /\ applied' = [applied EXCEPT ![deliveries[t]] = Append(@, disp)]
         /\ deliveries' = [deliveries EXCEPT ![t] = None]

RunSettle ==
    /\ evt = Idle
    /\ jobs # <<>> /\ "tag" \in DOMAIN Head(jobs)
    /\ Dispose(Head(jobs).tag, Head(jobs).disp)
    /\ jobs' = Tail(jobs)
    /\ UNCHANGED <<conn, received, pending, evt, pc, asleep, made, held, asked>>

\* the mutant leaves the messages that came while the close was queued
CloseKeepsMessages(r) ==
    /\ names' = names \ {r}
    /\ live' = live \ {r}
    /\ UNCHANGED received

\* closeReceiverLink()
CloseReceiverLink(r) ==
    /\ names' = names \ {r}
    /\ received' = [received EXCEPT ![r] = <<>>]
    /\ live' = live \ {r}

RunClose ==
    /\ evt = Idle
    /\ jobs # <<>> /\ "close" \in DOMAIN Head(jobs)
    /\ CloseReceiverLink(Head(jobs).close)
    /\ jobs' = Tail(jobs)
    /\ UNCHANGED <<connected, up, workQueue, opens, used, deliveries, pending, evt, pc, asleep, history>>

\* on_connection_close(), or on_transport_error(), which keeps the work queue, up to its broadcast;
\* jobs that were scheduled are dropped, or run once Proton has connected again
Lose ==
    /\ evt = Idle
    /\ up
    /\ up' = FALSE /\ connected' = FALSE
    /\ workQueue' \in BOOLEAN
    /\ live' = {}
    /\ evt' = [at |-> "lost"]
    /\ jobs' \in {jobs, <<>>}
    /\ UNCHANGED <<opens, names, used, store, pc, asleep, history>>

\* on_error(), for a receiver that the broker closes with an error: receiving threads are not woken
OnError(r) ==
    /\ evt = Idle
    /\ r \in live
    /\ live' = live \ {r}
    /\ connected' = FALSE
    /\ UNCHANGED <<up, workQueue, opens, names, used, store, jobs, evt, pc, asleep, history>>

\* the mutant has no broadcast: receive() is left to its timeout
WakeNobody ==
    /\ evt = [at |-> "lost"]
    /\ evt' = Idle
    /\ UNCHANGED <<conn, store, jobs, pc, asleep, history>>

\* recv_cv_.broadcast() under recv_mutex_
WakeReceivers ==
    /\ evt = [at |-> "lost"]
    /\ asleep' = {}
    /\ evt' = Idle
    /\ UNCHANGED <<conn, store, jobs, pc, history>>

\* on_connection_open() after a reconnection: the receivers of the registry, if they are recovered at
\* all, get new names; what is known of old deliveries is not forgotten
Reopen ==
    /\ evt = Idle
    /\ ~up /\ opens < MaxOpens
    /\ up' = TRUE /\ connected' = TRUE /\ workQueue' = TRUE
    /\ opens' = opens + 1
    /\ live' \in SUBSET (Receivers \ used)
    /\ names' = names \cup live'
    /\ used' = used \cup live'
    /\ UNCHANGED <<store, jobs, evt, pc, asleep, history>>

-----------------------------------------------------------------------------
(* The threads of the application                                          *)

Goto(th, where) == pc' = [pc EXCEPT ![th] = where]

\* receive() up to its wait
Receive(th, r) ==
    /\ pc[th] = Idle
    /\ connected /\ r \in names
    /\ Goto(th, Receiving(r))
    /\ UNCHANGED <<conn, store, jobs, evt, asleep, history>>

\* receive() once its wait is over: with a message, or because the connection is lost
Received(th, r) ==
    /\ IF received[r] # <<>>
       THEN /\ held' = held \cup {Head(received[r])}
            /\ received' = [received EXCEPT ![r] = Tail(@)]
       ELSE /\ ~connected
            /\ UNCHANGED <<held, received>>
    /\ Goto(th, Idle)

\* waitWithCancel() tests the predicate under recv_mutex_, and sleeps if there is nothing
TestReceive(th, r) ==
    /\ pc[th] = Receiving(r) /\ th \notin asleep
    /\ IF received[r] = <<>> /\ connected
       THEN asleep' = asleep \cup {th} /\ UNCHANGED <<pc, held, received>>
       ELSE Received(th, r) /\ UNCHANGED asleep
    /\ UNCHANGED <<conn, deliveries, pending, jobs, evt, made, asked, applied>>

\* the wait times out, after a last test
ReceiveTimeOut(th, r) ==
    /\ pc[th] = Receiving(r) /\ th \in asleep
    /\ asleep' = asleep \ {th}
    /\ IF received[r] = <<>> /\ connected
       THEN Goto(th, Idle) /\ UNCHANGED <<held, received>>
       ELSE Received(th, r)
    /\ UNCHANGED <<conn, deliveries, pending, jobs, evt, made, asked, applied>>

\* the thread is cancelled: receive() leaves the message where it is
CancelReceive(th, r) ==
    /\ pc[th] = Receiving(r) /\ th \in asleep
    /\ asleep' = asleep \ {th}
    /\ Goto(th, Idle)
    /\ UNCHANGED <<conn, store, jobs, evt, history>>

\* the mutant does not test for the tag
SettleUntested(th, d, disp) ==
    /\ pc[th] = Idle
    /\ d \in held /\ connected
    /\ pending' = pending \ {made[d].tag}
    /\ Goto(th, Settling(d, disp))
    /\ UNCHANGED <<conn, received, deliveries, jobs, evt, asleep, history>>

\* settle() and modify() take the tag; without it, "delivery tag not found"
Settle(th, d, disp) ==
    /\ pc[th] = Idle
    /\ d \in held /\ connected
    /\ made[d].tag \in pending
    /\ pending' = pending \ {made[d].tag}
    /\ Goto(th, Settling(d, disp))
    /\ UNCHANGED <<conn, received, deliveries, jobs, evt, asleep, history>>

\* the mutant never adds the job
ScheduleNothing(th, d, disp) ==
    /\ pc[th] = Settling(d, disp)
    /\ asked' = [asked EXCEPT ![d] = Append(@, disp)]
    /\ Goto(th, Idle)
    /\ UNCHANGED <<conn, store, jobs, evt, asleep, made, held, applied>>

\* ... and schedule the disposition; without a work queue the tag is lost and the call fails
ScheduleSettle(th, d, disp) ==
    /\ pc[th] = Settling(d, disp)
    /\ IF workQueue
       THEN /\ jobs' = Append(jobs, SettleJob(d, disp))
            /\ asked' = [asked EXCEPT ![d] = Append(@, disp)]
       ELSE UNCHANGED <<jobs, asked>>
    /\ Goto(th, Idle)
    /\ UNCHANGED <<conn, store, evt, asleep, made, held, applied>>

\* closeReceiver() erases the name ...
CloseReceiver(th, r) ==
    /\ pc[th] = Idle
    /\ connected /\ r \in names
    /\ names' = names \ {r}
    /\ Goto(th, Closing(r, "forget"))
    /\ UNCHANGED <<connected, up, workQueue, opens, used, live, store, jobs, evt, asleep, history>>

\* ... forgets the queued messages ...
ForgetMessages(th, r) ==
    /\ pc[th] = Closing(r, "forget")
    /\ received' = [received EXCEPT ![r] = <<>>]
    /\ Goto(th, Closing(r, "close"))
    /\ UNCHANGED <<conn, deliveries, pending, jobs, evt, asleep, history>>

\* ... and has the link closed
ScheduleClose(th, r) ==
    /\ pc[th] = Closing(r, "close")
    /\ jobs' = IF workQueue THEN Append(jobs, CloseJob(r)) ELSE jobs
    /\ Goto(th, Idle)
    /\ UNCHANGED <<conn, store, evt, asleep, history>>

-----------------------------------------------------------------------------
EventThread ==
    \/ \E d \in Deliveries : StoreTag(d) \/ Push(d)
    \/ RunSettle \/ RunClose
    \/ Lose \/ WakeReceivers \/ Reopen
    \/ \E r \in Receivers : OnMessage(r) \/ OnError(r)

Thread(th) ==
    \/ \E r \in Receivers : \/ Receive(th, r) \/ TestReceive(th, r) \/ ReceiveTimeOut(th, r)
                            \/ CancelReceive(th, r)
                            \/ CloseReceiver(th, r) \/ ForgetMessages(th, r) \/ ScheduleClose(th, r)
    \/ \E d \in Deliveries, disp \in Dispositions : Settle(th, d, disp) \/ ScheduleSettle(th, d, disp)

Next == EventThread \/ \E th \in Threads : Thread(th)

Spec == Init /\ [][Next]_vars

(***************************************************************************)
(* The event thread finishes its handlers and runs its jobs; a thread that *)
(* is awake runs. No fairness for the timeout of receive(): what is        *)
(* promised below is promised well before it.                              *)
(***************************************************************************)
FairSpec ==
    /\ Spec
    /\ WF_vars(RunSettle \/ RunClose \/ WakeReceivers \/ \E d \in Deliveries : StoreTag(d) \/ Push(d))
    /\ \A th \in Threads : WF_vars(\E r \in Receivers : TestReceive(th, r))

-----------------------------------------------------------------------------
(* Properties                                                              *)

\* no other delivery has the tag of d, on whatever link of whatever connection
OwnTag(d) == \A e \in Made \ {d} : made[e].tag # made[d].tag

(***************************************************************************)
(* README.md: a message is acknowledged by its delivery tag. Of several    *)
(* calls that settle one delivery only one succeeds, and its disposition   *)
(* is applied, once, to the very delivery it was asked for, whoever        *)
(* settles what at the same time, before or after a reconnection, as long  *)
(* as the tag of the delivery is its own.                                  *)
(***************************************************************************)
SettledAsAsked ==
    \A d \in Made : OwnTag(d) =>
        /\ Len(asked[d]) <= 1
        /\ applied[d] \in {<<>>, asked[d]}

(***************************************************************************)
(* A call that succeeded takes effect: its disposition is applied, or its  *)
(* job is queued, unless the connection of the delivery was lost. It is    *)
(* never dropped because the event thread does not find the delivery.      *)
(***************************************************************************)
SuccessTakesEffect ==
    \A d \in Deliveries :
        asked[d] # <<>> /\ OwnTag(d) =>
            \/ applied[d] # <<>>
            \/ \E i \in DOMAIN jobs : "tag" \in DOMAIN jobs[i] /\ jobs[i].delivery = d
            \/ ~up \/ made[d].open # opens

(***************************************************************************)
(* No wakeup is lost: a thread sleeps in receive() only while its receiver *)
(* has no message and the broker is there, or it is about to be woken.     *)
(***************************************************************************)
SleepersHaveNothing ==
    \A th \in asleep : /\ received[pc[th].receiver] = <<>>
                       /\ up \/ evt = [at |-> "lost"]

(***************************************************************************)
(* Messages that arrive while a receiver is being closed are not kept: on  *)
(* a connection that is still up, its queue is empty once the link is      *)
(* closed.                                                                 *)
(***************************************************************************)
ClosedHasNoMessages ==
    \A r \in Receivers :
        connected /\ opens = 1 /\ r \notin names \cup live => received[r] = <<>>

(***************************************************************************)
(* receive() ends when the connection is lost for good, before its timeout.*)
(***************************************************************************)
LossEndsReceive ==
    <>[]~up => <>[](\A th \in Threads : pc[th].at # "receive")
=============================================================================
