------------------------------ MODULE Sending ------------------------------
(***************************************************************************)
(* send() and sendBatch(): their work creates the deliveries on the event  *)
(* thread and a result for each in send_results_; on_tracker_accept() and  *)
(* on_tracker_reject() store the answer of the broker there; the call      *)
(* waits for it on send_cv_ and removes the results.                       *)
(*                                                                         *)
(* The calls share one sender, so their deliveries share its link. A       *)
(* delivery tag is made from a counter, so the tag of a delivery is the    *)
(* message it was created for. Each call is made once, which bounds the    *)
(* model, and the connection is opened at most MaxOpens times.             *)
(***************************************************************************)
EXTENDS Naturals, Sequences, FiniteSets

CONSTANTS Calls,        \* calls of send() and sendBatch()
          Batches,      \* those of sendBatch()
          Messages,
          MessagesOf,   \* the messages of each call, in order; each is one delivery
          MaxOpens      \* bound: how often the connection is opened

ASSUME SendingAssumption ==
    /\ Batches \subseteq Calls
    /\ MessagesOf \in [Calls -> Seq(Messages)]
    /\ \A c \in Calls \ Batches : Len(MessagesOf[c]) = 1
    /\ \A c, d \in Calls : \A i \in DOMAIN MessagesOf[c], j \in DOMAIN MessagesOf[d] :
           MessagesOf[c][i] = MessagesOf[d][j] => c = d /\ i = j
    /\ MaxOpens \in Nat \ {0}

VARIABLES
    connected,     \* connected_
    up,            \* the connection to the broker is open
    workQueue,     \* work_queue_ is not null
    opens,         \* how often the connection has been opened
    stale,         \* calls whose sender went with the connection
    leaked,        \* calls whose release was refused or dropped by a connection that was closed
    jobs,          \* the jobs of the work queue
    evt,           \* the event thread: idle, in the work of a call, or in a handler
    ahead,         \* the deliveries of the link that pn_link_advance() has not passed
    under,         \* the delivery each message was sent with
    wire,          \* what became of each message
    results,       \* send_results_
    messagesSent,  \* messages_sent_
    pc,            \* where the thread of each call is
    transacted,    \* the calls made while a transaction is active
    asleep,        \* the calls that sleep on send_cv_
    done, abandoned, error, release,   \* the WorkState of each call
    got,           \* what the wait of each send() found
    reported       \* what a call told the application of each message

conn == <<connected, up, workQueue, opens, stale, leaked>>
broker == <<ahead, under, wire>>
state == <<done, abandoned, error, release>>
counts == <<results, messagesSent>>
callers == <<pc, transacted, asleep>>
vars == <<conn, jobs, evt, broker, counts, callers, state, got, reported>>

None == "none"
Idle == [at |-> "idle"]
InWork(c, left) == [at |-> "work", call |-> c, left |-> left]
Lost == [at |-> "lost"]
Job(kind, c) == [kind |-> kind, call |-> c]

Own(c) == {MessagesOf[c][i] : i \in DOMAIN MessagesOf[c]}
Answers == {"accepted", "rejected"}
Active == {"working", "gaveUp", "confirm", "conclude"}
Jobs == [kind : {"work", "release"}, call : Calls]
Evts == {Idle, Lost} \cup [at : {"work"}, call : Calls, left : Seq(Messages)]

TypeOK ==
    /\ connected \in BOOLEAN /\ up \in BOOLEAN /\ workQueue \in BOOLEAN
    /\ opens \in 1 .. MaxOpens
    /\ stale \subseteq Calls /\ leaked \subseteq Calls
    /\ jobs \in Seq(Jobs)
    /\ evt \in Evts
    /\ ahead \in Seq(Messages)
    /\ under \in [Messages -> Messages \cup {None}]
    /\ wire \in [Messages -> Answers \cup {"unsent", "sent", "released", "gone"}]
    /\ results \in [Messages -> Answers \cup {None, "pending"}]
    /\ messagesSent \in Nat
    /\ pc \in [Calls -> Active \cup {"idle", "ok", "failed"}]
    /\ transacted \subseteq Calls /\ asleep \subseteq Calls
    /\ done \subseteq Calls /\ abandoned \subseteq Calls
    /\ error \subseteq Calls /\ release \subseteq Calls
    /\ got \in [Calls -> Answers \cup {None, "assumed"}]
    /\ reported \in [Messages -> Answers \cup {None, "unknown"}]

Init ==
    /\ connected = TRUE /\ up = TRUE /\ workQueue = TRUE
    /\ opens = 1
    /\ stale = {} /\ leaked = {}
    /\ jobs = <<>>
    /\ evt = Idle
    /\ ahead = <<>>
    /\ under = [m \in Messages |-> None]
    /\ wire = [m \in Messages |-> "unsent"]
    /\ results = [m \in Messages |-> None]
    /\ messagesSent = 0
    /\ pc = [c \in Calls |-> "idle"]
    /\ transacted = {} /\ asleep = {}
    /\ done = {} /\ abandoned = {} /\ error = {} /\ release = {}
    /\ got = [c \in Calls |-> None]
    /\ reported = [m \in Messages |-> None]

Goto(c, where) == pc' = [pc EXCEPT ![c] = where]

\* the results of the call are removed from send_results_
Forget(c) == results' = [m \in Messages |-> IF m \in Own(c) THEN None ELSE results[m]]

Answered(m) == results[m] \in Answers

Queued(kind, c) == \E i \in DOMAIN jobs : jobs[i] = Job(kind, c)
AtWork(c) == evt.at = "work" /\ evt.call = c

-----------------------------------------------------------------------------
(* The event thread                                                        *)

\* the work starts, unless its call gave up; it fails if the sender is closed
RunWork(c) ==
    /\ evt = Idle
    /\ jobs # <<>> /\ Head(jobs) = Job("work", c)
    /\ jobs' = Tail(jobs)
    /\ \/ /\ c \in abandoned
          /\ done' = done \cup {c}
          /\ UNCHANGED <<evt, error>>
       \/ /\ c \notin abandoned
          /\ evt' = InWork(c, MessagesOf[c])
          /\ UNCHANGED <<done, error>>
       \/ /\ c \notin abandoned
          /\ evt' = InWork(c, <<>>)
          /\ error' = error \cup {c}
          /\ UNCHANGED done
    /\ UNCHANGED <<conn, broker, counts, callers, abandoned, release, got, reported>>

\* pn_link_send() sends with the current delivery of the link, and its result waits under the tag
\* of the new one
Transfer(c, m, line) ==
    /\ ahead' = Tail(line)
    /\ under' = [under EXCEPT ![m] = Head(line)]
    /\ wire' = [wire EXCEPT ![m] = IF up /\ c \notin stale THEN "sent" ELSE "gone"]
    /\ results' = [results EXCEPT ![m] = "pending"]
    /\ release' = release \cup {c}
    /\ evt' = InWork(c, Tail(evt.left))
    /\ UNCHANGED error

\* the new delivery stays on the link, and the batch stops
FailEncode(c, line) ==
    /\ ahead' = line
    /\ error' = error \cup {c}
    /\ release' = IF c \in Batches THEN release \cup {c} ELSE release
    /\ evt' = InWork(c, <<>>)
    /\ UNCHANGED <<under, wire, results>>

\* one message of the work: pn_delivery() adds a delivery to the link, the message is encoded, which
\* can fail, and sent
SendMessage(c) ==
    /\ evt.at = "work" /\ evt.call = c /\ evt.left # <<>>
    /\ LET m == Head(evt.left)
           line == Append(ahead, m)
       IN  FailEncode(c, line) \/ Transfer(c, m, line)
    /\ UNCHANGED <<conn, jobs, messagesSent, callers, done, abandoned, got, reported>>

\* the mutant leaves the results to a thread that has given up
FinishKeeping(c) ==
    /\ evt = InWork(c, <<>>)
    /\ evt' = Idle
    /\ done' = done \cup {c}
    /\ UNCHANGED <<conn, jobs, broker, counts, callers, abandoned, error, release, got, reported>>

\* runWork(): the end of the work; its release removes the results if its call has given up
FinishWork(c) ==
    /\ evt = InWork(c, <<>>)
    /\ evt' = Idle
    /\ done' = done \cup {c}
    /\ IF c \in abandoned /\ c \in release THEN Forget(c) ELSE UNCHANGED results
    /\ UNCHANGED <<conn, jobs, broker, messagesSent, callers, abandoned, error, release, got,
                   reported>>

RunRelease(c) ==
    /\ evt = Idle
    /\ jobs # <<>> /\ Head(jobs) = Job("release", c)
    /\ jobs' = Tail(jobs)
    /\ Forget(c)
    /\ UNCHANGED <<conn, evt, broker, messagesSent, callers, state, got, reported>>

\* the answer of the broker is stored for the delivery it names, if a call still waits for it
StoreAnswer(tag, answer) ==
    IF results[tag] # None
    THEN /\ results' = [results EXCEPT ![tag] = answer]
         /\ messagesSent' = IF answer = "accepted" THEN messagesSent + 1 ELSE messagesSent
    ELSE UNCHANGED counts

\* the mutant stores the answer and wakes nobody
AnswerQuietly(m, answer) ==
    /\ evt = Idle /\ up
    /\ wire[m] = "sent"
    /\ wire' = [wire EXCEPT ![m] = answer]
    /\ StoreAnswer(under[m], answer)
    /\ UNCHANGED <<conn, jobs, evt, ahead, under, callers, state, got, reported>>

\* on_tracker_accept() and on_tracker_reject(); a message sent in a transaction gets no such answer
Answer(m, answer) ==
    /\ evt = Idle /\ up
    /\ wire[m] = "sent"
    /\ \A c \in transacted : m \notin Own(c)
    /\ wire' = [wire EXCEPT ![m] = answer]
    /\ StoreAnswer(under[m], answer)
    /\ asleep' = {}
    /\ UNCHANGED <<conn, jobs, evt, ahead, under, pc, transacted, state, got, reported>>

\* the mutant stores an outcome that the calls do not know
GiveBackStored(m) ==
    /\ evt = Idle /\ up
    /\ wire[m] = "sent"
    /\ wire' = [wire EXCEPT ![m] = "released"]
    /\ results' = [results EXCEPT ![under[m]] = "released"]
    /\ UNCHANGED <<conn, jobs, evt, ahead, under, messagesSent, callers, state, got, reported>>

\* the broker releases or modifies the delivery: there is no on_tracker_release()
GiveBack(m) ==
    /\ evt = Idle /\ up
    /\ wire[m] = "sent"
    /\ wire' = [wire EXCEPT ![m] = "released"]
    /\ UNCHANGED <<conn, jobs, evt, ahead, under, counts, callers, state, got, reported>>

\* on_connection_close(), or on_transport_error(), which keeps the work queue, up to its broadcast
Lose ==
    /\ evt = Idle /\ up
    /\ up' = FALSE /\ connected' = FALSE
    /\ workQueue' \in BOOLEAN
    /\ stale' = {c \in Calls : pc[c] # "idle"}
    /\ wire' = [m \in Messages |-> IF wire[m] = "sent" THEN "gone" ELSE wire[m]]
    /\ \/ UNCHANGED <<jobs, leaked>>
       \/ jobs' = <<>> /\ leaked' = leaked \cup {c \in Calls : Queued("release", c)}
    /\ evt' = Lost
    /\ UNCHANGED <<opens, ahead, under, counts, callers, state, got, reported>>

\* on_error(), for a receiver that the broker closes with an error: sending threads are not woken
OnError ==
    /\ evt = Idle /\ up
    /\ connected' = FALSE
    /\ UNCHANGED <<up, workQueue, opens, stale, leaked, jobs, evt, broker, counts, callers, state, got, reported>>

\* the mutant has no broadcast: send() is left to its timeout
WakeNobody ==
    /\ evt = Lost
    /\ evt' = Idle
    /\ UNCHANGED <<conn, jobs, broker, counts, callers, state, got, reported>>

\* send_cv_.broadcast() under send_mutex_
WakeSenders ==
    /\ evt = Lost
    /\ evt' = Idle
    /\ asleep' = {}
    /\ UNCHANGED <<conn, jobs, broker, counts, pc, transacted, state, got, reported>>

\* on_connection_open() after a reconnection: the link of the sender is a new one
Reopen ==
    /\ evt = Idle
    /\ ~up /\ opens < MaxOpens
    /\ up' = TRUE /\ connected' = TRUE /\ workQueue' = TRUE
    /\ opens' = opens + 1
    /\ ahead' = <<>>
    /\ UNCHANGED <<stale, leaked, jobs, evt, under, wire, counts, callers, state, got, reported>>

-----------------------------------------------------------------------------
(* The threads of the application                                          *)

\* send() and sendBatch() up to the wait for their work; a transaction may be active
Start(c) ==
    /\ pc[c] = "idle" /\ connected
    /\ IF workQueue
       THEN jobs' = Append(jobs, Job("work", c)) /\ Goto(c, "working")
       ELSE UNCHANGED jobs /\ Goto(c, "failed")
    /\ transacted' \in {transacted, transacted \cup {c}}
    /\ UNCHANGED <<conn, evt, broker, counts, asleep, state, got, reported>>

\* the work has run; when it failed, the results of a batch are removed
Wake(c) ==
    /\ pc[c] = "working" /\ c \in done
    /\ IF c \in error
       THEN /\ Goto(c, "failed")
            /\ IF c \in Batches THEN Forget(c) ELSE UNCHANGED results
       ELSE Goto(c, "confirm") /\ UNCHANGED results
    /\ UNCHANGED <<conn, jobs, evt, broker, messagesSent, transacted, asleep, state, got, reported>>

\* the wait for the work times out or is cancelled; only a cancellation can find it done
GiveUp(c) ==
    /\ pc[c] = "working"
    /\ abandoned' = abandoned \cup {c}
    /\ Goto(c, IF c \in done /\ c \in release THEN "gaveUp" ELSE "failed")
    /\ UNCHANGED <<conn, jobs, evt, broker, counts, transacted, asleep, done, error, release, got, reported>>

\* scheduleRelease(): a connection that is closed refuses the job, or has no work queue
ScheduleRelease(c) ==
    /\ pc[c] = "gaveUp"
    /\ \/ workQueue /\ jobs' = Append(jobs, Job("release", c)) /\ UNCHANGED leaked
       \/ ~(workQueue /\ up) /\ leaked' = leaked \cup {c} /\ UNCHANGED jobs
    /\ Goto(c, "failed")
    /\ UNCHANGED <<connected, up, workQueue, opens, stale, evt, broker, counts, transacted, asleep, state, got, reported>>

\* the end of a batch: the list of what became of its messages, and messages_sent_
ReturnBatch(c, confirmed) ==
    LET accepted == {m \in Own(c) : c \in transacted \/ (confirmed /\ results[m] = "accepted")}
    IN  /\ reported' = [m \in Messages |-> IF m \in accepted THEN "accepted"
                                           ELSE IF m \in Own(c) THEN "unknown" ELSE reported[m]]
        /\ messagesSent' = messagesSent + Cardinality(accepted)
        /\ Forget(c)
        /\ Goto(c, "ok")
        /\ UNCHANGED got

\* what is sent in a transaction is not waited for: it is taken as accepted
ReturnTransacted(c) ==
    /\ pc[c] = "confirm" /\ c \in transacted
    /\ IF c \in Batches
       THEN ReturnBatch(c, TRUE)
       ELSE /\ reported' = [m \in Messages |-> IF m \in Own(c) THEN "accepted" ELSE reported[m]]
            /\ Forget(c)
            /\ Goto(c, "ok")
            /\ UNCHANGED <<messagesSent, got>>
    /\ UNCHANGED <<conn, jobs, evt, broker, transacted, asleep, state>>

\* the predicates that send() and sendBatch() wait for: the batch does not look at connected_
WaitIsOver(c) == \/ \A m \in Own(c) : Answered(m)
                 \/ c \notin Batches /\ ~connected

\* the end of the wait under send_mutex_: a send() that timed out counts as accepted
EndWait(c) ==
    IF c \in Batches
    THEN ReturnBatch(c, WaitIsOver(c))
    ELSE LET m == Head(MessagesOf[c])
         IN  /\ got' = [got EXCEPT ![c] = IF Answered(m) THEN results[m]
                                          ELSE IF connected THEN "assumed" ELSE None]
             /\ Forget(c)
             /\ Goto(c, "conclude")
             /\ UNCHANGED <<messagesSent, reported>>

\* waitWithCancel() tests the predicate under send_mutex_ and sleeps if it is false
TestConfirm(c) ==
    /\ pc[c] = "confirm" /\ c \notin transacted \cup asleep
    /\ IF WaitIsOver(c)
       THEN EndWait(c) /\ UNCHANGED asleep
       ELSE asleep' = asleep \cup {c} /\ UNCHANGED <<pc, counts, got, reported>>
    /\ UNCHANGED <<conn, jobs, evt, broker, transacted, state>>

ConfirmTimeOut(c) ==
    /\ pc[c] = "confirm" /\ c \in asleep
    /\ asleep' = asleep \ {c}
    /\ EndWait(c)
    /\ UNCHANGED <<conn, jobs, evt, broker, transacted, state>>

CancelConfirm(c) ==
    /\ pc[c] = "confirm" /\ c \in asleep
    /\ asleep' = asleep \ {c}
    /\ Forget(c)
    /\ Goto(c, "failed")
    /\ UNCHANGED <<conn, jobs, evt, broker, messagesSent, transacted, state, got, reported>>

Report(c, outcome) == reported' = [reported EXCEPT ![Head(MessagesOf[c])] = outcome]

\* the mutant does not look at the connection
ConcludeBlindly(c) ==
    /\ pc[c] = "conclude"
    /\ Report(c, IF got[c] \in {"assumed", "accepted"} THEN "accepted" ELSE "rejected")
    /\ Goto(c, IF got[c] = "rejected" THEN "failed" ELSE "ok")
    /\ UNCHANGED <<conn, jobs, evt, broker, counts, transacted, asleep, state, got>>

\* send() after its wait: connection lost, rejected by the broker, or delivery information
Conclude(c) ==
    /\ pc[c] = "conclude"
    /\ \/ /\ got[c] \in {"assumed", "accepted"}
          /\ Report(c, "accepted") /\ Goto(c, "ok")
       \/ /\ got[c] \in {"rejected", None} /\ ~connected
          /\ Goto(c, "failed") /\ UNCHANGED reported
       \/ /\ got[c] = "rejected" /\ connected
          /\ Report(c, "rejected") /\ Goto(c, "failed")
       \/ /\ got[c] = None /\ connected
          /\ Report(c, "rejected") /\ Goto(c, "ok")
    /\ UNCHANGED <<conn, jobs, evt, broker, counts, transacted, asleep, state, got>>

-----------------------------------------------------------------------------
EventThread == \/ \E c \in Calls : \/ RunWork(c) \/ SendMessage(c) \/ FinishWork(c)
                                   \/ RunRelease(c)
               \/ WakeSenders

Broker == \E m \in Messages : GiveBack(m) \/ \E answer \in Answers : Answer(m, answer)

Caller(c) == \/ Start(c) \/ Wake(c) \/ GiveUp(c) \/ ScheduleRelease(c) \/ ReturnTransacted(c)
             \/ TestConfirm(c) \/ ConfirmTimeOut(c) \/ CancelConfirm(c) \/ Conclude(c)

Next == EventThread \/ Broker \/ Lose \/ OnError \/ Reopen \/ \E c \in Calls : Caller(c)

Spec == Init /\ [][Next]_vars

(***************************************************************************)
(* The event thread runs, and so does a thread that is awake. No fairness  *)
(* for the timeout of a wait: what is promised below comes well before it. *)
(***************************************************************************)
FairSpec ==
    /\ Spec
    /\ WF_vars(EventThread)
    /\ \A c \in Calls : WF_vars(TestConfirm(c)) /\ WF_vars(Conclude(c))

-----------------------------------------------------------------------------
(* Properties                                                              *)

\* what the broker said of the message that was sent with the delivery of m: m itself, unless a
\* message before it failed to encode
Said(m, answer) == \E n \in Messages : under[n] = m /\ wire[n] = answer

(***************************************************************************)
(* What is reported is what the broker said of the delivery that the call  *)
(* waits for: send() reports a message as rejected, and sendBatch() as     *)
(* accepted, only then. The exception: a send() that found the connection  *)
(* lost, when it has been opened again, takes that for a rejection.        *)
(***************************************************************************)
ReportsHold ==
    /\ \A c \in Calls \ Batches : \A m \in Own(c) :
           reported[m] = "rejected" => \/ Said(m, "rejected")
                                       \/ got[c] = None /\ opens > 1
    /\ \A c \in Batches \ transacted : \A m \in Own(c) :
           reported[m] = "accepted" => Said(m, "accepted")

\* who has to remove the results of a call
Responsible(c) == pc[c] \in Active \/ Queued("release", c) \/ AtWork(c)

(***************************************************************************)
(* send_results_ does not grow while connections last: whatever gives up,  *)
(* fails or is cancelled, on whichever connection, a result is there only  *)
(* while its call is active or its release is under way; but for calls     *)
(* that gave up and whose own release met a connection that was closed.    *)
(***************************************************************************)
NoStaleResult ==
    \A c \in Calls : \A m \in Own(c) : results[m] # None => Responsible(c) \/ c \in leaked

(***************************************************************************)
(* No wakeup is lost: a thread that sleeps on send_cv_ has no answer yet,  *)
(* and the broker is there for a send() that sleeps, or it is about to be  *)
(* woken.                                                                  *)
(***************************************************************************)
SleepersUnanswered ==
    \A c \in asleep : /\ \E m \in Own(c) : ~Answered(m)
                      /\ c \in Batches \/ up \/ evt = Lost

(***************************************************************************)
(* send() does not wait for a lost connection: it ends, before its timeout.*)
(***************************************************************************)
LossEndsSend ==
    <>[]~up => <>[](\A c \in Calls \ (Batches \cup transacted) :
                        pc[c] \notin {"confirm", "conclude"})
=============================================================================
