------------------------------ MODULE WorkQueue ------------------------------
(***************************************************************************)
(* runWork(), scheduleWork() and scheduleRelease() of QoreAmqpConnection.h: *)
(* how an API call has its work run by the Proton event thread, waits for  *)
(* it, gives up on a timeout or a cancellation, and has what the work      *)
(* created released.                                                       *)
(*                                                                         *)
(* A call is one runWork() that may create a link: createSender(),         *)
(* createReceiver(), createDurableReceiver() and the coordinator of        *)
(* beginTransaction(). Calls in Attaching wait a second time, for the      *)
(* broker, once their work has run. Each call is made once, which bounds   *)
(* the model; the set of calls is arbitrary.                               *)
(***************************************************************************)
EXTENDS Naturals, Sequences

CONSTANTS Calls,      \* the runWork() calls made on one connection
          Attaching   \* those that then wait for the broker (createReceiver)

ASSUME AttachingAssumption == Attaching \subseteq Calls

VARIABLES
    pc,         \* where the thread of each call is
    done,       \* WorkState::done
    abandoned,  \* WorkState::abandoned
    error,      \* WorkState::error is set
    release,    \* WorkState::release is set
    ran,        \* DiscardGuard::ran
    queue,      \* the jobs of the Proton work queue
    evt,        \* the event thread: what it is doing, and for which call
    workQueue,  \* work_queue_ is not null
    finished,   \* Proton has finished the connection and dropped its jobs
    link,       \* what the work of each call created
    closes,     \* how often that link was released (history)
    attached    \* attached_receivers_

state == <<done, abandoned, error, release, ran>>
vars == <<pc, state, queue, evt, workQueue, finished, link, closes, attached>>

Job == [kind : {"work", "release"}, call : Calls]
Work(c) == [kind |-> "work", call |-> c]
Release(c) == [kind |-> "release", call |-> c]
Idle == [at |-> "idle"]
At(where, c) == [at |-> where, call |-> c]

Pending == {"calling", "waiting", "gaveUp", "attaching"}
Ended == {"ok", "failed"}

TypeOK ==
    /\ pc \in [Calls -> Pending \cup Ended]
    /\ done \subseteq Calls
    /\ abandoned \subseteq Calls
    /\ error \subseteq Calls
    /\ release \subseteq Calls
    /\ ran \subseteq Calls
    /\ queue \in Seq(Job)
    /\ evt \in {Idle} \cup [at : {"fn", "finish", "release"}, call : Calls]
    /\ workQueue \in BOOLEAN
    /\ finished \in BOOLEAN
    /\ link \in [Calls -> {"none", "open", "closed", "lost"}]
    /\ closes \in [Calls -> Nat]
    /\ attached \subseteq Calls

Init ==
    /\ pc = [c \in Calls |-> "calling"]
    /\ done = {} /\ abandoned = {} /\ error = {} /\ release = {} /\ ran = {}
    /\ queue = <<>>
    /\ evt = Idle
    /\ workQueue = TRUE
    /\ finished = FALSE
    /\ link = [c \in Calls |-> "none"]
    /\ closes = [c \in Calls |-> 0]
    /\ attached = {}

-----------------------------------------------------------------------------
(* The thread that makes the call                                          *)

\* scheduleWork(): work_queue_ is set and add() takes the job
CanSchedule == workQueue /\ ~finished

Goto(c, where) == pc' = [pc EXCEPT ![c] = where]

Held(job, q) == \E i \in DOMAIN q : q[i] = job

(***************************************************************************)
(* ~DiscardGuard() of the calls whose last reference is gone: the guard is *)
(* held by the frame of runWork(), which the calls in outOfFrame have left *)
(* and by the job, which is no longer in q.                                *)
(***************************************************************************)
DiscardGuards(outOfFrame, q) ==
    LET discarded == {c \in outOfFrame : c \notin ran /\ c \notin done /\ ~Held(Work(c), q)}
    IN  /\ done' = done \cup discarded
        /\ error' = error \cup discarded

OutOfFrame == {c \in Calls : pc[c] \notin {"calling", "waiting"}}

\* runWork() up to its wait
Schedule(c) ==
    /\ pc[c] = "calling"
    /\ IF CanSchedule
       THEN /\ queue' = Append(queue, Work(c))
            /\ Goto(c, "waiting")
            /\ UNCHANGED <<done, error>>
       ELSE /\ Goto(c, "failed")
            /\ DiscardGuards({c}, queue)
            /\ UNCHANGED queue
    /\ UNCHANGED <<abandoned, release, ran, evt, workQueue, finished, link, closes, attached>>

\* the wait ends because the work has run
Wake(c) ==
    /\ pc[c] = "waiting"
    /\ c \in done
    /\ Goto(c, IF c \in error THEN "failed"
               ELSE IF c \in Attaching THEN "attaching" ELSE "ok")
    /\ UNCHANGED <<state, queue, evt, workQueue, finished, link, closes, attached>>

\* the mutant leaves work that has not started to its guard
TimeOutStarted(c) ==
    /\ pc[c] = "waiting"
    /\ c \notin done /\ c \in ran
    /\ abandoned' = abandoned \cup {c}
    /\ Goto(c, "failed")
    /\ DiscardGuards({c}, queue)
    /\ UNCHANGED <<release, ran, queue, evt, workQueue, finished, link, closes, attached>>

\* the wait times out: waitWithCancel() tests the predicate last
TimeOut(c) ==
    /\ pc[c] = "waiting"
    /\ c \notin done
    /\ abandoned' = abandoned \cup {c}
    /\ Goto(c, "failed")
    /\ DiscardGuards({c}, queue)
    /\ UNCHANGED <<release, ran, queue, evt, workQueue, finished, link, closes, attached>>

\* the mutant forgets what finished work created
CancelForgets(c) ==
    /\ pc[c] = "waiting"
    /\ abandoned' = abandoned \cup {c}
    /\ Goto(c, "failed")
    /\ DiscardGuards({c}, queue)
    /\ UNCHANGED <<release, ran, queue, evt, workQueue, finished, link, closes, attached>>

\* the mutant always schedules a release, done or not
CancelReleasesAlways(c) ==
    /\ pc[c] = "waiting"
    /\ abandoned' = abandoned \cup {c}
    /\ Goto(c, "gaveUp")
    /\ DiscardGuards({c}, queue)
    /\ UNCHANGED <<release, ran, queue, evt, workQueue, finished, link, closes, attached>>

\* the thread is cancelled, even as the work finishes
Cancel(c) ==
    /\ pc[c] = "waiting"
    /\ abandoned' = abandoned \cup {c}
    /\ Goto(c, IF c \in done /\ c \in release THEN "gaveUp" ELSE "failed")
    /\ DiscardGuards({c}, queue)
    /\ UNCHANGED <<release, ran, queue, evt, workQueue, finished, link, closes, attached>>

\* scheduleRelease(): a connection that is closed has no link to release
ScheduleRelease(c) ==
    /\ pc[c] = "gaveUp"
    /\ queue' = IF c \in release /\ CanSchedule THEN Append(queue, Release(c)) ELSE queue
    /\ Goto(c, "failed")
    /\ UNCHANGED <<state, evt, workQueue, finished, link, closes, attached>>

\* createReceiver(): the broker has attached the receiver
AttachDone(c) ==
    /\ pc[c] = "attaching"
    /\ c \in attached
    /\ Goto(c, "ok")
    /\ UNCHANGED <<state, queue, evt, workQueue, finished, link, closes, attached>>

\* createReceiver(): the wait for the broker times out or is cancelled
AttachGiveUp(c) ==
    /\ pc[c] = "attaching"
    /\ Goto(c, "gaveUp")
    /\ UNCHANGED <<state, queue, evt, workQueue, finished, link, closes, attached>>

-----------------------------------------------------------------------------
(* The Proton event thread                                                 *)

\* the job of a call starts: nothing runs for a thread that gave up
RunWork(c) ==
    /\ evt = Idle
    /\ queue # <<>> /\ Head(queue) = Work(c)
    /\ queue' = Tail(queue)
    /\ ran' = ran \cup {c}
    /\ IF c \in abandoned
       THEN done' = done \cup {c} /\ evt' = evt
       ELSE done' = done /\ evt' = At("fn", c)
    /\ UNCHANGED <<pc, abandoned, error, release, workQueue, finished, link, closes, attached>>

\* fn(st) creates a link and sets st.release
CreateLink(c) ==
    /\ link' = [link EXCEPT ![c] = "open"]
    /\ release' = release \cup {c}
    /\ UNCHANGED error

\* fn(st) throws, or sets st.error, before it creates anything
FailWork(c) ==
    /\ error' = error \cup {c}
    /\ UNCHANGED <<link, release>>

\* fn(st) finds a coordinator that it can use again: there is nothing to release
ReuseLink == UNCHANGED <<link, release, error>>

Fn(c) ==
    /\ evt = At("fn", c)
    /\ evt' = At("finish", c)
    /\ CreateLink(c) \/ FailWork(c) \/ ReuseLink
    /\ UNCHANGED <<pc, done, abandoned, ran, queue, workQueue, finished, closes, attached>>

\* the mutant releases what it created whether or not the thread still waits
FinishReleases(c) ==
    /\ evt = At("finish", c)
    /\ done' = done \cup {c}
    /\ evt' = IF c \in release THEN At("release", c) ELSE Idle
    /\ UNCHANGED <<pc, abandoned, error, release, ran, queue, workQueue, finished, link, closes,
                   attached>>

\* under the lock of the state: done, and whether the thread has given up meanwhile
FinishWork(c) ==
    /\ evt = At("finish", c)
    /\ done' = done \cup {c}
    /\ evt' = IF c \in abandoned /\ c \in release THEN At("release", c) ELSE Idle
    /\ UNCHANGED <<pc, abandoned, error, release, ran, queue, workQueue, finished, link, closes,
                   attached>>

\* st.release(): closeSenderLink(), closeReceiverLink() or pn_link_close()
CloseLink(c) ==
    /\ link' = [link EXCEPT ![c] = IF @ = "open" THEN "closed" ELSE @]
    /\ closes' = [closes EXCEPT ![c] = @ + 1]
    /\ attached' = attached \ {c}

\* the mutant stays with the call
ReleaseStays(c) ==
    /\ evt = At("release", c)
    /\ evt' = At("idle", c)
    /\ CloseLink(c)
    /\ UNCHANGED <<pc, state, queue, workQueue, finished>>

ReleaseNow(c) ==
    /\ evt = At("release", c)
    /\ evt' = Idle
    /\ CloseLink(c)
    /\ UNCHANGED <<pc, state, queue, workQueue, finished>>

RunRelease(c) ==
    /\ evt = Idle
    /\ queue # <<>> /\ Head(queue) = Release(c)
    /\ queue' = Tail(queue)
    /\ CloseLink(c)
    /\ UNCHANGED <<pc, state, evt, workQueue, finished>>

\* on_receiver_open()
OnReceiverOpen(c) ==
    /\ evt = Idle
    /\ c \in Attaching /\ link[c] = "open" /\ c \notin attached
    /\ attached' = attached \cup {c}
    /\ UNCHANGED <<pc, state, queue, evt, workQueue, finished, link, closes>>

\* on_connection_close() forgets the work queue
OnConnectionClose ==
    /\ evt = Idle
    /\ workQueue
    /\ workQueue' = FALSE
    /\ UNCHANGED <<pc, state, queue, evt, finished, link, closes, attached>>

\* Proton finishes the connection: its jobs are dropped, and its links are gone
Finish ==
    /\ evt = Idle
    /\ ~finished
    /\ finished' = TRUE
    /\ queue' = <<>>
    /\ link' = [c \in Calls |-> IF link[c] = "open" THEN "lost" ELSE link[c]]
    /\ DiscardGuards(OutOfFrame, <<>>)
    /\ UNCHANGED <<pc, abandoned, release, ran, evt, workQueue, closes, attached>>

\* every call has ended and the event thread has nothing left to do
Stopped ==
    /\ \A c \in Calls : pc[c] \in Ended
    /\ finished
    /\ UNCHANGED vars

-----------------------------------------------------------------------------
Caller(c) == \/ Schedule(c) \/ Wake(c) \/ TimeOut(c) \/ Cancel(c)
             \/ ScheduleRelease(c) \/ AttachDone(c) \/ AttachGiveUp(c)

EventThread(c) == \/ RunWork(c) \/ Fn(c) \/ FinishWork(c)
                  \/ ReleaseNow(c) \/ RunRelease(c)

Next ==
    \/ \E c \in Calls : Caller(c) \/ EventThread(c) \/ OnReceiverOpen(c)
    \/ OnConnectionClose
    \/ Finish
    \/ Stopped

Spec == Init /\ [][Next]_vars

(***************************************************************************)
(* Every wait of a call has a timeout, and its other steps are plain       *)
(* statements; the event thread runs its jobs as long as the connection    *)
(* is there; Proton finishes a connection after on_connection_close().     *)
(* Nothing makes the application call, the broker attach a receiver or the *)
(* connection close.                                                       *)
(***************************************************************************)
Fairness ==
    /\ \A c \in Calls : /\ WF_vars(Wake(c) \/ TimeOut(c))
                        /\ WF_vars(ScheduleRelease(c))
                        /\ WF_vars(AttachDone(c) \/ AttachGiveUp(c))
    /\ WF_vars(\E c \in Calls : EventThread(c))
    /\ WF_vars(~workQueue /\ Finish)

FairSpec == Spec /\ Fairness

-----------------------------------------------------------------------------
(* Properties                                                              *)

\* a release of c that the event thread has been handed and has not finished
ReleasePending(c) ==
    \/ Held(Release(c), queue)
    \/ evt = At("release", c)
    \/ evt = At("finish", c) /\ c \in abandoned /\ c \in release

(***************************************************************************)
(* A link is released at most once, however the end of its work, a timeout *)
(* and a cancellation interleave: runWork() leaves the release to exactly  *)
(* one of the work and the thread that gave up.                            *)
(***************************************************************************)
ReleasedOnce ==
    \A c \in Calls : /\ closes[c] <= 1
                     /\ closes[c] = 1 => ~ReleasePending(c)

(***************************************************************************)
(* A call that returned its link to the application never has it released  *)
(* behind the application's back, then or later.                           *)
(***************************************************************************)
ReturnedIsKept ==
    \A c \in Calls :
        pc[c] = "ok" => /\ link[c] # "closed" /\ closes[c] = 0 /\ ~ReleasePending(c)
                        /\ c \notin abandoned

(***************************************************************************)
(* A call that failed leaves no link behind: one that is still open has a  *)
(* release under way, unless the connection is closing and takes it along. *)
(***************************************************************************)
NoOrphanLink ==
    \A c \in Calls :
        pc[c] = "failed" /\ link[c] = "open" => ReleasePending(c) \/ ~workQueue

-----------------------------------------------------------------------------
(* What a call promises, and how the work queue keeps it                   *)

Promise == INSTANCE CallPromise WITH
    outcome <- [c \in Calls |-> IF pc[c] \in Ended THEN pc[c] ELSE "pending"],
    resource <- [c \in Calls |-> IF link[c] \in {"closed", "lost"} THEN "gone" ELSE link[c]],
    up <- ~finished

(***************************************************************************)
(* runWork() with its callers implements what a call promises: an ended    *)
(* call never changes its outcome, and a link never comes or goes except   *)
(* as the promise allows.                                                  *)
(***************************************************************************)
KeepsPromise == Promise!Spec

(***************************************************************************)
(* What a call created after it failed, or before, is eventually released  *)
(* or gone with its connection: no link stays open with no owner.          *)
(***************************************************************************)
OrphansAreTakenBack == Promise!TakenBack

(***************************************************************************)
(* Once made, a call ends, even if its work is discarded: by its timeout.  *)
(***************************************************************************)
CallsEnd == \A c \in Calls : pc[c] # "calling" ~> pc[c] \in Ended
=============================================================================
