--------------------------- MODULE WorkQueueProofs ---------------------------
(***************************************************************************)
(* TLAPS proofs about WorkQueue, for every set of calls.                   *)
(***************************************************************************)
EXTENDS WorkQueue, TLAPS

Queued(job) == Held(job, queue)

\* the event thread is at work for c
Busy(c) == \E where \in {"fn", "finish", "release"} : evt = At(where, c)

-----------------------------------------------------------------------------
(* The inductive invariant. Its parts follow the work of a call from the   *)
(* queue to the event thread, and its release from the one that has to     *)
(* schedule it to the queue.                                               *)

\* a job is in the queue at most once
JobsDistinct == \A i, j \in DOMAIN queue : queue[i] = queue[j] => i = j

\* a finished connection runs nothing
NothingAfterFinish == finished => queue = <<>> /\ evt = Idle

\* a call whose work has not started has created nothing and released nothing
NotStarted(c) ==
    /\ c \notin ran => /\ c \notin release /\ link[c] = "none" /\ closes[c] = 0
                       /\ ~Queued(Release(c)) /\ ~Busy(c)
                       /\ c \in done => c \in error
    /\ Queued(Work(c)) => c \notin ran /\ c \notin done /\ c \notin error /\ pc[c] # "calling"
    /\ pc[c] = "calling" => c \notin ran \cup done \cup error \cup abandoned

\* work that is running is not done
Running(c) ==
    /\ evt = At("fn", c) => c \notin done /\ c \notin error /\ c \notin release
                            /\ link[c] = "none" /\ closes[c] = 0
    /\ evt = At("finish", c) => c \notin done /\ closes[c] = 0

\* a release is in one place only: with its thread, in the queue, or on the event thread
ReleasePlace(c) ==
    /\ pc[c] \in {"ok", "attaching", "gaveUp"} => c \in done /\ c \notin error
    /\ pc[c] \in {"ok", "attaching"} => c \notin abandoned
    /\ c \in abandoned => pc[c] \in {"gaveUp", "failed"}
    /\ pc[c] # "failed" => closes[c] = 0 /\ ~Queued(Release(c)) /\ evt # At("release", c)
    /\ evt = At("release", c) => c \in done /\ closes[c] = 0 /\ ~Queued(Release(c))
    /\ Queued(Release(c)) => c \in done /\ closes[c] = 0
    /\ closes[c] <= 1
    /\ closes[c] = 1 => c \in done

\* an open link has someone left to release it, or an owner
OpenLink(c) ==
    /\ link[c] = "open" => c \in release /\ ~finished
    /\ c \in error => c \notin release
    /\ link[c] = "open" /\ c \notin done => evt = At("finish", c)
    /\ link[c] = "closed" => closes[c] = 1
    /\ pc[c] = "failed" /\ c \notin done => c \in abandoned
    /\ pc[c] = "failed" /\ link[c] = "open" => ReleasePending(c) \/ ~workQueue

PerCall(c) == NotStarted(c) /\ Running(c) /\ ReleasePlace(c) /\ OpenLink(c)

Inv ==
    /\ TypeOK
    /\ JobsDistinct
    /\ NothingAfterFinish
    /\ \A c \in Calls : PerCall(c)

-----------------------------------------------------------------------------
(* Jobs, and what a queue of them holds                                    *)

\* Jobs are told apart by their kind and their call.
LEMMA JobFacts ==
    ASSUME NEW c \in Calls, NEW d \in Calls
    PROVE  /\ Work(c) \in Job /\ Release(c) \in Job
           /\ Work(c) # Release(d)
           /\ Work(c) = Work(d) <=> c = d
           /\ Release(c) = Release(d) <=> c = d
  BY DEF Job, Work, Release

\* Steps of the event thread are told apart by what is done and for which call.
LEMMA EvtFacts ==
    ASSUME NEW c \in Calls, NEW d \in Calls,
           NEW v \in {"fn", "finish", "release"}, NEW w \in {"fn", "finish", "release"}
    PROVE  /\ At(v, c) # Idle
           /\ At(v, c) = At(w, d) <=> v = w /\ c = d
           /\ At(v, c) \in [at : {"fn", "finish", "release"}, call : Calls]
  BY DEF At, Idle

\* A queue holds what it held before and the job appended to it.
LEMMA HeldAppend ==
    ASSUME NEW q \in Seq(Job), NEW x \in Job, NEW y
    PROVE  /\ Held(y, Append(q, x)) <=> Held(y, q) \/ y = x
           /\ Append(q, x) \in Seq(Job)
  <1>1. /\ DOMAIN Append(q, x) = 1 .. (Len(q) + 1)
        /\ DOMAIN q = 1 .. Len(q)
        /\ \A i \in DOMAIN q : Append(q, x)[i] = q[i]
        /\ Append(q, x)[Len(q) + 1] = x
        /\ Len(q) \in Nat
    OBVIOUS
  <1>2. QED
    BY <1>1 DEF Held

\* Without its head, a queue of distinct jobs holds every job but that one.
LEMMA HeldTail ==
    ASSUME NEW q \in Seq(Job), q # <<>>, NEW y,
           \A i, j \in DOMAIN q : q[i] = q[j] => i = j
    PROVE  /\ Held(y, Tail(q)) <=> Held(y, q) /\ y # Head(q)
           /\ Held(Head(q), q)
           /\ Tail(q) \in Seq(Job)
           /\ \A i, j \in DOMAIN Tail(q) : Tail(q)[i] = Tail(q)[j] => i = j
  <1>1. /\ DOMAIN Tail(q) = 1 .. (Len(q) - 1)
        /\ DOMAIN q = 1 .. Len(q)
        /\ Len(q) \in Nat \ {0}
        /\ Head(q) = q[1]
        /\ \A i \in DOMAIN Tail(q) : Tail(q)[i] = q[i + 1]
        /\ Tail(q) \in Seq(Job)
    OBVIOUS
  <1>2. Held(y, Tail(q)) => Held(y, q) /\ y # Head(q)
    <2>1. SUFFICES ASSUME NEW i \in DOMAIN Tail(q), Tail(q)[i] = y
                   PROVE  Held(y, q) /\ y # Head(q)
      BY DEF Held
    <2>2. i + 1 \in DOMAIN q /\ q[i + 1] = y /\ 1 \in DOMAIN q /\ i + 1 # 1
      BY <1>1, <2>1
    <2>3. QED
      BY <1>1, <2>2 DEF Held
  <1>3. Held(y, q) /\ y # Head(q) => Held(y, Tail(q))
    <2>1. SUFFICES ASSUME NEW i \in DOMAIN q, q[i] = y, y # Head(q)
                   PROVE  Held(y, Tail(q))
      BY DEF Held
    <2>2. i - 1 \in DOMAIN Tail(q) /\ Tail(q)[i - 1] = y
      BY <1>1, <2>1
    <2>3. QED
      BY <2>2 DEF Held
  <1>4. Held(Head(q), q)
    BY <1>1 DEF Held
  <1>5. \A i, j \in DOMAIN Tail(q) : Tail(q)[i] = Tail(q)[j] => i = j
    BY <1>1
  <1>6. QED
    BY <1>1, <1>2, <1>3, <1>4, <1>5

\* Appending a job that a queue does not hold keeps its jobs distinct.
LEMMA DistinctAppend ==
    ASSUME NEW q \in Seq(Job), NEW x \in Job, ~Held(x, q),
           \A i, j \in DOMAIN q : q[i] = q[j] => i = j
    PROVE  \A i, j \in DOMAIN Append(q, x) : Append(q, x)[i] = Append(q, x)[j] => i = j
  <1>1. /\ DOMAIN Append(q, x) = 1 .. (Len(q) + 1)
        /\ DOMAIN q = 1 .. Len(q)
        /\ \A i \in DOMAIN q : Append(q, x)[i] = q[i] /\ q[i] # x
        /\ Append(q, x)[Len(q) + 1] = x
        /\ Len(q) \in Nat
    BY DEF Held
  <1>2. QED
    BY <1>1

-----------------------------------------------------------------------------
(* Every step preserves the invariant                                      *)

\* The invariant holds before any call is made.
LEMMA InitInv == Init => Inv
  <1>1. SUFFICES ASSUME Init PROVE Inv
    OBVIOUS
  <1>2. TypeOK
    <2>1. queue \in Seq(Job) /\ evt \in {Idle} \cup [at : {"fn", "finish", "release"}, call : Calls]
      BY <1>1 DEF Init
    <2>2. QED
      BY <1>1, <2>1 DEF Init, TypeOK, Pending
  <1>3. /\ \A job : ~Held(job, queue)
        /\ \A c \in Calls, where \in {"fn", "finish", "release"} : evt # At(where, c)
    BY <1>1, EvtFacts DEF Init, Held
  <1>4. JobsDistinct /\ NothingAfterFinish
    BY <1>1 DEF Init, JobsDistinct, NothingAfterFinish
  <1>5. ASSUME NEW c \in Calls PROVE PerCall(c)
    <2>1. NotStarted(c)
      BY <1>1, <1>3 DEF Init, NotStarted, Queued, Busy
    <2>2. Running(c)
      BY <1>1, <1>3 DEF Init, Running
    <2>3. ReleasePlace(c)
      BY <1>1, <1>3 DEF Init, ReleasePlace, Queued
    <2>4. OpenLink(c)
      BY <1>1, <1>3 DEF Init, OpenLink
    <2>5. QED
      BY <2>1, <2>2, <2>3, <2>4 DEF PerCall
  <1>6. QED
    BY <1>2, <1>4, <1>5 DEF Inv

\* A new job is queued once, or the call fails before it started.
LEMMA ScheduleInv == ASSUME Inv, NEW c \in Calls, Schedule(c) PROVE Inv'
  <1>1. CASE CanSchedule
    <2>1. /\ queue' = Append(queue, Work(c)) /\ Work(c) \in Job /\ queue \in Seq(Job)
          /\ ~Held(Work(c), queue)
      BY <1>1, JobFacts DEF Schedule, Inv, PerCall, NotStarted, TypeOK, Queued
    <2>2. TypeOK'
      BY <1>1, <2>1, HeldAppend DEF Schedule, Inv, TypeOK, Goto, Pending, CanSchedule
    <2>3. JobsDistinct'
      BY <2>1, DistinctAppend DEF Inv, JobsDistinct
    <2>4. NothingAfterFinish'
      BY <1>1 DEF Schedule, CanSchedule, Inv, NothingAfterFinish
    <2>5. ASSUME NEW d \in Calls PROVE PerCall(d)'
      <3>1. /\ Held(Work(d), queue') <=> Held(Work(d), queue) \/ d = c
            /\ Held(Release(d), queue') <=> Held(Release(d), queue)
        BY <2>1, HeldAppend, JobFacts
      <3>2. NotStarted(d)'
        BY <1>1, <3>1 DEF Schedule, Inv, TypeOK, Goto, PerCall, NotStarted, Queued, Busy
      <3>3. Running(d)'
        BY <1>1, <3>1 DEF Schedule, Inv, TypeOK, Goto, PerCall, Running
      <3>4. ReleasePlace(d)'
        BY <1>1, <3>1 DEF Schedule, Inv, TypeOK, Goto, PerCall, NotStarted, ReleasePlace, Queued
      <3>5. OpenLink(d)'
        BY <1>1, <3>1 DEF Schedule, Inv, TypeOK, Goto, PerCall, OpenLink, ReleasePending
      <3>6. QED
        BY <3>2, <3>3, <3>4, <3>5 DEF PerCall
    <2>6. QED
      BY <2>2, <2>3, <2>4, <2>5 DEF Inv
  <1>2. CASE ~CanSchedule
    <2>1. TypeOK'
      BY <1>2 DEF Schedule, Inv, TypeOK, Goto, DiscardGuards, Ended
    <2>2. JobsDistinct' /\ NothingAfterFinish'
      BY <1>2 DEF Schedule, Inv, JobsDistinct, NothingAfterFinish
    <2>3. ASSUME NEW d \in Calls PROVE PerCall(d)'
      BY <1>2
      DEF Schedule, Inv, TypeOK, Goto, DiscardGuards, PerCall, NotStarted, Running, ReleasePlace,
          OpenLink, Queued, Busy, ReleasePending
    <2>4. QED
      BY <2>1, <2>2, <2>3 DEF Inv
  <1>3. QED
    BY <1>1, <1>2

\* A call whose work is done returns, fails, or waits for the broker.
LEMMA WakeInv == ASSUME Inv, NEW c \in Calls, Wake(c) PROVE Inv'
  <1>1. TypeOK'
    BY DEF Wake, Goto, state, Inv, TypeOK, Ended, Pending
  <1>2. JobsDistinct' /\ NothingAfterFinish'
    BY DEF Wake, Goto, state, Inv, JobsDistinct, NothingAfterFinish
  <1>3. ASSUME NEW d \in Calls PROVE PerCall(d)'
    <2>1. NotStarted(d)'
      BY DEF Wake, Goto, state, Inv, TypeOK, PerCall, NotStarted, ReleasePlace, OpenLink, Queued, Busy
    <2>2. Running(d)'
      BY DEF Wake, Goto, state, Inv, TypeOK, PerCall, NotStarted, Running, Busy
    <2>3. ReleasePlace(d)'
      BY DEF Wake, Goto, state, Inv, TypeOK, PerCall, NotStarted, ReleasePlace, OpenLink, Queued
    <2>4. OpenLink(d)'
      BY DEF Wake, Goto, state, Inv, TypeOK, PerCall, NotStarted, Running, ReleasePlace, OpenLink, ReleasePending
    <2>5. QED
      BY <2>1, <2>2, <2>3, <2>4 DEF PerCall
  <1>4. QED
    BY <1>1, <1>2, <1>3 DEF Inv

\* Work that is not done when its call times out knows that it is abandoned.
LEMMA TimeOutInv == ASSUME Inv, NEW c \in Calls, TimeOut(c) PROVE Inv'
  <1>1. TypeOK'
    BY DEF TimeOut, Goto, DiscardGuards, Inv, TypeOK, Ended, Pending
  <1>2. JobsDistinct' /\ NothingAfterFinish'
    BY DEF TimeOut, Goto, DiscardGuards, Inv, JobsDistinct, NothingAfterFinish
  <1>3. ASSUME NEW d \in Calls PROVE PerCall(d)'
    <2>1. NotStarted(d)'
      BY DEF TimeOut, Goto, DiscardGuards, Inv, TypeOK, PerCall, NotStarted, ReleasePlace, OpenLink, Queued, Busy
    <2>2. Running(d)'
      BY DEF TimeOut, Goto, DiscardGuards, Inv, TypeOK, PerCall, NotStarted, Running, Busy
    <2>3. ReleasePlace(d)'
      BY DEF TimeOut, Goto, DiscardGuards, Inv, TypeOK, PerCall, NotStarted, ReleasePlace, OpenLink, Queued
    <2>4. OpenLink(d)'
      BY DEF TimeOut, Goto, DiscardGuards, Inv, TypeOK, PerCall, NotStarted, Running, ReleasePlace, OpenLink, ReleasePending
    <2>5. QED
      BY <2>1, <2>2, <2>3, <2>4 DEF PerCall
  <1>4. QED
    BY <1>1, <1>2, <1>3 DEF Inv

\* A cancelled call schedules the release only if its work is done.
LEMMA CancelInv == ASSUME Inv, NEW c \in Calls, Cancel(c) PROVE Inv'
  <1>1. TypeOK'
    BY DEF Cancel, Goto, DiscardGuards, Inv, TypeOK, Ended, Pending
  <1>2. JobsDistinct' /\ NothingAfterFinish'
    BY DEF Cancel, Goto, DiscardGuards, Inv, JobsDistinct, NothingAfterFinish
  <1>3. ASSUME NEW d \in Calls PROVE PerCall(d)'
    <2>1. NotStarted(d)'
      BY DEF Cancel, Goto, DiscardGuards, Inv, TypeOK, PerCall, NotStarted, ReleasePlace, OpenLink, Queued, Busy
    <2>2. Running(d)'
      BY DEF Cancel, Goto, DiscardGuards, Inv, TypeOK, PerCall, NotStarted, Running, Busy
    <2>3. ReleasePlace(d)'
      BY DEF Cancel, Goto, DiscardGuards, Inv, TypeOK, PerCall, NotStarted, ReleasePlace, OpenLink, Queued
    <2>4. OpenLink(d)'
      BY DEF Cancel, Goto, DiscardGuards, Inv, TypeOK, PerCall, NotStarted, Running, ReleasePlace, OpenLink, ReleasePending
    <2>5. QED
      BY <2>1, <2>2, <2>3, <2>4 DEF PerCall
  <1>4. QED
    BY <1>1, <1>2, <1>3 DEF Inv

\* A receiver the broker attached becomes the application's.
LEMMA AttachDoneInv == ASSUME Inv, NEW c \in Calls, AttachDone(c) PROVE Inv'
  <1>1. TypeOK'
    BY DEF AttachDone, Goto, state, Inv, TypeOK, Ended, Pending
  <1>2. JobsDistinct' /\ NothingAfterFinish'
    BY DEF AttachDone, Goto, state, Inv, JobsDistinct, NothingAfterFinish
  <1>3. ASSUME NEW d \in Calls PROVE PerCall(d)'
    <2>1. NotStarted(d)'
      BY DEF AttachDone, Goto, state, Inv, TypeOK, PerCall, NotStarted, ReleasePlace, OpenLink, Queued, Busy
    <2>2. Running(d)'
      BY DEF AttachDone, Goto, state, Inv, TypeOK, PerCall, NotStarted, Running, Busy
    <2>3. ReleasePlace(d)'
      BY DEF AttachDone, Goto, state, Inv, TypeOK, PerCall, NotStarted, ReleasePlace, OpenLink, Queued
    <2>4. OpenLink(d)'
      BY DEF AttachDone, Goto, state, Inv, TypeOK, PerCall, NotStarted, Running, ReleasePlace, OpenLink, ReleasePending
    <2>5. QED
      BY <2>1, <2>2, <2>3, <2>4 DEF PerCall
  <1>4. QED
    BY <1>1, <1>2, <1>3 DEF Inv

\* A receiver the broker did not attach has its release with its thread.
LEMMA AttachGiveUpInv == ASSUME Inv, NEW c \in Calls, AttachGiveUp(c) PROVE Inv'
  <1>1. TypeOK'
    BY DEF AttachGiveUp, Goto, state, Inv, TypeOK, Ended, Pending
  <1>2. JobsDistinct' /\ NothingAfterFinish'
    BY DEF AttachGiveUp, Goto, state, Inv, JobsDistinct, NothingAfterFinish
  <1>3. ASSUME NEW d \in Calls PROVE PerCall(d)'
    <2>1. NotStarted(d)'
      BY DEF AttachGiveUp, Goto, state, Inv, TypeOK, PerCall, NotStarted, ReleasePlace, OpenLink, Queued, Busy
    <2>2. Running(d)'
      BY DEF AttachGiveUp, Goto, state, Inv, TypeOK, PerCall, NotStarted, Running, Busy
    <2>3. ReleasePlace(d)'
      BY DEF AttachGiveUp, Goto, state, Inv, TypeOK, PerCall, NotStarted, ReleasePlace, OpenLink, Queued
    <2>4. OpenLink(d)'
      BY DEF AttachGiveUp, Goto, state, Inv, TypeOK, PerCall, NotStarted, Running, ReleasePlace, OpenLink, ReleasePending
    <2>5. QED
      BY <2>1, <2>2, <2>3, <2>4 DEF PerCall
  <1>4. QED
    BY <1>1, <1>2, <1>3 DEF Inv

\* The broker attaching a receiver moves no release.
LEMMA OnReceiverOpenInv == ASSUME Inv, NEW c \in Calls, OnReceiverOpen(c) PROVE Inv'
  <1>1. TypeOK'
    BY DEF OnReceiverOpen, state, Inv, TypeOK
  <1>2. JobsDistinct' /\ NothingAfterFinish'
    BY DEF OnReceiverOpen, state, Inv, JobsDistinct, NothingAfterFinish
  <1>3. ASSUME NEW d \in Calls PROVE PerCall(d)'
    <2>1. NotStarted(d)'
      BY DEF OnReceiverOpen, state, Inv, TypeOK, PerCall, NotStarted, ReleasePlace, OpenLink, Queued, Busy
    <2>2. Running(d)'
      BY DEF OnReceiverOpen, state, Inv, TypeOK, PerCall, NotStarted, Running, Busy
    <2>3. ReleasePlace(d)'
      BY DEF OnReceiverOpen, state, Inv, TypeOK, PerCall, NotStarted, ReleasePlace, OpenLink, Queued
    <2>4. OpenLink(d)'
      BY DEF OnReceiverOpen, state, Inv, TypeOK, PerCall, NotStarted, Running, ReleasePlace, OpenLink, ReleasePending
    <2>5. QED
      BY <2>1, <2>2, <2>3, <2>4 DEF PerCall
  <1>4. QED
    BY <1>1, <1>2, <1>3 DEF Inv

\* Closing takes no release away, and excuses those that cannot be scheduled.
LEMMA OnConnectionCloseInv == ASSUME Inv, OnConnectionClose PROVE Inv'
  <1>1. TypeOK'
    BY DEF OnConnectionClose, state, Inv, TypeOK
  <1>2. JobsDistinct' /\ NothingAfterFinish'
    BY DEF OnConnectionClose, state, Inv, JobsDistinct, NothingAfterFinish
  <1>3. ASSUME NEW d \in Calls PROVE PerCall(d)'
    <2>1. NotStarted(d)'
      BY DEF OnConnectionClose, state, Inv, TypeOK, PerCall, NotStarted, ReleasePlace, OpenLink, Queued, Busy
    <2>2. Running(d)'
      BY DEF OnConnectionClose, state, Inv, TypeOK, PerCall, NotStarted, Running, Busy
    <2>3. ReleasePlace(d)'
      BY DEF OnConnectionClose, state, Inv, TypeOK, PerCall, NotStarted, ReleasePlace, OpenLink, Queued
    <2>4. OpenLink(d)'
      BY DEF OnConnectionClose, state, Inv, TypeOK, PerCall, NotStarted, Running, ReleasePlace, OpenLink, ReleasePending
    <2>5. QED
      BY <2>1, <2>2, <2>3, <2>4 DEF PerCall
  <1>4. QED
    BY <1>1, <1>2, <1>3 DEF Inv

\* A release moves from its thread to the queue.
LEMMA ScheduleReleaseInv == ASSUME Inv, NEW c \in Calls, ScheduleRelease(c) PROVE Inv'
  <1>1. CASE c \in release /\ CanSchedule
    <2>1. /\ queue' = Append(queue, Release(c)) /\ Release(c) \in Job /\ queue \in Seq(Job)
          /\ ~Held(Release(c), queue)
      BY <1>1, JobFacts DEF ScheduleRelease, Inv, PerCall, ReleasePlace, TypeOK, Queued
    <2>2. TypeOK'
      BY <1>1, <2>1, HeldAppend DEF ScheduleRelease, Inv, TypeOK, Goto, Ended, state
    <2>3. JobsDistinct'
      BY <2>1, DistinctAppend DEF Inv, JobsDistinct
    <2>4. NothingAfterFinish'
      BY <1>1 DEF ScheduleRelease, CanSchedule, Inv, NothingAfterFinish
    <2>5. ASSUME NEW d \in Calls PROVE PerCall(d)'
      <3>1. /\ Held(Release(d), queue') <=> Held(Release(d), queue) \/ d = c
            /\ Held(Work(d), queue') <=> Held(Work(d), queue)
        BY <2>1, HeldAppend, JobFacts
      <3>2. NotStarted(d)'
        BY <3>1 DEF ScheduleRelease, state, Inv, TypeOK, Goto, PerCall, NotStarted, Queued, Busy
      <3>3. Running(d)'
        BY DEF ScheduleRelease, state, Inv, TypeOK, Goto, PerCall, Running
      <3>4. ReleasePlace(d)'
        BY <3>1 DEF ScheduleRelease, state, Inv, TypeOK, Goto, PerCall, ReleasePlace, Queued
      <3>5. OpenLink(d)'
        BY <3>1 DEF ScheduleRelease, state, Inv, TypeOK, Goto, PerCall, ReleasePlace, OpenLink,
                    ReleasePending
      <3>6. QED
        BY <3>2, <3>3, <3>4, <3>5 DEF PerCall
    <2>6. QED
      BY <2>2, <2>3, <2>4, <2>5 DEF Inv
  <1>2. CASE ~(c \in release /\ CanSchedule)
    <2>1. queue' = queue
      BY <1>2 DEF ScheduleRelease
    <2>2. TypeOK'
      BY <2>1 DEF ScheduleRelease, Inv, TypeOK, Goto, Ended, state
    <2>3. JobsDistinct' /\ NothingAfterFinish'
      BY <2>1 DEF ScheduleRelease, Inv, JobsDistinct, NothingAfterFinish
    <2>4. ASSUME NEW d \in Calls PROVE PerCall(d)'
      <3>1. NotStarted(d)' /\ Running(d)'
        BY <2>1 DEF ScheduleRelease, state, Inv, TypeOK, Goto, PerCall, NotStarted, Running, Queued,
                    Busy
      <3>2. ReleasePlace(d)'
        BY <2>1 DEF ScheduleRelease, state, Inv, TypeOK, Goto, PerCall, ReleasePlace, Queued
      <3>3. OpenLink(d)'
        BY <1>2, <2>1 DEF ScheduleRelease, state, Inv, TypeOK, Goto, PerCall, ReleasePlace, OpenLink,
                          ReleasePending, CanSchedule
      <3>4. QED
        BY <3>1, <3>2, <3>3 DEF PerCall
    <2>5. QED
      BY <2>2, <2>3, <2>4 DEF Inv
  <1>3. QED
    BY <1>1, <1>2

\* Work moves from the queue to the event thread, and runs once.
LEMMA RunWorkInv == ASSUME Inv, NEW c \in Calls, RunWork(c) PROVE Inv'
  <1>1. /\ queue \in Seq(Job) /\ queue # <<>> /\ Head(queue) = Work(c) /\ queue' = Tail(queue)
        /\ \A i, j \in DOMAIN queue : queue[i] = queue[j] => i = j
    BY DEF RunWork, Inv, TypeOK, JobsDistinct
  <1>2. /\ Held(Work(c), queue)
        /\ JobsDistinct'
        /\ queue' \in Seq(Job)
    BY <1>1, HeldTail DEF JobsDistinct
  <1>3. c \notin ran /\ c \notin done /\ c \notin error /\ c \notin release /\ link[c] = "none"
        /\ closes[c] = 0 /\ pc[c] # "calling" /\ ~finished /\ ~Held(Release(c), queue)
    BY <1>1, <1>2 DEF RunWork, Inv, PerCall, NotStarted, Queued, NothingAfterFinish
  <1>4. TypeOK'
    BY <1>2, EvtFacts DEF RunWork, Inv, TypeOK
  <1>5. NothingAfterFinish'
    BY <1>3 DEF RunWork, NothingAfterFinish
  <1>6. ASSUME NEW d \in Calls PROVE PerCall(d)'
    <2>1. /\ Held(Work(d), queue') <=> Held(Work(d), queue) /\ d # c
          /\ Held(Release(d), queue') <=> Held(Release(d), queue)
      BY <1>1, HeldTail, JobFacts
    <2>2. NotStarted(d)'
      <3>1. CASE d = c
        BY <2>1, <3>1, <1>3 DEF RunWork, NotStarted, Queued
      <3>2. CASE d # c
        BY <2>1, <3>2, EvtFacts DEF RunWork, Inv, PerCall, NotStarted, Queued, Busy
      <3>3. QED
        BY <3>1, <3>2
    <2>3. Running(d)'
      BY <1>3, EvtFacts DEF RunWork, Inv, PerCall, Running
    <2>4. /\ evt' # At("release", d) /\ evt # At("release", d) /\ evt # At("finish", d)
          /\ done' \in {done, done \cup {c}}
          /\ UNCHANGED <<pc, abandoned, error, release, workQueue, finished, link, closes>>
      BY EvtFacts DEF RunWork
    <2>5. ReleasePlace(d)'
      BY <1>3, <2>1, <2>4 DEF Inv, PerCall, ReleasePlace, Queued
    <2>6. OpenLink(d)'
      BY <1>3, <2>1, <2>4 DEF Inv, PerCall, OpenLink, ReleasePending
    <2>7. QED
      BY <2>2, <2>3, <2>5, <2>6 DEF PerCall
  <1>7. QED
    BY <1>2, <1>4, <1>5, <1>6 DEF Inv

\* Only work that is not done creates a link.
LEMMA FnInv == ASSUME Inv, NEW c \in Calls, Fn(c) PROVE Inv'
  <1>1. /\ c \notin done /\ c \notin error /\ c \notin release /\ c \in ran
        /\ link[c] = "none" /\ closes[c] = 0 /\ ~finished /\ ~Held(Release(c), queue)
        /\ ~Held(Work(c), queue)
    BY EvtFacts
    DEF Fn, Inv, PerCall, Running, NotStarted, ReleasePlace, Busy, Queued, NothingAfterFinish
  <1>2. TypeOK'
    <2>1. /\ link' \in [Calls -> {"none", "open", "closed", "lost"}]
          /\ release' \subseteq Calls
          /\ error' \subseteq Calls
      BY DEF Fn, CreateLink, FailWork, ReuseLink, Inv, TypeOK
    <2>2. evt' \in {Idle} \cup [at : {"fn", "finish", "release"}, call : Calls]
      BY DEF Fn, At
    <2>3. QED
      BY <2>1, <2>2 DEF Fn, Inv, TypeOK
  <1>3. JobsDistinct' /\ NothingAfterFinish'
    BY <1>1 DEF Fn, Inv, JobsDistinct, NothingAfterFinish
  <1>4. ASSUME NEW d \in Calls PROVE PerCall(d)'
    <2>1. /\ evt = At("fn", c) /\ evt' = At("finish", c)
          /\ pc' = pc /\ done' = done /\ abandoned' = abandoned /\ ran' = ran /\ queue' = queue
          /\ closes' = closes /\ finished' = finished /\ workQueue' = workQueue
      BY DEF Fn
    <2>2. /\ d # c => link'[d] = link[d] /\ (d \in release' <=> d \in release)
                     /\ (d \in error' <=> d \in error)
          /\ d = c => \/ link'[d] = "open" /\ d \in release' /\ d \notin error'
                      \/ link'[d] = "none" /\ d \notin release'
      <3>1. link \in [Calls -> {"none", "open", "closed", "lost"}]
        BY DEF Inv, TypeOK
      <3>2. QED
        BY <1>1, <3>1 DEF Fn, CreateLink, FailWork, ReuseLink
    <2>3. NotStarted(d) /\ Running(d) /\ ReleasePlace(d) /\ OpenLink(d)
      BY DEF Inv, PerCall
    <2>4. NotStarted(d)'
      BY <1>1, <2>1, <2>2, <2>3, EvtFacts DEF NotStarted, Queued, Busy
    <2>5. Running(d)'
      BY <1>1, <2>1, <2>2, <2>3, EvtFacts DEF Running
    <2>6. ReleasePlace(d)'
      BY <1>1, <2>1, <2>2, <2>3, EvtFacts DEF ReleasePlace, Queued
    <2>7. OpenLink(d)'
      BY <1>1, <2>1, <2>2, <2>3, EvtFacts DEF OpenLink, ReleasePending
    <2>8. QED
      BY <2>4, <2>5, <2>6, <2>7 DEF PerCall
  <1>5. QED
    BY <1>2, <1>3, <1>4 DEF Inv

\* Work that finds itself abandoned keeps the release on the event thread.
LEMMA FinishWorkInv == ASSUME Inv, NEW c \in Calls, FinishWork(c) PROVE Inv'
  <1>1. /\ c \notin done /\ c \in ran /\ closes[c] = 0 /\ ~finished
        /\ ~Held(Release(c), queue) /\ ~Held(Work(c), queue)
    BY EvtFacts
    DEF FinishWork, Inv, PerCall, Running, NotStarted, ReleasePlace, Busy, Queued, NothingAfterFinish
  <1>2. TypeOK'
    BY EvtFacts DEF FinishWork, Inv, TypeOK
  <1>3. JobsDistinct' /\ NothingAfterFinish'
    BY <1>1 DEF FinishWork, Inv, JobsDistinct, NothingAfterFinish
  <1>4. ASSUME NEW d \in Calls PROVE PerCall(d)'
    <2>1. /\ evt = At("finish", c)
          /\ done' = done \cup {c}
          /\ evt' = IF c \in abandoned /\ c \in release THEN At("release", c) ELSE Idle
          /\ pc' = pc /\ abandoned' = abandoned /\ error' = error /\ release' = release
          /\ ran' = ran /\ queue' = queue /\ workQueue' = workQueue /\ finished' = finished
          /\ link' = link /\ closes' = closes
      BY DEF FinishWork
    <2>2. NotStarted(d) /\ Running(d) /\ ReleasePlace(d) /\ OpenLink(d)
      BY DEF Inv, PerCall
    <2>3. c \in abandoned => pc[c] = "failed"
      BY <1>1 DEF Inv, PerCall, ReleasePlace
    <2>4. NotStarted(d)'
      BY <1>1, <2>1, <2>2, EvtFacts DEF NotStarted, Queued, Busy
    <2>5. Running(d)'
      BY <1>1, <2>1, <2>2, EvtFacts DEF Running
    <2>6. ReleasePlace(d)'
      BY <1>1, <2>1, <2>2, <2>3, EvtFacts DEF ReleasePlace, Queued
    <2>7. OpenLink(d)'
      <3>1. CASE d = c
        BY <1>1, <2>1, <2>2, <2>3, <3>1, EvtFacts DEF OpenLink, ReleasePending
      <3>2. CASE d # c
        BY <1>1, <2>1, <2>2, <3>2, EvtFacts DEF OpenLink, ReleasePending
      <3>3. QED
        BY <3>1, <3>2
    <2>8. QED
      BY <2>4, <2>5, <2>6, <2>7 DEF PerCall
  <1>5. QED
    BY <1>2, <1>3, <1>4 DEF Inv

\* What releasing a link changes.
LEMMA CloseLinkFacts ==
    ASSUME TypeOK, NEW c \in Calls, CloseLink(c)
    PROVE  /\ link' \in [Calls -> {"none", "open", "closed", "lost"}]
           /\ closes' \in [Calls -> Nat]
           /\ attached' \subseteq Calls
           /\ \A d \in Calls :
                /\ link'[d] = IF d = c /\ link[d] = "open" THEN "closed" ELSE link[d]
                /\ closes'[d] = IF d = c THEN closes[d] + 1 ELSE closes[d]
  <1>1. /\ link \in [Calls -> {"none", "open", "closed", "lost"}]
        /\ closes \in [Calls -> Nat]
        /\ attached \subseteq Calls
    BY DEF TypeOK
  <1>2. /\ link' = [link EXCEPT ![c] = IF @ = "open" THEN "closed" ELSE @]
        /\ closes' = [closes EXCEPT ![c] = @ + 1]
        /\ attached' = attached \ {c}
    BY DEF CloseLink
  <1>3. QED
    BY <1>1, <1>2

\* The event thread releases what abandoned work created.
LEMMA ReleaseNowInv == ASSUME Inv, NEW c \in Calls, ReleaseNow(c) PROVE Inv'
  <1>1. /\ c \in done /\ c \in ran /\ closes[c] = 0 /\ pc[c] = "failed" /\ ~finished
        /\ ~Held(Release(c), queue) /\ ~Held(Work(c), queue)
    BY EvtFacts
    DEF ReleaseNow, Inv, PerCall, NotStarted, ReleasePlace, Busy, Queued, NothingAfterFinish
  <1>2. CloseLink(c) /\ TypeOK
    BY DEF ReleaseNow, Inv
  <1>3. TypeOK'
    BY <1>2, CloseLinkFacts DEF ReleaseNow, state, TypeOK
  <1>4. JobsDistinct' /\ NothingAfterFinish'
    BY <1>1 DEF ReleaseNow, Inv, JobsDistinct, NothingAfterFinish
  <1>5. ASSUME NEW d \in Calls PROVE PerCall(d)'
    <2>1. /\ evt = At("release", c) /\ evt' = Idle
          /\ pc' = pc /\ done' = done /\ abandoned' = abandoned /\ error' = error
          /\ release' = release /\ ran' = ran /\ queue' = queue /\ workQueue' = workQueue
          /\ finished' = finished
      BY DEF ReleaseNow, state
    <2>2. /\ link'[d] = IF d = c /\ link[d] = "open" THEN "closed" ELSE link[d]
          /\ closes'[d] = IF d = c THEN closes[d] + 1 ELSE closes[d]
      BY <1>2, CloseLinkFacts
    <2>3. NotStarted(d) /\ Running(d) /\ ReleasePlace(d) /\ OpenLink(d)
      BY DEF Inv, PerCall
    <2>4. NotStarted(d)'
      BY <1>1, <2>1, <2>2, <2>3, EvtFacts DEF NotStarted, Queued, Busy
    <2>5. Running(d)'
      BY <1>1, <2>1, <2>2, <2>3, EvtFacts DEF Running
    <2>6. ReleasePlace(d)'
      BY <1>1, <2>1, <2>2, <2>3, EvtFacts DEF ReleasePlace, Queued
    <2>7. OpenLink(d)'
      BY <1>1, <2>1, <2>2, <2>3, EvtFacts DEF OpenLink, ReleasePending
    <2>8. QED
      BY <2>4, <2>5, <2>6, <2>7 DEF PerCall
  <1>6. QED
    BY <1>3, <1>4, <1>5 DEF Inv

\* The event thread runs a release that was scheduled, once.
LEMMA RunReleaseInv == ASSUME Inv, NEW c \in Calls, RunRelease(c) PROVE Inv'
  <1>1. /\ queue \in Seq(Job) /\ queue # <<>> /\ Head(queue) = Release(c) /\ queue' = Tail(queue)
        /\ \A i, j \in DOMAIN queue : queue[i] = queue[j] => i = j
    BY DEF RunRelease, Inv, TypeOK, JobsDistinct
  <1>2. /\ Held(Release(c), queue)
        /\ JobsDistinct'
        /\ queue' \in Seq(Job)
    BY <1>1, HeldTail DEF JobsDistinct
  <1>3. c \in ran /\ c \in done /\ closes[c] = 0 /\ pc[c] = "failed" /\ ~finished
    BY <1>1, <1>2 DEF RunRelease, Inv, PerCall, NotStarted, ReleasePlace, Queued, NothingAfterFinish
  <1>4. CloseLink(c) /\ TypeOK
    BY DEF RunRelease, Inv
  <1>5. TypeOK'
    BY <1>2, <1>4, CloseLinkFacts DEF RunRelease, state, TypeOK
  <1>6. NothingAfterFinish'
    BY <1>3 DEF RunRelease, NothingAfterFinish
  <1>7. ASSUME NEW d \in Calls PROVE PerCall(d)'
    <2>1. /\ Held(Release(d), queue') <=> Held(Release(d), queue) /\ d # c
          /\ Held(Work(d), queue') <=> Held(Work(d), queue)
      BY <1>1, HeldTail, JobFacts
    <2>2. /\ evt = Idle /\ evt' = Idle
          /\ pc' = pc /\ done' = done /\ abandoned' = abandoned /\ error' = error
          /\ release' = release /\ ran' = ran /\ workQueue' = workQueue /\ finished' = finished
      BY DEF RunRelease, state
    <2>3. /\ link'[d] = IF d = c /\ link[d] = "open" THEN "closed" ELSE link[d]
          /\ closes'[d] = IF d = c THEN closes[d] + 1 ELSE closes[d]
      BY <1>4, CloseLinkFacts
    <2>4. NotStarted(d) /\ Running(d) /\ ReleasePlace(d) /\ OpenLink(d)
      BY DEF Inv, PerCall
    <2>5. NotStarted(d)'
      BY <1>3, <2>1, <2>2, <2>3, <2>4 DEF NotStarted, Queued, Busy
    <2>6. Running(d)'
      BY <2>2, EvtFacts DEF Running
    <2>7. ReleasePlace(d)'
      BY <1>3, <2>1, <2>2, <2>3, <2>4, EvtFacts DEF ReleasePlace, Queued
    <2>8. OpenLink(d)'
      BY <1>3, <2>1, <2>2, <2>3, <2>4 DEF OpenLink, ReleasePending
    <2>9. QED
      BY <2>5, <2>6, <2>7, <2>8 DEF PerCall
  <1>8. QED
    BY <1>2, <1>5, <1>6, <1>7 DEF Inv

\* With the connection go its jobs and its links.
LEMMA FinishInv == ASSUME Inv, Finish PROVE Inv'
  <1>1. queue' = <<>> /\ \A job : ~Held(job, queue')
    BY DEF Finish, Held
  <1>2. TypeOK'
    BY <1>1 DEF Finish, DiscardGuards, OutOfFrame, Inv, TypeOK
  <1>3. JobsDistinct' /\ NothingAfterFinish'
    BY <1>1 DEF Finish, JobsDistinct, NothingAfterFinish
  <1>4. ASSUME NEW d \in Calls PROVE PerCall(d)'
    <2>1. NotStarted(d)'
      BY <1>1
      DEF Finish, DiscardGuards, OutOfFrame, Inv, TypeOK, PerCall, NotStarted, Queued, Busy
    <2>2. Running(d)'
      BY EvtFacts DEF Finish, Running
    <2>3. ReleasePlace(d)'
      BY <1>1, EvtFacts
      DEF Finish, DiscardGuards, OutOfFrame, Inv, TypeOK, PerCall, NotStarted, ReleasePlace, Queued
    <2>4. OpenLink(d)'
      BY <1>1
      DEF Finish, DiscardGuards, OutOfFrame, Inv, TypeOK, PerCall, NotStarted, OpenLink
    <2>5. QED
      BY <2>1, <2>2, <2>3, <2>4 DEF PerCall
  <1>5. QED
    BY <1>2, <1>3, <1>4 DEF Inv

-----------------------------------------------------------------------------
(* The theorems                                                            *)

\* Every step of the callers, the event thread and the connection keeps the invariant.
LEMMA StepInv == Inv /\ [Next]_vars => Inv'
  <1>1. SUFFICES ASSUME Inv, [Next]_vars PROVE Inv'
    OBVIOUS
  <1>2. ASSUME NEW c \in Calls, Caller(c) PROVE Inv'
    BY <1>1, <1>2, ScheduleInv, WakeInv, TimeOutInv, CancelInv, ScheduleReleaseInv, AttachDoneInv,
       AttachGiveUpInv DEF Caller
  <1>3. ASSUME NEW c \in Calls, EventThread(c) PROVE Inv'
    BY <1>1, <1>3, RunWorkInv, FnInv, FinishWorkInv, ReleaseNowInv, RunReleaseInv DEF EventThread
  <1>4. CASE UNCHANGED vars
    <2>1. TypeOK' /\ JobsDistinct' /\ NothingAfterFinish'
      BY <1>1, <1>4 DEF vars, state, Inv, TypeOK, JobsDistinct, NothingAfterFinish
    <2>2. \A c \in Calls : PerCall(c)'
      BY <1>1, <1>4
      DEF vars, state, Inv, PerCall, NotStarted, Running, ReleasePlace, OpenLink, Queued, Busy,
          ReleasePending
    <2>3. QED
      BY <2>1, <2>2 DEF Inv
  <1>5. QED
    BY <1>1, <1>2, <1>3, <1>4, OnReceiverOpenInv, OnConnectionCloseInv, FinishInv
    DEF Next, Stopped

\* The inductive invariant holds for every set of calls.
THEOREM InvHolds == Spec => []Inv
  BY InitInv, StepInv, PTL DEF Spec

\* Type correctness, for every set of calls.
THEOREM TypeCorrect == Spec => []TypeOK
  <1>1. Inv => TypeOK
    BY DEF Inv
  <1>2. QED
    BY <1>1, InvHolds, PTL

\* runWork() and its callers never release a link twice: when work that finishes races the thread
\* that gives up, exactly one of them has the release.
THEOREM ReleasedOnceHolds == Spec => []ReleasedOnce
  <1>1. Inv => ReleasedOnce
    <2>1. SUFFICES ASSUME Inv, NEW c \in Calls
                   PROVE  closes[c] <= 1 /\ (closes[c] = 1 => ~ReleasePending(c))
      BY DEF ReleasedOnce
    <2>2. QED
      BY <2>1, EvtFacts DEF Inv, PerCall, Running, ReleasePlace, ReleasePending, Queued
  <1>2. QED
    BY <1>1, InvHolds, PTL

\* A link that was returned to the application is never released on behalf of its call.
THEOREM ReturnedIsKeptHolds == Spec => []ReturnedIsKept
  <1>1. Inv => ReturnedIsKept
    <2>1. SUFFICES ASSUME Inv, NEW c \in Calls, pc[c] = "ok"
                   PROVE  /\ link[c] # "closed" /\ closes[c] = 0 /\ ~ReleasePending(c)
                          /\ c \notin abandoned
      BY DEF ReturnedIsKept
    <2>2. QED
      BY <2>1 DEF Inv, PerCall, ReleasePlace, OpenLink, ReleasePending, Queued
  <1>2. QED
    BY <1>1, InvHolds, PTL

\* A failed call leaves no open link without a release under way on an open connection.
THEOREM NoOrphanLinkHolds == Spec => []NoOrphanLink
  <1>1. Inv => NoOrphanLink
    BY DEF Inv, PerCall, OpenLink, NoOrphanLink
  <1>2. QED
    BY <1>1, InvHolds, PTL

-----------------------------------------------------------------------------
(* The work queue implements CallPromise                                   *)

\* No call has an outcome at first, and nothing was created.
LEMMA InitPromise == Init => Promise!Init
  BY DEF Init, Promise!Init, Ended

\* What a caller does is a call that succeeds or fails, or nothing the promise can see.
LEMMA CallerPromise ==
    ASSUME Inv, NEW c \in Calls, Caller(c)
    PROVE  [Promise!Next]_Promise!vars
  <1>1. \/ pc' = [pc EXCEPT ![c] = "ok"] /\ pc[c] \in Pending
        \/ pc' = [pc EXCEPT ![c] = "failed"] /\ pc[c] \in Pending
        \/ \E where \in Pending : pc' = [pc EXCEPT ![c] = where] /\ pc[c] \in Pending
    BY DEF Caller, Schedule, Wake, TimeOut, Cancel, ScheduleRelease, AttachDone, AttachGiveUp, Goto,
           Pending
  <1>2. UNCHANGED <<link, finished>> /\ pc \in [Calls -> Pending \cup Ended]
    BY DEF Caller, Schedule, Wake, TimeOut, Cancel, ScheduleRelease, AttachDone, AttachGiveUp, Inv,
           TypeOK
  <1>3. CASE pc' = [pc EXCEPT ![c] = "ok"] /\ pc[c] \in Pending
    <2>1. Promise!Succeed(c)
      BY <1>2, <1>3 DEF Promise!Succeed, Pending, Ended
    <2>2. QED
      BY <2>1 DEF Promise!Next
  <1>4. CASE pc' = [pc EXCEPT ![c] = "failed"] /\ pc[c] \in Pending
    <2>1. Promise!Fail(c)
      BY <1>2, <1>4 DEF Promise!Fail, Pending, Ended
    <2>2. QED
      BY <2>1 DEF Promise!Next
  <1>5. CASE \E where \in Pending : pc' = [pc EXCEPT ![c] = where] /\ pc[c] \in Pending
    BY <1>2, <1>5 DEF Promise!vars, Pending, Ended
  <1>6. QED
    BY <1>1, <1>3, <1>4, <1>5

\* The event thread creates only for a call that did not succeed, and takes back only from one
\* that failed.
LEMMA EventThreadPromise ==
    ASSUME Inv, NEW c \in Calls, EventThread(c)
    PROVE  [Promise!Next]_Promise!vars
  <1>1. link \in [Calls -> {"none", "open", "closed", "lost"}]
    BY DEF Inv, TypeOK
  <1>2. CASE RunWork(c) \/ FinishWork(c)
    BY <1>2 DEF RunWork, FinishWork, Promise!vars
  <1>3. CASE Fn(c)
    <2>1. /\ link[c] = "none" /\ pc[c] # "ok" /\ ~finished
          /\ UNCHANGED <<pc, finished>>
      BY <1>3, EvtFacts DEF Fn, Inv, PerCall, Running, ReleasePlace, NothingAfterFinish
    <2>2. CASE CreateLink(c)
      <3>1. Promise!Create(c)
        BY <1>1, <2>1, <2>2 DEF CreateLink, Promise!Create, Ended
      <3>2. QED
        BY <3>1 DEF Promise!Next
    <2>3. CASE FailWork(c) \/ ReuseLink
      BY <2>1, <2>3 DEF FailWork, ReuseLink, Promise!vars
    <2>4. QED
      BY <1>3, <2>2, <2>3 DEF Fn
  <1>4. CASE ReleaseNow(c) \/ RunRelease(c)
    <2>1. Held(Release(c), queue) \/ evt = At("release", c)
      BY <1>4, HeldTail DEF ReleaseNow, RunRelease, Inv, TypeOK, JobsDistinct
    <2>2. pc[c] = "failed" /\ CloseLink(c) /\ UNCHANGED <<pc, finished>>
      BY <1>4, <2>1 DEF ReleaseNow, RunRelease, Inv, PerCall, ReleasePlace, Queued
    <2>3. CASE link[c] = "open"
      <3>1. Promise!TakeBack(c)
        BY <1>1, <2>2, <2>3 DEF CloseLink, Promise!TakeBack, Ended
      <3>2. QED
        BY <3>1 DEF Promise!Next
    <2>4. CASE link[c] # "open"
      BY <1>1, <2>2, <2>4 DEF CloseLink, Promise!vars
    <2>5. QED
      BY <2>3, <2>4
  <1>5. QED
    BY <1>2, <1>3, <1>4 DEF EventThread

\* The rest is invisible to the promise, but for Proton finishing the connection.
LEMMA ConnectionPromise ==
    ASSUME Inv, \/ \E c \in Calls : OnReceiverOpen(c)
                \/ OnConnectionClose \/ Finish \/ Stopped \/ UNCHANGED vars
    PROVE  [Promise!Next]_Promise!vars
  <1>1. CASE Finish
    <2>1. Promise!GoDown
      BY <1>1 DEF Finish, Promise!GoDown, Inv, TypeOK
    <2>2. QED
      BY <2>1 DEF Promise!Next
  <1>2. CASE (\E c \in Calls : OnReceiverOpen(c)) \/ OnConnectionClose \/ Stopped \/ UNCHANGED vars
    BY <1>2 DEF OnReceiverOpen, OnConnectionClose, Stopped, vars, Promise!vars
  <1>3. QED
    BY <1>1, <1>2

\* runWork() with its callers implements what a call promises, for every set of calls.
THEOREM PromiseKept == Spec => KeepsPromise
  <1>1. Inv /\ [Next]_vars => [Promise!Next]_Promise!vars
    BY CallerPromise, EventThreadPromise, ConnectionPromise DEF Next
  <1>2. QED
    BY <1>1, InitPromise, InvHolds, PTL DEF Spec, Promise!Spec, KeepsPromise
=============================================================================
