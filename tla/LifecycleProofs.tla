-------------------------- MODULE LifecycleProofs --------------------------
(***************************************************************************)
(* The invariants of Lifecycle, proved for any faults, number of calls of  *)
(* connect() and length of the event queue.                                *)
(*                                                                         *)
(* What connected_, the thread object and the events tell is so for any    *)
(* number of threads. That only a connect() which is about to end the      *)
(* program destroys the container of an event loop is so for a connection  *)
(* that one thread opens and closes: with two, the end of one call resets  *)
(* the container in which the connection of another runs.                  *)
(***************************************************************************)
EXTENDS Lifecycle, TLAPS

-----------------------------------------------------------------------------
(* The inductive invariant                                                 *)

Places == {"idle", "starting", "connecting", "failing", "closing", "joining", "clearing", "destroying", "gone"}

\* connected_ goes with an open connection, and an event loop with its thread object.
Alive ==
    /\ ~crashed /\ connected => loop \in {"opening", "open", "closing"}
    /\ Running => joinable

IInv ==
    /\ TypeOK
    /\ Alive
    /\ EventsTellState

\* A connection that one thread opens and closes.
OneThread == \A t, u \in Threads : t = u

\* Only connect() is there while its connection is made, in the container that it has made, and only it finds an
\* earlier one in its way.
Single ==
    /\ Running => runsIn = container \/ \E t \in Threads : pc[t] = "starting"
    /\ crashed => ~connected /\ loop = "none"
    /\ \A t \in Threads :
         /\ pc[t] \notin {"connecting", "failing"} => loop # "starting"
         /\ pc[t] \in {"connecting", "failing"} => runsIn = container
         /\ pc[t] = "starting" => ~connected
         /\ pc[t] = "clearing" => ~Running
         /\ crashed => pc[t] = "gone"

-----------------------------------------------------------------------------
(* Events                                                                  *)

\* An event that is queued is the last, and the queue is no longer than it may be.
LEMMA QueuedFacts ==
    ASSUME NEW q \in Seq(Events), Len(q) <= MaxEvents, NEW e \in Events
    PROVE  /\ Queued(q, e) \in Seq(Events) /\ Len(Queued(q, e)) <= MaxEvents
           /\ Queued(q, e) # <<>> /\ Queued(q, e)[Len(Queued(q, e))] = e
  <1>1. PICK kept \in Seq(Events) : Queued(q, e) = Append(kept, e) /\ Len(kept) + 1 <= MaxEvents
    <2>1. CASE Len(q) < MaxEvents
      BY <2>1, LifecycleAssumption DEF Queued
    <2>2. CASE ~(Len(q) < MaxEvents)
      <3>1. q # <<>> /\ Len(q) = MaxEvents /\ Len(q) \in Nat
        BY <2>2, LifecycleAssumption
      <3>2. Tail(q) \in Seq(Events) /\ Len(Tail(q)) = Len(q) - 1
        BY <3>1
      <3>3. QED
        <4>1. Queued(q, e) = Append(Tail(q), e)
          BY <2>2 DEF Queued
        <4>2. Len(Tail(q)) + 1 <= MaxEvents
          BY <3>1, <3>2, LifecycleAssumption
        <4>3. QED
          BY <3>2, <4>1, <4>2
    <2>3. QED
      BY <2>1, <2>2
  <1>2. /\ Append(kept, e) \in Seq(Events) /\ Append(kept, e) # <<>> /\ Len(Append(kept, e)) = Len(kept) + 1
        /\ Append(kept, e)[Len(kept) + 1] = e
    OBVIOUS
  <1>3. QED
    BY <1>1, <1>2

\* An event that a handler leaves is the last one that observers are to be told.
LEMMA PushFacts ==
    ASSUME TypeOK, NEW e \in Events, Push(e)
    PROVE  /\ events' \in Seq(Events) /\ Len(events') <= MaxEvents /\ LastEvent' = e
           /\ UNCHANGED <<was, seen>>
  BY QueuedFacts DEF TypeOK, Push, LastEvent

\* While no event is left, the last one stays.
LEMMA SameEvents ==
    ASSUME UNCHANGED eventVars
    PROVE  UNCHANGED <<events, was, seen, LastEvent>>
  BY DEF eventVars, LastEvent

\* A thread that goes on leaves the others where they are.
LEMMA GotoFacts ==
    ASSUME TypeOK, NEW t \in Threads, NEW where, Goto(t, where)
    PROVE  /\ pc'[t] = where
           /\ \A u \in Threads \ {t} : pc'[u] = pc[u]
           /\ where \in Places => pc' \in [Threads -> Places]
  BY DEF TypeOK, Goto, Places

-----------------------------------------------------------------------------
(* Every step preserves the invariant                                      *)

\* At first there is no connection, and nobody was told of one.
LEMMA InitInv == Init => IInv
  <1>1. SUFFICES ASSUME Init PROVE IInv
    OBVIOUS
  <1>2. events \in Seq(Events) /\ Len(events) = 0
    BY <1>1 DEF Init
  <1>3. TypeOK
    <2>1. 0 \in 0 .. Connects /\ 0 <= MaxEvents
      BY LifecycleAssumption
    <2>2. QED
      BY <1>1, <1>2, <2>1 DEF Init, TypeOK
  <1>4. Alive
    BY <1>1 DEF Init, Alive, Running
  <1>5. EventsTellState
    BY <1>1 DEF Init, EventsTellState, LastEvent, UpEvents
  <1>6. QED
    BY <1>3, <1>4, <1>5 DEF IInv

\* An attempt that fails leaves no connection, as was known before.
LEMMA OpenFailsInv == ASSUME IInv, OpenFails PROVE IInv'
  <1>1. /\ loop = "starting" /\ connected' = FALSE /\ error' = TRUE
        /\ loop' = "ended" /\ closeJob' = FALSE /\ workQueue' \in {"null", "up", "finished"}
        /\ events' \in Seq(Events) /\ Len(events') <= MaxEvents /\ LastEvent' \in {"amqp-error", LastEvent}
        /\ UNCHANGED <<was, seen, container, runsIn, joinable, pc, calls, crashed>>
    BY PushFacts, SameEvents DEF IInv, TypeOK, OpenFails, LoopReturns, Events
  <1>2. TypeOK'
    BY <1>1 DEF IInv, TypeOK, Events, UpEvents
  <1>3. Alive'
    BY <1>1 DEF IInv, Alive, Running, TypeOK
  <1>4. EventsTellState'
    BY <1>1 DEF IInv, TypeOK, Alive, Running, EventsTellState, UpEvents
  <1>5. QED
    BY <1>2, <1>3, <1>4 DEF IInv

\* A connection that is opening is not announced yet.
LEMMA OnConnectionOpenInv == ASSUME IInv, OnConnectionOpen PROVE IInv'
  <1>1. /\ loop = "starting" /\ loop' = "opening" /\ workQueue' = "up" /\ connected' = TRUE
        /\ UNCHANGED <<error, container, runsIn, joinable, closeJob, pc, calls,
                       crashed, events, was, seen, LastEvent>>
    BY SameEvents DEF OnConnectionOpen
  <1>2. TypeOK'
    BY <1>1 DEF IInv, TypeOK, Events, UpEvents
  <1>3. Alive'
    BY <1>1 DEF IInv, Alive, Running, TypeOK
  <1>4. EventsTellState'
    BY <1>1 DEF IInv, TypeOK, Alive, Running, EventsTellState, UpEvents
  <1>5. QED
    BY <1>2, <1>3, <1>4 DEF IInv

\* A connection that is open has been announced.
LEMMA ClearErrorInv == ASSUME IInv, ClearError PROVE IInv'
  <1>1. /\ loop = "opening" /\ loop' = "open" /\ error' = FALSE /\ was' = TRUE
        /\ UNCHANGED <<connected, workQueue, container, runsIn, joinable, closeJob, pc, calls, crashed, seen>>
    BY DEF ClearError
  <1>2. /\ events' \in Seq(Events) /\ Len(events') <= MaxEvents /\ LastEvent' \in UpEvents
    <2>1. PICK e \in UpEvents : events' = Queued(events, e)
      BY DEF ClearError, UpEvents
    <2>2. QED
      BY <2>1, QueuedFacts DEF IInv, TypeOK, LastEvent, Events
  <1>3. TypeOK'
    BY <1>1, <1>2 DEF IInv, TypeOK
  <1>4. Alive'
    BY <1>1 DEF IInv, Alive, Running
  <1>5. EventsTellState'
    BY <1>1, <1>2 DEF IInv, EventsTellState
  <1>6. QED
    BY <1>3, <1>4, <1>5 DEF IInv

\* A connection that is being closed is still up.
LEMMA RunCloseInv == ASSUME IInv, RunClose PROVE IInv'
  <1>1. /\ loop = "open" /\ loop' = "closing" /\ closeJob' = FALSE
        /\ UNCHANGED <<connected, workQueue, error, container, runsIn, joinable, pc, calls,
                       crashed, events, was, seen, LastEvent>>
    BY SameEvents DEF RunClose
  <1>2. TypeOK'
    BY <1>1 DEF IInv, TypeOK, Events, UpEvents
  <1>3. Alive'
    BY <1>1 DEF IInv, Alive, Running, TypeOK
  <1>4. EventsTellState'
    BY <1>1 DEF IInv, TypeOK, Alive, Running, EventsTellState, UpEvents
  <1>5. QED
    BY <1>2, <1>3, <1>4 DEF IInv

\* The last event of a connection that is closed says so.
LEMMA OnConnectionCloseInv == ASSUME IInv, OnConnectionClose PROVE IInv'
  <1>1. /\ loop \in {"closing", "open"} /\ loop' = "leaving" /\ connected' = FALSE /\ workQueue' = "null"
        /\ error' \in BOOLEAN
        /\ UNCHANGED <<container, runsIn, joinable, closeJob, pc, calls, crashed>>
    BY DEF OnConnectionClose, IInv, TypeOK
  <1>2. /\ events' \in Seq(Events) /\ Len(events') <= MaxEvents /\ LastEvent' = "amqp-disconnected"
        /\ UNCHANGED <<was, seen>>
    <2>1. CASE Push("amqp-disconnected")
      BY <2>1, PushFacts DEF IInv, Events
    <2>2. CASE /\ events' = Queued(Queued(events, "amqp-error"), "amqp-disconnected")
               /\ UNCHANGED <<was, seen>>
      BY <2>2, QueuedFacts DEF IInv, TypeOK, Events, LastEvent
    <2>3. QED
      BY <2>1, <2>2 DEF OnConnectionClose
  <1>3. TypeOK'
    BY <1>1, <1>2 DEF IInv, TypeOK
  <1>4. Alive'
    BY <1>1 DEF IInv, Alive, Running
  <1>5. EventsTellState'
    BY <1>1, <1>2 DEF EventsTellState, UpEvents
  <1>6. QED
    BY <1>3, <1>4, <1>5 DEF IInv

\* The last event of a connection that breaks says so.
LEMMA OnTransportErrorInv == ASSUME IInv, OnTransportError PROVE IInv'
  <1>1. /\ loop \in {"open", "closing", "leaving"} /\ connected' = FALSE /\ error' = TRUE
        /\ loop' = "ended" /\ closeJob' = FALSE /\ workQueue' \in {"null", "up", "finished"}
        /\ events' \in Seq(Events) /\ Len(events') <= MaxEvents /\ LastEvent' = "amqp-error"
        /\ UNCHANGED <<was, seen, container, runsIn, joinable, pc, calls, crashed>>
    BY PushFacts DEF IInv, TypeOK, OnTransportError, LoopReturns, Events
  <1>2. TypeOK'
    BY <1>1 DEF IInv, TypeOK, Events, UpEvents
  <1>3. Alive'
    BY <1>1 DEF IInv, Alive, Running, TypeOK
  <1>4. EventsTellState'
    BY <1>1 DEF IInv, TypeOK, Alive, Running, EventsTellState, UpEvents
  <1>5. QED
    BY <1>2, <1>3, <1>4 DEF IInv

\* A link error leaves a connection open that counts as lost, and nobody is told.
LEMMA OnErrorInv == ASSUME IInv, OnError PROVE IInv'
  <1>1. /\ loop = "open" /\ connected' = FALSE /\ error' = TRUE
        /\ UNCHANGED <<workQueue, container, runsIn, joinable, loop, closeJob, pc, calls,
                       crashed, events, was, seen, LastEvent>>
    BY SameEvents DEF OnError
  <1>2. TypeOK'
    BY <1>1 DEF IInv, TypeOK, Events, UpEvents
  <1>3. Alive'
    BY <1>1 DEF IInv, Alive, Running, TypeOK
  <1>4. EventsTellState'
    BY <1>1 DEF IInv, TypeOK, Alive, Running, EventsTellState, UpEvents
  <1>5. QED
    BY <1>2, <1>3, <1>4 DEF IInv

\* A handler that throws leaves a connection open that counts as lost.
LEMMA HandlerFailsInv == ASSUME IInv, HandlerFails PROVE IInv'
  <1>1. /\ loop = "open" /\ connected' = FALSE /\ error' = TRUE
        /\ events' \in Seq(Events) /\ Len(events') <= MaxEvents /\ LastEvent' = "amqp-error"
        /\ UNCHANGED <<was, seen, workQueue, container, runsIn, joinable, loop, closeJob, pc, calls, crashed>>
    BY PushFacts DEF IInv, HandlerFails, Events
  <1>2. TypeOK'
    BY <1>1 DEF IInv, TypeOK, Events, UpEvents
  <1>3. Alive'
    BY <1>1 DEF IInv, Alive, Running, TypeOK
  <1>4. EventsTellState'
    BY <1>1 DEF IInv, TypeOK, Alive, Running, EventsTellState, UpEvents
  <1>5. QED
    BY <1>2, <1>3, <1>4 DEF IInv

\* An event loop that ends had no connection any more.
LEMMA LeaveInv == ASSUME IInv, Leave PROVE IInv'
  <1>1. /\ loop = "leaving"
        /\ loop' = "ended" /\ closeJob' = FALSE /\ workQueue' \in {"null", "up", "finished"}
        /\ UNCHANGED <<connected, error, container, runsIn, joinable, pc, calls,
                       crashed, events, was, seen, LastEvent>>
    BY SameEvents DEF IInv, TypeOK, Leave, LoopReturns
  <1>2. TypeOK'
    BY <1>1 DEF IInv, TypeOK, Events, UpEvents
  <1>3. Alive'
    BY <1>1 DEF IInv, Alive, Running, TypeOK
  <1>4. EventsTellState'
    BY <1>1 DEF IInv, TypeOK, Alive, Running, EventsTellState, UpEvents
  <1>5. QED
    BY <1>2, <1>3, <1>4 DEF IInv

\* A program that a lost container ends has no event loop.
LEMMA ContainerGoneInv == ASSUME IInv, ContainerGone PROVE IInv'
  <1>1. /\ crashed' = TRUE /\ joinable' = FALSE /\ loop' = "none" /\ pc' \in [Threads -> Places]
        /\ UNCHANGED <<connected, workQueue, error, container, runsIn, closeJob,
                       calls, events, was, seen, LastEvent>>
    BY SameEvents DEF ContainerGone, Terminate, Places
  <1>2. TypeOK'
    BY <1>1 DEF IInv, TypeOK, Places
  <1>3. Alive'
    BY <1>1 DEF Alive, Running
  <1>4. EventsTellState'
    BY <1>1 DEF EventsTellState
  <1>5. QED
    BY <1>2, <1>3, <1>4 DEF IInv

-----------------------------------------------------------------------------
(* The threads of the application                                          *)

\* A call of connect() is no news of the connection.
LEMMA ConnectInv == ASSUME IInv, NEW t \in Threads, Connect(t) PROVE IInv'
  <1>1. /\ calls' \in 0 .. Connects /\ container' = calls'
        /\ UNCHANGED <<connected, workQueue, error, runsIn, joinable, loop, closeJob,
                       crashed, events, was, seen, LastEvent>>
    BY SameEvents, LifecycleAssumption DEF IInv, TypeOK, Connect
  <1>2. pc' \in [Threads -> Places]
    BY GotoFacts DEF Connect, IInv, Places
  <1>3. TypeOK'
    BY <1>1, <1>2 DEF IInv, TypeOK, Places
  <1>4. Alive'
    BY <1>1 DEF IInv, Alive, Running, TypeOK
  <1>5. EventsTellState'
    BY <1>1 DEF IInv, TypeOK, Alive, Running, EventsTellState, UpEvents
  <1>6. QED
    BY <1>3, <1>4, <1>5 DEF IInv

\* A loop is started when there is none, or the program ends.
LEMMA StartThreadInv == ASSUME IInv, NEW t \in Threads, StartThread(t) PROVE IInv'
  <1>1. /\ error' = FALSE /\ runsIn' \in 0 .. Connects
        /\ \/ joinable /\ crashed' = TRUE /\ joinable' = FALSE /\ loop' = "none"
           \/ ~joinable /\ joinable' = TRUE /\ loop' = "starting" /\ UNCHANGED crashed
        /\ UNCHANGED <<connected, workQueue, container, closeJob, calls, events, was, seen, LastEvent>>
    BY SameEvents DEF StartThread, Terminate, IInv, TypeOK
  <1>2. pc' \in [Threads -> Places]
    <2>1. CASE joinable
      BY <2>1 DEF StartThread, Terminate, Places
    <2>2. CASE ~joinable
      BY <2>2, GotoFacts DEF StartThread, IInv, Places
    <2>3. QED
      BY <2>1, <2>2
  <1>3. TypeOK'
    BY <1>1, <1>2 DEF IInv, TypeOK, Places
  <1>4. Alive'
    BY <1>1 DEF IInv, TypeOK, Alive, Running
  <1>5. EventsTellState'
    BY <1>1 DEF IInv, TypeOK, Alive, Running, EventsTellState
  <1>6. QED
    BY <1>3, <1>4, <1>5 DEF IInv

\* The end of the wait changes nothing.
LEMMA ConnectWaitedInv == ASSUME IInv, NEW t \in Threads, ConnectWaited(t) PROVE IInv'
  <1>1. /\ UNCHANGED <<connected, workQueue, error, container, runsIn, joinable, loop, closeJob, calls, crashed,
                       events, was, seen, LastEvent>>
    BY SameEvents DEF ConnectWaited
  <1>2. pc' \in [Threads -> Places]
    BY GotoFacts DEF ConnectWaited, IInv, Places
  <1>3. TypeOK'
    BY <1>1, <1>2 DEF IInv, TypeOK, Places
  <1>4. Alive'
    BY <1>1 DEF IInv, Alive, Running, TypeOK
  <1>5. EventsTellState'
    BY <1>1 DEF IInv, TypeOK, Alive, Running, EventsTellState, UpEvents
  <1>6. QED
    BY <1>3, <1>4, <1>5 DEF IInv

\* Giving up changes nothing by itself.
LEMMA ConnectGivesUpInv == ASSUME IInv, NEW t \in Threads, ConnectGivesUp(t) PROVE IInv'
  <1>1. /\ UNCHANGED <<connected, workQueue, error, container, runsIn, joinable, loop, closeJob, calls, crashed,
                       events, was, seen, LastEvent>>
    BY SameEvents DEF ConnectGivesUp
  <1>2. pc' \in [Threads -> Places]
    BY GotoFacts DEF ConnectGivesUp, IInv, Places
  <1>3. TypeOK'
    BY <1>1, <1>2 DEF IInv, TypeOK, Places
  <1>4. Alive'
    BY <1>1 DEF IInv, Alive, Running, TypeOK
  <1>5. EventsTellState'
    BY <1>1 DEF IInv, TypeOK, Alive, Running, EventsTellState, UpEvents
  <1>6. QED
    BY <1>3, <1>4, <1>5 DEF IInv

\* A connection that is given up is announced as lost if it was announced at all.
LEMMA StopContainerInv == ASSUME IInv, NEW t \in Threads, StopContainer(t) PROVE IInv'
  <1>1. /\ container' = 0 /\ UNCHANGED <<runsIn, calls, crashed>>
        /\ 0 \in 0 .. Connects
        /\ pc' \in [Threads -> Places]
    BY GotoFacts, LifecycleAssumption DEF StopContainer, IInv, Places
  <1>2. CASE ~joinable
    <2>1. UNCHANGED <<connected, workQueue, error, joinable, loop, closeJob, events, was, seen, LastEvent>>
      BY <1>2, SameEvents DEF StopContainer
    <2>2. TypeOK'
      BY <1>1, <2>1 DEF IInv, TypeOK, Places
    <2>3. Alive' /\ EventsTellState'
      BY <1>1, <2>1 DEF IInv, Alive, Running, EventsTellState
    <2>4. QED
      BY <2>2, <2>3 DEF IInv
  <1>3. CASE joinable
    <2>1. /\ loop' = "ended" /\ closeJob' = FALSE /\ workQueue' \in {"null", "up", "finished"}
          /\ connected' = FALSE /\ joinable' = FALSE
      BY <1>3 DEF StopContainer, LoopReturns, IInv, TypeOK
    <2>2. /\ events' \in Seq(Events) /\ Len(events') <= MaxEvents /\ UNCHANGED <<was, seen>> /\ error' \in BOOLEAN
          /\ \/ LastEvent' = "amqp-error"
             \/ loop \notin {"opening", "open", "closing"} /\ LastEvent' = LastEvent
      <3>1. CASE Push("amqp-error") /\ error' = TRUE
        BY <3>1, PushFacts DEF IInv, Events
      <3>2. CASE loop \notin {"opening", "open", "closing"} /\ UNCHANGED <<error, eventVars>>
        BY <3>2, SameEvents DEF IInv, TypeOK
      <3>3. QED
        BY <1>3, <3>1, <3>2 DEF StopContainer
    <2>3. TypeOK'
      BY <1>1, <2>1, <2>2 DEF IInv, TypeOK, Places
    <2>4. Alive'
      BY <2>1 DEF Alive, Running
    <2>5. EventsTellState'
      BY <1>1, <2>1, <2>2 DEF IInv, TypeOK, Alive, Running, EventsTellState, UpEvents
    <2>6. QED
      BY <2>3, <2>4, <2>5 DEF IInv
  <1>4. TypeOK' /\ Alive' /\ EventsTellState'
    BY <1>2, <1>3 DEF IInv, TypeOK
  <1>5. QED
    BY <1>4 DEF IInv

\* A call of close() is no news of the connection.
LEMMA CloseInv == ASSUME IInv, NEW t \in Threads, Close(t) PROVE IInv'
  <1>1. /\ UNCHANGED <<connected, workQueue, error, container, runsIn, joinable, loop, closeJob, calls, crashed,
                       events, was, seen, LastEvent>>
    BY SameEvents DEF Close
  <1>2. pc' \in [Threads -> Places]
    BY GotoFacts DEF Close, IInv, Places
  <1>3. TypeOK'
    BY <1>1, <1>2 DEF IInv, TypeOK, Places
  <1>4. Alive'
    BY <1>1 DEF IInv, Alive, Running, TypeOK
  <1>5. EventsTellState'
    BY <1>1 DEF IInv, TypeOK, Alive, Running, EventsTellState, UpEvents
  <1>6. QED
    BY <1>3, <1>4, <1>5 DEF IInv

\* A close that is queued is no news of the connection.
LEMMA ScheduleCloseInv == ASSUME IInv, NEW t \in Threads, ScheduleClose(t) PROVE IInv'
  <1>1. /\ closeJob' \in BOOLEAN
        /\ UNCHANGED <<connected, workQueue, error, container, runsIn, joinable, loop, calls,
                       crashed, events, was, seen, LastEvent>>
    BY SameEvents DEF IInv, TypeOK, ScheduleClose
  <1>2. pc' \in [Threads -> Places]
    BY GotoFacts DEF ScheduleClose, IInv, Places
  <1>3. TypeOK'
    BY <1>1, <1>2 DEF IInv, TypeOK, Places
  <1>4. Alive'
    BY <1>1 DEF IInv, Alive, Running, TypeOK
  <1>5. EventsTellState'
    BY <1>1 DEF IInv, TypeOK, Alive, Running, EventsTellState, UpEvents
  <1>6. QED
    BY <1>3, <1>4, <1>5 DEF IInv

\* A thread that is joined had no event loop any more.
LEMMA JoinInv == ASSUME IInv, NEW t \in Threads, Join(t) PROVE IInv'
  <1>1. /\ joinable' = FALSE
        /\ UNCHANGED <<connected, workQueue, error, container, runsIn, loop, closeJob, calls,
                       crashed, events, was, seen, LastEvent>>
    BY SameEvents DEF Join
  <1>2. pc' \in [Threads -> Places]
    BY GotoFacts DEF Join, IInv, Places
  <1>3. TypeOK'
    BY <1>1, <1>2 DEF IInv, TypeOK, Places
  <1>4. Alive'
    BY <1>1 DEF IInv, Alive, Running, TypeOK, Join
  <1>5. EventsTellState'
    BY <1>1 DEF IInv, TypeOK, Alive, Running, EventsTellState, UpEvents
  <1>6. QED
    BY <1>3, <1>4, <1>5 DEF IInv

\* close() ends with no connection, or with one that counts as lost.
LEMMA ClearInv == ASSUME IInv, NEW t \in Threads, Clear(t) PROVE IInv'
  <1>1. /\ container' = 0 /\ 0 \in 0 .. Connects /\ connected' = FALSE
        /\ UNCHANGED <<workQueue, error, runsIn, joinable, loop, closeJob, calls,
                       crashed, events, was, seen, LastEvent>>
    BY SameEvents, LifecycleAssumption DEF Clear
  <1>2. pc' \in [Threads -> Places]
    BY GotoFacts DEF Clear, IInv, Places
  <1>3. TypeOK'
    BY <1>1, <1>2 DEF IInv, TypeOK, Places
  <1>4. Alive'
    BY <1>1 DEF IInv, Alive, Running, TypeOK
  <1>5. EventsTellState'
    BY <1>1 DEF IInv, TypeOK, Alive, Running, EventsTellState, UpEvents
  <1>6. QED
    BY <1>3, <1>4, <1>5 DEF IInv

\* The destructor asks for a close.
LEMMA DestroyInv == ASSUME IInv, NEW t \in Threads, Destroy(t) PROVE IInv'
  <1>1. /\ closeJob' \in BOOLEAN
        /\ UNCHANGED <<connected, workQueue, error, container, runsIn, joinable, loop, calls,
                       crashed, events, was, seen, LastEvent>>
    BY SameEvents DEF IInv, TypeOK, Destroy
  <1>2. pc' \in [Threads -> Places]
    BY GotoFacts DEF Destroy, IInv, Places
  <1>3. TypeOK'
    BY <1>1, <1>2 DEF IInv, TypeOK, Places
  <1>4. Alive'
    BY <1>1 DEF IInv, Alive, Running, TypeOK
  <1>5. EventsTellState'
    BY <1>1 DEF IInv, TypeOK, Alive, Running, EventsTellState, UpEvents
  <1>6. QED
    BY <1>3, <1>4, <1>5 DEF IInv

\* The destructor ends without an event loop.
LEMMA DestroyedInv == ASSUME IInv, NEW t \in Threads, Destroyed(t) PROVE IInv'
  <1>1. /\ joinable' = FALSE /\ container' = 0 /\ 0 \in 0 .. Connects /\ (joinable => loop = "ended")
        /\ UNCHANGED <<connected, workQueue, error, runsIn, loop, closeJob, calls,
                       crashed, events, was, seen, LastEvent>>
    BY SameEvents, LifecycleAssumption DEF Destroyed
  <1>2. pc' \in [Threads -> Places]
    BY GotoFacts DEF Destroyed, IInv, Places
  <1>3. TypeOK'
    BY <1>1, <1>2 DEF IInv, TypeOK, Places
  <1>4. Alive'
    BY <1>1 DEF IInv, Alive, Running, TypeOK
  <1>5. EventsTellState'
    BY <1>1 DEF IInv, TypeOK, Alive, Running, EventsTellState, UpEvents
  <1>6. QED
    BY <1>3, <1>4, <1>5 DEF IInv

\* An observer that drains the queue knows the last event.
LEMMA CheckEventsInv == ASSUME IInv, NEW t \in Threads, CheckEvents(t) PROVE IInv'
  <1>1. UNCHANGED <<connected, workQueue, error, container, runsIn, joinable, loop, closeJob, pc, calls,
                    crashed, was>>
    BY DEF CheckEvents
  <1>2. events' = <<>> /\ events' \in Seq(Events) /\ Len(events') = 0 /\ seen' = LastEvent /\ seen' \in Events
    BY DEF CheckEvents, LastEvent, IInv, TypeOK
  <1>3. LastEvent' = LastEvent
    BY <1>2 DEF LastEvent
  <1>4. TypeOK'
    BY <1>1, <1>2, LifecycleAssumption DEF IInv, TypeOK
  <1>5. Alive'
    BY <1>1 DEF IInv, Alive, Running
  <1>6. EventsTellState'
    BY <1>1, <1>3 DEF IInv, EventsTellState
  <1>7. QED
    BY <1>4, <1>5, <1>6 DEF IInv

-----------------------------------------------------------------------------
(* The invariants                                                          *)

\* A step that changes nothing keeps what was so.
LEMMA StutterInv == ASSUME IInv, UNCHANGED vars PROVE IInv'
  <1>1. UNCHANGED <<connected, workQueue, error, container, runsIn, joinable, loop, closeJob, pc, calls,
                    crashed, events, was, seen, LastEvent>>
    BY SameEvents DEF vars, eventVars
  <1>2. QED
    BY <1>1 DEF IInv, TypeOK, Alive, Running, EventsTellState

\* Whatever happens next, the invariant is kept.
LEMMA StepInv == IInv /\ [Next]_vars => IInv'
  <1>1. SUFFICES ASSUME IInv, [Next]_vars PROVE IInv'
    OBVIOUS
  <1>2. CASE UNCHANGED vars
    BY <1>1, <1>2, StutterInv
  <1>3. CASE ContainerThread
    BY <1>1, <1>3, OpenFailsInv, OnConnectionOpenInv, ClearErrorInv, RunCloseInv, OnConnectionCloseInv,
       OnTransportErrorInv, OnErrorInv, HandlerFailsInv, LeaveInv, ContainerGoneInv
    DEF ContainerThread
  <1>4. ASSUME NEW t \in Threads, Called(t) PROVE IInv'
    BY <1>1, <1>4, ConnectInv, CloseInv, CheckEventsInv, DestroyInv DEF Called
  <1>5. ASSUME NEW t \in Threads, Going(t) \/ ConnectGivesUp(t) PROVE IInv'
    BY <1>1, <1>5, StartThreadInv, ConnectWaitedInv, StopContainerInv, ScheduleCloseInv, JoinInv, ClearInv,
       DestroyedInv, ConnectGivesUpInv DEF Going
  <1>6. QED
    BY <1>1, <1>2, <1>3, <1>4, <1>5 DEF Next

\* The invariant holds whatever the threads and the broker do.
LEMMA Invariant == Spec => []IInv
  <1>1. Init => IInv
    BY InitInv
  <1>2. IInv /\ [Next]_vars => IInv'
    BY StepInv
  <1>3. QED
    BY <1>1, <1>2, PTL DEF Spec

\* Every variable keeps its type; the queue of events is never longer than MAX_EVENT_QUEUE.
THEOREM TypeCorrect == Spec => []TypeOK
  <1>1. IInv => TypeOK
    BY DEF IInv
  <1>2. QED
    BY <1>1, Invariant, PTL

\* Whatever the queue has dropped, its last event tells whether the connection is up, for any number of threads that
\* connect and close at the same time.
THEOREM EventsTellTheState == Spec => []EventsTellState
  <1>1. IInv => EventsTellState
    BY DEF IInv
  <1>2. QED
    BY <1>1, Invariant, PTL

-----------------------------------------------------------------------------
(* A connection that one thread opens and closes                           *)

\* At first the thread is idle, and nothing runs.
LEMMA SingleInit == Init => Single
  BY DEF Init, Single, Running

\* The steps of the container thread are those of a loop that runs, which end in one or end the program.
LEMMA ContainerSingle == ASSUME IInv, Single, ContainerThread PROVE Single'
  <1>1. CASE ContainerGone
    <2>1. ~connected
      BY <1>1 DEF ContainerGone, Single, IInv, TypeOK
    <2>2. QED
      BY <1>1, <2>1 DEF ContainerGone, Terminate, Single, Running, IInv, TypeOK
  <1>2. CASE ~ContainerGone
    <2>1. /\ UNCHANGED <<container, runsIn, joinable, pc, crashed>>
          /\ ~crashed /\ Running
          /\ loop' # "starting"
      BY <1>2 DEF ContainerThread, OpenFails, OnConnectionOpen, ClearError, RunClose, OnConnectionClose,
                  OnTransportError, OnError, HandlerFails, Leave, LoopReturns, IInv, TypeOK, Single, Running
    <2>2. loop # "starting" => connected' \in {FALSE, connected}
      BY <1>2 DEF ContainerThread, OpenFails, OnConnectionOpen, ClearError, RunClose, OnConnectionClose,
                  OnTransportError, OnError, HandlerFails, Leave, LoopReturns
    <2>3. /\ runsIn' = container' \/ \E t \in Threads : pc'[t] = "starting"
          /\ ~crashed'
      BY <2>1 DEF Single
    <2>4. \A t \in Threads : pc'[t] = "starting" => ~connected'
      <3>1. connected \in BOOLEAN
        BY DEF IInv, TypeOK
      <3>2. QED
        BY <2>1, <2>2, <3>1 DEF Single
    <2>5. \A t \in Threads : pc'[t] # "clearing"
      BY <2>1 DEF Single
    <2>6. \A t \in Threads : pc'[t] \in {"connecting", "failing"} => runsIn' = container'
      BY <2>1 DEF Single
    <2>7. QED
      BY <2>1, <2>3, <2>4, <2>5, <2>6 DEF Single
  <1>3. QED
    BY <1>1, <1>2

\* The steps of the one thread: a loop that is started has its container, and one that is cleared away has ended.
LEMMA ThreadSingle ==
    ASSUME OneThread, IInv, Single, NEW t \in Threads, Called(t) \/ Going(t) \/ ConnectGivesUp(t)
    PROVE  Single'
  <1>1. /\ Threads = {t}
        /\ joinable \in BOOLEAN /\ connected \in BOOLEAN /\ crashed \in BOOLEAN
        /\ pc \in [Threads -> Places]
    BY DEF OneThread, IInv, TypeOK, Places
  <1>2. Running => joinable
    BY DEF IInv, Alive, Running
  <1>3. CASE Connect(t)
    BY <1>1, <1>3 DEF Connect, Goto, Single, Running
  <1>4. CASE Close(t) \/ CheckEvents(t) \/ Destroy(t) \/ ScheduleClose(t) \/ ConnectGivesUp(t)
    BY <1>1, <1>4 DEF Close, CheckEvents, Destroy, ScheduleClose, ConnectGivesUp, Goto, Single, Running
  <1>5. CASE StartThread(t)
    <2>1. CASE joinable
      BY <1>1, <1>5, <2>1 DEF StartThread, Terminate, Single, Running
    <2>2. CASE ~joinable
      BY <1>1, <1>5, <2>2 DEF StartThread, Goto, Single, Running
    <2>3. QED
      BY <2>1, <2>2
  <1>6. CASE ConnectWaited(t)
    <2>1. loop = "starting" => ~connected \/ crashed
      BY DEF IInv, Alive, Running
    <2>2. QED
      BY <1>1, <1>6, <2>1 DEF ConnectWaited, Goto, Single, Running
  <1>7. CASE StopContainer(t)
    <2>1. CASE joinable
      BY <1>1, <1>7, <2>1 DEF StopContainer, LoopReturns, Goto, Single, Running
    <2>2. CASE ~joinable
      BY <1>1, <1>2, <1>7, <2>2 DEF StopContainer, Goto, Single, Running
    <2>3. QED
      BY <2>1, <2>2
  <1>8. CASE Join(t) \/ Destroyed(t)
    BY <1>1, <1>2, <1>8 DEF Join, Destroyed, Goto, Single, Running
  <1>9. CASE Clear(t)
    BY <1>1, <1>9 DEF Clear, Goto, Single, Running
  <1>10. QED
    BY <1>3, <1>4, <1>5, <1>6, <1>7, <1>8, <1>9 DEF Called, Going

\* connected_ never outlives the connection, nor the container that it was made in; and an event loop keeps its
\* thread object, and its container until a connect() that ends the program, when one thread opens and closes the
\* connection.
THEOREM ConnectedWhileAlive == ASSUME OneThread PROVE Spec => []ConnectedIsAlive
  <1>1. Init => Single
    BY SingleInit
  <1>2. IInv /\ Single /\ [Next]_vars => Single'
    <2>1. SUFFICES ASSUME IInv, Single, [Next]_vars PROVE Single'
      OBVIOUS
    <2>2. CASE UNCHANGED vars
      BY <2>1, <2>2 DEF vars, Single, Running
    <2>3. CASE Next
      BY <2>1, <2>3, ContainerSingle, ThreadSingle DEF Next
    <2>4. QED
      BY <2>1, <2>2, <2>3
  <1>3. IInv /\ Single => ConnectedIsAlive
    BY DEF IInv, TypeOK, Alive, Single, ConnectedIsAlive, Running
  <1>4. QED
    BY <1>1, <1>2, <1>3, Invariant, PTL DEF Spec

\* With any number of threads, connected_ never outlives the connection, and an event loop not its thread object.
THEOREM ConnectedWhileOpen == Spec => []Alive
  <1>1. IInv => Alive
    BY DEF IInv
  <1>2. QED
    BY <1>1, Invariant, PTL
=============================================================================
