----------------------------- MODULE Lifecycle -----------------------------
(***************************************************************************)
(* connect(), close() and the destructor, the container thread that        *)
(* connect() starts, and the handlers that report how the connection does. *)
(* The options do not ask for a reconnection: what one does to receivers   *)
(* and senders is in Delivery and Sending.                                 *)
(*                                                                         *)
(* The broker may close the connection, break it, or close a link with an  *)
(* error, and a handler may throw: Faults says which of these happen.      *)
(* Connects bounds how often connect() is called.                          *)
(*                                                                         *)
(* The handlers leave events in a queue of bounded length, which an        *)
(* observer drains from time to time.                                      *)
(***************************************************************************)
EXTENDS Naturals, Sequences

CONSTANTS Threads,   \* threads of the application
          Faults,    \* what happens without being asked for
          Connects,  \* bound: the calls of connect()
          MaxEvents  \* MAX_EVENT_QUEUE

ASSUME LifecycleAssumption ==
    /\ Faults \subseteq {"close", "break", "link", "throw"}
    /\ Connects \in Nat
    /\ MaxEvents \in Nat \ {0}

VARIABLES
    connected,  \* connected_
    workQueue,  \* work_queue_: null, or that of a connection that is up or finished
    error,      \* connect_error_ is set
    container,  \* container_: 0 when it is null, or which call of connect() made it
    runsIn,     \* the container whose run() the container thread executes
    joinable,   \* container_thread_ is joinable
    loop,       \* the event loop in the container thread
    closeJob,   \* connection_.close() is queued
    pc,         \* what each thread of the application is doing
    calls,      \* how often connect() has started
    crashed,    \* the program has ended abnormally
    events,     \* event_queue_
    was,        \* was_connected_
    seen        \* the last event that an observer was told

eventVars == <<events, was, seen>>
vars == <<connected, workQueue, error, container, runsIn, joinable, loop, closeJob, pc, calls, crashed, eventVars>>

UpEvents == {"amqp-connected", "amqp-reconnected"}
Events == UpEvents \cup {"amqp-disconnected", "amqp-error"}

TypeOK ==
    /\ connected \in BOOLEAN /\ error \in BOOLEAN
    /\ joinable \in BOOLEAN /\ closeJob \in BOOLEAN /\ crashed \in BOOLEAN
    /\ container \in 0 .. Connects /\ runsIn \in 0 .. Connects
    /\ workQueue \in {"null", "up", "finished"}
    /\ loop \in {"none", "starting", "opening", "open", "closing", "leaving", "ended"}
    /\ pc \in [Threads -> {"idle", "starting", "connecting", "failing", "closing", "joining", "clearing",
                           "destroying", "gone"}]
    /\ calls \in 0 .. Connects
    /\ events \in Seq(Events) /\ Len(events) <= MaxEvents
    /\ was \in BOOLEAN
    /\ seen \in Events \cup {"none"}

Init ==
    /\ connected = FALSE
    /\ workQueue = "null"
    /\ error = FALSE
    /\ container = 0 /\ runsIn = 0 /\ joinable = FALSE
    /\ loop = "none"
    /\ closeJob = FALSE
    /\ pc = [t \in Threads |-> "idle"]
    /\ calls = 0
    /\ crashed = FALSE
    /\ events = <<>> /\ was = FALSE /\ seen = "none"

\* the event loop is in run()
Running == loop \notin {"none", "ended"}

Goto(t, where) == pc' = [pc EXCEPT ![t] = where]

\* the mutant drops the newest event of a full queue
QueuedIfRoom(queue, e) == IF Len(queue) < MaxEvents THEN Append(queue, e) ELSE queue

\* pushEvent(): a full queue drops its oldest event
Queued(queue, e) == Append(IF Len(queue) < MaxEvents THEN queue ELSE Tail(queue), e)

\* a handler leaves an event
Push(e) ==
    /\ events' = Queued(events, e)
    /\ UNCHANGED <<was, seen>>

\* the event loop returns from run(): Proton finishes the connection and its work queue
LoopReturns ==
    /\ loop' = "ended"
    /\ closeJob' = FALSE
    /\ workQueue' = IF workQueue = "up" THEN "finished" ELSE workQueue

-----------------------------------------------------------------------------
(* The container thread                                                    *)

\* the connection cannot be established: on_transport_error(), or run() throws
OpenFails ==
    /\ loop = "starting"
    /\ connected' = FALSE
    /\ error' = TRUE
    /\ LoopReturns
    /\ Push("amqp-error") \/ UNCHANGED eventVars
    /\ UNCHANGED <<container, runsIn, joinable, pc, calls, crashed>>

\* on_connection_open(): the work queue and connected_ ...
OnConnectionOpen ==
    /\ loop = "starting"
    /\ loop' = "opening"
    /\ workQueue' = "up"
    /\ connected' = TRUE
    /\ UNCHANGED <<error, container, runsIn, joinable, closeJob, pc, calls, crashed, eventVars>>

\* ... then the event, and under connect_mutex_ connect_error_
ClearError ==
    /\ loop = "opening"
    /\ loop' = "open"
    /\ error' = FALSE
    /\ events' = Queued(events, IF was THEN "amqp-reconnected" ELSE "amqp-connected")
    /\ was' = TRUE
    /\ UNCHANGED <<connected, workQueue, container, runsIn, joinable, closeJob, pc, calls, crashed, seen>>

\* the job of close(): connection_.close() asks the broker to close the connection
RunClose ==
    /\ loop = "open" /\ closeJob
    /\ loop' = "closing"
    /\ closeJob' = FALSE
    /\ UNCHANGED <<connected, workQueue, error, container, runsIn, joinable, pc, calls, crashed, eventVars>>

\* on_connection_error(), if there is one, and on_connection_close(): the broker closes the connection
\* or answers its close
OnConnectionClose ==
    /\ loop = "closing" \/ (loop = "open" /\ "close" \in Faults)
    /\ loop' = "leaving"
    /\ connected' = FALSE
    /\ workQueue' = "null"
    /\ \/ /\ Push("amqp-disconnected")
          /\ UNCHANGED error
       \/ /\ events' = Queued(Queued(events, "amqp-error"), "amqp-disconnected")
          /\ error' = TRUE
          /\ UNCHANGED <<was, seen>>
    /\ UNCHANGED <<container, runsIn, joinable, closeJob, pc, calls, crashed>>

\* the mutant leaves connected_ to the thread that waits
BreakQuietly ==
    /\ "break" \in Faults
    /\ loop \in {"open", "closing", "leaving"}
    /\ error' = TRUE
    /\ LoopReturns
    /\ Push("amqp-error")
    /\ UNCHANGED <<connected, container, runsIn, joinable, pc, calls, crashed>>

\* on_transport_error()
OnTransportError ==
    /\ "break" \in Faults
    /\ loop \in {"open", "closing", "leaving"}
    /\ connected' = FALSE
    /\ error' = TRUE
    /\ LoopReturns
    /\ Push("amqp-error")
    /\ UNCHANGED <<container, runsIn, joinable, pc, calls, crashed>>

\* on_error(): the default of on_receiver_error() and on_session_error()
OnError ==
    /\ loop = "open" /\ "link" \in Faults
    /\ connected' = FALSE
    /\ error' = TRUE
    /\ UNCHANGED <<workQueue, container, runsIn, joinable, loop, closeJob, pc, calls, crashed, eventVars>>

\* handlerFailed(): a handler has thrown
HandlerFails ==
    /\ loop = "open" /\ "throw" \in Faults
    /\ connected' = FALSE
    /\ error' = TRUE
    /\ Push("amqp-error")
    /\ UNCHANGED <<workQueue, container, runsIn, joinable, loop, closeJob, pc, calls, crashed>>

\* the connection is closed on both sides, and run() returns
Leave ==
    /\ loop = "leaving"
    /\ LoopReturns
    /\ UNCHANGED <<connected, error, container, runsIn, joinable, pc, calls, crashed, eventVars>>

-----------------------------------------------------------------------------
(* The threads of the application                                          *)

\* connect() up to the container: nothing to do when connected; the container that was there is destroyed,
\* whether an event loop still runs in it or not
Connect(t) ==
    /\ pc[t] = "idle" /\ ~connected /\ calls < Connects
    /\ calls' = calls + 1
    /\ container' = calls'
    /\ Goto(t, "starting")
    /\ UNCHANGED <<connected, workQueue, error, runsIn, joinable, loop, closeJob, crashed, eventVars>>

\* the program ends, and nothing runs any more
Terminate ==
    /\ crashed' = TRUE
    /\ joinable' = FALSE /\ loop' = "none"
    /\ pc' = [t \in Threads |-> "gone"]

\* an event loop whose container is destroyed under it is undefined: it ends the program, or goes on as before
ContainerGone ==
    /\ Running /\ runsIn # container
    /\ Terminate
    /\ UNCHANGED <<connected, workQueue, error, container, runsIn, closeJob, calls, eventVars>>

\* connect() starts the container thread; assigning to a thread that is joinable terminates the program
StartThread(t) ==
    /\ pc[t] = "starting"
    /\ error' = FALSE
    /\ IF joinable
       THEN /\ Terminate
            /\ UNCHANGED runsIn
       ELSE /\ joinable' = TRUE
            /\ loop' = "starting" /\ runsIn' = container
            /\ Goto(t, "connecting")
            /\ UNCHANGED crashed
    /\ UNCHANGED <<connected, workQueue, container, closeJob, calls, eventVars>>

\* the wait of connect() ends: with the connection, or an error
ConnectWaited(t) ==
    /\ pc[t] = "connecting"
    /\ connected \/ error
    /\ Goto(t, IF error THEN "failing" ELSE "idle")
    /\ UNCHANGED <<connected, workQueue, error, container, runsIn, joinable, loop, closeJob,
                   calls, crashed, eventVars>>

\* the wait of connect() times out or is cancelled
ConnectGivesUp(t) ==
    /\ pc[t] = "connecting"
    /\ Goto(t, "failing")
    /\ UNCHANGED <<connected, workQueue, error, container, runsIn, joinable, loop, closeJob,
                   calls, crashed, eventVars>>

\* connect() stops the container, joins its thread and resets it; a connection that opened meanwhile
\* is aborted, which is an on_transport_error(); one that does not open may be. Stopping the container
\* of another call ends no event loop.
StopContainer(t) ==
    /\ pc[t] = "failing"
    /\ IF joinable
       THEN /\ runsIn = container \/ ~Running
            /\ LoopReturns
            /\ connected' = FALSE
            /\ joinable' = FALSE
            /\ \/ Running /\ Push("amqp-error") /\ error' = TRUE
               \/ loop \notin {"opening", "open", "closing"} /\ UNCHANGED <<error, eventVars>>
       ELSE UNCHANGED <<connected, workQueue, error, joinable, loop, closeJob, eventVars>>
    /\ container' = 0
    /\ Goto(t, "idle")
    /\ UNCHANGED <<runsIn, calls, crashed>>

\* close() does nothing unless connected
Close(t) ==
    /\ pc[t] = "idle" /\ connected
    /\ Goto(t, "closing")
    /\ UNCHANGED <<connected, workQueue, error, container, runsIn, joinable, loop, closeJob,
                   calls, crashed, eventVars>>

\* the mutant does not ask for the connection to be closed
JoinOnly(t) ==
    /\ pc[t] = "closing"
    /\ Goto(t, "joining")
    /\ UNCHANGED <<connected, workQueue, error, container, runsIn, joinable, loop, closeJob,
                   calls, crashed, eventVars>>

\* close() schedules the close of the connection, if there is still a work queue
ScheduleClose(t) ==
    /\ pc[t] = "closing"
    /\ closeJob' = (closeJob \/ workQueue = "up")
    /\ Goto(t, "joining")
    /\ UNCHANGED <<connected, workQueue, error, container, runsIn, joinable, loop, calls, crashed, eventVars>>

\* the container thread is joined, if there is one
Join(t) ==
    /\ pc[t] = "joining"
    /\ joinable => loop = "ended"
    /\ joinable' = FALSE
    /\ Goto(t, "clearing")
    /\ UNCHANGED <<connected, workQueue, error, container, runsIn, loop, closeJob, calls, crashed, eventVars>>

\* the mutant does not leave the connection ready for another connect()
ClearForGood(t) ==
    /\ pc[t] = "clearing"
    /\ container' = 0
    /\ connected' = FALSE
    /\ Goto(t, "closed")
    /\ UNCHANGED <<workQueue, error, runsIn, joinable, loop, closeJob, calls, crashed, eventVars>>

\* close() clears the links and resets the container
Clear(t) ==
    /\ pc[t] = "clearing"
    /\ container' = 0
    /\ connected' = FALSE
    /\ Goto(t, "idle")
    /\ UNCHANGED <<workQueue, error, runsIn, joinable, loop, closeJob, calls, crashed, eventVars>>

\* the mutant asks for no close at all
DestroyQuietly(t) ==
    /\ \A u \in Threads : pc[u] = "idle"
    /\ Goto(t, "destroying")
    /\ UNCHANGED <<connected, workQueue, error, container, runsIn, joinable, loop, closeJob,
                   calls, crashed, eventVars>>

\* the destructor asks for a close when connected ...
Destroy(t) ==
    /\ \A u \in Threads : pc[u] = "idle"
    /\ closeJob' = (closeJob \/ (connected /\ workQueue = "up"))
    /\ Goto(t, "destroying")
    /\ UNCHANGED <<connected, workQueue, error, container, runsIn, joinable, loop, calls, crashed, eventVars>>

\* ... and joins the container thread
Destroyed(t) ==
    /\ pc[t] = "destroying"
    /\ joinable => loop = "ended"
    /\ joinable' = FALSE /\ container' = 0
    /\ Goto(t, "gone")
    /\ UNCHANGED <<connected, workQueue, error, runsIn, loop, closeJob, calls, crashed, eventVars>>

\* checkEvents(): the events are drained and given to the observers
CheckEvents(t) ==
    /\ pc[t] = "idle" /\ events # <<>>
    /\ seen' = events[Len(events)]
    /\ events' = <<>>
    /\ UNCHANGED <<connected, workQueue, error, container, runsIn, joinable, loop, closeJob, pc,
                   calls, crashed, was>>

-----------------------------------------------------------------------------
Exists == \A t \in Threads : pc[t] \notin {"destroying", "gone"}

ContainerThread == \/ OpenFails \/ OnConnectionOpen \/ ClearError \/ RunClose
                   \/ OnConnectionClose \/ OnTransportError \/ OnError \/ HandlerFails \/ Leave
                   \/ ContainerGone

\* the operations that are called; the others are what is left of a call
Called(t) == Exists /\ (Connect(t) \/ Close(t) \/ CheckEvents(t) \/ Destroy(t))

Going(t) == \/ StartThread(t) \/ ConnectWaited(t) \/ StopContainer(t)
            \/ ScheduleClose(t) \/ Join(t) \/ Clear(t) \/ Destroyed(t)

Next ==
    \/ ContainerThread
    \/ \E t \in Threads : Called(t) \/ Going(t) \/ ConnectGivesUp(t)

Spec == Init /\ [][Next]_vars

(***************************************************************************)
(* The container thread and the calls go on; an attempt to connect         *)
(* succeeds or fails; the broker answers a close, or the connection        *)
(* breaks; a wait of connect() has a timeout. The broker need not do       *)
(* anything on its own.                                                    *)
(***************************************************************************)
FairSpec ==
    /\ Spec
    /\ WF_vars(OpenFails \/ OnConnectionOpen)
    /\ WF_vars(ClearError \/ RunClose \/ Leave \/ (loop = "closing" /\ OnConnectionClose))
    /\ \A t \in Threads : WF_vars(Going(t) \/ ConnectGivesUp(t))

-----------------------------------------------------------------------------
(* Properties                                                              *)

(***************************************************************************)
(* connected_ never outlives the connection: however an attempt to connect,*)
(* a connection or a call ends, isConnected() is True only while an event  *)
(* loop has an open connection, in the container that is there; so         *)
(* connect() never waits for its own and finds an earlier one. And an event*)
(* loop keeps the thread object that is to join it, and the container it   *)
(* runs in but for the last step before connect() ends the program: when   *)
(* connected_ is False though the loop runs, connect() destroys the        *)
(* container of the loop and then assigns to its thread.                   *)
(***************************************************************************)
ConnectedIsAlive ==
    /\ connected => loop \in {"opening", "open", "closing"} /\ runsIn = container
    /\ Running => joinable /\ (runsIn = container \/ \E t \in Threads : pc[t] = "starting")

(***************************************************************************)
(* close() that found the connection open ends: the event loop always gets *)
(* to its end, with the job of close() or without it.                      *)
(***************************************************************************)
CloseEnds == \A t \in Threads : pc[t] = "closing" ~> pc[t] = "idle"

(***************************************************************************)
(* The destructor ends, when an open connection is known to be open: the   *)
(* event loop that it joins was asked to end, or ends by itself.           *)
(***************************************************************************)
DestroyEndsKnown ==
    \A t \in Threads :
        (pc[t] = "destroying" /\ (loop = "open" => connected)) ~> pc[t] = "gone"

(***************************************************************************)
(* "Events are pushed by the connection handler when the connection state  *)
(* changes": whatever the queue has dropped, an observer that drains it    *)
(* knows from the last event whether the connection is up, but for a link  *)
(* error, which clears connected_ on a connection that is open.            *)
(***************************************************************************)
LastEvent == IF events = <<>> THEN seen ELSE events[Len(events)]
EventsTellState ==
    /\ ~crashed /\ loop # "opening"
    /\ loop \in {"open", "closing"} => connected
    => (connected <=> LastEvent \in UpEvents)

(***************************************************************************)
(* connect() connects or raises AMQP-CONNECTION-ERROR: it never ends the   *)
(* program.                                                                *)
(***************************************************************************)
NeverTerminates == ~crashed
=============================================================================
