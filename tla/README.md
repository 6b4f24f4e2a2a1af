# Verification of the Qore AMQP module

TLA+ specifications of `module-amqp`, a Qore module for AMQP 1.0 on top of Apache Qpid Proton, with the TLC
configurations that check them and proofs for TLAPS. Lines are those of `src/QoreAmqpConnection.cpp` unless another
file is named.

## 1. The system

| Component | State | Operations | Talks to |
|---|---|---|---|
| Work queue (`QoreAmqpConnection.h:352-492`) | `work_queue_`; a `WorkState` per call: `done`, `abandoned`, `error`, `release` | `scheduleWork`, `runWork`, `scheduleRelease` | hands jobs from application threads to the Proton event thread |
| Lifecycle (808-1009, handlers 214-389, 603-663) | `connected_`, `connect_error_`, `container_`, `container_thread_`, `work_queue_` | `connect`, `close`, destructor, `on_connection_*`, `on_transport_error`, `on_error` | starts and joins the event thread |
| Links (1071-1389, 2419-2630) | `senders_`, `receivers_`, names, `attached_receivers_`, `link_registry_` | create, close, durable subscriptions, recovery in `on_connection_open` | work queue, `on_receiver_open` |
| Receiving and settling (454-486, 1833-1970) | `received_messages_`, `pending_deliveries_`, `pending_tags_` | `receive`, `accept`, `reject`, `release`, `modify`, `on_message` | condition `recv_cv_`, work queue |
| Sending (488-524, 1391-1831) | `send_results_`, `messages_sent_` | `send`, `sendBatch`, `on_tracker_accept`, `on_tracker_reject` | condition `send_cv_`, work queue |
| Transactions (422-452, 526-601, 2055-2417) | `txn_*` | `beginTransaction`, `commitTransaction`, `rollbackTransaction`, `on_tracker_settle`, `on_sendable` | a coordinator link, condition `txn_cv_` |
| Management (2630-2873) | `mgmt_*` | `queryQueues` and others, `managementRequest` | its own links, `recv_cv_` |
| Events and statistics (2875-2933) | `event_queue_`, counters | `pushEvent`, `getConnectionEvents`, `getStatistics` | `AmqpConnectionObservable` polls |
| Messages, conversion (`QoreAmqpMessage.cpp`, `QoreAmqpHelper.cpp`) | one Proton message each | conversions in both directions, properties | Proton values |
| `AmqpUtil` (`qlib/AmqpUtil`) | `m_senders`, `m_receivers`, `m_counter` | client, producer, consumer, request-reply, observable | the connection |
| `AmqpDataProvider` | flags of the event loop | providers, `observersReady`, `stopEvents` | `AmqpClient` |

Two kinds of threads share a connection: the threads of the application, any number of them
(`test/amqp-threads.qtest` uses eight), and one Proton event thread, which runs the handlers and the jobs of the
work queue, one at a time. Proton objects belong to the event thread; application threads see names, tags and
results, each under a mutex of its own, and wait on a condition with `waitWithCancel()`.

What is hard: a call can give up (timeout, cancellation) at any moment while its work runs; the work and the caller
must agree on who cleans up; two maps that belong together are guarded by different threads; `connected_` is
written without the mutex of those who wait for it; the broker answers late, not at all, or after a reconnection; a
transaction is state on three sides (flags, coordinator link, broker). `PROJECT.json` lists the hazards line by
line.

What makes each part correct:

- work queue: what a call created is released exactly once if and only if the call failed, and every call ends;
- receiving: a disposition reaches the delivery it was asked for, once; no wakeup is lost; no message outlives its
  receiver;
- sending: what is reported is what the broker answered; no result stays behind, but for a release that meets a
  closed connection; no wakeup is lost;
- lifecycle: the event loop is owned by a joinable thread, `connected_` means an open connection, close ends;
- transactions: all or nothing, for what was sent between begin and commit;
- links: a name that was returned can be used until it is closed, and what is recovered is what was open;
- management: a request gets its own reply, on the links of the connection that is open, and always ends;
- events: the last event says how the connection is;
- messages: what is read is what was sent, up to losses that are known, and an answer finds its request.

## 2. The modules

| Module | Models | Checked by |
|---|---|---|
| `CallPromise` | abstract: what a call that creates a link promises | refined by `WorkQueue` |
| `WorkQueue` | `runWork()` and its callers | `WorkQueueMC`, `WorkQueueProofs` |
| `Delivery` | receiving and settling | `DeliveryMC`, `DeliveryProofs` |
| `Sending` | `send()` and `sendBatch()` | `SendingMC`, `SendingProofs` |
| `Lifecycle` | connect, close, destroy, and the events they leave | `LifecycleMC`, `LifecycleProofs` |
| `Transaction` | begin, commit, rollback | `TransactionMC`, `TransactionProofs` |
| `Links` | links, their names, the registry, recovery; the caches of `AmqpClient` | `LinksMC`, `LinksProofs` |
| `Management` | `managementRequest()` | `ManagementMC`, `ManagementProofs` |
| `Message` | messages and every conversion of a value | `MessageMC`, `MessageProofs` |
| `RequestReply` | `AmqpRequestReply` | `RequestReplyMC`, `MessageProofs` |

In each module a variable is named for the member it stands for; the comment at its declaration says so. What the
code does under one lock, or on the event thread without giving up control, is one action; where it unlocks, or
reads two atomics one after the other, there are two. Actions with `the mutant` in their comment are not part of
`Next`: each is the version of an action that a plausible bug would give, used to see that a property notices.

**WorkQueue.** One call is one `runWork()`: `Schedule`, then `Wake`, `TimeOut` or `Cancel` under the lock of its
state, then for a failed call `ScheduleRelease`, and for receivers the second wait (`AttachDone`, `AttachGiveUp`).
The event thread takes the job (`RunWork`, which looks at `abandoned`), runs the function of the call (`Fn`: it
creates a link, fails, or finds a coordinator that is open) and finishes under the lock (`FinishWork`), releasing
what it created if the call gave up meanwhile (`ReleaseNow`). `DiscardGuards` is the destructor of the guard
object: it acts only when neither a job nor the frame of `runWork()` holds it any more. `CallPromise` says the same
without the queue: a call ends once, a successful call keeps its link, a failed one has it taken back;
`KeepsPromise` is the refinement, `Promise!Spec` under a mapping of `pc` and `link`.

**Delivery.** `OnMessage`, `StoreTag`, `Push` are the three steps of `on_message()`; `Settle` and `ScheduleSettle`
the two halves of `settle()` and `modify()`, `RunSettle` its job. `TestReceive` is the test and the going to sleep
of `waitWithCancel()`, atomic under `recv_mutex_`; `Lose` and `WakeReceivers` are the two halves of the handlers
that end a connection, so that a thread can test between them. `asked` and `applied` are history. The broker gives
a delivery any tag that it has not used on the link, which is all that AMQP asks of it. After a reconnection the
receivers are recovered under new names (durable ones, which keep theirs, are in `Links`); the tags and deliveries
of the old connection stay in their maps.

**Sending.** `SendMessage` is one round of the work: the delivery is put at the end of the line of the link
(`ahead`), the message is sent with the delivery at its head, and the result waits under the tag of the new one;
these are the same delivery as long as no encoding has failed. Any message can fail to encode, and any call can
find a transaction active. `Answer` is what the broker says of the delivery a message was sent with. `EndWait`,
`Conclude` are the end of `send()` under its lock and the second look at `connected_` after it. The broker can also
release a message, which no handler sees (`GiveBack`). `leaked` is history: the calls whose own release was refused
by a connection that was closed, or was in its queue when Proton dropped that.

**Lifecycle.** The container thread is one variable, `loop`; `pc` follows each application thread through
`connect()`, `close()` and the destructor, with a step wherever the code waits or unlocks. The destructor runs when
no other call does. `container` and `runsIn` number the containers by the `connect()` that made them: the one that
is there, and the one in which the loop runs. `Connect` destroys the container that was there (871). What a loop
does whose container is destroyed under it is undefined: it ends the program (`ContainerGone`), or it goes on as
before, until `StartThread` assigns to its joinable `std::thread`, which is `Terminate`. Each handler leaves its
events in a queue of `MaxEvents` (`Queued` is `pushEvent()`, which drops the oldest), and `CheckEvents` is an
observer that drains it; `HandlerFails` is `handlerFailed()`, a handler that throws.

**Transaction.** The requests on each coordinator link (`wire`) are answered by the broker in their order, and
late; what a discharge makes of its transaction is `Outcome`. `AnswerDeclared`, `AnswerAccepted`, `AnswerRejected`
and `AnswerUnexpected` are the branches of `on_tracker_settle()`; what it does with a Declared without an id
(562-578), which AMQP does not allow, is left out. Each begin has its own `WorkState`, with the link its work made,
so that a late job and a late release are there. `Send` and `SendUnder` are the reads of `txn_active_` and
`txn_id_`. A message that was sent (1506) reaches the broker before a discharge that is sent after it: credit on
the link, for which Proton would keep it back, is not modelled. `inside`, `told` and `gaveUp` are history.

**Links.** Work is one step here (`WorkQueue` has its parts), and so is each close on the event thread; a call that
closes a link erases the name (`EraseName`) and schedules the rest (`ScheduleClose`) in two steps, as the code
does, and so any other thread or handler can come between. `table`, `names` and `attached` are the three places
where a link is known, `registry` the fourth. `Entries` and `Erase` say which entry of the registry a close takes:
the code tells entries by kind and address, and a durable one by its subscription. `Reopen` creates a link for each
entry, under the names of `NewName`; of entries that give one name, the last stays in the table (`Recovered`).
Proton makes names 1, 2, ...; the name of a durable receiver is its subscription. `Reopen` is both a reconnection
by Proton and a `connect()` after `close()`, because `was_connected_` and the registry outlive `close()`. `awaited`
are the receivers whose attach the broker has yet to answer. The answer may cross our detach, so `OnReceiverOpen`
comes for a link that was closed meanwhile too. Two attaches of one subscription that are both without an answer
share one, an approximation: names are a set. Above it is one `AmqpClient` with its caches, which its producers and
consumers share (`ClientClose`, `WrapperClose`), and a durable consumer with its three ways to end
(`DurableClose`). `Senders`, `Receivers` and `Subscriber` say which thread uses what, so that an instance is small.
`returned`, `closed` and `astray` are history.

**Management.** `Test` and `Lock` are the two tests of `mgmt_initialized_`, without and with `mgmt_mutex_`, which
is then held until `SetInitialized` or `GiveUpInit`. A link is named by the connection it was made on, so that a
sender or address of an earlier one can be told from the current one: a job that uses it may fail, or its message
may vanish. `TestAddress` and `TestReply` are the waits on `recv_cv_`; the first looks at `connected_`, the second
does not. The broker answers a request at any time, or never. `on_connection_open()` has three steps, between which
other threads go on: `Reopen` (`connected_`, 281), `ForgetInitialized` (`mgmt_initialized_`, 292) and
`ForgetAddress` (under `recv_mutex_`, 293-297); `opening` says which comes next. After `clearLinks()` (982) the
sender is null, and sending on it (2824) is undefined: the job fails, or its message vanishes, which is the nearest
that a run can have. `late` is history: the connections for which the flag was set by a request that saw an address
of an earlier one.

**Message.** A value is its type and contents; the operators are named for the functions of `QoreAmqpHelper`.
Integers wrap at `2 * LongLimit` and `2 * IntLimit`, which stand for 2^64 and 2^32, C++ division truncates
(`Quotient`, `Remainder`), and a date carries as `DateTimeNode::makeAbsolute()` does. Of a date the code asks Qore
for the seconds since the epoch and the microseconds, of a relative one too (486-491 of `QoreAmqpHelper.cpp`): a
relative date is what Qore says then, seconds and microseconds of either sign. NULL is a value beside NOTHING
(`IsNullOrNothing`). The variables follow one message: what was asked for, the Proton message, and what is read
from it; a receiver may `Forward` what it read or `Reply` with its message ID. `RoundTrip` compares with a
definition of its own of what should be left (`ValueLeft`, `PropertiesLeft`), which does not use the conversions.

The conversion of a container calls itself for the elements. A recursive operator cannot be proved about, so these
calls are constants: `ElementToQore`, `ElementToProton`, and `ElementLeft` for the definition of what should be
left. `ValuesAssumption` and `WireAssumption` say that on the values of Qore and of AMQP that there are (`Values`,
`WireValues`) they are `ProtonToQore`, `QoreToProton` and `ValueLeft` again. The configuration gives them these
operators, so that TLC computes the recursion, and TLC checks both assumptions before it starts. `Depth` is the
nesting of a value, smaller for each element of it: a hash that contains itself, on which the code does not return,
is not a value here. The values are closed under the conversions: what is read of a value that was sent is a value.

**RequestReply.** A helper has the reply address of the thread that made it (`Home`) and a counter; a message ID is
the thread that asks and the counter. `Receive` is one round of the loop in `request()`: a reply with another
correlation ID is discarded. The server replies late or never, the broker to one receiver of the address or all.

## 3. What the runs show

Passing runs:

| Run | Instance | Shows |
|---|---|---|
| `WorkQueue` | a sender, two receivers | one side releases each link, at most once; a returned link is kept; a failed call leaves none; the calls implement `CallPromise`, end, and what failed ones made is taken back |
| `Delivery` | 2 threads, a receiver and its recovered successor, 2 deliveries, 2 dispositions, 2 opens, link errors | one call settles a delivery, and its disposition arrives once and where it belongs, if no other delivery has the tag; a successful call takes effect; no lost wakeup; closed receivers hold nothing; `receive()` ends when the connection is lost |
| `Sending` | a send and a batch of two, 2 opens, link errors | reports agree with the broker; no result stays but where a release met a closed connection; no lost wakeup; `send()` ends when the connection is lost |
| `Lifecycle` | one thread, three connects, every fault, two events | `connected_` is not stale and means the container that is there; the loop keeps its thread object, and its container until a `connect()` that ends the program; the last event tells how the connection is; close ends; so does the destructor that finds an open connection open |
| `Transaction` | three begins, three transactions, two coordinators, two messages and an acknowledgement | commit delivers all and rollback nothing until a wait gives up; messages of an active transaction are sent inside one |
| `Links` | 2 threads, 3 names and a subscription, 2 entries, 2 opens | the registry has exactly the links that are open; a returned name stays usable; a closed link is gone from every table |
| `Management` | 2 threads, 3 requests, 2 reply receivers, 2 opens, refusals, requests between the steps of `on_connection_open()` | own replies; nothing left of a request that is over; initialized means the links of this connection; no lost wakeup; every request ends |
| `Message` | limits 8 and 4 (4 bits for 64, 3 for 32), 16 dates around the epoch, relative dates, NULL, nested containers, foreign types | only known losses; a message that was read is forwarded without another; a reply carries the ID of its request |
| `RequestReply` | 3 helpers, 2 of one thread, 2 threads, 3 requests | own replies unless two helpers share the address; no reply is lost but to such a helper or to a thread that shares it |

Some properties of these runs say where they stop, because the code does not go further: `SettledAsAsked` and
`SuccessTakesEffect` are about deliveries whose tag is their own (`OwnTag`), `AtomicInTime` about executions in
which no wait for the broker has given up, `DestroyEndsKnown` about a destructor that finds `connected_` true if
the connection is open, `EventsTellState` leaves out link errors, `RegistryIsOpenLinks` addresses and subscriptions
where a close went astray, `NoStaleResult` the calls in `leaked`, `InitializedIsCurrent` connections in `late` and
the time before `ForgetInitialized` and `ForgetAddress` (`opening`), `ConnectedIsAlive` the container while a
`connect()` is about to end the program, `OwnReply` of `RequestReply` helpers with the same address. What lies
beyond is in the table and the list below.

Runs that find a disagreement between the code and what it or its documentation says; each has an entry under
`findings` in `PROJECT.json`:

| Run | Property | In short |
|---|---|---|
| `LifecycleAgain` | `NeverTerminates` | `connect()` after the connection was lost ends the program |
| `TransactionLate` | `Atomic` | a late Declared joins another transaction |
| `LinksCached` | `CachedIsOpen` | closing a producer or consumer closes the link that the client has cached |

More of them met while modelling, which have no run of their own. Work queue and deliveries:

- work that Proton discards does not end the wait of its call, as `QoreAmqpConnection.h:384` says it does: the
  frame of `runWork()` holds the guard itself (`QoreAmqpConnection.h:401`), and the call ends by its timeout;
- `pending_tags_` and `pending_deliveries_` are kept across a reconnection (287), so a tag of the old connection
  settles a delivery of the new one; the same between two receivers of one connection, with a broker that numbers
  the deliveries of each link (475);
- `settle()` applies its disposition outside the transaction that is active (1905), although
  `docs/guide-amqpexamples.dox.tmpl:169` says "Receive ack + send are atomic".

Sending:

- a `send()` that gave up after its work has stored a result (1521) schedules its release; a connection that is
  closed refuses that, or drops it with its queue. The result then stays until the connection object is destroyed:
  `send_results_` is not in `clearLinks()` (978-1009), and no handler of a loss clears it, while
  `QoreAmqpConnection.h:456` says of the refusal "the connection is closed, and its links with it";
- accepted messages of a batch are counted twice in `messages_sent` (501 and 1824);
- `send()` that times out reports its message as accepted and settled (1577), and `sendBatch()` raises nothing for
  a message that was rejected (1806); `ReportsHold` leaves the first out, and asks of the second only that it is
  not called accepted;
- `sendBatch()` does not look at `connected_` in its wait (1783): after a loss it sleeps until its timeout;
- after an encoding failure the delivery that `pn_delivery()` made stays current on the link (1500), and answers
  reach the results of other messages; so `ReportsHold` speaks of the delivery that the call waits for (`Said`);
- `send()` whose wait ends because of a loss looks at `connected_` again after it (1582): if Proton has connected
  meanwhile it returns "rejected" without an error, the exception in `ReportsHold`.

Lifecycle and events:

- `on_error()` (625) clears `connected_` when a link is closed with an error, although the connection is open,
  leaves no event and wakes no thread in `receive()` or `send()`; so `LossEndsReceive` and `LossEndsSend` are about
  the connection (`up`) and not the flag. The destructor then asks for no close (816) and joins a loop that nobody
  ends (827);
- `connect()` destroys the container of a loop that still runs (871), before it comes to the thread object: after a
  link error, after a handler that failed, or while a lost connection is about to leave `run()`;
- `connected_` is set before the event is pushed (281, 336): `connect()` can return first, while
  `test/amqp-integration.qtest:935` reads the event right after it;
- a second thread can connect while `close()` is between its join and `clearLinks()` (971); `Lifecycle` is checked
  for one thread.

Transactions:

- two threads can begin a transaction at once (2129); `Transaction` is checked for one thread;
- a begin that gives up on a coordinator that an earlier begin made leaves it open, and so the transaction that the
  broker may declare (2159).

Links:

- recovered links have new names (305, 325), which nobody is told, so a thread that has an old name does not reach
  them, while `docs/guide-amqpexamples.dox.tmpl:530` says that "all senders and receivers are automatically
  re-created" and goes on with the old name;
- a close takes another entry of the registry, or none, in three cases (`astray`): closing a durable receiver with
  `closeReceiver()`, as `AmqpConsumer::close()` does (1387); closing a name of an earlier connection, whose address
  also has a recovered link (1297, 1329); and closing a sender before the broker has answered, when its target has
  no address yet (1295). What is recovered later is wrong by that link;
- `close()` and `connect()` recover links too, because `was_connected_` and the registry are kept: links nobody has
  a name of, beside those that the application creates again; a durable receiver is then registered twice;
- the answer to an attach that comes after the link was closed puts its name into `attached_receivers_` (415-418),
  where it stays until `close()`; nobody asks for it, unless it is the name of a subscription: the next
  `createDurableReceiver()` then takes its own attach for answered;
- `unsubscribeDurable()` during a reconnection takes the link, but the name that the recovery inserted stays;
- `AmqpClient::close()` clears its caches after the connection (96-98): a sender created by another thread
  meanwhile stays cached.

Management, messages and requests:

- a request that has its reply address when the connection goes sets `mgmt_initialized_` on the next one (2781):
  requests then go nowhere, and `null` is their answer until the next reconnection;
- `connected_` is set at 281 and `mgmt_initialized_` cleared at 292: a request that begins in between takes the
  links of the connection that is gone for those of this one (2734), and is sent on its sender, although the
  comment at 290 says that they "are created again when needed"; it fails, or has no answer by its timeout;
- NULL is sent as AMQP null and read as NOTHING, and a property that is NULL is not set; a relative date is read as
  the absolute date that is so far from the epoch, less the microseconds;
- values of annotations that are lists or maps are read, but refused (`AMQP-TYPE-ERROR`) when sent
  (`ForwardIsExact`);
- a UUID is read as a string, so a reply carries a string instead (`ReplyCorrelates`); of map keys that print alike
  one stays; `group_sequence` keeps 32 bits; a time at the epoch, a sequence number 0 and an empty text are not
  reported; the property `footer` is declared, but neither sent nor read;
- two `AmqpRequestReply` objects made in one thread have the same reply address and the same message IDs
  (`AmqpRequestReply.qc:79`, `:96`), although `:44` says "a unique dynamic reply address": one can return the reply
  to the other's request. Threads that share a helper discard each other's replies (127). Its `close()` closes
  nothing, although `:131` says "closes sender and receiver". No reply is accepted.

### Bounds

`Calls` of `WorkQueue` and `Sending` are made once each: a retried call is another member. Two calls that share a
link or a lock, and a third on the side, are enough for every race between a caller, another caller and the event
thread; nothing in the code counts calls. `Deliveries`: two, so that one can be taken for the other. `MaxOpens` is
2, one reconnection, which makes an old and a new name, link, tag or address of everything. `Connects` is 3: an
attempt that fails, one that works, and one after both. `MaxEvents` is 2 for 100: the queue overflows, and a
disconnection is dropped. `MaxBegins` is 3: one whose answer comes late, one that takes it, one after it.

`Links` has two entries in the registry and three names: two links of one address, of one kind or two, one of which
is recovered under a name of its own; one thread has senders and the subscription, the other both senders and
receivers. `Management` has three requests of two threads, one of which comes after a request that gave up, and two
reply receivers: one that is refused and one that is not, or one for each connection. `Message` needs no more than
the limits of its integer types and both sides of the epoch; `Thousand` is 4. `RequestReply` has two helpers that
share an address and one that does not, and three requests: one late, one that could take its reply, one of another
thread. Messages and ids are model values; where they are interchangeable the configuration declares the symmetry,
in runs without liveness only (`Transaction`).

`CHECK_DEADLOCK FALSE` is set where a connection may be lost for good, or the bounded calls used up, and nothing is
left to do; `WorkQueue` has an explicit `Stopped` step instead.

### Fairness

The event thread runs what it has (Proton's loop does not starve a job); a thread that is awake runs; a wait with a
timeout ends, which is used in `WorkQueue`, `Lifecycle` and `Management`, where the promise is that the call ends
at all, and deliberately not in `Delivery` and `Sending`, where the promise is that it ends before the timeout.
`Lifecycle` also assumes that an attempt to connect succeeds or fails and that a close is answered or the
connection breaks (idle timeouts of TCP or AMQP). In `Management` nothing is asked of the broker or the event
thread; a thread that waits for `mgmt_mutex_` gets it if it is free again and again (`SF` on `Lock`): without that,
a thread could be passed over for ever by others whose initialization fails. Nothing makes the application call,
the broker answer a request, or a fault happen.

## 4. What is proved

`WorkQueueProofs`, for every set `Calls` (finite or not) and every `Attaching \subseteq Calls`:

- `TypeCorrect`, `ReleasedOnceHolds`, `ReturnedIsKeptHolds`, `NoOrphanLinkHolds`: the invariants of the run
  `WorkQueue` hold in every behaviour of `Spec`;
- `PromiseKept`: `Spec => KeepsPromise`, the refinement of `CallPromise`.

None of the invariants is inductive by itself. That a link is released at most once depends on a release being in
one place only: with the thread that has to schedule it, in the queue, or on the event thread. `Inv` says that, in
four parts for each call: `NotStarted` (a call whose work has not started has created nothing), `Running` (work
that runs is not done), `ReleasePlace` (where the release is, by `pc`), `OpenLink` (an open link has an owner or a
release to come); and for the whole queue that no job is in it twice (`JobsDistinct`) and that a finished
connection runs nothing. There is one lemma per action (`ScheduleInv`, `WakeInv`, ...); `StepInv` puts them
together. The refinement follows action by action from the invariant: `Fn` is `Create`, `Wake` is `Succeed` or
`Fail`, giving up is `Fail`, a release is `TakeBack`, `Finish` is `GoDown`, everything else stutters. The only
assumption on constants is `AttachingAssumption`.

`DeliveryProofs`, for any threads and receivers, any finite set of deliveries and any number of connections:
`TypeCorrect`, `SettlesAsAsked`, `SuccessIsNeverDropped`, `NoLostWakeup`, `ClosedIsForgotten`. A tag that is its
delivery's own is a token: `pending_tags_`, the call that took it, the job of that call, each has it in turn and
nobody else meanwhile (`Token`); the delivery is in its map until it is settled (`Stored`), and what was asked of
it is applied, or queued, or was dropped with its connection (`Effect`). `NoLostWakeup` needs that the flag is
never set without a connection, and that who sleeps has yet to be woken by the second half of the handler
(`Sleepers`). Of the constants, only that `None` is no delivery and that there is a connection.

`SendingProofs`, for any calls and messages, where each message belongs to one call (`SendingAssumption`):
`TypeCorrect`, `ReportsAreTrue`, `ResultsAreReleased`, `NoLostWakeup`. The work of a call is at one place (`Once`),
so it sends each message once (`Left`); so what the broker said of a delivery is final, and what was stored, found
and reported of it is the same (`Truth`). A result is there by work that left a `release`, and who has to carry
that out is known at each point of the call, on every connection (`Accounted`), until the release itself meets a
connection that was closed (`leaked`).

`LifecycleProofs`, for any number of attempts and any length of the event queue: `TypeCorrect`,
`EventsTellTheState` and `ConnectedWhileOpen` (a set flag means an open connection, and a running loop a joinable
thread) for any threads, `ConnectedWhileAlive` (`ConnectedIsAlive`, which adds the container) under `OneThread`.
The last one is not so for two threads: the end of a `close()` of one resets the container in which the connection
of another runs (the race at 971, among the hazards). For one thread, `connect()` is alone while its connection is
made, in the container that it has made, and only a `connect()` that is about to end the program has taken the
container from a loop (`Single`).

`TransactionProofs`, for any ids, links and messages and any number of begins: `TypeCorrect` for any threads,
`SentUnderItsId` (`SentInside`) and `AtomicUntilGivenUp` (`AtomicInTime`) under `OneThread`. A second thread resets
the flags under a begin that waits (2129, among the hazards). For one thread a begin that comes to its end without
an error has an id (`Inside`), and until a wait gives up there is one request at most, in the queue or on a link,
and the thread waits for it (`OneRequest`): so an answer answers it, and the id does not change under the messages
that are sent with it (`Ended`).

`ManagementProofs`, for any threads and any number of connections, requests and receivers: `TypeCorrect`,
`RepliesAreOwn`, `LinksAreCurrent`, `NoLostWakeup`. The thread that makes the links holds `mgmt_mutex_`
(`MutexHeld`), it alone has a job for them (`OneInitJob`), the receiver that is known is of the connection that is
open, once `on_connection_open()` has come to its end, and of an earlier one before (`LinksOfOpen`), and an address
that was seen stays until the connection goes (`SetSaw`). A flag that is set in the middle of
`on_connection_open()` was set by a request that saw an earlier address (`InitializedHasLinks`).

`MessageProofs` has the theorems of `RequestReply` and those of `Message`, whose identifiers requests and replies
carry.

For any helpers and threads, any placing of the helpers and any number of requests: `RequestsTypeCorrect`
(`RRTypeOK`), `RepliesAreOwn` (which holds the whole of `OwnReply`). Wherever a request or its reply is, its
counter tells it from the others of its helper (`Distinct`); a receiver has replies for its own address
(`Addressed`); who waits is a user of its helper (`Asking`).

For messages: `MessageTypeCorrect` (`TypeOK`), `MessagesRoundTrip` (`RoundTrip`), `ForwardingIsExact`
(`ForwardIsExact`), `RepliesCorrelate` (`ReplyCorrelates`), for integers of any width (64 and 32 bits are
instances), any number of milliseconds in a second, any dates, and any values, requests and foreign messages. The
argument goes from the inside out:

- numbers: making an integer unsigned and signed again gives it back (`SignedOfUnsigned`, `UnsignedOfSigned`); the
  low bits of a sequence number determine the number that is left (`SequenceIsSigned`); a date that goes through a
  timestamp is the date at the millisecond before it, before the epoch too, where the division of C++ truncates
  towards it and `makeAbsolute()` carries a second back (`DateOfTimestamp`, `TimestampOfDate`), and a date that was
  read is itself again (`DateReadLeft`); a relative date is the date so far from the epoch, its microseconds cut to
  milliseconds towards zero (`TimestampOfRelative`); only the timestamp 0, which means "not set", is read as the
  epoch (`EpochIsZero`);
- scalars: what is read of a scalar that was sent (`ScalarComesBack`), and what is sent of one that was read
  (`ScalarIsRead`);
- containers: a hash that becomes a map, in whatever order of its keys, is the same hash when it is read
  (`MapComesBack`); a map whose keys print alike becomes a hash that names the last of each (`MapIsRead`). A value
  whose elements come back comes back (`ValueComesBackIf`). Then all do (`ValueComesBack`): of those that did not,
  one would be nested the least (`LeastNested`, since nesting is well-founded), and its elements, nested less, come
  back. This is the induction over the data, as an induction on a number. `ValueIsSentAgain` is the same for what a
  value of another program is after it was read once;
- properties: for each class of them (identifiers, texts, times, the sequence number, maps), the values that are
  left out when read are those that mean "not set", and no others (`PropertiesSurvive`, `PropertiesAreRead`);
- messages: `Faithful` (what a sent message will be read as is what was asked for), `Current` and `Unchanged` (what
  was read is what the Proton message says, and still says when it is forwarded), and `AskedForOne` are
  `MessageInv`, which TLC has checked on the instance as well. `RoundTrip` alone is not inductive: it says nothing
  of a message on its way.

What is assumed of the constants: the limits are numbers, `IntLimit` is the smaller one; values have the shape of
their type, are nested finitely and are converted as the operators say; Proton sends no other types for a property
than its API has (`IsWireProperty`); an application asks for properties of the types of `hashdecl
AmqpMessageProperties` (`IsProperty`), any value of a map included.

`LinksProofs`, for any threads, addresses and subscriptions, any number of names, entries and connections, with
recovery or without: `TypeCorrect`, `NamesAreHeld` (`NamesHold`), `RegistryIsExact` (`RegistryIsOpenLinks`). The
first invariant, `IInv`, says who knows a name. A creation in the queue has its call (`JobsOwned`), a subscription
one thread (`PlacesOwned`); a name that a call is about to return is known to this call only (`Fresh`), one that
was returned is not being closed (`Kept`), and so either is in every table while its connection lasts (`Usable`). A
name comes back only with a subscription: its close is in the queue before the next creation (`Behind`), so what is
closed is gone or has a close to come (`Gone`). Beside it, a plain receiver whose attach the broker has yet to
answer is known to the call that makes it only (`Owed`): so an answer that comes late brings back no name. The
second, `RInv`, adds the registry. A subscription has one entry at most: one when it is open, none while it is
being created (`Durables`). Of plain links as many are open as there are entries (`Plains`): a creation adds to
both, a close finds an entry because the numbers are equal, and takes from both; a reconnection maps entries to
names one to one (`ReopenRegistry`). An address or subscription leaves both when a close of it goes astray, as in
the run.

The constants have the assumptions that the modules name (`DeliveryAssumption` and so on): bounds are numbers,
`None` and other marks are no values, and there is one connection at least. The proofs have a lemma per action, and
one that puts them together (`Next`); bounds of the models are used only where a type has them.

Every invariant and every action property that a passing run checks is a theorem, and so is the refinement.

Only model-checked: liveness (`OrphansAreTakenBack`, `CallsEnd`, `LossEndsReceive`, `LossEndsSend`, `CloseEnds`,
`DestroyEndsKnown`, `RequestsEnd`), which the prover does not do under fairness. That the constants of `Message`
can have the values that its assumptions ask for, that is, that the recursion ends, is what the instance shows.

## 5. What is not modelled

- Options, URL, TLS and sandbox checks (`parseUrl()` serves the network check only), generated glue, debug hooks:
  no state that lasts.
- `scheduleCoordinatorGuard()`, a workaround inside Proton; the second link of `unsubscribeDurable()` (2601-2630),
  which no table knows; options and filters of links.
- Work that throws while it makes links, in `Links` and `Management` (Proton throws there on a connection that is
  closed): `WorkQueue` has it, and what the call then does is what it does when it gives up.
- `getStatistics()`; the hashes that management calls build; `rejectToDlq()`; the conversion of bodies by
  `AmqpMessageConverter`, which parsers of other modules do; encoding errors inside Proton.
- `AmqpDataProvider`: its providers and types declare and translate. Its event provider has flags and a loop of its
  own, on top of a client that it shares.

What is left, in this order:

1. Transactions across a reconnection: the null coordinator (2264), `txn_active_` after a loss.
2. `EventProvider`: `observersReady()`, `stopEvents()` and the receive loop of `AmqpEventDataProvider`.
