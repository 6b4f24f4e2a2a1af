------------------------------- MODULE Links -------------------------------
(***************************************************************************)
(* The links of a connection and those who keep track of them: the tables  *)
(* of the event thread (senders_, receivers_), the names the threads test  *)
(* (sender_names_, receiver_names_), the attached receivers, the registry  *)
(* that links are recovered from, and the caches of an AmqpClient.         *)
(*                                                                         *)
(* How a call and its work meet is in WorkQueue; here a job that its call  *)
(* gave up before it ran is gone from the queue, and work is one step. The *)
(* connection is lost and opened again by Proton, or closed and connected  *)
(* again, MaxOpens times in all.                                           *)
(*                                                                         *)
(* Links are named 1, 2, ... as Proton does, durable receivers by their    *)
(* subscription. A subscription is used by one thread.                     *)
(***************************************************************************)
EXTENDS Naturals, Sequences, FiniteSets, SequencesExt, Functions

CONSTANTS Threads,        \* threads of the application
          Addresses,      \* of nodes at the broker
          Subscriptions,  \* names of durable subscriptions
          Senders,        \* the threads that use senders,
          Receivers,      \* those that use receivers,
          Subscriber,     \* and the one that uses subscriptions
          MaxLinks,       \* bound: the names that Proton makes
          MaxEntries,     \* bound: the entries of the registry
          MaxOpens,       \* bound: how often the connection is opened
          Recover,        \* auto_recover_links_
          None

ASSUME LinksAssumption ==
    /\ MaxLinks \in Nat /\ MaxEntries \in Nat /\ MaxOpens \in Nat \ {0}
    /\ Recover \in BOOLEAN
    /\ Senders \subseteq Threads /\ Receivers \subseteq Threads /\ Subscriber \in Threads
    /\ Subscriptions \cap Nat = {} /\ None \notin Nat \cup Subscriptions \cup Addresses

Cached == {"sender", "receiver"}
Names == 1 .. MaxLinks \cup Subscriptions

Uses(t, kind) == \/ kind = "sender" /\ t \in Senders
                 \/ kind = "receiver" /\ t \in Receivers
                 \/ kind = "durable" /\ t = Subscriber

\* LinkInfo
LinkInfo(kind, addr, sub) == [kind |-> kind, addr |-> addr, sub |-> sub]
LinkInfos == {LinkInfo(k, a, None) : k \in Cached, a \in Addresses}
                 \cup {LinkInfo("durable", a, s) : a \in Addresses, s \in Subscriptions}

\* where a link is, and the subscription that it has; what tells links apart in the registry
Where(info) == {info.addr, info.sub} \ {None}
Place(info) == IF info.kind = "durable" THEN info.sub ELSE info.addr

VARIABLES
    up,         \* the connection is open: connected_, and work_queue_ is there
    opens,      \* how often it has been opened
    table,      \* the names in senders_ and receivers_
    names,      \* sender_names_ and receiver_names_
    attached,   \* attached_receivers_
    registry,   \* link_registry_
    live,       \* the links that are open at the broker
    awaited,    \* the receivers whose attach the broker has yet to answer
    links,      \* what each name was last given to, and when
    made,       \* how many names Proton has made
    jobs,       \* the jobs of the work queue
    pc,         \* what each thread of the application is doing
    cache,      \* m_senders and m_receivers of the client
    returned,   \* the names that calls returned and that nobody has begun to close
    closed,     \* the names closed since the connection was opened, and not given again
    astray      \* the addresses and subscriptions where a close met another entry of the registry, or none

conn == <<up, opens>>
tables == <<table, names, attached, registry, live, awaited, links, made>>
history == <<returned, closed, astray>>
vars == <<conn, tables, jobs, pc, cache, history>>

Idle == [at |-> "idle"]
Creating(info) == [at |-> "creating", info |-> info]
Attaching(n) == [at |-> "attaching", name |-> n]
Erased(n, op) == [at |-> "erased", name |-> n, op |-> op]
Clearing == [at |-> "clearing"]
CreateJob(t, info) == [do |-> "create", thread |-> t, info |-> info]
CloseJob(n, op) == [do |-> op, name |-> n]
Operations == {"sender", "receiver", "durable", "detach"}

CreateJobs == [do : {"create"}, thread : Threads, info : LinkInfos]
Closes(i, n) == jobs[i].do # "create" /\ jobs[i].name = n
CloseJobs == [do : Operations \cup {"release"}, name : Names]
Places == {Idle, Clearing} \cup {Creating(i) : i \in LinkInfos} \cup {Attaching(n) : n \in Names}
              \cup [at : {"erased"}, name : Names, op : Operations]

TypeOK ==
    /\ up \in BOOLEAN /\ opens \in 1 .. MaxOpens
    /\ table \subseteq DOMAIN links /\ live \subseteq DOMAIN links /\ names \subseteq DOMAIN links
    /\ attached \cup awaited \subseteq {n \in DOMAIN links : links[n].info.kind # "sender"}
    /\ registry \in Seq(LinkInfos) /\ Len(registry) <= MaxEntries
    /\ DOMAIN links \subseteq Names
    /\ \A n \in DOMAIN links : links[n] \in [info : LinkInfos, open : 1 .. opens]
    /\ made \in 0 .. MaxLinks
    /\ jobs \in Seq(CreateJobs \cup CloseJobs)
    /\ pc \in [Threads -> Places]
    /\ cache \in [Cached -> [Addresses -> 1 .. MaxLinks \cup {None}]]
    /\ returned \subseteq Names
    /\ closed \subseteq Names
    /\ astray \subseteq Addresses \cup Subscriptions

Init ==
    /\ up = TRUE /\ opens = 1
    /\ table = {} /\ names = {} /\ attached = {} /\ live = {} /\ awaited = {}
    /\ registry = <<>>
    /\ links = <<>> /\ made = 0
    /\ jobs = <<>>
    /\ pc = [t \in Threads |-> Idle]
    /\ cache = [k \in Cached |-> [a \in Addresses |-> None]]
    /\ returned = {} /\ closed = {} /\ astray = {}

Goto(t, where) == pc' = [pc EXCEPT ![t] = where]

\* the creations that are queued
Queued == Cardinality({i \in DOMAIN jobs : jobs[i].do = "create"})

-----------------------------------------------------------------------------
(* The event thread                                                        *)

\* the work of createSender(), createReceiver() and createDurableReceiver()
RunCreate ==
    /\ up /\ jobs # <<>> /\ Head(jobs).do = "create"
    /\ LET info == Head(jobs).info
           t == Head(jobs).thread
           durable == info.kind = "durable"
           n == IF durable THEN info.sub ELSE made + 1
       IN  /\ made' = IF durable THEN made ELSE made + 1
           /\ links' = [m \in DOMAIN links \cup {n} |-> IF m = n THEN [info |-> info, open |-> opens] ELSE links[m]]
           /\ table' = table \cup {n} /\ names' = names \cup {n} /\ live' = live \cup {n}
           /\ awaited' = IF info.kind = "sender" THEN awaited ELSE awaited \cup {n}
           /\ registry' = Append(registry, info)
           /\ closed' = closed \ {n}
           /\ Goto(t, Attaching(n))
    /\ jobs' = Tail(jobs)
    /\ UNCHANGED <<conn, attached, cache, returned, astray>>

\* on_receiver_open(): the broker answers an attach; the link may be closed by then, as the answer and our
\* detach can cross. Two attaches of a subscription that are both without an answer have one.
OnReceiverOpen(n) ==
    /\ n \in awaited
    /\ awaited' = awaited \ {n}
    /\ attached' = attached \cup {n}
    /\ UNCHANGED <<conn, table, names, registry, live, links, made, jobs, pc, cache, history>>

\* the mutant takes every receiver that is released for a plain one
EntriesOfPlain(n, op) ==
    LET info == links[n].info
        kind == IF op = "release" THEN IF info.kind = "sender" THEN "sender" ELSE "receiver" ELSE op
        Own(e) == IF op = "detach"
                  THEN e.sub = n
                  ELSE e.kind = kind /\ e.addr = info.addr /\ (kind = "durable" => e.sub = n)
    IN  {i \in DOMAIN registry : Own(registry[i])}

\* the entries of the registry that a close of n takes for its own; a release and unsubscribeDurable()
\* have their own way to tell
Entries(n, op) ==
    LET info == links[n].info
        kind == IF op = "release" THEN info.kind ELSE op
        Own(e) == IF op = "detach"
                  THEN e.sub = n
                  ELSE e.kind = kind /\ e.addr = info.addr /\ (kind = "durable" => e.sub = n)
    IN  {i \in DOMAIN registry : Own(registry[i])}

\* the last of them, or the first for unsubscribeDurable()
Erase(entries, op) ==
    \/ entries = {} /\ UNCHANGED registry
    \/ \E i \in entries : /\ \A j \in entries : IF op = "detach" THEN i <= j ELSE j <= i
                          /\ registry' = RemoveAt(registry, i)

\* closeSenderLink(), closeReceiverLink() and the first job of unsubscribeDurable(). The target of a sender
\* may have no address before the broker has answered; a release brings the address along.
CloseLink(n, op) ==
    /\ names' = IF op = "detach" THEN names ELSE names \ {n}
    /\ attached' = IF op = "detach" THEN attached ELSE attached \ {n}
    /\ IF n \in table
       THEN /\ table' = table \ {n}
            /\ live' = live \ {n}
            /\ \/ /\ Erase(Entries(n, op), op)
                  /\ astray' = IF n \in live /\ op \in {links[n].info.kind, "release", "detach"}
                               THEN astray ELSE astray \cup Where(links[n].info)
               \/ /\ op = "sender"
                  /\ UNCHANGED registry
                  /\ astray' = astray \cup Where(links[n].info)
       ELSE UNCHANGED <<table, live, registry, astray>>

RunClose ==
    /\ up /\ jobs # <<>> /\ Head(jobs).do # "create"
    /\ CloseLink(Head(jobs).name, Head(jobs).do)
    /\ jobs' = Tail(jobs)
    /\ UNCHANGED <<conn, awaited, links, made, pc, cache, returned, closed>>

\* the connection is lost: the jobs are dropped, or run once Proton has connected again
Lose ==
    /\ up
    /\ up' = FALSE
    /\ live' = {} /\ awaited' = {}
    /\ jobs' \in {jobs, <<>>}
    /\ closed' = {}
    /\ UNCHANGED <<opens, table, names, attached, registry, links, made, pc, cache, returned, astray>>

\* the mutant registers the links that it creates again
ReopenRegistering ==
    /\ ~up /\ opens < MaxOpens
    /\ up' = TRUE /\ opens' = opens + 1
    /\ registry' = IF Recover THEN registry \o registry ELSE registry
    /\ UNCHANGED <<table, names, attached, live, awaited, links, made, jobs, pc, cache, history>>

\* on_connection_open() after a reconnection: a link for each entry of the registry, with a name that
\* Proton makes; a durable receiver keeps its name, and the last entry of a name is the one that stays
Plain == {i \in DOMAIN registry : registry[i].kind # "durable"}
NewName(i) == IF i \in Plain THEN made + Cardinality({j \in Plain : j <= i}) ELSE registry[i].sub
Again == {NewName(i) : i \in DOMAIN registry}
Recovered(n) == registry[Max({i \in DOMAIN registry : NewName(i) = n})]

Reopen ==
    /\ ~up /\ opens < MaxOpens
    /\ up' = TRUE /\ opens' = opens + 1
    /\ IF Recover
       THEN /\ made + Cardinality(Plain) + Queued <= MaxLinks
            /\ made' = made + Cardinality(Plain)
            /\ links' = [n \in DOMAIN links \cup Again |->
                            IF n \in Again THEN [info |-> Recovered(n), open |-> opens + 1] ELSE links[n]]
            /\ table' = table \cup Again /\ names' = names \cup Again /\ live' = Again
            /\ awaited' = {n \in Again : Recovered(n).kind # "sender"}
       ELSE UNCHANGED <<made, links, table, names, live, awaited>>
    /\ UNCHANGED <<attached, registry, jobs, pc, cache, history>>

-----------------------------------------------------------------------------
(* The threads of the application                                          *)

\* the bounds leave room for one more link
Room(info) ==
    /\ Len(registry) + Queued < MaxEntries
    /\ info.kind # "durable" => made + Queued < MaxLinks

\* createSender() and createReceiver(), by a client that has no link for the address yet, and
\* createDurableReceiver(), for a subscription that is not open
Create(t, info) ==
    /\ pc[t] = Idle /\ up
    /\ Room(info) /\ Uses(t, info.kind)
    /\ IF info.kind = "durable"
       THEN info.sub \notin live
       ELSE cache[info.kind][info.addr] = None
    /\ jobs' = Append(jobs, CreateJob(t, info))
    /\ returned' = returned \ {info.sub}
    /\ Goto(t, Creating(info))
    /\ UNCHANGED <<conn, tables, cache, closed, astray>>

\* the mutant does not wait for the broker
CreatedAtOnce(t, n) ==
    /\ pc[t] = Attaching(n)
    /\ LET info == links[n].info IN
       cache' = IF info.kind \in Cached THEN [cache EXCEPT ![info.kind][info.addr] = n] ELSE cache
    /\ returned' = returned \cup {n}
    /\ Goto(t, Idle)
    /\ UNCHANGED <<conn, tables, jobs, closed, astray>>

\* the call returns the name, a receiver's when it is attached; the client stores it
Created(t, n) ==
    /\ pc[t] = Attaching(n)
    /\ LET info == links[n].info IN
       /\ info.kind # "sender" => n \in attached
       /\ cache' = IF info.kind \in Cached THEN [cache EXCEPT ![info.kind][info.addr] = n] ELSE cache
    /\ returned' = returned \cup {n}
    /\ Goto(t, Idle)
    /\ UNCHANGED <<conn, tables, jobs, closed, astray>>

\* the call times out or is cancelled: its job is not run any more, or its link is released
Withdraw(job) ==
    \/ \E i \in DOMAIN jobs : jobs[i] = job /\ jobs' = RemoveAt(jobs, i)
    \/ (\A i \in DOMAIN jobs : jobs[i] # job) /\ UNCHANGED jobs

GiveUp(t) ==
    /\ \/ pc[t].at = "creating" /\ Withdraw(CreateJob(t, pc[t].info))
       \/ /\ pc[t].at = "attaching"
          /\ jobs' = IF up THEN Append(jobs, CloseJob(pc[t].name, "release")) ELSE jobs
    /\ Goto(t, Idle)
    /\ UNCHANGED <<conn, tables, cache, history>>

\* closeSender(), closeReceiver(), closeDurableReceiver() and unsubscribeDurable() erase the name,
\* or fail ...
EraseName(t, n, op) ==
    /\ names' = IF up THEN names \ {n} ELSE names
    /\ attached' = IF up /\ (n \in names \/ op = "detach") THEN attached \ {n} ELSE attached
    /\ returned' = IF up THEN returned \ {n} ELSE returned
    /\ Goto(t, IF up /\ n \in names THEN Erased(n, op) ELSE Idle)
    /\ UNCHANGED <<conn, table, registry, live, awaited, links, made, jobs, closed, astray>>

\* closeSender() and closeReceiver() of the client: the name leaves the cache first
ClientClose(t, k, a) ==
    /\ pc[t] = Idle
    /\ Uses(t, k) /\ cache[k][a] # None
    /\ cache' = [cache EXCEPT ![k][a] = None]
    /\ EraseName(t, cache[k][a], k)

\* close() of a producer or consumer of the client, which has the link of the client
WrapperClose(t, k, a) ==
    /\ pc[t] = Idle
    /\ Uses(t, k) /\ cache[k][a] # None
    /\ EraseName(t, cache[k][a], k)
    /\ UNCHANGED cache

\* close(), closeDurable() and unsubscribe() of a durable consumer
DurableClose(t, s, op) ==
    /\ pc[t] = Idle
    /\ Uses(t, "durable") /\ s \in returned
    /\ op \in {"receiver", "durable", "detach"}
    /\ EraseName(t, s, op)
    /\ UNCHANGED cache

\* ... and have the link closed on the event thread
ScheduleClose(t, n, op) ==
    /\ pc[t] = Erased(n, op)
    /\ IF up
       THEN jobs' = Append(jobs, CloseJob(n, op)) /\ closed' = closed \cup {n}
       ELSE UNCHANGED <<jobs, closed>>
    /\ Goto(t, Idle)
    /\ UNCHANGED <<conn, tables, cache, returned, astray>>

\* close() of the connection: the tables are cleared, the registry is kept
Close(t) ==
    /\ pc[t] = Idle /\ up
    /\ up' = FALSE
    /\ table' = {} /\ names' = {} /\ attached' = {} /\ live' = {} /\ awaited' = {}
    /\ jobs' = <<>>
    /\ returned' = {} /\ closed' = {}
    /\ Goto(t, Clearing)
    /\ UNCHANGED <<opens, registry, links, made, cache, astray>>

\* close() of the client clears the caches
ClearCache(t) ==
    /\ pc[t] = Clearing
    /\ cache' = [k \in Cached |-> [a \in Addresses |-> None]]
    /\ Goto(t, Idle)
    /\ UNCHANGED <<conn, tables, jobs, history>>

-----------------------------------------------------------------------------
EventThread == RunCreate \/ RunClose \/ Lose \/ Reopen \/ \E n \in awaited : OnReceiverOpen(n)

Thread(t) ==
    \/ \E info \in LinkInfos : Create(t, info)
    \/ GiveUp(t) \/ Close(t) \/ ClearCache(t)
    \/ \E n \in Names : Created(t, n)
    \/ \E k \in Cached, a \in Addresses : ClientClose(t, k, a) \/ WrapperClose(t, k, a)
    \/ \E s \in Subscriptions, op \in Operations : DurableClose(t, s, op)
    \/ \E n \in Names, op \in Operations : ScheduleClose(t, n, op)

Next == EventThread \/ \E t \in Threads : Thread(t)

Spec == Init /\ [][Next]_vars

-----------------------------------------------------------------------------
(* Properties                                                              *)

\* how many entries the registry has for a link, and how many such links are open
Registered(info) == Cardinality({i \in DOMAIN registry : registry[i] = info})
Open(info) == Cardinality({n \in live : links[n].info = info})

(***************************************************************************)
(* "the registry entry of this sender: one for each sender": a link that   *)
(* is open is what a reconnection creates again, and a link that is closed *)
(* or released is not, whichever of several links of an address goes, and  *)
(* in whatever order. Not said of an address where a close went astray:    *)
(* closeReceiver() of a durable receiver, a close of a link of an earlier  *)
(* connection, and a close of a sender before the broker has answered.     *)
(***************************************************************************)
RegistryIsOpenLinks ==
    up /\ Recover => \A info \in LinkInfos : Place(info) \notin astray => Registered(info) = Open(info)

(***************************************************************************)
(* What a call said of a link stays true. A name that was returned can be  *)
(* used, as long as nobody closes it and its connection lasts: a call that *)
(* gives up, or closes another link, does not take it away. And a close    *)
(* that succeeded is carried out: when its job has run, the link is closed *)
(* and nothing of it is left, whatever was created, attached or recovered  *)
(* meanwhile. Only the name of a subscription comes back, with the links   *)
(* of a reconnection.                                                      *)
(***************************************************************************)
NamesHold ==
    /\ \A n \in returned :
         up /\ links[n].open = opens =>
             /\ n \in names /\ n \in table /\ n \in live
             /\ links[n].info.kind # "sender" => n \in attached
    /\ \A n \in closed :
         \/ \E i \in DOMAIN jobs : Closes(i, n)
         \/ /\ n \notin live \cup table
            /\ n \in names \cup attached => n \in Subscriptions

(***************************************************************************)
(* "Creates a sender link on first use for each address (cached for        *)
(* reuse)": a name that the client has cached on this connection can be    *)
(* used.                                                                   *)
(***************************************************************************)
CachedIsOpen ==
    \A k \in Cached, a \in Addresses :
        LET n == cache[k][a] IN
        n # None /\ up /\ links[n].open = opens => n \in names
=============================================================================
