---------------------------- MODULE RequestReply ----------------------------
(***************************************************************************)
(* AmqpRequestReply: helpers that send a request with a message ID and a   *)
(* reply address, and wait for the reply with that correlation ID.         *)
(*                                                                         *)
(* The reply address has the number of the thread that made the helper     *)
(* (Home), and a message ID the number of the thread that asks and the     *)
(* counter of the helper. Helpers that are made in the same thread share   *)
(* their address; threads may share a helper. close() of a helper does     *)
(* nothing, so a helper that was closed is one that nobody uses any more.  *)
(*                                                                         *)
(* Replies come at any time or never. The broker gives a reply to one of   *)
(* the receivers of its address (anycast) or to all (multicast).           *)
(***************************************************************************)
EXTENDS Naturals, Sequences

CONSTANTS Helpers, Threads,
          Home,        \* the thread that makes each helper
          MaxRequests  \* bound: the requests

ASSUME RequestReplyAssumption ==
    /\ Home \in [Helpers -> Threads]
    /\ MaxRequests \in Nat

VARIABLES
    made,       \* the helpers whose constructor has run
    counter,    \* m_counter
    call,       \* what each thread is doing
    unanswered, \* the requests that the server has not replied to
    inbox,      \* the replies at the receiver of each helper
    requests,   \* the number of requests so far, which tells them apart
    users       \* the threads that have asked with each helper

RRvars == <<made, counter, call, unanswered, inbox, requests, users>>

Idle == [at |-> "idle"]
Request == [id : Threads \X (1 .. MaxRequests), helper : Helpers, number : 1 .. MaxRequests]

Waiting(t) == call[t].at = "waiting"

RRTypeOK ==
    /\ made \subseteq Helpers
    /\ counter \in [Helpers -> 0 .. MaxRequests]
    /\ requests \in 0 .. MaxRequests
    /\ unanswered \subseteq Request
    /\ inbox \in [Helpers -> Seq(Request)]
    /\ users \in [Helpers -> SUBSET Threads]
    /\ \A t \in Threads :
         \/ call[t] = Idle
         \/ call[t] \in [at : {"waiting"}, request : Request]
         \/ call[t] \in [at : {"done"}, request : Request, reply : Request]

RRInit ==
    /\ made = {}
    /\ counter = [h \in Helpers |-> 0]
    /\ call = [t \in Threads |-> Idle]
    /\ unanswered = {}
    /\ inbox = [h \in Helpers |-> <<>>]
    /\ requests = 0
    /\ users = [h \in Helpers |-> {}]

\* the constructor: a sender, and a receiver on the reply address
MakeHelper(h) ==
    /\ h \notin made
    /\ made' = made \cup {h}
    /\ UNCHANGED <<counter, call, unanswered, inbox, requests, users>>

\* a mutant that increments the counter too late
SendFromZero(t, h) ==
    LET request == [id |-> <<t, counter[h]>>, helper |-> h, number |-> requests + 1]
    IN /\ call' = [call EXCEPT ![t] = [at |-> "waiting", request |-> request]]
       /\ unanswered' = unanswered \cup {request}
       /\ counter' = [counter EXCEPT ![h] = @ + 1]

\* a mutant that does not count
SendUncounted(t, h) ==
    LET request == [id |-> <<t, counter[h] + 1>>, helper |-> h, number |-> requests + 1]
    IN /\ call' = [call EXCEPT ![t] = [at |-> "waiting", request |-> request]]
       /\ unanswered' = unanswered \cup {request}
       /\ UNCHANGED counter

\* request() up to its wait
Send(t, h) ==
    LET request == [id |-> <<t, counter[h] + 1>>, helper |-> h, number |-> requests + 1]
    IN /\ call' = [call EXCEPT ![t] = [at |-> "waiting", request |-> request]]
       /\ unanswered' = unanswered \cup {request}
       /\ counter' = [counter EXCEPT ![h] = @ + 1]

Ask(t, h) ==
    /\ call[t] = Idle /\ h \in made /\ requests < MaxRequests
    /\ Send(t, h)
    /\ requests' = requests + 1
    /\ users' = [users EXCEPT ![h] = @ \cup {t}]
    /\ UNCHANGED <<made, inbox>>

\* the server replies, and the broker delivers to some receivers of the address
ReceiversOf(h) == {g \in made : Home[g] = Home[h]}
ServerReplies(request) ==
    /\ unanswered' = unanswered \ {request}
    /\ \E to \in {{g} : g \in ReceiversOf(request.helper)} \cup {ReceiversOf(request.helper)} :
         inbox' = [g \in Helpers |-> IF g \in to THEN Append(inbox[g], request) ELSE inbox[g]]
    /\ UNCHANGED <<made, counter, call, requests, users>>

\* receive() in the loop of request(): a reply to another request is discarded
TakeReply(t) ==
    /\ Waiting(t)
    /\ LET h == call[t].request.helper
       IN /\ inbox[h] # <<>>
          /\ inbox' = [inbox EXCEPT ![h] = Tail(@)]
          /\ call' = IF Head(inbox[h]).id = call[t].request.id
                     THEN [call EXCEPT ![t] = [at |-> "done", request |-> @.request, reply |-> Head(inbox[h])]]
                     ELSE call
    /\ UNCHANGED <<made, counter, unanswered, requests, users>>

\* AMQP-REQUEST-REPLY-TIMEOUT, or an error of receive()
TimeOut(t) ==
    /\ Waiting(t)
    /\ call' = [call EXCEPT ![t] = Idle]
    /\ UNCHANGED <<made, counter, unanswered, inbox, requests, users>>

\* request() returns the reply
Return(t) ==
    /\ call[t].at = "done"
    /\ call' = [call EXCEPT ![t] = Idle]
    /\ UNCHANGED <<made, counter, unanswered, inbox, requests, users>>

RRNext ==
    \/ \E h \in Helpers : MakeHelper(h)
    \/ \E t \in Threads, h \in Helpers : Ask(t, h)
    \/ \E request \in unanswered : ServerReplies(request)
    \/ \E t \in Threads : TakeReply(t) \/ TimeOut(t) \/ Return(t)

RRSpec == RRInit /\ [][RRNext]_RRvars

-----------------------------------------------------------------------------
(* Properties                                                              *)

SameAddress(g, h) == g # h /\ Home[g] = Home[h]

(***************************************************************************)
(* "waits for correlated responses": request() returns the reply to its    *)
(* own request, however late other replies are and whichever threads share *)
(* the helper. Only helpers that are made in one thread can take a reply   *)
(* for another: their addresses are the same and their counters both start *)
(* at zero. And a reply that has come is not lost for the thread that      *)
(* waits for it: only such a helper may get it instead, or another thread  *)
(* that uses the same helper, and discards it.                             *)
(***************************************************************************)
OwnReply ==
    /\ \A t \in Threads : call[t].at = "done" =>
         \/ call[t].reply = call[t].request
         \/ SameAddress(call[t].reply.helper, call[t].request.helper)
    /\ \A t \in Threads : Waiting(t) =>
         LET request == call[t].request
         IN \/ request \in unanswered
            \/ \E i \in DOMAIN inbox[request.helper] : inbox[request.helper][i] = request
            \/ \E g \in made : SameAddress(g, request.helper)
            \/ users[request.helper] # {t}
=============================================================================
