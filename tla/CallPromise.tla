----------------------------- MODULE CallPromise -----------------------------
(***************************************************************************)
(* What a call that creates a link promises, without the work queue: it    *)
(* ends; when it succeeds, what it created stays until the connection goes *)
(* away; when it fails, whatever it created, even later, is taken back.    *)
(***************************************************************************)
CONSTANT Calls

VARIABLES outcome,   \* of each call
          resource,  \* what each call created
          up         \* the connection exists

vars == <<outcome, resource, up>>

Init ==
    /\ outcome = [c \in Calls |-> "pending"]
    /\ resource = [c \in Calls |-> "none"]
    /\ up = TRUE

\* work that was already running when its call gave up can still create
Create(c) ==
    /\ up
    /\ resource[c] = "none" /\ outcome[c] # "ok"
    /\ resource' = [resource EXCEPT ![c] = "open"]
    /\ UNCHANGED <<outcome, up>>

\* a call can succeed with nothing of its own: a coordinator used again
Succeed(c) ==
    /\ outcome[c] = "pending"
    /\ outcome' = [outcome EXCEPT ![c] = "ok"]
    /\ UNCHANGED <<resource, up>>

Fail(c) ==
    /\ outcome[c] = "pending"
    /\ outcome' = [outcome EXCEPT ![c] = "failed"]
    /\ UNCHANGED <<resource, up>>

TakeBack(c) ==
    /\ outcome[c] = "failed" /\ resource[c] = "open"
    /\ resource' = [resource EXCEPT ![c] = "gone"]
    /\ UNCHANGED <<outcome, up>>

GoDown ==
    /\ up
    /\ up' = FALSE
    /\ resource' = [c \in Calls |-> IF resource[c] = "open" THEN "gone" ELSE resource[c]]
    /\ UNCHANGED outcome

Next == \/ \E c \in Calls : Create(c) \/ Succeed(c) \/ Fail(c) \/ TakeBack(c)
        \/ GoDown

Spec == Init /\ [][Next]_vars

\* what a failed call created does not stay
TakenBack == \A c \in Calls : (outcome[c] = "failed" /\ resource[c] = "open") ~> resource[c] = "gone"
=============================================================================
