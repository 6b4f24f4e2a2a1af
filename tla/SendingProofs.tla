--------------------------- MODULE SendingProofs ---------------------------
(***************************************************************************)
(* The invariants of Sending, proved for any calls, messages and number of *)
(* connections.                                                            *)
(*                                                                         *)
(* The work of a call runs once: its job is in the queue, or the event     *)
(* thread is at it, or it is done, or it was dropped with a connection     *)
(* (Working). Only work makes results, and says so by a release, which the *)
(* work or the thread of the call carries out (Accounted). What the broker *)
(* said of a delivery is final, since work sends a message once; so what   *)
(* was stored, found and reported of it is what the broker said (Truth).   *)
(***************************************************************************)
EXTENDS Sending, FiniteSetTheorems, TLAPS

-----------------------------------------------------------------------------
(* The inductive invariant                                                 *)

Unique(c) == \A i, j \in DOMAIN jobs : jobs[i] = Job("work", c) /\ jobs[j] = Job("work", c) => i = j

\* The work of a call is at one place.
Once(c) ==
    /\ Unique(c)
    /\ Queued("work", c) \/ pc[c] = "idle" => ~AtWork(c) /\ c \notin done \cup release \cup error
    /\ Queued("work", c) \/ AtWork(c) => pc[c] = "working" \/ (pc[c] = "failed" /\ c \in abandoned)
    /\ AtWork(c) => c \notin done
    /\ pc[c] \in {"gaveUp", "confirm", "conclude", "ok"} => c \in done
    /\ pc[c] \in {"idle", "working"} => c \notin abandoned
    /\ c \in release => c \in done \/ AtWork(c)

\* The messages that work has still to send have not been sent; a send() has one.
Left(c) ==
    AtWork(c) =>
        /\ \A i \in DOMAIN evt.left : evt.left[i] \in Own(c) /\ wire[evt.left[i]] = "unsent"
        /\ \A i, j \in DOMAIN evt.left : evt.left[i] = evt.left[j] => i = j
        /\ c \notin Batches /\ evt.left # <<>> => Len(evt.left) = 1 /\ c \notin release \cup error

Working == \A c \in Calls : Once(c) /\ Left(c)

\* A result is there by work that can be released, and somebody will.
Account(c) ==
    /\ \A m \in Own(c) : results[m] # None \/ wire[m] # "unsent" => c \in release
    /\ c \in error \cap release => c \in Batches
    /\ pc[c] \in {"conclude", "ok"} => \A m \in Own(c) : results[m] = None
    /\ pc[c] = "failed" =>
         \A m \in Own(c) : results[m] # None => Queued("release", c) \/ AtWork(c) \/ c \in leaked

Accounted == \A c \in Calls : Account(c)

\* Who sleeps waits for an answer, on a connection that is there.
Sleepers ==
    /\ connected => up
    /\ \A c \in asleep : /\ pc[c] = "confirm" /\ c \notin transacted
                         /\ \E m \in Own(c) : ~Answered(m)
                         /\ c \in Batches \/ up \/ evt = Lost

\* What a call has of an answer.
Found(c) ==
    /\ c \notin Batches => /\ got[c] \in Answers => Said(Head(MessagesOf[c]), got[c])
                           /\ pc[c] = "conclude" /\ got[c] = None => ~connected \/ opens > 1
                           /\ \A m \in Own(c) : reported[m] = "rejected" =>
                                /\ pc[c] \in {"ok", "failed"}
                                /\ Said(m, "rejected") \/ (got[c] = None /\ opens > 1)
    /\ c \in Batches \ transacted => \A m \in Own(c) : reported[m] = "accepted" => Said(m, "accepted")
    /\ pc[c] = "idle" => \A m \in Own(c) : reported[m] = None
    /\ pc[c] = "conclude" => c \notin Batches

Truth ==
    /\ \A m \in Messages : wire[m] # "unsent" => under[m] \in Messages
    /\ \A m \in Messages : Answered(m) => Said(m, results[m])
    /\ \A c \in Calls : Found(c)

IInv ==
    /\ TypeOK
    /\ Working
    /\ Accounted
    /\ Sleepers
    /\ Truth

-----------------------------------------------------------------------------
(* Messages, jobs and calls                                                *)

\* A message belongs to one call; a send() has one.
LEMMA OwnFacts ==
    /\ \A c \in Calls : Own(c) \subseteq Messages
    /\ \A c, d \in Calls : \A m \in Own(c) : m \in Own(d) => c = d
    /\ \A c \in Calls \ Batches : /\ Head(MessagesOf[c]) \in Own(c) /\ Head(MessagesOf[c]) \in Messages
                                  /\ \A m \in Own(c) : m = Head(MessagesOf[c])
  <1>1. \A c \in Calls : Own(c) \subseteq Messages
    BY SendingAssumption DEF Own
  <1>2. \A c, d \in Calls : \A m \in Own(c) : m \in Own(d) => c = d
    BY SendingAssumption DEF Own
  <1>3. ASSUME NEW c \in Calls \ Batches
        PROVE  /\ Head(MessagesOf[c]) \in Own(c) /\ \A m \in Own(c) : m = Head(MessagesOf[c])
    <2>1. MessagesOf[c] \in Seq(Messages) /\ Len(MessagesOf[c]) = 1
      BY SendingAssumption
    <2>2. DOMAIN MessagesOf[c] = {1} /\ Head(MessagesOf[c]) = MessagesOf[c][1]
      BY <2>1
    <2>3. QED
      BY <2>2 DEF Own
  <1>4. QED
    BY <1>1, <1>2, <1>3

\* The messages of a call are finite in number.
LEMMA OwnFinite == ASSUME NEW c \in Calls PROVE IsFiniteSet(Own(c))
  <1>1. MessagesOf[c] \in Seq(Messages)
    BY SendingAssumption
  <1>2. DOMAIN MessagesOf[c] = 1 .. Len(MessagesOf[c]) /\ Len(MessagesOf[c]) \in Nat
    BY <1>1
  <1>3. IsFiniteSet(1 .. Len(MessagesOf[c]))
    BY <1>2, FS_Interval
  <1>4. MessagesOf[c] \in Surjection(DOMAIN MessagesOf[c], Own(c))
    BY <1>1, <1>2 DEF Own, Surjection
  <1>5. QED
    BY <1>2, <1>3, <1>4, FS_Surjection

\* The steps of the event thread, told apart.
LEMMA EvtFacts ==
    /\ Idle \in Evts /\ Lost \in Evts /\ Lost # Idle
    /\ Idle.at # "work" /\ Lost.at # "work"
    /\ \A c \in Calls, left \in Seq(Messages) :
         /\ InWork(c, left) \in Evts /\ InWork(c, left) # Idle /\ InWork(c, left) # Lost
         /\ InWork(c, left).at = "work" /\ InWork(c, left).call = c /\ InWork(c, left).left = left
    /\ <<>> \in Seq(Messages)
  <1>1. Idle \in Evts /\ Lost \in Evts /\ Lost # Idle /\ Idle.at # "work" /\ Lost.at # "work"
    BY DEF Evts, Idle, Lost
  <1>2. \A c \in Calls, left \in Seq(Messages) :
          /\ InWork(c, left) \in Evts /\ InWork(c, left) # Idle /\ InWork(c, left) # Lost
          /\ InWork(c, left).at = "work" /\ InWork(c, left).call = c /\ InWork(c, left).left = left
    BY DEF Evts, Idle, Lost, InWork
  <1>3. QED
    BY <1>1, <1>2

\* Work in progress has a call and messages.
LEMMA WorkFacts ==
    ASSUME TypeOK, evt.at = "work"
    PROVE  evt.call \in Calls /\ evt.left \in Seq(Messages) /\ evt = InWork(evt.call, evt.left)
  <1>1. evt \in [at : {"work"}, call : Calls, left : Seq(Messages)]
    BY DEF TypeOK, Evts, Idle, Lost
  <1>2. QED
    BY <1>1 DEF InWork

\* Jobs, told apart.
LEMMA JobFacts ==
    \A k, l \in {"work", "release"}, c, d \in Calls :
        Job(k, c) \in Jobs /\ (Job(k, c) = Job(l, d) <=> k = l /\ c = d)
  BY DEF Job, Jobs

\* What is queued once the first job is gone.
LEMMA TailFacts ==
    ASSUME TypeOK, jobs # <<>>, jobs' = Tail(jobs)
    PROVE  /\ jobs' \in Seq(Jobs)
           /\ \A k \in {"work", "release"}, c \in Calls :
                /\ Queued(k, c)' => Queued(k, c)
                /\ Queued(k, c) /\ Head(jobs) # Job(k, c) => Queued(k, c)'
                /\ Head(jobs) = Job(k, c) => Queued(k, c)
           /\ \A c \in Calls : Unique(c) => Unique(c)' /\ (Head(jobs) = Job("work", c) => ~Queued("work", c)')
  <1>1. jobs \in Seq(Jobs)
    BY DEF TypeOK
  <1>2. /\ jobs' \in Seq(Jobs) /\ 1 \in DOMAIN jobs /\ Head(jobs) = jobs[1]
        /\ DOMAIN jobs = 1 .. Len(jobs) /\ Len(jobs) \in Nat /\ DOMAIN jobs' = 1 .. Len(jobs) - 1
        /\ \A i \in DOMAIN jobs' : i + 1 \in DOMAIN jobs /\ jobs'[i] = jobs[i + 1]
    BY <1>1
  <1>3. \A i \in DOMAIN jobs : i # 1 => i - 1 \in DOMAIN jobs' /\ jobs'[i - 1] = jobs[i]
    BY <1>2
  <1>4. ASSUME NEW k \in {"work", "release"}, NEW c \in Calls
        PROVE  /\ Queued(k, c)' => Queued(k, c)
               /\ Queued(k, c) /\ Head(jobs) # Job(k, c) => Queued(k, c)'
               /\ Head(jobs) = Job(k, c) => Queued(k, c)
    <2>1. Queued(k, c)' <=> \E i \in DOMAIN jobs' : jobs'[i] = Job(k, c)
      BY DEF Queued, Job
    <2>2. Queued(k, c)' => Queued(k, c)
      BY <1>2, <2>1 DEF Queued
    <2>3. Queued(k, c) /\ Head(jobs) # Job(k, c) => Queued(k, c)'
      BY <1>2, <1>3, <2>1 DEF Queued
    <2>4. Head(jobs) = Job(k, c) => Queued(k, c)
      BY <1>2 DEF Queued
    <2>5. QED
      BY <2>2, <2>3, <2>4
  <1>5. ASSUME NEW c \in Calls, Unique(c) PROVE Unique(c)' /\ (Head(jobs) = Job("work", c) => ~Queued("work", c)')
    <2>1. \A i \in DOMAIN jobs' : jobs'[i] = Job("work", c) => i + 1 \in DOMAIN jobs /\ jobs[i + 1] = Job("work", c)
      BY <1>2
    <2>2. \A i, j \in DOMAIN jobs' : i + 1 = j + 1 => i = j
      BY <1>2
    <2>3. \A i \in DOMAIN jobs' : i + 1 # 1
      BY <1>2
    <2>4. Unique(c)'
      BY <1>5, <2>1, <2>2 DEF Unique, Job
    <2>5. Head(jobs) = Job("work", c) => ~Queued("work", c)'
      BY <1>2, <1>5, <2>1, <2>3 DEF Unique, Queued, Job
    <2>6. QED
      BY <2>4, <2>5
  <1>6. QED
    BY <1>2, <1>4, <1>5

\* What is queued once a job is added.
LEMMA AppendFacts ==
    ASSUME TypeOK, NEW k \in {"work", "release"}, NEW c \in Calls, jobs' = Append(jobs, Job(k, c))
    PROVE  /\ jobs' \in Seq(Jobs)
           /\ \A l \in {"work", "release"}, d \in Calls : Queued(l, d)' <=> Queued(l, d) \/ (l = k /\ d = c)
           /\ \A d \in Calls : Unique(d) /\ (k # "work" \/ d # c \/ ~Queued("work", c)) => Unique(d)'
  <1>1. jobs \in Seq(Jobs) /\ Job(k, c) \in Jobs
    BY JobFacts DEF TypeOK
  <1>2. PICK n \in Nat : n = Len(jobs) + 1
    BY <1>1
  <1> DEFINE job == Job(k, c)
  <1>3. /\ jobs' \in Seq(Jobs) /\ DOMAIN jobs' = DOMAIN jobs \cup {n} /\ n \notin DOMAIN jobs /\ jobs'[n] = job
        /\ \A i \in DOMAIN jobs : jobs'[i] = jobs[i]
    <2>1. jobs' = Append(jobs, job) /\ job \in Jobs
      BY <1>1
    <2> HIDE DEF job
    <2>2. QED
      BY <1>1, <1>2, <2>1
  <1>4. \A l \in {"work", "release"}, d \in Calls : Queued(l, d)' <=> Queued(l, d) \/ Job(l, d) = Job(k, c)
    BY <1>3 DEF Queued, Job
  <1>5. ASSUME NEW d \in Calls, Unique(d), k # "work" \/ d # c \/ ~Queued("work", c) PROVE Unique(d)'
    <2>1. CASE k # "work" \/ d # c
      <3>1. job # Job("work", d)
        BY <2>1, JobFacts
      <3>2. \A i \in DOMAIN jobs' : jobs'[i] = Job("work", d) => i \in DOMAIN jobs /\ jobs[i] = Job("work", d)
        BY <1>3, <3>1
      <3>3. QED
        BY <1>5, <3>2 DEF Unique, Job
    <2>2. CASE d = c /\ ~Queued("work", c)
      <3>1. \A i \in DOMAIN jobs' : jobs'[i] = Job("work", d) => i = n
        BY <1>3, <2>2 DEF Queued
      <3>2. QED
        BY <3>1 DEF Unique, Job
    <2>3. QED
      BY <1>5, <2>1, <2>2
  <1>6. QED
    BY <1>3, <1>4, <1>5, JobFacts

\* Jobs that stay, or are dropped.
LEMMA DropFacts ==
    ASSUME TypeOK, jobs' \in {jobs, <<>>}
    PROVE  /\ jobs' \in Seq(Jobs)
           /\ \A k \in {"work", "release"}, c \in Calls : Queued(k, c)' => Queued(k, c)
           /\ \A c \in Calls : Unique(c) => Unique(c)'
           /\ jobs' = jobs => \A k \in {"work", "release"}, c \in Calls : Queued(k, c) => Queued(k, c)'
  <1>1. jobs' \in Seq(Jobs) /\ \A i \in DOMAIN jobs' : i \in DOMAIN jobs /\ jobs'[i] = jobs[i]
    <2>1. jobs \in Seq(Jobs) /\ <<>> \in Seq(Jobs)
      BY DEF TypeOK
    <2>2. CASE jobs' = jobs
      BY <2>1, <2>2
    <2>3. CASE jobs' = <<>>
      <3>1. DOMAIN jobs' = {}
        BY <2>3
      <3>2. QED
        BY <2>1, <2>3, <3>1
    <2>4. QED
      BY <2>2, <2>3
  <1>2. QED
    BY <1>1 DEF Queued, Unique, Job

\* A call that goes on is at a new place, and the others where they were.
LEMMA GotoFacts ==
    ASSUME TypeOK, NEW c \in Calls, NEW where \in Active \cup {"idle", "ok", "failed"}, Goto(c, where)
    PROVE  /\ pc' \in [Calls -> Active \cup {"idle", "ok", "failed"}]
           /\ pc'[c] = where
           /\ \A d \in Calls \ {c} : pc'[d] = pc[d]
  <1>1. pc \in [Calls -> Active \cup {"idle", "ok", "failed"}]
    BY DEF TypeOK
  <1>2. QED
    BY <1>1 DEF Goto

\* The results of a call are gone, and those of the others where they were.
LEMMA ForgetFacts ==
    ASSUME TypeOK, NEW c \in Calls, Forget(c)
    PROVE  /\ results' \in [Messages -> Answers \cup {None, "pending"}]
           /\ \A m \in Messages : results'[m] \in {results[m], None}
           /\ \A m \in Own(c) : results'[m] = None
           /\ \A d \in Calls \ {c} : \A m \in Own(d) : results'[m] = results[m]
  <1>1. /\ results' \in [Messages -> Answers \cup {None, "pending"}]
        /\ \A m \in Messages : results'[m] = IF m \in Own(c) THEN None ELSE results[m]
    BY DEF TypeOK, Forget
  <1>2. QED
    BY <1>1, OwnFacts

\* A call has forgotten its results, or left them.
LEMMA ForgetOrNot ==
    ASSUME TypeOK, NEW c \in Calls, Forget(c) \/ UNCHANGED results
    PROVE  /\ results' \in [Messages -> Answers \cup {None, "pending"}]
           /\ \A m \in Messages : results'[m] \in {results[m], None}
           /\ \A d \in Calls : \A m \in Own(d) : m \in Messages /\ results'[m] \in {results[m], None}
           /\ \A d \in Calls \ {c} : \A m \in Own(d) : results'[m] = results[m]
  BY ForgetFacts, OwnFacts DEF TypeOK

\* Whether something is known as none.
LEMMA NoneFacts == None \notin Answers /\ "pending" \notin Answers /\ "assumed" \notin Answers
  BY DEF None, Answers

\* What the broker said is final.
LEMMA SaidKept ==
    ASSUME \A m \in Messages : wire[m] \in Answers => wire'[m] = wire[m] /\ under'[m] = under[m]
    PROVE  \A m \in Messages, answer \in Answers : Said(m, answer) => Said(m, answer)'
  BY DEF Said

-----------------------------------------------------------------------------
(* What most steps leave as it is                                          *)

\* Steps that neither schedule nor do work leave it where it is, or drop it.
LEMMA WorkingKept ==
    ASSUME IInv, UNCHANGED <<done, abandoned, error, release>>,
           evt' = evt \/ (evt.at # "work" /\ evt'.at # "work"),
           \A c \in Calls : (Unique(c) => Unique(c)') /\ (Queued("work", c)' => Queued("work", c)),
           \A m \in Messages : wire[m] = "unsent" => wire'[m] = "unsent",
           \A c \in Calls : \/ pc'[c] = pc[c]
                            \/ c \in done /\ pc'[c] \in {"confirm", "conclude", "ok", "failed"}
    PROVE  Working'
  <1>1. SUFFICES ASSUME NEW c \in Calls PROVE Once(c)' /\ Left(c)'
    BY DEF Working
  <1>2. Once(c) /\ Left(c) /\ Own(c) \subseteq Messages
    BY OwnFacts DEF IInv, Working
  <1>3. /\ Unique(c) => Unique(c)'
        /\ Queued("work", c)' => Queued("work", c)
        /\ AtWork(c)' <=> AtWork(c)
        /\ AtWork(c) => evt' = evt
    BY DEF AtWork
  <1>4. Once(c)'
    BY <1>2, <1>3 DEF Once
  <1>5. Left(c)'
    BY <1>2, <1>3 DEF Left
  <1>6. QED
    BY <1>4, <1>5

\* Steps that make no results, and keep those who are to release them.
LEMMA AccountedKept ==
    ASSUME IInv, UNCHANGED <<error, release>>, leaked \subseteq leaked',
           \A m \in Messages : /\ results'[m] # None => results[m] # None
                               /\ wire'[m] # "unsent" => wire[m] # "unsent",
           \A c \in Calls : \A m \in Own(c) : results'[m] # None =>
               \/ pc'[c] \notin {"conclude", "ok", "failed"}
               \/ pc'[c] = pc[c] /\ (Queued("release", c) => Queued("release", c)') /\ (AtWork(c) => AtWork(c)')
               \/ pc'[c] = "failed" /\ (Queued("release", c)' \/ AtWork(c)' \/ c \in leaked')
    PROVE  Accounted'
  <1>1. SUFFICES ASSUME NEW c \in Calls PROVE Account(c)'
    BY DEF Accounted
  <1>2. Account(c) /\ Own(c) \subseteq Messages
    BY OwnFacts DEF IInv, Accounted
  <1>3. /\ \A m \in Own(c) : results'[m] # None \/ wire'[m] # "unsent" => c \in release'
        /\ c \in error' \cap release' => c \in Batches
    BY <1>2 DEF Account
  <1>4. pc'[c] \in {"conclude", "ok"} => \A m \in Own(c) : results'[m] = None
    BY <1>2 DEF Account
  <1>5. pc'[c] = "failed" =>
          \A m \in Own(c) : results'[m] # None => Queued("release", c)' \/ AtWork(c)' \/ c \in leaked'
    BY <1>2 DEF Account
  <1>6. Own(c)' = Own(c)
    BY DEF Own
  <1>7. QED
    BY <1>3, <1>4, <1>5, <1>6 DEF Account

\* A call learns and reports nothing.
LEMMA FoundKept ==
    ASSUME IInv, NEW c \in Calls,
           \A m \in Messages : wire[m] \in Answers => wire'[m] = wire[m] /\ under'[m] = under[m],
           got'[c] = got[c], \A m \in Own(c) : reported'[m] = reported[m],
           c \in transacted => c \in transacted',
           opens' = opens \/ opens' > 1, connected' => connected \/ opens' > 1,
           \/ pc'[c] = pc[c]
           \/ pc'[c] \in {"ok", "failed"}
           \/ pc[c] \notin {"ok", "failed"} /\ pc'[c] \notin {"conclude", "idle"}
    PROVE  Found(c)'
  <1>1. /\ \A m \in Messages, answer \in Answers : Said(m, answer) => Said(m, answer)'
        /\ "rejected" \in Answers /\ "accepted" \in Answers
    BY SaidKept DEF Answers
  <1>2. Found(c) /\ Own(c) \subseteq Messages /\ (c \notin Batches => Head(MessagesOf[c]) \in Messages)
    BY OwnFacts DEF IInv, Truth
  <1>3. Own(c)' = Own(c)
    BY DEF Own
  <1>4. c \notin Batches =>
          /\ got'[c] \in Answers => Said(Head(MessagesOf[c]), got[c])'
          /\ pc'[c] = "conclude" /\ got'[c] = None => ~connected' \/ opens' > 1
          /\ \A m \in Own(c) : reported'[m] = "rejected" =>
               /\ pc'[c] \in {"ok", "failed"}
               /\ Said(m, "rejected")' \/ (got'[c] = None /\ opens' > 1)
    BY <1>1, <1>2 DEF Found, Said
  <1>5. c \in Batches \ transacted' => \A m \in Own(c) : reported'[m] = "accepted" => Said(m, "accepted")'
    BY <1>1, <1>2 DEF Found
  <1>6. pc'[c] = "idle" => \A m \in Own(c) : reported'[m] = None
    BY <1>2 DEF Found
  <1>7. pc'[c] = "conclude" => c \notin Batches
    BY <1>2 DEF Found
  <1>8. QED
    BY <1>3, <1>4, <1>5, <1>6, <1>7 DEF Found, Said

\* Steps that store no answer keep the truth, if the calls do.
LEMMA TruthKept ==
    ASSUME IInv,
           \A m \in Messages : /\ wire[m] \in Answers => wire'[m] = wire[m] /\ under'[m] = under[m]
                               /\ wire'[m] # "unsent" => under'[m] \in Messages
                               /\ results'[m] \in Answers => results'[m] = results[m],
           \A c \in Calls : Found(c)'
    PROVE  Truth'
  <1>1. \A m \in Messages, answer \in Answers : Said(m, answer) => Said(m, answer)'
    BY SaidKept
  <1>2. ASSUME NEW m \in Messages, Answered(m)' PROVE Said(m, results[m])'
    <2>1. Answered(m) /\ results'[m] = results[m] /\ Said(m, results[m])
      BY <1>2 DEF Answered, IInv, Truth
    <2>2. QED
      BY <1>1, <2>1 DEF Answered, Said
  <1>3. QED
    BY <1>2 DEF Truth

\* Steps that answer nobody keep who sleeps, or wake them.
LEMMA SleepersKept ==
    ASSUME IInv, connected' => up', asleep' \subseteq asleep,
           \A c \in asleep' : pc'[c] = pc[c] /\ (c \in transacted' => c \in transacted),
           \A m \in Messages : results'[m] \in Answers => results[m] \in Answers,
           up => up' \/ evt' = Lost, evt = Lost => evt' = Lost \/ up' \/ asleep' = {}
    PROVE  Sleepers'
  <1>1. SUFFICES ASSUME NEW c \in asleep'
        PROVE  /\ pc'[c] = "confirm" /\ c \notin transacted'
               /\ \E m \in Own(c) : ~Answered(m)'
               /\ c \in Batches \/ up' \/ evt' = Lost
    BY DEF Sleepers, Own
  <1>2. /\ c \in Calls /\ Own(c) \subseteq Messages /\ pc[c] = "confirm" /\ c \notin transacted
        /\ \E m \in Own(c) : ~Answered(m)
        /\ c \in Batches \/ up \/ evt = Lost
    BY OwnFacts DEF IInv, TypeOK, Sleepers
  <1>3. \A m \in Own(c) : ~Answered(m) => ~Answered(m)'
    BY <1>2 DEF Answered
  <1>4. QED
    BY <1>2, <1>3

\* A queue that stays has what it had.
LEMMA SameJobs ==
    ASSUME UNCHANGED jobs
    PROVE  /\ \A k \in {"work", "release"}, c \in Calls : Queued(k, c)' <=> Queued(k, c)
           /\ \A c \in Calls : Unique(c)' <=> Unique(c)
  BY DEF Queued, Unique, Job

-----------------------------------------------------------------------------
(* The event thread                                                        *)

\* The event thread is now in the work of a call.
LEMMA InWorkFacts ==
    ASSUME NEW c \in Calls, NEW left \in Seq(Messages), evt' = InWork(c, left)
    PROVE  /\ evt' \in Evts /\ AtWork(c)' /\ evt'.at = "work" /\ evt'.left = left /\ evt' # Lost
           /\ \A d \in Calls \ {c} : ~AtWork(d)'
  BY EvtFacts DEF AtWork

\* Work starts with what it has to send, unless its call gave up.
LEMMA RunWorkInv == ASSUME IInv, NEW c \in Calls, RunWork(c) PROVE IInv'
  <1>1. /\ evt = Idle /\ jobs # <<>> /\ Head(jobs) = Job("work", c) /\ jobs' = Tail(jobs)
        /\ UNCHANGED <<connected, up, workQueue, opens, stale, leaked, ahead, under, wire, results, messagesSent, pc,
                       transacted, asleep, abandoned, release, got, reported>>
    BY DEF RunWork, conn, broker, counts, callers
  <1>2. /\ jobs' \in Seq(Jobs) /\ Queued("work", c) /\ ~Queued("work", c)'
        /\ \A d \in Calls \ {c} : Queued("work", d)' => Queued("work", d)
        /\ \A d \in Calls : (Unique(d) => Unique(d)') /\ (Queued("release", d) => Queued("release", d)')
    <2>1. \A d \in Calls : Job("work", c) # Job("release", d)
      BY JobFacts
    <2>2. Unique(c)
      BY DEF IInv, Working, Once
    <2>3. QED
      BY <1>1, <2>1, <2>2, TailFacts DEF IInv
  <1>3. /\ MessagesOf[c] \in Seq(Messages) /\ \A i \in DOMAIN MessagesOf[c] : MessagesOf[c][i] \in Own(c)
        /\ \A i, j \in DOMAIN MessagesOf[c] : MessagesOf[c][i] = MessagesOf[c][j] => i = j
        /\ c \notin Batches => Len(MessagesOf[c]) = 1
    BY SendingAssumption DEF Own
  <1>4. /\ Once(c) /\ Account(c) /\ c \notin done \cup release \cup error /\ ~AtWork(c)
        /\ c \notin abandoned => pc[c] = "working"
        /\ \A d \in Calls : ~AtWork(d)
    BY <1>1, <1>2, EvtFacts DEF IInv, Working, Accounted, Once, AtWork
  <1>5. \/ /\ c \in abandoned /\ done' = done \cup {c} /\ error' = error /\ evt' = Idle
           /\ \A d \in Calls : ~AtWork(d)'
        \/ /\ c \notin abandoned /\ done' = done /\ evt' \in Evts /\ AtWork(c)' /\ evt'.at = "work"
           /\ \A d \in Calls \ {c} : ~AtWork(d)'
           /\ \/ evt'.left = MessagesOf[c] /\ error' = error
              \/ evt'.left = <<>> /\ error' = error \cup {c}
    <2>1. CASE c \in abandoned /\ done' = done \cup {c} /\ UNCHANGED <<evt, error>>
      BY <1>1, <2>1, EvtFacts DEF AtWork
    <2>2. CASE c \notin abandoned /\ evt' = InWork(c, MessagesOf[c]) /\ UNCHANGED <<done, error>>
      BY <1>3, <2>2, InWorkFacts
    <2>3. CASE c \notin abandoned /\ evt' = InWork(c, <<>>) /\ error' = error \cup {c} /\ UNCHANGED done
      BY <2>3, EvtFacts, InWorkFacts
    <2>4. QED
      BY <2>1, <2>2, <2>3 DEF RunWork
  <1>6. TypeOK'
    BY <1>1, <1>2, <1>5, EvtFacts DEF IInv, TypeOK
  <1>7. Working'
    <2>1. ASSUME NEW d \in Calls PROVE Once(d)'
      <3>1. Once(d)
        BY DEF IInv, Working
      <3>2. CASE d = c
        BY <1>1, <1>2, <1>4, <1>5, <3>1, <3>2 DEF Once
      <3>3. CASE d # c
        BY <1>1, <1>2, <1>4, <1>5, <3>1, <3>3 DEF Once
      <3>4. QED
        BY <3>2, <3>3
    <2>2. ASSUME NEW d \in Calls, AtWork(d)' PROVE Left(d)'
      <3>1. d = c /\ \A m \in Own(c) : wire[m] = "unsent"
        BY <1>4, <1>5, <2>2 DEF Account
      <3>2. CASE evt'.left = MessagesOf[c] /\ error' = error
        BY <1>1, <1>3, <1>4, <3>1, <3>2 DEF Left, Own
      <3>3. CASE evt'.left = <<>>
        BY <3>1, <3>3 DEF Left
      <3>4. QED
        BY <1>5, <2>2, <3>1, <3>2, <3>3
    <2>3. QED
      BY <2>1, <2>2 DEF Working, Left
  <1>8. Accounted'
    <2>1. ASSUME NEW d \in Calls PROVE Account(d)'
      <3>1. Account(d)
        BY DEF IInv, Accounted
      <3>2. error' \cap release \subseteq error \cap release
        BY <1>4, <1>5
      <3>3. QED
        BY <1>1, <1>2, <1>4, <3>1, <3>2 DEF Account, Own
    <2>2. QED
      BY <1>1, <2>1 DEF IInv, Accounted
  <1>9. Sleepers'
    BY <1>1, EvtFacts DEF IInv, Sleepers, Own, Answered
  <1>10. Truth'
    <2>1. \A d \in Calls : Found(d)'
      BY <1>1, FoundKept
    <2>2. QED
      BY <1>1, <2>1, TruthKept DEF IInv, Truth
  <1>11. QED
    BY <1>6, <1>7, <1>8, <1>9, <1>10 DEF IInv

\* The message whose turn it is, and the deliveries of the link with the one that is made for it.
LEMMA MessageFacts ==
    ASSUME IInv, NEW c \in Calls, AtWork(c), evt.left # <<>>,
           NEW m, m = Head(evt.left), NEW line, line = Append(ahead, m)
    PROVE  /\ m \in Own(c) /\ m \in Messages /\ wire[m] = "unsent"
           /\ evt.left \in Seq(Messages) /\ Tail(evt.left) \in Seq(Messages)
           /\ DOMAIN Tail(evt.left) = 1 .. Len(evt.left) - 1 /\ Len(evt.left) \in Nat
           /\ \A i \in DOMAIN Tail(evt.left) : /\ i + 1 \in DOMAIN evt.left /\ Tail(evt.left)[i] = evt.left[i + 1]
                                               /\ Tail(evt.left)[i] # m
           /\ Head(line) \in Messages /\ line \in Seq(Messages) /\ Tail(line) \in Seq(Messages)
  <1>1. evt.left \in Seq(Messages) /\ Left(c)
    BY WorkFacts DEF IInv, AtWork, Working
  <1>2. /\ 1 \in DOMAIN evt.left /\ m = evt.left[1] /\ Len(evt.left) \in Nat
        /\ Tail(evt.left) \in Seq(Messages) /\ DOMAIN Tail(evt.left) = 1 .. Len(evt.left) - 1
        /\ \A i \in DOMAIN Tail(evt.left) : i + 1 \in DOMAIN evt.left /\ Tail(evt.left)[i] = evt.left[i + 1]
    BY <1>1
  <1>3. m \in Own(c) /\ m \in Messages /\ wire[m] = "unsent"
    BY <1>1, <1>2, OwnFacts DEF Left
  <1>4. \A i \in DOMAIN Tail(evt.left) : Tail(evt.left)[i] # m
    <2>1. \A i \in DOMAIN Tail(evt.left) : i + 1 # 1
      BY <1>2
    <2>2. QED
      BY <1>1, <1>2, <2>1 DEF Left
  <1>5. line \in Seq(Messages) /\ line # <<>>
    BY <1>3 DEF IInv, TypeOK
  <1>6. Head(line) \in Messages /\ Tail(line) \in Seq(Messages)
    BY <1>5
  <1>7. QED
    BY <1>1, <1>2, <1>3, <1>4, <1>5, <1>6

\* A message goes, or fails to encode, which ends the work.
LEMMA SendMessageInv == ASSUME IInv, NEW c \in Calls, SendMessage(c) PROVE IInv'
  <1>1. /\ AtWork(c) /\ evt.left # <<>>
        /\ UNCHANGED <<connected, up, workQueue, opens, stale, leaked, jobs, messagesSent, pc, transacted, asleep,
                       done, abandoned, got, reported>>
    BY DEF SendMessage, AtWork, conn, callers
  <1>2. PICK m, line : m = Head(evt.left) /\ line = Append(ahead, m) /\ (FailEncode(c, line) \/ Transfer(c, m, line))
    BY DEF SendMessage
  <1>3. /\ m \in Own(c) /\ m \in Messages /\ wire[m] = "unsent"
        /\ evt.left \in Seq(Messages) /\ Tail(evt.left) \in Seq(Messages)
        /\ DOMAIN Tail(evt.left) = 1 .. Len(evt.left) - 1 /\ Len(evt.left) \in Nat
        /\ \A i \in DOMAIN Tail(evt.left) : /\ i + 1 \in DOMAIN evt.left /\ Tail(evt.left)[i] = evt.left[i + 1]
                                            /\ Tail(evt.left)[i] # m
        /\ Head(line) \in Messages /\ line \in Seq(Messages) /\ Tail(line) \in Seq(Messages)
    <2> HIDE DEF IInv
    <2>1. m = Head(evt.left) /\ line = Append(ahead, m)
      BY <1>2
    <2>2. QED
      BY <1>1, <2>1, MessageFacts
  <1>4. /\ Once(c) /\ Left(c) /\ Account(c) /\ c \notin done /\ ~Queued("work", c)
        /\ pc[c] = "working" \/ (pc[c] = "failed" /\ c \in abandoned)
        /\ c \notin Batches => Len(evt.left) = 1 /\ c \notin release \cup error
        /\ \A d \in Calls \ {c} : ~AtWork(d)
    BY <1>1 DEF IInv, Working, Accounted, Once, Left, AtWork
  <1>5. \A d \in Calls \ {c} : m \notin Own(d)
    BY <1>3, OwnFacts
  <1>6. PICK left \in Seq(Messages) :
          /\ evt' = InWork(c, left) /\ evt' \in Evts /\ evt'.left = left /\ AtWork(c)' /\ evt'.at = "work" /\ evt' # Lost
          /\ \A d \in Calls \ {c} : ~AtWork(d)'
          /\ \/ /\ left = <<>>
                /\ ahead' = line /\ error' = error \cup {c}
                /\ release' = IF c \in Batches THEN release \cup {c} ELSE release
                /\ UNCHANGED <<under, wire, results>>
             \/ /\ left = Tail(evt.left) /\ error' = error /\ release' = release \cup {c}
                /\ ahead' = Tail(line) /\ under' = [under EXCEPT ![m] = Head(line)]
                /\ wire' = [wire EXCEPT ![m] = IF up /\ c \notin stale THEN "sent" ELSE "gone"]
                /\ results' = [results EXCEPT ![m] = "pending"]
    <2>1. CASE FailEncode(c, line)
      <3>1. evt' = InWork(c, <<>>) /\ <<>> \in Seq(Messages)
        BY <2>1, EvtFacts DEF FailEncode
      <3>2. QED
        BY <2>1, <3>1, InWorkFacts DEF FailEncode
    <2>2. CASE Transfer(c, m, line)
      <3>1. evt' = InWork(c, Tail(evt.left))
        BY <2>2 DEF Transfer
      <3>2. QED
        BY <1>3, <2>2, <3>1, InWorkFacts DEF Transfer
    <2>3. QED
      BY <1>2, <2>1, <2>2
  <1>7. /\ ahead' \in Seq(Messages) /\ under' \in [Messages -> Messages \cup {None}]
        /\ wire' \in [Messages -> Answers \cup {"unsent", "sent", "released", "gone"}]
        /\ results' \in [Messages -> Answers \cup {None, "pending"}]
        /\ \A n \in Messages \ {m} : wire'[n] = wire[n] /\ under'[n] = under[n] /\ results'[n] = results[n]
        /\ \/ UNCHANGED <<wire, under, results>>
           \/ under'[m] \in Messages /\ results'[m] = "pending" /\ c \in release'
    <2>1. /\ under \in [Messages -> Messages \cup {None}]
          /\ wire \in [Messages -> Answers \cup {"unsent", "sent", "released", "gone"}]
          /\ results \in [Messages -> Answers \cup {None, "pending"}]
      BY DEF IInv, TypeOK
    <2>2. CASE left = <<>> /\ ahead' = line /\ UNCHANGED <<under, wire, results>>
      BY <1>3, <2>1, <2>2
    <2>3. CASE /\ release' = release \cup {c}
               /\ ahead' = Tail(line) /\ under' = [under EXCEPT ![m] = Head(line)]
               /\ wire' = [wire EXCEPT ![m] = IF up /\ c \notin stale THEN "sent" ELSE "gone"]
               /\ results' = [results EXCEPT ![m] = "pending"]
      BY <1>3, <2>1, <2>3
    <2>4. QED
      BY <1>6, <2>2, <2>3
  <1>8. /\ release \subseteq release' /\ release' \subseteq release \cup {c}
        /\ error \subseteq error' /\ error' \subseteq error \cup {c}
        /\ c \notin Batches => c \notin error' \cap release'
    BY <1>4, <1>6
  <1>9. TypeOK'
    BY <1>1, <1>6, <1>7, <1>8 DEF IInv, TypeOK
  <1>10. Working'
    <2>1. ASSUME NEW d \in Calls PROVE Once(d)'
      <3>1. Once(d) /\ (Unique(d) => Unique(d)') /\ (Queued("work", d)' <=> Queued("work", d))
        BY <1>1 DEF IInv, Working, Unique, Queued, Job
      <3>2. CASE d = c
        BY <1>1, <1>4, <1>6, <1>7, <1>8, <3>1, <3>2 DEF Once
      <3>3. CASE d # c
        BY <1>1, <1>4, <1>6, <1>7, <1>8, <3>1, <3>3 DEF Once
      <3>4. QED
        BY <3>2, <3>3
    <2>2. Left(c)'
      <3>1. CASE left = <<>>
        BY <1>6, <3>1 DEF Left
      <3>2. CASE left = Tail(evt.left)
        <4>1. \A i \in DOMAIN left : left[i] \in Own(c) /\ wire[left[i]] = "unsent" /\ wire'[left[i]] = "unsent"
          BY <1>1, <1>3, <1>4, <1>7, <1>8, <3>2, OwnFacts DEF Left
        <4>2. \A i, j \in DOMAIN left : left[i] = left[j] => i = j
          <5>1. \A i, j \in DOMAIN left : i + 1 = j + 1 => i = j
            BY <1>3, <3>2
          <5>2. QED
            BY <1>1, <1>3, <1>4, <3>2, <5>1 DEF Left
        <4>3. c \notin Batches => left = <<>>
          BY <1>3, <1>4, <3>2
        <4>4. QED
          BY <1>6, <4>1, <4>2, <4>3 DEF Left, Own
      <3>3. QED
        BY <1>6, <3>1, <3>2
    <2>3. QED
      BY <1>6, <2>1, <2>2 DEF Working, Left
  <1>11. Accounted'
    <2>1. Account(c)'
      <3>1. \A n \in Own(c) : results'[n] # None \/ wire'[n] # "unsent" => c \in release'
        BY <1>4, <1>7, <1>8, OwnFacts DEF Account
      <3>2. pc'[c] \notin {"conclude", "ok"}
        BY <1>1, <1>4
      <3>3. QED
        BY <1>6, <1>7, <1>8, <3>1, <3>2 DEF Account, Own
    <2>2. ASSUME NEW d \in Calls \ {c} PROVE Account(d)'
      <3>1. /\ Account(d) /\ ~AtWork(d)
            /\ \A n \in Own(d) : n \in Messages /\ wire'[n] = wire[n] /\ results'[n] = results[n]
        BY <1>4, <1>5, <1>7, <1>8, OwnFacts DEF IInv, Accounted
      <3>2. Queued("release", d)' <=> Queued("release", d)
        BY <1>1 DEF Queued, Job
      <3>3. d \in release' <=> d \in release
        BY <1>7, <1>8
      <3>4. d \in error' <=> d \in error
        BY <1>7, <1>8
      <3>5. QED
        BY <1>1, <3>1, <3>2, <3>3, <3>4 DEF Account, Own
    <2>3. QED
      BY <1>1, <2>1, <2>2 DEF IInv, Accounted
  <1>12. Sleepers'
    <2>1. ASSUME NEW d \in asleep PROVE d \in Calls \ {c} /\ \A n \in Own(d) : results'[n] = results[n]
      <3>1. d \in Calls \ {c}
        BY <1>4 DEF IInv, TypeOK, Sleepers
      <3>2. QED
        BY <1>5, <1>7, <1>8, <3>1, OwnFacts
    <2>2. evt # Lost
      BY <1>1, EvtFacts DEF AtWork
    <2>3. QED
      BY <1>1, <2>1, <2>2 DEF IInv, Sleepers, Own, Answered
  <1>13. Truth'
    <2>1. wire[m] \notin Answers
      BY <1>3 DEF Answers
    <2>2. \A n \in Messages : wire[n] \in Answers => wire'[n] = wire[n] /\ under'[n] = under[n]
      BY <1>7, <1>8, <2>1
    <2>3. \A d \in Calls : Found(d)'
      BY <1>1, <2>2, FoundKept
    <2>4. \A n \in Messages : /\ wire'[n] # "unsent" => under'[n] \in Messages
                              /\ results'[n] \in Answers => results'[n] = results[n]
      BY <1>7, <1>8, NoneFacts DEF IInv, Truth
    <2>5. QED
      BY <2>2, <2>3, <2>4, TruthKept
  <1>14. QED
    BY <1>9, <1>10, <1>11, <1>12, <1>13 DEF IInv

\* The end of work leaves no results to a call that has given up.
LEMMA FinishWorkInv == ASSUME IInv, NEW c \in Calls, FinishWork(c) PROVE IInv'
  <1>1. /\ evt = InWork(c, <<>>) /\ evt' = Idle /\ done' = done \cup {c}
        /\ IF c \in abandoned /\ c \in release THEN Forget(c) ELSE UNCHANGED results
        /\ UNCHANGED <<connected, up, workQueue, opens, stale, leaked, jobs, ahead, under, wire, messagesSent, pc,
                       transacted, asleep, abandoned, error, release, got, reported>>
    BY DEF FinishWork, conn, broker, callers
  <1>2. /\ AtWork(c) /\ evt # Lost /\ \A d \in Calls : ~AtWork(d)' /\ (AtWork(d) => d = c)
    BY <1>1, EvtFacts DEF AtWork
  <1>3. /\ results' \in [Messages -> Answers \cup {None, "pending"}]
        /\ \A m \in Messages : results'[m] \in {results[m], None}
        /\ c \in abandoned /\ c \in release => \A m \in Own(c) : results'[m] = None
    BY <1>1, ForgetOrNot, ForgetFacts DEF IInv
  <1>4. TypeOK'
    BY <1>1, <1>3, EvtFacts DEF IInv, TypeOK
  <1>5. Working'
    <2>1. ASSUME NEW d \in Calls PROVE Once(d)'
      BY <1>1, <1>2, SameJobs DEF IInv, Working, Once
    <2>2. QED
      BY <1>2, <2>1 DEF Working, Left
  <1>6. Accounted'
    <2>1. ASSUME pc[c] \in {"conclude", "ok", "failed"}, NEW m \in Own(c) PROVE results'[m] = None
      <3>1. Once(c) /\ Account(c) /\ m \in Messages
        BY OwnFacts DEF IInv, Working, Accounted
      <3>2. c \in abandoned
        BY <1>2, <2>1, <3>1 DEF Once
      <3>3. c \notin release => results[m] = None
        BY <2>1, <3>1 DEF Account
      <3>4. QED
        BY <1>3, <2>1, <3>1, <3>2, <3>3
    <2>2. \A m \in Messages : /\ results'[m] # None => results[m] # None
                              /\ wire'[m] # "unsent" => wire[m] # "unsent"
      BY <1>1, <1>3
    <2>3. QED
      BY <1>1, <1>2, <2>1, <2>2, SameJobs, AccountedKept DEF IInv, Accounted
  <1>7. Sleepers'
    BY <1>1, <1>2, <1>3, NoneFacts, SleepersKept DEF IInv, Sleepers
  <1>8. Truth'
    <2>1. \A d \in Calls : Found(d)'
      BY <1>1, FoundKept
    <2>2. QED
      BY <1>1, <1>3, <2>1, NoneFacts, TruthKept DEF IInv, Truth
  <1>9. QED
    BY <1>4, <1>5, <1>6, <1>7, <1>8 DEF IInv

\* A release removes the results of its call.
LEMMA RunReleaseInv == ASSUME IInv, NEW c \in Calls, RunRelease(c) PROVE IInv'
  <1>1. /\ jobs # <<>> /\ Head(jobs) = Job("release", c) /\ jobs' = Tail(jobs) /\ Forget(c)
        /\ UNCHANGED <<connected, up, workQueue, opens, stale, leaked, evt, ahead, under, wire, messagesSent, pc,
                       transacted, asleep, done, abandoned, error, release, got, reported>>
    BY DEF RunRelease, conn, broker, callers, state
  <1>2. /\ results' \in [Messages -> Answers \cup {None, "pending"}]
        /\ \A m \in Messages : results'[m] \in {results[m], None}
        /\ \A m \in Own(c) : results'[m] = None
    BY <1>1, ForgetFacts DEF IInv
  <1>3. /\ jobs' \in Seq(Jobs)
        /\ \A d \in Calls : (Unique(d) => Unique(d)') /\ (Queued("work", d)' => Queued("work", d))
        /\ \A d \in Calls \ {c} : Queued("release", d) => Queued("release", d)'
    <2>1. \A d \in Calls \ {c} : Job("release", c) # Job("release", d)
      BY JobFacts
    <2>2. QED
      BY <1>1, <2>1, TailFacts DEF IInv
  <1>4. \A d \in Calls : AtWork(d) => AtWork(d)'
    BY <1>1 DEF AtWork
  <1>5. TypeOK'
    BY <1>1, <1>2, <1>3 DEF IInv, TypeOK
  <1>6. Working'
    BY <1>1, <1>3, WorkingKept
  <1>7. Accounted'
    <2>1. \A m \in Messages : /\ results'[m] # None => results[m] # None
                              /\ wire'[m] # "unsent" => wire[m] # "unsent"
      BY <1>1, <1>2
    <2>2. QED
      BY <1>1, <1>2, <1>3, <1>4, <2>1, AccountedKept DEF IInv, Accounted
  <1>8. Sleepers'
    BY <1>1, <1>2, NoneFacts, SleepersKept DEF IInv, Sleepers
  <1>9. Truth'
    <2>1. \A d \in Calls : Found(d)'
      BY <1>1, FoundKept
    <2>2. QED
      BY <1>1, <1>2, <2>1, NoneFacts, TruthKept DEF IInv, Truth
  <1>10. QED
    BY <1>5, <1>6, <1>7, <1>8, <1>9 DEF IInv

\* An answer is stored as it was given.
LEMMA AnswerInv == ASSUME IInv, NEW m \in Messages, NEW answer \in Answers, Answer(m, answer) PROVE IInv'
  <1>1. /\ wire[m] = "sent" /\ wire' = [wire EXCEPT ![m] = answer] /\ StoreAnswer(under[m], answer) /\ asleep' = {}
        /\ UNCHANGED <<connected, up, workQueue, opens, stale, leaked, jobs, evt, ahead, under, pc, transacted,
                       done, abandoned, error, release, got, reported>>
    BY DEF Answer, conn, state
  <1>2. PICK tag \in Messages : tag = under[m]
    BY <1>1 DEF IInv, Truth
  <1>3. /\ results' \in [Messages -> Answers \cup {None, "pending"}] /\ messagesSent' \in Nat
        /\ \A n \in Messages : /\ results'[n] # None => results[n] # None
                               /\ results'[n] \in Answers => results'[n] = results[n] \/ (n = tag /\ results'[n] = answer)
    <2>1. results \in [Messages -> Answers \cup {None, "pending"}] /\ messagesSent \in Nat
      BY DEF IInv, TypeOK
    <2>2. CASE UNCHANGED <<results, messagesSent>>
      BY <2>1, <2>2
    <2>3. CASE /\ results[tag] # None /\ results' = [results EXCEPT ![tag] = answer]
               /\ messagesSent' = IF answer = "accepted" THEN messagesSent + 1 ELSE messagesSent
      BY <2>1, <2>3
    <2>4. QED
      BY <1>1, <1>2, <2>2, <2>3 DEF StoreAnswer, counts
  <1>4. /\ wire' \in [Messages -> Answers \cup {"unsent", "sent", "released", "gone"}]
        /\ wire'[m] = answer /\ wire[m] \notin Answers /\ wire[m] # "unsent" /\ answer # "unsent"
        /\ \A n \in Messages \ {m} : wire'[n] = wire[n]
    BY <1>1 DEF IInv, TypeOK, Answers
  <1>5. TypeOK'
    BY <1>1, <1>3, <1>4 DEF IInv, TypeOK
  <1>6. Working'
    <2>1. \A n \in Messages : wire[n] = "unsent" => wire'[n] = "unsent"
      BY <1>4
    <2>2. QED
      BY <1>1, <2>1, SameJobs, WorkingKept
  <1>7. Accounted'
    <2>1. \A d \in Calls : AtWork(d)' <=> AtWork(d)
      BY <1>1 DEF AtWork
    <2>2. \A n \in Messages : /\ results'[n] # None => results[n] # None
                              /\ wire'[n] # "unsent" => wire[n] # "unsent"
      BY <1>3, <1>4
    <2>3. QED
      BY <1>1, <2>1, <2>2, SameJobs, AccountedKept DEF IInv, Accounted
  <1>8. Sleepers'
    BY <1>1 DEF IInv, Sleepers
  <1>9. Truth'
    <2>1. \A n \in Messages : wire[n] \in Answers => wire'[n] = wire[n] /\ under'[n] = under[n]
      BY <1>1, <1>4
    <2>2. \A n \in Messages : wire'[n] # "unsent" => under'[n] \in Messages
      BY <1>1, <1>4 DEF IInv, Truth
    <2>3. \A d \in Calls : Found(d)'
      BY <1>1, <2>1, FoundKept
    <2>4. ASSUME NEW n \in Messages, Answered(n)' PROVE Said(n, results[n])'
      <3>1. CASE n = tag /\ results'[n] = answer
        BY <1>1, <1>2, <1>4, <3>1 DEF Said
      <3>2. CASE results'[n] = results[n]
        <4>1. Said(n, results[n]) /\ results[n] \in Answers
          BY <2>4, <3>2 DEF IInv, Truth, Answered
        <4>2. QED
          BY <2>1, <3>2, <4>1, SaidKept DEF Said
      <3>3. QED
        BY <1>3, <2>4, <3>1, <3>2 DEF Answered
    <2>5. QED
      BY <2>2, <2>3, <2>4 DEF Truth
  <1>10. QED
    BY <1>5, <1>6, <1>7, <1>8, <1>9 DEF IInv

\* A message that the broker gives back has no answer.
LEMMA GiveBackInv == ASSUME IInv, NEW m \in Messages, GiveBack(m) PROVE IInv'
  <1>1. /\ wire[m] = "sent" /\ wire' = [wire EXCEPT ![m] = "released"]
        /\ UNCHANGED <<connected, up, workQueue, opens, stale, leaked, jobs, evt, ahead, under, results, messagesSent, pc,
                       transacted, asleep, done, abandoned, error, release, got, reported>>
    BY DEF GiveBack, conn, counts, callers, state
  <1>2. /\ wire' \in [Messages -> Answers \cup {"unsent", "sent", "released", "gone"}]
        /\ wire'[m] = "released" /\ wire[m] \notin Answers
        /\ \A n \in Messages \ {m} : wire'[n] = wire[n]
    BY <1>1 DEF IInv, TypeOK, Answers
  <1>3. \A n \in Messages : /\ wire[n] = "unsent" <=> wire'[n] = "unsent"
                            /\ wire[n] \in Answers => wire'[n] = wire[n]
    BY <1>1, <1>2
  <1>4. TypeOK'
    BY <1>1, <1>2 DEF IInv, TypeOK
  <1>5. Working'
    BY <1>1, <1>3, SameJobs, WorkingKept
  <1>6. Accounted'
    <2>1. \A d \in Calls : AtWork(d)' <=> AtWork(d)
      BY <1>1 DEF AtWork
    <2>2. QED
      BY <1>1, <1>3, <2>1, SameJobs, AccountedKept DEF IInv, Accounted
  <1>7. Sleepers'
    BY <1>1, SleepersKept DEF IInv, Sleepers
  <1>8. Truth'
    <2>1. \A d \in Calls : Found(d)'
      BY <1>1, <1>3, FoundKept
    <2>2. QED
      BY <1>1, <1>3, <2>1, TruthKept DEF IInv, Truth
  <1>9. QED
    BY <1>4, <1>5, <1>6, <1>7, <1>8 DEF IInv

\* The loss of the connection is no answer, and excuses the releases it drops.
LEMMA LoseInv == ASSUME IInv, Lose PROVE IInv'
  <1>1. /\ evt = Idle /\ evt' = Lost /\ up = TRUE /\ up' = FALSE /\ connected' = FALSE /\ workQueue' \in BOOLEAN
        /\ stale' = {c \in Calls : pc[c] # "idle"} /\ jobs' \in {jobs, <<>>}
        /\ leaked' \in SUBSET Calls /\ leaked \subseteq leaked'
        /\ \A c \in Calls : Queued("release", c) => Queued("release", c)' \/ c \in leaked'
        /\ wire' = [m \in Messages |-> IF wire[m] = "sent" THEN "gone" ELSE wire[m]]
        /\ UNCHANGED <<opens, ahead, under, results, messagesSent, pc, transacted, asleep, done, abandoned, error,
                       release, got, reported>>
    BY DEF Lose, counts, callers, state, IInv, TypeOK, Queued
  <1>2. /\ wire' \in [Messages -> Answers \cup {"unsent", "sent", "released", "gone"}]
        /\ \A m \in Messages : /\ wire[m] = "unsent" <=> wire'[m] = "unsent"
                               /\ wire[m] \in Answers => wire'[m] = wire[m]
    BY <1>1 DEF IInv, TypeOK, Answers
  <1>3. /\ jobs' \in Seq(Jobs)
        /\ \A c \in Calls : (Unique(c) => Unique(c)') /\ (Queued("work", c)' => Queued("work", c))
    BY <1>1, DropFacts DEF IInv
  <1>4. TypeOK'
    BY <1>1, <1>2, <1>3, EvtFacts DEF IInv, TypeOK
  <1>5. Working'
    BY <1>1, <1>2, <1>3, EvtFacts, WorkingKept
  <1>6. Accounted'
    <2>1. Accounted
      BY DEF IInv
    <2>2. \A c \in Calls : Account(c)'
      BY <1>1, <1>2, <2>1, OwnFacts, EvtFacts DEF Accounted, Account, Own, AtWork
    <2>3. QED
      BY <2>2 DEF Accounted
  <1>7. Sleepers'
    BY <1>1, SleepersKept DEF IInv, Sleepers
  <1>8. Truth'
    <2>1. \A d \in Calls : Found(d)'
      BY <1>1, <1>2, FoundKept
    <2>2. QED
      BY <1>1, <1>2, <2>1, TruthKept DEF IInv, Truth
  <1>9. QED
    BY <1>4, <1>5, <1>6, <1>7, <1>8 DEF IInv

\* A link that the broker closes with an error makes the connection count as lost.
LEMMA OnErrorInv == ASSUME IInv, OnError PROVE IInv'
  <1>1. /\ connected' = FALSE
        /\ UNCHANGED <<up, workQueue, opens, stale, leaked, jobs, evt, ahead, under, wire, results, messagesSent, pc,
                       transacted, asleep, done, abandoned, error, release, got, reported>>
    BY DEF OnError, broker, counts, callers, state
  <1>2. TypeOK'
    BY <1>1 DEF IInv, TypeOK
  <1>3. Working'
    BY <1>1, SameJobs, WorkingKept
  <1>4. Accounted'
    <2>1. \A d \in Calls : AtWork(d)' <=> AtWork(d)
      BY <1>1 DEF AtWork
    <2>2. QED
      BY <1>1, <2>1, SameJobs, AccountedKept DEF IInv, Accounted
  <1>5. Sleepers'
    BY <1>1, SleepersKept DEF IInv, Sleepers
  <1>6. Truth'
    <2>1. \A d \in Calls : Found(d)'
      BY <1>1, FoundKept
    <2>2. QED
      BY <1>1, <2>1, TruthKept DEF IInv, Truth
  <1>7. QED
    BY <1>2, <1>3, <1>4, <1>5, <1>6 DEF IInv

\* The broadcast leaves nobody asleep.
LEMMA WakeSendersInv == ASSUME IInv, WakeSenders PROVE IInv'
  <1>1. /\ evt = Lost /\ evt' = Idle /\ asleep' = {}
        /\ UNCHANGED <<connected, up, workQueue, opens, stale, leaked, jobs, ahead, under, wire, results, messagesSent, pc,
                       transacted, done, abandoned, error, release, got, reported>>
    BY DEF WakeSenders, conn, broker, counts, state
  <1>2. \A d \in Calls : ~AtWork(d)
    BY <1>1, EvtFacts DEF AtWork
  <1>3. TypeOK'
    BY <1>1, EvtFacts DEF IInv, TypeOK
  <1>4. Working'
    BY <1>1, EvtFacts, SameJobs, WorkingKept
  <1>5. Accounted'
    BY <1>1, <1>2, SameJobs, AccountedKept DEF IInv, Accounted
  <1>6. Sleepers'
    BY <1>1 DEF IInv, Sleepers
  <1>7. Truth'
    <2>1. \A d \in Calls : Found(d)'
      BY <1>1, FoundKept
    <2>2. QED
      BY <1>1, <2>1, TruthKept DEF IInv, Truth
  <1>8. QED
    BY <1>3, <1>4, <1>5, <1>6, <1>7 DEF IInv

\* On a new connection the releases that were queued or lost are the same.
LEMMA ReopenInv == ASSUME IInv, Reopen PROVE IInv'
  <1>1. /\ evt = Idle /\ ~up /\ up' = TRUE /\ connected' = TRUE /\ workQueue' = TRUE /\ ahead' = <<>>
        /\ opens' = opens + 1 /\ opens' \in 1 .. MaxOpens /\ opens' > 1 /\ opens' # 1
        /\ UNCHANGED <<stale, leaked, jobs, evt, under, wire, results, messagesSent, pc, transacted, asleep, done,
                       abandoned, error, release, got, reported>>
    BY SendingAssumption DEF Reopen, counts, callers, state, IInv, TypeOK
  <1>2. TypeOK'
    BY <1>1, EvtFacts DEF IInv, TypeOK
  <1>3. Working'
    BY <1>1, SameJobs, WorkingKept
  <1>4. Accounted'
    <2>1. Accounted
      BY DEF IInv
    <2>2. \A c \in Calls : Account(c)'
      BY <1>1, <2>1, SameJobs DEF Accounted, Account, Own, AtWork
    <2>3. QED
      BY <2>2 DEF Accounted
  <1>5. Sleepers'
    BY <1>1, EvtFacts, SleepersKept DEF IInv, Sleepers
  <1>6. Truth'
    <2>1. \A d \in Calls : Found(d)'
      BY <1>1, FoundKept
    <2>2. QED
      BY <1>1, <2>1, TruthKept DEF IInv, Truth
  <1>7. QED
    BY <1>2, <1>3, <1>4, <1>5, <1>6 DEF IInv

-----------------------------------------------------------------------------
(* The threads of the application                                          *)

\* A call that starts has no results yet.
LEMMA StartInv == ASSUME IInv, NEW c \in Calls, Start(c) PROVE IInv'
  <1>1. /\ pc[c] = "idle" /\ connected /\ transacted' \in {transacted, transacted \cup {c}}
        /\ \/ workQueue /\ jobs' = Append(jobs, Job("work", c)) /\ Goto(c, "working")
           \/ ~workQueue /\ jobs' = jobs /\ Goto(c, "failed")
        /\ UNCHANGED <<connected, up, workQueue, opens, stale, leaked, evt, ahead, under, wire, results, messagesSent,
                       asleep, done, abandoned, error, release, got, reported>>
    BY DEF Start, conn, broker, counts, state
  <1>2. /\ pc' \in [Calls -> Active \cup {"idle", "ok", "failed"}] /\ pc'[c] \in {"working", "failed"}
        /\ pc'[c] = "failed" => ~workQueue
        /\ \A d \in Calls \ {c} : pc'[d] = pc[d]
    <2>1. "working" \in Active
      BY DEF Active
    <2>2. QED
      BY <1>1, <2>1, GotoFacts DEF IInv
  <1>3. /\ Once(c) /\ c \notin asleep /\ \A m \in Own(c) : results[m] = None /\ reported[m] = None
        /\ ~Queued("work", c) /\ ~AtWork(c) /\ c \notin done \cup abandoned \cup error \cup release
    <2>1. Once(c) /\ Account(c) /\ Found(c)
      BY DEF IInv, Working, Accounted, Truth
    <2>2. /\ ~Queued("work", c) /\ ~AtWork(c) /\ c \notin done \cup abandoned \cup error \cup release
      BY <1>1, <2>1 DEF Once
    <2>3. \A m \in Own(c) : results[m] = None /\ reported[m] = None
      BY <1>1, <2>1, <2>2 DEF Account, Found
    <2>4. c \notin asleep
      BY <1>1 DEF IInv, Sleepers
    <2>5. QED
      BY <2>1, <2>2, <2>3, <2>4
  <1>4. /\ jobs' \in Seq(Jobs) /\ \A d \in Calls : (Unique(d) => Unique(d)')
        /\ \A d \in Calls \ {c} : (Queued("work", d)' => Queued("work", d))
        /\ \A d \in Calls : Queued("release", d)' <=> Queued("release", d)
        /\ Queued("work", c)' => pc'[c] = "working"
        /\ \A d \in Calls : AtWork(d)' <=> AtWork(d)
    <2>1. \A d \in Calls : AtWork(d)' <=> AtWork(d)
      BY <1>1 DEF AtWork
    <2>2. CASE jobs' = Append(jobs, Job("work", c)) /\ Goto(c, "working")
      <3>1. pc'[c] = "working"
        BY <2>2, GotoFacts DEF IInv, Active
      <3>2. QED
        BY <1>3, <2>1, <2>2, <3>1, AppendFacts DEF IInv
    <2>3. CASE jobs' = jobs
      BY <1>3, <2>1, <2>3, SameJobs DEF IInv, TypeOK
    <2>4. QED
      BY <1>1, <2>2, <2>3
  <1>5. TypeOK'
    BY <1>1, <1>2, <1>4 DEF IInv, TypeOK
  <1>6. Working'
    <2>1. ASSUME NEW d \in Calls PROVE Once(d)'
      <3>1. CASE d = c
        BY <1>1, <1>2, <1>3, <1>4, <3>1 DEF Once
      <3>2. CASE d # c
        BY <1>1, <1>2, <1>4, <3>2 DEF IInv, Working, Once
      <3>3. QED
        BY <3>1, <3>2
    <2>2. \A d \in Calls : Left(d)'
      BY <1>1, <1>4 DEF IInv, Working, Left, Own
    <2>3. QED
      BY <2>1, <2>2 DEF Working
  <1>7. Accounted'
    BY <1>1, <1>2, <1>3, <1>4, AccountedKept DEF IInv, Accounted
  <1>8. Sleepers'
    BY <1>1, <1>2, <1>3, SleepersKept DEF IInv, Sleepers, TypeOK
  <1>9. Truth'
    <2>1. \A d \in Calls : Found(d)'
      BY <1>1, <1>2, FoundKept
    <2>2. QED
      BY <1>1, <2>1, TruthKept DEF IInv, Truth
  <1>10. QED
    BY <1>5, <1>6, <1>7, <1>8, <1>9 DEF IInv

\* A call whose work failed leaves no results.
LEMMA WakeInv == ASSUME IInv, NEW c \in Calls, Wake(c) PROVE IInv'
  <1>1. /\ pc[c] = "working" /\ c \in done
        /\ \/ c \in error /\ Goto(c, "failed") /\ (IF c \in Batches THEN Forget(c) ELSE UNCHANGED results)
           \/ c \notin error /\ Goto(c, "confirm") /\ UNCHANGED results
        /\ UNCHANGED <<connected, up, workQueue, opens, stale, leaked, jobs, evt, ahead, under, wire, messagesSent,
                       transacted, asleep, done, abandoned, error, release, got, reported>>
    BY DEF Wake, conn, broker, state
  <1>2. /\ pc' \in [Calls -> Active \cup {"idle", "ok", "failed"}] /\ pc'[c] \in {"confirm", "failed"}
        /\ pc'[c] = "failed" => c \in error /\ (IF c \in Batches THEN Forget(c) ELSE UNCHANGED results)
        /\ \A d \in Calls \ {c} : pc'[d] = pc[d]
    <2>1. "confirm" \in Active
      BY DEF Active
    <2>2. QED
      BY <1>1, <2>1, GotoFacts DEF IInv
  <1>3. /\ results' \in [Messages -> Answers \cup {None, "pending"}]
        /\ \A m \in Messages : results'[m] \in {results[m], None}
        /\ c \notin asleep /\ (pc'[c] = "failed" => \A m \in Own(c) : results'[m] = None)
    <2>1. Account(c) /\ c \notin asleep
      BY <1>1 DEF IInv, Accounted, Sleepers
    <2>2. c \in error /\ c \notin Batches => \A m \in Own(c) : results[m] = None
      BY <2>1 DEF Account
    <2>3. QED
      BY <1>1, <1>2, <2>1, <2>2, ForgetOrNot, ForgetFacts DEF IInv
  <1>4. TypeOK'
    BY <1>1, <1>2, <1>3 DEF IInv, TypeOK
  <1>5. Working'
    BY <1>1, <1>2, SameJobs, WorkingKept
  <1>6. Accounted'
    <2>1. \A d \in Calls : AtWork(d)' <=> AtWork(d)
      BY <1>1 DEF AtWork
    <2>2. \A m \in Messages : /\ results'[m] # None => results[m] # None
                              /\ wire'[m] # "unsent" => wire[m] # "unsent"
      BY <1>1, <1>3
    <2>3. QED
      BY <1>1, <1>2, <1>3, <2>1, <2>2, SameJobs, AccountedKept DEF IInv, Accounted
  <1>7. Sleepers'
    BY <1>1, <1>2, <1>3, NoneFacts, SleepersKept DEF IInv, Sleepers, TypeOK
  <1>8. Truth'
    <2>1. \A d \in Calls : Found(d)'
      BY <1>1, <1>2, FoundKept
    <2>2. QED
      BY <1>1, <1>3, <2>1, NoneFacts, TruthKept DEF IInv, Truth
  <1>9. QED
    BY <1>4, <1>5, <1>6, <1>7, <1>8 DEF IInv

\* A call that gives up with its work done and released releases it itself.
LEMMA GiveUpInv == ASSUME IInv, NEW c \in Calls, GiveUp(c) PROVE IInv'
  <1>1. /\ pc[c] = "working" /\ abandoned' = abandoned \cup {c}
        /\ Goto(c, IF c \in done /\ c \in release THEN "gaveUp" ELSE "failed")
        /\ UNCHANGED <<connected, up, workQueue, opens, stale, leaked, jobs, evt, ahead, under, wire, results, messagesSent,
                       transacted, asleep, done, error, release, got, reported>>
    BY DEF GiveUp, conn, broker, counts
  <1>2. /\ pc' \in [Calls -> Active \cup {"idle", "ok", "failed"}]
        /\ pc'[c] = IF c \in done /\ c \in release THEN "gaveUp" ELSE "failed"
        /\ \A d \in Calls \ {c} : pc'[d] = pc[d]
    <2>1. "gaveUp" \in Active
      BY DEF Active
    <2>2. QED
      BY <1>1, <2>1, GotoFacts DEF IInv
  <1>3. /\ Once(c) /\ Account(c) /\ c \notin asleep /\ \A d \in Calls : AtWork(d)' <=> AtWork(d)
    BY <1>1 DEF IInv, Working, Accounted, Sleepers, AtWork
  <1>4. TypeOK'
    BY <1>1, <1>2 DEF IInv, TypeOK
  <1>5. Working'
    <2>1. ASSUME NEW d \in Calls PROVE Once(d)'
      <3>1. CASE d = c
        BY <1>1, <1>2, <1>3, <3>1, SameJobs DEF Once
      <3>2. CASE d # c
        BY <1>1, <1>2, <1>3, <3>2, SameJobs DEF IInv, Working, Once
      <3>3. QED
        BY <3>1, <3>2
    <2>2. \A d \in Calls : Left(d)'
      BY <1>1, <1>3 DEF IInv, Working, Left, Own
    <2>3. QED
      BY <2>1, <2>2 DEF Working
  <1>6. Accounted'
    <2>1. pc'[c] = "failed" => \A m \in Own(c) : results'[m] # None => AtWork(c)'
      BY <1>1, <1>2, <1>3 DEF Once, Account
    <2>2. QED
      BY <1>1, <1>2, <1>3, <2>1, SameJobs, AccountedKept DEF IInv, Accounted
  <1>7. Sleepers'
    BY <1>1, <1>2, <1>3, SleepersKept DEF IInv, Sleepers, TypeOK
  <1>8. Truth'
    <2>1. \A d \in Calls : Found(d)'
      BY <1>1, <1>2, FoundKept
    <2>2. QED
      BY <1>1, <2>1, TruthKept DEF IInv, Truth
  <1>9. QED
    BY <1>4, <1>5, <1>6, <1>7, <1>8 DEF IInv

\* The release is scheduled, unless the connection has closed.
LEMMA ScheduleReleaseInv == ASSUME IInv, NEW c \in Calls, ScheduleRelease(c) PROVE IInv'
  <1>1. /\ pc[c] = "gaveUp" /\ Goto(c, "failed")
        /\ \/ jobs' = Append(jobs, Job("release", c)) /\ leaked' = leaked
           \/ jobs' = jobs /\ leaked' = leaked \cup {c}
        /\ UNCHANGED <<connected, up, workQueue, opens, stale, evt, ahead, under, wire, results, messagesSent,
                       transacted, asleep, done, abandoned, error, release, got, reported>>
    BY DEF ScheduleRelease, conn, broker, counts, state
  <1>2. /\ pc' \in [Calls -> Active \cup {"idle", "ok", "failed"}] /\ pc'[c] = "failed"
        /\ \A d \in Calls \ {c} : pc'[d] = pc[d]
    BY <1>1, GotoFacts DEF IInv
  <1>3. /\ c \in done /\ c \notin asleep /\ \A d \in Calls : AtWork(d)' <=> AtWork(d)
    <2>1. c \in done
      BY <1>1 DEF IInv, Working, Once
    <2>2. QED
      BY <1>1, <2>1 DEF IInv, Sleepers, AtWork
  <1>4. /\ jobs' \in Seq(Jobs)
        /\ \A d \in Calls : (Unique(d) => Unique(d)') /\ (Queued("work", d)' => Queued("work", d))
        /\ \A d \in Calls : Queued("release", d) => Queued("release", d)'
        /\ Queued("release", c)' \/ c \in leaked'
    <2>1. CASE jobs' = Append(jobs, Job("release", c))
      BY <1>1, <2>1, AppendFacts DEF IInv
    <2>2. CASE jobs' = jobs /\ c \in leaked'
      BY <1>1, <2>2, SameJobs DEF IInv, TypeOK
    <2>3. QED
      BY <1>1, <2>1, <2>2
  <1>5. TypeOK'
    BY <1>1, <1>2, <1>4 DEF IInv, TypeOK
  <1>6. Working'
    BY <1>1, <1>2, <1>3, <1>4, WorkingKept
  <1>7. Accounted'
    BY <1>1, <1>2, <1>3, <1>4, AccountedKept DEF IInv, Accounted
  <1>8. Sleepers'
    BY <1>1, <1>2, <1>3, SleepersKept DEF IInv, Sleepers, TypeOK
  <1>9. Truth'
    <2>1. \A d \in Calls : Found(d)'
      BY <1>1, <1>2, FoundKept
    <2>2. QED
      BY <1>1, <2>1, TruthKept DEF IInv, Truth
  <1>10. QED
    BY <1>5, <1>6, <1>7, <1>8, <1>9 DEF IInv

\* The end of a batch: it reports as accepted what was sent in a transaction, or accepted.
LEMMA ReturnBatchFacts ==
    ASSUME IInv, NEW c \in Calls, NEW confirmed \in BOOLEAN, ReturnBatch(c, confirmed)
    PROVE  /\ messagesSent' \in Nat /\ got' = got /\ Forget(c) /\ Goto(c, "ok")
           /\ reported' \in [Messages -> Answers \cup {None, "unknown"}]
           /\ \A m \in Own(c) : reported'[m] = "accepted" => c \in transacted \/ results[m] = "accepted"
           /\ \A m \in Own(c) : reported'[m] # "rejected"
           /\ \A d \in Calls \ {c} : \A m \in Own(d) : reported'[m] = reported[m]
  <1> DEFINE accepted == {m \in Own(c) : c \in transacted \/ (confirmed /\ results[m] = "accepted")}
  <1>1. /\ reported' = [m \in Messages |-> IF m \in accepted THEN "accepted"
                                           ELSE IF m \in Own(c) THEN "unknown" ELSE reported[m]]
        /\ messagesSent' = messagesSent + Cardinality(accepted)
        /\ got' = got /\ Forget(c) /\ Goto(c, "ok")
    BY DEF ReturnBatch
  <1>2. messagesSent' \in Nat
    <2>1. accepted \subseteq Own(c)
      OBVIOUS
    <2>2. IsFiniteSet(accepted)
      BY <2>1, OwnFinite, FS_Subset
    <2> HIDE DEF accepted
    <2>3. Cardinality(accepted) \in Nat
      BY <2>2, FS_CardinalityType
    <2>4. QED
      BY <1>1, <2>3 DEF IInv, TypeOK
  <1>3. \A m \in accepted : m \in Own(c) /\ (c \in transacted \/ results[m] = "accepted")
    OBVIOUS
  <1> HIDE DEF accepted
  <1>4. reported' \in [Messages -> Answers \cup {None, "unknown"}]
    BY <1>1 DEF IInv, TypeOK, Answers
  <1>5. \A m \in Own(c) : m \in Messages
    BY OwnFacts
  <1>6. \A d \in Calls \ {c} : \A m \in Own(d) : m \in Messages /\ m \notin Own(c)
    BY OwnFacts
  <1>7. \A m \in Messages : reported'[m] = IF m \in accepted THEN "accepted"
                                           ELSE IF m \in Own(c) THEN "unknown" ELSE reported[m]
    BY <1>1
  <1>8. QED
    BY <1>1, <1>2, <1>3, <1>4, <1>5, <1>6, <1>7

\* What was sent in a transaction is not reported as rejected.
LEMMA ReturnTransactedInv == ASSUME IInv, NEW c \in Calls, ReturnTransacted(c) PROVE IInv'
  <1>1. /\ pc[c] = "confirm" /\ c \in transacted
        /\ UNCHANGED <<connected, up, workQueue, opens, stale, leaked, jobs, evt, ahead, under, wire, transacted, asleep,
                       done, abandoned, error, release>>
    BY DEF ReturnTransacted, conn, broker, state
  <1>2. /\ messagesSent' \in Nat /\ got' = got /\ Forget(c) /\ Goto(c, "ok")
        /\ reported' \in [Messages -> Answers \cup {None, "unknown"}]
        /\ \A m \in Own(c) : reported'[m] # "rejected"
        /\ \A d \in Calls \ {c} : \A m \in Own(d) : reported'[m] = reported[m]
    <2>1. CASE c \in Batches
      BY <2>1, ReturnBatchFacts DEF ReturnTransacted
    <2>2. CASE c \notin Batches
      <3>1. /\ reported' = [m \in Messages |-> IF m \in Own(c) THEN "accepted" ELSE reported[m]]
            /\ Forget(c) /\ Goto(c, "ok") /\ UNCHANGED <<messagesSent, got>>
        BY <2>2 DEF ReturnTransacted
      <3>2. messagesSent \in Nat /\ reported \in [Messages -> Answers \cup {None, "unknown"}]
        BY DEF IInv, TypeOK
      <3>3. reported' \in [Messages -> Answers \cup {None, "unknown"}]
        BY <3>1, <3>2 DEF Answers
      <3>4. \A m \in Own(c) : reported'[m] = "accepted"
        BY <3>1, OwnFacts
      <3>5. \A d \in Calls \ {c} : \A m \in Own(d) : reported'[m] = reported[m]
        BY <3>1, OwnFacts
      <3>6. QED
        BY <3>1, <3>2, <3>3, <3>4, <3>5
    <2>3. QED
      BY <2>1, <2>2
  <1>3. /\ pc' \in [Calls -> Active \cup {"idle", "ok", "failed"}] /\ pc'[c] = "ok"
        /\ \A d \in Calls \ {c} : pc'[d] = pc[d]
        /\ c \in done /\ c \notin asleep /\ \A d \in Calls : AtWork(d)' <=> AtWork(d)
    <2>1. c \in done /\ c \notin asleep
      BY <1>1 DEF IInv, Working, Once, Sleepers
    <2>2. QED
      BY <1>1, <1>2, <2>1, GotoFacts DEF IInv, AtWork
  <1>4. /\ results' \in [Messages -> Answers \cup {None, "pending"}]
        /\ \A m \in Messages : results'[m] \in {results[m], None}
        /\ \A m \in Own(c) : results'[m] = None
    BY <1>2, ForgetFacts DEF IInv
  <1>5. TypeOK'
    BY <1>1, <1>2, <1>3, <1>4 DEF IInv, TypeOK
  <1>6. Working'
    BY <1>1, <1>3, SameJobs, WorkingKept
  <1>7. Accounted'
    <2>1. \A m \in Messages : /\ results'[m] # None => results[m] # None
                              /\ wire'[m] # "unsent" => wire[m] # "unsent"
      BY <1>1, <1>4
    <2>2. QED
      BY <1>1, <1>3, <1>4, <2>1, SameJobs, AccountedKept DEF IInv, Accounted
  <1>8. Sleepers'
    BY <1>1, <1>3, <1>4, NoneFacts, SleepersKept DEF IInv, Sleepers, TypeOK
  <1>9. Truth'
    <2>1. \A d \in Calls \ {c} : Found(d)'
      BY <1>1, <1>2, <1>3, FoundKept
    <2>2. Found(c)'
      <3>1. \A m \in Messages, a \in Answers : Said(m, a) => Said(m, a)'
        BY <1>1, SaidKept
      <3>2. Found(c) /\ (c \notin Batches => Head(MessagesOf[c]) \in Messages)
        BY OwnFacts DEF IInv, Truth
      <3>3. c \notin Batches /\ got'[c] \in Answers => Said(Head(MessagesOf[c]), got[c])'
        BY <1>2, <3>1, <3>2 DEF Found
      <3>4. QED
        BY <1>1, <1>2, <1>3, <3>3 DEF Found, Own, Said
    <2>3. \A m \in Messages : results'[m] \in Answers => results'[m] = results[m]
      BY <1>4, NoneFacts
    <2>4. QED
      BY <1>1, <2>1, <2>2, <2>3, TruthKept DEF IInv, Truth
  <1>10. QED
    BY <1>5, <1>6, <1>7, <1>8, <1>9 DEF IInv

\* At the end of its wait a call takes the answers that are there.
LEMMA EndWaitInv ==
    ASSUME IInv, NEW c \in Calls, pc[c] = "confirm", c \notin transacted, EndWait(c),
           asleep' = asleep \ {c}, UNCHANGED <<conn, jobs, evt, broker, transacted, state>>
    PROVE  IInv'
  <1>1. UNCHANGED <<connected, up, workQueue, opens, stale, leaked, jobs, evt, ahead, under, wire, transacted,
                       done, abandoned, error, release>>
    BY DEF conn, broker, state
  <1>2. PICK where \in {"ok", "conclude"} :
          /\ Forget(c) /\ Goto(c, where) /\ messagesSent' \in Nat
          /\ got' \in [Calls -> Answers \cup {None, "assumed"}]
          /\ reported' \in [Messages -> Answers \cup {None, "unknown"}]
          /\ \A d \in Calls \ {c} : got'[d] = got[d] /\ \A m \in Own(d) : reported'[m] = reported[m]
          /\ c \in Batches => /\ where = "ok"
                              /\ \A m \in Own(c) : reported'[m] = "accepted" => results[m] = "accepted"
          /\ c \notin Batches => /\ reported' = reported
                                 /\ got'[c] \in Answers => results[Head(MessagesOf[c])] = got'[c]
                                 /\ got'[c] = None => ~connected
    <2>1. /\ got \in [Calls -> Answers \cup {None, "assumed"}] /\ messagesSent \in Nat
          /\ reported \in [Messages -> Answers \cup {None, "unknown"}]
      BY DEF IInv, TypeOK
    <2>2. CASE c \in Batches
      <3>1. PICK confirmed \in BOOLEAN : confirmed = WaitIsOver(c)
        BY DEF WaitIsOver
      <3>2. ReturnBatch(c, confirmed)
        BY <2>2, <3>1 DEF EndWait
      <3>3. QED
        BY <2>1, <2>2, <3>2, ReturnBatchFacts
    <2>3. CASE c \notin Batches
      <3>1. PICK m \in Messages : m = Head(MessagesOf[c])
        BY <2>3, OwnFacts
      <3>2. /\ got' = [got EXCEPT ![c] = IF Answered(m) THEN results[m]
                                         ELSE IF connected THEN "assumed" ELSE None]
            /\ Forget(c) /\ Goto(c, "conclude") /\ UNCHANGED <<messagesSent, reported>>
        BY <2>3, <3>1 DEF EndWait
      <3>3. /\ got' \in [Calls -> Answers \cup {None, "assumed"}]
            /\ \A d \in Calls \ {c} : got'[d] = got[d]
            /\ got'[c] \in Answers => results[m] = got'[c]
            /\ got'[c] = None => ~connected
        BY <2>1, <3>2, NoneFacts DEF Answered, None
      <3>4. QED
        BY <2>1, <2>3, <3>1, <3>2, <3>3
    <2>4. QED
      BY <2>2, <2>3
  <1>3. /\ pc' \in [Calls -> Active \cup {"idle", "ok", "failed"}] /\ pc'[c] = where
        /\ \A d \in Calls \ {c} : pc'[d] = pc[d]
        /\ c \in done /\ \A d \in Calls : AtWork(d)' <=> AtWork(d)
    <2>1. c \in done
      BY DEF IInv, Working, Once
    <2>2. where \in Active \cup {"idle", "ok", "failed"}
      BY DEF Active
    <2>3. QED
      BY <1>1, <1>2, <2>1, <2>2, GotoFacts DEF IInv, AtWork
  <1>4. /\ results' \in [Messages -> Answers \cup {None, "pending"}]
        /\ \A m \in Messages : results'[m] \in {results[m], None}
        /\ \A m \in Own(c) : results'[m] = None
    BY <1>2, ForgetFacts DEF IInv
  <1>5. TypeOK'
    BY <1>1, <1>2, <1>3, <1>4 DEF IInv, TypeOK
  <1>6. Working'
    BY <1>1, <1>3, SameJobs, WorkingKept
  <1>7. Accounted'
    <2>1. \A m \in Messages : /\ results'[m] # None => results[m] # None
                              /\ wire'[m] # "unsent" => wire[m] # "unsent"
      BY <1>1, <1>4
    <2>2. QED
      BY <1>1, <1>3, <1>4, <2>1, SameJobs, AccountedKept DEF IInv, Accounted
  <1>8. Sleepers'
    BY <1>1, <1>3, <1>4, NoneFacts, SleepersKept DEF IInv, Sleepers, TypeOK
  <1>9. Truth'
    <2>1. \A d \in Calls \ {c} : Found(d)'
      BY <1>1, <1>2, <1>3, FoundKept
    <2>2. /\ \A m \in Messages, a \in Answers : Said(m, a) => Said(m, a)'
          /\ "accepted" \in Answers
      BY <1>1, SaidKept DEF Answers
    <2>3. \A m \in Messages : results[m] \in Answers => Said(m, results[m])
      BY DEF IInv, Truth, Answered
    <2>4. Found(c) /\ Own(c) \subseteq Messages /\ (c \notin Batches => Head(MessagesOf[c]) \in Messages)
      BY OwnFacts DEF IInv, Truth
    <2>5. c \notin Batches /\ got'[c] \in Answers => Said(Head(MessagesOf[c]), got[c])'
      <3>1. SUFFICES ASSUME c \notin Batches, got'[c] \in Answers PROVE Said(Head(MessagesOf[c]), got[c])'
        OBVIOUS
      <3>2. PICK m \in Messages : m = Head(MessagesOf[c])
        BY <2>4, <3>1
      <3>3. PICK a \in Answers : a = got'[c]
        BY <3>1
      <3>4. Said(m, a)'
        BY <1>2, <2>2, <2>3, <3>1, <3>2, <3>3
      <3>5. QED
        BY <3>2, <3>3, <3>4 DEF Said
    <2>6. c \notin Batches => \A m \in Own(c) : reported'[m] # "rejected"
      BY <1>2, <2>4 DEF Found
    <2>7. c \in Batches => \A m \in Own(c) : reported'[m] = "accepted" => Said(m, "accepted")'
      BY <1>2, <2>2, <2>3, <2>4
    <2>8. Found(c)'
      BY <1>1, <1>2, <1>3, <2>5, <2>6, <2>7 DEF Found, Own, Said
    <2>9. \A m \in Messages : results'[m] \in Answers => results'[m] = results[m]
      BY <1>4, NoneFacts
    <2>10. QED
      BY <1>1, <2>1, <2>8, <2>9, TruthKept DEF IInv, Truth
  <1>10. QED
    BY <1>5, <1>6, <1>7, <1>8, <1>9 DEF IInv

\* A call that sleeps has no answer, on a connection that is there.
LEMMA TestConfirmInv == ASSUME IInv, NEW c \in Calls, TestConfirm(c) PROVE IInv'
  <1>1. TypeOK' /\ Working' /\ Accounted' /\ Sleepers' /\ Truth'
    <2>1. pc[c] = "confirm" /\ c \notin transacted /\ c \notin asleep
      BY DEF TestConfirm
    <2>2. CASE WaitIsOver(c)
      <3>1. EndWait(c) /\ UNCHANGED <<conn, jobs, evt, broker, transacted, state>>
        BY <2>2 DEF TestConfirm
      <3>2. asleep' = asleep \ {c}
        BY <2>1, <2>2 DEF TestConfirm
      <3> HIDE DEF IInv
      <3>3. IInv'
        BY <2>1, <3>1, <3>2, EndWaitInv
      <3>4. QED
        BY <3>3 DEF IInv
    <2>3. CASE ~WaitIsOver(c)
      <3>1. /\ asleep' = asleep \cup {c}
            /\ UNCHANGED <<connected, up, workQueue, opens, stale, leaked, jobs, evt, ahead, under, wire, results, messagesSent, pc,
                           transacted, done, abandoned, error, release, got, reported>>
        BY <2>3 DEF TestConfirm, conn, broker, counts, state
      <3>2. (\E m \in Own(c) : ~Answered(m)) /\ (c \in Batches \/ connected)
        BY <2>3 DEF WaitIsOver
      <3>3. TypeOK'
        BY <3>1 DEF IInv, TypeOK
      <3>4. Working'
        BY <3>1, SameJobs, WorkingKept
      <3>5. \A d \in Calls : AtWork(d)' <=> AtWork(d)
        BY <3>1 DEF AtWork
      <3>6. Accounted'
        BY <3>1, <3>5, SameJobs, AccountedKept DEF IInv, Accounted
      <3>7. Sleepers'
        BY <2>1, <3>1, <3>2 DEF IInv, Sleepers, Own, Answered
      <3>8. Truth'
        <4>1. \A d \in Calls : Found(d)'
          BY <3>1, FoundKept
        <4>2. QED
          BY <3>1, <4>1, TruthKept DEF IInv, Truth
      <3>9. QED
        BY <3>3, <3>4, <3>6, <3>7, <3>8
    <2>4. QED
      BY <2>2, <2>3
  <1>2. QED
    BY <1>1 DEF IInv

\* A call whose wait times out ends it as it is.
LEMMA ConfirmTimeOutInv == ASSUME IInv, NEW c \in Calls, ConfirmTimeOut(c) PROVE IInv'
  <1>1. TypeOK' /\ Working' /\ Accounted' /\ Sleepers' /\ Truth'
    <2>1. /\ pc[c] = "confirm" /\ asleep' = asleep \ {c} /\ EndWait(c)
          /\ UNCHANGED <<conn, jobs, evt, broker, transacted, state>>
      BY DEF ConfirmTimeOut
    <2>2. c \notin transacted
      BY DEF ConfirmTimeOut, IInv, Sleepers
    <2> HIDE DEF IInv
    <2>3. IInv'
      BY <2>1, <2>2, EndWaitInv
    <2>4. QED
      BY <2>3 DEF IInv
  <1>2. QED
    BY <1>1 DEF IInv

\* A call whose wait is cancelled leaves no results.
LEMMA CancelConfirmInv == ASSUME IInv, NEW c \in Calls, CancelConfirm(c) PROVE IInv'
  <1>1. /\ pc[c] = "confirm" /\ asleep' = asleep \ {c} /\ Forget(c) /\ Goto(c, "failed")
        /\ UNCHANGED <<connected, up, workQueue, opens, stale, leaked, jobs, evt, ahead, under, wire, messagesSent,
                       transacted, done, abandoned, error, release, got, reported>>
    BY DEF CancelConfirm, conn, broker, state
  <1>2. /\ pc' \in [Calls -> Active \cup {"idle", "ok", "failed"}] /\ pc'[c] = "failed"
        /\ \A d \in Calls \ {c} : pc'[d] = pc[d]
        /\ c \in done /\ \A d \in Calls : AtWork(d)' <=> AtWork(d)
    <2>1. c \in done
      BY <1>1 DEF IInv, Working, Once
    <2>2. QED
      BY <1>1, <2>1, GotoFacts DEF IInv, AtWork
  <1>3. /\ results' \in [Messages -> Answers \cup {None, "pending"}]
        /\ \A m \in Messages : results'[m] \in {results[m], None}
        /\ \A m \in Own(c) : results'[m] = None
    BY <1>1, ForgetFacts DEF IInv
  <1>4. TypeOK'
    BY <1>1, <1>2, <1>3 DEF IInv, TypeOK
  <1>5. Working'
    BY <1>1, <1>2, SameJobs, WorkingKept
  <1>6. Accounted'
    <2>1. \A m \in Messages : /\ results'[m] # None => results[m] # None
                              /\ wire'[m] # "unsent" => wire[m] # "unsent"
      BY <1>1, <1>3
    <2>2. QED
      BY <1>1, <1>2, <1>3, <2>1, SameJobs, AccountedKept DEF IInv, Accounted
  <1>7. Sleepers'
    BY <1>1, <1>2, <1>3, NoneFacts, SleepersKept DEF IInv, Sleepers, TypeOK
  <1>8. Truth'
    <2>1. \A d \in Calls : Found(d)'
      BY <1>1, <1>2, FoundKept
    <2>2. QED
      BY <1>1, <1>3, <2>1, NoneFacts, TruthKept DEF IInv, Truth
  <1>9. QED
    BY <1>4, <1>5, <1>6, <1>7, <1>8 DEF IInv

\* A send() reports a rejection that it found, or took for one on a later connection.
LEMMA ConcludeInv == ASSUME IInv, NEW c \in Calls, Conclude(c) PROVE IInv'
  <1>1. /\ pc[c] = "conclude"
        /\ UNCHANGED <<connected, up, workQueue, opens, stale, leaked, jobs, evt, ahead, under, wire, results, messagesSent,
                       transacted, asleep, done, abandoned, error, release, got>>
    BY DEF Conclude, conn, broker, counts, state
  <1>2. /\ Found(c) /\ c \notin Batches /\ c \in done /\ c \notin asleep
        /\ \A m \in Own(c) : results[m] = None
    BY <1>1 DEF IInv, Working, Once, Accounted, Account, Sleepers, Truth, Found
  <1>3. PICK m \in Messages : m = Head(MessagesOf[c]) /\ Own(c) = {m}
    BY <1>2, OwnFacts
  <1>4. PICK where \in {"ok", "failed"} :
          /\ Goto(c, where)
          /\ \/ reported' = reported
             \/ reported' = [reported EXCEPT ![m] = "accepted"]
             \/ /\ reported' = [reported EXCEPT ![m] = "rejected"]
                /\ got[c] = "rejected" \/ (got[c] = None /\ connected)
    BY <1>3 DEF Conclude, Report
  <1>5. /\ pc' \in [Calls -> Active \cup {"idle", "ok", "failed"}] /\ pc'[c] = where
        /\ \A d \in Calls \ {c} : pc'[d] = pc[d]
        /\ \A d \in Calls : AtWork(d)' <=> AtWork(d)
    BY <1>1, <1>4, GotoFacts DEF IInv, AtWork
  <1>6. /\ reported' \in [Messages -> Answers \cup {None, "unknown"}]
        /\ reported'[m] = "rejected" => \/ reported[m] = "rejected"
                                        \/ got[c] = "rejected" \/ (got[c] = None /\ connected)
        /\ \A d \in Calls \ {c} : \A n \in Own(d) : reported'[n] = reported[n]
    <2>1. reported \in [Messages -> Answers \cup {None, "unknown"}]
      BY DEF IInv, TypeOK
    <2>2. \A d \in Calls \ {c} : \A n \in Own(d) : n \in Messages /\ n # m
      BY <1>3, OwnFacts
    <2>3. {"accepted", "rejected"} = Answers
      BY DEF Answers
    <2>4. QED
      BY <1>4, <2>1, <2>2, <2>3
  <1>7. TypeOK'
    BY <1>1, <1>5, <1>6 DEF IInv, TypeOK
  <1>8. Working'
    BY <1>1, <1>2, <1>5, SameJobs, WorkingKept
  <1>9. Accounted'
    BY <1>1, <1>2, <1>5, SameJobs, AccountedKept DEF IInv, Accounted
  <1>10. Sleepers'
    BY <1>1, <1>2, <1>5, SleepersKept DEF IInv, Sleepers, TypeOK
  <1>11. Truth'
    <2>1. \A d \in Calls \ {c} : Found(d)'
      BY <1>1, <1>5, <1>6, FoundKept
    <2>2. \A n \in Messages, a \in Answers : Said(n, a) <=> Said(n, a)'
      BY <1>1 DEF Said
    <2>3. got[c] \in Answers => Said(m, got[c]) /\ Said(m, got[c])'
      BY <1>1, <1>2, <1>3 DEF Found, Said
    <2>4. reported'[m] = "rejected" => Said(m, "rejected")' \/ (got[c] = None /\ opens > 1)
      BY <1>1, <1>2, <1>3, <1>6, <2>2, <2>3 DEF Found, Answers
    <2>5. Found(c)'
      BY <1>1, <1>2, <1>3, <1>4, <1>5, <2>3, <2>4 DEF Found, Own, Said
    <2>6. QED
      BY <1>1, <2>1, <2>5, TruthKept DEF IInv, Truth
  <1>12. QED
    BY <1>7, <1>8, <1>9, <1>10, <1>11 DEF IInv

-----------------------------------------------------------------------------
(* The theorems                                                            *)

\* Nothing is sent before the first call.
LEMMA InitInv == Init => IInv
  <1>1. SUFFICES ASSUME Init PROVE IInv
    OBVIOUS
  <1>2. jobs = <<>> /\ <<>> \in Seq(Jobs) /\ DOMAIN jobs = {} /\ ahead = <<>> /\ evt = Idle
    BY <1>1 DEF Init
  <1>3. TypeOK
    BY <1>1, <1>2, EvtFacts, SendingAssumption DEF Init, TypeOK
  <1>4. Working
    BY <1>1, <1>2, EvtFacts DEF Init, Working, Once, Left, Unique, Queued, AtWork
  <1>5. Accounted
    BY <1>1, OwnFacts DEF Init, Accounted, Account
  <1>6. Sleepers
    BY <1>1 DEF Init, Sleepers
  <1>7. Truth
    <2>1. \A m \in Messages : ~Answered(m)
      BY <1>1, NoneFacts DEF Init, Answered
    <2>2. \A c \in Calls : Found(c)
      BY <1>1, OwnFacts, NoneFacts DEF Init, Found, None
    <2>3. QED
      BY <1>1, <2>1, <2>2 DEF Init, Truth
  <1>8. QED
    BY <1>3, <1>4, <1>5, <1>6, <1>7 DEF IInv

\* A step that changes no variable keeps the invariant.
LEMMA StutterInv == IInv /\ UNCHANGED vars => IInv'
  <1>1. SUFFICES ASSUME IInv, UNCHANGED vars PROVE IInv'
    OBVIOUS
  <1>2. UNCHANGED <<connected, up, workQueue, opens, stale, leaked, jobs, evt, ahead, under, wire, results, messagesSent,
                    pc, transacted, asleep, done, abandoned, error, release, got, reported>>
    BY <1>1 DEF vars, conn, broker, counts, callers, state
  <1>3. TypeOK'
    BY <1>1, <1>2 DEF IInv, TypeOK
  <1>4. Working'
    BY <1>1, <1>2, SameJobs, WorkingKept
  <1>5. \A d \in Calls : AtWork(d)' <=> AtWork(d)
    BY <1>2 DEF AtWork
  <1>6. Accounted'
    BY <1>1, <1>2, <1>5, SameJobs, AccountedKept DEF IInv, Accounted
  <1>7. Sleepers'
    BY <1>1, <1>2, SleepersKept DEF IInv, Sleepers
  <1>8. Truth'
    <2>1. \A d \in Calls : Found(d)'
      BY <1>1, <1>2, FoundKept
    <2>2. QED
      BY <1>1, <1>2, <2>1, TruthKept DEF IInv, Truth
  <1>9. QED
    BY <1>3, <1>4, <1>6, <1>7, <1>8 DEF IInv

\* Every step keeps the invariant.
LEMMA StepInv == IInv /\ [Next]_vars => IInv'
  <1>1. SUFFICES ASSUME IInv, [Next]_vars PROVE IInv'
    OBVIOUS
  <1>2. CASE EventThread
    BY <1>1, <1>2, RunWorkInv, SendMessageInv, FinishWorkInv, RunReleaseInv, WakeSendersInv DEF EventThread
  <1>3. CASE Broker
    BY <1>1, <1>3, GiveBackInv, AnswerInv DEF Broker
  <1>4. CASE Lose \/ OnError \/ Reopen
    BY <1>1, <1>4, LoseInv, OnErrorInv, ReopenInv
  <1>5. CASE \E c \in Calls : Caller(c)
    BY <1>1, <1>5, StartInv, WakeInv, GiveUpInv, ScheduleReleaseInv, ReturnTransactedInv, TestConfirmInv,
       ConfirmTimeOutInv, CancelConfirmInv, ConcludeInv DEF Caller
  <1>6. CASE UNCHANGED vars
    BY <1>1, <1>6, StutterInv
  <1>7. QED
    BY <1>1, <1>2, <1>3, <1>4, <1>5, <1>6 DEF Next

\* The inductive invariant holds of every state the system reaches.
LEMMA Invariant == Spec => []IInv
  <1>1. Init => IInv
    BY InitInv
  <1>2. IInv /\ [Next]_vars => IInv'
    BY StepInv
  <1>3. QED
    BY <1>1, <1>2, PTL DEF Spec

\* Every variable has the values its declaration says.
THEOREM TypeCorrect == Spec => []TypeOK
  <1>1. IInv => TypeOK
    BY DEF IInv
  <1>2. QED
    BY <1>1, Invariant, PTL

\* send() reports a rejection, and sendBatch() an acceptance, that the broker gave, with the one
\* exception of a connection that was lost and opened again.
THEOREM ReportsAreTrue == Spec => []ReportsHold
  <1>1. IInv => ReportsHold
    BY SendingAssumption DEF IInv, Truth, Found, ReportsHold
  <1>2. QED
    BY <1>1, Invariant, PTL

\* send_results_ holds nothing of a call that is over, unless its release is under way, or met a
\* connection that was closed.
THEOREM ResultsAreReleased == Spec => []NoStaleResult
  <1>1. ASSUME IInv PROVE NoStaleResult
    <2>1. SUFFICES ASSUME NEW c \in Calls, NEW m \in Own(c), results[m] # None,
                          pc[c] \notin Active
                   PROVE  Queued("release", c) \/ AtWork(c) \/ c \in leaked
      BY DEF NoStaleResult, Responsible
    <2>2. Account(c) /\ Once(c) /\ c \in release
      BY <1>1, <2>1, SendingAssumption DEF IInv, TypeOK, Working, Accounted, Account
    <2>3. pc[c] \in {"idle", "ok", "failed"}
      BY <1>1, <2>1 DEF IInv, TypeOK
    <2>4. pc[c] # "idle" /\ pc[c] # "ok"
      BY <2>1, <2>2 DEF Once, Account
    <2>5. QED
      BY <2>1, <2>2, <2>3, <2>4 DEF Account
  <1>2. QED
    BY <1>1, Invariant, PTL

\* Nobody sleeps on send_cv_ with its answer there, or, in send(), with the connection gone.
THEOREM NoLostWakeup == Spec => []SleepersUnanswered
  <1>1. IInv => SleepersUnanswered
    BY DEF IInv, Sleepers, SleepersUnanswered
  <1>2. QED
    BY <1>1, Invariant, PTL

=============================================================================
