------------------------- MODULE TaskExecutorProofs -------------------------
(***************************************************************************)
(* Proofs about TaskExecutor for every plan, every concurrency and every   *)
(* interleaving of the workers with the stop.                              *)
(***************************************************************************)
EXTENDS TaskExecutor, FiniteSetTheorems, TLAPS

\* The part of the type invariant the arguments below rest on.
TypeInv ==
  /\ next \in Nat
  /\ outcome \in [Tasks -> {"skipped", "succeeded", "failed"}]
  /\ pc \in [Workers -> Locations]
  /\ task \in [Workers -> Tasks \cup {None}]
  /\ stop \in BOOLEAN
  /\ verdict \in {"open", "finished", "canceled"}

Running(w) == pc[w] = "run"

\* A running task was claimed and has no outcome yet.
ClaimedIsOpen ==
  \A w \in Workers : Running(w) =>
    task[w] \in Tasks /\ task[w] < next /\ outcome[task[w]] = "skipped"

\* The index hands every task to one worker.
OneWorkerPerTask ==
  \A v, w \in Workers : Running(v) /\ Running(w) /\ v # w => task[v] # task[w]

\* What has not been claimed has no outcome.
UnclaimedIsOpen == \A t \in Tasks : next <= t => outcome[t] = "skipped"

\* What has been claimed is running or has one.
ClaimedIsServed ==
  \A t \in Tasks : t < next =>
    outcome[t] # "skipped" \/ \E w \in Workers : Running(w) /\ task[w] = t

\* A worker leaves for one of two reasons only.
LeftForAReason == \A w \in Workers : pc[w] = "exit" => stop \/ TaskCount <= next

\* The batch returned with no worker in its loop, and uncanceled only when the
\* plan was exhausted.
ReturnedAtRest ==
  /\ verdict # "open" => \A w \in Workers : pc[w] = "exit"
  /\ verdict = "finished" => TaskCount <= next

IInv ==
  /\ TypeInv
  /\ ClaimedIsOpen
  /\ OneWorkerPerTask
  /\ UnclaimedIsOpen
  /\ ClaimedIsServed
  /\ LeftForAReason
  /\ ReturnedAtRest

-----------------------------------------------------------------------------

\* resolveWorkerCount: a plan with tasks has a worker, whatever the concurrency.
LEMMA SomeWorker == TaskCount > 0 => 1 \in Workers
<1>1. ASSUME TaskCount > 0
      PROVE  ResolveWorkerCount \in Nat /\ ResolveWorkerCount >= 1
  BY <1>1, TaskExecutorAssumption DEF ResolveWorkerCount
<1>2. QED
  BY <1>1 DEF Workers

\* The invariant holds before any worker starts.
LEMMA InitInv == Init => IInv
<1> SUFFICES ASSUME Init
             PROVE  IInv
  OBVIOUS
<1>1. TypeInv
  BY DEF Init, TypeInv, Locations
<1>2. ClaimedIsOpen /\ OneWorkerPerTask /\ LeftForAReason
  BY DEF Init, ClaimedIsOpen, OneWorkerPerTask, LeftForAReason, Running
<1>3. UnclaimedIsOpen /\ ClaimedIsServed
  BY TaskExecutorAssumption DEF Init, UnclaimedIsOpen, ClaimedIsServed, Tasks
<1>4. ReturnedAtRest
  BY DEF Init, ReturnedAtRest
<1>5. QED
  BY <1>1, <1>2, <1>3, <1>4 DEF IInv

\* Every step of a worker, of the stop and of the caller keeps it.
LEMMA StepInv == IInv /\ [Next]_vars => IInv'
<1> SUFFICES ASSUME IInv, [Next]_vars
             PROVE  IInv'
  OBVIOUS
<1> USE TaskExecutorAssumption DEF IInv, TypeInv, Locations, Running
<1>1. ASSUME NEW w \in Workers, CheckStop(w)
      PROVE  IInv'
  <2>1. TypeInv' /\ ClaimedIsOpen'
    BY <1>1 DEF CheckStop, ClaimedIsOpen
  <2>2. OneWorkerPerTask'
    BY <1>1 DEF CheckStop, OneWorkerPerTask
  <2>3. UnclaimedIsOpen'
    BY <1>1 DEF CheckStop, UnclaimedIsOpen
  <2>4. ClaimedIsServed'
    BY <1>1 DEF CheckStop, ClaimedIsServed
  <2>5. LeftForAReason' /\ ReturnedAtRest'
    BY <1>1 DEF CheckStop, LeftForAReason, ReturnedAtRest
  <2>6. QED
    BY <2>1, <2>2, <2>3, <2>4, <2>5
<1>2. ASSUME NEW w \in Workers, Claim(w)
      PROVE  IInv'
  <2>0. next < TaskCount => next \in Tasks
    BY DEF Tasks
  <2>1. TypeInv'
    BY <1>2, <2>0 DEF Claim
  <2>2. ClaimedIsOpen'
    BY <1>2, <2>0 DEF Claim, ClaimedIsOpen, UnclaimedIsOpen, Tasks
  <2>3. OneWorkerPerTask'
    BY <1>2, <2>0 DEF Claim, OneWorkerPerTask, ClaimedIsOpen, Tasks
  <2>4. UnclaimedIsOpen'
    BY <1>2 DEF Claim, UnclaimedIsOpen, Tasks
  <2>5. ClaimedIsServed'
    <3> SUFFICES ASSUME NEW t \in Tasks, t < next', outcome'[t] = "skipped"
                 PROVE  \E v \in Workers : pc'[v] = "run" /\ task'[v] = t
      BY DEF ClaimedIsServed
    <3>1. CASE t = next
      BY <1>2, <3>1 DEF Claim, Tasks
    <3>2. CASE t < next
      <4>1. PICK v \in Workers : pc[v] = "run" /\ task[v] = t
        BY <1>2, <3>2 DEF ClaimedIsServed, Claim
      <4>2. v # w
        BY <1>2, <4>1 DEF Claim
      <4>3. QED
        BY <1>2, <4>1, <4>2 DEF Claim
    <3>3. QED
      BY <1>2, <3>1, <3>2 DEF Claim, Tasks
  <2>6. LeftForAReason' /\ ReturnedAtRest'
    BY <1>2 DEF Claim, LeftForAReason, ReturnedAtRest
  <2>7. QED
    BY <2>1, <2>2, <2>3, <2>4, <2>5, <2>6
<1>3. ASSUME NEW w \in Workers, Run(w)
      PROVE  IInv'
  <2>0. task[w] \in Tasks /\ task[w] < next /\ task' = task /\ next' = next
    BY <1>3 DEF Run, ClaimedIsOpen
  <2>1. TypeInv'
    BY <1>3, <2>0 DEF Run
  <2>2. ClaimedIsOpen'
    BY <1>3, <2>0 DEF Run, ClaimedIsOpen, OneWorkerPerTask
  <2>3. OneWorkerPerTask'
    BY <1>3 DEF Run, OneWorkerPerTask
  <2>4. UnclaimedIsOpen'
    BY <1>3, <2>0 DEF Run, UnclaimedIsOpen, Tasks
  <2>5. ClaimedIsServed'
    <3> SUFFICES ASSUME NEW t \in Tasks, t < next, outcome'[t] = "skipped"
                 PROVE  \E v \in Workers : pc'[v] = "run" /\ task[v] = t
      BY <2>0 DEF ClaimedIsServed
    <3>1. t # task[w] /\ outcome[t] = "skipped"
      BY <1>3, <2>0 DEF Run
    <3>2. PICK v \in Workers : pc[v] = "run" /\ task[v] = t
      BY <3>1 DEF ClaimedIsServed
    <3>3. QED
      BY <1>3, <3>1, <3>2 DEF Run
  <2>6. LeftForAReason' /\ ReturnedAtRest'
    BY <1>3 DEF Run, LeftForAReason, ReturnedAtRest
  <2>7. QED
    BY <2>1, <2>2, <2>3, <2>4, <2>5, <2>6
<1>4. ASSUME NEW w \in Workers, Count(w) \/ Notify(w)
      PROVE  IInv'
  <2>1. /\ UNCHANGED <<next, outcome, task, stop, verdict>>
        /\ pc[w] \in {"count", "notify"}
        /\ pc' \in {[pc EXCEPT ![w] = "notify"], [pc EXCEPT ![w] = "check"]}
    BY <1>4 DEF Count, Notify
  <2>2. TypeInv' /\ ClaimedIsOpen'
    BY <2>1 DEF ClaimedIsOpen
  <2>3. OneWorkerPerTask'
    BY <2>1 DEF OneWorkerPerTask
  <2>4. UnclaimedIsOpen'
    BY <2>1 DEF UnclaimedIsOpen
  <2>5. ClaimedIsServed'
    BY <2>1 DEF ClaimedIsServed
  <2>6. LeftForAReason' /\ ReturnedAtRest'
    BY <2>1 DEF LeftForAReason, ReturnedAtRest
  <2>7. QED
    BY <2>2, <2>3, <2>4, <2>5, <2>6
<1>5. CASE RequestStop
  BY <1>5 DEF RequestStop, ClaimedIsOpen, OneWorkerPerTask, UnclaimedIsOpen,
              ClaimedIsServed, LeftForAReason, ReturnedAtRest
<1>6. CASE Return
  <2>1. UNCHANGED <<next, outcome, pc, task, stop>>
    BY <1>6 DEF Return
  <2>2. TypeInv' /\ ClaimedIsOpen' /\ OneWorkerPerTask' /\ UnclaimedIsOpen'
    BY <1>6, <2>1 DEF Return, ClaimedIsOpen, OneWorkerPerTask, UnclaimedIsOpen
  <2>3. ClaimedIsServed' /\ LeftForAReason'
    BY <2>1 DEF ClaimedIsServed, LeftForAReason
  <2>4. ReturnedAtRest'
    BY <1>6, <2>1, SomeWorker DEF Return, ReturnedAtRest, LeftForAReason
  <2>5. QED
    BY <2>2, <2>3, <2>4
<1>7. CASE UNCHANGED vars
  BY <1>7 DEF vars, ClaimedIsOpen, OneWorkerPerTask, UnclaimedIsOpen,
              ClaimedIsServed, LeftForAReason, ReturnedAtRest
<1>8. QED
  BY <1>1, <1>2, <1>3, <1>4, <1>5, <1>6, <1>7 DEF Next, Step

\* So it holds in every state of every batch.
THEOREM Invariance == Spec => []IInv
  BY InitInv, StepInv, PTL DEF Spec

-----------------------------------------------------------------------------

\* The executor runs each task on one worker and never again once it finished:
\* the unlocked writes of the outcome vector do not meet.
THEOREM TasksAreExclusive == Spec => []Exclusive
<1>1. IInv => Exclusive
  BY DEF IInv, Exclusive, ClaimedIsOpen, OneWorkerPerTask, Recorded, Running
<1>2. QED
  BY <1>1, Invariance, PTL

\* A batch that returns uncanceled has an outcome for every task.
THEOREM UncanceledIsComplete == Spec => []SkippedOnlyByStop
<1>1. IInv => SkippedOnlyByStop
  <2> SUFFICES ASSUME IInv, verdict = "finished", NEW t \in Tasks
               PROVE  outcome[t] # "skipped"
    BY DEF SkippedOnlyByStop, Recorded
  <2>1. t < next
    BY TaskExecutorAssumption DEF IInv, TypeInv, ReturnedAtRest, Tasks
  <2>2. \A w \in Workers : ~Running(w)
    BY DEF IInv, ReturnedAtRest, Running
  <2>3. QED
    BY <2>1, <2>2 DEF IInv, ClaimedIsServed
<1>2. QED
  BY <1>1, Invariance, PTL

-----------------------------------------------------------------------------

\* The workers, the shared index and the shared count implement the batch: a
\* claim that takes a task starts it, the recorded outcome finishes it, and the
\* caller's return closes the batch.
THEOREM BatchIsImplemented == Spec => ImplementsBatch
<1> USE TaskExecutorAssumption
<1> DEFINE started == IF next < TaskCount THEN next ELSE TaskCount
           slot    == [w \in Workers |-> IF pc[w] = "run" THEN task[w] ELSE None]
<1>1. Init => Batch!BatchInit
  BY DEF Init, Batch!BatchInit, Batch!Tasks, Tasks
<1>2. IInv /\ [Next]_vars => [Batch!BatchNext]_(Batch!batchVars)
  <2> SUFFICES ASSUME IInv, [Next]_vars
               PROVE  Batch!BatchNext \/ UNCHANGED Batch!batchVars
    OBVIOUS
  <2> USE DEF IInv, TypeInv
  <2>1. ASSUME NEW w \in Workers, CheckStop(w) \/ Count(w) \/ Notify(w)
        PROVE  UNCHANGED Batch!batchVars
    BY <2>1 DEF CheckStop, Count, Notify, Batch!batchVars
  <2>2. ASSUME NEW w \in Workers, Claim(w), next < TaskCount
        PROVE  Batch!Start(w)
    <3>1. slot[w] = None /\ started = next /\ started < TaskCount
      BY <2>2 DEF Claim
    <3>2. started' = next + 1
      BY <2>2 DEF Claim
    <3>3. slot' = [slot EXCEPT ![w] = next]
      BY <2>2 DEF Claim
    <3>4. QED
      BY <2>2, <3>1, <3>2, <3>3 DEF Claim, Batch!Start
  <2>3. ASSUME NEW w \in Workers, Claim(w), ~(next < TaskCount)
        PROVE  UNCHANGED Batch!batchVars
    BY <2>3 DEF Claim, Batch!batchVars
  <2>4. ASSUME NEW w \in Workers, Run(w)
        PROVE  Batch!Finish(w)
    <3>1. task[w] \in Tasks /\ task[w] # None
      BY <2>4 DEF Run, ClaimedIsOpen, Running, Tasks
    <3>2. slot[w] = task[w]
      BY <2>4 DEF Run
    <3>3. slot' = [slot EXCEPT ![w] = None]
      BY <2>4 DEF Run
    <3>4. QED
      BY <2>4, <3>1, <3>2, <3>3 DEF Run, Batch!Finish
  <2>5. ASSUME RequestStop
        PROVE  Batch!RequestStop
    BY <2>5 DEF RequestStop, Batch!RequestStop
  <2>6. ASSUME Return
        PROVE  Batch!Close
    <3>1. started = TaskCount \/ stop
      <4>1. CASE TaskCount = 0
        BY <4>1
      <4>2. CASE TaskCount > 0
        BY <4>2, <2>6, SomeWorker DEF Return, LeftForAReason
      <4>3. QED
        BY <4>1, <4>2
    <3>2. \A w \in Workers : slot[w] = None
      BY <2>6 DEF Return
    <3>3. started' = started /\ slot' = slot
      BY <2>6 DEF Return
    <3>4. QED
      BY <2>6, <3>1, <3>2, <3>3 DEF Return, Batch!Close
  <2>7. CASE UNCHANGED vars
    BY <2>7 DEF vars, Batch!batchVars
  <2>8. QED
    BY <2>1, <2>2, <2>3, <2>4, <2>5, <2>6, <2>7 DEF Next, Step, Batch!BatchNext
<1>3. QED
  BY <1>1, <1>2, Invariance, PTL DEF Spec, ImplementsBatch, Batch!BatchSpec

-----------------------------------------------------------------------------
(* Counting: how far a stop lets the index run, and what the hook announces *)

At(l) == {w \in Workers : pc[w] = l}

\* Every recorded task was counted or is about to be, by the worker that ran it.
CountsAddUp == attempted \in Nat /\ attempted + Cardinality(At("count")) = Cardinality(Recorded)

\* Every count was announced or is about to be, by the worker that read it.
CallsAddUp ==
  /\ reported \in Seq(Nat)
  /\ Len(reported) + Cardinality(At("notify")) = attempted

\* The counts read and the counts announced are all different.
CountsDiffer ==
  /\ finished \in [Workers -> Nat]
  /\ \A w \in At("notify") : finished[w] <= attempted
  /\ \A i \in DOMAIN reported : reported[i] <= attempted
  /\ \A v, w \in At("notify") : v # w => finished[v] # finished[w]
  /\ \A i \in DOMAIN reported : \A w \in At("notify") : reported[i] # finished[w]
  /\ \A i, j \in DOMAIN reported : i # j => reported[i] # reported[j]

\* After a stop only the workers that had already looked at the flag claim.
ClaimsRunOut ==
  /\ atStop \in Nat
  /\ stop => next + Cardinality(At("claim")) <= atStop + ResolveWorkerCount

CountingInv == IInv /\ CountsAddUp /\ CallsAddUp /\ CountsDiffer /\ ClaimsRunOut

LEMMA WorkersAreFinite ==
  /\ ResolveWorkerCount \in Nat
  /\ IsFiniteSet(Workers) /\ Cardinality(Workers) = ResolveWorkerCount
  /\ IsFiniteSet(Tasks)
<1>1. ResolveWorkerCount \in Nat
  BY TaskExecutorAssumption DEF ResolveWorkerCount
<1>2. IsFiniteSet(Workers) /\ Cardinality(Workers) = ResolveWorkerCount
  BY <1>1, FS_Interval DEF Workers
<1>3. IsFiniteSet(Tasks)
  BY TaskExecutorAssumption, FS_Interval DEF Tasks
<1>4. QED
  BY <1>1, <1>2, <1>3

LEMMA WorkersAtPlace ==
  ASSUME NEW W, W \subseteq Workers
  PROVE  IsFiniteSet(W) /\ Cardinality(W) \in Nat /\ Cardinality(W) <= ResolveWorkerCount
<1>1. IsFiniteSet(W) /\ Cardinality(W) <= Cardinality(Workers)
  BY WorkersAreFinite, FS_Subset
<1>2. QED
  BY <1>1, WorkersAreFinite, FS_CardinalityType

LEMMA TasksAreCounted ==
  ASSUME NEW T, T \subseteq Tasks
  PROVE  IsFiniteSet(T) /\ Cardinality(T) \in Nat
BY WorkersAreFinite, FS_Subset, FS_CardinalityType

\* A worker that leaves one place for another changes the count of both by one.
LEMMA WorkerMoves ==
  ASSUME IInv, NEW w \in Workers, NEW from, NEW to, from # to,
         pc[w] = from, pc' = [pc EXCEPT ![w] = to]
  PROVE  /\ Cardinality(At(from)') = Cardinality(At(from)) - 1
         /\ Cardinality(At(to)') = Cardinality(At(to)) + 1
         /\ \A l : l \notin {from, to} => At(l)' = At(l)
<1> USE DEF IInv, TypeInv, At
<1>1. /\ {v \in Workers : pc'[v] = from} = At(from) \ {w} /\ w \in At(from)
      /\ {v \in Workers : pc'[v] = to} = At(to) \cup {w} /\ w \notin At(to)
      /\ \A l : l \notin {from, to} => {v \in Workers : pc'[v] = l} = At(l)
  OBVIOUS
<1>2. IsFiniteSet(At(from)) /\ IsFiniteSet(At(to))
  BY WorkersAtPlace
<1>3. Cardinality(At(from) \ {w}) = Cardinality(At(from)) - 1
  BY <1>1, <1>2, FS_RemoveElement
<1>4. Cardinality(At(to) \cup {w}) = Cardinality(At(to)) + 1
  BY <1>1, <1>2, FS_AddElement
<1>5. QED
  BY <1>1, <1>3, <1>4

LEMMA CountingBegins == Init => CountingInv
<1> SUFFICES ASSUME Init
             PROVE  CountingInv
  OBVIOUS
<1>1. At("count") = {} /\ At("notify") = {} /\ Recorded = {}
  BY DEF Init, At, Recorded
<1>2. Cardinality(At("count")) = 0 /\ Cardinality(At("notify")) = 0 /\ Cardinality(Recorded) = 0
  BY <1>1, FS_EmptySet
<1>3. CountsAddUp /\ CallsAddUp
  BY <1>2 DEF Init, CountsAddUp, CallsAddUp
<1>4. CountsDiffer /\ ClaimsRunOut
  BY <1>1 DEF Init, CountsDiffer, ClaimsRunOut
<1>5. QED
  BY <1>3, <1>4, InitInv DEF CountingInv

\* The flag, the index and the runner leave the counts alone, but for the worker
\* that comes to have something to count.
LEMMA CountsAreKept ==
  ASSUME CountingInv, UNCHANGED <<attempted, finished, reported>>, At("notify")' = At("notify")
  PROVE  CallsAddUp' /\ CountsDiffer'
<1>1. CallsAddUp'
  BY DEF CountingInv, CallsAddUp
<1>2. CountsDiffer'
  BY DEF CountingInv, CountsDiffer
<1>3. QED
  BY <1>1, <1>2

LEMMA CountingStep == CountingInv /\ [Next]_vars => CountingInv'
<1> SUFFICES ASSUME CountingInv, [Next]_vars
             PROVE  CountingInv'
  OBVIOUS
<1>1. IInv /\ IInv' /\ TypeInv
  BY StepInv DEF CountingInv, IInv
<1>2. /\ Cardinality(At("claim")) \in Nat /\ Cardinality(At("claim")) <= ResolveWorkerCount
      /\ Cardinality(At("count")) \in Nat /\ Cardinality(At("notify")) \in Nat
      /\ ResolveWorkerCount \in Nat
  BY WorkersAtPlace, WorkersAreFinite DEF At
<1> USE DEF TypeInv
<1>3. ASSUME NEW w \in Workers, CheckStop(w)
      PROVE  CountingInv'
  <2>1. PICK to \in {"exit", "claim"} : /\ pc[w] = "check" /\ pc' = [pc EXCEPT ![w] = to]
                                        /\ stop => to = "exit"
    BY <1>3 DEF CheckStop
  <2>2. /\ At("count")' = At("count") /\ At("notify")' = At("notify")
        /\ to = "exit" => At("claim")' = At("claim")
    BY <1>1, <2>1, WorkerMoves DEF At
  <2>3. UNCHANGED <<attempted, outcome, finished, reported, next, stop, atStop>>
    BY <1>3 DEF CheckStop
  <2>4. CountsAddUp'
    BY <2>2, <2>3 DEF CountingInv, CountsAddUp, Recorded
  <2>5. ClaimsRunOut'
    BY <2>1, <2>2, <2>3 DEF CountingInv, ClaimsRunOut
  <2>6. QED
    BY <1>1, <2>2, <2>3, <2>4, <2>5, CountsAreKept DEF CountingInv
<1>4. ASSUME NEW w \in Workers, Claim(w)
      PROVE  CountingInv'
  <2>1. PICK to \in {"exit", "run"} : pc[w] = "claim" /\ pc' = [pc EXCEPT ![w] = to]
    BY <1>4 DEF Claim
  <2>2. /\ At("count")' = At("count") /\ At("notify")' = At("notify")
        /\ Cardinality(At("claim")') = Cardinality(At("claim")) - 1
    <3>1. At("count")' = At("count") /\ At("notify")' = At("notify")
      BY <1>1, <2>1 DEF At
    <3>2. Cardinality(At("claim")') = Cardinality(At("claim")) - 1
      BY <1>1, <2>1, WorkerMoves
    <3>3. QED
      BY <3>1, <3>2
  <2>3. UNCHANGED <<attempted, outcome, finished, reported, stop, atStop>> /\ next' = next + 1
    BY <1>4 DEF Claim
  <2>4. CountsAddUp'
    BY <2>2, <2>3 DEF CountingInv, CountsAddUp, Recorded
  <2>5. ClaimsRunOut'
    <3>1. CASE stop
      <4>1. next' + Cardinality(At("claim")') = next + Cardinality(At("claim"))
        BY <1>1, <1>2, <2>2, <2>3
      <4>2. QED
        BY <2>3, <3>1, <4>1 DEF CountingInv, ClaimsRunOut
    <3>2. CASE ~stop
      BY <2>3, <3>2 DEF CountingInv, ClaimsRunOut
    <3>3. QED
      BY <3>1, <3>2
  <2>6. QED
    BY <1>1, <2>2, <2>3, <2>4, <2>5, CountsAreKept DEF CountingInv
<1>5. ASSUME NEW w \in Workers, Run(w)
      PROVE  CountingInv'
  <2>1. pc[w] = "run" /\ pc' = [pc EXCEPT ![w] = "count"]
    BY <1>5 DEF Run
  <2>2. /\ At("notify")' = At("notify") /\ At("claim")' = At("claim")
        /\ Cardinality(At("count")') = Cardinality(At("count")) + 1
    <3>1. At("notify")' = At("notify") /\ At("claim")' = At("claim")
      BY <1>1, <2>1 DEF At
    <3>2. Cardinality(At("count")') = Cardinality(At("count")) + 1
      BY <1>1, <2>1, WorkerMoves
    <3>3. QED
      BY <3>1, <3>2
  <2>3. UNCHANGED <<attempted, finished, reported, next, stop, atStop>>
    BY <1>5 DEF Run
  <2>4. Cardinality(Recorded') = Cardinality(Recorded) + 1
    <3>1. task[w] \in Tasks /\ task[w] \notin Recorded
      BY <1>1, <2>1 DEF IInv, ClaimedIsOpen, Running, Recorded
    <3>2. Recorded' = Recorded \cup {task[w]}
      BY <1>1, <1>5, <3>1 DEF Run, Recorded
    <3>3. IsFiniteSet(Recorded)
      BY TasksAreCounted DEF Recorded
    <3>4. QED
      BY <3>1, <3>2, <3>3, FS_AddElement
  <2>5. CountsAddUp'
    <3>1. Cardinality(Recorded) \in Nat
      BY TasksAreCounted DEF Recorded
    <3>2. QED
      BY <1>2, <2>2, <2>3, <2>4, <3>1 DEF CountingInv, CountsAddUp
  <2>6. ClaimsRunOut'
    BY <2>2, <2>3 DEF CountingInv, ClaimsRunOut
  <2>7. QED
    BY <1>1, <2>2, <2>3, <2>5, <2>6, CountsAreKept DEF CountingInv
<1>6. ASSUME NEW w \in Workers, Count(w)
      PROVE  CountingInv'
  <2>1. pc[w] = "count" /\ pc' = [pc EXCEPT ![w] = "notify"]
    BY <1>6 DEF Count
  <2>2. /\ At("claim")' = At("claim")
        /\ Cardinality(At("count")') = Cardinality(At("count")) - 1
        /\ Cardinality(At("notify")') = Cardinality(At("notify")) + 1
    <3>1. At("claim")' = At("claim")
      BY <1>1, <2>1 DEF At
    <3>2. /\ Cardinality(At("count")') = Cardinality(At("count")) - 1
          /\ Cardinality(At("notify")') = Cardinality(At("notify")) + 1
      BY <1>1, <2>1, WorkerMoves
    <3>3. QED
      BY <3>1, <3>2
  <2>3. /\ UNCHANGED <<outcome, reported, next, stop, atStop>> /\ attempted' = attempted + 1
        /\ finished' = [finished EXCEPT ![w] = attempted + 1]
    BY <1>6 DEF Count
  <2>4. CountsAddUp'
    BY <1>2, <2>2, <2>3 DEF CountingInv, CountsAddUp, Recorded
  <2>5. CallsAddUp'
    BY <1>2, <2>2, <2>3 DEF CountingInv, CallsAddUp, CountsAddUp
  <2>6. CountsDiffer'
    <3>1. At("notify")' = At("notify") \cup {w} /\ w \notin At("notify")
      BY <1>1, <2>1 DEF At
    <3>2. attempted \in Nat /\ reported \in Seq(Nat) /\ CountsDiffer
      BY DEF CountingInv, CountsAddUp, CallsAddUp
    <3>3. \A i \in DOMAIN reported : reported[i] \in Nat
      BY <3>2
    <3>4. \A v \in At("notify") : finished'[v] = finished[v] /\ finished[v] \in Nat
      BY <2>3, <3>1, <3>2 DEF CountsDiffer, At
    <3>5. finished'[w] = attempted + 1 /\ finished' \in [Workers -> Nat]
      BY <2>3, <3>2 DEF CountsDiffer
    <3>6. QED
      BY <2>3, <3>1, <3>2, <3>3, <3>4, <3>5 DEF CountsDiffer
  <2>7. ClaimsRunOut'
    BY <2>2, <2>3 DEF CountingInv, ClaimsRunOut
  <2>8. QED
    BY <1>1, <2>4, <2>5, <2>6, <2>7 DEF CountingInv
<1>7. ASSUME NEW w \in Workers, Notify(w)
      PROVE  CountingInv'
  <2>1. pc[w] = "notify" /\ pc' = [pc EXCEPT ![w] = "check"]
    BY <1>7 DEF Notify
  <2>2. /\ At("claim")' = At("claim") /\ At("count")' = At("count")
        /\ Cardinality(At("notify")') = Cardinality(At("notify")) - 1
    <3>1. At("claim")' = At("claim") /\ At("count")' = At("count")
      BY <1>1, <2>1 DEF At
    <3>2. Cardinality(At("notify")') = Cardinality(At("notify")) - 1
      BY <1>1, <2>1, WorkerMoves
    <3>3. QED
      BY <3>1, <3>2
  <2>3. /\ UNCHANGED <<outcome, attempted, finished, next, stop, atStop>>
        /\ reported' = Append(reported, finished[w])
    BY <1>7 DEF Notify
  <2>4. reported \in Seq(Nat) /\ finished[w] \in Nat /\ CountsDiffer /\ attempted \in Nat
    BY DEF CountingInv, CallsAddUp, CountsDiffer, CountsAddUp
  <2>5. /\ reported' \in Seq(Nat) /\ Len(reported') = Len(reported) + 1 /\ Len(reported) \in Nat
        /\ DOMAIN reported = 1..Len(reported) /\ DOMAIN reported' = 1..(Len(reported) + 1)
        /\ \A i \in 1..Len(reported) : reported'[i] = reported[i]
        /\ reported'[Len(reported) + 1] = finished[w]
    BY <2>3, <2>4
  <2>6. CountsAddUp'
    BY <2>2, <2>3 DEF CountingInv, CountsAddUp, Recorded
  <2>7. CallsAddUp'
    BY <1>2, <2>2, <2>3, <2>5 DEF CountingInv, CallsAddUp
  <2>8. CountsDiffer'
    <3>1. At("notify")' = At("notify") \ {w} /\ w \in At("notify")
      BY <1>1, <2>1 DEF At
    <3>2. \A i \in DOMAIN reported' : i \in DOMAIN reported \/ i = Len(reported) + 1
      BY <2>5
    <3>3. /\ \A v \in At("notify")' : finished'[v] <= attempted'
          /\ \A v, x \in At("notify")' : v # x => finished'[v] # finished'[x]
          /\ finished' \in [Workers -> Nat]
      BY <2>3, <2>4, <3>1 DEF CountsDiffer
    <3>4. \A i \in DOMAIN reported' : reported'[i] <= attempted'
      BY <2>3, <2>4, <2>5, <3>1, <3>2 DEF CountsDiffer
    <3>5. \A i \in DOMAIN reported' : \A v \in At("notify")' : reported'[i] # finished'[v]
      BY <2>3, <2>4, <2>5, <3>1, <3>2 DEF CountsDiffer
    <3>6. \A i, j \in DOMAIN reported' : i # j => reported'[i] # reported'[j]
      BY <2>3, <2>4, <2>5, <3>1, <3>2 DEF CountsDiffer
    <3>7. QED
      BY <3>3, <3>4, <3>5, <3>6 DEF CountsDiffer
  <2>9. ClaimsRunOut'
    BY <2>2, <2>3 DEF CountingInv, ClaimsRunOut
  <2>10. QED
    BY <1>1, <2>6, <2>7, <2>8, <2>9 DEF CountingInv
<1>8. ASSUME RequestStop \/ Return \/ UNCHANGED vars
      PROVE  CountingInv'
  <2>1. UNCHANGED <<outcome, attempted, finished, reported, next, pc>>
    BY <1>8 DEF RequestStop, Return, vars
  <2>2. \A l : At(l)' = At(l)
    BY <2>1 DEF At
  <2>3. CountsAddUp'
    BY <2>1, <2>2 DEF CountingInv, CountsAddUp, Recorded
  <2>4. ClaimsRunOut'
    BY <1>1, <1>2, <1>8, <2>1, <2>2 DEF RequestStop, Return, vars, CountingInv, ClaimsRunOut
  <2>5. QED
    BY <1>1, <2>1, <2>2, <2>3, <2>4, CountsAreKept DEF CountingInv
<1>9. QED
  BY <1>3, <1>4, <1>5, <1>6, <1>7, <1>8 DEF Next, Step

LEMMA CountingHolds == Spec => []CountingInv
  BY CountingBegins, CountingStep, PTL DEF Spec

\* A stop costs at most one more index per worker, whatever the length of the plan.
THEOREM StopsArePrompt == Spec => []StopIsPrompt
<1>1. CountingInv => StopIsPrompt
  <2>1. Cardinality(At("claim")) \in Nat /\ ResolveWorkerCount \in Nat
    BY WorkersAtPlace, WorkersAreFinite DEF At
  <2>2. QED
    BY <2>1 DEF CountingInv, IInv, TypeInv, ClaimsRunOut, StopIsPrompt
<1>2. QED
  BY <1>1, CountingHolds, PTL

\* The hook announces each count once, never one that is ahead of the outcomes, and
\* has announced all of them when the batch returns.
THEOREM HooksAreTruthful == Spec => []HookIsTruthful
<1>1. CountingInv => HookIsTruthful
  <2> SUFFICES ASSUME CountingInv
               PROVE  HookIsTruthful
    OBVIOUS
  <2>1. /\ Cardinality(At("count")) \in Nat /\ Cardinality(Recorded) \in Nat
        /\ Cardinality(At("notify")) \in Nat
    BY WorkersAtPlace, TasksAreCounted DEF At, Recorded
  <2>2. attempted <= Cardinality(Recorded) /\ attempted \in Nat
    BY <2>1 DEF CountingInv, CountsAddUp
  <2>3. \A i \in DOMAIN reported : reported[i] \in Nat /\ reported[i] <= attempted
    BY DEF CountingInv, CallsAddUp, CountsDiffer
  <2>4. \A i \in DOMAIN reported : reported[i] <= Cardinality(Recorded)
    BY <2>1, <2>2, <2>3
  <2>5. ASSUME verdict # "open"
        PROVE  attempted = Cardinality(Recorded) /\ Len(reported) = attempted
    <3>1. At("count") = {} /\ At("notify") = {}
      BY <2>5 DEF CountingInv, IInv, ReturnedAtRest, At
    <3>2. Cardinality(At("count")) = 0 /\ Cardinality(At("notify")) = 0
      BY <3>1, FS_EmptySet
    <3>3. Len(reported) \in Nat
      BY DEF CountingInv, CallsAddUp
    <3>4. QED
      BY <2>1, <3>2, <3>3 DEF CountingInv, CountsAddUp, CallsAddUp
  <2>6. QED
    BY <2>4, <2>5 DEF HookIsTruthful, CountingInv, CountsDiffer
<1>2. QED
  BY <1>1, CountingHolds, PTL

=============================================================================
