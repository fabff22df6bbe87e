---------------------------- MODULE TaskExecutor ----------------------------
(***************************************************************************)
(* taskexec::runTasks (src/core/task_executor.cpp): a pool of workers that *)
(* share an index into the plan and a count of finished tasks, both atomic *)
(* and nothing else, and a stop flag that anyone may raise.  Each step of  *)
(* the worker loop that another thread can observe is an action.           *)
(***************************************************************************)
EXTENDS Naturals, Sequences, FiniteSets

CONSTANTS
  TaskCount,       (* plan.tasks.size()                                     *)
  MaxConcurrency,  (* plan.maxConcurrency                                   *)
  None             (* no task                                               *)

ASSUME TaskExecutorAssumption ==
  /\ TaskCount \in Nat
  /\ MaxConcurrency \in Nat
  /\ None \notin Nat

ResolveWorkerCount ==
  LET wanted == IF MaxConcurrency = 0 THEN 1 ELSE MaxConcurrency
  IN  IF TaskCount < wanted THEN TaskCount ELSE wanted

Workers == 1..ResolveWorkerCount
Tasks   == 0..(TaskCount - 1)

VARIABLES
  next,       (* nextIndex                                                  *)
  attempted,  (* attemptedCount                                             *)
  outcome,    (* outcomes: TaskState of each task                           *)
  pc,         (* where each worker is in its loop                           *)
  task,       (* the index the worker claimed                               *)
  finished,   (* the count the worker read when it added its own            *)
  reported,   (* the counts the completion hook was called with, in order   *)
  stop,       (* the stop flag                                              *)
  verdict,    (* "open", or what runTasks returned as canceled              *)
  atStop      (* history: the value of next when the stop was raised        *)

vars == <<next, attempted, outcome, pc, task, finished, reported, stop, verdict,
          atStop>>

Locations == {"check", "claim", "run", "count", "notify", "exit"}

Init ==
  /\ next = 0
  /\ attempted = 0
  /\ outcome = [t \in Tasks |-> "skipped"]
  /\ pc = [w \in Workers |-> "check"]
  /\ task = [w \in Workers |-> None]
  /\ finished = [w \in Workers |-> 0]
  /\ reported = <<>>
  /\ stop = FALSE
  /\ verdict = "open"
  /\ atStop = 0

\* isStopRequested, at the top of the loop.
CheckStop(w) ==
  /\ pc[w] = "check"
  /\ pc' = [pc EXCEPT ![w] = IF stop THEN "exit" ELSE "claim"]
  /\ UNCHANGED <<next, attempted, outcome, task, finished, reported, stop, verdict, atStop>>

\* Mutant: the index is read and advanced in two steps, so two workers may get
\* the same one.
Claim_NotAtomic(w) ==
  /\ pc[w] = "claim"
  /\ next' \in {next, next + 1}
  /\ pc' = [pc EXCEPT ![w] = IF next < TaskCount THEN "run" ELSE "exit"]
  /\ task' = [task EXCEPT ![w] = IF next < TaskCount THEN next ELSE None]
  /\ UNCHANGED <<attempted, outcome, finished, reported, stop, verdict, atStop>>

\* Mutant: a worker that finds the plan exhausted goes round again.
Claim_NeverBreaks(w) ==
  /\ pc[w] = "claim"
  /\ next' = IF next < TaskCount THEN next + 1 ELSE next
  /\ pc' = [pc EXCEPT ![w] = IF next < TaskCount THEN "run" ELSE "check"]
  /\ task' = [task EXCEPT ![w] = IF next < TaskCount THEN next ELSE None]
  /\ UNCHANGED <<attempted, outcome, finished, reported, stop, verdict, atStop>>

\* nextIndex.fetch_add; an index past the plan ends the worker.
Claim(w) ==
  /\ pc[w] = "claim"
  /\ next' = next + 1
  /\ pc' = [pc EXCEPT ![w] = IF next < TaskCount THEN "run" ELSE "exit"]
  /\ task' = [task EXCEPT ![w] = IF next < TaskCount THEN next ELSE None]
  /\ UNCHANGED <<attempted, outcome, finished, reported, stop, verdict, atStop>>

\* The runner returns or throws, and its outcome takes the task's own slot of
\* the vector.
Run(w) ==
  /\ pc[w] = "run"
  /\ \E o \in {"succeeded", "failed"} : outcome' = [outcome EXCEPT ![task[w]] = o]
  /\ pc' = [pc EXCEPT ![w] = "count"]
  /\ UNCHANGED <<next, attempted, task, finished, reported, stop, verdict, atStop>>

\* Mutant: the counter is incremented and read again in two steps.
Count_ReadsLate(w) ==
  /\ pc[w] = "count"
  /\ attempted' = attempted + 1
  /\ \E late \in 0..(TaskCount - attempted - 1) :
       finished' = [finished EXCEPT ![w] = attempted + 1 + late]
  /\ pc' = [pc EXCEPT ![w] = "notify"]
  /\ UNCHANGED <<next, outcome, task, reported, stop, verdict, atStop>>

\* attemptedCount.fetch_add, after the outcome.
Count(w) ==
  /\ pc[w] = "count"
  /\ attempted' = attempted + 1
  /\ finished' = [finished EXCEPT ![w] = attempted + 1]
  /\ pc' = [pc EXCEPT ![w] = "notify"]
  /\ UNCHANGED <<next, outcome, task, reported, stop, verdict, atStop>>

\* Mutant: the flag is read once per worker instead of once per task.
Notify_ThenClaims(w) ==
  /\ pc[w] = "notify"
  /\ reported' = Append(reported, finished[w])
  /\ pc' = [pc EXCEPT ![w] = "claim"]
  /\ UNCHANGED <<next, attempted, outcome, task, finished, stop, verdict, atStop>>

\* The completion hook, on the worker's own thread; what it throws is dropped.
Notify(w) ==
  /\ pc[w] = "notify"
  /\ reported' = Append(reported, finished[w])
  /\ pc' = [pc EXCEPT ![w] = "check"]
  /\ UNCHANGED <<next, attempted, outcome, task, finished, stop, verdict, atStop>>

RequestStop ==
  /\ ~stop
  /\ stop' = TRUE
  /\ atStop' = next
  /\ UNCHANGED <<next, attempted, outcome, pc, task, finished, reported, verdict>>

\* Mutant: the pool is not waited for once every task has been claimed.
Return_WithoutWait ==
  /\ verdict = "open"
  /\ next >= TaskCount \/ \A w \in Workers : pc[w] = "exit"
  /\ verdict' = IF stop /\ TaskCount > 0 THEN "canceled" ELSE "finished"
  /\ UNCHANGED <<next, attempted, outcome, pc, task, finished, reported, stop, atStop>>

\* pool.wait returns; an empty plan returned before it looked at the flag.
Return ==
  /\ verdict = "open"
  /\ \A w \in Workers : pc[w] = "exit"
  /\ verdict' = IF stop /\ TaskCount > 0 THEN "canceled" ELSE "finished"
  /\ UNCHANGED <<next, attempted, outcome, pc, task, finished, reported, stop, atStop>>

Step(w) == CheckStop(w) \/ Claim(w) \/ Run(w) \/ Count(w) \/ Notify(w)

Next == (\E w \in Workers : Step(w)) \/ RequestStop \/ Return

Spec == Init /\ [][Next]_vars

\* Every runner returns: a child exits by itself or is terminated by the stop.
Fairness == WF_vars(Return) /\ \A w \in Workers : WF_vars(Step(w))

FairSpec == Spec /\ Fairness

-----------------------------------------------------------------------------
(* Properties *)

TypeOK ==
  /\ next \in 0..(TaskCount + ResolveWorkerCount)
  /\ attempted \in 0..TaskCount
  /\ outcome \in [Tasks -> {"skipped", "succeeded", "failed"}]
  /\ pc \in [Workers -> Locations]
  /\ task \in [Workers -> Tasks \cup {None}]
  /\ finished \in [Workers -> 0..TaskCount]
  /\ reported \in Seq(1..TaskCount)
  /\ stop \in BOOLEAN
  /\ verdict \in {"open", "finished", "canceled"}

Recorded == {t \in Tasks : outcome[t] # "skipped"}

\* No two workers run one task, and a task that is running has never finished:
\* the outcome vector is written without a lock because of this.
Exclusive ==
  \A w \in Workers : pc[w] = "run" =>
    /\ task[w] \in Tasks \ Recorded
    /\ \A v \in Workers \ {w} : pc[v] = "run" => task[v] # task[w]

\* A stop is prompt: once it is raised each worker takes at most one index more.
StopIsPrompt == stop => next <= atStop + ResolveWorkerCount

\* The completion hook never announces more tasks than have an outcome, never
\* repeats a count, and when the batch returns every finished task was counted
\* and announced.
HookIsTruthful ==
  /\ \A i \in DOMAIN reported : reported[i] <= Cardinality(Recorded)
  /\ \A i, j \in DOMAIN reported : i # j => reported[i] # reported[j]
  /\ verdict # "open" => /\ attempted = Cardinality(Recorded)
                         /\ Len(reported) = attempted

\* A task without an outcome is a stop's doing and the result says so: a caller
\* that reads an uncanceled result may take every item as attempted.
SkippedOnlyByStop == verdict = "finished" => Recorded = Tasks

\* Every batch returns, stopped or not.
BatchReturns == <>(verdict # "open")

Batch == INSTANCE TaskBatch WITH
  Slots <- Workers,
  started <- IF next < TaskCount THEN next ELSE TaskCount,
  slot <- [w \in Workers |-> IF pc[w] = "run" THEN task[w] ELSE None]

\* The worker loop implements the batch a stage relies on.
ImplementsBatch == Batch!BatchSpec

=============================================================================
