------------------------------ MODULE TaskBatch ------------------------------
(***************************************************************************)
(* What taskexec::runTasks (src/core/task_executor.cpp) promises to a      *)
(* stage: tasks start in plan order, each on a slot that no other task     *)
(* uses meanwhile and that no task gets twice; a batch ends when every     *)
(* task has finished or, after a stop, when none is in flight.             *)
(***************************************************************************)
EXTENDS Naturals

CONSTANTS
  TaskCount,  (* plan.tasks.size()                            *)
  Slots,      (* the worker slots, TaskContext::slot          *)
  None        (* a slot without a task                        *)

VARIABLES
  started,  (* how many tasks have started                    *)
  slot,     (* the task in flight on each slot                *)
  outcome,  (* TaskOutcome::state of each task                *)
  stop,     (* the stop flag                                  *)
  verdict   (* "open", or how the batch ended                 *)

batchVars == <<started, slot, outcome, stop, verdict>>

Tasks == 0..(TaskCount - 1)

BatchInit ==
  /\ started = 0
  /\ slot = [s \in Slots |-> None]
  /\ outcome = [t \in Tasks |-> "skipped"]
  /\ stop = FALSE
  /\ verdict = "open"

Start(s) ==
  /\ slot[s] = None
  /\ started < TaskCount
  /\ slot' = [slot EXCEPT ![s] = started]
  /\ started' = started + 1
  /\ UNCHANGED <<outcome, stop, verdict>>

Finish(s) ==
  /\ slot[s] # None
  /\ \E o \in {"succeeded", "failed"} : outcome' = [outcome EXCEPT ![slot[s]] = o]
  /\ slot' = [slot EXCEPT ![s] = None]
  /\ UNCHANGED <<started, stop, verdict>>

RequestStop ==
  /\ ~stop
  /\ stop' = TRUE
  /\ UNCHANGED <<started, slot, outcome, verdict>>

Close ==
  /\ verdict = "open"
  /\ \A s \in Slots : slot[s] = None
  /\ started = TaskCount \/ stop
  /\ verdict' = IF stop /\ TaskCount > 0 THEN "canceled" ELSE "finished"
  /\ UNCHANGED <<started, slot, outcome, stop>>

BatchNext == (\E s \in Slots : Start(s) \/ Finish(s)) \/ RequestStop \/ Close

BatchSpec == BatchInit /\ [][BatchNext]_batchVars

=============================================================================
