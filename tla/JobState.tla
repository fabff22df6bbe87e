------------------------------ MODULE JobState ------------------------------
(***************************************************************************)
(* The resumable job store (src/core/job_state*.cpp) and the life of the   *)
(* snapshot it keeps at the state path, over any number of runs of the     *)
(* program: a run restores or replaces the snapshot, merges the tasks it   *)
(* planned, executes the unfinished ones on several workers and ends by    *)
(* completing, by a cancellation or by a crash.  Files are modelled by     *)
(* what a resume can tell of them and what it cannot: a target exists or   *)
(* not (the code looks), and is whole or not, of which source version and  *)
(* under which settings (the code cannot look); of the segment files of a  *)
(* task only how many there are from the first on.                         *)
(***************************************************************************)
EXTENDS Naturals

CONSTANTS
  Ids,        (* task ids                                                   *)
  InPlace,    (* tasks encoded straight onto their target (webp)            *)
  Segmented,  (* tasks that record segments, then assemble onto the target  *)
              (* (mp4); the other tasks commit their target with a rename   *)
  Segs,       (* segments of a segmented task                               *)
  Configs,    (* the configurations a run may be started with               *)
  Plans,      (* the sets of tasks a run may plan: what its scan finds      *)
  Unset,      (* the settings of a snapshot older than their recording      *)
  Faults,     (* the environment's events that are allowed                  *)
  Budget      (* how many events of the environment a behaviour has         *)

FaultKinds ==
  {"crash", "stop", "decline", "fail", "delete", "edit", "reconfig", "restart",
   "persist", "skip", "throw", "clean"}

ASSUME JobStateAssumption ==
  /\ InPlace \subseteq Ids
  /\ Segmented \subseteq Ids
  /\ InPlace \cap Segmented = {}
  /\ Segs \in Nat \ {0}
  /\ Budget \in Nat
  /\ Faults \subseteq FaultKinds
  /\ Plans \subseteq SUBSET Ids
  /\ Configs # {}
  /\ \A c \in Configs : c.pack \in BOOLEAN

VARIABLES
  disk,     (* the snapshot at the state path, or NoSnapshot                *)
  mem,      (* Store::snapshot_ of the running process                      *)
  phase,    (* where the run is                                             *)
  out,      (* the outcome of each item of the run (mediaitem::ItemState)   *)
  work,     (* what the worker that owns the task is doing                  *)
  target,   (* the target file of each task                                 *)
  files,    (* its segment files from the first on, as far as an attempt    *)
            (* believes them: a running one is writing after them           *)
  version,  (* size and write time of each task's source, as a version      *)
  stop,     (* the stop flag                                                *)
  budget

vars == <<disk, mem, phase, out, work, target, files, version, stop, budget>>

Settings == {c.settings : c \in Configs} \cup {Unset}
Statuses == {"absent", "pending", "running", "succeeded", "failed", "interrupted"}
Stages   == {"none", "planning", "encoding", "canceling", "canceled", "completed"}
Phases   == {"down", "initialized", "staged", "merged", "canceling"}
Outs     == {"unplanned", "pending", "skipped", "succeeded", "failed"}
Works    == {"idle", "encoding", "writing", "assembled", "written", "failing",
             "over"}

Tasks == [st : Statuses, fp : 0..Budget, seg : 0..Segs, tried : BOOLEAN]
Snapshots ==
  [stage : Stages, cancel : BOOLEAN, cfg : Configs, tasks : [Ids -> Tasks]]
Targets == [has : BOOLEAN, whole : BOOLEAN, src : 0..Budget, by : Settings]

NoTask     == [st |-> "absent", fp |-> 0, seg |-> 0, tried |-> FALSE]
NoTarget   == [has |-> FALSE, whole |-> FALSE, src |-> 0, by |-> Unset]
NoSnapshot ==
  [stage |-> "none", cancel |-> FALSE, cfg |-> CHOOSE c \in Configs : TRUE,
   tasks |-> [t \in Ids |-> NoTask]]

StateExists == disk.stage # "none"
Planned     == {t \in Ids : out[t] # "unplanned"}

-----------------------------------------------------------------------------
(* Pure parts of the store *)

\* A saved state may be resumed with packing added, never removed, and a state
\* that recorded no settings matches any.
ConfigMatches(saved, current) ==
  /\ saved.pack => current.pack
  /\ saved.settings \in {Unset, current.settings}
  /\ saved.rest = current.rest

Cleared(task, fp) == [task EXCEPT !.st = "pending", !.seg = 0, !.fp = fp]

FingerprintChanged(t, task) == task.fp # version[t]

\* Mutant: the existence of the target decides for a segmented task too.
RestorableFromTarget_IgnoresSegments(t, task) ==
  task.st \in {"pending", "interrupted", "succeeded"} /\ target[t].has

\* Without a segment record the existence of the target decides, except for a
\* task found running.
RestorableFromTarget(t, task) ==
  /\ task.seg = 0
  /\ task.st \in {"pending", "interrupted", "succeeded"}
  /\ target[t].has

\* Mutant: a record found running stays so.
Normalized_KeepsRunning(t, task) ==
  IF task.st = "absent" THEN task
  ELSE IF FingerprintChanged(t, task) THEN Cleared(task, version[t])
  ELSE IF task.st = "succeeded" /\ ~target[t].has THEN Cleared(task, task.fp)
  ELSE [task EXCEPT !.st = IF RestorableFromTarget(t, task) THEN "succeeded" ELSE @]

\* initialize, and then mergeTasks again, decide what a saved record is worth.
Normalized(t, task) ==
  IF task.st = "absent" THEN task
  ELSE IF FingerprintChanged(t, task) THEN Cleared(task, version[t])
  ELSE IF task.st = "succeeded" /\ ~target[t].has THEN Cleared(task, task.fp)
  ELSE [task EXCEPT !.st = IF RestorableFromTarget(t, task) THEN "succeeded"
                           ELSE IF @ = "running" THEN "interrupted" ELSE @]

NewTask(t) == [st |-> "pending", fp |-> version[t], seg |-> 0, tried |-> FALSE]

\* One planned task against the snapshot: a changed plan clears the record and
\* anything else is normalised, though initialize did it already; a task the
\* snapshot does not know is appended without a look at its target.
Merged(t, task) ==
  IF task.st = "absent" THEN NewTask(t) ELSE Normalized(t, task)

\* Mutant: a failed task is not tried again.
NeedsExecution_LeavesFailed(task) == task.st \notin {"succeeded", "failed"}

NeedsExecution(task) == task.st # "succeeded"

-----------------------------------------------------------------------------
(* Persistence: every store operation ends by flushing the snapshot; a      *)
(* failed flush is logged and otherwise ignored.                            *)

Spend(kind) == kind \in Faults /\ budget > 0 /\ budget' = budget - 1

Flush(snapshot) ==
  \/ disk' = snapshot /\ UNCHANGED budget
  \/ Spend("persist") /\ UNCHANGED disk

Persist == Flush(mem')

Update(t, task) == mem' = [mem EXCEPT !.tasks[t] = task] /\ Persist

Init ==
  /\ disk = NoSnapshot
  /\ mem = NoSnapshot
  /\ phase = "down"
  /\ out = [t \in Ids |-> "unplanned"]
  /\ work = [t \in Ids |-> "idle"]
  /\ target = [t \in Ids |-> NoTarget]
  /\ files = [t \in Ids |-> 0]
  /\ version = [t \in Ids |-> 0]
  /\ stop = FALSE
  /\ budget = Budget

-----------------------------------------------------------------------------
(* A run starts *)

\* The saved state matches the command: adopt it.
Restore(c) ==
  /\ phase = "down"
  /\ StateExists
  /\ ConfigMatches(disk.cfg, c)
  /\ mem' = [disk EXCEPT !.cfg = c, !.cancel = FALSE,
                         !.tasks = [t \in Ids |-> Normalized(t, disk.tasks[t])]]
  /\ disk' = mem'
  /\ phase' = "initialized"
  /\ UNCHANGED <<out, work, target, files, version, stop, budget>>

Fresh(c) ==
  /\ mem' = [stage |-> "planning", cancel |-> FALSE, cfg |-> c,
             tasks |-> [t \in Ids |-> NoTask]]
  /\ disk' = mem'
  /\ phase' = "initialized"
  /\ UNCHANGED <<out, work, target, files, version, stop>>

\* No saved state.
StartFresh(c) ==
  /\ phase = "down"
  /\ ~StateExists
  /\ Fresh(c)
  /\ UNCHANGED budget

\* A saved state of another job is replaced, unless --resume was given: that
\* ends the run and changes nothing.
DiscardMismatched(c) ==
  /\ phase = "down"
  /\ StateExists
  /\ ~ConfigMatches(disk.cfg, c)
  /\ Spend("reconfig")
  /\ Fresh(c)

\* --restart replaces it whatever it is.
Restart(c) ==
  /\ phase = "down"
  /\ StateExists
  /\ Spend("restart")
  /\ Fresh(c)

SetStageEncoding ==
  /\ phase = "initialized"
  /\ mem' = [mem EXCEPT !.stage = "encoding"]
  /\ Persist
  /\ phase' = "staged"
  /\ UNCHANGED <<out, work, target, files, version, stop>>

\* mergeTasks, and the split of its result into recovered and pending items.
MergeTasks(plan) ==
  /\ phase = "staged"
  /\ mem' = [mem EXCEPT !.tasks =
               [t \in Ids |-> IF t \in plan THEN Merged(t, mem.tasks[t])
                                            ELSE mem.tasks[t]]]
  /\ Persist
  /\ out' = [t \in Ids |->
               IF t \notin plan THEN "unplanned"
               ELSE IF NeedsExecution(mem'.tasks[t]) THEN "pending" ELSE "succeeded"]
  /\ phase' = "merged"
  /\ UNCHANGED <<work, target, files, version, stop>>

-----------------------------------------------------------------------------
(* The execution of one task *)

\* An attempt believes the segments that are both recorded and there, from the
\* first on; without recorded ones their directory is emptied.
Believed(t) == IF mem.tasks[t].seg < files[t] THEN mem.tasks[t].seg ELSE files[t]

MarkRunning(t) ==
  /\ phase = "merged"
  /\ out[t] = "pending" /\ work[t] = "idle"
  /\ ~stop
  /\ Update(t, [mem.tasks[t] EXCEPT !.st = "running", !.tried = TRUE])
  /\ work' = [work EXCEPT ![t] = "encoding"]
  /\ files' = [files EXCEPT ![t] = Believed(t)]
  /\ UNCHANGED <<phase, out, target, version, stop>>

\* Mutant: the watcher counts the segment in flight.
MarkSegmentProgress_CountsInFlight(t) ==
  /\ t \in Segmented
  /\ work[t] = "encoding"
  /\ \E total \in (files[t] + 1)..Segs :
       /\ files' = [files EXCEPT ![t] = total]
       /\ Update(t, [mem.tasks[t] EXCEPT !.seg = total + 1])
  /\ UNCHANGED <<phase, out, work, target, version, stop>>

\* The watcher finds more segments closed than before in this attempt and records
\* their total, whatever the record says: it counts from where the attempt began.
MarkSegmentProgress(t) ==
  /\ t \in Segmented
  /\ work[t] = "encoding"
  /\ \E total \in (files[t] + 1)..Segs :
       /\ files' = [files EXCEPT ![t] = total]
       /\ Update(t, [mem.tasks[t] EXCEPT !.seg = total])
  /\ UNCHANGED <<phase, out, work, target, version, stop>>

Output(t, whole) ==
  [has |-> TRUE, whole |-> whole, src |-> version[t], by |-> mem.cfg.settings]

\* The target comes into being unfinished: the encoder of an in-place task
\* opens it, or the assembly of a segmented one does.
OpenTarget(t) ==
  /\ work[t] = "encoding"
  /\ \/ t \in InPlace
     \/ t \in Segmented /\ files[t] = Segs
  /\ target' = [target EXCEPT ![t] = Output(t, FALSE)]
  /\ work' = [work EXCEPT ![t] = "writing"]
  /\ UNCHANGED <<disk, mem, phase, out, files, version, stop, budget>>

\* The target is finished; a task that stages its output gets it here at once.
FinishTarget(t) ==
  /\ \/ work[t] = "writing"
     \/ work[t] = "encoding" /\ t \notin InPlace \cup Segmented
  /\ target' = [target EXCEPT ![t] = Output(t, TRUE)]
  /\ work' = [work EXCEPT ![t] = IF t \in Segmented THEN "assembled" ELSE "written"]
  /\ UNCHANGED <<disk, mem, phase, out, files, version, stop, budget>>

\* The segments of an assembled target go before its success is recorded.
RemoveSegmentDir(t) ==
  /\ work[t] = "assembled"
  /\ files' = [files EXCEPT ![t] = 0]
  /\ work' = [work EXCEPT ![t] = "written"]
  /\ UNCHANGED <<disk, mem, phase, out, target, version, stop, budget>>

MarkSucceeded(t) ==
  /\ work[t] = "written"
  /\ Update(t, [mem.tasks[t] EXCEPT !.st = "succeeded"])
  /\ work' = [work EXCEPT ![t] = "over"]
  /\ out' = [out EXCEPT ![t] = "succeeded"]
  /\ UNCHANGED <<phase, target, files, version, stop>>

\* The encode gives up: its child failed, or was killed by the stop.  An in-place
\* encode removes its target then, whether it had opened it or not.
EncodeFails(t) ==
  /\ work[t] \in {"encoding", "writing"}
  /\ \/ stop /\ UNCHANGED budget
     \/ ~stop /\ Spend("fail")
  /\ target' = IF t \in InPlace THEN [target EXCEPT ![t] = NoTarget] ELSE target
  /\ work' = [work EXCEPT ![t] = "failing"]
  /\ UNCHANGED <<disk, mem, phase, out, files, version, stop>>

\* A failure seen while the stop is pending is the stop's victim: the record
\* says failed, the item keeps no outcome.
MarkFailed(t) ==
  /\ work[t] = "failing"
  /\ Update(t, [mem.tasks[t] EXCEPT !.st = "failed"])
  /\ work' = [work EXCEPT ![t] = "over"]
  /\ out' = [out EXCEPT ![t] = IF stop THEN "pending" ELSE "failed"]
  /\ UNCHANGED <<phase, target, files, version, stop>>

\* An exception leaves the encode (the output directory cannot be created, say):
\* the executor fails the item, and nobody tells the store.
EncodeThrows(t) ==
  /\ work[t] \in {"encoding", "writing"}
  /\ Spend("throw")
  /\ work' = [work EXCEPT ![t] = "over"]
  /\ out' = [out EXCEPT ![t] = "failed"]
  /\ UNCHANGED <<disk, mem, phase, target, files, version, stop>>

-----------------------------------------------------------------------------
(* A run ends *)

EndRun ==
  /\ mem' = NoSnapshot
  /\ phase' = "down"
  /\ out' = [t \in Ids |-> "unplanned"]
  /\ work' = [t \in Ids |-> "idle"]
  /\ stop' = FALSE

StopRequested ==
  /\ phase # "down" /\ ~stop
  /\ Spend("stop")
  /\ stop' = TRUE
  /\ UNCHANGED <<disk, mem, phase, out, work, target, files, version>>

Resting(t) == work[t] = "over" \/ out[t] \in {"skipped", "succeeded"}

WorkersDone ==
  /\ phase = "merged"
  /\ \A t \in Planned : Resting(t) \/ (stop /\ work[t] = "idle")

EncodeStageFinished == \A t \in Planned : out[t] # "pending"

\* The scan finds nothing to encode or fails: the state stays as initialized.
ScanEndsRun ==
  /\ phase = "initialized"
  /\ Spend("decline")
  /\ EndRun
  /\ UNCHANGED <<disk, target, files, version>>

\* Every item has an outcome: the encode stage is over, even if a stop is pending.
Complete ==
  /\ WorkersDone
  /\ EncodeStageFinished
  /\ Flush([mem EXCEPT !.stage = "completed"])
  /\ EndRun
  /\ UNCHANGED <<target, files, version>>

\* The monitor notes the stop while workers are still busy.
NoteStopRequest ==
  /\ phase = "merged" /\ stop
  /\ mem' = [mem EXCEPT !.stage = "canceling", !.cancel = TRUE]
  /\ Persist
  /\ UNCHANGED <<phase, out, work, target, files, version, stop>>

\* A stop cut the batch short: cancel the saved state, in two flushes.
RequestCancel ==
  /\ WorkersDone /\ stop
  /\ ~EncodeStageFinished
  /\ mem' = [mem EXCEPT !.stage = "canceling", !.cancel = TRUE]
  /\ Persist
  /\ phase' = "canceling"
  /\ UNCHANGED <<out, work, target, files, version, stop>>

\* Mutant: a cancel interrupts the finished items of the batch too.
MarkIncompleteInterrupted_TakesAll ==
  /\ phase = "canceling"
  /\ Flush([mem EXCEPT !.stage = "canceled", !.cancel = TRUE,
                       !.tasks = [t \in Ids |->
                          IF t \in Planned
                          THEN [mem.tasks[t] EXCEPT !.st = "interrupted"]
                          ELSE mem.tasks[t]]])
  /\ EndRun
  /\ UNCHANGED <<target, files, version>>

MarkIncompleteInterrupted ==
  LET incomplete == {t \in Planned : mem.tasks[t].st \in {"pending", "running"}}
  IN  /\ phase = "canceling"
      /\ IF incomplete = {} THEN UNCHANGED <<disk, budget>>
         ELSE Flush([mem EXCEPT !.stage = "canceled", !.cancel = TRUE,
                       !.tasks = [t \in Ids |->
                          IF t \in incomplete
                          THEN [mem.tasks[t] EXCEPT !.st = "interrupted"]
                          ELSE mem.tasks[t]]])
      /\ EndRun
      /\ UNCHANGED <<target, files, version>>

NeverStarted == \A t \in Ids :
  mem.tasks[t].st = "absent" \/ (mem.tasks[t].st = "pending" /\ ~mem.tasks[t].tried)

\* The confirmation prompt ends the run before any work.  After a stop (exit
\* code 130) a state in which nothing was ever started is removed; a typed
\* decline (exit code 0) keeps it.
AtPrompt ==
  /\ phase = "merged"
  /\ \A t \in Ids : work[t] = "idle"
  /\ ~EncodeStageFinished

\* The probe estimates that encoding would only make the file larger.
ProbeSkips(t) ==
  /\ AtPrompt
  /\ out[t] = "pending"
  /\ Spend("skip")
  /\ out' = [out EXCEPT ![t] = "skipped"]
  /\ UNCHANGED <<disk, mem, phase, work, target, files, version, stop>>

\* Mutant: a stop at the prompt always removes the state.
PromptCanceled_RemovesAlways ==
  /\ AtPrompt /\ stop
  /\ disk' = NoSnapshot
  /\ EndRun
  /\ UNCHANGED <<target, files, version, budget>>

\* Exit code 130: the state is removed when nothing in it was ever started.
PromptCanceled ==
  /\ AtPrompt /\ stop
  /\ disk' = IF NeverStarted THEN NoSnapshot ELSE disk
  /\ EndRun
  /\ UNCHANGED <<target, files, version, budget>>

PromptDeclined ==
  /\ AtPrompt /\ ~stop
  /\ Spend("decline")
  /\ EndRun
  /\ UNCHANGED <<disk, target, files, version>>

\* The encode stage is over, but packing its outputs is declined, fails or is
\* stopped: the stage never becomes completed.
PackingAbandoned ==
  /\ WorkersDone /\ EncodeStageFinished
  /\ mem.cfg.pack
  /\ \/ stop /\ UNCHANGED budget
        /\ disk' = IF NeverStarted THEN NoSnapshot ELSE disk
     \/ ~stop /\ Spend("decline") /\ UNCHANGED disk
  /\ EndRun
  /\ UNCHANGED <<target, files, version>>

Crash ==
  /\ phase # "down"
  /\ Spend("crash")
  /\ EndRun
  /\ UNCHANGED <<disk, target, files, version>>

-----------------------------------------------------------------------------
(* The user's files *)

DeleteTarget(t) ==
  /\ phase = "down" /\ target[t].has
  /\ Spend("delete")
  /\ target' = [target EXCEPT ![t] = NoTarget]
  /\ UNCHANGED <<disk, mem, phase, out, work, files, version, stop>>

\* Some of the segment files are cleaned up: those before the first gap count.
CleanSegments(t) ==
  /\ phase = "down" /\ files[t] > 0
  /\ Spend("clean")
  /\ \E left \in 0..(files[t] - 1) : files' = [files EXCEPT ![t] = left]
  /\ UNCHANGED <<disk, mem, phase, out, work, target, version, stop>>

\* The fingerprint is read when the snapshot is restored and again when the
\* tasks are planned; a source may change before, between and after.
EditSource(t) ==
  /\ phase # "merged"
  /\ Spend("edit")
  /\ version' = [version EXCEPT ![t] = @ + 1]
  /\ UNCHANGED <<disk, mem, phase, out, work, target, files, stop>>

-----------------------------------------------------------------------------

StartRun == \E c \in Configs :
  Restore(c) \/ StartFresh(c) \/ DiscardMismatched(c) \/ Restart(c)

Execute(t) ==
  \/ MarkRunning(t) \/ MarkSegmentProgress(t) \/ OpenTarget(t) \/ FinishTarget(t)
  \/ RemoveSegmentDir(t) \/ MarkSucceeded(t)
  \/ EncodeFails(t) \/ MarkFailed(t) \/ EncodeThrows(t)

EndOfRun ==
  \/ Complete \/ NoteStopRequest \/ RequestCancel \/ MarkIncompleteInterrupted
  \/ PromptCanceled \/ PackingAbandoned

Environment ==
  \/ StopRequested \/ ScanEndsRun \/ PromptDeclined \/ Crash
  \/ \E t \in Ids : ProbeSkips(t) \/ DeleteTarget(t) \/ CleanSegments(t) \/ EditSource(t)

Plan == \E plan \in Plans : MergeTasks(plan)

Next ==
  \/ StartRun \/ SetStageEncoding \/ Plan \/ EndOfRun \/ Environment
  \/ \E t \in Ids : Execute(t)

Spec == Init /\ [][Next]_vars

\* The user keeps resuming the job, and every step of a run is eventually taken.
Fairness ==
  /\ WF_vars(StartRun) /\ WF_vars(SetStageEncoding) /\ WF_vars(Plan)
  /\ WF_vars(Complete \/ RequestCancel \/ MarkIncompleteInterrupted)
  /\ \A t \in Ids : WF_vars(Execute(t))

FairSpec == Spec /\ Fairness

-----------------------------------------------------------------------------
(* Properties *)

TypeOK ==
  /\ disk \in Snapshots /\ mem \in Snapshots
  /\ phase \in Phases
  /\ out \in [Ids -> Outs]
  /\ work \in [Ids -> Works]
  /\ target \in [Ids -> Targets]
  /\ files \in [Ids -> 0..Segs]
  /\ version \in [Ids -> 0..Budget]
  /\ stop \in BOOLEAN
  /\ budget \in 0..Budget

Counted(t) == phase = "merged" /\ out[t] = "succeeded"

\* An item the run counts as encoded, executed now or recovered, has a whole
\* output: a partial file never passes for one.
PartialNeverRecovered == \A t \in Ids : Counted(t) => target[t].has /\ target[t].whole

\* What the run counts as encoded was encoded with the settings it asks for (or
\* by a build that did not record them).
RecoveredUnderSettings ==
  \A t \in Ids : Counted(t) => target[t].by \in {Unset, mem.cfg.settings}

\* What the run counts as encoded was encoded from the source as it is.
RecoveredFromSource == \A t \in Ids : Counted(t) => target[t].src = version[t]

\* The three together: a resumed job counts only outputs this job would produce.
SuccessIsBacked ==
  PartialNeverRecovered /\ RecoveredUnderSettings /\ RecoveredFromSource

Finished(t) == disk.tasks[t].st = "succeeded" /\ target[t].has

\* A finished task is never reopened: its record on disk stays succeeded through
\* crashes, cancels and failed flushes until the user touches the source or the
\* target, or replaces the whole snapshot.
FinishedStaysFinished ==
  [][\A t \in Ids :
       Finished(t) => \/ Finished(t)'
                     \/ disk.tasks[t].fp # version[t] \/ target'[t] # target[t]
                     \/ disk'.tasks[t].st = "absent"]_vars

\* Recorded segments are forgotten only with their source, with a finished
\* target the user removed, or with the whole snapshot, and the removal of a
\* never-started state forgets none.  Where their files are gone (a crash between
\* the removal of the segments and the record of the success, a lost flush of
\* that record, a cleanup) the next closed segment lowers the record, to exactly
\* the segments that are there and never to none.
SegmentsNotForgotten ==
  [][\A t \in Ids :
       disk'.tasks[t].seg < disk.tasks[t].seg =>
         \/ disk.tasks[t].fp # version[t]
         \/ disk.tasks[t].st = "succeeded" /\ ~target[t].has
         \/ disk'.tasks[t].st = "absent" /\ disk' # NoSnapshot
         \/ disk'.tasks[t].seg = files'[t] /\ files'[t] > 0]_vars

\* A run that ends without a crash leaves no record running, its own or one a
\* crashed run left behind, for a task of this plan or of an older one.
NothingLeftRunning ==
  [][phase # "down" /\ phase' = "down" /\ budget' = budget =>
       \A t \in Ids : disk'.tasks[t].st # "running"]_vars

\* Whatever finitely many stops, crashes and failures do, a job that keeps being
\* resumed ends with every task on record as succeeded and every target there.
EventuallyAllDone ==
  <>[](\A t \in Ids : disk.tasks[t].st = "succeeded" /\ target[t].has)

=============================================================================
