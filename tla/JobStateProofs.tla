--------------------------- MODULE JobStateProofs ---------------------------
(***************************************************************************)
(* Proofs about JobState, for every number of tasks, segments, settings    *)
(* and events: its type correctness, and, for the tasks and events the     *)
(* store is safe with, that a run never counts an output that is not the   *)
(* one it would produce.                                                   *)
(***************************************************************************)
EXTENDS JobState, TLAPS

-----------------------------------------------------------------------------
(* Types *)

\* Each edit of a source is paid for, so a version never exceeds the budget.
Paid == \A t \in Ids : version[t] + budget <= Budget

TypeInv == TypeOK /\ Paid

\* The empty snapshot is a snapshot.
LEMMA NoSnapshotType == NoSnapshot \in Snapshots
  <1>1. NoTask \in Tasks
    BY JobStateAssumption DEF NoTask, Tasks, Statuses
  <1>2. (CHOOSE c \in Configs : TRUE) \in Configs
    BY JobStateAssumption
  <1> QED BY <1>1, <1>2 DEF NoSnapshot, Snapshots, Stages

\* Clearing, normalising and merging a record give a record.
LEMMA RecordType ==
  ASSUME TypeOK, NEW t \in Ids, NEW task \in Tasks
  PROVE  /\ Normalized(t, task) \in Tasks
         /\ Merged(t, task) \in Tasks
  <1>1. version[t] \in 0..Budget
    BY DEF TypeOK
  <1>2. ASSUME NEW fp \in 0..Budget
        PROVE  Cleared(task, fp) \in Tasks
    <2>1. 0 \in 0..Segs /\ "pending" \in Statuses
      BY JobStateAssumption DEF Statuses
    <2> QED BY <2>1 DEF Cleared, Tasks
  <1>3. task.fp \in 0..Budget
    BY DEF Tasks
  <1>4. \A st \in Statuses : [task EXCEPT !.st = st] \in Tasks
    BY DEF Tasks, Statuses
  <1>5. Normalized(t, task) \in Tasks
    <2>1. (IF task.st = "running" THEN "interrupted" ELSE task.st) \in Statuses
      BY DEF Tasks, Statuses
    <2>2. [task EXCEPT !.st = IF @ = "running" THEN "interrupted" ELSE @] \in Tasks
      BY <2>1, <1>4
    <2>3. [task EXCEPT !.st = "succeeded"] \in Tasks
      BY <1>4 DEF Statuses
    <2> QED BY <1>1, <1>2, <1>3, <2>2, <2>3 DEF Normalized
  <1>6. NewTask(t) \in Tasks
    BY <1>1, JobStateAssumption DEF NewTask, Tasks, Statuses
  <1> QED BY <1>1, <1>2, <1>5, <1>6 DEF Merged

LEMMA TypeInit == Init => TypeInv
  <1>1. NoTarget \in Targets
    BY JobStateAssumption DEF NoTarget, Targets, Settings
  <1>2. /\ 0 \in 0..Budget /\ Budget \in 0..Budget
        /\ 0 + Budget <= Budget /\ 0 \in 0..Segs
    BY JobStateAssumption
  <1> SUFFICES ASSUME Init PROVE TypeInv
    OBVIOUS
  <1>3. version \in [Ids -> 0..Budget] /\ budget \in 0..Budget /\ Paid
    BY <1>2 DEF Init, Paid
  <1> QED BY <1>1, <1>2, <1>3, NoSnapshotType DEF Init, TypeInv, TypeOK, Phases, Outs, Works

\* What a flush leaves on disk, and what it costs.
LEMMA FlushType ==
  ASSUME TypeInv, NEW s \in Snapshots, Flush(s)
  PROVE  /\ disk' \in Snapshots
         /\ budget' \in 0..Budget /\ budget' <= budget
  BY JobStateAssumption DEF TypeInv, TypeOK, Flush, Spend

LEMMA SpendType ==
  ASSUME TypeInv, NEW kind, Spend(kind)
  PROVE  budget' \in 0..Budget /\ budget' + 1 = budget
  BY JobStateAssumption DEF TypeInv, TypeOK, Spend

\* A record update keeps the snapshot a snapshot.
LEMMA UpdateType ==
  ASSUME TypeInv, NEW t \in Ids, NEW task \in Tasks, Update(t, task)
  PROVE  /\ mem' \in Snapshots /\ disk' \in Snapshots
         /\ budget' \in 0..Budget /\ budget' <= budget
  <1>1. mem' \in Snapshots
    BY DEF Update, TypeInv, TypeOK, Snapshots
  <1> QED BY <1>1, FlushType DEF Update, Persist

\* The state of a task's output is a target.
LEMMA OutputType ==
  ASSUME TypeInv, NEW t \in Ids, NEW whole \in BOOLEAN
  PROVE  Output(t, whole) \in Targets
  BY DEF Output, Targets, TypeInv, TypeOK, Snapshots, Settings

LEMMA PaidStep ==
  ASSUME TypeInv, budget' \in 0..Budget, budget' <= budget, UNCHANGED version
  PROVE  Paid'
  BY JobStateAssumption DEF TypeInv, TypeOK, Paid

LEMMA EndRunType ==
  ASSUME EndRun
  PROVE  /\ mem' \in Snapshots /\ phase' \in Phases /\ out' \in [Ids -> Outs]
         /\ work' \in [Ids -> Works] /\ stop' \in BOOLEAN
  BY NoSnapshotType DEF EndRun, Phases, Outs, Works

LEMMA TypeStep == TypeInv /\ [Next]_vars => TypeInv'
  <1> SUFFICES ASSUME TypeInv, [Next]_vars
               PROVE  TypeInv'
    OBVIOUS
  <1> USE DEF TypeInv
  <1>1. ASSUME NEW c \in Configs, Restore(c)
        PROVE  TypeInv'
    <2>1. mem' \in Snapshots
      <3>1. \A t \in Ids : Normalized(t, disk.tasks[t]) \in Tasks
        BY RecordType DEF TypeOK, Snapshots
      <3> QED BY <1>1, <3>1 DEF Restore, TypeOK, Snapshots
    <2> QED BY <1>1, <2>1 DEF Restore, TypeOK, Paid, Phases
  <1>2. ASSUME NEW c \in Configs, Fresh(c),
               budget' \in 0..Budget, budget' <= budget
        PROVE  TypeInv'
    <2>1. mem' \in Snapshots
      <3>1. NoTask \in Tasks
        BY JobStateAssumption DEF NoTask, Tasks, Statuses
      <3> QED BY <1>2, <3>1 DEF Fresh, Snapshots, Stages
    <2> QED BY <1>2, <2>1, PaidStep DEF Fresh, TypeOK, Phases
  <1>3. ASSUME NEW c \in Configs, StartFresh(c)
        PROVE  TypeInv'
    BY <1>2, <1>3, JobStateAssumption DEF StartFresh, TypeOK
  <1>4. ASSUME NEW c \in Configs, DiscardMismatched(c) \/ Restart(c)
        PROVE  TypeInv'
    <2>1. budget' \in 0..Budget /\ budget' <= budget
      BY <1>4, SpendType, JobStateAssumption DEF DiscardMismatched, Restart, TypeOK
    <2> QED BY <1>2, <1>4, <2>1 DEF DiscardMismatched, Restart
  <1>5. CASE SetStageEncoding
    <2>1. mem' \in Snapshots
      BY <1>5 DEF SetStageEncoding, TypeOK, Snapshots, Stages
    <2> QED BY <1>5, <2>1, FlushType, PaidStep
            DEF SetStageEncoding, Persist, TypeOK, Phases
  <1>6. ASSUME NEW plan \in Plans, MergeTasks(plan)
        PROVE  TypeInv'
    <2>1. mem' \in Snapshots
      <3>1. \A t \in Ids : Merged(t, mem.tasks[t]) \in Tasks /\ mem.tasks[t] \in Tasks
        BY RecordType DEF TypeOK, Snapshots
      <3> QED BY <1>6, <3>1 DEF MergeTasks, TypeOK, Snapshots
    <2>2. out' \in [Ids -> Outs]
      BY <1>6 DEF MergeTasks, Outs
    <2> QED BY <1>6, <2>1, <2>2, FlushType, PaidStep
            DEF MergeTasks, Persist, TypeOK, Phases
  <1>7. ASSUME NEW t \in Ids, Execute(t)
        PROVE  TypeInv'
    <2>1. /\ mem.tasks[t] \in Tasks
          /\ \A st \in Statuses : [mem.tasks[t] EXCEPT !.st = st] \in Tasks
      BY DEF TypeOK, Snapshots, Tasks
    <2>2. \A w \in Works : [work EXCEPT ![t] = w] \in [Ids -> Works]
      BY DEF TypeOK
    <2>3. \A o \in Outs : [out EXCEPT ![t] = o] \in [Ids -> Outs]
      BY DEF TypeOK
    <2>4. \A f \in Targets : [target EXCEPT ![t] = f] \in [Ids -> Targets]
      BY DEF TypeOK
    <2>5. CASE MarkRunning(t)
      <3>1. [mem.tasks[t] EXCEPT !.st = "running", !.tried = TRUE] \in Tasks
        BY <2>1 DEF Tasks, Statuses
      <3>2. Believed(t) \in 0..Segs
        BY <2>1, JobStateAssumption DEF Believed, TypeOK, Tasks
      <3>3. files' \in [Ids -> 0..Segs]
        BY <2>5, <3>2 DEF MarkRunning, TypeOK
      <3> QED BY <2>5, <3>1, <3>3, <2>2, UpdateType, PaidStep DEF MarkRunning, TypeOK, Works
    <2>6. CASE MarkSegmentProgress(t)
      <3>1. PICK total \in (files[t] + 1)..Segs :
              /\ files' = [files EXCEPT ![t] = total]
              /\ Update(t, [mem.tasks[t] EXCEPT !.seg = total])
        BY <2>6 DEF MarkSegmentProgress
      <3>2. files[t] \in 0..Segs /\ total \in 0..Segs
        BY JobStateAssumption DEF TypeOK
      <3>3. [mem.tasks[t] EXCEPT !.seg = total] \in Tasks
        BY <2>1, <3>2 DEF Tasks
      <3>4. files' \in [Ids -> 0..Segs]
        BY <3>1, <3>2 DEF TypeOK
      <3>5. /\ mem' \in Snapshots /\ disk' \in Snapshots
            /\ budget' \in 0..Budget /\ budget' <= budget
        BY <3>1, <3>3, UpdateType
      <3> QED BY <2>6, <3>4, <3>5, PaidStep DEF MarkSegmentProgress, TypeOK
    <2>7. CASE OpenTarget(t)
      BY <2>7, <2>2, <2>4, OutputType, PaidStep DEF OpenTarget, TypeOK, Works, Paid
    <2>8. CASE FinishTarget(t)
      BY <2>8, <2>2, <2>4, OutputType, PaidStep DEF FinishTarget, TypeOK, Works, Paid
    <2>9. CASE MarkSucceeded(t)
      BY <2>9, <2>1, <2>2, <2>3, UpdateType, PaidStep
         DEF MarkSucceeded, TypeOK, Works, Outs, Statuses
    <2>10. CASE EncodeFails(t)
      <3>1. NoTarget \in Targets
        BY JobStateAssumption DEF NoTarget, Targets, Settings
      <3>2. budget' \in 0..Budget /\ budget' <= budget
        BY <2>10, SpendType, JobStateAssumption DEF EncodeFails, TypeOK
      <3> QED BY <2>10, <3>1, <3>2, <2>2, <2>4, PaidStep DEF EncodeFails, TypeOK, Works
    <2>11. CASE MarkFailed(t)
      <3>1. (IF stop THEN "pending" ELSE "failed") \in Outs
        BY DEF Outs
      <3> QED BY <2>11, <3>1, <2>1, <2>2, <2>3, UpdateType, PaidStep
              DEF MarkFailed, TypeOK, Works, Statuses
    <2>12. CASE EncodeThrows(t)
      BY <2>12, <2>2, <2>3, SpendType, PaidStep, JobStateAssumption
         DEF EncodeThrows, TypeOK, Works, Outs
    <2>13. CASE RemoveSegmentDir(t)
      <3>1. files' \in [Ids -> 0..Segs]
        BY <2>13, JobStateAssumption DEF RemoveSegmentDir, TypeOK
      <3> QED BY <2>13, <3>1, <2>2 DEF RemoveSegmentDir, TypeOK, Works, Paid
    <2> QED BY <1>7, <2>5, <2>6, <2>7, <2>8, <2>9, <2>10, <2>11, <2>12, <2>13 DEF Execute
  <1>8. ASSUME EndRun, disk' \in Snapshots, budget' \in 0..Budget, budget' <= budget,
               UNCHANGED <<target, files, version>>
        PROVE  TypeInv'
    BY <1>8, EndRunType, PaidStep DEF TypeOK
  <1>9. CASE EndOfRun
    <2>1. budget \in 0..Budget /\ budget <= budget
      BY JobStateAssumption DEF TypeOK
    <2>2. CASE Complete
      <3>1. [mem EXCEPT !.stage = "completed"] \in Snapshots
        BY DEF TypeOK, Snapshots, Stages
      <3> QED BY <2>2, <3>1, <1>8, FlushType DEF Complete
    <2>3. CASE NoteStopRequest \/ RequestCancel
      <3>1. mem' \in Snapshots
        BY <2>3 DEF NoteStopRequest, RequestCancel, TypeOK, Snapshots, Stages
      <3> QED BY <2>3, <3>1, FlushType, PaidStep
              DEF NoteStopRequest, RequestCancel, Persist, TypeOK, Phases
    <2>4. CASE MarkIncompleteInterrupted
      <3> DEFINE canceled(s) ==
            [mem EXCEPT !.stage = "canceled", !.cancel = TRUE,
                        !.tasks = [t \in Ids |->
                           IF t \in s THEN [mem.tasks[t] EXCEPT !.st = "interrupted"]
                                      ELSE mem.tasks[t]]]
      <3>1. ASSUME NEW s
            PROVE  canceled(s) \in Snapshots
        <4>1. \A t \in Ids : /\ mem.tasks[t] \in Tasks
                            /\ [mem.tasks[t] EXCEPT !.st = "interrupted"] \in Tasks
          BY DEF TypeOK, Snapshots, Tasks, Statuses
        <4> QED BY <4>1 DEF TypeOK, Snapshots, Stages
      <3>2. /\ disk' \in Snapshots
            /\ budget' \in 0..Budget /\ budget' <= budget
        BY <2>4, <3>1, <2>1, FlushType DEF MarkIncompleteInterrupted, TypeOK
      <3> QED BY <2>4, <3>2, <1>8 DEF MarkIncompleteInterrupted
    <2>5. CASE PromptCanceled
      BY <2>5, <2>1, <1>8, NoSnapshotType DEF PromptCanceled, TypeOK
    <2>6. CASE PackingAbandoned
      BY <2>6, <2>1, <1>8, NoSnapshotType, SpendType DEF PackingAbandoned, TypeOK
    <2> QED BY <1>9, <2>2, <2>3, <2>4, <2>5, <2>6 DEF EndOfRun
  <1>10. CASE Environment
    <2>1. CASE StopRequested
      BY <2>1, SpendType, PaidStep, JobStateAssumption DEF StopRequested, TypeOK
    <2>2. CASE ScanEndsRun \/ PromptDeclined \/ Crash
      <3>1. budget' \in 0..Budget /\ budget' <= budget
        BY <2>2, SpendType, JobStateAssumption
           DEF ScanEndsRun, PromptDeclined, Crash, TypeOK
      <3> QED BY <2>2, <3>1, <1>8 DEF ScanEndsRun, PromptDeclined, Crash, TypeOK
    <2>3. ASSUME NEW t \in Ids, ProbeSkips(t)
          PROVE  TypeInv'
      BY <2>3, SpendType, PaidStep, JobStateAssumption DEF ProbeSkips, TypeOK, Outs
    <2>4. ASSUME NEW t \in Ids, DeleteTarget(t)
          PROVE  TypeInv'
      <3>1. NoTarget \in Targets
        BY JobStateAssumption DEF NoTarget, Targets, Settings
      <3> QED BY <2>4, <3>1, SpendType, PaidStep, JobStateAssumption
              DEF DeleteTarget, TypeOK
    <2>5. ASSUME NEW t \in Ids, EditSource(t)
          PROVE  TypeInv'
      <3>1. budget' \in 0..Budget /\ budget' + 1 = budget
        BY <2>5, SpendType DEF EditSource
      <3>2. version' = [version EXCEPT ![t] = @ + 1] /\ version \in [Ids -> 0..Budget]
        BY <2>5 DEF EditSource, TypeOK
      <3>3. ASSUME NEW u \in Ids
            PROVE  version'[u] + budget' <= Budget /\ version'[u] \in 0..Budget
        <4>1. version[u] \in 0..Budget /\ version[u] + budget <= Budget
          BY <3>2 DEF Paid
        <4>2. version'[u] \in {version[u], version[u] + 1}
          BY <3>2
        <4>3. budget \in 0..Budget
          BY DEF TypeOK
        <4> QED BY <3>1, <4>1, <4>2, <4>3, JobStateAssumption
      <3>4. version' \in [Ids -> 0..Budget]
        BY <3>2, <3>3
      <3> QED BY <2>5, <3>1, <3>3, <3>4 DEF EditSource, TypeOK, Paid
    <2>6. ASSUME NEW t \in Ids, CleanSegments(t)
          PROVE  TypeInv'
      <3>1. PICK left \in 0..(files[t] - 1) : files' = [files EXCEPT ![t] = left]
        BY <2>6 DEF CleanSegments
      <3>2. files[t] \in 0..Segs /\ left \in 0..Segs
        BY JobStateAssumption DEF TypeOK
      <3>3. files' \in [Ids -> 0..Segs]
        BY <3>1, <3>2 DEF TypeOK
      <3> QED BY <2>6, <3>3, SpendType, PaidStep, JobStateAssumption
              DEF CleanSegments, TypeOK
    <2> QED BY <1>10, <2>1, <2>2, <2>3, <2>4, <2>5, <2>6 DEF Environment
  <1>11. CASE UNCHANGED vars
    BY <1>11 DEF vars, TypeOK, Paid
  <1> QED BY <1>1, <1>3, <1>4, <1>5, <1>6, <1>7, <1>9, <1>10, <1>11
          DEF Next, StartRun, Plan

\* Type correctness of the store, whatever the environment does.
THEOREM TypeCorrect == Spec => []TypeOK
  <1>1. Spec => []TypeInv
    BY TypeInit, TypeStep, PTL DEF Spec
  <1> QED BY <1>1, PTL DEF TypeInv

-----------------------------------------------------------------------------
(* Safety                                                                    *)
(*                                                                           *)
(* The store is safe for the tasks that do not write their target in place,  *)
(* and as long as no flush is lost, no source changes and no saved state is  *)
(* replaced: the runs of MCJobState show that each of these is needed.       *)

SafeFaults ==
  {"crash", "stop", "decline", "fail", "delete", "skip", "throw", "clean"}

SafeSetting == InPlace = {} /\ Faults \subseteq SafeFaults

Active(t)  == work[t] \in {"encoding", "writing", "assembled", "written", "failing"}
Partial(t) == target[t].has /\ ~target[t].whole

\* What a record must tell of its task's target: a target exists only if an
\* attempt was recorded, and a partial one only under a record that no
\* normalisation turns into a success, because segments are recorded in it.
RecordFits(t, r) ==
  /\ r.fp = 0
  /\ r.st = "absent" => ~r.tried
  /\ target[t].has => r.tried
  /\ Partial(t) => r.seg > 0 /\ r.st \notin {"absent", "pending", "succeeded"}

\* The target was made by the job the state is for, from the source as it is.
OwnOutput(t) ==
  /\ version[t] = 0 /\ target[t].src = 0
  /\ target[t].has => target[t].by \in {Unset, disk.cfg.settings}

\* A worker's task is recorded as running, so a crash finds it so.
ActiveRecorded(t) == Active(t) =>
  /\ phase = "merged" /\ out[t] = "pending"
  /\ disk.tasks[t].st = "running" /\ disk.tasks[t].tried

WrittenWhole(t) ==
  work[t] \in {"assembled", "written"} => target[t].has /\ target[t].whole

\* The segments a running attempt has are recorded.
SegmentsRecorded(t) ==
  Active(t) /\ files[t] > 0 => disk.tasks[t].seg > 0

CountedWhole(t) == Counted(t) => target[t].has /\ target[t].whole

TaskSafe(t) ==
  /\ RecordFits(t, disk.tasks[t])
  /\ OwnOutput(t) /\ ActiveRecorded(t) /\ SegmentsRecorded(t)
  /\ WrittenWhole(t) /\ CountedWhole(t)

\* No flush is lost, and the state file is there while a run is up.
MemIsDisk == phase # "down" => mem = disk /\ StateExists

NoStateIsEmpty == ~StateExists => disk = NoSnapshot

SafeInv ==
  TypeInv /\ MemIsDisk /\ NoStateIsEmpty /\ \A t \in Ids : TaskSafe(t)

\* Normalising or merging a record that fits its target gives one that fits it,
\* and gives a success only to a task whose target is there and whole.
LEMMA RecordStep ==
  ASSUME TypeOK, NEW t \in Ids, NEW r \in Tasks, RecordFits(t, r), version[t] = 0,
         NEW n \in {Normalized(t, r), Merged(t, r)}
  PROVE  /\ RecordFits(t, n)
         /\ n.st = "succeeded" => target[t].has /\ target[t].whole
  <1>1. target[t].has \in BOOLEAN /\ target[t].whole \in BOOLEAN
    BY DEF TypeOK, Targets
  <1>2. r.st = "succeeded" /\ target[t].has => target[t].whole
    BY <1>1 DEF RecordFits, Partial
  <1>3. /\ RecordFits(t, Normalized(t, r))
        /\ Normalized(t, r).st = "succeeded" => target[t].has /\ target[t].whole
    <2>1. CASE r.st = "absent"
      BY <2>1 DEF Normalized, RecordFits
    <2>2. CASE r.st = "succeeded" /\ ~target[t].has
      BY <2>2, JobStateAssumption
         DEF Normalized, RecordFits, FingerprintChanged, Cleared, Tasks, Partial
    <2>3. CASE r.st # "absent" /\ ~(r.st = "succeeded" /\ ~target[t].has)
               /\ RestorableFromTarget(t, r)
      <3>1. Normalized(t, r) = [r EXCEPT !.st = "succeeded"]
        BY <2>3 DEF Normalized, RecordFits, FingerprintChanged
      <3>2. target[t].has /\ target[t].whole
        BY <2>3, <1>1 DEF RestorableFromTarget, RecordFits, Partial
      <3> QED BY <3>1, <3>2 DEF RecordFits, Partial, Tasks
    <2>4. CASE r.st # "absent" /\ ~(r.st = "succeeded" /\ ~target[t].has)
               /\ ~RestorableFromTarget(t, r)
      <3>1. Normalized(t, r) =
              [r EXCEPT !.st = IF r.st = "running" THEN "interrupted" ELSE r.st]
        BY <2>4 DEF Normalized, RecordFits, FingerprintChanged
      <3> QED BY <3>1, <2>4, <1>1, <1>2 DEF RecordFits, Partial, Tasks
    <2> QED BY <2>1, <2>2, <2>3, <2>4
  <1>4. CASE r.st = "absent"
    <2>1. Merged(t, r) = NewTask(t)
      BY <1>4 DEF Merged
    <2> QED BY <2>1, <1>1, <1>3, <1>4 DEF NewTask, RecordFits, Partial
  <1>5. CASE r.st # "absent"
    <2>1. Merged(t, r) = Normalized(t, r)
      BY <1>5 DEF Merged, RecordFits
    <2> QED BY <2>1, <1>3
  <1> QED BY <1>4, <1>5

LEMMA SafeInit == Init => SafeInv
  BY TypeInit
     DEF Init, SafeInv, MemIsDisk, NoStateIsEmpty, TaskSafe, RecordFits, OwnOutput,
         ActiveRecorded, SegmentsRecorded, WrittenWhole, CountedWhole, Counted, Active, Partial,
         NoSnapshot, NoTask, NoTarget, StateExists

LEMMA SafeImplies == SafeInv => SuccessIsBacked
  BY DEF SafeInv, MemIsDisk, TaskSafe, OwnOutput, CountedWhole, Counted,
         SuccessIsBacked, PartialNeverRecovered, RecoveredUnderSettings,
         RecoveredFromSource

\* The faults the safe setting leaves out cannot be paid for.
LEMMA NoFault ==
  ASSUME SafeSetting
  PROVE  \A kind \in {"edit", "reconfig", "restart", "persist"} : ~Spend(kind)
  BY DEF SafeSetting, SafeFaults, Spend

LEMMA FlushLands ==
  ASSUME SafeSetting, NEW s, Flush(s)
  PROVE  disk' = s
  BY NoFault DEF Flush

\* A step between runs, or one that ends a run, touches no task's worker: what
\* is left are its record and its target.
LEMMA IdleStep ==
  ASSUME SafeInv, TypeInv', phase' = "down", work' = [t \in Ids |-> "idle"],
         NoStateIsEmpty',
         \A t \in Ids : RecordFits(t, disk.tasks[t])' /\ OwnOutput(t)'
  PROVE  SafeInv'
  BY DEF SafeInv, MemIsDisk, TaskSafe, ActiveRecorded, SegmentsRecorded, Active, WrittenWhole,
         CountedWhole, Counted

\* With files and configuration untouched, the new record decides.
LEMMA FilesUntouched ==
  ASSUME SafeInv, UNCHANGED <<target, version>>, disk'.cfg = disk.cfg,
         NEW t \in Ids, RecordFits(t, disk'.tasks[t])
  PROVE  RecordFits(t, disk.tasks[t])' /\ OwnOutput(t)'
  BY DEF SafeInv, TaskSafe, RecordFits, OwnOutput, Partial

\* When nothing was ever started no task has a target.
LEMMA NeverStartedHasNone ==
  ASSUME SafeInv, \A t \in Ids : disk.tasks[t].st = "absent" \/ ~disk.tasks[t].tried
  PROVE  \A t \in Ids : ~target[t].has
  BY DEF SafeInv, TaskSafe, RecordFits

\* Removing the state of a never-started job leaves nothing behind.
LEMMA RemovalSafe ==
  ASSUME SafeInv, phase # "down", EndRun, UNCHANGED <<target, files, version>>, TypeInv',
         disk' = IF NeverStarted THEN NoSnapshot ELSE disk
  PROVE  SafeInv'
  <1>1. CASE NeverStarted
    <2>1. \A t \in Ids : ~target[t].has
      BY <1>1, NeverStartedHasNone DEF NeverStarted, SafeInv, MemIsDisk
    <2>2. \A t \in Ids : disk'.tasks[t] = NoTask
      BY <1>1 DEF NoSnapshot
    <2>3. \A t \in Ids : RecordFits(t, disk.tasks[t])' /\ OwnOutput(t)'
      BY <2>1, <2>2 DEF SafeInv, TaskSafe, RecordFits, OwnOutput, Partial, NoTask
    <2> QED BY <1>1, <2>3, IdleStep DEF EndRun, NoStateIsEmpty
  <1>2. CASE ~NeverStarted
    <2>1. \A t \in Ids : RecordFits(t, disk.tasks[t])' /\ OwnOutput(t)'
      BY <1>2, FilesUntouched DEF SafeInv, TaskSafe
    <2> QED BY <1>2, <2>1, IdleStep DEF EndRun, NoStateIsEmpty, SafeInv, StateExists
  <1> QED BY <1>1, <1>2

\* One task's step: the others keep what makes them safe.
LEMMA OneTask ==
  ASSUME SafeInv, TypeInv', NEW t \in Ids, phase = "merged",
         UNCHANGED <<phase, version>>,
         mem' = disk', disk'.cfg = disk.cfg, disk'.stage = disk.stage,
         TaskSafe(t)',
         \A u \in Ids \ {t} :
           /\ disk'.tasks[u] = disk.tasks[u] /\ target'[u] = target[u]
           /\ out'[u] = out[u] /\ work'[u] = work[u] /\ files'[u] = files[u]
  PROVE  SafeInv'
  <1>1. ASSUME NEW u \in Ids, u # t
        PROVE  TaskSafe(u)'
    BY <1>1 DEF SafeInv, TaskSafe, RecordFits, OwnOutput, ActiveRecorded, SegmentsRecorded, Active,
                WrittenWhole, CountedWhole, Counted, Partial
  <1>2. MemIsDisk' /\ NoStateIsEmpty'
    BY DEF SafeInv, MemIsDisk, NoStateIsEmpty, StateExists
  <1> QED BY <1>1, <1>2 DEF SafeInv

LEMMA SafeStep ==
  ASSUME SafeSetting, SafeInv, [Next]_vars
  PROVE  SafeInv'
  <1>1. TypeInv'
    BY TypeStep DEF SafeInv
  <1>2. /\ TypeOK
        /\ disk \in Snapshots /\ mem \in Snapshots
        /\ \A t \in Ids : disk.tasks[t] \in Tasks /\ target[t] \in Targets
    BY DEF SafeInv, TypeInv, TypeOK, Snapshots
  <1>3. \A t \in Ids : TaskSafe(t)
    BY DEF SafeInv
  <1>4. \A s : Flush(s) => disk' = s
    BY FlushLands
  <1>5. ASSUME NEW c \in Configs, Restore(c)
        PROVE  SafeInv'
    <2>1. ASSUME NEW t \in Ids
          PROVE  TaskSafe(t)'
      <3>1. disk'.tasks[t] = Normalized(t, disk.tasks[t])
        BY <1>5, <1>2 DEF Restore, Snapshots
      <3>2. RecordFits(t, disk'.tasks[t])
        BY <3>1, <1>2, <1>3, RecordStep DEF TaskSafe, OwnOutput
      <3>3. disk'.cfg = c /\ disk.cfg.settings \in {Unset, c.settings}
        BY <1>5, <1>2 DEF Restore, ConfigMatches, Snapshots
      <3>4. ~Active(t) /\ work' = work
        BY <1>3, <1>5 DEF TaskSafe, ActiveRecorded, Restore
      <3> QED BY <1>3, <1>5, <3>2, <3>3, <3>4
              DEF Restore, TaskSafe, RecordFits, OwnOutput, ActiveRecorded, SegmentsRecorded, Active,
                  WrittenWhole, CountedWhole, Counted, Partial
    <2>2. disk' = mem' /\ disk'.stage = disk.stage /\ disk.stage # "none"
      BY <1>5, <1>2 DEF Restore, Snapshots, StateExists
    <2> QED BY <1>1, <2>1, <2>2 DEF SafeInv, MemIsDisk, NoStateIsEmpty, StateExists
  <1>6. ASSUME NEW c \in Configs, StartFresh(c)
        PROVE  SafeInv'
    <2>1. disk = NoSnapshot
      BY <1>6 DEF StartFresh, StateExists, SafeInv, NoStateIsEmpty
    <2>2. \A t \in Ids : ~target[t].has
      BY <2>1, NeverStartedHasNone DEF NoSnapshot, NoTask
    <2>3. disk' = mem' /\ disk'.stage = "planning"
          /\ \A t \in Ids : disk'.tasks[t] = NoTask
      BY <1>6 DEF StartFresh, Fresh
    <2>4. ASSUME NEW t \in Ids
          PROVE  TaskSafe(t)'
      <3>1. ~Active(t) /\ work' = work
        BY <1>3, <1>6 DEF TaskSafe, ActiveRecorded, StartFresh, Fresh
      <3> QED BY <1>3, <1>6, <2>2, <2>3, <3>1
              DEF StartFresh, Fresh, TaskSafe, RecordFits, OwnOutput, ActiveRecorded,
                  SegmentsRecorded, Active, WrittenWhole, CountedWhole, Counted, Partial, NoTask
    <2> QED BY <1>1, <2>3, <2>4 DEF SafeInv, MemIsDisk, NoStateIsEmpty, StateExists
  <1>7. CASE SetStageEncoding
    <2>1. disk' = mem' /\ disk'.stage = "encoding" /\ disk'.tasks = disk.tasks
          /\ disk'.cfg = disk.cfg
      BY <1>7, <1>2, <1>4 DEF SetStageEncoding, Persist, SafeInv, MemIsDisk, Snapshots
    <2>2. \A t \in Ids : TaskSafe(t)'
      BY <1>7, <1>3, <2>1
         DEF SetStageEncoding, TaskSafe, RecordFits, OwnOutput, ActiveRecorded, SegmentsRecorded, Active,
             WrittenWhole, CountedWhole, Counted, Partial
    <2> QED BY <1>1, <2>1, <2>2 DEF SafeInv, MemIsDisk, NoStateIsEmpty, StateExists
  <1>8. ASSUME NEW plan \in Plans, MergeTasks(plan)
        PROVE  SafeInv'
    <2>1. mem = disk /\ disk.stage # "none"
      BY <1>8 DEF MergeTasks, SafeInv, MemIsDisk, StateExists
    <2>2. disk' = mem' /\ disk'.stage = disk.stage /\ disk'.cfg = disk.cfg
      BY <1>8, <1>2, <1>4, <2>1 DEF MergeTasks, Persist, Snapshots
    <2>3. ASSUME NEW t \in Ids
          PROVE  TaskSafe(t)'
      <3>1. disk'.tasks[t] = IF t \in plan THEN Merged(t, disk.tasks[t])
                                           ELSE disk.tasks[t]
        BY <1>8, <1>2, <2>1, <2>2 DEF MergeTasks, Snapshots
      <3>2. RecordFits(t, disk'.tasks[t])
        BY <3>1, <1>2, <1>3, RecordStep DEF TaskSafe, OwnOutput
      <3>3. t \in plan /\ disk'.tasks[t].st = "succeeded"
              => target[t].has /\ target[t].whole
        BY <3>1, <1>2, <1>3, RecordStep DEF TaskSafe, OwnOutput
      <3>4. out'[t] = "succeeded" => t \in plan /\ disk'.tasks[t].st = "succeeded"
        BY <1>8, <2>2 DEF MergeTasks, NeedsExecution
      <3>5. ~Active(t) /\ work' = work
        BY <1>3, <1>8 DEF TaskSafe, ActiveRecorded, MergeTasks
      <3> QED BY <1>3, <1>8, <2>2, <3>2, <3>3, <3>4, <3>5
              DEF MergeTasks, TaskSafe, RecordFits, OwnOutput, ActiveRecorded,
                  SegmentsRecorded, Active, WrittenWhole, CountedWhole, Counted, Partial
    <2> QED BY <1>1, <2>1, <2>2, <2>3
            DEF SafeInv, MemIsDisk, NoStateIsEmpty, StateExists
  <1>9. ASSUME NEW t \in Ids, Execute(t)
        PROVE  SafeInv'
    <2>1. phase = "merged" /\ phase' = "merged" /\ version' = version
      BY <1>3, <1>9
         DEF Execute, MarkRunning, MarkSegmentProgress, OpenTarget, FinishTarget,
             RemoveSegmentDir, MarkSucceeded, EncodeFails, MarkFailed, EncodeThrows, TaskSafe, ActiveRecorded, SegmentsRecorded, Active
    <2>2. mem = disk
      BY <2>1 DEF SafeInv, MemIsDisk
    <2>3. ASSUME NEW r, Update(t, r)
          PROVE  /\ mem' = disk' /\ disk'.cfg = disk.cfg /\ disk'.stage = disk.stage
                 /\ disk'.tasks[t] = r
                 /\ \A u \in Ids \ {t} : disk'.tasks[u] = disk.tasks[u]
      BY <2>2, <2>3, <1>2, <1>4 DEF Update, Persist, Snapshots
    <2>4. disk.tasks[t] \in Tasks /\ target[t] \in Targets /\ TaskSafe(t)
      BY <1>2, <1>3
    <2>5. CASE MarkRunning(t)
      <3>1. work'[t] = "encoding"
        BY <2>5, <1>2 DEF MarkRunning, TypeOK
      <3>2. disk'.tasks[t] = [disk.tasks[t] EXCEPT !.st = "running", !.tried = TRUE]
        BY <2>5, <2>2, <2>3 DEF MarkRunning
      <3>4. files'[t] > 0 => disk.tasks[t].seg > 0
        BY <2>5, <2>2, <2>4, <1>2 DEF MarkRunning, Believed, TypeOK, Tasks
      <3>3. TaskSafe(t)'
        BY <2>5, <2>1, <2>3, <2>4, <3>1, <3>2, <3>4
           DEF MarkRunning, TaskSafe, RecordFits, OwnOutput, ActiveRecorded, SegmentsRecorded, Active,
               WrittenWhole, CountedWhole, Counted, Partial, Tasks
      <3> QED BY <2>5, <2>1, <2>3, <3>3, <1>1, <1>2, OneTask DEF MarkRunning, TypeOK
    <2>6. CASE MarkSegmentProgress(t)
      <3>2. PICK total \in (files[t] + 1)..Segs :
              /\ files' = [files EXCEPT ![t] = total]
              /\ Update(t, [mem.tasks[t] EXCEPT !.seg = total])
        BY <2>6 DEF MarkSegmentProgress
      <3>3. total \in Nat /\ total > 0
        BY <1>2, JobStateAssumption DEF TypeOK
      <3>4. disk'.tasks[t] = [disk.tasks[t] EXCEPT !.seg = total]
        BY <3>2, <2>2, <2>3
      <3>5. /\ mem' = disk' /\ disk'.cfg = disk.cfg /\ disk'.stage = disk.stage
            /\ \A u \in Ids \ {t} : /\ disk'.tasks[u] = disk.tasks[u]
                                    /\ files'[u] = files[u]
        BY <3>2, <2>3, <1>2 DEF TypeOK
      <3>1. TaskSafe(t)'
        BY <2>6, <2>1, <2>4, <3>3, <3>4, <3>5
           DEF MarkSegmentProgress, TaskSafe, RecordFits, OwnOutput, ActiveRecorded,
               SegmentsRecorded, Active, WrittenWhole, CountedWhole, Counted, Partial, Tasks
      <3> QED BY <2>6, <2>1, <3>1, <3>5, <1>1, OneTask DEF MarkSegmentProgress
    <2>7. CASE OpenTarget(t)
      <3>1. disk.tasks[t].seg > 0
        BY <2>4, <2>7, JobStateAssumption
           DEF OpenTarget, SafeSetting, TaskSafe, SegmentsRecorded, Active
      <3>2. target'[t] = Output(t, FALSE) /\ work'[t] = "writing"
        BY <2>7, <1>2 DEF OpenTarget, TypeOK
      <3>3. TaskSafe(t)'
        BY <2>7, <2>1, <2>2, <2>4, <3>1, <3>2
           DEF OpenTarget, Output, TaskSafe, RecordFits, OwnOutput, ActiveRecorded,
               SegmentsRecorded, Active, WrittenWhole, CountedWhole, Counted, Partial
      <3> QED BY <2>7, <2>1, <2>2, <3>3, <1>1, <1>2, OneTask DEF OpenTarget, TypeOK
    <2>8. CASE FinishTarget(t)
      <3>1. target'[t] = Output(t, TRUE) /\ work'[t] \in {"assembled", "written"}
        BY <2>8, <1>2 DEF FinishTarget, TypeOK
      <3>2. TaskSafe(t)'
        BY <2>8, <2>1, <2>2, <2>4, <3>1
           DEF FinishTarget, Output, TaskSafe, RecordFits, OwnOutput, ActiveRecorded,
               SegmentsRecorded, Active, WrittenWhole, CountedWhole, Counted, Partial
      <3> QED BY <2>8, <2>1, <2>2, <3>2, <1>1, <1>2, OneTask DEF FinishTarget, TypeOK
    <2>9. CASE MarkSucceeded(t)
      <3>1. work'[t] = "over"
        BY <2>9, <1>2 DEF MarkSucceeded, TypeOK
      <3>2. TaskSafe(t)'
        BY <2>9, <2>1, <2>2, <2>3, <2>4, <3>1
           DEF MarkSucceeded, TaskSafe, RecordFits, OwnOutput, ActiveRecorded, SegmentsRecorded, Active,
               WrittenWhole, CountedWhole, Counted, Partial, Tasks, Targets
      <3> QED BY <2>9, <2>1, <2>3, <3>2, <1>1, <1>2, OneTask DEF MarkSucceeded, TypeOK
    <2>10. CASE EncodeFails(t)
      <3>1. target' = target
        BY <2>10, <1>2 DEF EncodeFails, SafeSetting, TypeOK
      <3>2. work'[t] = "failing"
        BY <2>10, <1>2 DEF EncodeFails, TypeOK
      <3>3. TaskSafe(t)'
        BY <2>10, <2>1, <2>2, <2>4, <3>1, <3>2
           DEF EncodeFails, TaskSafe, RecordFits, OwnOutput, ActiveRecorded, SegmentsRecorded, Active,
               WrittenWhole, CountedWhole, Counted, Partial
      <3> QED BY <2>10, <2>1, <2>2, <3>1, <3>3, <1>1, <1>2, OneTask
              DEF EncodeFails, TypeOK
    <2>11. CASE MarkFailed(t)
      <3>1. work'[t] = "over" /\ out'[t] \in {"pending", "failed"}
        BY <2>11, <1>2 DEF MarkFailed, TypeOK
      <3>2. TaskSafe(t)'
        BY <2>11, <2>1, <2>2, <2>3, <2>4, <3>1
           DEF MarkFailed, TaskSafe, RecordFits, OwnOutput, ActiveRecorded, SegmentsRecorded, Active,
               WrittenWhole, CountedWhole, Counted, Partial, Tasks
      <3> QED BY <2>11, <2>1, <2>3, <3>2, <1>1, <1>2, OneTask DEF MarkFailed, TypeOK
    <2>12. CASE EncodeThrows(t)
      <3>1. work'[t] = "over" /\ out'[t] = "failed"
        BY <2>12, <1>2 DEF EncodeThrows, TypeOK
      <3>2. TaskSafe(t)'
        BY <2>12, <2>1, <2>2, <2>4, <3>1
           DEF EncodeThrows, TaskSafe, RecordFits, OwnOutput, ActiveRecorded, SegmentsRecorded, Active,
               WrittenWhole, CountedWhole, Counted, Partial
      <3> QED BY <2>12, <2>1, <2>2, <3>2, <1>1, <1>2, OneTask DEF EncodeThrows, TypeOK
    <2>13. CASE RemoveSegmentDir(t)
      <3>1. work'[t] = "written" /\ files'[t] = 0
        BY <2>13, <1>2 DEF RemoveSegmentDir, TypeOK
      <3>2. TaskSafe(t)'
        BY <2>13, <2>1, <2>2, <2>4, <3>1
           DEF RemoveSegmentDir, TaskSafe, RecordFits, OwnOutput, ActiveRecorded,
               SegmentsRecorded, Active, WrittenWhole, CountedWhole, Counted, Partial
      <3> QED BY <2>13, <2>1, <2>2, <3>2, <1>1, <1>2, OneTask DEF RemoveSegmentDir, TypeOK
    <2> QED BY <1>9, <2>5, <2>6, <2>7, <2>8, <2>9, <2>10, <2>11, <2>12, <2>13 DEF Execute
  <1>10. ASSUME phase # "down", EndRun, UNCHANGED <<target, files, version>>,
                disk'.cfg = disk.cfg, disk'.stage # "none",
                \A t \in Ids : RecordFits(t, disk'.tasks[t])
         PROVE  SafeInv'
    <2>1. \A t \in Ids : RecordFits(t, disk.tasks[t])' /\ OwnOutput(t)'
      BY <1>10, FilesUntouched
    <2> QED BY <1>1, <1>10, <2>1, IdleStep DEF EndRun, NoStateIsEmpty, StateExists
  <1>11. CASE EndOfRun
    <2>1. phase # "down"
      BY <1>11 DEF EndOfRun, Complete, NoteStopRequest, RequestCancel, WorkersDone,
                   MarkIncompleteInterrupted, PromptCanceled, AtPrompt, PackingAbandoned
    <2>2. mem = disk /\ disk.stage # "none"
      BY <2>1 DEF SafeInv, MemIsDisk, StateExists
    <2>3. CASE Complete
      <3>1. disk' = [mem EXCEPT !.stage = "completed"]
        BY <2>3, <1>4 DEF Complete
      <3>2. disk'.cfg = disk.cfg /\ disk'.stage # "none" /\ disk'.tasks = disk.tasks
        BY <3>1, <2>2, <1>2 DEF Snapshots
      <3> QED BY <2>1, <2>3, <3>2, <1>3, <1>10 DEF Complete, TaskSafe
    <2>4. CASE NoteStopRequest \/ RequestCancel
      <3>1. /\ disk' = mem' /\ disk'.stage = "canceling"
            /\ disk'.tasks = disk.tasks /\ disk'.cfg = disk.cfg
        BY <2>4, <2>2, <1>2, <1>4 DEF NoteStopRequest, RequestCancel, Persist, Snapshots
      <3>2. ASSUME NEW t \in Ids
            PROVE  TaskSafe(t)'
        <4>1. RequestCancel => ~Active(t)
          BY <1>3 DEF RequestCancel, WorkersDone, Resting, Planned, TaskSafe,
                      ActiveRecorded, SegmentsRecorded, Active
        <4> QED BY <2>4, <3>1, <4>1, <1>3
                DEF NoteStopRequest, RequestCancel, TaskSafe, RecordFits, OwnOutput,
                    ActiveRecorded, SegmentsRecorded, Active, WrittenWhole, CountedWhole, Counted, Partial
      <3> QED BY <1>1, <3>1, <3>2 DEF SafeInv, MemIsDisk, NoStateIsEmpty, StateExists
    <2>5. CASE MarkIncompleteInterrupted
      <3> DEFINE incomplete == {t \in Planned : mem.tasks[t].st \in {"pending", "running"}}
                 interrupted ==
                   [mem EXCEPT !.stage = "canceled", !.cancel = TRUE,
                      !.tasks = [t \in Ids |->
                         IF t \in incomplete
                         THEN [mem.tasks[t] EXCEPT !.st = "interrupted"]
                         ELSE mem.tasks[t]]]
      <3>1. disk' = disk \/ disk' = interrupted
        BY <2>5, <1>4 DEF MarkIncompleteInterrupted
      <3>2. CASE disk' = disk
        BY <3>2, <2>1, <2>2, <2>5, <1>3, <1>10 DEF MarkIncompleteInterrupted, TaskSafe
      <3>3. CASE disk' = interrupted
        <4>1. disk'.cfg = disk.cfg /\ disk'.stage = "canceled"
          BY <3>3, <2>2, <1>2 DEF Snapshots
        <4>2. ASSUME NEW t \in Ids
              PROVE  RecordFits(t, disk'.tasks[t])
          <5>1. disk'.tasks[t] \in {disk.tasks[t], [disk.tasks[t] EXCEPT !.st = "interrupted"]}
            BY <3>3, <2>2, <1>2 DEF Snapshots
          <5> QED BY <5>1, <1>2, <1>3 DEF TaskSafe, RecordFits, Tasks
        <4> QED BY <4>1, <4>2, <2>1, <2>5, <1>10 DEF MarkIncompleteInterrupted
      <3> QED BY <3>1, <3>2, <3>3
    <2>6. CASE PromptCanceled
      BY <2>1, <2>6, <1>1, RemovalSafe DEF PromptCanceled
    <2>7. CASE PackingAbandoned
      <3>1. CASE disk' = IF NeverStarted THEN NoSnapshot ELSE disk
        BY <2>1, <2>7, <3>1, <1>1, RemovalSafe DEF PackingAbandoned
      <3>2. CASE UNCHANGED disk
        BY <2>1, <2>2, <2>7, <3>2, <1>3, <1>10 DEF PackingAbandoned, TaskSafe
      <3> QED BY <2>7, <3>1, <3>2 DEF PackingAbandoned
    <2> QED BY <1>11, <2>3, <2>4, <2>5, <2>6, <2>7 DEF EndOfRun
  <1>12. CASE Environment
    <2>1. CASE StopRequested
      BY <2>1, <1>1, <1>3
         DEF StopRequested, SafeInv, MemIsDisk, NoStateIsEmpty, StateExists, TaskSafe,
             RecordFits, OwnOutput, ActiveRecorded, SegmentsRecorded, Active, WrittenWhole, CountedWhole,
             Counted, Partial
    <2>2. CASE ScanEndsRun \/ PromptDeclined \/ Crash
      <3>1. phase # "down" /\ disk.stage # "none" /\ disk' = disk
        BY <2>2 DEF ScanEndsRun, PromptDeclined, AtPrompt, Crash, SafeInv, MemIsDisk,
                    StateExists
      <3> QED BY <2>2, <3>1, <1>3, <1>10 DEF ScanEndsRun, PromptDeclined, Crash, TaskSafe
    <2>3. ASSUME NEW t \in Ids, ProbeSkips(t)
          PROVE  SafeInv'
      <3>1. out' = [out EXCEPT ![t] = "skipped"] /\ ~Active(t)
        BY <2>3 DEF ProbeSkips, AtPrompt, Active
      <3>2. ASSUME NEW u \in Ids
            PROVE  TaskSafe(u)'
        <4>1. ~Active(u)
          BY <2>3 DEF ProbeSkips, AtPrompt, Active
        <4>2. out'[u] = "succeeded" => out[u] = "succeeded"
          BY <3>1, <1>2 DEF TypeOK
        <4> QED BY <2>3, <4>1, <4>2, <1>3
                DEF ProbeSkips, TaskSafe, RecordFits, OwnOutput, ActiveRecorded, SegmentsRecorded, Active,
                    WrittenWhole, CountedWhole, Counted, Partial
      <3> QED BY <2>3, <3>2, <1>1
              DEF ProbeSkips, SafeInv, MemIsDisk, NoStateIsEmpty, StateExists
    <2>4. ASSUME NEW t \in Ids, DeleteTarget(t)
          PROVE  SafeInv'
      <3>1. ASSUME NEW u \in Ids
            PROVE  TaskSafe(u)'
        <4>1. target'[u] \in {target[u], NoTarget}
          BY <2>4, <1>2 DEF DeleteTarget, TypeOK
        <4>2. ~Active(u) /\ ~Counted(u)'
          BY <2>4, <1>3 DEF DeleteTarget, TaskSafe, ActiveRecorded, Counted
        <4> QED BY <2>4, <4>1, <4>2, <1>3
                DEF DeleteTarget, TaskSafe, RecordFits, OwnOutput, ActiveRecorded,
                    SegmentsRecorded, Active, WrittenWhole, CountedWhole, Partial, NoTarget
      <3> QED BY <2>4, <3>1, <1>1
              DEF DeleteTarget, SafeInv, MemIsDisk, NoStateIsEmpty, StateExists
    <2>5. ASSUME NEW t \in Ids, EditSource(t)
          PROVE  FALSE
      BY <2>5, NoFault DEF EditSource
    <2>6. ASSUME NEW t \in Ids, CleanSegments(t)
          PROVE  SafeInv'
      <3>1. ASSUME NEW u \in Ids
            PROVE  TaskSafe(u)'
        <4>1. ~Active(u) /\ ~Active(u)' /\ ~Counted(u)'
          BY <2>6, <1>3 DEF CleanSegments, TaskSafe, ActiveRecorded, Active, Counted
        <4> QED BY <2>6, <4>1, <1>3
                DEF CleanSegments, TaskSafe, RecordFits, OwnOutput, ActiveRecorded,
                    SegmentsRecorded, Active, WrittenWhole, CountedWhole, Partial
      <3> QED BY <2>6, <3>1, <1>1
              DEF CleanSegments, SafeInv, MemIsDisk, NoStateIsEmpty, StateExists
    <2> QED BY <1>12, <2>1, <2>2, <2>3, <2>4, <2>5, <2>6 DEF Environment
  <1>13. CASE UNCHANGED vars
    BY <1>13, <1>1, <1>3
       DEF vars, SafeInv, MemIsDisk, NoStateIsEmpty, StateExists, TaskSafe, RecordFits,
           OwnOutput, ActiveRecorded, SegmentsRecorded, Active, WrittenWhole, CountedWhole, Counted, Partial
  <1>14. ASSUME NEW c \in Configs, DiscardMismatched(c) \/ Restart(c)
         PROVE  FALSE
    BY <1>14, NoFault DEF DiscardMismatched, Restart
  <1> QED BY <1>5, <1>6, <1>7, <1>8, <1>9, <1>11, <1>12, <1>13, <1>14
          DEF Next, StartRun, Plan

\* A resumed job counts only whole outputs, of this job's settings and of the
\* sources as they are, through any number of crashes, stops, declined prompts,
\* failed or thrown encodes, deleted targets and segments, and skipped items.
THEOREM RecoveredIsBacked ==
  ASSUME SafeSetting
  PROVE  Spec => []SuccessIsBacked
  <1>1. SafeInv /\ [Next]_vars => SafeInv'
    BY SafeStep
  <1>2. Spec => []SafeInv
    BY <1>1, SafeInit, PTL DEF Spec
  <1> QED BY <1>2, SafeImplies, PTL

-----------------------------------------------------------------------------
(* What is on record stays: finished tasks and recorded segments, whatever   *)
(* the environment does                                                      *)

\* A record says what came before: segments and a worker only with an attempt, none of a
\* task it does not know, and a fingerprint the source once had.
Remembers(t, r) ==
  /\ r.seg > 0 \/ r.st = "running" => r.tried
  /\ r.st = "absent" => ~r.tried
  /\ r.fp <= version[t]

\* A record has no fewer segments than the one on disk, or as many as are there.
SegmentsFit(t, r, there) ==
  disk.tasks[t].seg <= r.seg \/ (r.seg = there /\ there > 0)

\* Over lost flushes the record on disk is never ahead of the one in memory, as long as
\* it is about the source and the segments as they are, and neither counts a target that
\* is not there.
DiskBehind(t) ==
  phase # "down" =>
    /\ disk.tasks[t].tried => mem.tasks[t].tried
    /\ disk.tasks[t].st # "absent" => mem.tasks[t].st # "absent"
    /\ disk.tasks[t].fp = version[t] =>
         /\ SegmentsFit(t, mem.tasks[t], files[t])
         /\ disk.tasks[t].st = "succeeded" =>
              mem.tasks[t].st = "succeeded" /\ mem.tasks[t].fp = version[t]
    /\ mem.tasks[t].st = "succeeded" /\ mem.tasks[t].fp = version[t] => target[t].has

\* A worker has a task only while its record is running, and takes none that succeeded;
\* what it assembles are all the segments.
WorkerOnRecord(t) ==
  /\ Active(t) => phase = "merged" /\ out[t] = "pending" /\ mem.tasks[t].st = "running"
  /\ work[t] \in {"assembled", "written"} => target[t].has
  /\ work[t] = "assembled" \/ (work[t] = "writing" /\ t \in Segmented) => files[t] = Segs
  /\ phase = "merged" /\ out[t] = "pending" /\ work[t] = "idle" =>
       mem.tasks[t].st # "succeeded"

RecordsInv ==
  /\ TypeInv
  /\ phase \in {"initialized", "staged"} => mem.tasks = disk.tasks
  /\ \A t \in Ids :
       /\ Remembers(t, disk.tasks[t]) /\ Remembers(t, mem.tasks[t])
       /\ DiskBehind(t) /\ WorkerOnRecord(t)

\* The two action properties, of one task.
StaysOnRecord(t) ==
  /\ Finished(t) => \/ Finished(t)'
                    \/ disk.tasks[t].fp # version[t] \/ target'[t] # target[t]
                    \/ disk'.tasks[t].st = "absent"
  /\ disk'.tasks[t].seg < disk.tasks[t].seg =>
       \/ disk.tasks[t].fp # version[t]
       \/ disk.tasks[t].st = "succeeded" /\ ~target[t].has
       \/ disk'.tasks[t].st = "absent" /\ disk' # NoSnapshot
       \/ disk'.tasks[t].seg = files'[t] /\ files'[t] > 0

\* What the store may make of a record it has in memory.
Keeps(t, r) ==
  /\ mem.tasks[t].tried => r.tried
  /\ mem.tasks[t].st # "absent" => r.st # "absent"
  /\ disk.tasks[t].fp = version[t] => SegmentsFit(t, r, files'[t])
  /\ mem.tasks[t].st = "succeeded" /\ mem.tasks[t].fp = version[t] =>
       r.st = "succeeded" /\ r.fp = version[t]

LEMMA RecordsInit == Init => RecordsInv
  BY TypeInit, JobStateAssumption
     DEF Init, RecordsInv, Remembers, DiskBehind, WorkerOnRecord, Active, NoSnapshot, NoTask

\* A record that keeps what is in memory, flushed or not, loses nothing.
LEMMA KeptOnDisk ==
  ASSUME RecordsInv, phase # "down", NEW t \in Ids, NEW r \in Tasks, Keeps(t, r),
         disk'.tasks[t] \in {disk.tasks[t], r}
  PROVE  StaysOnRecord(t)
  <1>1. /\ disk.tasks[t] \in Tasks /\ mem.tasks[t] \in Tasks /\ DiskBehind(t)
        /\ version[t] \in Nat
    BY DEF RecordsInv, TypeInv, TypeOK, Snapshots
  <1>2. /\ disk.tasks[t].seg \in Nat /\ mem.tasks[t].seg \in Nat /\ r.seg \in Nat
        /\ disk.tasks[t].fp \in Nat
    BY <1>1 DEF Tasks
  <1>3. Finished(t) => \/ Finished(t)'
                       \/ disk.tasks[t].fp # version[t] \/ target'[t] # target[t]
    BY <1>1 DEF DiskBehind, Keeps, Finished
  <1>4. disk'.tasks[t].seg < disk.tasks[t].seg =>
          \/ disk.tasks[t].fp # version[t]
          \/ disk'.tasks[t].seg = files'[t] /\ files'[t] > 0
    BY <1>1, <1>2 DEF Keeps, SegmentsFit
  <1> QED BY <1>3, <1>4 DEF StaysOnRecord

\* A step within a run.
LEMMA StepInRun ==
  ASSUME RecordsInv, TypeInv', phase # "down", phase' # "down", UNCHANGED version,
         phase' \in {"initialized", "staged"} => mem'.tasks = disk'.tasks,
         \A t \in Ids :
           /\ Keeps(t, mem'.tasks[t]) /\ Remembers(t, mem'.tasks[t])
           /\ disk'.tasks[t] \in {disk.tasks[t], mem'.tasks[t]}
           /\ mem'.tasks[t].st = "succeeded" /\ mem'.tasks[t].fp = version[t] => target'[t].has
           /\ WorkerOnRecord(t)'
  PROVE  RecordsInv' /\ \A t \in Ids : StaysOnRecord(t)
  <1>1. ASSUME NEW t \in Ids
        PROVE  /\ Remembers(t, disk.tasks[t])' /\ Remembers(t, mem.tasks[t])'
               /\ DiskBehind(t)' /\ StaysOnRecord(t)
    <2>1. disk.tasks[t] \in Tasks /\ mem.tasks[t] \in Tasks /\ mem'.tasks[t] \in Tasks
      BY DEF RecordsInv, TypeInv, TypeOK, Snapshots
    <2>2. disk.tasks[t].seg \in Nat /\ mem.tasks[t].seg \in Nat /\ mem'.tasks[t].seg \in Nat
      BY <2>1 DEF Tasks
    <2>3. Remembers(t, disk.tasks[t])' /\ Remembers(t, mem.tasks[t])'
      BY DEF RecordsInv, Remembers
    <2>6. SegmentsFit(t, mem'.tasks[t], files'[t]) => SegmentsFit(t, mem.tasks[t], files[t])'
      BY <2>2 DEF SegmentsFit
    <2>7. disk'.tasks[t] = mem'.tasks[t] => SegmentsFit(t, mem.tasks[t], files[t])'
      BY <2>2 DEF SegmentsFit
    <2>4. DiskBehind(t)'
      BY <2>2, <2>6, <2>7 DEF RecordsInv, DiskBehind, Keeps
    <2>5. StaysOnRecord(t)
      BY <2>1, KeptOnDisk
    <2> QED BY <2>3, <2>4, <2>5
  <1> QED BY <1>1 DEF RecordsInv

\* A step that ends a run without removing its state.
LEMMA RunEndsOnRecord ==
  ASSUME RecordsInv, TypeInv', phase # "down", EndRun, UNCHANGED <<target, files, version>>,
         \A t \in Ids : \E r \in Tasks :
           Keeps(t, r) /\ Remembers(t, r) /\ disk'.tasks[t] \in {disk.tasks[t], r}
  PROVE  RecordsInv' /\ \A t \in Ids : StaysOnRecord(t)
  <1>1. ASSUME NEW t \in Ids
        PROVE  /\ Remembers(t, disk.tasks[t])' /\ Remembers(t, mem.tasks[t])'
               /\ DiskBehind(t)' /\ WorkerOnRecord(t)' /\ StaysOnRecord(t)
    <2>1. PICK r \in Tasks :
            Keeps(t, r) /\ Remembers(t, r) /\ disk'.tasks[t] \in {disk.tasks[t], r}
      OBVIOUS
    <2>2. StaysOnRecord(t)
      BY <2>1, KeptOnDisk
    <2>3. Remembers(t, disk.tasks[t])'
      BY <2>1 DEF RecordsInv, Remembers
    <2>4. Remembers(t, mem.tasks[t])'
      BY JobStateAssumption
         DEF EndRun, NoSnapshot, NoTask, Remembers, RecordsInv, TypeInv, TypeOK
    <2>5. DiskBehind(t)' /\ WorkerOnRecord(t)'
      BY DEF EndRun, DiskBehind, WorkerOnRecord, Active
    <2> QED BY <2>2, <2>3, <2>4, <2>5
  <1> QED BY <1>1 DEF RecordsInv, EndRun

\* The state of a run that started nothing, removed: no segment goes with it.
LEMMA RemovalOnRecord ==
  ASSUME RecordsInv, TypeInv', phase # "down", EndRun, UNCHANGED <<target, files, version>>,
         disk' = IF NeverStarted THEN NoSnapshot ELSE disk
  PROVE  RecordsInv' /\ \A t \in Ids : StaysOnRecord(t)
  <1>1. CASE NeverStarted
    <2>1. ASSUME NEW t \in Ids
          PROVE  /\ Remembers(t, disk.tasks[t])' /\ Remembers(t, mem.tasks[t])'
                 /\ DiskBehind(t)' /\ WorkerOnRecord(t)' /\ StaysOnRecord(t)
      <3>1. disk'.tasks[t] = NoTask /\ mem'.tasks[t] = NoTask
        BY <1>1 DEF EndRun, NoSnapshot
      <3>2. ~disk.tasks[t].tried
        <4>1. mem.tasks[t].st = "absent" \/ ~mem.tasks[t].tried
          BY <1>1 DEF NeverStarted
        <4> QED BY <4>1 DEF RecordsInv, DiskBehind, Remembers
      <3>3. disk.tasks[t] \in Tasks
        BY DEF RecordsInv, TypeInv, TypeOK, Snapshots
      <3>4. disk.tasks[t].seg = 0
        BY <3>2, <3>3, JobStateAssumption DEF RecordsInv, Remembers, Tasks
      <3>5. StaysOnRecord(t)
        BY <3>1, <3>4 DEF StaysOnRecord, NoTask
      <3>6. Remembers(t, disk.tasks[t])' /\ Remembers(t, mem.tasks[t])'
        BY <3>1, JobStateAssumption DEF NoTask, Remembers, RecordsInv, TypeInv, TypeOK
      <3>7. DiskBehind(t)' /\ WorkerOnRecord(t)'
        BY DEF EndRun, DiskBehind, WorkerOnRecord, Active
      <3> QED BY <3>5, <3>6, <3>7
    <2> QED BY <2>1 DEF RecordsInv, EndRun
  <1>2. CASE ~NeverStarted
    <2>1. ASSUME NEW t \in Ids
          PROVE  /\ mem.tasks[t] \in Tasks /\ Keeps(t, mem.tasks[t])
                 /\ Remembers(t, mem.tasks[t]) /\ disk'.tasks[t] = disk.tasks[t]
      BY <1>2 DEF RecordsInv, TypeInv, TypeOK, Snapshots, Keeps, DiskBehind, Tasks
    <2> QED BY <2>1, RunEndsOnRecord
  <1> QED BY <1>1, <1>2

\* What normalising and merging make of a record that is on disk as it is in memory.
LEMMA NormalizedKeeps ==
  ASSUME RecordsInv, NEW t \in Ids, NEW d \in Tasks, Remembers(t, d),
         NEW r \in {Normalized(t, d), Merged(t, d)}
  PROVE  /\ r \in Tasks /\ Remembers(t, r)
         /\ d.tried => r.tried
         /\ d.st # "absent" => r.st # "absent"
         /\ d.fp = version[t] /\ ~(d.st = "succeeded" /\ ~target[t].has) => d.seg <= r.seg
         /\ d.st = "succeeded" /\ d.fp = version[t] /\ target[t].has =>
              r.st = "succeeded" /\ r.fp = version[t]
         /\ r.st = "succeeded" => target[t].has
  <1>1. version[t] \in Nat /\ d.seg \in Nat /\ d.fp \in Nat /\ r \in Tasks
    BY RecordType DEF RecordsInv, TypeInv, TypeOK, Tasks
  <1>2. CASE r = NewTask(t) /\ d.st = "absent"
    BY <1>1, <1>2 DEF NewTask, Remembers, Tasks
  <1>3. CASE r = d /\ d.st = "absent"
    BY <1>1, <1>3 DEF Remembers
  <1>4. CASE r = Cleared(d, version[t]) /\ d.st # "absent" /\ d.fp # version[t]
    BY <1>1, <1>4 DEF Cleared, Remembers, Tasks
  <1>5. CASE r = Cleared(d, d.fp) /\ d.st = "succeeded" /\ ~target[t].has
    BY <1>1, <1>5 DEF Cleared, Remembers, Tasks
  <1>6. CASE /\ d.st # "absent" /\ ~(d.st = "succeeded" /\ ~target[t].has)
             /\ r = [d EXCEPT !.st = IF RestorableFromTarget(t, d) THEN "succeeded"
                                     ELSE IF d.st = "running" THEN "interrupted" ELSE d.st]
    BY <1>1, <1>6 DEF RestorableFromTarget, Remembers, Tasks
  <1> QED BY <1>2, <1>3, <1>4, <1>5, <1>6 DEF Normalized, Merged, FingerprintChanged

\* The start of a run.
LEMMA StartOnRecord ==
  ASSUME RecordsInv, TypeInv', StartRun
  PROVE  RecordsInv' /\ \A t \in Ids : StaysOnRecord(t)
  <1>1. \A t \in Ids : ~Active(t)
    BY DEF StartRun, Restore, StartFresh, DiscardMismatched, Restart, RecordsInv, WorkerOnRecord
  <1>2. /\ phase' = "initialized" /\ UNCHANGED <<work, target, files, version>>
        /\ mem' = disk'
    BY DEF StartRun, Restore, StartFresh, DiscardMismatched, Restart, Fresh
  <1>3. ASSUME NEW t \in Ids,
               Remembers(t, disk'.tasks[t]), disk'.tasks[t] \in Tasks,
               disk'.tasks[t].st = "succeeded" => target[t].has
        PROVE  /\ Remembers(t, disk.tasks[t])' /\ Remembers(t, mem.tasks[t])'
               /\ DiskBehind(t)' /\ WorkerOnRecord(t)'
    <2>1. disk'.tasks[t].seg \in Nat
      BY <1>3 DEF Tasks
    <2>2. SegmentsFit(t, mem.tasks[t], files[t])'
      BY <1>2, <2>1 DEF SegmentsFit
    <2> QED BY <1>1, <1>2, <1>3, <2>2
            DEF Remembers, DiskBehind, WorkerOnRecord, Active, RecordsInv
  <1>4. ASSUME NEW c \in Configs, Restore(c), NEW t \in Ids
        PROVE  /\ Remembers(t, disk'.tasks[t]) /\ disk'.tasks[t] \in Tasks
               /\ disk'.tasks[t].st = "succeeded" => target[t].has
               /\ StaysOnRecord(t)
    <2>1. disk.tasks[t] \in Tasks /\ Remembers(t, disk.tasks[t])
      BY DEF RecordsInv, TypeInv, TypeOK, Snapshots
    <2>2. disk'.tasks[t] = Normalized(t, disk.tasks[t])
      BY <1>4 DEF Restore, RecordsInv, TypeInv, TypeOK, Snapshots
    <2>3. /\ Remembers(t, disk'.tasks[t]) /\ disk'.tasks[t] \in Tasks
          /\ disk'.tasks[t].st = "succeeded" => target[t].has
      BY <2>1, <2>2, NormalizedKeeps
    <2>4. disk.tasks[t].fp = version[t] /\ ~(disk.tasks[t].st = "succeeded" /\ ~target[t].has)
            => disk.tasks[t].seg <= disk'.tasks[t].seg
      BY <2>1, <2>2, NormalizedKeeps
    <2>5. disk.tasks[t].st = "succeeded" /\ disk.tasks[t].fp = version[t] /\ target[t].has
            => disk'.tasks[t].st = "succeeded"
      BY <2>1, <2>2, NormalizedKeeps
    <2>6. disk.tasks[t].seg \in Nat /\ disk'.tasks[t].seg \in Nat
      BY <2>1, <2>3 DEF Tasks
    <2>7. StaysOnRecord(t)
      BY <1>2, <2>4, <2>5, <2>6 DEF StaysOnRecord, Finished
    <2> QED BY <2>3, <2>7
  <1>5. ASSUME NEW c \in Configs, Fresh(c), NEW t \in Ids
        PROVE  /\ Remembers(t, disk'.tasks[t]) /\ disk'.tasks[t] \in Tasks
               /\ disk'.tasks[t].st = "succeeded" => target[t].has
               /\ StaysOnRecord(t)
    <2>1. disk'.tasks[t] = NoTask /\ disk'.stage = "planning"
      BY <1>5 DEF Fresh
    <2>2. disk' # NoSnapshot
      BY <2>1 DEF NoSnapshot
    <2>3. version[t] \in Nat /\ disk'.tasks[t] \in Tasks
      BY DEF RecordsInv, TypeInv, TypeOK, Snapshots
    <2> QED BY <2>1, <2>2, <2>3 DEF Remembers, NoTask, StaysOnRecord
  <1>6. \A t \in Ids : /\ Remembers(t, disk'.tasks[t]) /\ disk'.tasks[t] \in Tasks
                       /\ disk'.tasks[t].st = "succeeded" => target[t].has
                       /\ StaysOnRecord(t)
    BY <1>4, <1>5 DEF StartRun, StartFresh, DiscardMismatched, Restart
  <1> QED BY <1>2, <1>3, <1>6 DEF RecordsInv

\* The tasks of the plan are merged.
LEMMA MergeOnRecord ==
  ASSUME RecordsInv, TypeInv', NEW plan \in Plans, MergeTasks(plan)
  PROVE  RecordsInv' /\ \A t \in Ids : StaysOnRecord(t)
  <1>1. phase = "staged" /\ phase' = "merged" /\ UNCHANGED <<work, target, files, version>>
        /\ mem.tasks = disk.tasks
    BY DEF MergeTasks, RecordsInv
  <1>2. disk' = mem' \/ disk' = disk
    BY DEF MergeTasks, Persist, Flush
  <1>3. ASSUME NEW t \in Ids
        PROVE  /\ Keeps(t, mem'.tasks[t]) /\ Remembers(t, mem'.tasks[t])
               /\ disk'.tasks[t] \in {disk.tasks[t], mem'.tasks[t]}
               /\ mem'.tasks[t].st = "succeeded" /\ mem'.tasks[t].fp = version[t] =>
                    target'[t].has
               /\ WorkerOnRecord(t)'
    <2> DEFINE d == mem.tasks[t]
               r == mem'.tasks[t]
    <2>1. /\ d \in Tasks /\ Remembers(t, d) /\ d = disk.tasks[t]
          /\ d.st = "succeeded" /\ d.fp = version[t] => target[t].has
      BY <1>1 DEF RecordsInv, TypeInv, TypeOK, Snapshots, DiskBehind
    <2>2. r = IF t \in plan THEN Merged(t, d) ELSE d
      BY DEF MergeTasks, RecordsInv, TypeInv, TypeOK, Snapshots
    <2>3. ASSUME t \in plan
          PROVE  Keeps(t, r) /\ Remembers(t, r) /\
                 (r.st = "succeeded" /\ r.fp = version[t] => target[t].has)
      <3>1. r = Merged(t, d)
        BY <2>2, <2>3
      <3> HIDE DEF d, r
      <3>2. /\ Remembers(t, r)
            /\ d.tried => r.tried
            /\ d.st # "absent" => r.st # "absent"
            /\ d.fp = version[t] /\ ~(d.st = "succeeded" /\ ~target[t].has) => d.seg <= r.seg
            /\ d.st = "succeeded" /\ d.fp = version[t] /\ target[t].has =>
                 r.st = "succeeded" /\ r.fp = version[t]
            /\ r.st = "succeeded" => target[t].has
        BY <2>1, <3>1, NormalizedKeeps
      <3> USE DEF d, r
      <3> QED BY <1>1, <2>1, <3>2 DEF Keeps, SegmentsFit
    <2>4. ASSUME t \notin plan
          PROVE  Keeps(t, r) /\ Remembers(t, r) /\
                 (r.st = "succeeded" /\ r.fp = version[t] => target[t].has)
      <3>1. d.seg <= d.seg
        BY <2>1 DEF Tasks
      <3> QED BY <1>1, <2>1, <2>2, <2>4, <3>1 DEF Keeps, SegmentsFit
    <2>5. out'[t] = "pending" => r.st # "succeeded"
      BY DEF MergeTasks, NeedsExecution
    <2>6. WorkerOnRecord(t)'
      BY <1>1, <2>5 DEF WorkerOnRecord, Active, RecordsInv
    <2>7. disk'.tasks[t] \in {disk.tasks[t], r}
      BY <1>2
    <2> QED BY <1>1, <2>3, <2>4, <2>6, <2>7
  <1> QED BY <1>1, <1>3, StepInRun

\* One task's step: the others' records, workers and targets stay.
LEMMA OneOnRecord ==
  ASSUME RecordsInv, TypeInv', phase = "merged", UNCHANGED <<phase, version>>,
         NEW t \in Ids, NEW r \in Tasks,
         mem'.tasks = [mem.tasks EXCEPT ![t] = r], disk' = mem' \/ disk' = disk,
         Keeps(t, r), Remembers(t, r), r.st = "succeeded" => target'[t].has,
         WorkerOnRecord(t)',
         \A u \in Ids \ {t} :
           /\ out'[u] = out[u] /\ work'[u] = work[u]
           /\ target'[u] = target[u] /\ files'[u] = files[u]
  PROVE  RecordsInv' /\ \A u \in Ids : StaysOnRecord(u)
  <1>1. mem'.tasks[t] = r
    BY DEF RecordsInv, TypeInv, TypeOK, Snapshots
  <1>2. ASSUME NEW u \in Ids, u # t
        PROVE  /\ Keeps(u, mem'.tasks[u]) /\ Remembers(u, mem'.tasks[u])
               /\ mem'.tasks[u].st = "succeeded" /\ mem'.tasks[u].fp = version[u] =>
                    target'[u].has
               /\ WorkerOnRecord(u)'
    <2>1. mem'.tasks[u] = mem.tasks[u] /\ mem.tasks[u] \in Tasks
      BY <1>2 DEF RecordsInv, TypeInv, TypeOK, Snapshots
    <2>3. WorkerOnRecord(u)'
      BY <1>2, <2>1 DEF RecordsInv, WorkerOnRecord, Active
    <2> QED BY <1>2, <2>1, <2>3 DEF RecordsInv, DiskBehind, Keeps
  <1>3. \A u \in Ids : disk'.tasks[u] \in {disk.tasks[u], mem'.tasks[u]}
    OBVIOUS
  <1> QED BY <1>1, <1>2, <1>3, StepInRun

LEMMA ExecuteOnRecord ==
  ASSUME RecordsInv, TypeInv', NEW t \in Ids, Execute(t)
  PROVE  RecordsInv' /\ \A u \in Ids : StaysOnRecord(u)
  <1>1. /\ TypeOK /\ WorkerOnRecord(t) /\ DiskBehind(t) /\ Remembers(t, mem.tasks[t])
        /\ mem.tasks[t] \in Tasks
    BY DEF RecordsInv, TypeInv, TypeOK, Snapshots
  <1>2. /\ phase = "merged" /\ UNCHANGED <<phase, version>>
        /\ work[t] # "idle" /\ work[t] # "over" => mem.tasks[t].st = "running"
    BY <1>1 DEF Execute, MarkRunning, MarkSegmentProgress, OpenTarget, FinishTarget,
                RemoveSegmentDir, MarkSucceeded, EncodeFails, MarkFailed, EncodeThrows,
                WorkerOnRecord, Active,
                TypeOK, Works
  <1>3. ASSUME NEW r \in Tasks, Update(t, r)
        PROVE  /\ mem'.tasks = [mem.tasks EXCEPT ![t] = r]
               /\ disk' = mem' \/ disk' = disk
    BY <1>1, <1>3 DEF Update, Persist, Flush, TypeOK, Snapshots
  <1>4. /\ mem.tasks[t].seg \in Nat
        /\ \A st \in Statuses : [mem.tasks[t] EXCEPT !.st = st] \in Tasks
    BY <1>1 DEF Tasks
  <1>5. CASE MarkRunning(t)
    <2> DEFINE r == [mem.tasks[t] EXCEPT !.st = "running", !.tried = TRUE]
    <2>1. r \in Tasks /\ Remembers(t, r)
      BY <1>1 DEF Tasks, Statuses, Remembers
    <2>2. mem.tasks[t].st # "succeeded"
      BY <1>1, <1>5 DEF MarkRunning, WorkerOnRecord
    <2>8. SegmentsFit(t, mem.tasks[t], files[t]) => SegmentsFit(t, r, files'[t])
      <3>1. files'[t] = Believed(t) /\ files[t] \in Nat /\ r.seg = mem.tasks[t].seg
        BY <1>1, <1>5, JobStateAssumption DEF MarkRunning, TypeOK, Tasks
      <3> QED BY <1>4, <3>1 DEF SegmentsFit, Believed
    <2>3. Keeps(t, r)
      BY <1>1, <1>2, <2>2, <2>8 DEF Keeps, DiskBehind, Tasks
    <2>4. mem'.tasks = [mem.tasks EXCEPT ![t] = r] /\ (disk' = mem' \/ disk' = disk)
      BY <1>3, <1>5, <2>1 DEF MarkRunning
    <2>5. mem'.tasks[t].st = "running" /\ work'[t] = "encoding" /\ out'[t] = "pending"
      BY <1>1, <1>5, <2>4 DEF MarkRunning, TypeOK, Snapshots, Tasks
    <2>6. WorkerOnRecord(t)'
      BY <1>2, <2>5 DEF WorkerOnRecord, Active
    <2>7. r.st # "succeeded" /\ UNCHANGED target
      BY <1>1, <1>5 DEF MarkRunning, Tasks
    <2>9. \A u \in Ids \ {t} : /\ out'[u] = out[u] /\ work'[u] = work[u]
                             /\ target'[u] = target[u] /\ files'[u] = files[u]
      BY <1>1, <1>5 DEF MarkRunning, TypeOK
    <2> QED BY <1>1, <1>2, <2>1, <2>3, <2>4, <2>6, <2>7, <2>9, OneOnRecord
  <1>6. CASE MarkSegmentProgress(t)
    <2>1. PICK total \in (files[t] + 1)..Segs :
            /\ files' = [files EXCEPT ![t] = total]
            /\ Update(t, [mem.tasks[t] EXCEPT !.seg = total])
      BY <1>6 DEF MarkSegmentProgress
    <2> DEFINE r == [mem.tasks[t] EXCEPT !.seg = total]
    <2>2. /\ total \in 0..Segs /\ total > 0 /\ files'[t] = total
          /\ \A u \in Ids \ {t} : files'[u] = files[u]
      BY <1>1, <2>1, JobStateAssumption DEF TypeOK
    <2>3. mem.tasks[t].st = "running" /\ r.st = "running" /\ r.seg = total /\ r \in Tasks
      BY <1>1, <1>2, <1>6, <2>2 DEF MarkSegmentProgress, Tasks
    <2>4. Keeps(t, r)
      BY <1>1, <2>2, <2>3 DEF Keeps, SegmentsFit, Tasks
    <2>5. mem'.tasks = [mem.tasks EXCEPT ![t] = r] /\ (disk' = mem' \/ disk' = disk)
      BY <1>3, <2>1, <2>3
    <2>6. mem'.tasks[t] = r
      BY <1>1, <2>5 DEF TypeOK, Snapshots
    <2>7. WorkerOnRecord(t)'
      BY <1>1, <1>2, <1>6, <2>3, <2>6 DEF MarkSegmentProgress, WorkerOnRecord, Active
    <2>8. mem.tasks[t].tried
      BY <1>1, <2>3 DEF Remembers
    <2>9. Remembers(t, r)
      BY <1>1, <2>3, <2>8 DEF Remembers, Tasks
    <2>10. r.st # "succeeded" /\ UNCHANGED <<out, work, target>>
      BY <1>6, <2>3 DEF MarkSegmentProgress
    <2> HIDE DEF r
    <2> QED BY <1>2, <2>2, <2>3, <2>4, <2>5, <2>7, <2>9, <2>10, OneOnRecord
  <1>7. CASE OpenTarget(t) \/ FinishTarget(t) \/ EncodeFails(t) \/ EncodeThrows(t)
    <2> DEFINE r == mem.tasks[t]
    <2>1. r.st = "running"
      BY <1>2, <1>7 DEF OpenTarget, FinishTarget, EncodeFails, EncodeThrows
    <2>2. Keeps(t, r)
      BY <1>1, <1>2, <1>7 DEF Keeps, DiskBehind, OpenTarget, FinishTarget, EncodeFails,
                              EncodeThrows
    <2>3. mem'.tasks = [mem.tasks EXCEPT ![t] = r] /\ disk' = disk /\ mem'.tasks[t] = r
      BY <1>1, <1>7 DEF OpenTarget, FinishTarget, EncodeFails, EncodeThrows, TypeOK, Snapshots
    <2>4. WorkerOnRecord(t)'
      <3>1. out[t] = "pending"
        BY <1>1, <1>7 DEF OpenTarget, FinishTarget, EncodeFails, EncodeThrows,
                          WorkerOnRecord, Active
      <3>2. CASE OpenTarget(t)
        <4>1. /\ work' = [work EXCEPT ![t] = "writing"] /\ work'[t] = "writing"
              /\ UNCHANGED <<out, files>> /\ (t \in Segmented => files[t] = Segs)
          BY <1>1, <3>2, JobStateAssumption DEF OpenTarget, TypeOK
        <4> QED BY <1>2, <2>1, <2>3, <3>1, <4>1 DEF WorkerOnRecord, Active
      <3>3. CASE FinishTarget(t)
        <4>1. /\ work'[t] \in {"assembled", "written"} /\ UNCHANGED <<out, files>>
              /\ target'[t].has /\ (work'[t] = "assembled" => t \in Segmented)
          BY <1>1, <3>3 DEF FinishTarget, TypeOK, Output
        <4>2. t \in Segmented => work[t] = "writing"
          BY <3>3 DEF FinishTarget
        <4> QED BY <1>1, <1>2, <2>1, <2>3, <3>1, <4>1, <4>2 DEF WorkerOnRecord, Active
      <3>4. CASE EncodeFails(t) \/ EncodeThrows(t)
        BY <1>1, <1>2, <2>1, <2>3, <3>1, <3>4
           DEF EncodeFails, EncodeThrows, WorkerOnRecord, Active, TypeOK
      <3> QED BY <1>7, <3>2, <3>3, <3>4
    <2>5. \A u \in Ids \ {t} : /\ out'[u] = out[u] /\ work'[u] = work[u]
                             /\ target'[u] = target[u] /\ files'[u] = files[u]
      BY <1>1, <1>7 DEF OpenTarget, FinishTarget, EncodeFails, EncodeThrows, TypeOK
    <2> QED BY <1>1, <1>2, <2>1, <2>2, <2>3, <2>4, <2>5, OneOnRecord
  <1>8. CASE MarkSucceeded(t)
    <2> DEFINE r == [mem.tasks[t] EXCEPT !.st = "succeeded"]
    <2>5. UNCHANGED files
      BY <1>8 DEF MarkSucceeded
    <2>1. mem.tasks[t].st = "running" /\ target[t].has /\ target' = target
      BY <1>1, <1>2, <1>8 DEF MarkSucceeded, WorkerOnRecord
    <2>2. r \in Tasks /\ Keeps(t, r) /\ Remembers(t, r)
      <3>1. r \in Tasks /\ Remembers(t, r) /\ r.seg = mem.tasks[t].seg
        BY <1>1, <1>4, <2>1 DEF Remembers, Statuses, Tasks
      <3>2. SegmentsFit(t, mem.tasks[t], files[t]) => SegmentsFit(t, r, files'[t])
        BY <2>5, <3>1 DEF SegmentsFit
      <3> QED BY <1>1, <1>2, <2>1, <3>1, <3>2 DEF Keeps, DiskBehind, Tasks
    <2>3. mem'.tasks = [mem.tasks EXCEPT ![t] = r] /\ (disk' = mem' \/ disk' = disk)
      BY <1>3, <1>8, <2>2 DEF MarkSucceeded
    <2>4. WorkerOnRecord(t)'
      BY <1>1, <1>8 DEF MarkSucceeded, WorkerOnRecord, Active, TypeOK
    <2> QED BY <1>1, <1>2, <1>8, <2>1, <2>2, <2>3, <2>4, OneOnRecord
            DEF MarkSucceeded, TypeOK
  <1>9. CASE MarkFailed(t)
    <2> DEFINE r == [mem.tasks[t] EXCEPT !.st = "failed"]
    <2>5. UNCHANGED files
      BY <1>9 DEF MarkFailed
    <2>1. mem.tasks[t].st = "running" /\ r.st = "failed"
      BY <1>1, <1>2, <1>9 DEF MarkFailed, Tasks
    <2>2. r \in Tasks /\ Keeps(t, r) /\ Remembers(t, r)
      <3>1. r \in Tasks /\ Remembers(t, r) /\ r.seg = mem.tasks[t].seg
        BY <1>1, <1>4, <2>1 DEF Remembers, Statuses, Tasks
      <3>2. SegmentsFit(t, mem.tasks[t], files[t]) => SegmentsFit(t, r, files'[t])
        BY <2>5, <3>1 DEF SegmentsFit
      <3> QED BY <1>1, <1>2, <2>1, <3>1, <3>2 DEF Keeps, DiskBehind, Tasks
    <2>3. mem'.tasks = [mem.tasks EXCEPT ![t] = r] /\ (disk' = mem' \/ disk' = disk)
      BY <1>3, <1>9, <2>2 DEF MarkFailed
    <2>4. WorkerOnRecord(t)'
      BY <1>1, <1>9 DEF MarkFailed, WorkerOnRecord, Active, TypeOK
    <2> QED BY <1>1, <1>2, <1>9, <2>1, <2>2, <2>3, <2>4, OneOnRecord
            DEF MarkFailed, TypeOK
  <1>10. CASE RemoveSegmentDir(t)
    <2> DEFINE r == mem.tasks[t]
    <2>1. r.st = "running" /\ files[t] = Segs /\ files'[t] = 0 /\ target[t].has
      BY <1>1, <1>2, <1>10, JobStateAssumption DEF RemoveSegmentDir, WorkerOnRecord, TypeOK
    <2>2. disk.tasks[t].seg \in 0..Segs /\ r.seg \in 0..Segs
      BY DEF RecordsInv, TypeInv, TypeOK, Snapshots, Tasks
    <2>3. SegmentsFit(t, r, files[t]) => SegmentsFit(t, r, files'[t])
      BY <2>1, <2>2, JobStateAssumption DEF SegmentsFit
    <2>4. Keeps(t, r)
      BY <1>1, <1>2, <2>3 DEF Keeps, DiskBehind
    <2>5. mem'.tasks = [mem.tasks EXCEPT ![t] = r] /\ disk' = disk /\ mem'.tasks[t] = r
      BY <1>1, <1>10 DEF RemoveSegmentDir, TypeOK, Snapshots
    <2>6. WorkerOnRecord(t)'
      BY <1>1, <1>2, <1>10, <2>1, <2>5 DEF RemoveSegmentDir, WorkerOnRecord, Active, TypeOK
    <2>7. \A u \in Ids \ {t} : /\ out'[u] = out[u] /\ work'[u] = work[u]
                             /\ target'[u] = target[u] /\ files'[u] = files[u]
      BY <1>1, <1>10 DEF RemoveSegmentDir, TypeOK
    <2>8. UNCHANGED target
      BY <1>10 DEF RemoveSegmentDir
    <2> QED BY <1>1, <1>2, <2>1, <2>4, <2>5, <2>6, <2>7, <2>8, OneOnRecord
  <1> QED BY <1>5, <1>6, <1>7, <1>8, <1>9, <1>10 DEF Execute

\* With the records in memory as they were, the state and the flags may change.
LEMMA SameRecords ==
  ASSUME RecordsInv, TypeInv', phase # "down", phase' # "down",
         UNCHANGED <<version, target, files, work>>,
         mem'.tasks = mem.tasks, disk' = mem' \/ disk' = disk,
         phase' \in {"initialized", "staged"} => phase \in {"initialized", "staged"},
         \A t \in Ids : WorkerOnRecord(t)'
  PROVE  RecordsInv' /\ \A t \in Ids : StaysOnRecord(t)
  <1>1. ASSUME NEW t \in Ids
        PROVE  /\ Keeps(t, mem'.tasks[t]) /\ Remembers(t, mem'.tasks[t])
               /\ disk'.tasks[t] \in {disk.tasks[t], mem'.tasks[t]}
               /\ mem'.tasks[t].st = "succeeded" /\ mem'.tasks[t].fp = version[t] =>
                    target'[t].has
    <2> QED BY DEF RecordsInv, DiskBehind, Keeps
  <1>2. phase' \in {"initialized", "staged"} => mem'.tasks = disk'.tasks
    BY DEF RecordsInv
  <1> QED BY <1>1, <1>2, StepInRun

\* A run ends with what it has on record, or with its incomplete tasks interrupted.
LEMMA EndOnRecord ==
  ASSUME RecordsInv, TypeInv', phase # "down", EndRun, UNCHANGED <<target, files, version>>,
         NEW S, \A t \in S : mem.tasks[t].st \in {"pending", "running"},
         NEW snapshot,
         snapshot.tasks = [t \in Ids |-> IF t \in S
                                         THEN [mem.tasks[t] EXCEPT !.st = "interrupted"]
                                         ELSE mem.tasks[t]],
         disk' = snapshot \/ disk' = disk
  PROVE  RecordsInv' /\ \A t \in Ids : StaysOnRecord(t)
  <1>1. ASSUME NEW t \in Ids
        PROVE  \E r \in Tasks :
                 Keeps(t, r) /\ Remembers(t, r) /\ disk'.tasks[t] \in {disk.tasks[t], r}
    <2> DEFINE r == snapshot.tasks[t]
    <2>1. mem.tasks[t] \in Tasks /\ Remembers(t, mem.tasks[t])
      BY DEF RecordsInv, TypeInv, TypeOK, Snapshots
    <2>2. r \in Tasks /\ Remembers(t, r) /\ r.seg = mem.tasks[t].seg
      BY <2>1 DEF Tasks, Statuses, Remembers
    <2>3. SegmentsFit(t, mem.tasks[t], files[t]) => SegmentsFit(t, r, files'[t])
      BY <2>2 DEF SegmentsFit
    <2>4. Keeps(t, r)
      BY <2>1, <2>3 DEF Tasks, Keeps, RecordsInv, DiskBehind
    <2> QED BY <2>2, <2>4
  <1> QED BY <1>1, RunEndsOnRecord

LEMMA RecordsStep ==
  ASSUME RecordsInv, [Next]_vars
  PROVE  RecordsInv' /\ \A t \in Ids : StaysOnRecord(t)
  <1>1. TypeInv' /\ TypeOK
    BY TypeStep DEF RecordsInv, TypeInv
  <1>2. mem.tasks = [t \in Ids |-> mem.tasks[t]]
    BY <1>1 DEF TypeOK, Snapshots
  <1>3. CASE StartRun
    BY <1>1, <1>3, StartOnRecord
  <1>4. CASE SetStageEncoding \/ NoteStopRequest \/ StopRequested
    <2>1. /\ phase # "down" /\ phase' # "down"
          /\ UNCHANGED <<version, target, files, work, out>> /\ mem'.tasks = mem.tasks
          /\ disk' = mem' \/ disk' = disk
          /\ phase' \in {"initialized", "staged"} => phase \in {"initialized", "staged"}
          /\ phase = "merged" <=> phase' = "merged"
      BY <1>1, <1>4 DEF SetStageEncoding, NoteStopRequest, StopRequested, Persist, Flush,
                        TypeOK, Snapshots
    <2>2. \A t \in Ids : WorkerOnRecord(t)'
      BY <2>1 DEF RecordsInv, WorkerOnRecord, Active
    <2> QED BY <1>1, <2>1, <2>2, SameRecords
  <1>5. CASE Plan
    BY <1>1, <1>5, MergeOnRecord DEF Plan
  <1>6. ASSUME NEW t \in Ids, Execute(t)
        PROVE  RecordsInv' /\ \A u \in Ids : StaysOnRecord(u)
    BY <1>1, <1>6, ExecuteOnRecord
  <1>7. CASE Complete
    <2>1. /\ phase # "down" /\ EndRun /\ UNCHANGED <<target, files, version>>
          /\ \/ disk' = [mem EXCEPT !.stage = "completed"]
             \/ disk' = disk
      BY <1>7 DEF Complete, WorkersDone, Flush
    <2>2. \A t \in Ids : /\ mem.tasks[t] \in Tasks
                        /\ disk'.tasks[t] \in {disk.tasks[t], mem.tasks[t]}
      BY <1>1, <2>1 DEF TypeOK, Snapshots, Tasks
    <2>3. \A t \in Ids : Keeps(t, mem.tasks[t]) /\ Remembers(t, mem.tasks[t])
      BY <2>1, <2>2 DEF RecordsInv, DiskBehind, Keeps
    <2> QED BY <1>1, <2>1, <2>2, <2>3, RunEndsOnRecord
  <1>8. CASE RequestCancel
    <2>1. /\ phase = "merged" /\ phase' = "canceling"
          /\ UNCHANGED <<version, target, files, work, out>> /\ mem'.tasks = mem.tasks
          /\ disk' = mem' \/ disk' = disk
      BY <1>1, <1>8 DEF RequestCancel, WorkersDone, Persist, Flush, TypeOK, Snapshots
    <2>2. \A t \in Ids : ~Active(t)
      BY <1>8 DEF RequestCancel, WorkersDone, Resting, Planned, RecordsInv, WorkerOnRecord,
                  Active
    <2>3. \A t \in Ids : WorkerOnRecord(t)'
      BY <2>1, <2>2 DEF RecordsInv, WorkerOnRecord, Active
    <2> QED BY <1>1, <2>1, <2>3, SameRecords
  <1>9. CASE MarkIncompleteInterrupted
    <2> DEFINE incomplete == {t \in Planned : mem.tasks[t].st \in {"pending", "running"}}
               interrupted ==
                 [mem EXCEPT !.stage = "canceled", !.cancel = TRUE,
                    !.tasks = [t \in Ids |->
                       IF t \in incomplete THEN [mem.tasks[t] EXCEPT !.st = "interrupted"]
                                           ELSE mem.tasks[t]]]
    <2>1. /\ phase # "down" /\ EndRun /\ UNCHANGED <<target, files, version>>
          /\ disk' = interrupted \/ disk' = disk
      BY <1>9 DEF MarkIncompleteInterrupted, Flush
    <2>2. interrupted.tasks = [t \in Ids |->
            IF t \in incomplete THEN [mem.tasks[t] EXCEPT !.st = "interrupted"]
                                ELSE mem.tasks[t]]
      BY <1>1 DEF TypeOK, Snapshots
    <2> QED BY <1>1, <2>1, <2>2, EndOnRecord
  <1>10. CASE PromptCanceled \/ PackingAbandoned \/ ScanEndsRun \/ PromptDeclined \/ Crash
    <2>1. /\ phase # "down" /\ EndRun /\ UNCHANGED <<target, files, version>>
          /\ \/ disk' = IF NeverStarted THEN NoSnapshot ELSE disk
             \/ disk' = disk
      BY <1>10 DEF PromptCanceled, PackingAbandoned, ScanEndsRun, PromptDeclined, Crash,
                   AtPrompt, WorkersDone
    <2>2. CASE disk' = IF NeverStarted THEN NoSnapshot ELSE disk
      BY <1>1, <2>1, <2>2, RemovalOnRecord
    <2>3. CASE disk' = disk
      <3>1. \A t \in Ids : mem.tasks[t] \in Tasks
        BY <1>1 DEF TypeOK, Snapshots, Tasks
      <3>2. \A t \in Ids : Keeps(t, mem.tasks[t]) /\ Remembers(t, mem.tasks[t])
        BY <2>1 DEF RecordsInv, DiskBehind, Keeps
      <3> QED BY <1>1, <2>1, <2>3, <3>1, <3>2, RunEndsOnRecord
    <2> QED BY <2>1, <2>2, <2>3
  <1>11. ASSUME NEW t \in Ids, ProbeSkips(t)
         PROVE  RecordsInv' /\ \A u \in Ids : StaysOnRecord(u)
    <2>1. /\ phase = "merged" /\ UNCHANGED <<version, target, files, work, mem, disk, phase>>
          /\ out' = [out EXCEPT ![t] = "skipped"] /\ \A u \in Ids : work[u] = "idle"
      BY <1>11 DEF ProbeSkips, AtPrompt
    <2>2. \A u \in Ids : WorkerOnRecord(u)'
      BY <1>1, <2>1 DEF RecordsInv, WorkerOnRecord, Active, TypeOK
    <2> QED BY <1>1, <2>1, <2>2, SameRecords
  <1>12. ASSUME NEW t \in Ids, DeleteTarget(t) \/ CleanSegments(t) \/ EditSource(t)
         PROVE  RecordsInv' /\ \A u \in Ids : StaysOnRecord(u)
    <2>1. /\ UNCHANGED <<disk, mem, phase, out, work>> /\ phase # "merged"
          /\ \/ phase = "down" /\ UNCHANGED version
             \/ UNCHANGED <<target, files>> /\ version' = [version EXCEPT ![t] = @ + 1]
      BY <1>12 DEF DeleteTarget, CleanSegments, EditSource
    <2>2. ASSUME NEW u \in Ids
          PROVE  /\ Remembers(u, disk.tasks[u])' /\ Remembers(u, mem.tasks[u])'
                 /\ DiskBehind(u)' /\ WorkerOnRecord(u)' /\ StaysOnRecord(u)
      <3>1. /\ version[u] \in Nat /\ disk.tasks[u] \in Tasks /\ mem.tasks[u] \in Tasks
        BY <1>1, JobStateAssumption DEF TypeOK, Snapshots
      <3>2. /\ disk.tasks[u].fp \in Nat /\ mem.tasks[u].fp \in Nat /\ disk.tasks[u].seg \in Nat
        BY <3>1 DEF Tasks
      <3>3. \/ version'[u] = version[u] /\ phase = "down"
            \/ version'[u] \in {version[u], version[u] + 1} /\ UNCHANGED <<target, files>>
        BY <1>1, <2>1 DEF TypeOK
      <3>4. ~Active(u) /\ ~Active(u)'
        BY <2>1 DEF RecordsInv, WorkerOnRecord, Active
      <3>5. Remembers(u, disk.tasks[u])' /\ Remembers(u, mem.tasks[u])'
        BY <2>1, <3>1, <3>2, <3>3 DEF RecordsInv, Remembers
      <3>6. DiskBehind(u)'
        BY <2>1, <3>1, <3>2, <3>3 DEF RecordsInv, DiskBehind, Remembers, SegmentsFit
      <3>7. WorkerOnRecord(u)'
        BY <2>1, <3>4 DEF WorkerOnRecord, Active
      <3>8. StaysOnRecord(u)
        BY <2>1, <3>2 DEF StaysOnRecord, Finished
      <3> QED BY <3>5, <3>6, <3>7, <3>8
    <2> QED BY <1>1, <2>1, <2>2 DEF RecordsInv
  <1>13. CASE UNCHANGED vars
    <2>1. UNCHANGED <<disk, mem, phase, out, work, target, files, version>>
      BY <1>13 DEF vars
    <2>2. \A t \in Ids : disk.tasks[t].seg \in Nat
      BY <1>1 DEF TypeOK, Snapshots, Tasks
    <2> QED BY <1>1, <2>1, <2>2 DEF RecordsInv, Remembers, DiskBehind, SegmentsFit,
                                    WorkerOnRecord, Active, StaysOnRecord, Finished
  <1> QED BY <1>3, <1>4, <1>5, <1>6, <1>7, <1>8, <1>9, <1>10, <1>11, <1>12, <1>13
          DEF Next, EndOfRun, Environment

LEMMA RecordsHold == Spec => []RecordsInv
  BY RecordsInit, RecordsStep, PTL DEF Spec

\* A finished task is never reopened while its source and its target are as they were,
\* whatever is lost, stopped, thrown or crashes.
THEOREM FinishedIsFinal == Spec => FinishedStaysFinished
  <1>1. RecordsInv /\ [Next]_vars =>
          [\A t \in Ids :
             Finished(t) => \/ Finished(t)'
                           \/ disk.tasks[t].fp # version[t] \/ target'[t] # target[t]
                           \/ disk'.tasks[t].st = "absent"]_vars
    BY RecordsStep DEF StaysOnRecord
  <1> QED BY <1>1, RecordsHold, PTL DEF Spec, FinishedStaysFinished

\* The segments on record go only with their source, their target or the whole
\* snapshot; the removal of a state never takes one along, and a record of files that
\* are gone is lowered to those that are there.
THEOREM SegmentsAreRemembered == Spec => SegmentsNotForgotten
  <1>1. RecordsInv /\ [Next]_vars =>
          [\A t \in Ids :
             disk'.tasks[t].seg < disk.tasks[t].seg =>
               \/ disk.tasks[t].fp # version[t]
               \/ disk.tasks[t].st = "succeeded" /\ ~target[t].has
               \/ disk'.tasks[t].st = "absent" /\ disk' # NoSnapshot
               \/ disk'.tasks[t].seg = files'[t] /\ files'[t] > 0]_vars
    BY RecordsStep DEF StaysOnRecord
  <1> QED BY <1>1, RecordsHold, PTL DEF Spec, SegmentsNotForgotten

-----------------------------------------------------------------------------
(* When every flush lands and no exception leaves an encode, no run leaves a *)
(* record running behind                                                     *)

\* What is on disk is what is in memory, and a record is running for a worker only.
RunningIsActive ==
  phase # "down" =>
    mem = disk /\ \A t \in Ids : disk.tasks[t].st = "running" => Active(t)

\* What the property says of one step.
EndsQuietly ==
  phase # "down" /\ phase' = "down" /\ budget' = budget =>
    \A t \in Ids : disk'.tasks[t].st # "running"

LEMMA SpendSpends ==
  ASSUME TypeInv, NEW kind, Spend(kind)
  PROVE  budget' # budget
  BY JobStateAssumption DEF TypeInv, TypeOK, Spend

\* A run that ends without a fault, no worker being at work, leaves nothing running.
LEMMA RestingEnds ==
  ASSUME RecordsInv, RunningIsActive, phase # "down", EndRun, \A t \in Ids : ~Active(t),
         \A t \in Ids : disk'.tasks[t].st \in {mem.tasks[t].st, "interrupted", "absent"}
  PROVE  RunningIsActive' /\ EndsQuietly
  <1>1. phase' = "down"
    BY DEF EndRun
  <1>2. \A t \in Ids : mem.tasks[t].st # "running"
    BY DEF RunningIsActive
  <1>3. \A t \in Ids : disk'.tasks[t].st # "running"
    BY <1>2
  <1> QED BY <1>1, <1>3 DEF RunningIsActive, EndsQuietly

LEMMA RunningStep ==
  ASSUME "persist" \notin Faults, "throw" \notin Faults,
         RecordsInv, RecordsInv', RunningIsActive, [Next]_vars
  PROVE  RunningIsActive' /\ EndsQuietly
  <1>1. TypeInv /\ TypeOK /\ TypeOK'
    BY DEF RecordsInv, TypeInv
  <1>2. \A snapshot : Flush(snapshot) => disk' = snapshot /\ UNCHANGED budget
    BY DEF Flush, Spend
  <1>3. CASE StartRun
    <2>1. phase = "down" /\ phase' = "initialized" /\ mem' = disk'
      BY <1>3 DEF StartRun, Restore, StartFresh, DiscardMismatched, Restart, Fresh
    <2>2. ASSUME NEW t \in Ids
          PROVE  disk'.tasks[t].st # "running"
      <3>1. ASSUME NEW c \in Configs, Restore(c)
            PROVE  disk'.tasks[t] = Normalized(t, disk.tasks[t]) /\ disk.tasks[t] \in Tasks
        BY <1>1, <3>1 DEF Restore, TypeOK, Snapshots
      <3>2. ASSUME NEW c \in Configs, Fresh(c)
            PROVE  disk'.tasks[t] = NoTask
        BY <3>2 DEF Fresh
      <3>3. disk.tasks[t] \in Tasks => Normalized(t, disk.tasks[t]).st # "running"
        BY DEF Normalized, Cleared, Tasks
      <3> QED BY <1>3, <3>1, <3>2, <3>3
              DEF StartRun, StartFresh, DiscardMismatched, Restart, NoTask
    <2> QED BY <2>1, <2>2 DEF RunningIsActive, EndsQuietly
  <1>4. CASE SetStageEncoding \/ NoteStopRequest \/ StopRequested
    <2>1. /\ phase # "down" /\ phase' # "down" /\ UNCHANGED <<work, out>>
          /\ mem' = disk' /\ mem'.tasks = mem.tasks
      BY <1>1, <1>2, <1>4 DEF SetStageEncoding, NoteStopRequest, StopRequested, Persist,
                              TypeOK, Snapshots, RunningIsActive
    <2> QED BY <2>1 DEF RunningIsActive, EndsQuietly, Active
  <1>5. ASSUME NEW plan \in Plans, MergeTasks(plan)
        PROVE  RunningIsActive' /\ EndsQuietly
    <2>1. /\ phase = "staged" /\ phase' = "merged" /\ disk' = mem'
      BY <1>2, <1>5 DEF MergeTasks, Persist
    <2>2. ASSUME NEW t \in Ids
          PROVE  mem'.tasks[t].st # "running"
      <3>1. mem.tasks[t] \in Tasks /\ mem.tasks[t].st # "running"
        BY <1>1, <2>1 DEF RunningIsActive, RecordsInv, WorkerOnRecord, TypeOK, Snapshots
      <3>2. mem'.tasks[t] = IF t \in plan THEN Merged(t, mem.tasks[t]) ELSE mem.tasks[t]
        BY <1>1, <1>5 DEF MergeTasks, TypeOK, Snapshots
      <3>3. Merged(t, mem.tasks[t]).st # "running"
        BY <3>1 DEF Merged, NewTask, Normalized, Cleared, Tasks
      <3> QED BY <3>1, <3>2, <3>3
    <2> QED BY <2>1, <2>2 DEF RunningIsActive, EndsQuietly
  <1>6. ASSUME NEW t \in Ids, Execute(t)
        PROVE  RunningIsActive' /\ EndsQuietly
    <2>1. phase # "down" /\ UNCHANGED phase
      BY <1>6 DEF Execute, MarkRunning, MarkSegmentProgress, OpenTarget, FinishTarget,
                  RemoveSegmentDir, MarkSucceeded, EncodeFails, MarkFailed, EncodeThrows, RecordsInv,
                  WorkerOnRecord, Active
    <2>2. ASSUME NEW task, Update(t, task)
          PROVE  disk' = mem' /\ mem'.tasks = [mem.tasks EXCEPT ![t] = task]
      BY <1>1, <1>2, <2>2 DEF Update, Persist, TypeOK, Snapshots
    <2>3. ASSUME NEW task, Update(t, task), task.st = "running" => Active(t)',
                 \A u \in Ids : u # t => work'[u] = work[u]
          PROVE  RunningIsActive'
      <3>1. \A u \in Ids : u # t => mem'.tasks[u] = mem.tasks[u] /\ (Active(u) => Active(u)')
        BY <1>1, <2>2, <2>3 DEF Active, TypeOK, Snapshots
      <3>2. mem'.tasks[t] = task
        BY <1>1, <2>2, <2>3 DEF TypeOK, Snapshots
      <3> QED BY <2>1, <2>2, <2>3, <3>1, <3>2 DEF RunningIsActive
    <2>4. ASSUME UNCHANGED <<mem, disk>>,
                 \A u \in Ids : Active(u) => Active(u)'
          PROVE  RunningIsActive'
      BY <2>1, <2>4 DEF RunningIsActive
    <2>5. CASE MarkRunning(t)
      BY <1>1, <2>3, <2>5, <2>1 DEF MarkRunning, Active, TypeOK, EndsQuietly
    <2>6. CASE MarkSegmentProgress(t)
      <3>1. PICK total \in (files[t] + 1)..Segs :
              Update(t, [mem.tasks[t] EXCEPT !.seg = total])
        BY <2>6 DEF MarkSegmentProgress
      <3>2. Active(t)' /\ UNCHANGED work
        BY <2>6 DEF MarkSegmentProgress, Active
      <3> QED BY <2>1, <2>3, <3>1, <3>2 DEF EndsQuietly
    <2>7. CASE MarkSucceeded(t)
      <3>1. [mem.tasks[t] EXCEPT !.st = "succeeded"].st # "running"
        BY <1>1 DEF TypeOK, Snapshots, Tasks
      <3> QED BY <1>1, <2>3, <2>7, <2>1, <3>1 DEF MarkSucceeded, TypeOK, EndsQuietly
    <2>8. CASE MarkFailed(t)
      <3>1. [mem.tasks[t] EXCEPT !.st = "failed"].st # "running"
        BY <1>1 DEF TypeOK, Snapshots, Tasks
      <3> QED BY <1>1, <2>3, <2>8, <2>1, <3>1 DEF MarkFailed, TypeOK, EndsQuietly
    <2>9. CASE OpenTarget(t) \/ FinishTarget(t) \/ RemoveSegmentDir(t) \/ EncodeFails(t)
      <3>1. UNCHANGED <<mem, disk>> /\ \A u \in Ids : Active(u) => Active(u)'
        BY <1>1, <2>9 DEF OpenTarget, FinishTarget, RemoveSegmentDir, EncodeFails, Active,
                          TypeOK
      <3> QED BY <2>1, <2>4, <3>1 DEF EndsQuietly
    <2>10. ~EncodeThrows(t)
      BY DEF EncodeThrows, Spend
    <2> QED BY <1>6, <2>5, <2>6, <2>7, <2>8, <2>9, <2>10 DEF Execute
  <1>7. ASSUME WorkersDone
        PROVE  phase = "merged" /\ \A t \in Ids : ~Active(t)
    BY <1>7 DEF WorkersDone, Resting, Planned, RecordsInv, WorkerOnRecord, Active
  <1>8. CASE Complete
    <2>1. disk'.tasks = mem.tasks
      BY <1>1, <1>2, <1>8 DEF Complete, TypeOK, Snapshots
    <2> QED BY <1>7, <1>8, <2>1, RestingEnds DEF Complete
  <1>9. CASE RequestCancel
    <2>1. /\ phase # "down" /\ phase' = "canceling" /\ UNCHANGED <<work, out>>
          /\ mem' = disk' /\ mem'.tasks = mem.tasks /\ \A t \in Ids : ~Active(t)
      BY <1>1, <1>2, <1>7, <1>9 DEF RequestCancel, Persist, TypeOK, Snapshots
    <2> QED BY <2>1 DEF RunningIsActive, EndsQuietly
  <1>10. CASE MarkIncompleteInterrupted
    <2>1. phase = "canceling" /\ EndRun /\ \A t \in Ids : ~Active(t)
      BY <1>10 DEF MarkIncompleteInterrupted, RecordsInv, WorkerOnRecord
    <2>2. ASSUME NEW t \in Ids
          PROVE  disk'.tasks[t].st \in {mem.tasks[t].st, "interrupted"}
      <3>1. mem.tasks[t] \in Tasks /\ disk = mem
        BY <1>1, <2>1 DEF TypeOK, Snapshots, RunningIsActive
      <3>2. \/ disk' = disk
            \/ disk'.tasks[t] \in {mem.tasks[t], [mem.tasks[t] EXCEPT !.st = "interrupted"]}
        <4> DEFINE incomplete == {u \in Planned : mem.tasks[u].st \in {"pending", "running"}}
                   interrupted ==
                     [mem EXCEPT !.stage = "canceled", !.cancel = TRUE,
                        !.tasks = [u \in Ids |->
                           IF u \in incomplete
                           THEN [mem.tasks[u] EXCEPT !.st = "interrupted"]
                           ELSE mem.tasks[u]]]
        <4>1. disk' = disk \/ Flush(interrupted)
          BY <1>10 DEF MarkIncompleteInterrupted
        <4>2. interrupted.tasks[t] \in
                {mem.tasks[t], [mem.tasks[t] EXCEPT !.st = "interrupted"]}
          BY <1>1 DEF TypeOK, Snapshots
        <4> QED BY <1>2, <4>1, <4>2
      <3> QED BY <3>1, <3>2 DEF Tasks
    <2> QED BY <2>1, <2>2, RestingEnds
  <1>11. CASE PromptCanceled
    <2>1. phase = "merged" /\ EndRun /\ \A t \in Ids : ~Active(t)
      BY <1>11 DEF PromptCanceled, AtPrompt, Active
    <2>2. \A t \in Ids : disk'.tasks[t].st \in {mem.tasks[t].st, "absent"}
      BY <1>11, <2>1 DEF PromptCanceled, NoSnapshot, NoTask, RunningIsActive
    <2> QED BY <2>1, <2>2, RestingEnds
  <1>12. CASE PackingAbandoned
    <2>1. phase = "merged" /\ EndRun /\ \A t \in Ids : ~Active(t)
      BY <1>7, <1>12 DEF PackingAbandoned
    <2>2. \A t \in Ids : disk'.tasks[t].st \in {mem.tasks[t].st, "absent"}
      BY <1>12, <2>1 DEF PackingAbandoned, NoSnapshot, NoTask, RunningIsActive
    <2> QED BY <2>1, <2>2, RestingEnds
  <1>13. CASE ScanEndsRun \/ PromptDeclined \/ Crash
    <2>1. phase' = "down" /\ budget' # budget
      BY <1>1, <1>13, SpendSpends DEF ScanEndsRun, PromptDeclined, Crash, EndRun
    <2> QED BY <2>1 DEF RunningIsActive, EndsQuietly
  <1>14. ASSUME NEW t \in Ids, ProbeSkips(t) \/ DeleteTarget(t) \/ CleanSegments(t)
                              \/ EditSource(t)
         PROVE  RunningIsActive' /\ EndsQuietly
    BY <1>14 DEF ProbeSkips, DeleteTarget, CleanSegments, EditSource, RunningIsActive, EndsQuietly, Active
  <1>15. CASE UNCHANGED vars
    BY <1>15 DEF vars, RunningIsActive, EndsQuietly, Active
  <1> QED BY <1>3, <1>4, <1>5, <1>6, <1>8, <1>9, <1>10, <1>11, <1>12, <1>13, <1>14, <1>15
          DEF Next, EndOfRun, Environment, Plan

\* A run that ends by itself leaves no record running, of this plan or of an older one,
\* as long as every flush lands and no exception leaves an encode.
THEOREM RunsEndQuietly ==
  ASSUME "persist" \notin Faults, "throw" \notin Faults
  PROVE  Spec => NothingLeftRunning
  <1>1. Init => RunningIsActive
    BY DEF Init, RunningIsActive
  <1>2. RecordsInv /\ RecordsInv' /\ RunningIsActive /\ [Next]_vars => RunningIsActive'
    BY RunningStep
  <1>3. RecordsInv /\ RecordsInv' /\ RunningIsActive /\ [Next]_vars =>
          [phase # "down" /\ phase' = "down" /\ budget' = budget =>
             \A t \in Ids : disk'.tasks[t].st # "running"]_vars
    BY RunningStep DEF EndsQuietly
  <1> QED BY <1>1, <1>2, <1>3, RecordsHold, PTL DEF Spec, NothingLeftRunning

=============================================================================
