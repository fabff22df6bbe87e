------------------------------- MODULE Packing -------------------------------
(***************************************************************************)
(* Writing the archives of a pack plan, with and without a job state, over *)
(* repeated runs of one job (src/pack/pack.cpp: runResumable and           *)
(* runNonResumable; pack_service.cpp: runPackTaskPlan; packer.cpp:         *)
(* packFilesToZip).  A crash is left to JobState; the worker loop is       *)
(* TaskExecutor's, here as claims in order.                                *)
(***************************************************************************)
EXTENDS ExitCodes, Sequences, FiniteSets

CONSTANTS
  Groups,        (* 1..n: the archives of the plan                          *)
  Packers,       (* the worker threads                                      *)
  Entries,       (* files per archive                                       *)
  MaxPackRuns    (* bound: runs of the job                                  *)

ASSUME PackingAssumption ==
  /\ Groups \subseteq Nat /\ IsFiniteSet(Groups)
  /\ Packers # {} /\ IsFiniteSet(Packers)
  /\ Entries \in Nat \ {0} /\ MaxPackRuns \in Nat

VARIABLES
  packRun,        (* runs begun                                             *)
  packStage,      (* "idle", "pack", "verdict", "done"                      *)
  resumable,      (* the job has a state: request.jobState                  *)
  removeOnFailure,
  packStop,       (* the stop flag                                          *)
  packRecord,     (* status of each archive's task record                   *)
  zip,            (* what stands at each archive's path                     *)
  selected,       (* the groups to pack, in order: the filtered plan        *)
  claimed,        (* how many of them a worker has taken                    *)
  packer,         (* where each worker is                                   *)
  task,           (* its index into selected                                *)
  written,        (* entries it is done with                                *)
  added,          (* those it has added to the open archive                 *)
  packOutcome,    (* of each group in this run: "none", "ok", "error"       *)
  filesPacked,    (* completedFileCount                                     *)
  finalizing,     (* finalizingCount                                        *)
  packError,      (* runPackTaskPlan returned an error                      *)
  packExit,
  addFailed,      (* history: groups with an entry that could not be added  *)
  closeFailed,    (* history: groups whose close failed, which nobody asks  *)
  vanished        (* history: groups with an entry that was gone when the   *)
                  (* archive was last written                               *)

planVars   == <<packRun, resumable, removeOnFailure, selected>>
workVars   == <<claimed, packer, task, written, added, filesPacked, finalizing, packOutcome>>
packVars   == <<planVars, packStage, packStop, packRecord, zip, workVars, packError,
                packExit, addFailed, closeFailed, vanished>>

PackInit ==
  /\ packRun = 0 /\ packStage = "idle"
  /\ resumable = FALSE /\ removeOnFailure = FALSE
  /\ packStop = FALSE
  /\ packRecord = [g \in Groups |-> "pending"]
  /\ zip = [g \in Groups |-> "none"]
  /\ selected = <<>> /\ claimed = 0
  /\ packer = [w \in Packers |-> "gone"]
  /\ task = [w \in Packers |-> 1]
  /\ written = [w \in Packers |-> 0] /\ added = [w \in Packers |-> 0]
  /\ packOutcome = [g \in Groups |-> "none"]
  /\ filesPacked = 0 /\ finalizing = 0
  /\ packError = FALSE /\ packExit = Unfinished
  /\ addFailed = {} /\ closeFailed = {} /\ vanished = {}

-----------------------------------------------------------------------------
(* mergeTasks and the selection of what is left to do *)

\* normalizeExistingTask: an archive that is there counts as packed unless its
\* record failed; a packed one that is gone is packed again.
Merged(g) ==
  IF ~resumable' THEN "pending"
  ELSE IF packRecord[g] = "failed" THEN "failed"
  ELSE IF zip[g] # "none" THEN "succeeded"
  ELSE IF packRecord[g] = "succeeded" THEN "pending" ELSE packRecord[g]

\* The groups left, in the order of the plan (a set of one sequence).
InOrder(left) ==
  {plan \in [1..Cardinality(left) -> left] :
     \A i, j \in 1..Cardinality(left) : i < j => plan[i] < plan[j]}

BeginPack ==
  /\ packStage = "idle" /\ packRun < MaxPackRuns
  /\ packRun' = packRun + 1
  /\ resumable' \in IF packRun = 0 THEN BOOLEAN ELSE {resumable}
  /\ removeOnFailure' \in IF packRun = 0 THEN BOOLEAN ELSE {removeOnFailure}
  /\ packRecord' = [g \in Groups |-> Merged(g)]
  /\ selected' \in InOrder({g \in Groups : packRecord'[g] # "succeeded"})
  /\ claimed' = 0
  /\ packer' = [w \in Packers |-> "idle"]
  /\ packOutcome' = [g \in Groups |-> "none"]
  /\ filesPacked' = 0
  /\ IF selected' = <<>> THEN packStage' = "done" /\ packExit' = Succeeded
                         ELSE packStage' = "pack" /\ packExit' = Unfinished
  /\ packStop' \in BOOLEAN
  /\ packError' = FALSE
  /\ UNCHANGED <<zip, task, written, added, finalizing, addFailed, closeFailed, vanished>>

RequestPackStop ==
  /\ packStage \in {"pack", "verdict"} /\ ~packStop
  /\ packStop' = TRUE
  /\ UNCHANGED <<planVars, packStage, packRecord, zip, workVars, packError, packExit,
                 addFailed, closeFailed, vanished>>

-----------------------------------------------------------------------------
(* The workers *)

\* Mutant: the index in the filtered plan is taken for the task's own.
RecordOf_Index(k) == k

\* makeResumableProgressCallbacks: mergedTasks[pendingIndexes[k]].
RecordOf(k) == selected[k]

GroupOf(w) == selected[task[w]]

Mark(k, status) ==
  packRecord' = IF resumable THEN [packRecord EXCEPT ![RecordOf(k)] = status] ELSE packRecord

PackerStep == UNCHANGED <<planVars, packStage, packStop, packError, packExit>>

Claim(w) ==
  /\ packer[w] = "idle" /\ packStage = "pack"
  /\ ~packStop /\ claimed < Len(selected)
  /\ claimed' = claimed + 1
  /\ task' = [task EXCEPT ![w] = claimed']
  /\ written' = [written EXCEPT ![w] = 0] /\ added' = [added EXCEPT ![w] = 0]
  /\ vanished' = vanished \ {selected[claimed']}
  /\ packer' = [packer EXCEPT ![w] = "writing"]
  /\ Mark(claimed', "running")
  /\ UNCHANGED <<zip, filesPacked, finalizing, packOutcome, addFailed, closeFailed>>
  /\ PackerStep

\* Mutant: a worker leaves when there is no work, and a stop is no reason.
NoMoreWork_Claimed == claimed = Len(selected)

NoMoreWork == packStop \/ claimed = Len(selected)

Leave(w) ==
  /\ packer[w] = "idle" /\ packStage = "pack"
  /\ NoMoreWork
  /\ packer' = [packer EXCEPT ![w] = "gone"]
  /\ UNCHANGED <<claimed, task, written, added, filesPacked, finalizing, packOutcome,
                 packRecord, zip, addFailed, closeFailed, vanished>>
  /\ PackerStep

\* Mutant: entries that are not files any more are not counted.
CountOf_Files(isFile) == IF isFile THEN 1 ELSE 0

\* onEntryPacked is called for every entry, added or not.
CountOf(isFile) == 1

\* An entry that is no file any more is passed over without a word.
AddEntry(w) ==
  /\ packer[w] = "writing" /\ ~packStop /\ written[w] < Entries
  /\ \E isFile \in BOOLEAN :
       /\ filesPacked' = filesPacked + CountOf(isFile)
       /\ IF isFile THEN added' = [added EXCEPT ![w] = @ + 1] /\ UNCHANGED vanished
          ELSE vanished' = vanished \cup {GroupOf(w)} /\ UNCHANGED added
  /\ written' = [written EXCEPT ![w] = @ + 1]
  /\ UNCHANGED <<claimed, packer, task, finalizing, packOutcome, packRecord, zip, addFailed,
                 closeFailed>>
  /\ PackerStep

\* An entry cannot be added, or its compression not be set once it is: the archive
\* object closes itself and what was added so far becomes the archive.
AddFails(w) ==
  /\ packer[w] = "writing" /\ ~packStop /\ written[w] < Entries
  /\ packer' = [packer EXCEPT ![w] = "failed"]
  /\ \E inside \in {added[w], added[w] + 1} :
       zip' = [zip EXCEPT ![GroupOf(w)] = IF inside > 0 THEN "partial" ELSE "none"]
  /\ addFailed' = addFailed \cup {GroupOf(w)}
  /\ UNCHANGED <<claimed, task, written, added, filesPacked, finalizing, packOutcome,
                 packRecord, closeFailed, vanished>>
  /\ PackerStep

\* Mutant: the archive is left without being discarded.
Discarded_Closed(w) == IF added[w] > 0 THEN "partial" ELSE "none"

\* zip.discard(): what stood at the path before stays.
Discarded(w) == zip[GroupOf(w)]

AbortAtEntry(w) ==
  /\ packer[w] = "writing" /\ packStop /\ written[w] < Entries
  /\ packer' = [packer EXCEPT ![w] = "failed"]
  /\ zip' = [zip EXCEPT ![GroupOf(w)] = Discarded(w)]
  /\ UNCHANGED <<claimed, task, written, added, filesPacked, finalizing, packOutcome,
                 packRecord, addFailed, closeFailed, vanished>>
  /\ PackerStep

BeginClose(w) ==
  /\ packer[w] = "writing" /\ written[w] = Entries
  /\ packer' = [packer EXCEPT ![w] = "closing"]
  /\ finalizing' = finalizing + 1
  /\ UNCHANGED <<claimed, task, written, added, filesPacked, packOutcome, packRecord, zip,
                 addFailed, closeFailed, vanished>>
  /\ PackerStep

\* What the archive library leaves at the path of an archive that is closed: no file
\* for one without entries, and what stood there is removed.
Closed(w) ==
  IF added[w] = 0 THEN "none" ELSE IF added[w] < Entries THEN "lacking" ELSE "whole"

\* zip.close(): its answer is not looked at.
Close(w) ==
  /\ packer[w] = "closing"
  /\ packer' = [packer EXCEPT ![w] = "packed"]
  /\ finalizing' = finalizing - 1
  /\ \/ zip' = [zip EXCEPT ![GroupOf(w)] = Closed(w)] /\ UNCHANGED closeFailed
     \/ closeFailed' = closeFailed \cup {GroupOf(w)} /\ UNCHANGED zip
  /\ UNCHANGED <<claimed, task, written, added, filesPacked, packOutcome, packRecord,
                 addFailed, vanished>>
  /\ PackerStep

\* PackTaskRecorder::succeed and ::fail, and the outcome the executor takes.
Record(w) ==
  /\ packer[w] \in {"packed", "failed"}
  /\ packer' = [packer EXCEPT ![w] = "idle"]
  /\ written' = [written EXCEPT ![w] = 0] /\ added' = [added EXCEPT ![w] = 0]   (* locals *)
  /\ IF packer[w] = "packed"
     THEN /\ Mark(task[w], "succeeded")
          /\ packOutcome' = [packOutcome EXCEPT ![GroupOf(w)] = "ok"]
          /\ UNCHANGED zip
     ELSE /\ Mark(task[w], "failed")
          /\ packOutcome' = [packOutcome EXCEPT ![GroupOf(w)] = "error"]
          /\ zip' = IF removeOnFailure THEN [zip EXCEPT ![GroupOf(w)] = "none"] ELSE zip
  /\ UNCHANGED <<claimed, task, filesPacked, finalizing, addFailed, closeFailed, vanished>>
  /\ PackerStep

-----------------------------------------------------------------------------
(* The verdict *)

\* Mutant: only the flag and what was skipped are asked.
PlanFailed_Skipped == packStop /\ claimed < Len(selected)

\* runPackTaskPlan: canceled with something skipped, or any failed archive.
PlanFailed ==
  \/ packStop /\ claimed < Len(selected)
  \/ \E g \in Groups : packOutcome[g] = "error"

PackDrained ==
  /\ packStage = "pack"
  /\ \A w \in Packers : packer[w] = "gone"
  /\ packStage' = "verdict"
  /\ packError' = PlanFailed
  /\ UNCHANGED <<planVars, packStop, packRecord, zip, workVars, packExit, addFailed,
                 closeFailed, vanished>>

\* runResumable and runNonResumable: an error under a stop is a cancellation.
Conclude ==
  /\ packStage = "verdict"
  /\ packStage' = "done"
  /\ packExit' = IF ~packError THEN Succeeded ELSE IF packStop THEN Canceled ELSE Failure
  /\ packRecord' = IF packExit' = Canceled /\ resumable
                   THEN [g \in Groups |-> IF packRecord[g] \in {"pending", "running"}
                                          THEN "interrupted" ELSE packRecord[g]]
                   ELSE packRecord
  /\ UNCHANGED <<planVars, packStop, zip, workVars, packError, addFailed, closeFailed,
                 vanished>>

\* Only a job with a state is taken up again.
PackAgain ==
  /\ packStage = "done" /\ packRun < MaxPackRuns /\ resumable
  /\ packStage' = "idle"
  /\ UNCHANGED <<planVars, packStop, packRecord, zip, workVars, packError, packExit,
                 addFailed, closeFailed, vanished>>

-----------------------------------------------------------------------------
PackerGoes(w) == Claim(w) \/ Leave(w) \/ AddEntry(w) \/ AddFails(w) \/ AbortAtEntry(w)
                 \/ BeginClose(w) \/ Close(w) \/ Record(w)

PackNext ==
  \/ BeginPack \/ RequestPackStop \/ PackDrained \/ Conclude \/ PackAgain
  \/ \E w \in Packers : PackerGoes(w)

PackSpec == PackInit /\ [][PackNext]_packVars

\* The workers are scheduled and the caller waits for them.
PackFairness ==
  /\ \A w \in Packers : WF_packVars(PackerGoes(w))
  /\ WF_packVars(PackDrained \/ Conclude)

-----------------------------------------------------------------------------
(* Properties *)

\* What is at the path of an archive that was packed.
AsPacked(g) ==
  \/ zip[g] = "whole"
  \/ g \in vanished /\ zip[g] \in {"lacking", "none"}
  \/ g \in closeFailed

\* An archive the job state counts as packed stands whole at its path, over
\* filtered plans, failures and stops of earlier runs, with two exceptions. Entries
\* that were gone when the packer came to them are passed over: the archive lacks
\* them, or is not there when it would be empty, and is recorded as packed all the
\* same (lines 407 and 480 of packer.cpp); and the answer of a close that failed is
\* dropped. And a pack that succeeded has every archive so counted.
PackedIsWhole ==
  resumable => \A g \in Groups :
    /\ packRecord[g] = "succeeded" => AsPacked(g)
    /\ packStage = "done" /\ packExit = Succeeded => packRecord[g] = "succeeded"

\* openspec/specs/cancellation-reporting/spec.md:11: a stopped pack leaves no
\* half-written archive; what is partial had an entry that failed.
StopLeavesNoHalfArchive ==
  packStage = "done" =>
    \A g \in Groups : zip[g] = "partial" => g \in addFailed /\ ~removeOnFailure

\* The exit code says what happened: 0 only when every selected archive was packed
\* although a stop may have come after the last, 130 only under a stop, and a
\* failure is not passed over (runPackTaskPlan, lines 312-322).
PackExitIsHonest ==
  /\ packExit = Succeeded /\ packStage = "done" =>
       \A k \in DOMAIN selected : packOutcome[selected[k]] = "ok"
  /\ packExit = Canceled => packStop
  /\ packExit = Failure => \E g \in Groups : packOutcome[g] = "error"

\* A complete pack has counted every file and no archive is still being
\* finalized (CompactPackRunner, lines 222-270).
PackCountsAdd ==
  packStage = "done" /\ packExit = Succeeded =>
    filesPacked = Entries * Len(selected) /\ finalizing = 0

\* A pack that began comes to its end, stopped at any point.
PackReturns == packStage = "pack" ~> packStage = "done"

\* What a pack records, reports and leaves behind agree.
PackIsHonest == PackedIsWhole /\ StopLeavesNoHalfArchive /\ PackExitIsHonest /\ PackCountsAdd
=============================================================================
