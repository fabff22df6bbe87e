---------------------------- MODULE WorkflowProofs ----------------------------
(***************************************************************************)
(* Proofs about the workflows around the encode, each by itself: the batch *)
(* over subfolders, the packing of a plan, the preview, and the picture    *)
(* run with the search behind its conversions.                             *)
(***************************************************************************)
EXTENDS Batch, Packing, Preview, Conversions, FiniteSetTheorems, TLAPS

-----------------------------------------------------------------------------
(* Batch: for any number of subfolders *)

BatchTypes ==
  /\ folders \in Seq(BOOLEAN) /\ yesToAll \in BOOLEAN /\ batchStop \in BOOLEAN
  /\ next \in Nat
  /\ subRun \in {"none", "prompt", "declined", "work"}
  /\ consent \in {"unset", "yes", "no"}
  /\ results \in Seq([outcome : {"skipped", "done", "failed"},
                      exit : {Succeeded, Failure, Canceled}])
  /\ batchExit \in {Unfinished, Succeeded, Failure, Canceled}
  /\ asked \in 0..1
  /\ worked \subseteq Nat

\* The driver is past the subfolders it has results of.
DriverInv ==
  /\ next = 0 => results = <<>> /\ subRun = "none" /\ batchExit = Unfinished
  /\ next > 0 => Len(results) = next - 1 /\ next <= Len(folders) + 1
  /\ batchExit # Unfinished => next = Len(folders) + 1 /\ next > 0
  /\ subRun # "none" => next > 0 /\ next <= Len(folders)

\* One question, and what follows from its answer.
ConsentInv ==
  /\ consent = "unset" => asked = 0
  /\ consent # "yes" => worked = {} /\ subRun # "work"
  /\ subRun = "declined" => consent = "no"
  /\ consent = "no" => subRun \in {"declined", "none"}
  /\ consent = "no" /\ subRun = "none" =>
       \E i \in DOMAIN results : \A j \in i..Len(results) : results[j].outcome = "skipped"

\* Work belongs to a subfolder with a result, or to the one at work.
WorkedInv ==
  \A i \in worked :
    \/ i \in DOMAIN results /\ (results[i].outcome = "skipped" => results[i].exit = Canceled)
    \/ i = next /\ subRun = "work"

ExitInv == batchExit # Unfinished => batchExit = BatchCode(results)

BatchInv == BatchTypes /\ DriverInv /\ ConsentInv /\ WorkedInv /\ ExitInv

LEMMA BatchImplies ==
  ASSUME BatchInv
  PROVE  BatchIsHonest
  <1>1. OneAnswerForAll
    BY DEF BatchInv, BatchTypes, ConsentInv, OneAnswerForAll
  <1>2. RefusalSkips
    BY DEF BatchInv, ConsentInv, RefusalSkips
  <1>3. BatchExitIsHonest
    <2> SUFFICES ASSUME batchExit # Unfinished
                 PROVE  /\ Len(results) = Len(folders)
                        /\ batchExit = Canceled <=>
                             \E i \in DOMAIN results : results[i].exit = Canceled
                        /\ batchExit = Succeeded =>
                             \A i \in DOMAIN results : results[i].outcome # "failed"
                        /\ \A i \in worked : \/ results[i].outcome # "skipped"
                                             \/ results[i].exit = Canceled
      BY DEF BatchExitIsHonest
    <2>1. Len(results) = Len(folders)
      BY DEF BatchInv, DriverInv, BatchTypes
    <2>2. batchExit = BatchCode(results)
      BY DEF BatchInv, ExitInv
    <2>3. /\ batchExit = Canceled <=> \E i \in DOMAIN results : results[i].exit = Canceled
          /\ batchExit = Succeeded => \A i \in DOMAIN results : results[i].outcome # "failed"
      BY <2>2 DEF BatchCode, Succeeded, Failure, Canceled
    <2>4. subRun = "none"
      BY DEF BatchInv, DriverInv, BatchTypes
    <2> QED BY <2>1, <2>3, <2>4 DEF BatchInv, WorkedInv
  <1> QED BY <1>1, <1>2, <1>3 DEF BatchIsHonest

\* A subfolder is done with.
LEMMA ResultKeeps ==
  ASSUME BatchInv, Running,
         NEW outcome \in {"skipped", "done", "failed"},
         NEW code \in {Succeeded, Failure, Canceled},
         Result(outcome, code), UNCHANGED <<consent, asked, worked>>,
         outcome = "skipped" => consent = "no" \/ code = Canceled \/ subRun = "none",
         consent = "no" => outcome = "skipped"
  PROVE  BatchInv'
  <1> DEFINE record == [outcome |-> outcome, exit |-> code]
  <1>1. /\ next > 0 /\ next <= Len(folders) /\ batchExit = Unfinished
        /\ Len(results) = next - 1
    BY DEF Running, BatchInv, DriverInv, BatchTypes
  <1>2. /\ results' \in Seq([outcome : {"skipped", "done", "failed"},
                             exit : {Succeeded, Failure, Canceled}])
        /\ Len(results') = Len(results) + 1
        /\ \A i \in DOMAIN results : results'[i] = results[i]
        /\ results'[Len(results) + 1] = record
    BY DEF Result, BatchInv, BatchTypes
  <1>3. BatchTypes'
    BY <1>1, <1>2 DEF Result, BatchInv, BatchTypes
  <1>4. DriverInv'
    BY <1>1, <1>2 DEF Result, BatchInv, BatchTypes, DriverInv
  <1>5. ConsentInv'
    <2>1. ASSUME consent = "no"
          PROVE  \E i \in DOMAIN results' :
                   \A j \in i..Len(results') : results'[j].outcome = "skipped"
      <3>1. results'[Len(results)+1].outcome = "skipped" /\ Len(results) \in Nat
        BY <1>2, <2>1 DEF BatchInv, BatchTypes
      <3>2. CASE subRun = "none"
        <4>1. PICK i \in DOMAIN results :
                \A j \in i..Len(results) : results[j].outcome = "skipped"
          BY <2>1, <3>2 DEF BatchInv, ConsentInv
        <4>2. \A j \in i..Len(results') : results'[j].outcome = "skipped"
          BY <1>2, <3>1, <4>1 DEF BatchInv, BatchTypes
        <4> QED BY <1>2, <4>1, <4>2 DEF BatchInv, BatchTypes
      <3>3. CASE subRun # "none"
        <4>1. /\ Len(results) + 1 \in DOMAIN results'
              /\ \A j \in (Len(results) + 1)..Len(results') : results'[j].outcome = "skipped"
          BY <1>2, <3>1 DEF BatchInv, BatchTypes
        <4> QED BY <4>1
      <3> QED BY <3>2, <3>3
    <2> QED BY <2>1 DEF Result, BatchInv, ConsentInv
  <1>6. WorkedInv'
    <2> SUFFICES ASSUME NEW i \in worked
                 PROVE  /\ i \in DOMAIN results'
                        /\ results'[i].outcome = "skipped" => results'[i].exit = Canceled
      BY DEF WorkedInv
    <2>1. CASE i \in DOMAIN results
      BY <1>2, <2>1, <1>1 DEF BatchInv, WorkedInv, BatchTypes
    <2>2. CASE i = next /\ subRun = "work"
      <3>1. consent = "yes"
        BY <2>2 DEF BatchInv, ConsentInv, BatchTypes
      <3> QED BY <1>1, <1>2, <2>2, <3>1 DEF BatchInv, BatchTypes
    <2> QED BY <2>1, <2>2 DEF BatchInv, WorkedInv
  <1>7. ExitInv'
    BY <1>1 DEF Result, ExitInv
  <1> QED BY <1>3, <1>4, <1>5, <1>6, <1>7 DEF BatchInv

\* A run returns, and its exit code says what becomes of the subfolder.
LEMMA FolderReturnKeeps ==
  ASSUME BatchInv, Running, subRun # "none", UNCHANGED <<consent, asked, worked>>,
         NEW code \in {Succeeded, Failure, Canceled}, FolderReturns(code),
         consent = "no" => code # Failure
  PROVE  BatchInv'
  <1>1. OutcomeOf(code) \in {"skipped", "done", "failed"}
    BY DEF OutcomeOf
  <1>2. /\ OutcomeOf(code) = "skipped" => consent = "no" \/ code = Canceled
        /\ consent = "no" => OutcomeOf(code) = "skipped"
    BY DEF OutcomeOf
  <1> HIDE DEF OutcomeOf
  <1> QED BY <1>1, <1>2, ResultKeeps DEF FolderReturns

LEMMA BatchStep ==
  ASSUME BatchInv, [BatchNext]_batchVars
  PROVE  BatchInv'
  <1>1. CASE Enumerate
    <2>1. folders' \in Seq(BOOLEAN) /\ next' = 1
      BY <1>1 DEF Enumerate
    <2> QED BY <1>1, <2>1 DEF Enumerate, BatchInv, BatchTypes, DriverInv, ConsentInv, WorkedInv,
                              ExitInv
  <1>2. CASE RequestBatchStop
    BY <1>2 DEF RequestBatchStop, BatchInv, BatchTypes, DriverInv, ConsentInv, WorkedInv,
                ExitInv
  <1>3. CASE SkipFolder
    BY <1>3, ResultKeeps DEF SkipFolder
  <1>4. CASE StartFolder
    <2>1. next > 0 /\ next <= Len(folders) /\ consent # "no" /\ batchExit = Unfinished
      BY <1>4 DEF StartFolder, Running, Declines
    <2> QED BY <1>4, <2>1 DEF StartFolder, BatchInv, BatchTypes, DriverInv, ConsentInv,
                              WorkedInv, ExitInv
  <1>5. CASE NothingToAsk
    <2>1. consent # "no"
      BY <1>5 DEF NothingToAsk, BatchInv, ConsentInv
    <2> QED BY <1>5, <2>1, FolderReturnKeeps DEF NothingToAsk
  <1>6. CASE SharedYes \/ AnswerYes
    <2>1. /\ next > 0 /\ next <= Len(folders) /\ batchExit = Unfinished
          /\ consent' = "yes" /\ asked' \in 0..1
      BY <1>6 DEF SharedYes, AnswerYes, Running, Shared, BatchInv, BatchTypes, ConsentInv
    <2>2. /\ subRun' = "work" /\ worked' = worked \cup {next}
          /\ UNCHANGED <<folders, yesToAll, next, batchStop, results, batchExit>>
      BY <1>6 DEF SharedYes, AnswerYes, Proceed
    <2>3. BatchTypes' /\ DriverInv' /\ ConsentInv' /\ ExitInv'
      BY <2>1, <2>2 DEF BatchInv, BatchTypes, DriverInv, ConsentInv, ExitInv
    <2>4. WorkedInv'
      <3>1. subRun # "work"
        BY <1>6 DEF SharedYes, AnswerYes
      <3> QED BY <2>2, <3>1 DEF BatchInv, WorkedInv
    <2> QED BY <2>3, <2>4 DEF BatchInv
  <1>7. CASE Unanswered
    BY <1>7, FolderReturnKeeps DEF Unanswered, ConsentUnread
  <1>8. CASE PromptStopped
    BY <1>8, FolderReturnKeeps DEF PromptStopped
  <1>9. CASE AnswerNo
    <2>1. /\ next > 0 /\ next <= Len(folders) /\ batchExit = Unfinished
          /\ consent' = "no" /\ asked' = 1 /\ subRun' = "declined" /\ worked = {}
          /\ UNCHANGED <<folders, yesToAll, next, batchStop, results, batchExit, worked>>
      BY <1>9 DEF AnswerNo, Running, Shared, BatchInv, BatchTypes, ConsentInv
    <2> QED BY <2>1 DEF BatchInv, BatchTypes, DriverInv, ConsentInv, WorkedInv, ExitInv
  <1>10. CASE Decline
    <2>1. \E code \in {Canceled, Succeeded} : FolderReturns(code)
      BY <1>10 DEF Decline
    <2>2. Succeeded # Failure /\ Canceled # Failure
      BY DEF Succeeded, Failure, Canceled
    <2> QED BY <1>10, <2>1, <2>2, FolderReturnKeeps DEF Decline
  <1>11. CASE Work
    <2>1. consent # "no"
      BY <1>11 DEF Work, BatchInv, ConsentInv
    <2>2. \E code \in {Succeeded, Failure, Canceled} : FolderReturns(code)
      BY <1>11 DEF Work
    <2> QED BY <1>11, <2>1, <2>2, FolderReturnKeeps DEF Work
  <1>12. CASE Summarize
    <2>1. BatchCode(results) \in {Succeeded, Failure, Canceled}
      BY DEF BatchCode
    <2>2. next = Len(folders) + 1
      BY <1>12 DEF Summarize, BatchInv, BatchTypes, DriverInv
    <2> QED BY <1>12, <2>1, <2>2
            DEF Summarize, BatchInv, BatchTypes, DriverInv, ConsentInv, WorkedInv, ExitInv,
                BatchCode
  <1>13. CASE UNCHANGED batchVars
    BY <1>13 DEF batchVars, BatchInv, BatchTypes, DriverInv, ConsentInv, WorkedInv, ExitInv,
                 BatchCode
  <1> QED BY <1>1, <1>2, <1>3, <1>4, <1>5, <1>6, <1>7, <1>8, <1>9, <1>10, <1>11, <1>12, <1>13
          DEF BatchNext

\* The user's one answer, the subfolders' outcomes and the exit code agree, for any
\* number of subfolders.
THEOREM BatchesAreHonest == BatchSpec => []BatchIsHonest
  <1>1. ASSUME BatchInit
        PROVE  BatchInv
    <2>1. BatchTypes
      <3>1. /\ folders \in Seq(BOOLEAN)
            /\ results \in Seq([outcome : {"skipped", "done", "failed"},
                                exit : {Succeeded, Failure, Canceled}])
        BY <1>1 DEF BatchInit
      <3>2. yesToAll \in BOOLEAN /\ batchStop \in BOOLEAN
        BY <1>1 DEF BatchInit
      <3> QED BY <1>1, <3>1, <3>2 DEF BatchInit, BatchTypes
    <2>2. DriverInv
      BY <1>1 DEF BatchInit, DriverInv
    <2>3. ConsentInv /\ WorkedInv
      BY <1>1 DEF BatchInit, ConsentInv, WorkedInv
    <2>4. ExitInv
      BY <1>1 DEF BatchInit, ExitInv
    <2> QED BY <2>1, <2>2, <2>3, <2>4 DEF BatchInv
  <1> QED BY <1>1, BatchStep, BatchImplies, PTL DEF BatchSpec

-----------------------------------------------------------------------------
(* Packing: for any number of archives, workers, entries and runs *)

PackTypes ==
  /\ packRun \in Nat
  /\ packStage \in {"idle", "pack", "verdict", "done"}
  /\ resumable \in BOOLEAN /\ removeOnFailure \in BOOLEAN
  /\ packStop \in BOOLEAN /\ packError \in BOOLEAN
  /\ packRecord \in [Groups -> {"pending", "running", "succeeded", "failed", "interrupted"}]
  /\ zip \in [Groups -> {"none", "partial", "lacking", "whole"}]
  /\ selected \in Seq(Groups) /\ claimed \in 0..Len(selected)
  /\ packer \in [Packers -> {"idle", "writing", "closing", "packed", "failed", "gone"}]
  /\ task \in [Packers -> Nat]
  /\ written \in [Packers -> 0..Entries] /\ added \in [Packers -> 0..Entries]
  /\ packOutcome \in [Groups -> {"none", "ok", "error"}]
  /\ filesPacked \in Nat
  /\ packExit \in {Unfinished, Succeeded, Canceled, Failure}
  /\ addFailed \subseteq Groups /\ closeFailed \subseteq Groups /\ vanished \subseteq Groups

Working(w) == packer[w] \in {"writing", "closing", "packed", "failed"}

\* The filtered plan holds every archive that is not on record as packed, once.
PlanInv ==
  /\ \A i, j \in 1..Len(selected) : selected[i] = selected[j] => i = j
  /\ packRun > 0 => \A g \in Groups : \/ \E k \in 1..Len(selected) : selected[k] = g
                                      \/ resumable /\ packRecord[g] = "succeeded"
  /\ packRun = 0 => packStage = "idle" /\ selected = <<>> /\ \A g \in Groups : zip[g] = "none"

\* Every claim is at work or has its outcome, and no two workers are at one archive.
ClaimInv ==
  /\ packStage # "pack" => \A w \in Packers : ~Working(w)
  /\ packStage \in {"verdict", "done"} /\ selected # <<>> => \A w \in Packers : packer[w] = "gone"
  /\ \A w \in Packers :
       /\ Working(w) => /\ task[w] \in 1..claimed
                        /\ packOutcome[selected[task[w]]] = "none"
       /\ packer[w] \in {"closing", "packed"} => written[w] = Entries
       /\ packStage = "pack" /\ packer[w] = "gone" => packStop \/ claimed = Len(selected)
  /\ \A v, w \in Packers : Working(v) /\ Working(w) /\ task[v] = task[w] => v = w
  /\ \A k \in 1..claimed : \/ packOutcome[selected[k]] # "none"
                           \/ \E w \in Packers : Working(w) /\ task[w] = k
  /\ \A k \in (claimed + 1)..Len(selected) : packOutcome[selected[k]] = "none"

\* The record of an archive follows its outcome.
RecordInv ==
  resumable /\ packRun > 0 => \A k \in 1..Len(selected) :
    /\ packOutcome[selected[k]] = "ok" => packRecord[selected[k]] = "succeeded"
    /\ packOutcome[selected[k]] = "error" => packRecord[selected[k]] = "failed"
    /\ packOutcome[selected[k]] = "none" => packRecord[selected[k]] # "succeeded"

\* An archive on record as packed is as it was packed, and one that is partial has a
\* failed entry, a record that says so, or a worker about to record it.
ZipInv ==
  /\ \A g \in Groups :
       /\ resumable /\ packRecord[g] = "succeeded" => AsPacked(g)
       /\ zip[g] = "partial" =>
            /\ g \in addFailed
            /\ resumable => \/ g \in closeFailed \/ packRecord[g] = "failed"
                            \/ \E w \in Packers : Working(w) /\ GroupOf(w) = g
            /\ removeOnFailure => \E w \in Packers : packer[w] = "failed" /\ GroupOf(w) = g
  /\ \A w \in Packers : packer[w] = "packed" => AsPacked(GroupOf(w))

\* What was not added had vanished; an archive that lacks something is known to, or is
\* being written anew.
LackInv ==
  /\ \A g \in Groups :
       resumable /\ zip[g] = "lacking" =>
         \/ g \in vanished \/ g \in closeFailed \/ packRecord[g] = "failed"
         \/ \E w \in Packers : Working(w) /\ GroupOf(w) = g
  /\ \A w \in Packers :
       Working(w) => /\ added[w] <= written[w]
                     /\ added[w] < written[w] => GroupOf(w) \in vanished

VerdictInv ==
  /\ packExit = Canceled => packStop
  /\ packStage \in {"pack", "verdict"} => packExit = Unfinished
  /\ packExit = Failure => \E g \in Groups : packOutcome[g] = "error"
  /\ packStage = "verdict" => 
       IF packError THEN packStop \/ \E g \in Groups : packOutcome[g] = "error"
       ELSE claimed = Len(selected) /\ \A g \in Groups : packOutcome[g] # "error"
  /\ packStage = "done" /\ packExit = Succeeded =>
       claimed = Len(selected) /\ \A g \in Groups : packOutcome[g] # "error"

\* The entries added to the archives claimed so far.
EntriesAdded ==
  {e \in (1..claimed) \X (1..Entries) :
     \A w \in Packers : Working(w) /\ task[w] = e[1] => e[2] <= written[w]}

\* As long as nothing failed, the count is that of the entries.
CountsInv ==
  /\ finalizing = Cardinality({w \in Packers : packer[w] = "closing"})
  /\ (\A g \in Groups : packOutcome[g] # "error") /\ (\A w \in Packers : packer[w] # "failed") =>
       filesPacked = Cardinality(EntriesAdded)

PackInv ==
  /\ PackTypes /\ PlanInv /\ ClaimInv /\ RecordInv /\ ZipInv /\ LackInv /\ VerdictInv
  /\ CountsInv

\* The filtered plan is a list of the archives left, each once.
LEMMA PlanInOrder ==
  ASSUME NEW left \in SUBSET Groups, NEW plan \in InOrder(left)
  PROVE  /\ plan \in Seq(Groups)
         /\ \A i, j \in 1..Len(plan) : plan[i] = plan[j] => i = j
         /\ \A g \in left : \E k \in 1..Len(plan) : plan[k] = g
         /\ \A k \in 1..Len(plan) : plan[k] \in left
  <1> DEFINE n == Cardinality(left)
  <1>1. IsFiniteSet(left) /\ n \in Nat
    BY PackingAssumption, FS_Subset, FS_CardinalityType
  <1>2. /\ plan \in [1..n -> left]
        /\ \A i, j \in 1..n : i < j => plan[i] < plan[j]
    BY DEF InOrder
  <1>3. plan \in Seq(Groups) /\ Len(plan) = n
    BY <1>1, <1>2
  <1>4. \A i, j \in 1..n : plan[i] = plan[j] => i = j
    <2> SUFFICES ASSUME NEW i \in 1..n, NEW j \in 1..n, i < j
                 PROVE  plan[i] # plan[j]
      BY <1>1
    <2>1. plan[i] \in Nat /\ plan[j] \in Nat
      BY <1>2, PackingAssumption
    <2>2. plan[i] < plan[j]
      BY <1>2
    <2> QED BY <2>1, <2>2
  <1>5. IsFiniteSet(1..n) /\ Cardinality(1..n) = n
    BY <1>1, FS_Interval
  <1>6. plan \in Injection(1..n, left)
    <2> HIDE DEF n
    <2> QED BY <1>2, <1>4 DEF Injection, IsInjective
  <1>7. plan \in Surjection(1..n, left)
    BY <1>1, <1>5, <1>6, FS_Injection
  <1> QED BY <1>2, <1>3, <1>4, <1>7 DEF Surjection

LEMMA PackImplies ==
  ASSUME PackInv
  PROVE  PackIsHonest
  <1>1. packStage = "done" => packRun > 0 /\ \A w \in Packers : ~Working(w)
    BY DEF PackInv, PackTypes, PlanInv, ClaimInv
  <1>2. ASSUME packStage = "done", packExit = Succeeded
        PROVE  /\ claimed = Len(selected)
               /\ \A k \in 1..Len(selected) : packOutcome[selected[k]] = "ok"
    BY <1>1, <1>2 DEF PackInv, PackTypes, VerdictInv, ClaimInv
  <1>3. PackedIsWhole
    BY <1>1, <1>2 DEF PackedIsWhole, PackInv, PackTypes, PlanInv, RecordInv, ZipInv
  <1>4. StopLeavesNoHalfArchive
    BY <1>1 DEF StopLeavesNoHalfArchive, PackInv, ZipInv, Working
  <1>5. PackExitIsHonest
    BY <1>2 DEF PackExitIsHonest, PackInv, VerdictInv, PackTypes
  <1>6. PackCountsAdd
    <2> SUFFICES ASSUME packStage = "done", packExit = Succeeded
                 PROVE  filesPacked = Entries * Len(selected) /\ finalizing = 0
      BY DEF PackCountsAdd
    <2>1. \A w \in Packers : packer[w] # "failed" /\ packer[w] # "closing"
      BY <1>1 DEF Working
    <2>2. \A g \in Groups : packOutcome[g] # "error"
      BY DEF PackInv, VerdictInv
    <2>3. {w \in Packers : packer[w] = "closing"} = {}
      BY <2>1
    <2>4. finalizing = 0
      BY <2>3, FS_EmptySet DEF PackInv, CountsInv
    <2>5. EntriesAdded = (1..Len(selected)) \X (1..Entries)
      BY <1>1, <1>2 DEF EntriesAdded
    <2>6. Len(selected) \in Nat /\ Entries \in Nat
      BY PackingAssumption DEF PackInv, PackTypes
    <2>7. /\ IsFiniteSet(1..Len(selected)) /\ Cardinality(1..Len(selected)) = Len(selected)
          /\ IsFiniteSet(1..Entries) /\ Cardinality(1..Entries) = Entries
      <3> \A n \in Nat : IsFiniteSet(1..n) /\ Cardinality(1..n) = n
        BY FS_Interval
      <3> QED BY <2>6
    <2>8. Cardinality(EntriesAdded) = Len(selected) * Entries
      BY <2>5, <2>7, FS_Product
    <2>9. filesPacked = Cardinality(EntriesAdded)
      BY <2>1, <2>2 DEF PackInv, CountsInv
    <2> QED BY <2>4, <2>6, <2>8, <2>9
  <1> QED BY <1>3, <1>4, <1>5, <1>6 DEF PackIsHonest

\* A run of the job begins, over what an earlier one left.
LEMMA BeginKeeps ==
  ASSUME PackInv, BeginPack
  PROVE  PackInv'
  <1> DEFINE left == {g \in Groups : packRecord'[g] # "succeeded"}
  <1>1. /\ packRecord' = [g \in Groups |-> Merged(g)]
        /\ \A g \in Groups : Merged(g) \in
             {"pending", "running", "succeeded", "failed", "interrupted"}
    BY DEF BeginPack, Merged, PackInv, PackTypes
  <1>2. /\ selected' \in Seq(Groups)
        /\ \A i, j \in 1..Len(selected') : selected'[i] = selected'[j] => i = j
        /\ \A g \in left : \E k \in 1..Len(selected') : selected'[k] = g
        /\ \A k \in 1..Len(selected') : selected'[k] \in left
    <2>1. left \in SUBSET Groups /\ selected' \in InOrder(left)
      BY DEF BeginPack
    <2> QED BY <2>1, PlanInOrder
  <1>3. /\ packRun' = packRun + 1 /\ claimed' = 0 /\ filesPacked' = 0
        /\ packer' = [w \in Packers |-> "idle"] /\ packOutcome' = [g \in Groups |-> "none"]
        /\ packStage' \in {"pack", "done"} /\ packExit' \in {Succeeded, Unfinished}
        /\ packStage' = "pack" => packExit' = Unfinished
        /\ packStage' = "done" => selected' = <<>>
        /\ packError' = FALSE
        /\ UNCHANGED <<zip, task, written, added, finalizing, addFailed, closeFailed, vanished>>
    BY DEF BeginPack
  <1>4. packStage = "idle" /\ \A w \in Packers : ~Working(w) /\ ~Working(w)'
    BY <1>3 DEF BeginPack, PackInv, ClaimInv, Working
  <1>5. /\ resumable' \in BOOLEAN /\ removeOnFailure' \in BOOLEAN /\ packStop' \in BOOLEAN
        /\ packRun > 0 => UNCHANGED <<resumable, removeOnFailure>>
    BY DEF BeginPack, PackInv, PackTypes
  <1>6. /\ Unfinished # Succeeded /\ Unfinished # Canceled /\ Unfinished # Failure
        /\ Succeeded # Canceled /\ Succeeded # Failure
    BY DEF Unfinished, Succeeded, Canceled, Failure
  <1>7. PackTypes'
    <2>1. packRecord' \in [Groups -> {"pending", "running", "succeeded", "failed",
                                      "interrupted"}]
      BY <1>1
    <2>2. /\ packer' \in [Packers -> {"idle", "writing", "closing", "packed", "failed", "gone"}]
          /\ packOutcome' \in [Groups -> {"none", "ok", "error"}]
      BY <1>3
    <2>3. packRun' \in Nat /\ claimed' \in 0..Len(selected') /\ filesPacked' \in Nat
      BY <1>2, <1>3 DEF PackInv, PackTypes
    <2>4. packError' \in BOOLEAN
      BY <1>3
    <2> QED BY <2>1, <2>2, <2>3, <2>4, <1>2, <1>3, <1>5 DEF PackInv, PackTypes
  <1>8. PlanInv'
    BY <1>1, <1>2, <1>3 DEF PackInv, PackTypes, PlanInv, Merged
  <1>9. ClaimInv'
    BY <1>2, <1>3, <1>4 DEF ClaimInv
  <1>10. RecordInv'
    BY <1>2, <1>3 DEF RecordInv
  <1>11. ZipInv' /\ LackInv'
    <2>1. ASSUME NEW g \in Groups
          PROVE  /\ resumable' /\ packRecord'[g] = "succeeded" => AsPacked(g)
                 /\ zip[g] = "partial" =>
                      /\ g \in addFailed
                      /\ resumable' => g \in closeFailed \/ packRecord'[g] = "failed"
                      /\ ~removeOnFailure'
                 /\ resumable' /\ zip[g] = "lacking" =>
                      g \in vanished \/ g \in closeFailed \/ packRecord'[g] = "failed"
      <3>1. CASE packRun = 0
        <4>1. zip[g] = "none" /\ packRecord'[g] = Merged(g)
          BY <1>1, <3>1 DEF PackInv, PlanInv
        <4>2. packRecord[g] = "pending" \/ Merged(g) # "succeeded" \/ ~resumable'
          BY <4>1 DEF Merged
        <4> QED BY <4>1, <4>2 DEF Merged
      <3>2. CASE packRun > 0
        <4>1. UNCHANGED <<resumable, removeOnFailure>> /\ packRecord'[g] = Merged(g)
          BY <1>1, <1>5, <3>2
        <4>2. zip[g] = "partial" =>
                /\ g \in addFailed
                /\ resumable => g \in closeFailed \/ packRecord[g] = "failed"
                /\ ~removeOnFailure
          BY <1>4 DEF PackInv, ZipInv, Working
        <4>3. resumable /\ zip[g] = "lacking" =>
                g \in vanished \/ g \in closeFailed \/ packRecord[g] = "failed"
          BY <1>4 DEF PackInv, LackInv
        <4>4. zip[g] \in {"none", "partial", "lacking", "whole"}
          BY DEF PackInv, PackTypes
        <4>5. packRecord[g] = "failed" /\ resumable => packRecord'[g] = "failed"
          BY <4>1 DEF Merged
        <4>6. ASSUME resumable, packRecord'[g] = "succeeded"
              PROVE  AsPacked(g)
          BY <4>1, <4>2, <4>3, <4>4, <4>6 DEF Merged, AsPacked
        <4> QED BY <4>1, <4>2, <4>3, <4>5, <4>6
      <3> QED BY <3>1, <3>2 DEF PackInv, PackTypes
    <2>2. \A w \in Packers : packer'[w] = "idle"
      BY <1>3
    <2>3. \A g : AsPacked(g)' <=> AsPacked(g)
      BY <1>3 DEF AsPacked
    <2>4. LackInv'
      BY <1>3, <1>4, <2>1 DEF LackInv
    <2>5. ZipInv'
      BY <1>3, <2>1, <2>2, <2>3 DEF ZipInv
    <2> QED BY <2>4, <2>5
  <1>12. VerdictInv'
    BY <1>3, <1>6 DEF VerdictInv
  <1>13. CountsInv'
    <2>1. /\ {w \in Packers : packer[w] = "closing"} = {}
          /\ {w \in Packers : packer[w] = "closing"}' = {}
      BY <1>3, <1>4 DEF Working
    <2>2. EntriesAdded' = {}
      BY <1>3 DEF EntriesAdded
    <2> QED BY <1>3, <2>1, <2>2, FS_EmptySet DEF PackInv, CountsInv
  <1> QED BY <1>7, <1>8, <1>9, <1>10, <1>11, <1>12, <1>13 DEF PackInv

\* A step that is not a worker's and begins no run.
LEMMA DriverKeeps ==
  ASSUME PackInv, RequestPackStop \/ PackDrained \/ Conclude \/ PackAgain
  PROVE  PackInv'
  <1>1. /\ UNCHANGED <<planVars, zip, workVars, addFailed, closeFailed, vanished>>
        /\ packStage = "idle" => packStage' = "idle"
    BY DEF RequestPackStop, PackDrained, Conclude, PackAgain
  <1>2. UNCHANGED <<packRun, resumable, removeOnFailure, selected, claimed, packer, task, written,
                    added, filesPacked, finalizing, packOutcome>>
    BY <1>1 DEF planVars, workVars
  <1>3. /\ packRecord' \in [Groups -> {"pending", "running", "succeeded", "failed",
                                       "interrupted"}]
        /\ \A g \in Groups :
             /\ packRecord[g] \in {"succeeded", "failed"} => packRecord'[g] = packRecord[g]
             /\ packRecord'[g] = "succeeded" => packRecord[g] = "succeeded"
    <2>1. CASE Conclude
      BY <2>1 DEF Conclude, PackInv, PackTypes
    <2>2. CASE RequestPackStop \/ PackDrained \/ PackAgain
      <3>1. packRecord' = packRecord
        BY <2>2 DEF RequestPackStop, PackDrained, PackAgain
      <3> QED BY <3>1 DEF PackInv, PackTypes
    <2> QED BY <2>1, <2>2
  <1>4. packStop => packStop'
    BY DEF RequestPackStop, PackDrained, Conclude, PackAgain
  <1>5. /\ Unfinished # Succeeded /\ Unfinished # Canceled /\ Unfinished # Failure
        /\ Succeeded # Canceled /\ Succeeded # Failure /\ Failure # Canceled
    BY DEF Unfinished, Succeeded, Canceled, Failure
  <1>6. PackTypes'
    BY <1>1, <1>2, <1>3
       DEF RequestPackStop, PackDrained, Conclude, PackAgain, PackInv, PackTypes, PlanFailed
  <1>7. PlanInv'
    BY <1>1, <1>2, <1>3 DEF PackInv, PlanInv, PackTypes
  <1>8. ClaimInv'
    BY <1>1, <1>2, <1>4
       DEF RequestPackStop, PackDrained, Conclude, PackAgain, PackInv, ClaimInv, Working
  <1>9. RecordInv'
    BY <1>2, <1>3 DEF PackInv, RecordInv, PackTypes
  <1>10. ZipInv' /\ LackInv'
    <2>1. UNCHANGED <<zip, addFailed, closeFailed, vanished, added>>
      BY <1>1 DEF workVars
    <2>2. \A g : AsPacked(g)' <=> AsPacked(g)
      BY <2>1 DEF AsPacked
    <2>3. \A w \in Packers : GroupOf(w)' = GroupOf(w) /\ Working(w)' = Working(w)
      BY <1>2 DEF GroupOf, Working
    <2>4. ZipInv'
      BY <1>2, <1>3, <2>1, <2>2, <2>3 DEF PackInv, ZipInv
    <2>5. LackInv'
      BY <1>2, <1>3, <2>1, <2>3 DEF PackInv, LackInv
    <2> QED BY <2>4, <2>5
  <1>11. VerdictInv'
    <2>1. CASE RequestPackStop \/ PackAgain
      BY <2>1, <1>2, <1>4, <1>5 DEF RequestPackStop, PackAgain, PackInv, VerdictInv
    <2>2. CASE PackDrained
      <3>1. packStop \/ claimed = Len(selected)
        BY <2>2, PackingAssumption DEF PackDrained, PackInv, ClaimInv
      <3>2. packStage' = "verdict" /\ packError' = PlanFailed /\ packExit' = Unfinished
        BY <2>2 DEF PackDrained, PackInv, VerdictInv
      <3>3. PlanFailed => packStop \/ \E g \in Groups : packOutcome[g] = "error"
        BY DEF PlanFailed
      <3>4. ~PlanFailed => claimed = Len(selected) /\ \A g \in Groups : packOutcome[g] # "error"
        BY <3>1 DEF PlanFailed, PackInv, PackTypes
      <3>5. packStop' = packStop
        BY <2>2 DEF PackDrained
      <3> QED BY <1>2, <1>5, <3>2, <3>3, <3>4, <3>5 DEF VerdictInv
    <2>3. CASE Conclude
      BY <2>3, <1>2, <1>5 DEF Conclude, PackInv, VerdictInv
    <2> QED BY <2>1, <2>2, <2>3
  <1>12. CountsInv'
    BY <1>2 DEF PackInv, CountsInv, EntriesAdded, Working
  <1> QED BY <1>6, <1>7, <1>8, <1>9, <1>10, <1>11, <1>12 DEF PackInv

\* What every step of a worker has in common.
LEMMA WorkerStep ==
  ASSUME PackInv, NEW w \in Packers, PackerGoes(w)
  PROVE  /\ packStage = "pack" /\ packRun > 0
         /\ UNCHANGED <<packRun, resumable, removeOnFailure, selected, packStage, packStop,
                        packError, packExit>>
         /\ VerdictInv'
         /\ \A g \in Groups : (\A k \in 1..Len(selected) : selected[k] # g) =>
                                packRecord'[g] = packRecord[g]
         /\ PlanInv'
  <1>1. packStage = "pack"
    BY DEF PackerGoes, Claim, Leave, AddEntry, AddFails, AbortAtEntry, BeginClose, Close, Record,
           PackInv, ClaimInv, Working
  <1>2. packRun > 0
    BY <1>1 DEF PackInv, PlanInv, PackTypes
  <1>3. UNCHANGED <<packRun, resumable, removeOnFailure, selected, packStage, packStop,
                    packError, packExit>>
    BY DEF PackerGoes, Claim, Leave, AddEntry, AddFails, AbortAtEntry, BeginClose, Close, Record,
           PackerStep, planVars
  <1>4. VerdictInv'
    <2>1. packExit = Unfinished
      BY <1>1 DEF PackInv, VerdictInv
    <2>2. Unfinished # Canceled /\ Unfinished # Failure /\ Unfinished # Succeeded
      BY DEF Unfinished, Canceled, Failure, Succeeded
    <2> QED BY <1>1, <1>3, <2>1, <2>2 DEF VerdictInv
  <1>5. \A g \in Groups : (\A k \in 1..Len(selected) : selected[k] # g) =>
                            packRecord'[g] = packRecord[g]
    <2>1. ASSUME NEW k \in 1..Len(selected), NEW status, Mark(k, status),
                 NEW g \in Groups, selected[k] # g
          PROVE  packRecord'[g] = packRecord[g]
      BY <2>1 DEF Mark, RecordOf, PackInv, PackTypes
    <2>2. CASE Claim(w)
      <3>1. claimed + 1 \in 1..Len(selected) /\ claimed' = claimed + 1
        BY <2>2 DEF Claim, PackInv, PackTypes
      <3>2. Mark(claimed + 1, "running")
        BY <2>2, <3>1 DEF Claim
      <3> QED BY <2>1, <3>1, <3>2
    <2>3. CASE Record(w)
      <3>1. task[w] \in 1..Len(selected)
        BY <2>3 DEF Record, PackInv, PackTypes, ClaimInv, Working
      <3>2. Mark(task[w], "succeeded") \/ Mark(task[w], "failed")
        BY <2>3 DEF Record
      <3> QED BY <2>1, <3>1, <3>2
    <2>4. CASE UNCHANGED packRecord
      BY <2>4
    <2> QED BY <2>2, <2>3, <2>4
            DEF PackerGoes, Leave, AddEntry, AddFails, AbortAtEntry, BeginClose, Close
  <1>6. PlanInv'
    <2>1. \A g \in Groups : \/ \E k \in 1..Len(selected) : selected[k] = g
                            \/ resumable /\ packRecord'[g] = "succeeded"
      BY <1>2, <1>5 DEF PackInv, PlanInv
    <2>2. packRun' # 0
      BY <1>2, <1>3 DEF PackInv, PackTypes
    <2> QED BY <1>3, <2>1, <2>2 DEF PackInv, PlanInv
  <1> QED BY <1>1, <1>2, <1>3, <1>4, <1>5, <1>6

\* No two archives at work are one.
LEMMA OwnArchive ==
  ASSUME PackInv, NEW v \in Packers, NEW w \in Packers, Working(v), Working(w),
         GroupOf(v) = GroupOf(w)
  PROVE  v = w
  BY DEF PackInv, PackTypes, PlanInv, ClaimInv, GroupOf

LEMMA ClaimKeeps ==
  ASSUME PackInv, NEW w \in Packers, Claim(w)
  PROVE  PackInv'
  <1> DEFINE k == claimed + 1
             g == selected[k]
  <1>1. /\ packStage = "pack" /\ packRun > 0 /\ VerdictInv' /\ PlanInv'
        /\ UNCHANGED <<packRun, resumable, removeOnFailure, selected, packStage, packStop,
                       packError, packExit>>
    BY WorkerStep DEF PackerGoes
  <1>2. /\ packer[w] = "idle" /\ claimed' = k /\ task' = [task EXCEPT ![w] = k]
        /\ written' = [written EXCEPT ![w] = 0]
        /\ packer' = [packer EXCEPT ![w] = "writing"]
        /\ added' = [added EXCEPT ![w] = 0] /\ vanished' = vanished \ {g}
        /\ UNCHANGED <<zip, filesPacked, finalizing, packOutcome, addFailed, closeFailed>>
    BY DEF Claim
  <1>3. k \in 1..Len(selected) /\ claimed \in Nat /\ g \in Groups /\ packOutcome[g] = "none"
    BY DEF Claim, PackInv, PackTypes, ClaimInv
  <1>4. packRecord' = IF resumable THEN [packRecord EXCEPT ![g] = "running"] ELSE packRecord
    BY <1>2 DEF Claim, Mark, RecordOf
  <1> HIDE DEF k, g
  <1>5. /\ packer'[w] = "writing" /\ task'[w] = k /\ written'[w] = 0 /\ added'[w] = 0
        /\ \A v \in Packers : v # w => /\ packer'[v] = packer[v] /\ task'[v] = task[v]
                                       /\ written'[v] = written[v] /\ added'[v] = added[v]
    BY <1>2 DEF PackInv, PackTypes
  <1>6. /\ Working(w)' /\ ~Working(w)
        /\ \A v \in Packers : v # w => Working(v)' = Working(v)
    BY <1>2, <1>5 DEF Working
  <1>7. PackTypes'
    <2>1. packRecord' \in [Groups -> {"pending", "running", "succeeded", "failed",
                                      "interrupted"}]
      BY <1>4 DEF PackInv, PackTypes
    <2>2. written' \in [Packers -> 0..Entries] /\ added' \in [Packers -> 0..Entries]
      BY <1>2, PackingAssumption DEF PackInv, PackTypes
    <2>3. claimed' \in 0..Len(selected) /\ task' \in [Packers -> Nat]
      BY <1>2, <1>3 DEF PackInv, PackTypes
    <2> QED BY <1>1, <1>2, <2>1, <2>2, <2>3 DEF PackInv, PackTypes
  <1>8. ClaimInv'
    <2>1. \A v \in Packers : Working(v) => task[v] \in 1..claimed /\ task[v] # k
      BY <1>3 DEF PackInv, ClaimInv, k
    <2>2. \A v \in Packers :
            /\ Working(v)' => task'[v] \in 1..k /\ packOutcome[selected[task'[v]]] = "none"
            /\ packer'[v] \in {"closing", "packed"} => written'[v] = Entries
            /\ packer'[v] = "gone" => packStop \/ claimed' = Len(selected)
      <3>1. ASSUME NEW v \in Packers, v # w
            PROVE  /\ Working(v)' => task'[v] \in 1..k /\ packOutcome[selected[task'[v]]] = "none"
                   /\ packer'[v] \in {"closing", "packed"} => written'[v] = Entries
                   /\ packer'[v] = "gone" => packStop \/ claimed' = Len(selected)
        <4>1. packer'[v] = "gone" => packStop
          BY <1>1, <1>3, <1>5, <3>1 DEF PackInv, PackTypes, ClaimInv, k
        <4>2. Working(v) => task[v] \in 1..k
          BY <1>3 DEF PackInv, PackTypes, ClaimInv, k
        <4> QED BY <1>5, <1>6, <3>1, <4>1, <4>2 DEF PackInv, ClaimInv
      <3>2. k \in 1..k /\ packOutcome[selected[k]] = "none"
        BY <1>3 DEF g
      <3> QED BY <1>5, <3>1, <3>2
    <2>3. \A u, v \in Packers : Working(u)' /\ Working(v)' /\ task'[u] = task'[v] => u = v
      BY <1>5, <1>6, <2>1 DEF PackInv, ClaimInv
    <2>4. \A i \in 1..k : \/ packOutcome[selected[i]] # "none"
                          \/ \E v \in Packers : Working(v)' /\ task'[v] = i
      <3>1. ASSUME NEW i \in 1..claimed
            PROVE  \/ packOutcome[selected[i]] # "none"
                   \/ \E v \in Packers : Working(v)' /\ task'[v] = i
        BY <1>5, <1>6 DEF PackInv, ClaimInv
      <3>2. \A i \in 1..k : i \in 1..claimed \/ i = k
        BY <1>3 DEF k
      <3> QED BY <1>5, <1>6, <3>1, <3>2
    <2>5. \A i \in (k + 1)..Len(selected) : packOutcome[selected[i]] = "none"
      BY <1>3 DEF PackInv, PackTypes, ClaimInv, k
    <2> QED BY <1>1, <1>2, <2>2, <2>3, <2>4, <2>5 DEF ClaimInv
  <1>9. RecordInv'
    BY <1>1, <1>2, <1>3, <1>4 DEF PackInv, PackTypes, RecordInv
  <1>10. ZipInv' /\ LackInv'
    <2>1. \A v \in Packers : Working(v) => GroupOf(v)' = GroupOf(v)
      BY <1>1, <1>5, <1>6 DEF GroupOf
    <2>2. GroupOf(w)' = g
      BY <1>1, <1>5 DEF GroupOf, g
    <2>3. \A v \in Packers : packer[v] \in {"failed", "packed"} =>
                               Working(v) /\ packer'[v] = packer[v]
      BY <1>2, <1>5 DEF Working
    <2>4. \A v \in Packers : packer'[v] \in {"failed", "packed"} =>
                               Working(v) /\ packer'[v] = packer[v]
      BY <1>5, <1>6 DEF Working
    <2>5. \A h \in Groups : packRecord'[h] = packRecord[h] \/ (h = g /\ packRecord'[h] = "running")
      BY <1>3, <1>4 DEF PackInv, PackTypes
    <2>6. \A v \in Packers : Working(v) => Working(v)'
      BY <1>6
    <2>7. \A v \in Packers : Working(v) => GroupOf(v) # g /\ v # w
      BY <1>3, <1>6 DEF PackInv, PackTypes, PlanInv, ClaimInv, GroupOf, g, k
    <2>8. \A h : h # g => (AsPacked(h)' <=> AsPacked(h))
      BY <1>2 DEF AsPacked
    <2>9. \A h \in Groups : resumable /\ packRecord'[h] = "succeeded" => AsPacked(h)'
      <3>1. resumable => packRecord'[g] = "running"
        BY <1>3, <1>4 DEF PackInv, PackTypes
      <3> QED BY <2>5, <2>8, <3>1 DEF PackInv, ZipInv
    <2>10. \A v \in Packers : packer'[v] = "packed" => AsPacked(GroupOf(v))'
      BY <2>1, <2>4, <2>7, <2>8 DEF PackInv, ZipInv
    <2>11. ZipInv'
      BY <1>1, <1>2, <1>6, <2>1, <2>2, <2>3, <2>4, <2>5, <2>6, <2>9, <2>10 DEF PackInv, ZipInv
    <2>12. ASSUME NEW h \in Groups, resumable, zip[h] = "lacking"
           PROVE  \/ h \in vanished' \/ h \in closeFailed \/ packRecord'[h] = "failed"
                  \/ \E v \in Packers : Working(v)' /\ GroupOf(v)' = h
      <3>1. CASE h = g
        BY <1>6, <2>2, <3>1
      <3>2. CASE h # g
        <4>1. packRecord'[h] = packRecord[h] /\ (h \in vanished => h \in vanished')
          BY <1>2, <2>5, <3>2
        <4> QED BY <2>1, <2>6, <2>12, <4>1 DEF PackInv, LackInv
      <3> QED BY <3>1, <3>2
    <2>13. ASSUME NEW v \in Packers, Working(v)'
           PROVE  added'[v] <= written'[v] /\ (added'[v] < written'[v] => GroupOf(v)' \in vanished')
      <3>1. CASE v = w
        BY <1>5, <3>1
      <3>2. CASE v # w
        <4>1. Working(v) /\ added'[v] = added[v] /\ written'[v] = written[v]
          BY <1>5, <1>6, <2>13, <3>2
        <4> QED BY <1>2, <2>1, <2>7, <4>1 DEF PackInv, LackInv
      <3> QED BY <3>1, <3>2
    <2>14. LackInv'
      BY <1>1, <1>2, <2>12, <2>13 DEF LackInv
    <2> QED BY <2>11, <2>14
  <1>11. CountsInv'
    <2>1. {v \in Packers : packer[v] = "closing"}' = {v \in Packers : packer[v] = "closing"}
      BY <1>2, <1>5
    <2>2. EntriesAdded' = EntriesAdded
      <3>1. ASSUME NEW i \in 1..k, NEW e \in 1..Entries
            PROVE  (\A v \in Packers : Working(v)' /\ task'[v] = i => e <= written'[v]) <=>
                   /\ i \in 1..claimed
                   /\ \A v \in Packers : Working(v) /\ task[v] = i => e <= written[v]
        <4>1. ~(e <= 0)
          OBVIOUS
        <4>2. i = k \/ i \in 1..claimed
          BY <1>3 DEF k
        <4>3. k \notin 1..claimed
          BY <1>3 DEF k
        <4> QED BY <1>5, <1>6, <4>1, <4>2, <4>3
      <3>2. 1..claimed \subseteq 1..k
        BY <1>3 DEF k
      <3> QED BY <1>2, <3>1, <3>2 DEF EntriesAdded
    <2>3. \A v \in Packers : packer[v] = "failed" => packer'[v] = "failed"
      BY <1>2, <1>5
    <2> QED BY <1>2, <2>1, <2>2, <2>3 DEF PackInv, CountsInv
  <1> QED BY <1>1, <1>7, <1>8, <1>9, <1>10, <1>11 DEF PackInv

LEMMA LeaveKeeps ==
  ASSUME PackInv, NEW w \in Packers, Leave(w)
  PROVE  PackInv'
  <1>1. /\ packStage = "pack" /\ packRun > 0 /\ VerdictInv' /\ PlanInv'
        /\ UNCHANGED <<packRun, resumable, removeOnFailure, selected, packStage, packStop,
                       packError, packExit>>
    BY WorkerStep DEF PackerGoes
  <1>2. /\ packer' = [packer EXCEPT ![w] = "gone"] /\ packer[w] = "idle"
        /\ packStop \/ claimed = Len(selected)
        /\ UNCHANGED <<claimed, task, written, added, filesPacked, finalizing, packOutcome,
                       packRecord, zip, addFailed, closeFailed, vanished>>
    BY DEF Leave, NoMoreWork
  <1>3. /\ packer'[w] = "gone"
        /\ \A v \in Packers : packer'[v] = packer[v] \/ (v = w /\ packer'[v] = "gone")
    BY <1>2 DEF PackInv, PackTypes
  <1>4. \A v \in Packers : Working(v)' = Working(v)
    BY <1>2, <1>3 DEF Working
  <1>5. PackTypes'
    BY <1>1, <1>2 DEF PackInv, PackTypes
  <1>6. ClaimInv'
    BY <1>1, <1>2, <1>3, <1>4 DEF PackInv, ClaimInv
  <1>7. RecordInv'
    BY <1>1, <1>2 DEF PackInv, RecordInv
  <1>8. ZipInv' /\ LackInv'
    <2>1. \A v \in Packers : packer'[v] \in {"failed", "packed"} <=> packer[v] \in {"failed", "packed"}
      BY <1>2, <1>3
    <2>2. \A v \in Packers : packer'[v] \in {"failed", "packed"} => packer'[v] = packer[v]
      BY <1>2, <1>3
    <2>3. \A v \in Packers : GroupOf(v)' = GroupOf(v)
      BY <1>1, <1>2 DEF GroupOf
    <2>4. \A g : AsPacked(g)' <=> AsPacked(g)
      BY <1>2 DEF AsPacked
    <2>5. ZipInv'
      BY <1>1, <1>2, <1>4, <2>1, <2>2, <2>3, <2>4 DEF PackInv, ZipInv
    <2>6. LackInv'
      BY <1>1, <1>2, <1>4, <2>3 DEF PackInv, LackInv
    <2> QED BY <2>5, <2>6
  <1>9. CountsInv'
    <2>1. {v \in Packers : packer[v] = "closing"}' = {v \in Packers : packer[v] = "closing"}
      BY <1>2, <1>3
    <2>2. EntriesAdded' = EntriesAdded
      BY <1>2, <1>4 DEF EntriesAdded
    <2>3. \A v \in Packers : packer[v] = "failed" => packer'[v] = "failed"
      BY <1>2, <1>3
    <2> QED BY <1>2, <2>1, <2>2, <2>3 DEF PackInv, CountsInv
  <1> QED BY <1>1, <1>5, <1>6, <1>7, <1>8, <1>9 DEF PackInv

LEMMA AddKeeps ==
  ASSUME PackInv, NEW w \in Packers, AddEntry(w)
  PROVE  PackInv'
  <1> DEFINE entry == <<task[w], written[w] + 1>>
  <1>1. /\ packStage = "pack" /\ packRun > 0 /\ VerdictInv' /\ PlanInv'
        /\ UNCHANGED <<packRun, resumable, removeOnFailure, selected, packStage, packStop,
                       packError, packExit>>
    BY WorkerStep DEF PackerGoes
  <1>2. /\ packer[w] = "writing" /\ written[w] < Entries /\ filesPacked' = filesPacked + 1
        /\ written' = [written EXCEPT ![w] = written[w] + 1]
        /\ \/ added' = [added EXCEPT ![w] = added[w] + 1] /\ vanished' = vanished
           \/ added' = added /\ vanished' = vanished \cup {GroupOf(w)}
        /\ UNCHANGED <<claimed, packer, task, finalizing, packOutcome, packRecord, zip,
                       addFailed, closeFailed>>
    BY DEF AddEntry, CountOf
  <1>3. /\ written[w] \in Nat /\ Entries \in Nat /\ task[w] \in 1..claimed
        /\ Working(w) /\ written'[w] = written[w] + 1
        /\ \A v \in Packers : v # w => written'[v] = written[v]
    BY <1>2, PackingAssumption DEF PackInv, PackTypes, ClaimInv, Working
  <1>4. PackTypes'
    <2>1. added[w] \in Nat /\ added[w] + 1 \in 0..Entries
      BY <1>2, <1>3 DEF PackInv, PackTypes, LackInv
    <2>2. GroupOf(w) \in Groups
      BY <1>3 DEF PackInv, PackTypes, GroupOf
    <2>3. added' \in [Packers -> 0..Entries] /\ vanished' \subseteq Groups
      BY <1>2, <2>1, <2>2 DEF PackInv, PackTypes
    <2>4. written' \in [Packers -> 0..Entries] /\ filesPacked' \in Nat
      BY <1>2, <1>3 DEF PackInv, PackTypes
    <2> QED BY <1>1, <1>2, <2>3, <2>4 DEF PackInv, PackTypes
  <1>5. ClaimInv'
    BY <1>1, <1>2, <1>3 DEF PackInv, ClaimInv, Working
  <1>6. RecordInv'
    BY <1>1, <1>2 DEF PackInv, RecordInv
  <1>7. ZipInv' /\ LackInv'
    <2>1. \A g : AsPacked(g) => AsPacked(g)'
      BY <1>2 DEF AsPacked
    <2>2. \A v \in Packers : GroupOf(v)' = GroupOf(v) /\ Working(v)' = Working(v)
      BY <1>1, <1>2 DEF GroupOf, Working
    <2>3. ZipInv'
      BY <1>1, <1>2, <2>1, <2>2 DEF PackInv, ZipInv
    <2>4. ASSUME NEW v \in Packers, Working(v)
          PROVE  added'[v] <= written'[v] /\ (added'[v] < written'[v] => GroupOf(v) \in vanished')
      <3>1. added[v] \in Nat /\ written[v] \in Nat /\ added[v] <= written[v]
            /\ (added[v] < written[v] => GroupOf(v) \in vanished)
        BY <1>3, <2>4 DEF PackInv, PackTypes, LackInv
      <3>2. CASE v # w
        <4>1. added'[v] = added[v]
          BY <1>2, <3>2 DEF PackInv, PackTypes
        <4>2. written'[v] = written[v] /\ vanished \subseteq vanished'
          BY <1>2, <1>3, <3>2
        <4> QED BY <3>1, <4>1, <4>2
      <3>3. CASE v = w /\ vanished' = vanished /\ added' = [added EXCEPT ![w] = added[w] + 1]
        <4>1. added'[v] = added[v] + 1 /\ written'[v] = written[v] + 1
          BY <1>3, <3>3 DEF PackInv, PackTypes
        <4> QED BY <3>1, <3>3, <4>1
      <3>4. CASE v = w /\ added' = added /\ vanished' = vanished \cup {GroupOf(w)}
        <4>1. added'[v] = added[v] /\ written'[v] = written[v] + 1
          BY <1>3, <3>4
        <4> QED BY <3>1, <3>4, <4>1
      <3> QED BY <1>2, <3>2, <3>3, <3>4
    <2>5. vanished \subseteq vanished'
      BY <1>2
    <2>6. LackInv'
      BY <1>1, <1>2, <2>2, <2>4, <2>5 DEF PackInv, LackInv
    <2> QED BY <2>3, <2>6
  <1>8. CountsInv'
    <2>1. entry \notin EntriesAdded
      BY <1>3 DEF EntriesAdded
    <2>2. EntriesAdded' = EntriesAdded \cup {entry}
      <3>1. ASSUME NEW i \in 1..claimed, NEW e \in 1..Entries
            PROVE  (\A v \in Packers : Working(v) /\ task[v] = i => e <= written'[v]) <=>
                   \/ \A v \in Packers : Working(v) /\ task[v] = i => e <= written[v]
                   \/ i = task[w] /\ e = written[w] + 1
        <4>1. \A v \in Packers : Working(v) /\ task[v] = task[w] => v = w
          BY <1>3 DEF PackInv, ClaimInv
        <4>2. CASE i = task[w]
          <5>1. (\A v \in Packers : Working(v) /\ task[v] = i => e <= written'[v]) <=>
                  e <= written[w] + 1
            BY <1>3, <4>1, <4>2
          <5>2. (\A v \in Packers : Working(v) /\ task[v] = i => e <= written[v]) <=>
                  e <= written[w]
            BY <1>3, <4>1, <4>2
          <5>3. e <= written[w] + 1 <=> e <= written[w] \/ e = written[w] + 1
            BY <1>3
          <5> QED BY <4>2, <5>1, <5>2, <5>3
        <4>3. CASE i # task[w]
          BY <1>3, <4>3
        <4> QED BY <4>2, <4>3
      <3>2. task[w] \in 1..claimed /\ written[w] + 1 \in 1..Entries
        BY <1>2, <1>3
      <3>3. EntriesAdded' =
              {e \in (1..claimed) \X (1..Entries) :
                 \A v \in Packers : Working(v) /\ task[v] = e[1] => e[2] <= written'[v]}
        BY <1>2 DEF EntriesAdded, Working
      <3> QED BY <3>1, <3>2, <3>3 DEF EntriesAdded
    <2>3. IsFiniteSet(EntriesAdded)
      <3>1. IsFiniteSet(1..claimed) /\ IsFiniteSet(1..Entries)
        BY <1>3, FS_Interval DEF PackInv, PackTypes
      <3>2. IsFiniteSet((1..claimed) \X (1..Entries))
        BY <3>1, FS_Product
      <3>3. EntriesAdded \in SUBSET ((1..claimed) \X (1..Entries))
        BY DEF EntriesAdded
      <3> QED BY <3>2, <3>3, FS_Subset
    <2>4. Cardinality(EntriesAdded') = Cardinality(EntriesAdded) + 1
      BY <2>1, <2>2, <2>3, FS_AddElement
    <2> QED BY <1>2, <2>4 DEF PackInv, CountsInv
  <1> QED BY <1>1, <1>4, <1>5, <1>6, <1>7, <1>8 DEF PackInv

\* An archive is given up, because an entry cannot be added or the stop came.
LEMMA GiveUpKeeps ==
  ASSUME PackInv, NEW w \in Packers, AddFails(w) \/ AbortAtEntry(w)
  PROVE  PackInv'
  <1>1. /\ packStage = "pack" /\ packRun > 0 /\ VerdictInv' /\ PlanInv'
        /\ UNCHANGED <<packRun, resumable, removeOnFailure, selected, packStage, packStop,
                       packError, packExit>>
    BY WorkerStep DEF PackerGoes
  <1>2. /\ packer[w] = "writing" /\ packer' = [packer EXCEPT ![w] = "failed"]
        /\ addFailed \subseteq addFailed' /\ addFailed' \subseteq addFailed \cup {GroupOf(w)}
        /\ \/ GroupOf(w) \in addFailed'
              /\ \/ zip' = [zip EXCEPT ![GroupOf(w)] = "partial"]
                 \/ zip' = [zip EXCEPT ![GroupOf(w)] = "none"]
           \/ zip' = [zip EXCEPT ![GroupOf(w)] = zip[GroupOf(w)]]
        /\ UNCHANGED <<claimed, task, written, added, filesPacked, finalizing, packOutcome,
                       packRecord, closeFailed, vanished>>
    BY DEF AddFails, AbortAtEntry, Discarded
  <1>3. GroupOf(w) \in Groups /\ Working(w) /\ task[w] \in 1..Len(selected)
    BY <1>2 DEF PackInv, PackTypes, ClaimInv, Working, GroupOf
  <1>4. /\ packer'[w] = "failed"
        /\ \A v \in Packers : v # w => packer'[v] = packer[v]
        /\ \A v \in Packers : Working(v)' = Working(v)
        /\ \A v \in Packers : GroupOf(v)' = GroupOf(v)
    BY <1>1, <1>2, <1>3 DEF PackInv, PackTypes, Working, GroupOf
  <1>5. PackTypes'
    BY <1>1, <1>2, <1>3 DEF PackInv, PackTypes
  <1>6. ClaimInv'
    BY <1>1, <1>2, <1>4 DEF PackInv, ClaimInv
  <1>7. RecordInv'
    BY <1>1, <1>2 DEF PackInv, RecordInv
  <1>8. ZipInv' /\ LackInv'
    <2>1. resumable => packRecord[GroupOf(w)] # "succeeded"
      BY <1>1, <1>3 DEF PackInv, RecordInv, ClaimInv, GroupOf
    <2>2. /\ \A g \in Groups : g # GroupOf(w) => zip'[g] = zip[g]
          /\ zip'[GroupOf(w)] = "partial" =>
               GroupOf(w) \in addFailed' \/ zip[GroupOf(w)] = "partial"
      BY <1>2, <1>3 DEF PackInv, PackTypes
    <2>3. \A g \in Groups : packRecord[g] = "succeeded" /\ resumable => zip'[g] = zip[g]
      BY <2>1, <2>2
    <2>4. \A v \in Packers : packer'[v] = "packed" => packer[v] = "packed" /\ GroupOf(v) # GroupOf(w)
      BY <1>2, <1>3, <1>4, OwnArchive DEF Working
    <2>5. \A v \in Packers : packer'[v] = "packed" => GroupOf(v) \in Groups
      BY <2>4 DEF PackInv, PackTypes, ClaimInv, Working, GroupOf
    <2>6. ASSUME NEW g \in Groups, zip'[g] = "partial"
          PROVE  /\ g \in addFailed'
                 /\ resumable => \/ g \in closeFailed \/ packRecord[g] = "failed"
                                 \/ \E v \in Packers : Working(v)' /\ GroupOf(v)' = g
                 /\ removeOnFailure => \E v \in Packers : packer'[v] = "failed" /\ GroupOf(v)' = g
      <3>1. CASE g = GroupOf(w)
        BY <1>2, <1>3, <1>4, <2>2, <2>6, <3>1 DEF PackInv, ZipInv
      <3>2. CASE g # GroupOf(w)
        BY <1>2, <1>4, <2>2, <2>6, <3>2 DEF PackInv, ZipInv
      <3> QED BY <3>1, <3>2
    <2>7. \A g : zip'[g] = zip[g] /\ AsPacked(g) => AsPacked(g)'
      BY <1>2 DEF AsPacked
    <2>8. ZipInv'
      BY <1>1, <1>2, <1>4, <2>2, <2>3, <2>4, <2>5, <2>6, <2>7 DEF PackInv, ZipInv
    <2>9. \A g \in Groups : zip'[g] = "lacking" => zip[g] = "lacking"
      BY <1>2, <1>3 DEF PackInv, PackTypes
    <2>10. LackInv'
      BY <1>1, <1>2, <1>4, <2>9 DEF PackInv, LackInv
    <2> QED BY <2>8, <2>10
  <1>9. CountsInv'
    <2>1. {v \in Packers : packer[v] = "closing"}' = {v \in Packers : packer[v] = "closing"}
      BY <1>2, <1>4
    <2> QED BY <1>2, <1>4, <2>1 DEF PackInv, CountsInv
  <1> QED BY <1>1, <1>5, <1>6, <1>7, <1>8, <1>9 DEF PackInv

\* An archive is closed: counted as being finalized, and then written or not.
LEMMA CloseKeeps ==
  ASSUME PackInv, NEW w \in Packers, BeginClose(w) \/ Close(w)
  PROVE  PackInv'
  <1> DEFINE closing == {v \in Packers : packer[v] = "closing"}
  <1>1. /\ packStage = "pack" /\ packRun > 0 /\ VerdictInv' /\ PlanInv'
        /\ UNCHANGED <<packRun, resumable, removeOnFailure, selected, packStage, packStop,
                       packError, packExit>>
    BY WorkerStep DEF PackerGoes
  <1>2. /\ UNCHANGED <<claimed, task, written, added, filesPacked, packOutcome, packRecord,
                       addFailed, vanished>>
        /\ \/ /\ packer[w] = "writing" /\ packer' = [packer EXCEPT ![w] = "closing"]
              /\ written[w] = Entries /\ finalizing' = finalizing + 1
              /\ UNCHANGED <<zip, closeFailed>>
           \/ /\ packer[w] = "closing" /\ packer' = [packer EXCEPT ![w] = "packed"]
              /\ finalizing' = finalizing - 1
              /\ \/ zip' = [zip EXCEPT ![GroupOf(w)] = Closed(w)] /\ UNCHANGED closeFailed
                 \/ closeFailed' = closeFailed \cup {GroupOf(w)} /\ UNCHANGED zip
    BY DEF BeginClose, Close
  <1>3. /\ GroupOf(w) \in Groups /\ Working(w) /\ task[w] \in 1..Len(selected)
        /\ written[w] = Entries
    BY <1>2 DEF PackInv, PackTypes, ClaimInv, Working, GroupOf
  <1>4. /\ packer'[w] \in {"closing", "packed"}
        /\ \A v \in Packers : v # w => packer'[v] = packer[v]
        /\ \A v \in Packers : Working(v)' = Working(v)
        /\ \A v \in Packers : GroupOf(v)' = GroupOf(v)
    BY <1>1, <1>2, <1>3 DEF PackInv, PackTypes, Working, GroupOf
  <1>5. PackTypes'
    <2>1. Closed(w) \in {"none", "lacking", "whole"}
      BY DEF Closed
    <2>2. zip' \in [Groups -> {"none", "partial", "lacking", "whole"}]
      BY <1>2, <2>1 DEF PackInv, PackTypes
    <2> QED BY <1>1, <1>2, <1>3, <2>2 DEF PackInv, PackTypes
  <1>6. ClaimInv'
    BY <1>1, <1>2, <1>3, <1>4 DEF PackInv, ClaimInv
  <1>7. RecordInv'
    BY <1>1, <1>2 DEF PackInv, RecordInv
  <1>8. ZipInv' /\ LackInv'
    <2>1. \A g \in Groups : zip'[g] = zip[g] \/ (g = GroupOf(w) /\ AsPacked(g)' /\ zip'[g] # "partial")
      <3>1. Closed(w) \in {"none", "lacking", "whole"}
        BY DEF Closed
      <3>2. Closed(w) # "whole" => GroupOf(w) \in vanished
        <4>1. added[w] \in Nat /\ added[w] <= Entries /\ Entries \in Nat \ {0}
              /\ (added[w] < Entries => GroupOf(w) \in vanished)
          BY <1>3, PackingAssumption DEF PackInv, PackTypes, LackInv
        <4> QED BY <4>1 DEF Closed
      <3>3. zip' = zip \/ zip' = [zip EXCEPT ![GroupOf(w)] = Closed(w)]
        BY <1>2
      <3> QED BY <1>2, <1>3, <3>1, <3>2, <3>3 DEF PackInv, PackTypes, AsPacked
    <2>2. packer'[w] = "packed" => AsPacked(GroupOf(w))'
      <3>1. CASE zip' = [zip EXCEPT ![GroupOf(w)] = Closed(w)] /\ UNCHANGED closeFailed
        <4>1. zip'[GroupOf(w)] = Closed(w)
          BY <1>3, <3>1 DEF PackInv, PackTypes
        <4>2. added[w] \in Nat /\ added[w] <= Entries /\ Entries \in Nat \ {0}
              /\ (added[w] < Entries => GroupOf(w) \in vanished)
          BY <1>3, PackingAssumption DEF PackInv, PackTypes, LackInv
        <4> QED BY <1>2, <1>4, <4>1, <4>2 DEF Closed, AsPacked
      <3>2. CASE closeFailed' = closeFailed \cup {GroupOf(w)}
        BY <1>4, <3>2 DEF AsPacked
      <3>3. packer'[w] = "packed" => packer[w] = "closing"
        BY <1>2, <1>3 DEF PackInv, PackTypes
      <3> QED BY <1>2, <3>1, <3>2, <3>3
    <2>3. \A v \in Packers : packer[v] = "packed" => GroupOf(v) \in Groups
      BY DEF PackInv, PackTypes, ClaimInv, Working, GroupOf
    <2>4. \A v \in Packers : packer[v] = "failed" <=> packer'[v] = "failed"
      BY <1>2, <1>4
    <2>5. closeFailed \subseteq closeFailed'
      BY <1>2
    <2>6. \A g \in Groups : AsPacked(g) => AsPacked(g)'
      BY <1>2, <2>1, <2>5 DEF AsPacked
    <2>7. ZipInv'
      BY <1>1, <1>2, <1>4, <2>1, <2>2, <2>3, <2>4, <2>5, <2>6 DEF PackInv, ZipInv
    <2>8. LackInv'
      BY <1>1, <1>2, <1>3, <1>4, <2>1, <2>5 DEF PackInv, LackInv
    <2> QED BY <2>7, <2>8
  <1>9. CountsInv'
    <2>1. IsFiniteSet(closing)
      <3>1. closing \in SUBSET Packers
        OBVIOUS
      <3> QED BY <3>1, PackingAssumption, FS_Subset
    <2>2. finalizing' = Cardinality(closing')
      <3>1. CASE packer[w] = "writing"
        <4>1. closing' = closing \cup {w} /\ w \notin closing
          BY <1>2, <1>4, <3>1 DEF PackInv, PackTypes
        <4>2. Cardinality(closing') = Cardinality(closing) + 1
          BY <2>1, <4>1, FS_AddElement
        <4> QED BY <1>2, <3>1, <4>2 DEF PackInv, CountsInv
      <3>2. CASE packer[w] = "closing"
        <4>1. closing' = closing \ {w} /\ w \in closing
          BY <1>2, <1>4, <3>2 DEF PackInv, PackTypes
        <4>2. Cardinality(closing') = Cardinality(closing) - 1
          BY <2>1, <4>1, FS_RemoveElement
        <4> QED BY <1>2, <3>2, <4>2 DEF PackInv, CountsInv
      <3> QED BY <1>2, <3>1, <3>2
    <2>3. EntriesAdded' = EntriesAdded
      BY <1>2, <1>4 DEF EntriesAdded
    <2>4. \A v \in Packers : packer[v] = "failed" => packer'[v] = "failed"
      BY <1>2, <1>4
    <2> QED BY <1>2, <2>2, <2>3, <2>4 DEF PackInv, CountsInv
  <1> QED BY <1>1, <1>5, <1>6, <1>7, <1>8, <1>9 DEF PackInv

\* The outcome of an archive is recorded.
LEMMA RecordKeeps ==
  ASSUME PackInv, NEW w \in Packers, Record(w)
  PROVE  PackInv'
  <1> DEFINE g == GroupOf(w)
             ok == packer[w] = "packed"
             status == IF ok THEN "succeeded" ELSE "failed"
  <1>1. /\ packStage = "pack" /\ packRun > 0 /\ VerdictInv' /\ PlanInv'
        /\ UNCHANGED <<packRun, resumable, removeOnFailure, selected, packStage, packStop,
                       packError, packExit>>
    BY WorkerStep DEF PackerGoes
  <1>2. /\ packer[w] \in {"packed", "failed"} /\ packer' = [packer EXCEPT ![w] = "idle"]
        /\ packRecord' = IF resumable THEN [packRecord EXCEPT ![g] = status] ELSE packRecord
        /\ packOutcome' = [packOutcome EXCEPT ![g] = IF ok THEN "ok" ELSE "error"]
        /\ zip' = IF ~ok /\ removeOnFailure THEN [zip EXCEPT ![g] = "none"] ELSE zip
        /\ written' = [written EXCEPT ![w] = 0] /\ added' = [added EXCEPT ![w] = 0]
        /\ UNCHANGED <<claimed, task, filesPacked, finalizing, addFailed, closeFailed, vanished>>
    BY DEF Record, Mark, RecordOf, GroupOf
  <1>3. /\ g \in Groups /\ Working(w) /\ task[w] \in 1..claimed /\ g = selected[task[w]]
        /\ task[w] \in 1..Len(selected) /\ packOutcome[g] = "none"
    BY <1>2 DEF PackInv, PackTypes, ClaimInv, Working, GroupOf
  <1>4. /\ packer'[w] = "idle" /\ ~Working(w)'
        /\ \A v \in Packers : v # w => /\ packer'[v] = packer[v] /\ Working(v)' = Working(v)
                                       /\ written'[v] = written[v] /\ added'[v] = added[v]
        /\ \A v \in Packers : GroupOf(v)' = GroupOf(v)
    BY <1>1, <1>2 DEF PackInv, PackTypes, Working, GroupOf
  <1>5. /\ \A h \in Groups : h # g => packOutcome'[h] = packOutcome[h]
        /\ packOutcome'[g] = IF ok THEN "ok" ELSE "error"
    BY <1>2, <1>3 DEF PackInv, PackTypes
  <1>6. /\ \A h \in Groups : h # g => packRecord'[h] = packRecord[h]
        /\ resumable => packRecord'[g] = status
        /\ ~resumable => packRecord' = packRecord
    BY <1>2, <1>3 DEF PackInv, PackTypes
  <1>7. \A v \in Packers : Working(v) /\ v # w => GroupOf(v) # g /\ GroupOf(v) \in Groups
    BY <1>3, OwnArchive DEF PackInv, PackTypes, ClaimInv, GroupOf
  <1> HIDE DEF g, ok
  <1>8. PackTypes'
    <2>1. status \in {"succeeded", "failed"}
      OBVIOUS
    <2>2. /\ packRecord' \in [Groups -> {"pending", "running", "succeeded", "failed",
                                         "interrupted"}]
          /\ packOutcome' \in [Groups -> {"none", "ok", "error"}]
          /\ zip' \in [Groups -> {"none", "partial", "lacking", "whole"}]
      BY <1>2, <2>1 DEF PackInv, PackTypes
    <2>3. written' \in [Packers -> 0..Entries] /\ added' \in [Packers -> 0..Entries]
      BY <1>2, PackingAssumption DEF PackInv, PackTypes
    <2> QED BY <1>1, <1>2, <2>2, <2>3 DEF PackInv, PackTypes
  <1>9. ClaimInv'
    <2>1. \A v \in Packers :
            /\ Working(v)' => task[v] \in 1..claimed /\ packOutcome'[selected[task[v]]] = "none"
            /\ packer'[v] \in {"closing", "packed"} => written'[v] = Entries
            /\ packer'[v] = "gone" => packStop \/ claimed = Len(selected)
      BY <1>1, <1>4, <1>5, <1>7 DEF PackInv, ClaimInv, GroupOf
    <2>2. \A u, v \in Packers : Working(u)' /\ Working(v)' /\ task[u] = task[v] => u = v
      BY <1>4 DEF PackInv, ClaimInv
    <2>3. \A k \in 1..Len(selected) : selected[k] \in Groups
      BY DEF PackInv, PackTypes
    <2>4. \A k \in 1..claimed : \/ packOutcome'[selected[k]] # "none"
                                \/ \E v \in Packers : Working(v)' /\ task[v] = k
      <3> SUFFICES ASSUME NEW k \in 1..claimed, k # task[w]
                   PROVE  \/ packOutcome'[selected[k]] # "none"
                          \/ \E v \in Packers : Working(v)' /\ task[v] = k
        BY <1>3, <1>5
      <3>1. k \in 1..Len(selected) /\ selected[k] # g
        BY <1>3 DEF PackInv, PackTypes, PlanInv
      <3> QED BY <1>4, <1>5, <2>3, <3>1 DEF PackInv, ClaimInv
    <2>5. \A k \in (claimed + 1)..Len(selected) : packOutcome'[selected[k]] = "none"
      BY <1>3, <1>5, <2>3 DEF PackInv, PackTypes, PlanInv, ClaimInv
    <2> QED BY <1>1, <1>2, <2>1, <2>2, <2>4, <2>5 DEF ClaimInv
  <1>10. RecordInv'
    <2>1. \A k \in 1..Len(selected) : selected[k] \in Groups
      BY DEF PackInv, PackTypes
    <2> QED BY <1>1, <1>5, <1>6, <2>1 DEF PackInv, RecordInv
  <1>11. ZipInv' /\ LackInv'
    <2>1. \A h \in Groups : zip'[h] = zip[h] \/ (h = g /\ ~ok /\ zip'[h] = "none")
      BY <1>2 DEF PackInv, PackTypes
    <2>2. ok => AsPacked(g)
      BY DEF PackInv, ZipInv, ok, g
    <2>3. \A v \in Packers : packer'[v] \in {"packed", "failed"} =>
                               /\ v # w /\ packer[v] = packer'[v]
                               /\ GroupOf(v) \in Groups /\ GroupOf(v) # g
      BY <1>4, <1>7 DEF Working
    <2>4. ASSUME NEW h \in Groups
          PROVE  /\ resumable /\ packRecord'[h] = "succeeded" => AsPacked(h)'
                 /\ zip'[h] = "partial" =>
                      /\ h \in addFailed
                      /\ resumable => \/ h \in closeFailed \/ packRecord'[h] = "failed"
                                      \/ \E v \in Packers : Working(v)' /\ GroupOf(v)' = h
                      /\ removeOnFailure =>
                           \E v \in Packers : packer'[v] = "failed" /\ GroupOf(v)' = h
                 /\ resumable /\ zip'[h] = "lacking" =>
                      \/ h \in vanished \/ h \in closeFailed \/ packRecord'[h] = "failed"
                      \/ \E v \in Packers : Working(v)' /\ GroupOf(v)' = h
      <3>0. zip'[h] = zip[h] /\ AsPacked(h) => AsPacked(h)'
        BY <1>2 DEF AsPacked
      <3>1. CASE h = g
        <4>1. ok => /\ zip' = zip /\ (zip[g] # "partial" \/ g \in closeFailed)
                    /\ zip[g] = "lacking" => g \in vanished \/ g \in closeFailed
          BY <1>2, <2>2 DEF AsPacked
        <4>2. ~ok /\ removeOnFailure => zip'[g] = "none"
          BY <1>2, <1>3 DEF PackInv, PackTypes
        <4>3. ok /\ removeOnFailure => zip[g] # "partial"
          <5>1. ok => packer[w] # "failed"
            BY DEF ok
          <5>2. \A v \in Packers : packer[v] = "failed" => v = w \/ GroupOf(v) # g
            BY <1>7 DEF Working
          <5> QED BY <1>3, <5>1, <5>2 DEF PackInv, ZipInv
        <4>4. resumable => packRecord'[g] = IF ok THEN "succeeded" ELSE "failed"
          BY <1>6
        <4>5. resumable /\ zip'[h] = "lacking" =>
                h \in vanished \/ h \in closeFailed \/ packRecord'[h] = "failed"
          BY <3>1, <4>1, <4>4
        <4> QED BY <1>2, <1>3, <1>6, <2>1, <2>2, <3>0, <3>1, <4>1, <4>2, <4>3, <4>4, <4>5 DEF PackInv, ZipInv
      <3>2. CASE h # g
        <4>1. zip'[h] = zip[h] /\ packRecord'[h] = packRecord[h]
          BY <1>6, <2>1, <3>2
        <4>2. \A v \in Packers : GroupOf(v) = h =>
                /\ Working(v) => Working(v)' /\ GroupOf(v)' = h
                /\ packer[v] = "failed" => packer'[v] = "failed" /\ GroupOf(v)' = h
          BY <1>4, <3>2 DEF g
        <4>3. resumable /\ zip'[h] = "lacking" =>
                \/ h \in vanished \/ h \in closeFailed \/ packRecord'[h] = "failed"
                \/ \E v \in Packers : Working(v)' /\ GroupOf(v)' = h
          BY <4>1, <4>2 DEF PackInv, LackInv
        <4> QED BY <3>0, <4>1, <4>2, <4>3 DEF PackInv, ZipInv
      <3> QED BY <3>1, <3>2
    <2>5. ASSUME NEW v \in Packers, packer'[v] = "packed"
          PROVE  AsPacked(GroupOf(v))'
      <3>1. zip'[GroupOf(v)] = zip[GroupOf(v)] /\ AsPacked(GroupOf(v))
        BY <2>1, <2>3, <2>5 DEF PackInv, ZipInv
      <3>2. \A h : zip'[h] = zip[h] /\ AsPacked(h) => AsPacked(h)'
        BY <1>2 DEF AsPacked
      <3> QED BY <1>4, <3>1, <3>2
    <2>6. ZipInv'
      BY <1>1, <1>2, <1>4, <2>4, <2>5 DEF ZipInv
    <2>7. \A v \in Packers : Working(v)' => v # w
      BY <1>4
    <2>8. LackInv'
      BY <1>1, <1>2, <1>4, <2>4, <2>7 DEF PackInv, LackInv
    <2> QED BY <2>6, <2>8
  <1>12. CountsInv'
    <2>1. {v \in Packers : packer[v] = "closing"}' = {v \in Packers : packer[v] = "closing"}
      BY <1>2, <1>4
    <2>2. (\A h \in Groups : packOutcome'[h] # "error") =>
            ok /\ \A h \in Groups : packOutcome[h] # "error"
      BY <1>3, <1>5
    <2>3. ok => EntriesAdded' = EntriesAdded
      <3> SUFFICES ASSUME ok PROVE EntriesAdded' = EntriesAdded
        OBVIOUS
      <3>1. written[w] = Entries
        BY DEF PackInv, ClaimInv, ok
      <3>2. ASSUME NEW i \in 1..claimed, NEW e \in 1..Entries
            PROVE  (\A v \in Packers : Working(v)' /\ task[v] = i => e <= written'[v]) <=>
                   (\A v \in Packers : Working(v) /\ task[v] = i => e <= written[v])
        <4>1. e <= written[w]
          BY <3>1
        <4> QED BY <1>4, <4>1
      <3> QED BY <1>2, <3>2 DEF EntriesAdded
    <2>4. (\A v \in Packers : packer'[v] # "failed") /\ ok => \A v \in Packers : packer[v] # "failed"
      BY <1>4 DEF ok
    <2> QED BY <1>2, <2>1, <2>2, <2>3, <2>4 DEF PackInv, CountsInv
  <1> QED BY <1>1, <1>8, <1>9, <1>10, <1>11, <1>12 DEF PackInv

LEMMA PackStep ==
  ASSUME PackInv, [PackNext]_packVars
  PROVE  PackInv'
  <1>1. CASE UNCHANGED packVars
    <2>1. /\ UNCHANGED <<packRun, resumable, removeOnFailure, selected, claimed, packer, task,
                         written, added, filesPacked, finalizing, packOutcome>>
          /\ UNCHANGED <<packStage, packStop, packRecord, zip, packError, packExit, addFailed,
                         closeFailed, vanished>>
      BY <1>1 DEF packVars, planVars, workVars
    <2>2. /\ \A g : AsPacked(g)' <=> AsPacked(g)
          /\ \A w : Working(w)' = Working(w) /\ GroupOf(w)' = GroupOf(w)
      BY <2>1 DEF AsPacked, Working, GroupOf
    <2>3. ZipInv' /\ LackInv'
      BY <2>1, <2>2 DEF PackInv, ZipInv, LackInv
    <2>4. PackTypes' /\ PlanInv' /\ ClaimInv' /\ RecordInv'
      BY <2>1, <2>2 DEF PackInv, PackTypes, PlanInv, ClaimInv, RecordInv
    <2>5. VerdictInv' /\ CountsInv'
      BY <2>1, <2>2 DEF PackInv, VerdictInv, CountsInv, EntriesAdded
    <2> QED BY <2>3, <2>4, <2>5 DEF PackInv
  <1>2. ASSUME NEW w \in Packers, PackerGoes(w)
        PROVE  PackInv'
    BY <1>2, ClaimKeeps, LeaveKeeps, AddKeeps, GiveUpKeeps, CloseKeeps, RecordKeeps
       DEF PackerGoes
  <1> QED BY <1>1, <1>2, BeginKeeps, DriverKeeps DEF PackNext

\* Records, archives, counts and the exit code of a pack agree, for any plan, any number
\* of workers and any number of runs of the job.
THEOREM PacksAreHonest == PackSpec => []PackIsHonest
  <1>1. ASSUME PackInit
        PROVE  PackInv
    <2>1. /\ selected = <<>> /\ \A w \in Packers : ~Working(w) /\ packer[w] = "gone"
          /\ Unfinished # Succeeded /\ Unfinished # Canceled /\ Unfinished # Failure
      BY <1>1 DEF PackInit, Working, Unfinished, Succeeded, Canceled, Failure
    <2>2. PackTypes
      <3>1. /\ resumable \in BOOLEAN /\ removeOnFailure \in BOOLEAN
            /\ packStop \in BOOLEAN /\ packError \in BOOLEAN
        BY <1>1 DEF PackInit
      <3>2. selected \in Seq(Groups) /\ claimed \in 0..Len(selected)
        BY <1>1 DEF PackInit
      <3>3. task \in [Packers -> Nat] /\ written \in [Packers -> 0..Entries]
        BY <1>1, PackingAssumption DEF PackInit
      <3>4. added \in [Packers -> 0..Entries] /\ vanished = {}
        BY <1>1, PackingAssumption DEF PackInit
      <3> QED BY <1>1, <3>1, <3>2, <3>3, <3>4 DEF PackInit, PackTypes
    <2>3. PlanInv /\ ClaimInv /\ RecordInv /\ ZipInv /\ LackInv /\ VerdictInv
      BY <1>1, <2>1 DEF PackInit, PlanInv, ClaimInv, RecordInv, ZipInv, LackInv, VerdictInv
    <2>4. {w \in Packers : packer[w] = "closing"} = {} /\ EntriesAdded = {}
      BY <1>1, <2>1 DEF PackInit, EntriesAdded
    <2>5. CountsInv
      BY <1>1, <2>4, FS_EmptySet DEF PackInit, CountsInv
    <2> QED BY <2>2, <2>3, <2>5 DEF PackInv
  <1> QED BY <1>1, PackStep, PackImplies, PTL DEF PackSpec

-----------------------------------------------------------------------------
(* Preview: for any number and length of windows, any budget, any videos     *)

\* A set of numbers has a least one: the least of the intervals that end in it.
LEMMA LeastOf ==
  ASSUME NEW S \in SUBSET Nat, S # {}
  PROVE  Min(S) \in S /\ \A y \in S : Min(S) <= y
  <1> DEFINE intervals == {0..x : x \in S}
  <1>1. IsWellFoundedOn(StrictSubsetOrdering(Nat), FiniteSubsetsOf(Nat))
    BY FS_StrictSubsetOrderingWellFounded
  <1>2. intervals \subseteq FiniteSubsetsOf(Nat) /\ intervals # {}
    <2>1. ASSUME NEW x \in S
          PROVE  0..x \in SUBSET Nat /\ IsFiniteSet(0..x)
      BY FS_Interval
    <2> QED BY <2>1 DEF FiniteSubsetsOf
  <1>3. PICK least \in intervals :
          \A other \in intervals : <<other, least>> \notin StrictSubsetOrdering(Nat)
    <2> HIDE DEF intervals
    <2> QED BY <1>1, <1>2, WFMin
  <1>4. PICK x \in S : least = 0..x
    OBVIOUS
  <1>5. ASSUME NEW y \in S
        PROVE  x <= y
    <2>1. ~(0..y \subseteq 0..x /\ 0..y # 0..x)
      <3>1. 0..y \in SUBSET Nat /\ 0..x \in SUBSET Nat /\ 0..y \in intervals
        OBVIOUS
      <3>2. <<0..y, 0..x>> \notin StrictSubsetOrdering(Nat)
        BY <1>3, <1>4, <3>1
      <3> QED BY <3>1, <3>2 DEF StrictSubsetOrdering
    <2>2. x \in Nat /\ y \in Nat
      OBVIOUS
    <2>3. y < x => 0..y \subseteq 0..x /\ x \in 0..x /\ x \notin 0..y
      BY <2>2
    <2> QED BY <2>1, <2>2, <2>3
  <1> QED BY <1>5 DEF Min

\* Sequences, whatever their elements.
LEMMA SequenceFacts ==
  ASSUME NEW S
  PROVE  /\ \A n \in Nat : \A f \in [1..n -> S] : f \in Seq(S) /\ Len(f) = n
         /\ \A s \in Seq(S) : \A i \in 1..Len(s) : s[i] \in S
         /\ \A s \in Seq(S) : \A e \in S : Append(s, e) \in Seq(S)
  OBVIOUS

LEMMA Distributes ==
  \A n, a, b \in Nat : n * (a + b) = n * a + n * b
  OBVIOUS

LEMMA DivBounds ==
  ASSUME NEW a \in Nat, NEW n \in Nat \ {0}
  PROVE  a \div n \in Nat /\ n * (a \div n) <= a /\ a < n * (a \div n) + n
  OBVIOUS

\* The windows picked are in the video, one after the other, and reach over all of it.
LEMMA PickedCover ==
  ASSUME shorter \in Nat \ {0}, manual \in ManualRanges, NEW picked, picked = PickWindows
  PROVE  /\ picked \in Seq([start : Nat, len : Nat])
         /\ picked # <<>> =>
              /\ \A i \in DOMAIN picked :
                   picked[i].len > 0 /\ picked[i].start + picked[i].len <= shorter
              /\ \A i \in 1..Len(picked) - 1 :
                   picked[i].start + picked[i].len <= picked[i + 1].start
              /\ manual = <<>> =>
                   /\ picked[1].start = 0
                   /\ picked[Len(picked)].start + picked[Len(picked)].len = shorter
  <1>1. CASE manual # <<>>
    <2> DEFINE rest == shorter - manual.start
               len == Min({manual.len, rest})
    <2>1. manual.start \in Nat /\ manual.len \in Nat
      BY <1>1, PreviewAssumption DEF ManualRanges
    <2>2. rest \in Nat => len \in {manual.len, rest} /\ len <= manual.len /\ len <= rest
      BY <2>1, LeastOf
    <2>3. picked = IF manual.start >= shorter \/ len <= 0 THEN <<>>
                   ELSE <<[start |-> manual.start, len |-> len]>>
      BY <1>1 DEF PickWindows
    <2> HIDE DEF len
    <2>4. CASE manual.start >= shorter \/ len <= 0
      BY <2>3, <2>4
    <2>5. CASE ~(manual.start >= shorter \/ len <= 0)
      <3>1. rest \in Nat /\ len \in Nat /\ len > 0 /\ manual.start + len <= shorter
        BY <2>1, <2>2, <2>5
      <3>2. picked = <<[start |-> manual.start, len |-> len]>>
        BY <2>3, <2>5
      <3>3. [start |-> manual.start, len |-> len] \in [start : Nat, len : Nat]
        BY <2>1, <3>1
      <3>4. picked \in Seq([start : Nat, len : Nat]) /\ Len(picked) = 1 /\ DOMAIN picked = 1..1
        BY <3>2, <3>3
      <3>5. picked[1].start = manual.start /\ picked[1].len = len
        BY <3>2
      <3>6. \A i \in 1..1 : i = 1
        OBVIOUS
      <3>7. 1..(Len(picked) - 1) = {}
        BY <3>4
      <3> QED BY <1>1, <3>1, <3>4, <3>5, <3>6, <3>7
    <2> QED BY <2>4, <2>5
  <1>2. CASE manual = <<>> /\ ComparedWhole
    BY <1>2 DEF PickWindows
  <1>3. CASE manual = <<>> /\ ~ComparedWhole
    <2> DEFINE steps == WindowCount - 1
               spread == shorter - WindowLen
    <2>1. /\ WindowCount \in Nat /\ WindowLen \in Nat /\ WindowLen > 0 /\ steps \in Nat \ {0}
          /\ WindowCount * WindowLen <= shorter
      BY <1>3, PreviewAssumption DEF ComparedWhole
    <2>2. WindowCount * WindowLen = steps * WindowLen + WindowLen
      BY <2>1
    <2>3. spread \in Nat /\ steps * WindowLen <= spread
      BY <2>1, <2>2
    <2>4. picked = [i \in 1..WindowCount |-> [start |-> StartOf(i), len |-> WindowLen]]
      BY <1>3 DEF PickWindows
    <2>5. ASSUME NEW i \in 1..WindowCount
          PROVE  /\ StartOf(i) \in Nat /\ (i - 1) * spread \in Nat
                 /\ steps * StartOf(i) <= (i - 1) * spread
                 /\ (i - 1) * spread < steps * StartOf(i) + steps
      <3>1. (i - 1) * spread \in Nat
        BY <2>1, <2>3
      <3>2. StartOf(i) = ((i - 1) * spread) \div steps
        BY DEF StartOf
      <3> HIDE DEF spread, steps
      <3> QED BY <2>1, <3>1, <3>2, DivBounds
    <2>6. ASSUME NEW i \in 1..(WindowCount - 1)
          PROVE  StartOf(i) + WindowLen <= StartOf(i + 1)
      <3>1. i \in 1..WindowCount /\ i + 1 \in 1..WindowCount
        BY <2>1
      <3>2. i * spread = (i - 1) * spread + spread
        BY <2>3
      <3>3. steps * (StartOf(i) + WindowLen) < steps * (StartOf(i + 1) + 1)
        <4>1. steps * StartOf(i) <= (i - 1) * spread
          BY <2>5, <3>1
        <4>2. i * spread < steps * StartOf(i + 1) + steps
          BY <2>5, <3>1
        <4>3. /\ StartOf(i) \in Nat /\ StartOf(i + 1) \in Nat
              /\ steps * 1 = steps
          BY <2>1, <2>5, <3>1
        <4>4. /\ steps * (StartOf(i) + WindowLen) = steps * StartOf(i) + steps * WindowLen
              /\ steps * (StartOf(i + 1) + 1) = steps * StartOf(i + 1) + steps * 1
          BY <2>1, <4>3, Distributes
        <4>5. /\ steps * StartOf(i) \in Nat /\ steps * WindowLen \in Nat
              /\ steps * StartOf(i + 1) \in Nat /\ (i - 1) * spread \in Nat
          BY <2>1, <2>5, <3>1, <4>3
        <4> HIDE DEF steps, spread
        <4> QED BY <2>1, <2>3, <3>2, <4>1, <4>2, <4>3, <4>4, <4>5
      <3>4. \A a, b \in Nat : steps * a < steps * b => a < b
        BY <2>1
      <3>5. StartOf(i) + WindowLen \in Nat /\ StartOf(i + 1) + 1 \in Nat
        <4> StartOf(i) \in Nat /\ StartOf(i + 1) \in Nat
          BY <2>5, <3>1
        <4> QED BY <2>1
      <3>6. StartOf(i) + WindowLen < StartOf(i + 1) + 1
        BY <3>3, <3>4, <3>5
      <3> QED BY <2>1, <2>5, <3>1, <3>5, <3>6
    <2>7. StartOf(1) = 0 /\ StartOf(WindowCount) = spread
      <3>1. 1 \in 1..WindowCount /\ WindowCount \in 1..WindowCount
        BY <2>1
      <3>2. (1 - 1) * spread = 0 /\ (WindowCount - 1) * spread = steps * spread
        BY <2>3
      <3>3. \A a, b \in Nat : steps * a <= steps * b /\ steps * b < steps * a + steps => a = b
        BY <2>1
      <3>4. StartOf(1) = 0
        BY <2>1, <2>5, <3>1, <3>2, <3>3
      <3>5. StartOf(WindowCount) = spread
        BY <2>3, <2>5, <3>1, <3>2, <3>3
      <3> QED BY <3>4, <3>5
    <2>8. ASSUME NEW i \in 1..WindowCount
          PROVE  StartOf(i) + WindowLen <= shorter
      <3>1. (i - 1) * spread <= steps * spread
        BY <2>1, <2>3
      <3>2. \A a, b \in Nat : steps * a <= steps * b => a <= b
        BY <2>1
      <3>3. StartOf(i) <= spread
        <4>1. steps * StartOf(i) <= (i - 1) * spread /\ StartOf(i) \in Nat
          BY <2>5
        <4>2. (i - 1) * spread \in Nat /\ steps * spread \in Nat /\ steps * StartOf(i) \in Nat
          <5> \A a, b \in Nat : a * b \in Nat
            OBVIOUS
          <5> HIDE DEF steps, spread
          <5> QED BY <2>1, <2>3, <2>5
        <4>3. steps * StartOf(i) <= steps * spread
          BY <3>1, <4>1, <4>2
        <4> QED BY <2>3, <3>2, <4>1, <4>3
      <3> QED BY <2>1, <2>5, <3>3
    <2>9. picked \in Seq([start : Nat, len : Nat]) /\ Len(picked) = WindowCount
      <3>1. ASSUME NEW i \in 1..WindowCount
            PROVE  [start |-> StartOf(i), len |-> WindowLen] \in [start : Nat, len : Nat]
        <4>1. StartOf(i) \in Nat
          BY <2>5
        <4> QED BY <2>1, <4>1
      <3>2. picked \in [1..WindowCount -> [start : Nat, len : Nat]]
        BY <2>4, <3>1
      <3> QED BY <2>1, <3>2, SequenceFacts
    <2> HIDE DEF spread, steps
    <2> QED BY <1>3, <2>1, <2>4, <2>6, <2>7, <2>8, <2>9 DEF spread
  <1> QED BY <1>1, <1>2, <1>3

\* The window marked, whatever the scores.
LEMMA WorstIsLeast ==
  ASSUME scored \in Seq([written : BOOLEAN, score : WindowScores \cup {Unscored}])
  PROVE  WorstIsWorst
  <1> DEFINE p5(i) == scored[i].score.p5
             lowest == {i \in Scored : \A j \in Scored : p5(i) <= p5(j)}
  <1>1. Scored \subseteq Nat /\ \A i \in Scored : p5(i) \in Nat
    <2> SUFFICES ASSUME NEW i \in Scored
                 PROVE  i \in Nat /\ p5(i) \in Nat
      OBVIOUS
    <2>1. i \in 1..Len(scored) /\ scored[i].score # Unscored
      BY DEF Scored
    <2>2. scored[i] \in [written : BOOLEAN, score : WindowScores \cup {Unscored}]
      BY <2>1, SequenceFacts
    <2>3. scored[i].score \in WindowScores
      BY <2>1, <2>2
    <2> QED BY <2>1, <2>3, PreviewAssumption
  <1>2. CASE Scored = {}
    BY <1>2 DEF WorstIsWorst, Worst
  <1>3. CASE Scored # {}
    <2> DEFINE values == {p5(i) : i \in Scored}
    <2>1. values \in SUBSET Nat /\ values # {}
      BY <1>1, <1>3
    <2>2. PICK i \in Scored : p5(i) = Min(values)
      <3> HIDE DEF p5
      <3>1. Min(values) \in values
        <4> HIDE DEF values
        <4> QED BY <2>1, LeastOf
      <3> QED BY <3>1
    <2>3. \A j \in Scored : p5(i) <= p5(j)
      <3>1. \A y \in values : Min(values) <= y
        <4> HIDE DEF values
        <4> QED BY <2>1, LeastOf
      <3> HIDE DEF p5
      <3> QED BY <2>2, <3>1
    <2>4. lowest \in SUBSET Nat /\ lowest # {}
      BY <1>1, <2>3
    <2>5. Worst = Min(lowest)
      BY <1>3 DEF Worst, WorstOf
    <2>6. Worst \in lowest /\ \A j \in lowest : Worst <= j
      <3> HIDE DEF lowest
      <3> QED BY <2>4, <2>5, LeastOf
    <2>7. ASSUME NEW j \in Scored
          PROVE  p5(j) > p5(Worst) \/ (p5(j) = p5(Worst) /\ j >= Worst)
      <3>1. p5(Worst) <= p5(j) /\ p5(Worst) \in Nat /\ p5(j) \in Nat
        BY <1>1, <2>6
      <3>2. p5(j) = p5(Worst) => j \in lowest
        BY <2>6
      <3>3. j \in Nat /\ Worst \in Nat
        BY <1>1, <2>6
      <3> HIDE DEF p5, lowest
      <3> QED BY <2>6, <3>1, <3>2, <3>3
    <2> QED BY <1>3, <2>6, <2>7 DEF WorstIsWorst
  <1> QED BY <1>2, <1>3

PvTypes ==
  /\ pvPc \in {"start", "probe", "windows", "render", "rendering", "done"}
  /\ twoInputs \in BOOLEAN /\ encodeFailed \in BOOLEAN /\ pvStop \in BOOLEAN
  /\ shorter \in Nat /\ manual \in ManualRanges
  /\ windows \in Seq([start : Nat, len : Nat])
  /\ scored \in Seq([written : BOOLEAN, score : WindowScores \cup {Unscored}])
  /\ pvResult \in {"running", "ok", "error", "canceled"}

\* Nothing is picked or scored too early, and there is a video to pick from.
PhaseInv ==
  /\ pvPc = "start" => ~pvStop
  /\ pvPc \in {"start", "probe"} => windows = <<>> /\ scored = <<>>
  /\ pvPc = "probe" => shorter > 0
  /\ pvResult = "running" <=> pvPc # "done"

\* A window that failed to be encoded is remembered, and what is rendered or written
\* has them all.
EncodedInv ==
  /\ ~encodeFailed /\ ~twoInputs => \A i \in DOMAIN scored : scored[i].written
  /\ pvPc \in {"render", "rendering"} \/ pvResult = "ok" =>
       ~encodeFailed /\ (~twoInputs => Len(scored) = Len(windows))
  /\ pvResult = "ok" => rendered = "whole" /\ pvBar = 100

PvInv == PvTypes /\ PhaseInv /\ EncodedInv /\ WindowsCover /\ StopIsNoFailure

LEMMA PvImplies ==
  ASSUME PvInv
  PROVE  PreviewIsSound
  <1>1. WorstIsWorst
    BY WorstIsLeast DEF PvInv, PvTypes
  <1>2. ASSUME NEW i \in DOMAIN windows
        PROVE  EncodedInput(i).side = "encoded" /\ EncodedInput(i).window = RenderInputs[i].window
    BY DEF EncodedInput, RenderInputs, PvInv, PvTypes
  <1> QED BY <1>1, <1>2 DEF PvInv, PvTypes, EncodedInv, PreviewIsSound, WrittenIsWhole

LEMMA PvStep ==
  ASSUME PvInv, [PvNext]_pvVars
  PROVE  PvInv'
  <1>1. CASE BeginPreview
    <2>1. PICK first \in Durations, second \in Durations : Probed(twoInputs', first, second)
      BY <1>1 DEF BeginPreview
    <2>2. first \in Nat /\ second \in Nat
      BY PreviewAssumption
    <2>3. Min({first, second}) \in {first, second}
      BY <2>2, LeastOf
    <2>4. /\ shorter' \in Nat
          /\ \/ pvPc' = "probe" /\ pvResult' = "running" /\ shorter' > 0
             \/ pvPc' = "done" /\ pvResult' = "error"
      BY <1>1, <2>1, <2>2, <2>3
         DEF BeginPreview, Probed, HasDuration, Ends, PvInv, PvTypes, PhaseInv
    <2>5. /\ pvPc = "start" /\ manual' \in ManualRanges /\ twoInputs' \in BOOLEAN
          /\ UNCHANGED <<windows, scored, encodeFailed, pvBar, pvStop>>
      BY <1>1 DEF BeginPreview
    <2>6. windows = <<>> /\ scored = <<>> /\ ~pvStop
      BY <2>5 DEF PvInv, PhaseInv
    <2>7. PvTypes' /\ PhaseInv' /\ StopIsNoFailure'
      BY <2>4, <2>5, <2>6 DEF PvInv, PvTypes, PhaseInv, StopIsNoFailure
    <2>8. EncodedInv' /\ WindowsCover'
      BY <2>4, <2>5, <2>6 DEF EncodedInv, WindowsCover
    <2> QED BY <2>7, <2>8 DEF PvInv
  <1>2. CASE RequestPvStop
    BY <1>2 DEF RequestPvStop, PvInv, PvTypes, PhaseInv, EncodedInv, WindowsCover,
                StopIsNoFailure
  <1>3. CASE ProbeInputs
    <2>1. /\ pvPc = "probe" /\ windows' = PickWindows
          /\ UNCHANGED <<twoInputs, shorter, manual, scored, encodeFailed, rendered, pvStop>>
          /\ \/ pvPc' = "done" /\ pvResult' = "error" /\ windows' = <<>>
             \/ pvPc' = "done" /\ pvResult' = "canceled" /\ pvStop
             \/ pvPc' = "windows" /\ pvResult' = pvResult
      BY <1>3 DEF ProbeInputs, Ends
    <2>2. /\ scored = <<>> /\ shorter > 0 /\ shorter \in Nat /\ manual \in ManualRanges
          /\ pvResult = "running"
      BY <2>1 DEF PvInv, PvTypes, PhaseInv
    <2>3. windows' \in Seq([start : Nat, len : Nat]) /\ WindowsCover'
      <3>1. shorter \in Nat \ {0}
        BY <2>2
      <3> QED BY <2>1, <2>2, <3>1, PickedCover DEF WindowsCover
    <2> QED BY <2>1, <2>2, <2>3 DEF PvInv, PvTypes, PhaseInv, EncodedInv, StopIsNoFailure
  <1>4. CASE WindowEnds
    <2>1. /\ pvPc = "windows" /\ ~pvStop
          /\ UNCHANGED <<pvPc, twoInputs, shorter, manual, windows, rendered, pvStop, pvResult>>
      BY <1>4 DEF WindowEnds
    <2>2. \E s \in WindowScores \cup {Unscored}, w \in BOOLEAN :
            /\ scored' = Append(scored, [written |-> w, score |-> s])
            /\ \/ w = ~twoInputs /\ encodeFailed' = encodeFailed
               \/ encodeFailed' = TRUE
      BY <1>4 DEF WindowEnds, PvInv, PvTypes
    <2>3. /\ scored' \in Seq([written : BOOLEAN, score : WindowScores \cup {Unscored}])
          /\ encodeFailed' \in BOOLEAN
      <3>1. PICK s \in WindowScores \cup {Unscored}, w \in BOOLEAN :
              scored' = Append(scored, [written |-> w, score |-> s])
        BY <2>2
      <3>2. [written |-> w, score |-> s]
              \in [written : BOOLEAN, score : WindowScores \cup {Unscored}]
        OBVIOUS
      <3>3. scored \in Seq([written : BOOLEAN, score : WindowScores \cup {Unscored}])
        BY DEF PvInv, PvTypes
      <3>4. scored' \in Seq([written : BOOLEAN, score : WindowScores \cup {Unscored}])
        BY <3>1, <3>2, <3>3, SequenceFacts
      <3>5. encodeFailed' \in BOOLEAN
        BY <2>2 DEF PvInv, PvTypes
      <3> QED BY <3>4, <3>5
    <2>4. ~encodeFailed' /\ ~twoInputs => \A i \in DOMAIN scored' : scored'[i].written
      <3> SUFFICES ASSUME ~encodeFailed', ~twoInputs, NEW i \in DOMAIN scored'
                   PROVE  scored'[i].written
        OBVIOUS
      <3>1. PICK s \in WindowScores \cup {Unscored} :
              /\ scored' = Append(scored, [written |-> ~twoInputs, score |-> s])
              /\ ~encodeFailed
        BY <1>4 DEF WindowEnds
      <3>2. scored \in Seq([written : BOOLEAN, score : WindowScores \cup {Unscored}])
        BY DEF PvInv, PvTypes
      <3>3. \A k \in DOMAIN scored : scored[k].written
        BY <3>1 DEF PvInv, EncodedInv
      <3>4. i \in 1..Len(scored) \/ i = Len(scored) + 1
        BY <3>1, <3>2
      <3>5. CASE i \in 1..Len(scored)
        <4>1. scored'[i] = scored[i] /\ i \in DOMAIN scored
          BY <3>1, <3>2, <3>5
        <4> QED BY <3>3, <4>1
      <3>6. CASE i = Len(scored) + 1
        <4>1. scored'[i] = [written |-> ~twoInputs, score |-> s]
          BY <3>1, <3>2, <3>6
        <4>2. scored'[i].written = ~twoInputs
          BY <4>1
        <4> QED BY <4>2
      <3> QED BY <3>4, <3>5, <3>6
    <2>5. pvResult = "running"
      BY <2>1 DEF PvInv, PhaseInv
    <2> QED BY <2>1, <2>3, <2>4, <2>5 DEF PvInv, PvTypes, PhaseInv, EncodedInv, WindowsCover,
                                          StopIsNoFailure
  <1>5. CASE JoinWindows
    <2>1. /\ pvPc = "windows" /\ pvResult = "running"
          /\ UNCHANGED <<twoInputs, shorter, manual, windows, scored, encodeFailed, rendered,
                         pvStop>>
          /\ \/ pvPc' = "done" /\ pvResult' = "canceled" /\ pvStop
             \/ pvPc' = "done" /\ pvResult' = "error" /\ ~pvStop
             \/ /\ pvPc' = "render" /\ pvResult' = pvResult /\ ~encodeFailed
                /\ twoInputs \/ Len(scored) = Len(windows)
      BY <1>5 DEF JoinWindows, StopSeen, Scoring, Ends, PvInv, PvTypes, PhaseInv
    <2> QED BY <2>1 DEF PvInv, PvTypes, PhaseInv, EncodedInv, WindowsCover, StopIsNoFailure
  <1>6. CASE StartRender \/ RenderEnds
    <2>1. /\ pvPc \in {"render", "rendering"} /\ pvResult = "running"
          /\ UNCHANGED <<twoInputs, shorter, manual, windows, scored, encodeFailed, pvStop>>
          /\ \/ pvPc' = "rendering" /\ pvResult' = pvResult
             \/ pvPc' = "done" /\ pvResult' = "ok" /\ rendered' = "whole" /\ pvBar' = 100
             \/ pvPc' = "done" /\ pvResult' = "canceled" /\ pvStop
             \/ pvPc' = "done" /\ pvResult' = "error" /\ ~pvStop
      BY <1>6 DEF StartRender, RenderEnds, RenderOk, Ends, PvInv, PvTypes, PhaseInv
    <2> QED BY <2>1 DEF PvInv, PvTypes, PhaseInv, EncodedInv, WindowsCover, StopIsNoFailure
  <1>7. CASE UNCHANGED pvVars
    BY <1>7 DEF pvVars, PvInv, PvTypes, PhaseInv, EncodedInv, WindowsCover, StopIsNoFailure
  <1> QED BY <1>1, <1>2, <1>3, <1>4, <1>5, <1>6, <1>7 DEF PvNext

\* The windows are spread over the video, what is reported written is whole and of this
\* run, a stop is no failure and the window marked is the worst: for any video, any
\* number and length of windows and any scores.
THEOREM PreviewsAreSound == PvSpec => []PreviewIsSound
  <1>1. ASSUME PvInit
        PROVE  PvInv
    <2>1. /\ windows \in Seq([start : Nat, len : Nat])
          /\ scored \in Seq([written : BOOLEAN, score : WindowScores \cup {Unscored}])
          /\ scored = <<>> /\ windows = <<>>
      BY <1>1 DEF PvInit
    <2>2. twoInputs \in BOOLEAN /\ encodeFailed \in BOOLEAN /\ pvStop \in BOOLEAN
      BY <1>1 DEF PvInit
    <2>3. manual \in ManualRanges
      BY <1>1 DEF PvInit, ManualRanges
    <2> QED BY <1>1, <2>1, <2>2, <2>3
            DEF PvInit, PvInv, PvTypes, PhaseInv, EncodedInv, WindowsCover, StopIsNoFailure
  <1> QED BY <1>1, PvStep, PvImplies, PTL DEF PvSpec


-----------------------------------------------------------------------------
(* WebpSearch: for any sizes, target and qualities *)

WebpSteps == {"start", "search", "running", "ended", "failed", "done"}

\* What the search holds when its child has ended, and when it looks for a next tier.
WebpSearchInv ==
  /\ webpStep \in WebpSteps /\ quality \in Int
  /\ webpStep = "start" => ~webpProgress
  /\ webpStep # "done" => ~webpOk
  /\ webpStep = "running" => webpFile = NoFile
  /\ webpStep \in {"running", "ended", "failed"} => quality >= MinQuality
  /\ webpStep = "ended" =>
       \/ webpFile = NoFile
       \/ webpFile.whole /\ webpFile.size \in Nat /\ webpFile.quality = quality
  /\ webpStep = "search" =>
       \/ quality = FirstQuality
       \/ /\ webpFile.whole /\ webpFile.size \in Nat /\ webpFile.quality \in Int
          /\ MinQuality <= webpFile.quality /\ webpFile.quality <= quality + QualityStep

WebpInv == WebpSearchInv /\ WebpIsHonest

LEMMA WebpStepKeeps == WebpInv /\ [WebpNext]_webpVars => WebpInv'
  <1> SUFFICES ASSUME WebpInv, [WebpNext]_webpVars
               PROVE  WebpInv'
    OBVIOUS
  <1> USE WebpAssumption DEF WebpInv, WebpSearchInv, WebpSteps, WebpIsHonest
  <1>1. CASE StartWebp
    BY <1>1 DEF StartWebp
  <1>2. CASE Attempt
    BY <1>2 DEF Attempt, HasTier, Abort, DropAborted, ClearStale
  <1>3. CASE ChildEncodes
    <2>1. PICK size \in WebpSizes :
            webpFile' = [size |-> size, quality |-> quality, whole |-> TRUE]
      BY <1>3 DEF ChildEncodes
    <2>2. webpFile'.whole /\ webpFile'.size \in Nat /\ webpFile'.quality = quality
      BY <2>1
    <2> QED BY <1>3, <2>2 DEF ChildEncodes
  <1>4. CASE ChildFails
    BY <1>4 DEF ChildFails
  <1>5. CASE ChildWritesNothing
    BY <1>5 DEF ChildWritesNothing
  <1>6. CASE RequestWebpStop
    BY <1>6 DEF RequestWebpStop
  <1>7. CASE JudgeAttempt
    <2>1. CASE Abort
      BY <1>7, <2>1 DEF JudgeAttempt, Abort, DropAborted, ClearStale
    <2>2. CASE ~Abort
      <3>1. webpStep = "ended" /\ webpFile.whole /\ webpFile.size \in Nat /\ webpFile.quality = quality
            /\ quality \in Nat /\ quality >= MinQuality
        BY <1>7, <2>2 DEF JudgeAttempt
      <3>2. webpFile # OldFile
        BY <3>1 DEF OldFile
      <3>3. CASE Succeed /\ webpFile.size < WebpTarget
        BY <3>1, <3>2, <3>3 DEF Succeed
      <3>4. CASE /\ quality' = quality - StepFor(webpFile.size)
                 /\ webpStep' = "search"
                 /\ UNCHANGED <<webpFile, webpProgress, webpStop, webpOk>>
        <4>1. StepFor(webpFile.size) \in Nat /\ StepFor(webpFile.size) <= QualityStep
          BY DEF StepFor
        <4>2. quality' \in Int /\ quality <= quality' + QualityStep
          BY <3>1, <3>4, <4>1
        <4> QED BY <3>1, <3>4, <4>2
      <3> QED BY <1>7, <2>2, <3>3, <3>4 DEF JudgeAttempt
    <2> QED BY <2>1, <2>2
  <1>8. CASE FallBack
    <2>1. webpStep = "search" /\ quality < MinQuality
      BY <1>8 DEF FallBack, HasTier
    <2>2. /\ webpFile.whole /\ webpFile.size \in Nat /\ webpFile.quality \in Int
          /\ MinQuality <= webpFile.quality /\ webpFile.quality <= quality + QualityStep
      BY <2>1
    <2>3. webpFile # OldFile /\ webpFile # NoFile
      BY <2>2 DEF OldFile, NoFile
    <2>4. Succeed
      BY <1>8, <2>3 DEF FallBack
    <2> QED BY <2>1, <2>2, <2>3, <2>4 DEF Succeed
  <1>9. CASE UNCHANGED webpVars
    BY <1>9 DEF webpVars
  <1> QED BY <1>1, <1>2, <1>3, <1>4, <1>5, <1>6, <1>7, <1>8, <1>9 DEF WebpNext

\* An adaptive encode that reports an output has one: whole, of this search, and below the
\* target or of the last tier; one that reports none has left none.
THEOREM SearchesAreHonest == WebpSpec => []WebpIsHonest
  <1>1. WebpInit => WebpInv
    BY DEF WebpInit, WebpInv, WebpSearchInv, WebpSteps, WebpIsHonest
  <1>2. WebpInv => WebpIsHonest
    BY DEF WebpInv
  <1> QED BY <1>1, <1>2, WebpStepKeeps, PTL DEF WebpSpec

-----------------------------------------------------------------------------
(* Picture: for any pictures and clips, and any number of runs *)

PicStages == {"off", "scan", "prompt", "prepare", "compress", "retry", "judge", "purge", "plan",
              "convert", "pack", "over"}

RecordStatuses == {"none", "pending", "running", "interrupted", "failed", "succeeded"}

PicTypes ==
  /\ picStage \in PicStages
  /\ version \in [Pics \cup Clips -> Nat \ {0}]
  /\ cache \in [Pics -> [of : Nat, fits : BOOLEAN]] /\ conv \in [Clips -> Nat]
  /\ work \in [Pics -> {"none", "cached", "todo", "writing", "renaming", "ok", "failed"}]
  /\ clipRec \in [Clips -> [status : RecordStatuses, of : Nat]]
  /\ clipWork \in [Clips -> {"none", "todo", "writing", "renamed", "ok", "failed", "skipped"}]
  /\ DOMAIN packed = Pics \cup Clips

\* A run has not worked before its work begins, and has packed nothing before its end.
BeforeInv ==
  /\ picStage \in {"off", "scan", "prompt", "prepare"} => \A p \in Pics : work[p] = "none"
  /\ picStage \notin {"convert", "pack", "over"} => \A c \in Clips : clipWork[c] = "none"
  /\ archived => picStage \in {"off", "over"}

\* A compressed picture that its source has left behind is known by its time, if that tells.
OutputInv ==
  \A p \in Pics : cache[p] # NoOutput =>
    cache[p].of > 0 /\ (cache[p].of = version[p] \/ p \in touched \/ p \in aged)

\* What the compression has done to each picture.
PictureInv ==
  /\ picStage \in {"prepare", "compress", "retry", "judge"} => compress
  /\ picStage \in {"compress", "retry", "judge", "purge", "plan", "convert", "pack"} =>
       \A p \in Pics :
         /\ work[p] = "cached" => cache[p] # NoOutput /\ p \notin touched
         /\ work[p] = "ok" => cache[p] # NoOutput /\ cache[p].of = version[p]
         /\ compress => work[p] # "none"
         /\ ~compress => work[p] = "none"
  /\ picStage \in {"retry", "purge", "plan", "convert", "pack"}
       \/ (picStage = "judge" /\ ~picStop) => \A p \in Pics : work[p] # "todo"
  /\ picStage \in {"judge", "purge", "plan", "convert", "pack"} => Busy = {}

\* A success on record is of the output there is, or the clip was adopted.
BackedInv ==
  \A c \in Clips :
    clipRec[c].status = "succeeded" /\ conv[c] # 0 => conv[c] = clipRec[c].of \/ c \in adopted

\* What the conversion has done to each clip.
ClipInv ==
  /\ picStage = "plan" => \A c \in Clips : conv[c] # 0 => Backed(c)
  /\ picStage \in {"convert", "pack"} =>
       \A c \in Clips :
         /\ clipWork[c] # "none" /\ clipRec[c].of = version[c]
         /\ clipWork[c] \in {"ok", "skipped"} => clipRec[c].status = "succeeded" /\ conv[c] # 0
         /\ clipWork[c] \in {"renamed", "ok"} => conv[c] = version[c]
         /\ clipWork[c] = "failed" => clipRec[c].status = "failed"
  /\ picStage = "pack" => \A c \in Clips : clipWork[c] \in {"ok", "failed", "skipped"}

PicInv ==
  /\ PicTypes /\ BeforeInv /\ OutputInv /\ PictureInv /\ BackedInv /\ ClipInv
  /\ PictureRunIsSound


LEMMA OnlyAnEndIsJudged ==
  picStage' # "over" => PictureRunIsSound'
  BY DEF PictureRunIsSound, ArchiveIsOfSources, ArchiveIsComplete, CachesSurviveAStop, Ended

\* What a record becomes when a run looks at it.
LEMMA NormalFacts ==
  ASSUME PicTypes, NEW c \in Clips, NEW files \in [Clips -> Nat], NEW rec \in [status : RecordStatuses, of : Nat]
  PROVE  /\ Normal(rec, c, files) \in [status : RecordStatuses, of : Nat]
         /\ Normal(rec, c, files).of = version[c]
         /\ Normal(rec, c, files).status = "succeeded" => rec.of = version[c] /\ files[c] # 0
  <1>1. version[c] \in Nat
    BY DEF PicTypes
  <1>2. CASE rec.of # version[c]
    BY <1>1, <1>2 DEF Normal, RecordStatuses
  <1>3. CASE rec.of = version[c]
    <2>1. \A s \in {"succeeded", "interrupted", "pending"} :
            /\ [rec EXCEPT !.status = s] \in [status : RecordStatuses, of : Nat]
            /\ [rec EXCEPT !.status = s].of = version[c]
            /\ [rec EXCEPT !.status = s].status = s
      BY <1>3 DEF RecordStatuses
    <2> QED BY <1>3, <2>1 DEF Normal
  <1> QED BY <1>2, <1>3

LEMMA PicBegins ==
  ASSUME PicInv, BeginPicRun
  PROVE  PicInv'
  <1>1. /\ picStage' = "scan" /\ ~archived' /\ UNCHANGED <<version, touched, cache, conv, aged>>
        /\ work' = [p \in Pics |-> "none"] /\ clipWork' = [c \in Clips |-> "none"]
        /\ clipRec' = [c \in Clips |-> IF matched' THEN Restored(c) ELSE NoClipRec]
        /\ packed' = [m \in Pics \cup Clips |-> 0]
    BY DEF BeginPicRun, Forget
  <1>2. ASSUME NEW c \in Clips
        PROVE  /\ clipRec'[c] \in [status : RecordStatuses, of : Nat]
               /\ clipRec'[c].status = "succeeded" =>
                    /\ clipRec'[c].of = version[c]
                    /\ clipRec[c].of = version[c] /\ conv[c] # 0
    <2>1. clipRec[c] \in [status : RecordStatuses, of : Nat] /\ conv \in [Clips -> Nat]
      BY DEF PicInv, PicTypes
    <2>2. NoClipRec \in [status : RecordStatuses, of : Nat] /\ NoClipRec.status # "succeeded"
      BY DEF NoClipRec, RecordStatuses
    <2>3. CASE clipRec'[c] = NoClipRec
      BY <2>2, <2>3
    <2>4. CASE clipRec'[c] = Normal(clipRec[c], c, conv)
      BY <2>1, <2>4, NormalFacts DEF PicInv
    <2> QED BY <1>1, <2>3, <2>4 DEF Restored
  <1>3. PicTypes'
    <2>1. clipRec' \in [Clips -> [status : RecordStatuses, of : Nat]]
      BY <1>1, <1>2
    <2> QED BY <1>1, <2>1 DEF PicInv, PicTypes, PicStages
  <1>4. BackedInv'
    <2> SUFFICES ASSUME NEW c \in Clips, clipRec'[c].status = "succeeded", conv[c] # 0
                 PROVE  conv[c] = clipRec'[c].of \/ c \in adopted'
      BY <1>1 DEF BackedInv
    <2>1. adopted' = {d \in Clips : /\ clipRec'[d].status = "succeeded"
                                    /\ clipRec[d].status # "succeeded" \/ d \in adopted
                                    /\ conv[d] # version[d]}
      BY DEF BeginPicRun
    <2>2. CASE clipRec[c].status # "succeeded" \/ c \in adopted
      BY <1>2, <2>1, <2>2
    <2>3. CASE clipRec[c].status = "succeeded" /\ c \notin adopted
      BY <1>2, <2>3 DEF PicInv, BackedInv
    <2> QED BY <2>2, <2>3
  <1>5. BeforeInv' /\ OutputInv' /\ PictureInv' /\ ClipInv'
    BY <1>1 DEF PicInv, BeforeInv, OutputInv, PictureInv, ClipInv
  <1> QED BY <1>1, <1>3, <1>4, <1>5, OnlyAnEndIsJudged DEF PicInv

\* A stop and a crash change nothing that matters to what was done, and neither does
\* the user between two runs, as long as a time tells.
LEMMA OutsideKeeps ==
  ASSUME PicInv, RequestPicStop \/ PicCrash \/ \E m \in Pics \cup Clips : ReplaceSource(m)
  PROVE  PicInv'
  <1>1. CASE RequestPicStop
    <2>1. /\ picStage' = picStage /\ picStage \notin {"off", "over"} /\ picStop'
          /\ UNCHANGED <<compress, version, touched, cache, work, conv, clipRec, clipWork,
                         archived, packed, aged, adopted>>
      BY <1>1 DEF RequestPicStop
    <2>2. PicTypes' /\ BeforeInv' /\ OutputInv' /\ BackedInv'
      BY <2>1 DEF PicInv, PicTypes, BeforeInv, OutputInv, BackedInv
    <2>3. PictureInv' /\ ClipInv'
      BY <2>1 DEF PicInv, PictureInv, ClipInv, Busy, Backed
    <2> QED BY <2>1, <2>2, <2>3, OnlyAnEndIsJudged DEF PicInv
  <1>2. CASE PicCrash
    <2>1. /\ picStage' = "off" /\ picStage # "over"
          /\ work' = [p \in Pics |-> "none"] /\ clipWork' = [c \in Clips |-> "none"]
          /\ UNCHANGED <<version, touched, cache, conv, clipRec, archived, packed, aged, adopted>>
      BY <1>2 DEF PicCrash, Forget
    <2>2. PicTypes' /\ BeforeInv' /\ OutputInv' /\ BackedInv'
      BY <2>1 DEF PicInv, PicTypes, PicStages, BeforeInv, OutputInv, BackedInv
    <2>3. PictureInv' /\ ClipInv'
      BY <2>1 DEF PictureInv, ClipInv
    <2> QED BY <2>1, <2>2, <2>3, OnlyAnEndIsJudged DEF PicInv
  <1>3. ASSUME NEW m \in Pics \cup Clips, ReplaceSource(m)
        PROVE  PicInv'
    <2>1. /\ picStage' = "off"
          /\ work' = [p \in Pics |-> "none"] /\ clipWork' = [c \in Clips |-> "none"]
          /\ version' = [version EXCEPT ![m] = @ + 1]
          /\ UNCHANGED <<cache, conv, clipRec, archived, packed, adopted>>
      BY <1>3 DEF ReplaceSource, Forget
    <2>2. /\ touched \subseteq touched' /\ aged \subseteq aged'
          /\ m \in Pics => m \in touched' \/ m \in aged'
      BY <1>3 DEF ReplaceSource
    <2>3. PicTypes'
      BY <2>1 DEF PicInv, PicTypes, PicStages
    <2>4. OutputInv'
      <3>1. \A p \in Pics : p # m => version'[p] = version[p]
        BY <2>1 DEF PicInv, PicTypes
      <3> QED BY <2>1, <2>2, <3>1 DEF PicInv, OutputInv
    <2>5. BeforeInv' /\ BackedInv' /\ PictureInv' /\ ClipInv'
      BY <2>1 DEF PicInv, BeforeInv, BackedInv, PictureInv, ClipInv
    <2> QED BY <2>1, <2>3, <2>4, <2>5, OnlyAnEndIsJudged DEF PicInv
  <1> QED BY <1>1, <1>2, <1>3


LEMMA PrepareKeeps ==
  ASSUME PicInv, ScanPics \/ PicPrompt \/ Prepare
  PROVE  PicInv'
  <1>1. /\ picStage \in {"scan", "prompt", "prepare"}
        /\ UNCHANGED <<version, touched, clipRec, clipWork, archived, packed, aged, adopted, picStop,
                       compress>>
        /\ \A p \in Pics : work[p] = "none"
        /\ \A c \in Clips : clipWork[c] = "none"
    BY DEF ScanPics, PicPrompt, Prepare, Enter, EndPicRun, PicInv, BeforeInv
  <1>2. CASE ScanPics
    <2>1. /\ picStage' = "prompt" /\ conv' \in [Clips -> Nat]
          /\ \A c \in Clips : conv'[c] # 0 => conv'[c] = conv[c]
          /\ UNCHANGED <<cache, work>>
      BY <1>2 DEF ScanPics, Enter, PicInv, PicTypes
    <2>2. PicTypes' /\ BeforeInv' /\ OutputInv' /\ BackedInv'
      BY <1>1, <2>1 DEF PicInv, PicTypes, PicStages, BeforeInv, OutputInv, BackedInv
    <2>3. PictureInv' /\ ClipInv'
      BY <2>1 DEF PictureInv, ClipInv
    <2> QED BY <2>1, <2>2, <2>3, OnlyAnEndIsJudged DEF PicInv
  <1>3. CASE PicPrompt
    <2>1. /\ picStage' \in {"prepare", "purge", "over"} /\ UNCHANGED <<cache, work, conv>>
          /\ picStage' = "prepare" => compress
          /\ picStage' = "purge" => ~compress
          /\ picStage' = "over" /\ picExit' = Canceled => picStop
      BY <1>3 DEF PicPrompt, Enter, EndPicRun, Succeeded, Canceled, Failure
    <2>2. PicTypes' /\ OutputInv' /\ BackedInv'
      BY <1>1, <2>1 DEF PicInv, PicTypes, PicStages, OutputInv, BackedInv
    <2>3. BeforeInv' /\ ~archived
      BY <1>1, <2>1 DEF PicInv, BeforeInv
    <2>4. PictureInv' /\ ClipInv'
      BY <1>1, <2>1 DEF PictureInv, ClipInv, Busy
    <2>5. PictureRunIsSound'
      BY <1>1, <2>1, <2>3 DEF PictureRunIsSound, ArchiveIsOfSources, ArchiveIsComplete,
                              CachesSurviveAStop, Packable
    <2> QED BY <2>2, <2>3, <2>4, <2>5 DEF PicInv
  <1>4. CASE Prepare
    <2>1. /\ picStage = "prepare" /\ picStage' \in {"compress", "purge"} /\ conv' = conv
          /\ cache' = cache \/ cache' = [p \in Pics |-> NoOutput]
          /\ work' = [p \in Pics |-> IF Reusable(p) THEN "cached" ELSE "todo"]
          /\ picStage' = "purge" => \A p \in Pics : work'[p] # "todo"
      BY <1>4 DEF Prepare, Enter
    <2>2. \A p \in Pics : /\ work'[p] \in {"cached", "todo"}
                          /\ work'[p] = "cached" => cache'[p] # NoOutput /\ p \notin touched
      BY <2>1 DEF Reusable
    <2>3. cache' \in [Pics -> [of : Nat, fits : BOOLEAN]]
      <3>1. NoOutput \in [of : Nat, fits : BOOLEAN]
        BY DEF NoOutput
      <3> QED BY <2>1, <3>1 DEF PicInv, PicTypes
    <2>4. PicTypes'
      BY <1>1, <2>1, <2>3 DEF PicInv, PicTypes, PicStages
    <2>5. OutputInv' /\ BackedInv'
      BY <1>1, <2>1 DEF PicInv, OutputInv, BackedInv
    <2>6. BeforeInv' /\ ClipInv'
      BY <1>1, <2>1 DEF PicInv, BeforeInv, ClipInv
    <2>7. PictureInv'
      <3>1. compress'
        BY <1>1, <2>1 DEF PicInv, PictureInv
      <3> QED BY <1>1, <2>1, <2>2, <3>1 DEF PictureInv, Busy
    <2> QED BY <2>1, <2>4, <2>5, <2>6, <2>7, OnlyAnEndIsJudged DEF PicInv
  <1> QED BY <1>2, <1>3, <1>4

\* A step of the pool on one picture.
LEMMA PictureStepKeeps ==
  ASSUME PicInv, NEW p \in Pics,
         StartCompress(p) \/ CompressFails(p) \/ RemoveOld(p) \/ RenameOutput(p)
  PROVE  PicInv'
  <1>1. /\ picStage \in {"compress", "retry"} /\ picStage' = picStage
        /\ UNCHANGED <<version, clipRec, clipWork, conv, archived, packed, aged, adopted, picStop,
                       compress>>
    BY DEF StartCompress, CompressFails, RemoveOld, RenameOutput, Enter
  <1>2. /\ \E s \in {"writing", "failed", "renaming", "ok"} :
             work' = [work EXCEPT ![p] = s] /\ (s = "ok" => \E fits \in BOOLEAN :
               cache' = [cache EXCEPT ![p] = [of |-> version[p], fits |-> fits]])
        /\ work[p] \in {"todo", "failed", "writing", "renaming"}
        /\ \/ cache' = cache
           \/ cache' = [cache EXCEPT ![p] = NoOutput]
           \/ \E fits \in BOOLEAN :
                cache' = [cache EXCEPT ![p] = [of |-> version[p], fits |-> fits]]
        /\ \/ touched' = touched
           \/ /\ touched' = touched \ {p}
              /\ \E fits \in BOOLEAN :
                   cache' = [cache EXCEPT ![p] = [of |-> version[p], fits |-> fits]]
    BY DEF StartCompress, CompressFails, RemoveOld, RenameOutput, Enter
  <1>3. version[p] \in Nat \ {0} /\ version[p] # 0
    BY DEF PicInv, PicTypes
  <1>4. \A fits \in BOOLEAN : /\ [of |-> version[p], fits |-> fits] \in [of : Nat, fits : BOOLEAN]
                              /\ [of |-> version[p], fits |-> fits] # NoOutput
                              /\ [of |-> version[p], fits |-> fits].of = version[p]
    <2> SUFFICES ASSUME NEW fits \in BOOLEAN
                 PROVE  /\ [of |-> version[p], fits |-> fits] \in [of : Nat, fits : BOOLEAN]
                        /\ [of |-> version[p], fits |-> fits] # NoOutput
                        /\ [of |-> version[p], fits |-> fits].of = version[p]
      OBVIOUS
    <2>1. NoOutput.of = 0
      BY DEF NoOutput
    <2> QED BY <1>3, <2>1
  <1>5. NoOutput \in [of : Nat, fits : BOOLEAN]
    BY DEF NoOutput
  <1>6. PicTypes'
    <2>1. cache' \in [Pics -> [of : Nat, fits : BOOLEAN]]
      BY <1>2, <1>4, <1>5 DEF PicInv, PicTypes
    <2>2. work' \in [Pics -> {"none", "cached", "todo", "writing", "renaming", "ok", "failed"}]
      BY <1>2 DEF PicInv, PicTypes
    <2> QED BY <1>1, <2>1, <2>2 DEF PicInv, PicTypes
  <1>7. \A q \in Pics : q # p => cache'[q] = cache[q] /\ work'[q] = work[q]
                                 /\ (q \in touched' <=> q \in touched)
    BY <1>2 DEF PicInv, PicTypes
  <1>8. \/ cache'[p] = cache[p] /\ touched' = touched
        \/ cache'[p] = NoOutput /\ touched' = touched
        \/ cache'[p] # NoOutput /\ cache'[p].of = version[p]
    BY <1>2, <1>4 DEF PicInv, PicTypes
  <1>9. /\ work'[p] \in {"writing", "failed", "renaming", "ok"}
        /\ work'[p] = "ok" => cache'[p] # NoOutput /\ cache'[p].of = version[p]
    BY <1>2, <1>4 DEF PicInv, PicTypes
  <1>10. BeforeInv' /\ BackedInv' /\ ClipInv'
    BY <1>1 DEF PicInv, BeforeInv, BackedInv, ClipInv
  <1>11. OutputInv'
    <2> SUFFICES ASSUME NEW q \in Pics, cache'[q] # NoOutput
                 PROVE  cache'[q].of > 0 /\ (cache'[q].of = version[q] \/ q \in touched' \/ q \in aged)
      BY <1>1 DEF OutputInv
    <2>1. CASE q # p
      BY <1>7, <2>1 DEF PicInv, OutputInv
    <2>2. CASE q = p
      BY <1>3, <1>8, <2>2 DEF PicInv, OutputInv
    <2> QED BY <2>1, <2>2
  <1>12. PictureInv'
    <2>1. compress
      BY <1>1 DEF PicInv, PictureInv
    <2>2. \A q \in Pics :
            /\ work'[q] = "cached" => cache'[q] # NoOutput /\ q \notin touched'
            /\ work'[q] = "ok" => cache'[q] # NoOutput /\ cache'[q].of = version[q]
            /\ work'[q] # "none"
            /\ picStage = "retry" => work'[q] # "todo"
      <3> SUFFICES ASSUME NEW q \in Pics
                   PROVE  /\ work'[q] = "cached" => cache'[q] # NoOutput /\ q \notin touched'
                          /\ work'[q] = "ok" => cache'[q] # NoOutput /\ cache'[q].of = version[q]
                          /\ work'[q] # "none"
                          /\ picStage = "retry" => work'[q] # "todo"
        OBVIOUS
      <3>1. CASE q # p
        <4>1. /\ work[q] = "cached" => cache[q] # NoOutput /\ q \notin touched
              /\ work[q] = "ok" => cache[q] # NoOutput /\ cache[q].of = version[q]
              /\ work[q] # "none"
          BY <1>1, <2>1 DEF PicInv, PictureInv
        <4>2. picStage = "retry" => work[q] # "todo"
          BY DEF PicInv, PictureInv
        <4> QED BY <1>7, <3>1, <4>1, <4>2
      <3>2. CASE q = p
        BY <1>9, <3>2
      <3> QED BY <3>1, <3>2
    <2> QED BY <1>1, <2>1, <2>2 DEF PictureInv
  <1> QED BY <1>1, <1>6, <1>10, <1>11, <1>12, OnlyAnEndIsJudged DEF PicInv

\* The ends of the two passes, and the verdict.
LEMMA CompressionEnds ==
  ASSUME PicInv, CompressStageEnds \/ RetryEnds \/ JudgeCompression
  PROVE  PicInv'
  <1>1. /\ picStage \in {"compress", "retry", "judge"} /\ compress
        /\ UNCHANGED <<version, touched, work, clipRec, clipWork, conv, archived, packed, aged,
                       adopted, picStop, compress>>
        /\ \A c \in Clips : clipWork[c] = "none"
        /\ ~archived
    BY DEF CompressStageEnds, RetryEnds, JudgeCompression, Enter, EndPicRun, PicInv, BeforeInv,
           PictureInv
  <1>2. CASE CompressStageEnds \/ RetryEnds
    <2>1. /\ picStage' \in {"retry", "judge"} /\ cache' = cache
          /\ picStage' = "judge" => Busy = {}
          /\ picStage' = "retry" \/ ~picStop => \A p \in Pics : work[p] # "todo"
      <3>1. CASE CompressStageEnds
        BY <3>1 DEF CompressStageEnds, Enter
      <3>2. CASE RetryEnds
        <4>1. \A p \in Pics : work[p] # "todo"
          BY <3>2 DEF RetryEnds, PicInv, PictureInv
        <4> QED BY <3>2, <4>1 DEF RetryEnds, Enter
      <3> QED BY <1>2, <3>1, <3>2
    <2>2. PicTypes' /\ OutputInv' /\ BackedInv'
      BY <1>1, <2>1 DEF PicInv, PicTypes, PicStages, OutputInv, BackedInv
    <2>3. BeforeInv' /\ ClipInv'
      BY <1>1, <2>1 DEF PicInv, BeforeInv, ClipInv
    <2>4. PictureInv'
      BY <1>1, <2>1 DEF PicInv, PictureInv, Busy
    <2> QED BY <2>1, <2>2, <2>3, <2>4, OnlyAnEndIsJudged DEF PicInv
  <1>3. CASE JudgeCompression
    <2>1. /\ picStage = "judge"
          /\ \/ picStop /\ cache' = cache /\ picStage' = "over" /\ picExit' = Canceled
             \/ ~picStop /\ cache' = cache /\ picStage' = "purge"
             \/ /\ ~picStop /\ cache' = [p \in Pics |-> NoOutput]
                /\ picStage' = "over" /\ picExit' = Failure
      BY <1>3 DEF JudgeCompression, Enter, EndPicRun
    <2>2. PicTypes'
      <3>1. NoOutput \in [of : Nat, fits : BOOLEAN]
        BY DEF NoOutput
      <3> QED BY <1>1, <2>1, <3>1 DEF PicInv, PicTypes, PicStages
    <2>3. OutputInv' /\ BackedInv' /\ BeforeInv' /\ ClipInv'
      BY <1>1, <2>1 DEF PicInv, OutputInv, BackedInv, BeforeInv, ClipInv
    <2>4. PictureInv'
      BY <1>1, <2>1 DEF PicInv, PictureInv, Busy
    <2>5. PictureRunIsSound'
      <3>1. CASE picStage' = "over" /\ picExit' = Canceled
        <4>1. \A p \in Pics : work[p] \in {"ok", "cached"} => cache[p].of # 0
          BY <2>1 DEF PicInv, PictureInv, OutputInv, PicTypes
        <4>2. cache' = cache
          BY <2>1, <3>1 DEF Canceled, Failure
        <4> QED BY <1>1, <3>1, <4>1, <4>2
                DEF PictureRunIsSound, ArchiveIsOfSources, ArchiveIsComplete, CachesSurviveAStop,
                    Packable
      <3>2. CASE ~(picStage' = "over" /\ picExit' = Canceled)
        BY <1>1, <3>2 DEF PictureRunIsSound, ArchiveIsOfSources, ArchiveIsComplete,
                          CachesSurviveAStop, Ended
      <3> QED BY <3>1, <3>2
    <2> QED BY <2>2, <2>3, <2>4, <2>5 DEF PicInv
  <1> QED BY <1>2, <1>3


LEMMA PlanKeeps ==
  ASSUME PicInv, PurgeOutputs \/ PlanConversions
  PROVE  PicInv'
  <1>1. /\ picStage \in {"purge", "plan"} /\ picStage' \in {"plan", "convert", "pack"}
        /\ UNCHANGED <<version, touched, cache, work, archived, packed, aged, adopted, picStop,
                       compress>>
        /\ ~archived /\ \A c \in Clips : clipWork[c] = "none"
    BY DEF PurgeOutputs, PlanConversions, Enter, PicInv, BeforeInv
  <1>2. OutputInv'
    BY <1>1 DEF PicInv, OutputInv
  <1>3. PictureInv'
    BY <1>1 DEF PicInv, PictureInv, Busy
  <1>4. CASE PurgeOutputs
    <2>1. /\ picStage' = "plan" /\ conv' = [c \in Clips |-> Purged(c)]
          /\ UNCHANGED <<clipRec, clipWork>>
      BY <1>4 DEF PurgeOutputs, Enter
    <2>2. \A c \in Clips : conv'[c] # 0 => Backed(c) /\ conv'[c] = conv[c]
      BY <2>1 DEF Purged
    <2>3. PicTypes'
      <3>1. conv' \in [Clips -> Nat]
        BY <2>1 DEF Purged, PicInv, PicTypes
      <3> QED BY <1>1, <2>1, <3>1 DEF PicInv, PicTypes, PicStages
    <2>4. BeforeInv' /\ BackedInv' /\ ClipInv'
      BY <1>1, <2>1, <2>2 DEF PicInv, BeforeInv, BackedInv, ClipInv, Backed
    <2> QED BY <1>2, <1>3, <2>1, <2>3, <2>4, OnlyAnEndIsJudged DEF PicInv
  <1>5. CASE PlanConversions
    <2>1. /\ picStage = "plan" /\ conv' = conv
          /\ clipRec' = [c \in Clips |-> IF clipRec[c].status = "none"
                                           THEN [status |-> "pending", of |-> version[c]]
                                           ELSE Normal(clipRec[c], c, conv)]
          /\ clipWork' = [c \in Clips |-> IF clipRec'[c].status = "succeeded"
                                            THEN "skipped" ELSE "todo"]
          /\ picStage' = IF \E c \in Clips : clipWork'[c] = "todo" THEN "convert" ELSE "pack"
      BY <1>5 DEF PlanConversions, Enter
    <2>2. ASSUME NEW c \in Clips
          PROVE  /\ clipRec'[c] \in [status : RecordStatuses, of : Nat] /\ clipRec'[c].of = version[c]
                 /\ clipRec'[c].status = "succeeded" => conv[c] # 0
      <3>1. clipRec[c] \in [status : RecordStatuses, of : Nat] /\ conv \in [Clips -> Nat]
            /\ version[c] \in Nat
        BY DEF PicInv, PicTypes
      <3>2. CASE clipRec[c].status = "none"
        BY <2>1, <3>1, <3>2 DEF RecordStatuses
      <3>3. CASE clipRec[c].status # "none"
        <4>1. clipRec'[c] = Normal(clipRec[c], c, conv)
          BY <2>1, <3>3
        <4> QED BY <3>1, <4>1, NormalFacts DEF PicInv
      <3> QED BY <3>2, <3>3
    <2>3. \A c \in Clips : clipWork'[c] \in {"todo", "skipped"}
                           /\ (clipWork'[c] = "skipped" => clipRec'[c].status = "succeeded")
      BY <2>1
    <2>4. PicTypes'
      <3>1. clipRec' \in [Clips -> [status : RecordStatuses, of : Nat]]
        BY <2>1, <2>2
      <3>2. clipWork' \in [Clips -> {"none", "todo", "writing", "renamed", "ok", "failed", "skipped"}]
        BY <2>1
      <3> QED BY <1>1, <2>1, <3>1, <3>2 DEF PicInv, PicTypes, PicStages
    <2>5. BeforeInv'
      BY <1>1, <2>1 DEF BeforeInv
    <2>6. BackedInv'
      <3> SUFFICES ASSUME NEW c \in Clips, clipRec'[c].status = "succeeded", conv[c] # 0
                   PROVE  conv[c] = clipRec'[c].of \/ c \in adopted
        BY <1>1, <2>1 DEF BackedInv
      <3>1. clipRec[c] = [status |-> "succeeded", of |-> version[c]]
        BY <2>1 DEF PicInv, ClipInv, Backed
      <3> QED BY <2>2, <3>1 DEF PicInv, BackedInv
    <2>7. ClipInv'
      BY <1>1, <2>1, <2>2, <2>3 DEF ClipInv
    <2> QED BY <1>1, <1>2, <1>3, <2>4, <2>5, <2>6, <2>7, OnlyAnEndIsJudged DEF PicInv
  <1> QED BY <1>4, <1>5

\* A step of the pool on one clip.
LEMMA ClipStepKeeps ==
  ASSUME PicInv, NEW c \in Clips, StartClip(c) \/ FinalizeClip(c) \/ MarkClip(c) \/ ClipFails(c)
  PROVE  PicInv'
  <1>1. /\ picStage = "convert" /\ picStage' = "convert"
        /\ UNCHANGED <<version, touched, cache, work, archived, packed, aged, adopted, picStop,
                       compress>>
    BY DEF StartClip, FinalizeClip, MarkClip, ClipFails, ClipStep, Enter
  <1>2. \/ ClipStep(c, "todo", "writing", "running") /\ conv' = conv
        \/ ClipStep(c, "writing", "renamed", "running") /\ conv' = [conv EXCEPT ![c] = version[c]]
        \/ ClipStep(c, "renamed", "ok", "succeeded") /\ conv' = conv
        \/ ClipStep(c, "writing", "failed", "failed") /\ conv' = conv
    BY DEF StartClip, FinalizeClip, MarkClip, ClipFails
  <1>3. /\ version[c] \in Nat /\ version[c] # 0 /\ conv \in [Clips -> Nat]
        /\ clipRec \in [Clips -> [status : RecordStatuses, of : Nat]]
        /\ clipRec[c].of = version[c]
        /\ clipWork \in [Clips -> {"none", "todo", "writing", "renamed", "ok", "failed", "skipped"}]
        /\ clipWork[c] = "renamed" => conv[c] = version[c]
    BY <1>1 DEF PicInv, PicTypes, ClipInv
  <1>4. \A d \in Clips : d # c => /\ clipWork'[d] = clipWork[d] /\ clipRec'[d] = clipRec[d]
                                  /\ conv'[d] = conv[d]
    BY <1>2, <1>3 DEF ClipStep
  <1>5. /\ clipRec'[c].of = version[c]
        /\ clipWork'[c] \in {"writing", "renamed", "ok", "failed"}
        /\ clipWork'[c] \in {"renamed", "ok"} => conv'[c] = version[c]
        /\ clipWork'[c] = "ok" <=> clipRec'[c].status = "succeeded"
        /\ clipWork'[c] = "failed" => clipRec'[c].status = "failed"
    BY <1>2, <1>3 DEF ClipStep
  <1>6. PicTypes'
    <2>1. clipRec' \in [Clips -> [status : RecordStatuses, of : Nat]]
      <3>1. \E s \in {"running", "succeeded", "failed"} :
              clipRec' = [clipRec EXCEPT ![c].status = s]
        BY <1>2 DEF ClipStep
      <3>2. PICK s \in RecordStatuses : clipRec' = [clipRec EXCEPT ![c].status = s]
        BY <3>1 DEF RecordStatuses
      <3> QED BY <1>3, <3>2
    <2>2. clipWork' \in [Clips -> {"none", "todo", "writing", "renamed", "ok", "failed", "skipped"}]
      BY <1>2, <1>3 DEF ClipStep
    <2>3. conv' \in [Clips -> Nat]
      BY <1>2, <1>3
    <2> QED BY <1>1, <2>1, <2>2, <2>3 DEF PicInv, PicTypes
  <1>7. BeforeInv' /\ OutputInv'
    BY <1>1 DEF PicInv, BeforeInv, OutputInv
  <1>8. PictureInv'
    BY <1>1 DEF PicInv, PictureInv, Busy
  <1>9. BackedInv'
    <2> SUFFICES ASSUME NEW d \in Clips, clipRec'[d].status = "succeeded", conv'[d] # 0
                 PROVE  conv'[d] = clipRec'[d].of \/ d \in adopted
      BY <1>1 DEF BackedInv
    <2>1. CASE d = c
      BY <1>5, <2>1
    <2>2. CASE d # c
      BY <1>4, <2>2 DEF PicInv, BackedInv
    <2> QED BY <2>1, <2>2
  <1>10. ClipInv'
    <2> SUFFICES ASSUME NEW d \in Clips
                 PROVE  /\ clipWork'[d] # "none" /\ clipRec'[d].of = version[d]
                        /\ clipWork'[d] \in {"ok", "skipped"} =>
                             clipRec'[d].status = "succeeded" /\ conv'[d] # 0
                        /\ clipWork'[d] \in {"renamed", "ok"} => conv'[d] = version[d]
                        /\ clipWork'[d] = "failed" => clipRec'[d].status = "failed"
      BY <1>1 DEF ClipInv
    <2>1. CASE d = c
      BY <1>3, <1>5, <2>1
    <2>2. CASE d # c
      BY <1>1, <1>4, <2>2 DEF PicInv, ClipInv
    <2> QED BY <2>1, <2>2
  <1> QED BY <1>1, <1>6, <1>7, <1>8, <1>9, <1>10, OnlyAnEndIsJudged DEF PicInv


\* Whatever is packed, left out or kept at the end is what the records say.
LEMMA ConversionEnds ==
  ASSUME PicInv, ConvertEnds
  PROVE  PicInv'
  <1>1. /\ picStage = "convert"
        /\ UNCHANGED <<version, touched, cache, work, conv, clipWork, archived, packed, aged,
                       adopted, picStop, compress>>
        /\ \A c \in Clips : clipWork[c] \notin {"writing", "renamed"}
        /\ ~archived
        /\ \/ /\ clipRec' = [c \in Clips |-> Interrupt(c)]
              /\ picStage' = "over" /\ picExit' = Canceled
           \/ /\ clipRec' = clipRec /\ \A c \in Clips : clipWork[c] # "todo"
              /\ picStage' = "pack" \/ (picStage' = "over" /\ picExit' = Failure)
    BY DEF ConvertEnds, Enter, EndPicRun, PicInv, BeforeInv
  <1>2. ASSUME NEW c \in Clips
        PROVE  /\ clipRec'[c] \in [status : RecordStatuses, of : Nat]
               /\ clipRec'[c].of = clipRec[c].of
               /\ clipRec'[c].status = "succeeded" <=> clipRec[c].status = "succeeded"
    <2>1. clipRec[c] \in [status : RecordStatuses, of : Nat]
      BY DEF PicInv, PicTypes
    <2>2. CASE clipRec'[c] = clipRec[c]
      BY <2>1, <2>2
    <2>3. CASE clipRec'[c] = Interrupt(c)
      BY <2>1, <2>3 DEF Interrupt, RecordStatuses
    <2> QED BY <1>1, <2>2, <2>3
  <1>3. PicTypes'
    <2>1. clipRec' \in [Clips -> [status : RecordStatuses, of : Nat]]
      <3>1. clipRec \in [Clips -> [status : RecordStatuses, of : Nat]]
        BY DEF PicInv, PicTypes
      <3>2. clipRec' = [c \in Clips |-> clipRec'[c]]
        BY <1>1, <3>1
      <3> QED BY <1>2, <3>2
    <2> QED BY <1>1, <2>1 DEF PicInv, PicTypes, PicStages
  <1>4. BeforeInv' /\ OutputInv' /\ BackedInv'
    BY <1>1, <1>2 DEF PicInv, BeforeInv, OutputInv, BackedInv
  <1>5. PictureInv'
    BY <1>1 DEF PicInv, PictureInv, Busy
  <1>6. ClipInv'
    <2>1. CASE picStage' = "over"
      BY <2>1 DEF ClipInv
    <2>2. CASE picStage' = "pack"
      <3>1. clipRec' = clipRec /\ \A c \in Clips : clipWork[c] # "todo"
        BY <1>1, <2>2
      <3>2. \A c \in Clips :
              /\ clipWork[c] # "none" /\ clipRec[c].of = version[c]
              /\ clipWork[c] \in {"ok", "skipped"} => clipRec[c].status = "succeeded" /\ conv[c] # 0
              /\ clipWork[c] \in {"renamed", "ok"} => conv[c] = version[c]
              /\ clipWork[c] = "failed" => clipRec[c].status = "failed"
        BY <1>1 DEF PicInv, ClipInv
      <3>3. \A c \in Clips : clipWork[c] \in {"ok", "failed", "skipped"}
        BY <1>1, <3>1, <3>2 DEF PicInv, PicTypes
      <3> QED BY <1>1, <2>2, <3>1, <3>2, <3>3 DEF ClipInv
    <2> QED BY <1>1, <2>1, <2>2
  <1>7. PictureRunIsSound'
    <2>1. ~archived'
      BY <1>1
    <2>2. CASE picStage' = "over" /\ picExit' = Canceled
      <3>1. clipRec' = [c \in Clips |-> Interrupt(c)]
        BY <1>1, <2>2 DEF Canceled, Failure
      <3>2. \A p \in Pics : work[p] \in {"ok", "cached"} => cache[p].of # 0
        BY <1>1 DEF PicInv, PictureInv, OutputInv, PicTypes
      <3>3. ASSUME NEW c \in Clips
            PROVE  /\ Packable(c) => conv[c] # 0 /\ Backed(c)'
                   /\ clipRec'[c].status \notin {"pending", "running"}
        <4>1. /\ clipRec[c] \in [status : RecordStatuses, of : Nat] /\ clipRec[c].of = version[c]
              /\ clipWork[c] \in {"ok", "skipped"} => clipRec[c].status = "succeeded" /\ conv[c] # 0
          BY <1>1 DEF PicInv, PicTypes, ClipInv
        <4>2. clipRec'[c] = Interrupt(c)
          BY <3>1
        <4>3. clipRec'[c].status \notin {"pending", "running"}
          BY <4>1, <4>2 DEF Interrupt
        <4>4. Packable(c) => conv[c] # 0 /\ clipRec[c].status = "succeeded"
          BY <4>1 DEF Packable
        <4>5. clipRec[c].status = "succeeded" => clipRec'[c] = [status |-> "succeeded", of |-> version[c]]
          BY <4>1, <4>2 DEF Interrupt
        <4> QED BY <1>1, <4>3, <4>4, <4>5 DEF Backed
      <3>4. CachesSurviveAStop'
        BY <1>1, <3>2, <3>3 DEF CachesSurviveAStop, Packable
      <3> QED BY <2>1, <3>4 DEF PictureRunIsSound, ArchiveIsOfSources, ArchiveIsComplete
    <2>3. CASE ~(picStage' = "over" /\ picExit' = Canceled)
      BY <2>1, <2>3 DEF PictureRunIsSound, ArchiveIsOfSources, ArchiveIsComplete,
                        CachesSurviveAStop, Ended
    <2> QED BY <2>2, <2>3
  <1> QED BY <1>3, <1>4, <1>5, <1>6, <1>7 DEF PicInv

LEMMA PackKeeps ==
  ASSUME PicInv, PackPics
  PROVE  PicInv'
  <1>1. /\ picStage = "pack" /\ picStage' = "over" /\ cache' = AfterPack
        /\ UNCHANGED <<version, touched, work, clipRec, clipWork, aged, adopted, picStop, compress>>
        /\ \/ /\ packed' = Inputs /\ conv' = [c \in Clips |-> 0] /\ picExit' = Succeeded
           \/ UNCHANGED <<conv, archived, packed>> /\ picExit' = Failure
           \/ picStop /\ UNCHANGED <<conv, archived, packed>> /\ picExit' = Canceled
        /\ ~archived
    BY DEF PackPics, EndPicRun, PicInv, BeforeInv
  <1>2. Succeeded # Canceled /\ Succeeded # Failure /\ Canceled # Failure
    BY DEF Succeeded, Canceled, Failure
  <1>3. PicTypes'
    <2>1. cache' \in [Pics -> [of : Nat, fits : BOOLEAN]]
      <3>1. NoOutput \in [of : Nat, fits : BOOLEAN]
        BY DEF NoOutput
      <3> QED BY <1>1, <3>1 DEF AfterPack, PicInv, PicTypes
    <2>2. DOMAIN packed' = Pics \cup Clips
      BY <1>1 DEF Inputs, PicInv, PicTypes
    <2> QED BY <1>1, <2>1, <2>2 DEF PicInv, PicTypes, PicStages
  <1>4. BeforeInv' /\ PictureInv' /\ ClipInv'
    BY <1>1 DEF PicInv, BeforeInv, PictureInv, ClipInv
  <1>5. OutputInv' /\ BackedInv'
    BY <1>1 DEF PicInv, OutputInv, BackedInv, AfterPack
  <1>6. ASSUME NEW c \in Clips
        PROVE  /\ clipWork[c] \in {"ok", "failed", "skipped"}
               /\ clipRec[c].status \in {"succeeded", "failed"}
               /\ Packable(c) => conv[c] # 0 /\ Backed(c) /\ (conv[c] = version[c] \/ c \in adopted)
    <2>1. /\ clipRec[c] \in [status : RecordStatuses, of : Nat] /\ clipRec[c].of = version[c]
          /\ clipWork[c] \in {"ok", "skipped"} => clipRec[c].status = "succeeded" /\ conv[c] # 0
          /\ clipWork[c] = "failed" => clipRec[c].status = "failed"
          /\ clipWork[c] \in {"ok", "failed", "skipped"}
      BY <1>1 DEF PicInv, PicTypes, ClipInv
    <2>2. clipRec[c].status = "succeeded" => clipRec[c] = [status |-> "succeeded", of |-> version[c]]
      BY <2>1
    <2> QED BY <2>1, <2>2 DEF Packable, Backed, PicInv, BackedInv
  <1>7. ASSUME NEW p \in Pics
        PROVE  /\ work[p] \in {"ok", "cached"} => cache[p].of # 0
               /\ Resolved(p) \in {0, version[p]} \/ p \in aged \/ work[p] = "failed"
               /\ Resolved(p) = 0 => work[p] = "failed"
    <2>1. /\ version[p] # 0
          /\ work[p] \in {"none", "cached", "todo", "writing", "renaming", "ok", "failed"}
          /\ work[p] # "todo" /\ work[p] \notin {"writing", "renaming"}
          /\ work[p] = "cached" => cache[p] # NoOutput /\ p \notin touched
          /\ work[p] = "ok" => cache[p] # NoOutput /\ cache[p].of = version[p]
          /\ compress => work[p] # "none"
      BY <1>1 DEF PicInv, PicTypes, PictureInv, Busy
    <2>2. cache[p] # NoOutput =>
            cache[p].of # 0 /\ (cache[p].of = version[p] \/ p \in touched \/ p \in aged)
      BY DEF PicInv, OutputInv, PicTypes
    <2> QED BY <2>1, <2>2 DEF Resolved
  <1>8. PictureRunIsSound'
    <2>1. CASE picExit' = Succeeded
      <3>1. packed' = Inputs
        BY <1>1, <1>2, <2>1
      <3>2. \A p \in Pics : packed'[p] = Resolved(p)
        BY <3>1 DEF Inputs
      <3>3. \A c \in Clips : c \notin Pics => packed'[c] = IF Packable(c) THEN conv[c] ELSE 0
        BY <3>1 DEF Inputs
      <3>4. \A c \in Clips : /\ packed'[c] \in {0, version[c]} \/ c \in adopted
                             /\ packed'[c] = 0 => clipWork[c] = "failed"
        BY <1>6, <3>3, PicturesAreNoClips DEF Packable
      <3> QED BY <1>1, <1>2, <1>7, <2>1, <3>2, <3>4
              DEF PictureRunIsSound, ArchiveIsOfSources, ArchiveIsComplete, CachesSurviveAStop, Ended
    <2>2. CASE picExit' = Canceled
      <3>1. /\ picStop /\ conv' = conv /\ ~archived' /\ cache' = cache
        BY <1>1, <1>2, <2>2 DEF AfterPack
      <3>2. CachesSurviveAStop'
        BY <1>1, <1>6, <1>7, <3>1 DEF CachesSurviveAStop, Packable, Backed
      <3> QED BY <3>1, <3>2 DEF PictureRunIsSound, ArchiveIsOfSources, ArchiveIsComplete
    <2>3. CASE picExit' = Failure
      BY <1>2, <2>3 DEF PictureRunIsSound, ArchiveIsOfSources, ArchiveIsComplete,
                        CachesSurviveAStop, Ended
    <2> QED BY <1>1, <2>1, <2>2, <2>3
  <1> QED BY <1>3, <1>4, <1>5, <1>8 DEF PicInv

LEMMA PicStep == PicInv /\ [PicNext]_picVars => PicInv'
  <1>1. CASE PicInv /\ UNCHANGED picVars
    BY <1>1 DEF picVars, PicInv, PicTypes, BeforeInv, OutputInv, PictureInv, BackedInv, ClipInv,
                PictureRunIsSound, ArchiveIsOfSources, ArchiveIsComplete, CachesSurviveAStop,
                Ended, Busy, Backed, Packable
  <1> QED BY <1>1, PicBegins, OutsideKeeps, PrepareKeeps, PictureStepKeeps, CompressionEnds,
             PlanKeeps, ClipStepKeeps, ConversionEnds, PackKeeps DEF PicNext

\* Over any runs, stops, crashes and replaced sources, what a picture run packs, leaves
\* out and keeps is sound; and so is what the search behind a conversion reports.
THEOREM ConversionsStaySound == PicSpec /\ WebpSpec => []ConversionsAreSound
  <1>1. PicInit => PicInv
    <2> SUFFICES ASSUME PicInit
                 PROVE  PicInv
      OBVIOUS
    <2>1. /\ picStage = "off" /\ ~archived
          /\ cache = [p \in Pics |-> NoOutput] /\ work = [p \in Pics |-> "none"]
          /\ clipRec = [c \in Clips |-> NoClipRec] /\ clipWork = [c \in Clips |-> "none"]
      BY DEF PicInit
    <2>2. PicTypes
      <3>1. NoOutput \in [of : Nat, fits : BOOLEAN] /\ NoClipRec \in [status : RecordStatuses, of : Nat]
        BY DEF NoOutput, NoClipRec, RecordStatuses
      <3> QED BY <2>1, <3>1 DEF PicInit, PicTypes, PicStages
    <2>3. BackedInv
      BY <2>1 DEF BackedInv, NoClipRec
    <2>4. BeforeInv /\ OutputInv /\ PictureInv /\ ClipInv
      BY <2>1 DEF BeforeInv, OutputInv, PictureInv, ClipInv
    <2>5. PictureRunIsSound
      BY <2>1 DEF PictureRunIsSound, ArchiveIsOfSources, ArchiveIsComplete, CachesSurviveAStop, Ended
    <2> QED BY <2>2, <2>3, <2>4, <2>5 DEF PicInv
  <1>2. PicSpec => []PictureRunIsSound
    <2>1. PicInv => PictureRunIsSound
      BY DEF PicInv
    <2> QED BY <1>1, <2>1, PicStep, PTL DEF PicSpec
  <1> QED BY <1>2, SearchesAreHonest, PTL DEF ConversionsAreSound

=============================================================================
