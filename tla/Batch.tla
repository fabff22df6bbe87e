-------------------------------- MODULE Batch --------------------------------
(***************************************************************************)
(* A batch over the subfolders of one root (src/batch/batch.cpp), with the *)
(* prompt its subfolders share (src/utils/utils.cpp: readUserIptOnce,      *)
(* classifyPromptAnswer).  The run of a subfolder is pipeline::run, here   *)
(* its prompt, its work and the exit codes EncodeBatch and Packing give.   *)
(***************************************************************************)
EXTENDS ExitCodes, Sequences

CONSTANT MaxFolders   \* bound: subfolders of the root

ASSUME BatchAssumption == MaxFolders \in Nat

VARIABLES
  folders,     (* of each subfolder, in order: does it hold media           *)
  yesToAll,
  next,        (* the subfolder the driver is at                            *)
  subRun,      (* its run: "none", "prompt", "declined", "work"             *)
  batchStop,   (* the stop flag                                             *)
  consent,     (* promptConsent: "unset", "yes", "no"                       *)
  results,     (* outcome and exit code of each subfolder done with         *)
  batchExit,
  asked,       (* history: answers the user gave                            *)
  worked       (* history: subfolders in which work was begun               *)

batchVars == <<folders, yesToAll, next, subRun, batchStop, consent, results, batchExit,
               asked, worked>>

BatchInit ==
  /\ folders = <<>> /\ yesToAll = FALSE
  /\ next = 0 /\ subRun = "none"
  /\ batchStop = FALSE /\ consent = "unset"
  /\ results = <<>> /\ batchExit = Unfinished
  /\ asked = 0 /\ worked = {}

\* enumerateSubfolders and countProcessableMedia, the latter once for each.
Enumerate ==
  /\ next = 0
  /\ next' = 1
  /\ yesToAll' \in BOOLEAN
  /\ \E n \in 0..MaxFolders : folders' \in [1..n -> BOOLEAN]
  /\ UNCHANGED <<subRun, batchStop, consent, results, batchExit, asked, worked>>

RequestBatchStop ==
  /\ ~batchStop /\ batchExit = Unfinished
  /\ batchStop' = TRUE
  /\ UNCHANGED <<folders, yesToAll, next, subRun, consent, results, batchExit, asked, worked>>

Running == next > 0 /\ next <= Len(folders) /\ batchExit = Unfinished

Result(outcome, exit) ==
  /\ results' = Append(results, [outcome |-> outcome, exit |-> exit])
  /\ next' = next + 1
  /\ subRun' = "none"
  /\ UNCHANGED <<folders, yesToAll, batchStop, batchExit>>

-----------------------------------------------------------------------------
(* The driver: runTasks *)

Declines == consent = "no"

SkipFolder ==
  /\ Running /\ subRun = "none"
  /\ UNCHANGED <<consent, asked, worked>>
  /\ \/ batchStop /\ Result("skipped", Canceled)
     \/ ~batchStop /\ (Declines \/ ~folders[next]) /\ Result("skipped", Succeeded)

StartFolder ==
  /\ Running /\ subRun = "none"
  /\ ~batchStop /\ ~Declines /\ folders[next]
  /\ subRun' = "prompt"
  /\ UNCHANGED <<folders, yesToAll, next, batchStop, consent, results, batchExit, asked, worked>>

\* What the run's exit code makes of the subfolder.
\* Mutant: a declined subfolder is done.
OutcomeOf_Code(code) ==
  IF code = Canceled THEN "skipped" ELSE IF code = Succeeded THEN "done" ELSE "failed"

OutcomeOf(code) ==
  IF code = Canceled \/ (code = Succeeded /\ consent' = "no") THEN "skipped"
  ELSE IF code = Succeeded THEN "done" ELSE "failed"

FolderReturns(code) == Result(OutcomeOf(code), code)

-----------------------------------------------------------------------------
(* A subfolder's run.  readUserIptOnce: a shared answer is taken before the stop *)
(* is looked at, a stop before --yes and before and after the answer is read.    *)

Proceed ==
  /\ subRun' = "work"
  /\ worked' = worked \cup {next}
  /\ UNCHANGED <<folders, yesToAll, next, batchStop, results, batchExit>>

\* Everything is recovered or there is nothing to encode: the run asks nothing.
NothingToAsk ==
  /\ Running /\ subRun = "prompt"
  /\ UNCHANGED <<consent, asked, worked>>
  /\ FolderReturns(Succeeded)

SharedYes ==
  /\ Running /\ subRun = "prompt" /\ consent = "yes"
  /\ Proceed
  /\ UNCHANGED <<consent, asked>>

\* Mutant: the answer that could not be read is shared as a refusal.
ConsentUnread_No == "no"

ConsentUnread == consent

\* No answer can be read: a failure of this subfolder, and the next asks again.
Unanswered ==
  /\ Running /\ subRun = "prompt" /\ consent = "unset" /\ ~batchStop /\ ~yesToAll
  /\ consent' = ConsentUnread
  /\ UNCHANGED <<asked, worked>>
  /\ FolderReturns(Failure)

PromptStopped ==
  /\ Running /\ subRun = "prompt" /\ consent = "unset" /\ batchStop
  /\ UNCHANGED <<consent, asked, worked>>
  /\ FolderReturns(Canceled)

\* Mutant: an answer is not stored.
Shared_Unset(answer) == consent

Shared(answer) == answer

AnswerYes ==
  /\ Running /\ subRun = "prompt" /\ consent = "unset" /\ ~batchStop
  /\ consent' = Shared("yes")
  /\ asked' = IF yesToAll THEN asked ELSE asked + 1
  /\ Proceed

AnswerNo ==
  /\ Running /\ subRun = "prompt" /\ consent = "unset" /\ ~batchStop /\ ~yesToAll
  /\ consent' = Shared("no")
  /\ asked' = asked + 1
  /\ subRun' = "declined"
  /\ UNCHANGED <<folders, yesToAll, next, batchStop, results, batchExit, worked>>

\* canceledExitCodeForPromptAbort: the flag is read anew.
Decline ==
  /\ Running /\ subRun = "declined"
  /\ UNCHANGED <<consent, asked, worked>>
  /\ FolderReturns(IF batchStop THEN Canceled ELSE Succeeded)

\* The work ends, fails or is stopped.
Work ==
  /\ Running /\ subRun = "work"
  /\ UNCHANGED <<consent, asked, worked>>
  /\ \/ FolderReturns(Succeeded)
     \/ FolderReturns(Failure)
     \/ batchStop /\ FolderReturns(Canceled)

-----------------------------------------------------------------------------
\* Mutant: the flag decides, not the results.
BatchCode_Flag(done) ==
  IF batchStop THEN Canceled
  ELSE IF \E i \in DOMAIN done : done[i].outcome = "failed" THEN Failure ELSE Succeeded

\* batchExitCode
BatchCode(done) ==
  IF \E i \in DOMAIN done : done[i].exit = Canceled THEN Canceled
  ELSE IF \E i \in DOMAIN done : done[i].outcome = "failed" THEN Failure ELSE Succeeded

Summarize ==
  /\ next > Len(folders) /\ next > 0 /\ batchExit = Unfinished
  /\ batchExit' = BatchCode(results)
  /\ UNCHANGED <<folders, yesToAll, next, subRun, batchStop, consent, results, asked, worked>>

BatchNext ==
  \/ Enumerate \/ RequestBatchStop \/ SkipFolder \/ StartFolder
  \/ NothingToAsk \/ SharedYes \/ Unanswered \/ PromptStopped \/ AnswerYes \/ AnswerNo
  \/ Decline \/ Work
  \/ Summarize

BatchSpec == BatchInit /\ [][BatchNext]_batchVars

-----------------------------------------------------------------------------
(* Properties *)

\* The user answers at most once for the whole batch, and nothing is begun without
\* a yes: a refusal ends the batch for all later subfolders (readUserIptOnce,
\* lines 484-493 of utils.cpp, and runTasks).
OneAnswerForAll ==
  /\ asked <= 1
  /\ consent # "yes" => worked = {}

\* A refusal is no failure and no success: the subfolder that asked and every later
\* one are skipped; an unreadable answer fails only the subfolder that asked.
RefusalSkips ==
  consent = "no" /\ subRun = "none" =>
    \E i \in DOMAIN results :
      /\ \A j \in i..Len(results) : results[j].outcome = "skipped"
      /\ \A j \in 1..(i - 1) : results[j].outcome = "done" => ~folders[j] \/ j \notin worked

\* Every subfolder is reported once and the exit code follows from what was
\* reported: a stop after the last subfolder does not cancel the batch, and a
\* canceled subfolder is not a finished batch (batchExitCode, lines 283-296).
BatchExitIsHonest ==
  batchExit # Unfinished =>
    /\ Len(results) = Len(folders)
    /\ batchExit = Canceled <=> \E i \in DOMAIN results : results[i].exit = Canceled
    /\ batchExit = Succeeded => \A i \in DOMAIN results : results[i].outcome # "failed"
    /\ \A i \in worked : results[i].outcome # "skipped" \/ results[i].exit = Canceled

\* The user's one answer, the subfolders' outcomes and the exit code agree.
BatchIsHonest == OneAnswerForAll /\ RefusalSkips /\ BatchExitIsHonest
=============================================================================
