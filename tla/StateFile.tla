------------------------------ MODULE StateFile ------------------------------
(***************************************************************************)
(* How a snapshot of the job store reaches the disk (flushSnapshot and     *)
(* replaceStateFile, src/core/job_state.cpp), one file operation a step:   *)
(* staged beside the state path, renamed over it, and, when the platform   *)
(* refuses to replace the target, through a backup.  Snapshots are         *)
(* numbered in the order they are made; a file holds one whole, or is torn.*)
(***************************************************************************)
EXTENDS Naturals

CONSTANTS
  MaxSnapshots,  (* how many snapshots a behaviour makes     *)
  Torn,          (* the content of a partly written file     *)
  Faults,        (* the failures that are allowed            *)
  Budget         (* how many of them a behaviour has         *)

FaultKinds == {"crash", "write", "refuse", "remove", "move", "place", "restore"}

ASSUME StateFileAssumption ==
  /\ MaxSnapshots \in Nat
  /\ Budget \in Nat
  /\ Torn \notin Nat
  /\ Faults \subseteq FaultKinds

Absent == 0

VARIABLES
  state, staged, backup,  (* the files <state>, <state>.tmp, <state>.bak      *)
  held,       (* the snapshot in memory                                       *)
  latest,     (* the number of the last snapshot made                         *)
  pc,         (* where the process is in its flush                            *)
  moved,      (* hadExisting: this flush has moved the old snapshot aside     *)
  opening,    (* this is the flush that ends Store::initialize                *)
  answer,     (* what the last flush returned                                 *)
  committed,  (* history: the last snapshot whose flush returned success      *)
  lost,       (* history: what left the state path empty in this job, if      *)
              (* anything: a restore that failed, a crash in the fallback     *)
  budget

fileVars == <<state, staged, backup, held, latest, pc, moved, opening, answer,
          committed, lost, budget>>

Locations == {"down", "idle", "stage", "write", "replace", "clear", "aside",
              "place", "restore", "clean"}
Contents  == 0..MaxSnapshots \cup {Torn}

Spend(kind) == kind \in Faults /\ budget > 0 /\ budget' = budget - 1

FileInit ==
  /\ state = Absent /\ staged = Absent /\ backup = Absent
  /\ held = 0 /\ latest = 0
  /\ pc = "down"
  /\ moved = FALSE /\ opening = FALSE
  /\ answer = "none" /\ committed = 0 /\ lost = "no"
  /\ budget = Budget

\* What a step of the flush leaves alone.
Process == <<held, latest, moved, opening, answer, committed, lost>>

-----------------------------------------------------------------------------

Make == latest < MaxSnapshots /\ latest' = latest + 1 /\ held' = latest'

\* initialize: a state file is loaded, and a torn one refused; without one the
\* job starts over and owes nothing to what a former run committed.
Initialize ==
  /\ pc = "down" /\ state # Torn
  /\ Make
  /\ committed' = IF state = Absent THEN 0 ELSE committed
  /\ pc' = "stage" /\ opening' = TRUE
  /\ answer' = "none" /\ lost' = "no"
  /\ UNCHANGED <<state, staged, backup, moved, budget>>

\* A store operation; one that does not force its flush may find it throttled.
Change ==
  /\ pc = "idle"
  /\ Make
  /\ pc' \in {"stage", "idle"}
  /\ answer' = "none"
  /\ UNCHANGED <<state, staged, backup, moved, opening, committed, lost, budget>>

\* A failed flush ends the run when it is the first, and is logged otherwise.
Fail ==
  /\ pc' = IF opening THEN "down" ELSE "idle"
  /\ held' = IF opening THEN 0 ELSE held
  /\ answer' = IF opening THEN "none" ELSE "error"
  /\ opening' = FALSE /\ moved' = FALSE
  /\ UNCHANGED <<latest, committed>>

Succeed ==
  /\ pc' = "idle" /\ opening' = FALSE /\ moved' = FALSE
  /\ answer' = "ok" /\ committed' = held
  /\ UNCHANGED <<held, latest, lost>>

OpenStaged ==
  /\ pc = "stage"
  /\ \/ staged' = Torn /\ pc' = "write" /\ UNCHANGED <<Process, budget>>
     \/ Spend("write") /\ Fail /\ UNCHANGED <<staged, lost>>
  /\ UNCHANGED <<state, backup>>

\* Mutant: a failed write is not noticed.
WriteStaged_Unchecked ==
  /\ pc = "write"
  /\ \/ staged' = held /\ UNCHANGED budget
     \/ Spend("write") /\ UNCHANGED staged
  /\ pc' = "replace"
  /\ UNCHANGED <<state, backup, Process>>

WriteStaged ==
  /\ pc = "write"
  /\ \/ staged' = held /\ pc' = "replace" /\ UNCHANGED <<Process, budget>>
     \/ Spend("write") /\ Fail /\ UNCHANGED <<staged, lost>>
  /\ UNCHANGED <<state, backup>>

\* Mutant: the file is removed to make room for the staged one.
Replace_RemovesFirst ==
  /\ pc = "replace"
  /\ \/ state' = staged /\ staged' = Absent /\ Succeed /\ UNCHANGED budget
     \/ /\ Spend("refuse")
        /\ state' = Absent /\ pc' = "clear"
        /\ UNCHANGED <<staged, Process>>
  /\ UNCHANGED backup

\* The common path: one rename, which the platform may refuse.
Replace ==
  /\ pc = "replace"
  /\ \/ state' = staged /\ staged' = Absent /\ Succeed /\ UNCHANGED budget
     \/ Spend("refuse") /\ pc' = "clear" /\ UNCHANGED <<state, staged, Process>>
  /\ UNCHANGED backup

\* The fallback drops an old backup first.
ClearBackup ==
  /\ pc = "clear"
  /\ \/ backup' = Absent /\ UNCHANGED budget
     \/ Spend("remove") /\ UNCHANGED backup
  /\ pc' = IF state = Absent THEN "place" ELSE "aside"
  /\ UNCHANGED <<state, staged, Process>>

MoveAside ==
  /\ pc = "aside"
  /\ \/ /\ backup' = state /\ state' = Absent
        /\ moved' = TRUE /\ pc' = "place"
        /\ UNCHANGED <<held, latest, opening, answer, committed, budget>>
     \/ Spend("move") /\ Fail /\ UNCHANGED <<state, backup>>
  /\ UNCHANGED <<staged, lost>>

\* Mutant: a placement that fails leaves the old snapshot in the backup.
PlaceStaged_NeverRestores ==
  /\ pc = "place"
  /\ \/ /\ state' = staged /\ staged' = Absent
        /\ IF moved THEN pc' = "clean" /\ UNCHANGED Process ELSE Succeed
        /\ UNCHANGED budget
     \/ Spend("place") /\ Fail /\ UNCHANGED <<state, staged, lost>>
  /\ UNCHANGED backup

PlaceStaged ==
  /\ pc = "place"
  /\ \/ /\ state' = staged /\ staged' = Absent
        /\ IF moved THEN pc' = "clean" /\ UNCHANGED Process ELSE Succeed
        /\ UNCHANGED budget
     \/ /\ Spend("place")
        /\ IF moved THEN pc' = "restore" /\ UNCHANGED Process ELSE Fail /\ UNCHANGED lost
        /\ UNCHANGED <<state, staged>>
  /\ UNCHANGED backup

\* The old snapshot goes back; whether it did is not looked at.
RestoreBackup ==
  /\ pc = "restore"
  /\ \/ state' = backup /\ backup' = Absent /\ UNCHANGED <<lost, budget>>
     \/ Spend("restore") /\ lost' = "restore" /\ UNCHANGED <<state, backup>>
  /\ Fail
  /\ UNCHANGED staged

CleanBackup ==
  /\ pc = "clean"
  /\ \/ backup' = Absent /\ UNCHANGED budget
     \/ Spend("remove") /\ UNCHANGED backup
  /\ Succeed
  /\ UNCHANGED <<state, staged>>

Leave ==
  /\ pc' = "down" /\ held' = 0 /\ answer' = "none"
  /\ moved' = FALSE /\ opening' = FALSE
  /\ UNCHANGED <<state, staged, backup, latest, committed>>

EndRun == pc = "idle" /\ Leave /\ UNCHANGED <<lost, budget>>

\* No run loads a backup: a crash between the renames of the fallback leaves
\* nothing for the next one.
Crash ==
  /\ pc # "down"
  /\ Spend("crash")
  /\ lost' = IF moved /\ state = Absent THEN "crash" ELSE lost
  /\ Leave

Flush ==
  \/ OpenStaged \/ WriteStaged \/ Replace
  \/ ClearBackup \/ MoveAside \/ PlaceStaged \/ RestoreBackup \/ CleanBackup

FileNext == Initialize \/ Change \/ Flush \/ EndRun \/ Crash

FileSpec == FileInit /\ [][FileNext]_fileVars

-----------------------------------------------------------------------------
(* Properties *)

FileTypeOK ==
  /\ {state, staged, backup} \subseteq Contents
  /\ {held, latest, committed} \subseteq 0..MaxSnapshots
  /\ held = IF pc = "down" THEN 0 ELSE latest
  /\ pc \in Locations
  /\ moved \in BOOLEAN /\ opening \in BOOLEAN
  /\ answer \in {"none", "ok", "error"}
  /\ lost \in {"no", "crash", "restore"}
  /\ budget \in 0..Budget

\* Whatever fails, neither the state file nor its backup is ever partly written.
NeverTorn == state # Torn /\ backup # Torn

\* A snapshot the store was told is saved, or a later one, is on the disk under
\* one of the two names: the fallback never deletes before it has a replacement.
\* A restore that failed is the exception, since nobody looks at it.
NothingErased ==
  committed # 0 /\ lost # "restore" =>
    \/ state # Torn /\ state >= committed
    \/ backup # Torn /\ backup >= committed

Register == INSTANCE SnapshotRegister WITH
  value    <- IF moved /\ state = Absent THEN backup ELSE state,
  flushing <- pc \notin {"down", "idle"}

\* The file operations of a flush add up to one atomic write with a truthful
\* answer, or, when the fallback is cut off between its renames, to a loss.
ImplementsRegister == Register!RegisterSpec

=============================================================================
