---------------------------- MODULE SupportProofs ----------------------------
(***************************************************************************)
(* Proofs about the components below the workflows, each by itself: the    *)
(* commit of a state file, the stop signal, one subprocess call, the       *)
(* progress bars, the remaining-time estimate, the model files, the stored *)
(* options and quality probing.                                            *)
(***************************************************************************)
EXTENDS StateFile, StopSignal, Exec, ProgressBars, EtaEstimator, ModelStore, Settings,
        Probing, FiniteSetTheorems, TLAPS

-----------------------------------------------------------------------------
(* StateFile: for any number of snapshots, runs and failures *)

\* Before the flush in progress has put its snapshot anywhere a reader looks.
Uncommitted ==
  {"stage", "write", "replace", "clear", "aside", "place", "restore"}

Numbers ==
  /\ state \in Nat /\ backup \in Nat
  /\ staged \in Nat \cup {Torn}
  /\ latest \in Nat /\ committed \in Nat

Modes ==
  /\ pc \in Locations /\ moved \in BOOLEAN /\ opening \in BOOLEAN
  /\ lost \in {"no", "crash", "restore"}

\* Snapshots are numbered as they are made, and a process holds the last one.
Numbered ==
  /\ held = IF pc = "down" THEN 0 ELSE latest
  /\ pc # "down" => latest > 0
  /\ state <= latest /\ backup <= latest /\ committed <= latest
  /\ pc \in Uncommitted => state < latest /\ backup < latest

\* Only a complete staged file is ever renamed.
StagedIsWhole ==
  pc \in {"replace", "clear", "aside", "place", "restore"} => staged = held

\* Where the fallback is, and what it has done so far.
Fallback ==
  /\ moved => pc \in {"place", "restore", "clean"}
  /\ pc = "aside" => state # Absent
  /\ pc \in {"place", "restore"} => state = Absent
  /\ pc \in {"restore", "clean"} => moved
  /\ pc \in {"place", "restore"} /\ moved => backup # Absent
  /\ pc = "clean" => state = held

FileInv == Numbers /\ Modes /\ Numbered /\ StagedIsWhole /\ Fallback

\* The file at the state path is never older than what was answered for, and
\* while it is away the backup holds it, until a restore fails.
KeptInv ==
  /\ state # Absent => committed <= state
  /\ moved /\ state = Absent => committed <= backup
  /\ state = Absent /\ committed # 0 /\ lost # "restore" =>
       committed <= backup /\ (pc = "down" \/ moved)

-----------------------------------------------------------------------------

\* It holds before the first run.
LEMMA FileBegins == FileInit => FileInv
<1> SUFFICES ASSUME FileInit
             PROVE  FileInv
  OBVIOUS
<1> USE DEF FileInit, Absent
<1>1. Numbers /\ Modes
  BY DEF Numbers, Modes, Locations
<1>2. Numbered
  BY DEF Numbered, Uncommitted
<1>3. StagedIsWhole /\ Fallback
  BY DEF StagedIsWhole, Fallback
<1>4. QED
  BY <1>1, <1>2, <1>3 DEF FileInv

\* Every file operation, failure and crash keeps it.
LEMMA FileStep == FileInv /\ [FileNext]_fileVars => FileInv'
<1> SUFFICES ASSUME FileInv, [FileNext]_fileVars
             PROVE  FileInv'
  OBVIOUS
<1> USE StateFileAssumption
<1> USE DEF FileInv, Numbers, Modes, Numbered, StagedIsWhole, Fallback, Uncommitted,
            Locations, Absent
<1>1. CASE Initialize
  <2>1. Numbers'
    BY <1>1 DEF Initialize, Make
  <2>2. Modes'
    BY <1>1 DEF Initialize, Make
  <2>3. Numbered'
    BY <1>1 DEF Initialize, Make
  <2>4. StagedIsWhole'
    BY <1>1 DEF Initialize, Make
  <2>5. Fallback'
    BY <1>1 DEF Initialize, Make
  <2>6. QED
    BY <2>1, <2>2, <2>3, <2>4, <2>5
<1>2. CASE Change
  <2>1. Numbers'
    BY <1>2 DEF Change, Make
  <2>2. Modes'
    BY <1>2 DEF Change, Make
  <2>3. Numbered'
    BY <1>2 DEF Change, Make
  <2>4. StagedIsWhole'
    BY <1>2 DEF Change, Make
  <2>5. Fallback'
    BY <1>2 DEF Change, Make
  <2>6. QED
    BY <2>1, <2>2, <2>3, <2>4, <2>5
<1>3. CASE OpenStaged
  <2>1. Numbers'
    BY <1>3 DEF OpenStaged, Spend, Process, Fail
  <2>2. Modes'
    BY <1>3 DEF OpenStaged, Spend, Process, Fail
  <2>3. Numbered'
    BY <1>3 DEF OpenStaged, Spend, Process, Fail
  <2>4. StagedIsWhole'
    BY <1>3 DEF OpenStaged, Spend, Process, Fail
  <2>5. Fallback'
    BY <1>3 DEF OpenStaged, Spend, Process, Fail
  <2>6. QED
    BY <2>1, <2>2, <2>3, <2>4, <2>5
<1>4. CASE WriteStaged
  <2>1. Numbers'
    BY <1>4 DEF WriteStaged, Spend, Process, Fail
  <2>2. Modes'
    BY <1>4 DEF WriteStaged, Spend, Process, Fail
  <2>3. Numbered'
    BY <1>4 DEF WriteStaged, Spend, Process, Fail
  <2>4. StagedIsWhole'
    BY <1>4 DEF WriteStaged, Spend, Process, Fail
  <2>5. Fallback'
    BY <1>4 DEF WriteStaged, Spend, Process, Fail
  <2>6. QED
    BY <2>1, <2>2, <2>3, <2>4, <2>5
<1>5. CASE Replace
  <2>1. Numbers'
    BY <1>5 DEF Replace, Spend, Process, Succeed
  <2>2. Modes'
    BY <1>5 DEF Replace, Spend, Process, Succeed
  <2>3. Numbered'
    BY <1>5 DEF Replace, Spend, Process, Succeed
  <2>4. StagedIsWhole'
    BY <1>5 DEF Replace, Spend, Process, Succeed
  <2>5. Fallback'
    BY <1>5 DEF Replace, Spend, Process, Succeed
  <2>6. QED
    BY <2>1, <2>2, <2>3, <2>4, <2>5
<1>6. CASE ClearBackup
  <2>1. Numbers'
    BY <1>6 DEF ClearBackup, Spend, Process
  <2>2. Modes'
    BY <1>6 DEF ClearBackup, Spend, Process
  <2>3. Numbered'
    BY <1>6 DEF ClearBackup, Spend, Process
  <2>4. StagedIsWhole'
    BY <1>6 DEF ClearBackup, Spend, Process
  <2>5. Fallback'
    BY <1>6 DEF ClearBackup, Spend, Process
  <2>6. QED
    BY <2>1, <2>2, <2>3, <2>4, <2>5
<1>7. CASE MoveAside
  <2>1. Numbers'
    BY <1>7 DEF MoveAside, Spend, Process, Fail
  <2>2. Modes'
    BY <1>7 DEF MoveAside, Spend, Process, Fail
  <2>3. Numbered'
    BY <1>7 DEF MoveAside, Spend, Process, Fail
  <2>4. StagedIsWhole'
    BY <1>7 DEF MoveAside, Spend, Process, Fail
  <2>5. Fallback'
    BY <1>7 DEF MoveAside, Spend, Process, Fail
  <2>6. QED
    BY <2>1, <2>2, <2>3, <2>4, <2>5
<1>8. CASE PlaceStaged
  <2>1. Numbers'
    BY <1>8 DEF PlaceStaged, Spend, Process, Fail, Succeed
  <2>2. Modes'
    BY <1>8 DEF PlaceStaged, Spend, Process, Fail, Succeed
  <2>3. Numbered'
    BY <1>8 DEF PlaceStaged, Spend, Process, Fail, Succeed
  <2>4. StagedIsWhole'
    BY <1>8 DEF PlaceStaged, Spend, Process, Fail, Succeed
  <2>5. Fallback'
    BY <1>8 DEF PlaceStaged, Spend, Process, Fail, Succeed
  <2>6. QED
    BY <2>1, <2>2, <2>3, <2>4, <2>5
<1>9. CASE RestoreBackup
  <2>1. Numbers'
    BY <1>9 DEF RestoreBackup, Spend, Process, Fail
  <2>2. Modes'
    BY <1>9 DEF RestoreBackup, Spend, Process, Fail
  <2>3. Numbered'
    BY <1>9 DEF RestoreBackup, Spend, Process, Fail
  <2>4. StagedIsWhole'
    BY <1>9 DEF RestoreBackup, Spend, Process, Fail
  <2>5. Fallback'
    BY <1>9 DEF RestoreBackup, Spend, Process, Fail
  <2>6. QED
    BY <2>1, <2>2, <2>3, <2>4, <2>5
<1>10. CASE CleanBackup
  <2>1. Numbers'
    BY <1>10 DEF CleanBackup, Spend, Succeed
  <2>2. Modes'
    BY <1>10 DEF CleanBackup, Spend, Succeed
  <2>3. Numbered'
    BY <1>10 DEF CleanBackup, Spend, Succeed
  <2>4. StagedIsWhole'
    BY <1>10 DEF CleanBackup, Spend, Succeed
  <2>5. Fallback'
    BY <1>10 DEF CleanBackup, Spend, Succeed
  <2>6. QED
    BY <2>1, <2>2, <2>3, <2>4, <2>5
<1>11. CASE EndRun \/ Crash
  <2>1. Numbers'
    BY <1>11 DEF EndRun, Crash, Leave, Spend
  <2>2. Modes'
    BY <1>11 DEF EndRun, Crash, Leave, Spend
  <2>3. Numbered'
    BY <1>11 DEF EndRun, Crash, Leave, Spend
  <2>4. StagedIsWhole'
    BY <1>11 DEF EndRun, Crash, Leave, Spend
  <2>5. Fallback'
    BY <1>11 DEF EndRun, Crash, Leave, Spend
  <2>6. QED
    BY <2>1, <2>2, <2>3, <2>4, <2>5
<1>12. CASE UNCHANGED fileVars
  <2>1. Numbers'
    BY <1>12 DEF fileVars
  <2>2. Modes'
    BY <1>12 DEF fileVars
  <2>3. Numbered'
    BY <1>12 DEF fileVars
  <2>4. StagedIsWhole'
    BY <1>12 DEF fileVars
  <2>5. Fallback'
    BY <1>12 DEF fileVars
  <2>6. QED
    BY <2>1, <2>2, <2>3, <2>4, <2>5
<1>13. QED
  BY <1>1, <1>2, <1>3, <1>4, <1>5, <1>6, <1>7, <1>8, <1>9, <1>10, <1>11, <1>12
     DEF FileNext, Flush

\* So it holds under every failure and crash.
LEMMA FileInvariance == FileSpec => []FileInv
  BY FileBegins, FileStep, PTL DEF FileSpec

\* A reader of the state path or of the backup never sees a partial snapshot.
THEOREM FilesAreWhole == FileSpec => []NeverTorn
<1>1. FileInv => NeverTorn
  BY StateFileAssumption DEF FileInv, Numbers, NeverTorn
<1>2. QED
  BY <1>1, FileInvariance, PTL

-----------------------------------------------------------------------------

\* What the store was told is saved is never erased, whatever else fails and
\* wherever the process crashes, as long as a snapshot moved aside can be moved
\* back.
THEOREM CommittedIsKept == FileSpec => []NothingErased
<1> USE StateFileAssumption
<1>1. FileInit => KeptInv
  BY DEF FileInit, KeptInv
<1>2. FileInv /\ KeptInv /\ [FileNext]_fileVars => KeptInv'
  <2> SUFFICES ASSUME FileInv, KeptInv, [FileNext]_fileVars
               PROVE  KeptInv'
    OBVIOUS
  <2> USE DEF FileInv, Numbers, Modes, Numbered, StagedIsWhole, Fallback, Uncommitted,
              Locations, Absent, KeptInv
  <2>1. CASE Initialize
    BY <2>1 DEF Initialize, Make
  <2>2. CASE Change
    BY <2>2 DEF Change, Make
  <2>3. CASE OpenStaged \/ WriteStaged
    BY <2>3 DEF OpenStaged, WriteStaged, Spend, Process, Fail
  <2>4. CASE Replace
    BY <2>4 DEF Replace, Spend, Process, Succeed
  <2>5. CASE ClearBackup
    BY <2>5 DEF ClearBackup, Spend, Process
  <2>6. CASE MoveAside
    BY <2>6 DEF MoveAside, Spend, Process, Fail
  <2>7. CASE PlaceStaged
    BY <2>7 DEF PlaceStaged, Spend, Process, Fail, Succeed
  <2>8. CASE RestoreBackup
    BY <2>8 DEF RestoreBackup, Spend, Process, Fail
  <2>9. CASE CleanBackup
    BY <2>9 DEF CleanBackup, Spend, Succeed
  <2>10. CASE EndRun \/ Crash
    BY <2>10 DEF EndRun, Crash, Leave
  <2>11. CASE UNCHANGED fileVars
    BY <2>11 DEF fileVars
  <2>12. QED
    BY <2>1, <2>2, <2>3, <2>4, <2>5, <2>6, <2>7, <2>8, <2>9, <2>10, <2>11
       DEF FileNext, Flush
<1>3. FileInv /\ KeptInv => NothingErased
  BY DEF NothingErased, KeptInv, FileInv, Numbers, Absent
<1>4. QED
  BY <1>1, <1>2, <1>3, FileInvariance, PTL DEF FileSpec

-----------------------------------------------------------------------------

\* A flush is one write of the register: it overwrites the saved snapshot or
\* leaves it, says which, and a crash does neither, unless the fallback is cut
\* off between its renames, which the register counts as a loss.
THEOREM RegisterIsImplemented == FileSpec => ImplementsRegister
<1> DEFINE value    == IF moved /\ state = Absent THEN backup ELSE state
           flushing == pc \notin {"down", "idle"}
<1> USE StateFileAssumption
<1>1. FileInit => Register!RegisterInit
  BY DEF FileInit, Register!RegisterInit, Absent
<1>2. FileInv /\ [FileNext]_fileVars
        => [Register!RegisterNext]_(Register!registerVars)
  <2> SUFFICES ASSUME FileInv, [FileNext]_fileVars
               PROVE  Register!RegisterNext \/ UNCHANGED Register!registerVars
    OBVIOUS
  <2> USE DEF FileInv, Numbers, Modes, Numbered, StagedIsWhole, Fallback, Uncommitted,
              Locations, Absent
  <2>1. CASE Initialize
    BY <2>1 DEF Initialize, Make, Register!RegisterNext, Register!Hold
  <2>2. CASE Change
    BY <2>2 DEF Change, Make, Register!RegisterNext, Register!Hold
  <2>3. ASSUME Fail, UNCHANGED <<value, lost>>, pc \in Uncommitted
        PROVE  Register!Answer \/ Register!End
    BY <2>3 DEF Fail, Register!Answer, Register!End
  <2>4. ASSUME UNCHANGED <<value, held, answer, lost>>, pc \in Uncommitted, pc' \in Uncommitted
        PROVE  UNCHANGED Register!registerVars
    BY <2>4 DEF Register!registerVars
  <2>5. CASE OpenStaged \/ WriteStaged
    <3>1. UNCHANGED <<value, lost>> /\ pc \in Uncommitted
      BY <2>5 DEF OpenStaged, WriteStaged, Process, Fail
    <3>2. Fail \/ (UNCHANGED <<held, answer>> /\ pc' \in Uncommitted)
      BY <2>5 DEF OpenStaged, WriteStaged, Process
    <3>3. QED
      BY <2>3, <2>4, <3>1, <3>2 DEF Register!RegisterNext
  <2>6. CASE Replace
    <3>1. CASE pc' = "clear"
      BY <2>4, <2>6, <3>1 DEF Replace, Process, Succeed
    <3>2. CASE pc' # "clear"
      BY <2>6, <3>2
         DEF Replace, Succeed, Register!RegisterNext, Register!CommitAndAnswer
    <3>3. QED
      BY <3>1, <3>2
  <2>7. CASE ClearBackup
    BY <2>4, <2>7 DEF ClearBackup, Process
  <2>8. CASE MoveAside
    BY <2>3, <2>4, <2>8 DEF MoveAside, Process, Register!RegisterNext
  <2>9. CASE PlaceStaged
    <3>1. CASE pc' = "clean"
      BY <2>9, <3>1 DEF PlaceStaged, Process, Succeed, Fail, Register!RegisterNext,
                        Register!Commit
    <3>2. CASE pc' = "restore"
      BY <2>4, <2>9, <3>2 DEF PlaceStaged, Process, Succeed, Fail
    <3>3. CASE pc' \notin {"clean", "restore"} /\ state' = staged
      BY <2>9, <3>3 DEF PlaceStaged, Process, Succeed, Fail, Register!RegisterNext,
                        Register!CommitAndAnswer
    <3>4. CASE pc' \notin {"clean", "restore"} /\ state' # staged
      <4>1. Fail /\ UNCHANGED <<state, lost>> /\ ~moved /\ pc \in Uncommitted
        BY <2>9, <3>4 DEF PlaceStaged
      <4>2. UNCHANGED value
        BY <4>1 DEF Fail
      <4>3. QED
        BY <2>3, <4>1, <4>2 DEF Register!RegisterNext
    <3>5. QED
      BY <3>1, <3>2, <3>3, <3>4
  <2>10. CASE RestoreBackup
    <3>1. CASE state' = backup /\ UNCHANGED lost
      BY <2>3, <2>10, <3>1 DEF RestoreBackup, Fail, Register!RegisterNext
    <3>2. CASE lost' = "restore" /\ UNCHANGED state
      BY <2>10, <3>2 DEF RestoreBackup, Fail, Register!RegisterNext, Register!Lose
    <3>3. QED
      BY <2>10, <3>1, <3>2 DEF RestoreBackup
  <2>11. CASE CleanBackup
    BY <2>11 DEF CleanBackup, Succeed, Register!RegisterNext, Register!Answer
  <2>12. CASE EndRun
    BY <2>12 DEF EndRun, Leave, Register!RegisterNext, Register!End
  <2>13. CASE Crash
    <3>1. CASE moved /\ state = Absent
      BY <2>13, <3>1 DEF Crash, Leave, Register!RegisterNext, Register!Lose
    <3>2. CASE ~(moved /\ state = Absent)
      BY <2>13, <3>2 DEF Crash, Leave, Register!RegisterNext, Register!End
    <3>3. QED
      BY <3>1, <3>2
  <2>14. CASE UNCHANGED fileVars
    BY <2>14 DEF fileVars, Register!registerVars
  <2>15. QED
    BY <2>1, <2>2, <2>5, <2>6, <2>7, <2>8, <2>9, <2>10, <2>11, <2>12, <2>13, <2>14
       DEF FileNext, Flush
<1>3. QED
  BY <1>1, <1>2, FileInvariance, PTL
     DEF FileSpec, ImplementsRegister, Register!RegisterSpec

-----------------------------------------------------------------------------
(* StopSignal: for any number of waiting threads and stop requests *)

SigTypes ==
  /\ platform \in {"posix", "windows"}
  /\ boot \in {"start", "installed", "ready", "gone"}
  /\ stopRequested \in BOOLEAN /\ eventMade \in BOOLEAN
  /\ event \in Nat
  /\ request \in [Requests -> {"idle", "flagged", "signaled", "done"}]
  /\ waiter \in [Waiters -> {"idle", "told", "polling", "asking", "creating", "created",
                             "draining"}]
  /\ early \subseteq Requests

\* Nobody waits, and nothing was requested, before the startup is through with it.
Starting ==
  /\ boot \in {"start", "installed"} => \A w \in Waiters : waiter[w] = "idle"
  /\ boot = "start" => /\ ~stopRequested /\ event = 0 /\ ~eventMade
                       /\ \A r \in Requests : request[r] = "idle"

\* Past the reset every request is remembered by the flag or was erased by it.
RequestsAreKnown ==
  boot \in {"ready", "gone"} =>
    \A r \in Requests : request[r] # "idle" => stopRequested \/ r \in early

\* On Windows the event, once set, stays set: a poller needs no flag.
EventIsOfStop ==
  boot \in {"ready", "gone"} /\ Windows /\ event > 0 => stopRequested \/ early # {}

EventIsSet ==
  Windows /\ stopRequested /\ eventMade =>
    event > 0 \/ (\E r \in Requests : request[r] = "flagged")
              \/ (\E w \in Waiters : waiter[w] = "created")

PollersHaveEvent ==
  Windows => \A w \in Waiters : /\ waiter[w] \in {"polling", "created"} => eventMade
                                /\ waiter[w] # "draining"

SigInv ==
  /\ SigTypes /\ Starting /\ RequestsAreKnown
  /\ EventIsOfStop /\ EventIsSet /\ PollersHaveEvent
  /\ ToldOnlyOfStops

LEMMA SigBegins == SigInit => SigInv
<1> SUFFICES ASSUME SigInit
             PROVE  SigInv
  OBVIOUS
<1> USE DEF SigInit, Windows
<1>1. SigTypes
  BY DEF SigTypes
<1>2. Starting /\ RequestsAreKnown /\ ToldOnlyOfStops
  BY DEF Starting, RequestsAreKnown, ToldOnlyOfStops
<1>3. EventIsOfStop /\ EventIsSet /\ PollersHaveEvent
  BY DEF EventIsOfStop, EventIsSet, PollersHaveEvent
<1>4. QED
  BY <1>1, <1>2, <1>3 DEF SigInv

\* Startup, every step of a handler and of a waiter, and the end of the process.
LEMMA SigStep == SigInv /\ [SigNext]_sigVars => SigInv'
<1> SUFFICES ASSUME SigInv, [SigNext]_sigVars
             PROVE  SigInv'
  OBVIOUS
<1> USE DEF SigInv, SigTypes, Starting, Windows
<1>1. CASE InstallHandler
  BY <1>1 DEF InstallHandler, RequestsAreKnown, EventIsOfStop, EventIsSet,
              PollersHaveEvent, ToldOnlyOfStops
<1>2. CASE Reset
  <2>1. SigTypes' /\ Starting'
    BY <1>2 DEF Reset
  <2>2. RequestsAreKnown' /\ EventIsOfStop'
    BY <1>2 DEF Reset, RequestsAreKnown, EventIsOfStop
  <2>3. EventIsSet' /\ PollersHaveEvent' /\ ToldOnlyOfStops'
    BY <1>2 DEF Reset, EventIsSet, PollersHaveEvent, ToldOnlyOfStops
  <2>4. QED
    BY <2>1, <2>2, <2>3
<1>3. CASE EndProcess
  BY <1>3 DEF EndProcess, RequestsAreKnown, EventIsOfStop, EventIsSet,
              PollersHaveEvent, ToldOnlyOfStops
<1>4. CASE GraceOver \/ Watchdog
  BY <1>4 DEF GraceOver, Watchdog, RequestsAreKnown, EventIsOfStop, EventIsSet,
              PollersHaveEvent, ToldOnlyOfStops
<1>5. ASSUME NEW r \in Requests, RequestStep(r)
      PROVE  SigInv'
  <2>1. SigTypes' /\ Starting'
    <3>1. CASE SetFlag(r)
      BY <3>1 DEF SetFlag
    <3>2. CASE SignalEvent(r)
      <4>1. event' \in Nat
        BY <3>2 DEF SignalEvent
      <4>2. QED
        BY <3>2, <4>1 DEF SignalEvent
    <3>3. CASE ArmDeadline(r)
      BY <3>3 DEF ArmDeadline
    <3>4. QED
      BY <1>5, <3>1, <3>2, <3>3 DEF RequestStep
  <2>2. RequestsAreKnown'
    BY <1>5 DEF RequestStep, SetFlag, SignalEvent, ArmDeadline, RequestsAreKnown
  <2>3. EventIsOfStop'
    BY <1>5 DEF RequestStep, SetFlag, SignalEvent, ArmDeadline, RequestsAreKnown, EventIsOfStop
  <2>4. EventIsSet'
    <3>1. CASE SetFlag(r)
      BY <3>1 DEF SetFlag, EventIsSet
    <3>2. CASE SignalEvent(r)
      BY <3>2 DEF SignalEvent, EventIsSet
    <3>3. CASE ArmDeadline(r)
      BY <3>3 DEF ArmDeadline, EventIsSet
    <3>4. QED
      BY <1>5, <3>1, <3>2, <3>3 DEF RequestStep
  <2>5. PollersHaveEvent' /\ ToldOnlyOfStops'
    BY <1>5 DEF RequestStep, SetFlag, SignalEvent, ArmDeadline, PollersHaveEvent,
                ToldOnlyOfStops
  <2>6. QED
    BY <2>1, <2>2, <2>3, <2>4, <2>5
<1>6. ASSUME NEW w \in Waiters, WaiterStep(w) \/ WaitTimeout(w)
      PROVE  SigInv'
  <2> USE DEF WaiterGoes, Alive
  <2>1. CASE WaitBegin(w)
    BY <2>1 DEF WaitBegin, RequestsAreKnown, EventIsOfStop, EventIsSet, PollersHaveEvent,
                ToldOnlyOfStops
  <2>2. CASE PublishEvent(w)
    <3>1. SigTypes' /\ Starting' /\ RequestsAreKnown' /\ EventIsOfStop' /\ ToldOnlyOfStops'
      BY <2>2 DEF PublishEvent, RequestsAreKnown, EventIsOfStop, ToldOnlyOfStops
    <3>2. EventIsSet' /\ PollersHaveEvent'
      BY <2>2 DEF PublishEvent, EventIsSet, PollersHaveEvent
    <3>3. QED
      BY <3>1, <3>2
  <2>3. CASE CheckFlagAgain(w)
    <3>1. SigTypes' /\ Starting' /\ RequestsAreKnown' /\ EventIsOfStop' /\ ToldOnlyOfStops'
      BY <2>3 DEF CheckFlagAgain, EventOfCreator, RequestsAreKnown, EventIsOfStop,
                  ToldOnlyOfStops
    <3>2. EventIsSet' /\ PollersHaveEvent'
      BY <2>3 DEF CheckFlagAgain, EventOfCreator, EventIsSet, PollersHaveEvent
    <3>3. QED
      BY <3>1, <3>2
  <2>4. CASE Wake(w)
    BY <2>4 DEF Wake, AfterWake, RequestsAreKnown, EventIsOfStop, EventIsSet,
                PollersHaveEvent, ToldOnlyOfStops
  <2>5. CASE Drain(w)
    BY <2>5 DEF Drain, RequestsAreKnown, EventIsOfStop, EventIsSet, PollersHaveEvent,
                ToldOnlyOfStops
  <2>6. CASE WaitTimeout(w) \/ WaitReturn(w)
    BY <2>6 DEF WaitTimeout, WaitReturn, RequestsAreKnown, EventIsOfStop, EventIsSet,
                PollersHaveEvent, ToldOnlyOfStops
  <2>7. QED
    BY <1>6, <2>1, <2>2, <2>3, <2>4, <2>5, <2>6 DEF WaiterStep
<1>7. CASE UNCHANGED sigVars
  BY <1>7 DEF sigVars, RequestsAreKnown, EventIsOfStop, EventIsSet, PollersHaveEvent,
              ToldOnlyOfStops
<1>8. QED
  BY <1>1, <1>2, <1>3, <1>4, <1>5, <1>6, <1>7 DEF SigNext

\* A thread is told of a stop only when there was one, and on Windows nobody is left
\* polling an event that a stop should have set, in whatever order handlers, the
\* startup and the creators of the event interleave.
THEOREM StopsAreHeard == SigSpec => []StopIsHeard
<1>1. SigInv => StopIsHeard
  BY DEF SigInv, StopIsHeard, WakeIsNotLost, EventIsSet, PollersHaveEvent
<1>2. QED
  BY <1>1, SigBegins, SigStep, PTL DEF SigSpec

-----------------------------------------------------------------------------
(* Exec: for a child that writes any amount, closes or hands on any stream and *)
(* ends at any moment, and a stop at any moment                                *)

ExecTypes ==
  /\ call \in {"idle", "race", "drainBeforeExit", "drainAfterExit", "second", "terminate",
               "grace", "done"}
  /\ merged \in BOOLEAN /\ stopped \in BOOLEAN /\ sawRunning \in BOOLEAN
  /\ partial \in BOOLEAN /\ torn \in BOOLEAN
  /\ child \in {"none", "running", "gone"} /\ childCode \in {0, 1}
  /\ {outWritten, outRead, errWritten, errRead} \subseteq Nat

NotLaunched ==
  /\ call = "idle" => /\ child = "none" /\ outEnds = {} /\ errEnds = {} /\ merged
                      /\ outRead = 0 /\ outWritten = 0 /\ ~partial
  /\ call \notin {"idle", "done"} => child # "none"
  /\ call = "done" /\ child = "none" => code = Missing

\* Why the call is where it is.
CallHasCause ==
  /\ call = "drainAfterExit" => child = "gone"
  /\ call \in {"terminate", "grace"} => stopped
  /\ call = "grace" => sawRunning

\* A merged reader has its half line as long as it is not canceled, and one that
\* saw the end of the stream has nothing left to read.
ReaderIsWhole ==
  merged => /\ call \in {"idle", "race"} => partial = (outRead % 2 = 1)
            /\ call = "drainBeforeExit" => OutEof

\* What was seen to end stays at its end.
DrainedStays == call = "second" => Drained

ExecInv ==
  /\ ExecTypes /\ NotLaunched /\ CallHasCause /\ ReaderIsWhole /\ DrainedStays
  /\ CallIsTruthful

LEMMA ExecBegins == ExecInit => ExecInv
<1> SUFFICES ASSUME ExecInit
             PROVE  ExecInv
  OBVIOUS
<1> USE DEF ExecInit
<1>1. ExecTypes
  <2>1. merged \in BOOLEAN /\ stopped \in BOOLEAN /\ sawRunning \in BOOLEAN
    BY Zenon
  <2>2. partial \in BOOLEAN /\ torn \in BOOLEAN
    BY Zenon
  <2>3. {outWritten, outRead, errWritten, errRead} \subseteq Nat
    OBVIOUS
  <2>4. QED
    BY <2>1, <2>2, <2>3 DEF ExecTypes
<1>2. NotLaunched /\ CallHasCause
  BY DEF NotLaunched, CallHasCause
<1>3. ReaderIsWhole /\ DrainedStays
  <2>1. ~(0 % 2 = 1)
    OBVIOUS
  <2>2. QED
    BY <2>1 DEF ReaderIsWhole, DrainedStays
<1>4. CallIsTruthful
  BY DEF CallIsTruthful, CodeIsTheChilds, OutputIsComplete, LinesAreWhole
<1>5. QED
  BY <1>1, <1>2, <1>3, <1>4 DEF ExecInv

\* The tail of a line is read by who read its head.
LEMMA HalvesAlternate == ASSUME NEW n \in Nat, (n + 1) % 2 = 0 PROVE n % 2 = 1
  OBVIOUS

LEMMA ExecStep == ExecInv /\ [ExecNext]_execVars => ExecInv'
<1> SUFFICES ASSUME ExecInv, [ExecNext]_execVars
             PROVE  ExecInv'
  OBVIOUS
<1> USE DEF ExecInv, ExecTypes, NotLaunched, CallHasCause
<1>1. CASE CallMissing
  BY <1>1 DEF CallMissing, ReaderIsWhole, DrainedStays, CallIsTruthful, CodeIsTheChilds,
              OutputIsComplete, LinesAreWhole, childVars, outVars
<1>2. CASE Launch
  BY <1>2 DEF Launch, ReaderIsWhole, DrainedStays, CallIsTruthful, CodeIsTheChilds,
              OutputIsComplete, LinesAreWhole, outVars
<1>3. CASE RequestStopOfCall
  BY <1>3 DEF RequestStopOfCall, ReaderIsWhole, DrainedStays, CallIsTruthful, CodeIsTheChilds,
              OutputIsComplete, LinesAreWhole, childVars, outVars, OutEof, ErrEof, Eof, Drained
<1>4. CASE ChildWrites \/ ChildCloses \/ ChildForks \/ ChildEnds
  <2> USE <1>4 DEF ChildWrites, ChildCloses, ChildForks, ChildEnds, ChildStep, outVars
  <2>1. ExecTypes' /\ NotLaunched'
    OBVIOUS
  <2>2. CallHasCause' /\ CallIsTruthful'
    BY DEF CallIsTruthful, CodeIsTheChilds, OutputIsComplete, LinesAreWhole
  <2>3. OutEof => OutEof'
    BY DEF OutEof, Eof
  <2>4. ErrEof => ErrEof'
    BY DEF ErrEof, Eof
  <2>5. QED
    BY <2>1, <2>2, <2>3, <2>4 DEF ReaderIsWhole, DrainedStays, Drained
<1>5. CASE ReadInRace
  <2> USE <1>5 DEF ReadInRace, CallStep, childVars
  <2>1. ExecTypes' /\ NotLaunched' /\ CallHasCause'
    <3>1. {outRead', errRead'} \subseteq Nat
      BY DEF ReadOut, ReadErr, outVars
    <3>2. partial' \in BOOLEAN /\ torn' \in BOOLEAN
      BY DEF ReadOut, ReadErr, outVars
    <3>3. QED
      BY <3>1, <3>2
  <2>2. ReaderIsWhole' /\ DrainedStays'
    BY DEF ReadOut, ReadErr, outVars, ReaderIsWhole, DrainedStays
  <2>3. ~torn'
    BY HalvesAlternate DEF ReadOut, ReadErr, outVars, ReaderIsWhole, CallIsTruthful,
                           LinesAreWhole
  <2>4. QED
    BY <2>1, <2>2, <2>3 DEF CallIsTruthful, CodeIsTheChilds, OutputIsComplete, LinesAreWhole
<1>6. CASE RaceEnds
  BY <1>6 DEF RaceEnds, CallStep, childVars, ReaderIsWhole, DrainedStays, OutEof, ErrEof, Eof,
              CallIsTruthful, CodeIsTheChilds, OutputIsComplete, LinesAreWhole
<1>7. CASE DrainRead
  <2> USE <1>7 DEF DrainRead, CallStep, childVars
  <2>1. ExecTypes' /\ NotLaunched' /\ CallHasCause'
    <3>1. {outRead', errRead'} \subseteq Nat
      BY DEF ReadOut, ReadErr, outVars
    <3>2. partial' \in BOOLEAN /\ torn' \in BOOLEAN
      BY DEF ReadOut, ReadErr, outVars
    <3>3. QED
      BY <3>1, <3>2
  <2>2. call = "drainBeforeExit" /\ merged => ~ReadOut /\ UNCHANGED <<outRead, torn>>
    BY DEF ReadOut, ReadErr, outVars, ReaderIsWhole, OutEof, Eof
  <2>3. ReaderIsWhole' /\ DrainedStays'
    BY <2>2 DEF ReaderIsWhole, DrainedStays, OutEof, Eof
  <2>4. ~torn'
    BY <2>2 DEF ReadOut, ReadErr, outVars, CallIsTruthful, LinesAreWhole
  <2>5. QED
    BY <2>1, <2>3, <2>4 DEF CallIsTruthful, CodeIsTheChilds, OutputIsComplete, LinesAreWhole
<1>8. CASE DrainEnds
  BY <1>8 DEF DrainEnds, CallStep, childVars, outVars, ReaderIsWhole, DrainedStays, Drained,
              OutEof, ErrEof, Eof, Canceled, Missing,
              CallIsTruthful, CodeIsTheChilds, OutputIsComplete, LinesAreWhole
<1>9. CASE SecondRace
  BY <1>9 DEF SecondRace, CallStep, childVars, outVars, ReaderIsWhole, DrainedStays, Drained,
              OutEof, ErrEof, Eof, Canceled, Missing,
              CallIsTruthful, CodeIsTheChilds, OutputIsComplete, LinesAreWhole
<1>10. CASE Terminate \/ ExecCanceled
  BY <1>10 DEF Terminate, EndedByItself, ExecCanceled, CallStep, childVars, outVars,
               ReaderIsWhole, DrainedStays, Canceled, Missing,
               CallIsTruthful, CodeIsTheChilds, OutputIsComplete, LinesAreWhole
<1>11. CASE UNCHANGED execVars
  BY <1>11 DEF execVars, ReaderIsWhole, DrainedStays, Drained, OutEof, ErrEof, Eof,
               CallIsTruthful, CodeIsTheChilds, OutputIsComplete, LinesAreWhole
<1>12. QED
  BY <1>1, <1>2, <1>3, <1>4, <1>5, <1>6, <1>7, <1>8, <1>9, <1>10, <1>11
     DEF ExecNext, CallGoesOn

\* Whichever of output, exit and stop wins the race, the call's code is the child's
\* or the cancellation of a child that ran, its output is complete unless a stop cut
\* it, and its callback got no tail of a line, apart from the drain after the exit.
THEOREM CallsAreTruthful == ExecSpec => []CallIsTruthful
<1>1. ExecInv => CallIsTruthful
  BY DEF ExecInv
<1>2. QED
  BY <1>1, ExecBegins, ExecStep, PTL DEF ExecSpec

-----------------------------------------------------------------------------
(* ProgressBars: for any number of bars and repaint clocks *)

BarsInv ==
  /\ bars \in Nat /\ screen \in Nat /\ terminal \in BOOLEAN
  /\ screen = rendered /\ screen <= bars
  /\ ~terminal \/ cleared => screen = 0
  /\ badge \in [Bars -> BOOLEAN] /\ spinning \in [Bars -> BOOLEAN]
  /\ sampled \in [Bars -> BOOLEAN]
  /\ SpinnerHasNoBadge

LEMMA BarsBegin == BarsInit => BarsInv
  BY DEF BarsInit, BarsInv, SpinnerHasNoBadge

LEMMA BarsStep == BarsInv /\ [BarsNext]_barVars => BarsInv'
<1> SUFFICES ASSUME BarsInv, [BarsNext]_barVars
             PROVE  BarsInv'
  OBVIOUS
<1> USE DEF BarsInv, SpinnerHasNoBadge, clockVars, eraseVars
<1>1. CASE UsePipe \/ AddBar
  <2>1. UNCHANGED <<screen, rendered, cleared, badge, spinning, sampled>>
    BY <1>1 DEF UsePipe, AddBar
  <2>2. bars' \in {bars, bars + 1} /\ terminal' \in BOOLEAN
    BY <1>1 DEF UsePipe, AddBar
  <2>3. ~terminal' => screen = 0
    BY <1>1 DEF UsePipe, AddBar
  <2>4. QED
    BY <2>1, <2>2, <2>3
<1>2. ASSUME NEW b \in Bars, SetProgress(b) \/ SetPostfixText(b) \/ SetRole(b)
                             \/ SetIndeterminate(b)
      PROVE  BarsInv'
  <2>1. /\ bars' = bars /\ terminal' = terminal /\ cleared' = cleared
        /\ screen' \in Nat /\ screen' = rendered' /\ screen' <= bars
        /\ ~terminal \/ cleared => screen' = 0
    <3>1. Setter(b)
      BY <1>2 DEF SetProgress, SetPostfixText, SetRole, SetIndeterminate
    <3>2. QED
      BY <3>1 DEF Setter, Render, MayPaint
  <2>2. /\ badge' \in [Bars -> BOOLEAN] /\ spinning' \in [Bars -> BOOLEAN]
        /\ sampled' \in [Bars -> BOOLEAN]
    BY <1>2 DEF SetProgress, SetPostfixText, SetRole, SetIndeterminate, ApplyBarText, BadgeOf
  <2>3. SpinnerHasNoBadge'
    BY <1>2 DEF SetProgress, SetPostfixText, SetRole, SetIndeterminate, ApplyBarText, BadgeOf
  <2>4. QED
    BY <2>1, <2>2, <2>3
<1>3. ASSUME NEW b \in Bars, ResetEta(b)
      PROVE  BarsInv'
  BY <1>3 DEF ResetEta
<1>4. ASSUME NEW c \in Clocks, Sleep(c) \/ Tick(c)
      PROVE  BarsInv'
  BY <1>4 DEF Sleep, Tick, ClockStep, TextsOfTick, BadgeOf
<1>5. CASE EraseBegin \/ EraseJoin
  BY <1>5 DEF EraseBegin, EraseJoin
<1>6. CASE EraseLines
  BY <1>6 DEF EraseLines, LinesToErase
<1>7. CASE UNCHANGED barVars
  BY <1>7 DEF barVars
<1>8. QED
  BY <1>1, <1>2, <1>3, <1>4, <1>5, <1>6, <1>7 DEF BarsNext

\* Erasing removes exactly the lines that were painted, nothing is painted on a pipe or
\* after the end, and no repaint gives a spinning bar the time of an earlier attempt.
THEOREM ScreensAreTruthful == BarsSpec => []ScreenIsTruthful
<1>1. BarsInv => ScreenIsTruthful
  BY DEF BarsInv, ScreenIsTruthful, ErasedForGood
<1>2. QED
  BY <1>1, BarsBegin, BarsStep, PTL DEF BarsSpec

-----------------------------------------------------------------------------
(* EtaEstimator: for any samples and resets, and any smoothing                 *)

EtaNumbers ==
  {now, etaLast, startAt, lastFoldAt, base, lastFolded, elapsedBase, projected, attemptAt}
    \subseteq Nat
EtaFlags == hasSample \in BOOLEAN /\ hasProjection \in BOOLEAN

\* The anchor of the present attempt, and what was folded since.
AnchorHolds ==
  /\ attemptAt <= now /\ startAt <= now
  /\ hasSample => base > 0 /\ base <= lastFolded /\ startAt >= attemptAt
  /\ hasProjection => hasSample

EtaInv == EtaNumbers /\ EtaFlags /\ AnchorHolds

LEMMA EtaBegins == EtaInit => EtaInv
<1> SUFFICES ASSUME EtaInit
             PROVE  EtaInv
  OBVIOUS
<1> USE DEF EtaInit
<1>1. EtaNumbers
  BY DEF EtaNumbers
<1>2. EtaFlags
  BY Zenon DEF EtaFlags
<1>3. AnchorHolds
  BY DEF AnchorHolds
<1>4. QED
  BY <1>1, <1>2, <1>3 DEF EtaInv

\* A quotient of naturals is one.
LEMMA QuotientIsNat ==
  ASSUME NEW a \in Nat, NEW b \in Nat, b > 0
  PROVE  a \div b \in Nat
  OBVIOUS

LEMMA ProductIsNat ==
  ASSUME NEW a \in Nat, NEW b \in Nat
  PROVE  a * b \in Nat
  OBVIOUS

\* What is folded moves forward, so the projection divides by a real gain.
LEMMA ProjectionIsNat ==
  ASSUME EtaInv, hasSample, NEW p \in 0..Full, Forward(p)
  PROVE  Projection(p) \in Nat
<1> USE EtaAssumption DEF EtaInv, EtaNumbers, EtaFlags, AnchorHolds
<1>1. p - base \in Nat /\ p - base > 0 /\ p # base /\ now - startAt \in Nat
  BY DEF Forward
<1>2. (now - startAt) * Full \in Nat
  BY <1>1, ProductIsNat
<1>3. ((now - startAt) * Full) \div (p - base) \in Nat
  BY <1>1, <1>2, QuotientIsNat
<1>4. QED
  BY <1>1, <1>3 DEF Projection

LEMMA EtaStep == EtaInv /\ [EtaNext]_etaVars => EtaInv'
<1> SUFFICES ASSUME EtaInv, [EtaNext]_etaVars
             PROVE  EtaInv'
  OBVIOUS
<1> USE EtaAssumption DEF EtaInv, EtaNumbers, EtaFlags, AnchorHolds
<1>1. CASE EtaClock
  BY <1>1 DEF EtaClock
<1>2. ASSUME NEW p \in 0..Full, Sample(p)
      PROVE  EtaInv'
  <2>1. CASE ~hasSample
    <3>1. EtaNumbers'
      BY <1>2, <2>1 DEF Sample, Anchors
    <3>2. EtaFlags'
      BY <1>2, <2>1 DEF Sample, Anchors
    <3>3. AnchorHolds'
      BY <1>2, <2>1 DEF Sample, Anchors
    <3>4. QED
      BY <3>1, <3>2, <3>3
  <2>2. CASE hasSample
    <3>1. CASE projected' = projected
      <4>1. EtaNumbers'
        BY <1>2, <2>2, <3>1 DEF Sample, Forward
      <4>2. EtaFlags'
        BY <1>2, <2>2, <3>1 DEF Sample, Forward
      <4>3. AnchorHolds'
        BY <1>2, <2>2, <3>1 DEF Sample, Forward
      <4>4. QED
        BY <4>1, <4>2, <4>3
    <3>2. CASE projected' # projected
      <4>1. Forward(p) /\ projected' \in Between(projected, Projection(p)) \cup {Projection(p)}
        BY <1>2, <2>2, <3>2 DEF Sample
      <4>2. projected' \in Nat
        BY <2>2, <4>1, ProjectionIsNat DEF Between
      <4>3. QED
        <5>1. EtaNumbers'
          BY <1>2, <2>2, <4>1, <4>2 DEF Sample, Forward
        <5>2. EtaFlags'
          BY <1>2, <2>2, <4>1, <4>2 DEF Sample, Forward
        <5>3. AnchorHolds'
          BY <1>2, <2>2, <4>1, <4>2 DEF Sample, Forward
        <5>4. QED
          BY <5>1, <5>2, <5>3
    <3>3. QED
      BY <3>1, <3>2
  <2>3. QED
    BY <2>1, <2>2
<1>3. ASSUME NEW e \in 0..1, EtaReset(e)
      PROVE  EtaInv'
  <2>1. EtaNumbers'
    BY <1>3 DEF EtaReset
  <2>2. EtaFlags'
    BY <1>3 DEF EtaReset
  <2>3. AnchorHolds'
    BY <1>3 DEF EtaReset
  <2>4. QED
    BY <2>1, <2>2, <2>3
<1>4. CASE UNCHANGED etaVars
  BY <1>4 DEF etaVars
<1>5. QED
  BY <1>1, <1>2, <1>3, <1>4 DEF EtaNext

\* The estimate is never negative and never alone, and the elapsed time counts neither
\* the wait before the first progress nor an earlier attempt, whatever regresses,
\* repeats or ends in between.
THEOREM BadgesAreSane == EtaSpec => []BadgeIsSane
<1>1. EtaInv => BadgeIsSane
  <2> SUFFICES ASSUME EtaInv
               PROVE  BadgeIsSane
    OBVIOUS
  <2> USE DEF EtaInv, EtaNumbers, EtaFlags, AnchorHolds
  <2>1. EstimateIsSane
    <3>1. hasSample => ElapsedSeconds >= 0
      BY DEF ElapsedSeconds
    <3>2. \A p \in 0..Full : EtaSeconds(p) >= 0 => hasSample
      BY DEF EtaSeconds
    <3>3. QED
      BY <3>1, <3>2 DEF EstimateIsSane
  <2>2. ClockStartsWithProgress
    BY DEF ClockStartsWithProgress, ElapsedSeconds
  <2>3. QED
    BY <2>1, <2>2 DEF BadgeIsSane
<1>2. QED
  BY <1>1, EtaBegins, EtaStep, PTL DEF EtaSpec

-----------------------------------------------------------------------------
(* ModelStore: for any set of model files and libraries, any number of runs and *)
(* crashes                                                                     *)

Fetching == {"fetch", "verify", "rename"}
AtArchive == {"unpack", "install"}

ModelTypes ==
  /\ msPc \in {"idle", "next", "check", "engines", "organizing"} \cup Fetching \cup AtArchive
  /\ invoked \in Invocations
  /\ installed \in [Remote -> {"absent", "short", "whole"}]
  /\ partFile \in {"absent", "short", "wrong", "whole"}
  /\ todo \subseteq ModelFiles /\ current \in Remote
  /\ fetched \in BOOLEAN /\ complete \in BOOLEAN /\ modelRuns \in Nat
  /\ msPc # "idle" => modelRuns > 0 /\ invoked.available

\* Only a checked file is renamed, and the marker comes last.
FilesArrive ==
  /\ msPc = "rename" => partFile = "whole"
  /\ msPc = "install" => Libs \subseteq libs \cup unpacked
  /\ CudnnThere => Libs \subseteq libs

\* How far a run with a download has come.
DownloadGoes ==
  /\ msPc \in {"next"} \cup Fetching \cup AtArchive => invoked.download
  /\ msPc \in {"check", "engines", "organizing"} /\ invoked.download /\ invoked.driver =>
       CudnnThere
  /\ msPc \in {"engines", "organizing"} => Whole /\ invoked.dir
  /\ msPc # "idle" /\ complete =>
       /\ msPc \notin Fetching \cup AtArchive
       /\ todo = {} /\ (invoked.driver => CudnnThere)

ModelInv == ModelTypes /\ FilesArrive /\ DownloadGoes /\ ProvisioningIsHonest

LEMMA ModelsBegin == MsInit => ModelInv
<1> SUFFICES ASSUME MsInit
             PROVE  ModelInv
  OBVIOUS
<1> USE DEF MsInit
<1>1. ModelTypes
  BY DEF ModelTypes, Invocations, Remote
<1>2. FilesArrive /\ DownloadGoes /\ ProvisioningIsHonest
  BY DEF FilesArrive, DownloadGoes, ProvisioningIsHonest, CudnnThere, Fetching, AtArchive
<1>3. QED
  BY <1>1, <1>2 DEF ModelInv

\* Nothing missing is everything whole.
LEMMA NothingMissing == ASSUME ModelTypes, MissingFiles = {} PROVE Whole
  BY DEF ModelTypes, MissingFiles, IsMissing, Whole, Remote

LEMMA ModelStep == ModelInv /\ [MsNext]_msVars => ModelInv'
<1> SUFFICES ASSUME ModelInv, [MsNext]_msVars
             PROVE  ModelInv'
  OBVIOUS
<1> USE DEF ModelInv, ModelTypes, FilesArrive, DownloadGoes, ProvisioningIsHonest, Fetching,
            AtArchive, MsExitWith
<1>1. CASE FoundShort
  <2>1. ModelTypes'
    BY <1>1 DEF FoundShort
  <2>2. msPc' = "idle" /\ modelRuns' = 0
    BY <1>1 DEF FoundShort
  <2>3. FilesArrive' /\ DownloadGoes' /\ ProvisioningIsHonest'
    BY <1>1, <2>2 DEF FoundShort, CudnnThere
  <2>4. QED
    BY <2>1, <2>3
<1>2. CASE BeginModels
  <2>1. PICK r \in Invocations :
          /\ r.download \/ r.dir
          /\ invoked' = r
          /\ IF ~r.available THEN MsExitWith(1)
             ELSE msPc' = (IF r.download THEN "next" ELSE "check") /\ UNCHANGED msExit
          /\ todo' = IF r.download THEN MissingFiles ELSE {}
          /\ complete' = (MissingFiles = {} /\ (r.driver => CudnnThere))
    BY <1>2 DEF BeginModels
  <2>2. complete' \in BOOLEAN /\ todo' \subseteq ModelFiles
    BY <2>1 DEF MissingFiles
  <2>3. ModelTypes'
    <3>1. modelRuns' \in Nat /\ modelRuns' > 0 /\ fetched' \in BOOLEAN
      <4>1. modelRuns' = modelRuns + 1 /\ fetched' = FALSE
        BY <1>2 DEF BeginModels
      <4>2. fetched' \in BOOLEAN
        BY <4>1, Zenon
      <4>3. QED
        BY <4>1, <4>2
    <3>2. msPc' \in {"idle", "next", "check"} /\ (msPc' # "idle" => invoked'.available)
      BY <1>2, <2>1 DEF BeginModels
    <3>3. QED
      BY <1>2, <2>1, <2>2, <3>1, <3>2 DEF BeginModels
  <2>4. FilesArrive' /\ DownloadGoes' /\ ProvisioningIsHonest'
    BY <1>2, <2>1 DEF BeginModels, CudnnThere
  <2>5. QED
    BY <2>3, <2>4
<1>3. CASE NextFile
  <2>1. ModelTypes'
    BY <1>3 DEF NextFile, StartFetch, Remote
  <2>2. FilesArrive' /\ DownloadGoes' /\ ProvisioningIsHonest'
    BY <1>3 DEF NextFile, StartFetch, CudnnThere, Whole
  <2>3. QED
    BY <2>1, <2>2
<1>4. CASE Fetch
  BY <1>4 DEF Fetch, CudnnThere, Whole
<1>5. CASE Verify
  BY <1>5 DEF Verify, Accepted, CudnnThere, Whole
<1>6. CASE RenamePart
  <2>1. ModelTypes'
    BY <1>6 DEF RenamePart
  <2>2. FilesArrive' /\ DownloadGoes' /\ ProvisioningIsHonest'
    BY <1>6 DEF RenamePart, CudnnThere
  <2>3. QED
    BY <2>1, <2>2
<1>7. CASE Unpack
  BY <1>7 DEF Unpack, CudnnThere, Whole
<1>8. CASE Install
  <2>1. ModelTypes'
    BY <1>8 DEF Install
  <2>2. FilesArrive'
    BY <1>8 DEF Install, Movable, CudnnThere, Libs
  <2>3. DownloadGoes' /\ ProvisioningIsHonest'
    BY <1>8 DEF Install, CudnnThere, Libs, Whole
  <2>4. QED
    BY <2>1, <2>2, <2>3
<1>9. CASE CheckModels
  BY <1>9, NothingMissing DEF CheckModels, CudnnThere, Whole
<1>10. CASE BuildEngines \/ OrganizeEnds
  BY <1>10 DEF BuildEngines, OrganizeEnds, CudnnThere, Whole
<1>11. CASE ModelCrash \/ UNCHANGED msVars
  BY <1>11 DEF ModelCrash, msVars, CudnnThere, Whole
<1>12. QED
  BY <1>1, <1>2, <1>3, <1>4, <1>5, <1>6, <1>7, <1>8, <1>9, <1>10, <1>11 DEF MsNext

\* Over any runs and crashes no unchecked file gets its final name, the marker stands
\* for all libraries, images are organized only with every model whole, and a run that
\* lacked nothing asks the network for nothing.
THEOREM ModelsStaySound == MsSpec => []ModelsAreSound
<1>1. ModelInv => ModelsAreSound
  BY DEF ModelInv, ModelTypes, FilesArrive, ModelsAreSound, PinsHold
<1>2. QED
  BY <1>1, ModelsBegin, ModelStep, PTL DEF MsSpec


-----------------------------------------------------------------------------
(* Settings: for any options and any number of commands, overlapping or not *)

ChangeSteps == {"load", "open", "write", "schema", "delete"}
RunSteps == {"config", "overlay", "start"}

SetTypes ==
  /\ DOMAIN stores = StoreFiles /\ DOMAIN wanted = StoreFiles
  /\ DOMAIN setPc = SetProcs /\ DOMAIN asked = SetProcs /\ DOMAIN exitCode = SetProcs
  /\ DOMAIN startedWith = SetProcs /\ DOMAIN others = SetProcs
  /\ DOMAIN asRead = SetProcs /\ \A p \in SetProcs : DOMAIN asRead[p] = StoreFiles
  /\ typed \in Nat /\ calm \in BOOLEAN

\* Whether there are unknown keys is known of every content.
ExtraInv ==
  /\ \A f \in StoreFiles : stores[f].extra \in BOOLEAN
  /\ \A p \in SetProcs, f \in StoreFiles : asRead[p][f].extra \in BOOLEAN

\* Each command takes the steps of its kind.
CommandInv ==
  \A p \in SetProcs :
    /\ setPc[p] \in {"none", "done"} \cup ChangeSteps \cup RunSteps
    /\ setPc[p] # "none" => p <= typed
    /\ setPc[p] \in ChangeSteps => asked[p] \in Changes
    /\ setPc[p] \in RunSteps => asked[p] \in Runs
    /\ setPc[p] = "delete" => asked[p].kind = "delete"
    /\ setPc[p] \in {"open", "write"} => asked[p].kind # "delete"

\* A run that goes on has read what it needs.
RunInv ==
  \A p \in SetProcs :
    /\ setPc[p] \in {"overlay", "start"} => asRead[p]["config"].form # NoJson
    /\ setPc[p] = "overlay" => asked[p].template
    /\ setPc[p] = "start" => StoresReadable(p)

\* One command at a time: a file is as told, or is being written by the one there is from
\* a content that was.
AgreeInv ==
  calm =>
    /\ \A p, q \in SetProcs : Busy(p) /\ Busy(q) => p = q
    /\ \A f \in StoreFiles :
         (\A p \in SetProcs : setPc[p] = "write" => asked[p].file # f)
           => Alike(f, stores[f], wanted[f])
    /\ \A p \in SetProcs : setPc[p] \in {"open", "write"} =>
         /\ Alike(asked[p].file, asRead[p][asked[p].file], wanted[asked[p].file])
         /\ asRead[p][asked[p].file].form # NoJson
    /\ \A p \in SetProcs : setPc[p] = "write" => others[p] = {}

SetInv == SetTypes /\ ExtraInv /\ CommandInv /\ RunInv /\ AgreeInv /\ RunsStartAsTyped

LEMMA ChangeFacts ==
  ASSUME NEW c \in Changes
  PROVE  /\ c.file \in StoreFiles /\ c.kind \in {"set", "unset", "delete"}
         /\ c.kind = "delete" => c.file = "template"
<1>1. CASE c \in {[kind |-> "set", file |-> f, value |-> v] : f \in StoreFiles, v \in {"new", Bad}}
  BY <1>1 DEF StoreFiles
<1>2. CASE c \in {[kind |-> "unset", file |-> f] : f \in StoreFiles}
  BY <1>2 DEF StoreFiles
<1>3. CASE c \in {[kind |-> "delete", file |-> "template"]}
  BY <1>3 DEF StoreFiles
<1>4. QED
  BY <1>1, <1>2, <1>3 DEF Changes

LEMMA RunFacts ==
  ASSUME NEW c \in Runs
  PROVE  c.kind = "run" /\ c.template \in BOOLEAN
BY DEF Runs

\* The options of a run are the first given, in the order promised.
LEMMA OptionsAreExpected ==
  ASSUME NEW p \in SetProcs
  PROVE  OptionsOf(p) = [k \in OptionKeys |-> Expected(p, k)]
<1>1. ASSUME NEW k \in OptionKeys
      PROVE  OptionsOf(p)[k] = Expected(p, k)
  BY DEF OptionsOf, Expected, Fired, Layer, TwinForced, FirstGiven, Builtin, Unset
<1>2. DOMAIN OptionsOf(p) = OptionKeys
  BY DEF OptionsOf
<1>3. OptionsOf(p) = [k \in OptionKeys |-> OptionsOf(p)[k]]
  BY DEF OptionsOf
<1>4. QED
  BY <1>1, <1>3

LEMMA AlikeToItself == \A f, content : Alike(f, content, content)
BY DEF Alike, Kept

LEMMA SetBegins == SetInit => SetInv
<1>1. SUFFICES ASSUME SetInit
               PROVE  SetInv
  OBVIOUS
<1>2. SetTypes
  BY <1>1 DEF SetInit, SetTypes
<1>3. \A p \in SetProcs : setPc[p] = "none"
  BY <1>1 DEF SetInit
<1>4. CommandInv /\ RunInv /\ RunsStartAsTyped
  BY <1>3 DEF CommandInv, RunInv, RunsStartAsTyped, ChangeSteps, RunSteps
<1>5. AgreeInv
  BY <1>1, <1>3, AlikeToItself DEF SetInit, AgreeInv, Busy
<1>6. ExtraInv
  BY <1>1 DEF SetInit, ExtraInv, NoFile
<1>7. QED
  BY <1>2, <1>4, <1>5, <1>6 DEF SetInv

LEMMA SetTypesStep ==
  ASSUME SetInv, [SetNext]_setVars
  PROVE  SetTypes'
<1> USE DEF SetInv, SetTypes
<1>1. CASE UNCHANGED setVars
  BY <1>1 DEF setVars
<1>2. CASE HandEdit
  BY <1>2 DEF HandEdit
<1>3. ASSUME NEW p \in SetProcs, TypeCommand(p)
      PROVE  SetTypes'
  BY <1>3 DEF TypeCommand, ExitWith, SetProcs
<1>4. ASSUME NEW p \in SetProcs, ReadStore(p) \/ ReadConfig(p) \/ ReadTemplate(p)
      PROVE  SetTypes'
  BY <1>4 DEF ReadStore, ReadConfig, ReadTemplate, ExitWith
<1>5. ASSUME NEW p \in SetProcs,
             DeleteTemplate(p) \/ TruncateStore(p) \/ OpenFails(p) \/ WriteFails(p) \/ SetCrash(p)
      PROVE  SetTypes'
  BY <1>5 DEF DeleteTemplate, TruncateStore, OpenFails, WriteFails, SetCrash, ExitWith, AsTold
<1>6. ASSUME NEW p \in SetProcs, WriteStore(p)
      PROVE  SetTypes'
  BY <1>6 DEF WriteStore, ExitWith, AsTold
<1>7. ASSUME NEW p \in SetProcs, WriteSchema(p) \/ StartRun(p)
      PROVE  SetTypes'
  BY <1>7 DEF WriteSchema, StartRun, ExitWith
<1>8. QED
  BY <1>1, <1>2, <1>3, <1>4, <1>5, <1>6, <1>7 DEF SetNext, SetStep

\* A step is of one command: the others stay where they are.
LEMMA OthersStay ==
  ASSUME SetInv, NEW p \in SetProcs, SetStep(p), NEW q \in SetProcs, q # p
  PROVE  /\ setPc'[q] = setPc[q] /\ asked'[q] = asked[q] /\ asRead'[q] = asRead[q]
         /\ exitCode'[q] = exitCode[q] /\ startedWith'[q] = startedWith[q]
<1> USE DEF SetInv, SetTypes
<1>1. CASE TypeCommand(p)
  BY <1>1 DEF TypeCommand, ExitWith
<1>2. CASE ReadStore(p) \/ ReadConfig(p) \/ ReadTemplate(p)
  BY <1>2 DEF ReadStore, ReadConfig, ReadTemplate, ExitWith
<1>3. CASE DeleteTemplate(p) \/ TruncateStore(p) \/ OpenFails(p) \/ WriteFails(p) \/ SetCrash(p)
  BY <1>3 DEF DeleteTemplate, TruncateStore, OpenFails, WriteFails, SetCrash, ExitWith
<1>4. CASE WriteStore(p)
  BY <1>4 DEF WriteStore, ExitWith
<1>5. CASE WriteSchema(p) \/ StartRun(p)
  BY <1>5 DEF WriteSchema, StartRun, ExitWith
<1>6. QED
  BY <1>1, <1>2, <1>3, <1>4, <1>5 DEF SetStep

\* Where a command's own step leads.
OwnStep(p) ==
  \/ /\ setPc[p] = "none" /\ p <= typed' /\ asked'[p] \in Commands
     /\ setPc'[p] \in {"done", First(asked'[p])}
     /\ asked'[p].kind = "mistake" => setPc'[p] = "done"
     /\ asked'[p].kind = "run" => setPc'[p] = "config"
  \/ /\ setPc[p] \in ChangeSteps /\ asked'[p] = asked[p] /\ setPc'[p] \in ChangeSteps \cup {"done"}
     /\ setPc'[p] = "delete" => asked[p].kind = "delete"
     /\ setPc'[p] \in {"open", "write"} => asked[p].kind # "delete"
  \/ /\ setPc[p] = "config" /\ asked'[p] = asked[p] /\ asRead'[p]["config"] = stores["config"]
     /\ \/ stores["config"].form = NoJson /\ setPc'[p] = "done"
        \/ /\ stores["config"].form # NoJson
           /\ setPc'[p] = IF asked[p].template THEN "overlay" ELSE "start"
  \/ /\ setPc[p] = "overlay" /\ asked'[p] = asked[p]
     /\ asRead'[p]["config"] = asRead[p]["config"]
     /\ asRead'[p]["template"] = stores["template"]
     /\ \/ ~Readable(stores["template"]) /\ setPc'[p] = "done"
        \/ Readable(stores["template"]) /\ setPc'[p] = "start"
  \/ /\ setPc[p] = "start" /\ asked'[p] = asked[p] /\ asRead'[p] = asRead[p]
     /\ setPc'[p] = "done" /\ startedWith'[p] = OptionsOf(p)
     /\ exitCode'[p] = IF \E k \in OptionKeys : OptionsOf(p)[k] = Bad THEN 1 ELSE 0

LEMMA OwnSteps ==
  ASSUME SetInv, NEW p \in SetProcs, SetStep(p)
  PROVE  OwnStep(p) /\ typed <= typed' /\ typed' \in Nat
         /\ (setPc[p] \in {"config", "overlay"} /\ setPc'[p] = "done" => exitCode'[p] = 1)
<1> USE DEF SetInv, SetTypes
<1>0. asked[p] \in Changes => asked[p].kind \in {"set", "unset", "delete"}
  BY ChangeFacts
<1>1. CASE TypeCommand(p)
  <2>1. PICK c \in Commands :
          /\ asked' = [asked EXCEPT ![p] = c]
          /\ IF Refused(c) THEN ExitWith(p, 1)
             ELSE setPc' = [setPc EXCEPT ![p] = First(c)] /\ UNCHANGED exitCode
    BY <1>1 DEF TypeCommand
  <2>2. setPc[p] = "none" /\ p = typed + 1 /\ typed' = p
    BY <1>1 DEF TypeCommand
  <2>3. asked'[p] = c /\ asked'[p] \in Commands
    BY <2>1
  <2>4. setPc'[p] \in {"done", First(c)} /\ (c.kind = "mistake" => setPc'[p] = "done")
        /\ (c.kind = "run" => setPc'[p] = "config")
    BY <2>1 DEF ExitWith, Refused, First
  <2>5. QED
    BY <2>2, <2>3, <2>4 DEF OwnStep, SetProcs
<1>2. CASE ReadStore(p)
  BY <1>0, <1>2 DEF ReadStore, ExitWith, OwnStep, CommandInv, ChangeSteps
<1>3. CASE ReadConfig(p)
  BY <1>3 DEF ReadConfig, ExitWith, OwnStep, Unreadable, StoreFiles
<1>4. CASE ReadTemplate(p)
  BY <1>4 DEF ReadTemplate, ExitWith, OwnStep, StoreFiles
<1>5. CASE DeleteTemplate(p) \/ TruncateStore(p) \/ OpenFails(p) \/ WriteFails(p) \/ SetCrash(p)
  BY <1>5 DEF DeleteTemplate, TruncateStore, OpenFails, WriteFails, SetCrash, ExitWith,
              OwnStep, CommandInv, ChangeSteps
<1>6. CASE WriteStore(p)
  BY <1>6 DEF WriteStore, ExitWith, OwnStep, CommandInv, ChangeSteps
<1>7. CASE WriteSchema(p)
  BY <1>7 DEF WriteSchema, ExitWith, OwnStep, CommandInv, ChangeSteps
<1>8. CASE StartRun(p)
  BY <1>8 DEF StartRun, ExitWith, OwnStep
<1>9. QED
  BY <1>1, <1>2, <1>3, <1>4, <1>5, <1>6, <1>7, <1>8 DEF SetStep


LEMMA CommandStep ==
  ASSUME SetInv, NEW p \in SetProcs, SetStep(p)
  PROVE  CommandInv' /\ RunInv' /\ RunsStartAsTyped'
<1>1. OwnStep(p) /\ typed <= typed' /\ typed' \in Nat
      /\ (setPc[p] \in {"config", "overlay"} /\ setPc'[p] = "done" => exitCode'[p] = 1)
  BY OwnSteps
<1>2. ASSUME NEW q \in SetProcs, q # p
      PROVE  /\ setPc'[q] = setPc[q] /\ asked'[q] = asked[q] /\ asRead'[q] = asRead[q]
             /\ exitCode'[q] = exitCode[q] /\ startedWith'[q] = startedWith[q]
  BY <1>2, OthersStay
<1>3. CommandInv'
  <2> SUFFICES ASSUME NEW q \in SetProcs
               PROVE  /\ setPc'[q] \in {"none", "done"} \cup ChangeSteps \cup RunSteps
                      /\ setPc'[q] # "none" => q <= typed'
                      /\ setPc'[q] \in ChangeSteps => asked'[q] \in Changes
                      /\ setPc'[q] \in RunSteps => asked'[q] \in Runs
                      /\ setPc'[q] = "delete" => asked'[q].kind = "delete"
                      /\ setPc'[q] \in {"open", "write"} => asked'[q].kind # "delete"
    BY DEF CommandInv
  <2>1. CASE q # p
    BY <1>1, <1>2, <2>1 DEF CommandInv, SetInv, SetTypes, SetProcs
  <2>2. CASE q = p
    <3>1. CASE setPc[p] = "none"
      <4>1. asked'[p] \in Commands /\ setPc'[p] \in {"done", First(asked'[p])} /\ p <= typed'
        BY <1>1, <3>1 DEF OwnStep, ChangeSteps
      <4>2. asked'[p] \in Runs => First(asked'[p]) = "config"
        BY RunFacts DEF First
      <4>3. asked'[p] \in Changes => First(asked'[p]) = "load"
        BY ChangeFacts DEF First
      <4>4. asked'[p] \in Mistakes => setPc'[p] = "done"
        BY <1>1, <3>1 DEF OwnStep, ChangeSteps, Mistakes
      <4>5. QED
        BY <2>2, <4>1, <4>2, <4>3, <4>4 DEF Commands, ChangeSteps, RunSteps
    <3>2. CASE setPc[p] # "none"
      <4>1. p <= typed
        BY <3>2 DEF SetInv, CommandInv
      <4>2. p <= typed'
        BY <1>1, <4>1 DEF SetInv, SetTypes, SetProcs
      <4>3. QED
        BY <1>1, <2>2, <3>2, <4>2 DEF OwnStep, SetInv, CommandInv, ChangeSteps, RunSteps
    <3>3. QED
      BY <3>1, <3>2
  <2>3. QED
    BY <2>1, <2>2
<1>4. RunInv'
  <2> SUFFICES ASSUME NEW q \in SetProcs
               PROVE  /\ setPc'[q] \in {"overlay", "start"} => asRead'[q]["config"].form # NoJson
                      /\ setPc'[q] = "overlay" => asked'[q].template
                      /\ setPc'[q] = "start" => StoresReadable(q)'
    BY DEF RunInv
  <2>1. CASE q # p
    BY <1>2, <2>1 DEF RunInv, SetInv, StoresReadable
  <2>2. CASE q = p
    <3>1. CASE setPc[p] = "none"
      BY <1>1, <2>2, <3>1 DEF OwnStep, First, ChangeSteps
    <3>2. CASE setPc[p] \in ChangeSteps
      BY <1>1, <2>2, <3>2 DEF OwnStep, ChangeSteps
    <3>3. CASE setPc[p] \in {"config", "overlay", "start"}
      BY <1>1, <2>2, <3>3 DEF OwnStep, ChangeSteps, RunInv, SetInv, StoresReadable
    <3>4. QED
      BY <1>1, <3>1, <3>2, <3>3 DEF OwnStep
  <2>3. QED
    BY <2>1, <2>2
<1>5. RunsStartAsTyped'
  <2> SUFFICES ASSUME NEW q \in SetProcs, setPc'[q] = "done", asked'[q].kind = "run",
                      exitCode'[q] # Running
               PROVE  LET usable == StoresReadable(q)' /\ \A k \in OptionKeys : Expected(q, k)' # Bad
                      IN  /\ (exitCode'[q] = 0) = usable
                          /\ usable => startedWith'[q] = [k \in OptionKeys |-> Expected(q, k)']
    BY DEF RunsStartAsTyped
  <2>1. CASE q # p
    <3>1. (StoresReadable(q)' <=> StoresReadable(q)) /\ \A k \in OptionKeys : Expected(q, k)' = Expected(q, k)
      BY <1>2, <2>1 DEF StoresReadable, Expected
    <3>2. QED
      BY <1>2, <2>1, <3>1 DEF RunsStartAsTyped, SetInv
  <2>2. CASE q = p
    <3>1. asked[p] \in Changes => asked[p].kind # "run"
      BY ChangeFacts
    <3>2. setPc[p] \notin ChangeSteps /\ setPc[p] # "none"
      BY <1>1, <2>2, <3>1 DEF OwnStep, SetInv, CommandInv, ChangeSteps
    <3>3. CASE setPc[p] \in {"config", "overlay"}
      <4>1. exitCode'[p] = 1 /\ ~StoresReadable(p)'
        BY <1>1, <2>2, <3>3 DEF OwnStep, ChangeSteps, StoresReadable, RunInv, SetInv
      <4>2. QED
        BY <2>2, <4>1
    <3>4. CASE setPc[p] = "start"
      <4>1. /\ asked'[p] = asked[p] /\ asRead'[p] = asRead[p]
            /\ startedWith'[p] = OptionsOf(p)
            /\ exitCode'[p] = IF \E k \in OptionKeys : OptionsOf(p)[k] = Bad THEN 1 ELSE 0
        BY <1>1, <3>4 DEF OwnStep, ChangeSteps
      <4>2. StoresReadable(p)'
        BY <3>4, <4>1 DEF RunInv, SetInv, StoresReadable
      <4>3. \A k \in OptionKeys : Expected(p, k)' = Expected(p, k)
        BY <4>1 DEF Expected
      <4>4. OptionsOf(p) = [k \in OptionKeys |-> Expected(p, k)]
        BY OptionsAreExpected
      <4>5. startedWith'[p] = [k \in OptionKeys |-> Expected(p, k)']
        BY <4>1, <4>3, <4>4
      <4>6. (exitCode'[p] = 0) <=> \A k \in OptionKeys : Expected(p, k)' # Bad
        BY <4>1, <4>3, <4>4
      <4>7. QED
        BY <2>2, <4>2, <4>5, <4>6
    <3>5. QED
      BY <1>1, <3>2, <3>3, <3>4 DEF OwnStep
  <2>3. QED
    BY <2>1, <2>2
<1>6. QED
  BY <1>3, <1>4, <1>5


LEMMA AgreeStep ==
  ASSUME SetInv, NEW p \in SetProcs, SetStep(p), calm'
  PROVE  AgreeInv'
<1> USE DEF SetInv, SetTypes
<1>1. ASSUME NEW q \in SetProcs, q # p
      PROVE  setPc'[q] = setPc[q] /\ asked'[q] = asked[q] /\ asRead'[q] = asRead[q]
  BY <1>1, OthersStay
<1>2. CASE TypeCommand(p)
  <2>1. /\ calm /\ \A q \in SetProcs : ~Busy(q)
        /\ UNCHANGED <<stores, asRead, others, wanted>>
    BY <1>2 DEF TypeCommand
  <2>2. setPc[p] = "none" /\ setPc'[p] \in {"done", "load", "config"}
    BY <1>2, OwnSteps DEF TypeCommand, OwnStep, ChangeSteps, First
  <2>3. \A q \in SetProcs : setPc[q] \in {"none", "done"}
    BY <2>1 DEF Busy
  <2>4. \A q \in SetProcs : setPc'[q] \notin {"open", "write"} /\ (Busy(q)' => q = p)
    BY <1>1, <2>2, <2>3 DEF Busy
  <2>5. \A f \in StoreFiles : Alike(f, stores[f], wanted[f])
    BY <2>1, <2>3 DEF AgreeInv
  <2>6. QED
    BY <2>1, <2>4, <2>5 DEF AgreeInv
<1>3. CASE ~TypeCommand(p)
  <2>1. calm /\ Busy(p)
    BY <1>3 DEF SetStep, ReadStore, DeleteTemplate, TruncateStore, WriteStore, OpenFails,
                WriteFails, WriteSchema, ReadConfig, ReadTemplate, StartRun, SetCrash, Busy
  <2>2. ASSUME NEW q \in SetProcs, q # p
        PROVE  setPc'[q] \in {"none", "done"} /\ setPc[q] = setPc'[q]
    BY <1>1, <2>1, <2>2 DEF AgreeInv, Busy
  <2>3. \A q, r \in SetProcs : Busy(q)' /\ Busy(r)' => q = r
    BY <2>2 DEF Busy
  <2>4. setPc[p] # "write" => \A f \in StoreFiles : Alike(f, stores[f], wanted[f])
    BY <2>1, <2>2 DEF AgreeInv
  <2>5. SUFFICES
          /\ setPc'[p] # "write" => \A f \in StoreFiles : Alike(f, stores[f], wanted[f])'
          /\ setPc'[p] = "write" =>
               \A f \in StoreFiles : asked'[p].file # f => Alike(f, stores[f], wanted[f])'
          /\ setPc'[p] \in {"open", "write"} =>
               /\ Alike(asked[p].file, asRead[p][asked[p].file], wanted[asked[p].file])'
               /\ asRead'[p][asked'[p].file].form # NoJson
          /\ setPc'[p] = "write" => others'[p] = {}
    BY <2>2, <2>3 DEF AgreeInv
  <2>6. CASE ReadStore(p)
    <3>1. asked[p] \in Changes /\ asked[p].file \in StoreFiles
      BY <2>6, ChangeFacts DEF ReadStore, CommandInv, ChangeSteps
    <3>2. /\ setPc[p] = "load" /\ UNCHANGED <<stores, asked, others, wanted>>
          /\ asRead'[p][asked[p].file] = stores[asked[p].file]
          /\ setPc'[p] \in {"done", "delete", "open"}
          /\ setPc'[p] = "open" => stores[asked[p].file].form # NoJson
      BY <2>6, <3>1 DEF ReadStore, ExitWith, Unreadable
    <3>3. QED
      BY <2>4, <3>1, <3>2 DEF Alike
  <2>7. CASE DeleteTemplate(p)
    <3>1. asked[p].kind = "delete" /\ asked[p].file = "template"
      BY <2>7, ChangeFacts DEF DeleteTemplate, CommandInv, ChangeSteps
    <3>2. /\ setPc[p] = "delete" /\ setPc'[p] = "done"
          /\ stores' = [stores EXCEPT !["template"] = NoFile]
          /\ wanted' = [wanted EXCEPT !["template"] = NoFile]
      BY <2>7, <3>1 DEF DeleteTemplate, ExitWith, AsTold
    <3>3. stores'["template"] = NoFile /\ wanted'["template"] = NoFile
      BY <3>2 DEF StoreFiles
    <3>4. Alike("template", NoFile, NoFile)
      BY AlikeToItself
    <3>5. \A f \in StoreFiles : Alike(f, stores'[f], wanted'[f])
      BY <2>4, <3>2, <3>3, <3>4 DEF StoreFiles
    <3>6. \A f \in StoreFiles : Alike(f, stores[f], wanted[f])'
      BY <3>5 DEF Alike, Kept
    <3>7. QED
      BY <3>2, <3>6
  <2>8. CASE TruncateStore(p)
    <3>1. /\ setPc[p] = "open" /\ setPc'[p] = "write"
          /\ stores' = [stores EXCEPT ![asked[p].file] = Garbled]
          /\ others'[p] = {} /\ UNCHANGED <<asked, asRead, wanted>>
      BY <2>8 DEF TruncateStore
    <3>2. /\ Alike(asked[p].file, asRead[p][asked[p].file], wanted[asked[p].file])
          /\ asRead[p][asked[p].file].form # NoJson
      BY <2>1, <3>1 DEF AgreeInv
    <3>3. QED
      BY <2>4, <3>1, <3>2 DEF Alike
  <2>9. CASE WriteStore(p)
    <3> DEFINE c == asked[p]
               read == asRead[p][c.file]
               body == Changed(c, read)
    <3>1. c \in Changes /\ c.file \in StoreFiles /\ c.kind # "delete"
      BY <2>9, ChangeFacts DEF WriteStore, CommandInv, ChangeSteps
    <3>2. /\ Alike(c.file, read, wanted[c.file]) /\ read.form # NoJson /\ others[p] = {}
          /\ \A f \in StoreFiles : c.file # f => Alike(f, stores[f], wanted[f])
      BY <2>1, <2>2, <2>9 DEF WriteStore, AgreeInv
    <3>3. /\ setPc'[p] \in {"schema", "done"} /\ wanted' = AsTold(c)
          /\ stores' = [stores EXCEPT ![c.file] = body]
      BY <2>9, <3>2 DEF WriteStore, ExitWith
    <3>4. wanted[c.file].form # NoJson
      BY <3>2 DEF Alike
    <3> DEFINE told == [k \in OptionKeys |-> IF k = TheKey THEN NewValue(c) ELSE wanted[c.file].vals[k]]
    <3>5. wanted' = [wanted EXCEPT ![c.file] = StoreOf(told, wanted[c.file].extra)]
      BY <3>1, <3>3, <3>4 DEF AsTold
    <3>6. wanted'[c.file] = StoreOf(told, wanted[c.file].extra)
      BY <3>1, <3>5
    <3> DEFINE saved == [k \in OptionKeys |-> AsSaved(k, IF k = TheKey THEN NewValue(c) ELSE read.vals[k])]
    <3>7. body = StoreOf(saved, KeepsExtra(c.file) /\ read.extra)
      BY DEF Changed, BaseOf
    <3>8. /\ body.form = "store" /\ body.vals = saved
          /\ body.extra = (KeepsExtra(c.file) /\ read.extra)
          /\ wanted'[c.file].form = "store" /\ wanted'[c.file].vals = told
          /\ wanted'[c.file].extra = wanted[c.file].extra
      BY <3>6, <3>7 DEF StoreOf
    <3>9. Alike(c.file, body, wanted'[c.file])
      <4>1. ASSUME NEW k \in OptionKeys
            PROVE  \/ saved[k] = told[k]
                   \/ /\ k \in Flags /\ told[k] \notin {Unset, "true", "false"}
                      /\ saved[k] = "false"
        <5>1. CASE k = TheKey
          BY <5>1, SettingsAssumption DEF AsSaved
        <5>2. CASE k # TheKey
          <6>1. \/ read.vals[k] = wanted[c.file].vals[k]
                \/ /\ k \in Flags /\ wanted[c.file].vals[k] \notin {Unset, "true", "false"}
                   /\ read.vals[k] = "false"
            BY <3>2 DEF Alike, Kept
          <6>2. saved[k] = AsSaved(k, read.vals[k]) /\ told[k] = wanted[c.file].vals[k]
            BY <5>2
          <6> HIDE DEF saved, told, read
          <6>3. QED
            BY <6>1, <6>2 DEF AsSaved, Unset
        <5>3. QED
          BY <5>1, <5>2
      <4> HIDE DEF saved, told
      <4>2. Kept(body, wanted'[c.file])
        BY <3>8, <4>1 DEF Kept
      <4>3. ASSUME c.file = "template"
            PROVE  body.extra = wanted'[c.file].extra
        <5>1. read.extra = wanted[c.file].extra
          BY <3>2, <4>3 DEF Alike
        <5>2. (KeepsExtra(c.file) /\ read.extra) = read.extra
          <6>1. read.extra \in BOOLEAN
            BY <3>1 DEF ExtraInv
          <6>2. KeepsExtra(c.file)
            BY <4>3 DEF KeepsExtra
          <6> HIDE DEF read
          <6>3. QED
            BY <6>1, <6>2
        <5>3. QED
          BY <3>8, <5>1, <5>2
      <4>4. QED
        BY <3>8, <4>2, <4>3 DEF Alike
    <3>10. \A f \in StoreFiles : f # c.file => stores'[f] = stores[f] /\ wanted'[f] = wanted[f]
      BY <3>3, <3>5
    <3>11. stores'[c.file] = body
      BY <3>1, <3>3
    <3> HIDE DEF body
    <3>12. \A f \in StoreFiles : Alike(f, stores'[f], wanted'[f])
      BY <3>2, <3>9, <3>10, <3>11
    <3>13. \A f \in StoreFiles : Alike(f, stores[f], wanted[f])'
      BY <3>12 DEF Alike
    <3>14. QED
      BY <3>3, <3>13
  <2>10. CASE OpenFails(p) \/ WriteSchema(p) \/ ReadConfig(p) \/ ReadTemplate(p) \/ StartRun(p)
    <3>1. /\ setPc[p] # "write" /\ setPc'[p] \notin {"open", "write"}
          /\ UNCHANGED <<stores, wanted>>
      BY <2>10 DEF OpenFails, WriteSchema, ReadConfig, ReadTemplate, StartRun, ExitWith
    <3>2. QED
      BY <2>4, <3>1 DEF Alike
  <2>11. CASE WriteFails(p) \/ SetCrash(p)
    BY <2>11 DEF WriteFails, SetCrash
  <2>12. QED
    BY <1>3, <2>6, <2>7, <2>8, <2>9, <2>10, <2>11 DEF SetStep
<1>4. QED
  BY <1>2, <1>3

LEMMA ExtraStep ==
  ASSUME SetInv, NEW p \in SetProcs, SetStep(p)
  PROVE  ExtraInv'
<1> USE DEF SetInv, SetTypes, ExtraInv
<1>1. NoFile.extra \in BOOLEAN /\ Garbled.extra \in BOOLEAN
  BY DEF NoFile, Garbled
<1>2. CASE TypeCommand(p) \/ OpenFails(p) \/ WriteFails(p) \/ WriteSchema(p) \/ StartRun(p) \/ SetCrash(p)
  BY <1>2 DEF TypeCommand, OpenFails, WriteFails, WriteSchema, StartRun, SetCrash
<1>3. CASE ReadStore(p)
  <2>1. asked[p].file \in StoreFiles
    BY <1>3, ChangeFacts DEF ReadStore, CommandInv, ChangeSteps
  <2>2. stores' = stores /\ asRead' = [asRead EXCEPT ![p][asked[p].file] = stores[asked[p].file]]
    BY <1>3 DEF ReadStore
  <2>3. QED
    BY <2>1, <2>2
<1>4. CASE ReadConfig(p) \/ ReadTemplate(p)
  BY <1>4 DEF ReadConfig, ReadTemplate, StoreFiles
<1>5. CASE DeleteTemplate(p) \/ TruncateStore(p)
  <2>1. /\ \E f \in StoreFiles \cup {asked[p].file}, content \in {NoFile, Garbled} :
             stores' = [stores EXCEPT ![f] = content]
        /\ asRead' = asRead
    BY <1>5 DEF DeleteTemplate, TruncateStore, StoreFiles
  <2>2. QED
    BY <1>1, <2>1
<1>6. CASE WriteStore(p)
  <2>1. asked[p].file \in StoreFiles
    BY <1>6, ChangeFacts DEF WriteStore, CommandInv, ChangeSteps
  <2>2. PICK content \in {Changed(asked[p], asRead[p][asked[p].file]), Garbled} :
          stores' = [stores EXCEPT ![asked[p].file] = content]
    BY <1>6 DEF WriteStore
  <2>3. Changed(asked[p], asRead[p][asked[p].file]).extra \in BOOLEAN
    <3>1. \A vals, extra : StoreOf(vals, extra).extra = extra
      BY DEF StoreOf
    <3>2. (KeepsExtra(asked[p].file) /\ asRead[p][asked[p].file].extra) \in BOOLEAN
      OBVIOUS
    <3>3. QED
      BY <3>1, <3>2 DEF Changed
  <2>4. asRead' = asRead
    BY <1>6 DEF WriteStore
  <2>5. QED
    BY <1>1, <2>1, <2>2, <2>3, <2>4
<1>7. QED
  BY <1>2, <1>3, <1>4, <1>5, <1>6 DEF SetStep

LEMMA SetStepKeeps == SetInv /\ [SetNext]_setVars => SetInv'
<1>1. SUFFICES ASSUME SetInv, [SetNext]_setVars
               PROVE  SetInv'
  OBVIOUS
<1>2. SetTypes'
  BY <1>1, SetTypesStep
<1>3. ASSUME NEW p \in SetProcs, SetStep(p)
      PROVE  SetInv'
  <2>1. AgreeInv'
    BY <1>1, <1>3, AgreeStep DEF AgreeInv
  <2>2. QED
    BY <1>1, <1>2, <1>3, <2>1, CommandStep, ExtraStep DEF SetInv
<1>4. CASE HandEdit
  <2>1. \A p \in SetProcs : setPc[p] = "none"
    BY <1>1, <1>4 DEF HandEdit, SetInv, CommandInv, SetTypes, SetProcs
  <2>2. wanted' = stores' /\ UNCHANGED <<setPc, asked, asRead, exitCode, startedWith, others, typed>>
    BY <1>4 DEF HandEdit
  <2>3. CommandInv' /\ RunInv' /\ RunsStartAsTyped'
    BY <2>1, <2>2 DEF CommandInv, RunInv, RunsStartAsTyped, ChangeSteps, RunSteps
  <2>4. AgreeInv'
    BY <2>1, <2>2, AlikeToItself DEF AgreeInv, Busy
  <2>5. ExtraInv'
    <3>1. \A content \in HandWritten : content.extra \in BOOLEAN
      <4>1. NoFile.extra = FALSE /\ Garbled.extra = FALSE
        BY DEF NoFile, Garbled
      <4>2. \A first, flag : Stored(first, flag).extra = TRUE
        BY DEF Stored, StoreOf
      <4>3. \A content \in HandWritten :
              content \in {NoFile, Garbled} \/ \E first, flag : content = Stored(first, flag)
        BY DEF HandWritten
      <4> HIDE DEF HandWritten, Stored
      <4>4. QED
        BY <4>1, <4>2, <4>3
    <3>2. stores' \in [StoreFiles -> HandWritten]
      BY <1>4 DEF HandEdit
    <3>3. QED
      BY <1>1, <2>2, <3>1, <3>2 DEF ExtraInv, SetInv
  <2>6. QED
    BY <1>2, <2>3, <2>4, <2>5 DEF SetInv
<1>5. CASE UNCHANGED setVars
  BY <1>1, <1>2, <1>5 DEF setVars, SetInv, ExtraInv, CommandInv, RunInv, AgreeInv, RunsStartAsTyped,
                          StoresReadable, Expected, Busy, Alike
<1>6. QED
  BY <1>1, <1>3, <1>4, <1>5 DEF SetNext

\* Whatever the options and however the commands of any number of processes overlap, a
\* run starts with the values promised, or not at all; and commands that do not overlap
\* and are not cut short do to both files exactly what they were told.
THEOREM SettingsStaySound == SetSpec => []SettingsAreSound
<1>1. SetInv => SettingsAreSound
  <2>1. SUFFICES ASSUME SetInv
                 PROVE  CommandsDoAsTold
    BY DEF SetInv, SettingsAreSound
  <2>2. SUFFICES ASSUME calm, NoCommand
                 PROVE  \A f \in StoreFiles : Alike(f, stores[f], wanted[f])
    BY DEF CommandsDoAsTold, Alike, StoreFiles
  <2>3. QED
    BY <2>1, <2>2 DEF SetInv, AgreeInv, NoCommand, Busy
<1>2. QED
  BY <1>1, SetBegins, SetStepKeeps, PTL DEF SetSpec

-----------------------------------------------------------------------------
(* The choice of a CQ *)

Ladder == {16, 20, 24, 28, 32, 36, 40}
Metrics == {"VMAF", "XPSNR", "SSIM"}

\* What has been measured: scores and floors are numbers.
PointsInv ==
  /\ cqPc \in {"start", "base", "low", "lowest", "high", "highest", "decide", "decided",
               "failed"}
  /\ \/ DOMAIN point \subseteq {16, 20, 24, 28, 32}
     \/ DOMAIN point \subseteq {24, 28, 32, 36, 40}
  /\ \A c \in DOMAIN point :
       point[c] /= NoPoint => point[c].p5 \in Int /\ point[c].metric \in Metrics
  /\ cqPc \in {"low", "lowest", "high", "highest", "decide", "decided"} =>
       \A c \in DOMAIN point : point[c] /= NoPoint

\* How far the probe has gone on one side: the CQs measured have no gap, and the floor
\* was open at the edge that made it go on.
WentDown(low) ==
  /\ DOMAIN point = {24, 28, 32} \cup {c \in {16, 20} : c > low}
  /\ \A c \in DOMAIN point : c <= 24 => ~Meets(c)

WentUp(high) ==
  /\ DOMAIN point = {24, 28, 32} \cup {c \in {36, 40} : c < high}
  /\ Meets(24) /\ \A c \in DOMAIN point : c >= 32 => Meets(c)

WavesInv ==
  /\ cqPc = "start" => DOMAIN point = {}
  /\ cqPc = "base" => DOMAIN point \subseteq BaseCqs
  /\ cqPc = "low" => WentDown(20)
  /\ cqPc = "lowest" => WentDown(16)
  /\ cqPc = "high" => WentUp(36)
  /\ cqPc = "highest" => WentUp(40)

\* What the points are when the decision is made.
Measured ==
  \/ DOMAIN point = {24, 28, 32} /\ Meets(24) /\ ~Meets(32)
  \/ DOMAIN point = {20, 24, 28, 32} /\ Meets(20) /\ ~Meets(24)
  \/ DOMAIN point = {16, 20, 24, 28, 32} /\ ~Meets(20) /\ ~Meets(24)
  \/ DOMAIN point = {24, 28, 32, 36} /\ Meets(24) /\ ~Meets(36)
  \/ DOMAIN point = {24, 28, 32, 36, 40} /\ Meets(24)

DecidedInv ==
  /\ cqPc = "decide" => Measured
  /\ cqPc = "decided" => UnreachableIsTried /\ ChosenMeetsFloor /\ FloorIsBracketed

CqInv == PointsInv /\ WavesInv /\ DecidedInv

LEMMA MaxInLadder ==
  ASSUME NEW S \in SUBSET Ladder, S /= {}
  PROVE  Max(S) \in S /\ \A c \in S : c <= Max(S)
<1>1. \E x \in S : \A y \in S : x >= y
  <2>1. CASE 40 \in S  BY <2>1 DEF Ladder
  <2>2. CASE 40 \notin S /\ 36 \in S  BY <2>2 DEF Ladder
  <2>3. CASE 40 \notin S /\ 36 \notin S /\ 32 \in S  BY <2>3 DEF Ladder
  <2>4. CASE 40 \notin S /\ 36 \notin S /\ 32 \notin S /\ 28 \in S  BY <2>4 DEF Ladder
  <2>5. CASE 40 \notin S /\ 36 \notin S /\ 32 \notin S /\ 28 \notin S
    <3>1. S \subseteq {16, 20, 24}  BY <2>5 DEF Ladder
    <3>2. CASE 24 \in S  BY <3>1, <3>2
    <3>3. CASE 24 \notin S /\ 20 \in S  BY <3>1, <3>3
    <3>4. CASE 24 \notin S /\ 20 \notin S
      <4>1. S = {16}  BY <3>1, <3>4
      <4>2. QED  BY <4>1
    <3>5. QED  BY <3>2, <3>3, <3>4
  <2>6. QED  BY <2>1, <2>2, <2>3, <2>4, <2>5
<1>2. S \subseteq Int  BY DEF Ladder
<1>3. Max(S) \in S /\ \A y \in S : Max(S) >= y  BY <1>1 DEF Max
<1>4. QED  BY <1>2, <1>3

LEMMA MinInLadder ==
  ASSUME NEW S \in SUBSET Ladder, S /= {}
  PROVE  Min(S) \in S /\ \A c \in S : Min(S) <= c
<1>1. \E x \in S : \A y \in S : x <= y
  <2>1. CASE 16 \in S  BY <2>1 DEF Ladder
  <2>2. CASE 16 \notin S /\ 20 \in S  BY <2>2 DEF Ladder
  <2>3. CASE 16 \notin S /\ 20 \notin S /\ 24 \in S  BY <2>3 DEF Ladder
  <2>4. CASE 16 \notin S /\ 20 \notin S /\ 24 \notin S /\ 28 \in S  BY <2>4 DEF Ladder
  <2>5. CASE 16 \notin S /\ 20 \notin S /\ 24 \notin S /\ 28 \notin S
    <3>1. S \subseteq {32, 36, 40}  BY <2>5 DEF Ladder
    <3>2. CASE 32 \in S  BY <3>1, <3>2
    <3>3. CASE 32 \notin S /\ 36 \in S  BY <3>1, <3>3
    <3>4. CASE 32 \notin S /\ 36 \notin S
      <4>1. S = {40}  BY <3>1, <3>4
      <4>2. QED  BY <4>1
    <3>5. QED  BY <3>2, <3>3, <3>4
  <2>6. QED  BY <2>1, <2>2, <2>3, <2>4, <2>5
<1>2. QED  BY <1>1 DEF Min

\* The interpolated CQ stays below the next point while the drop is less than the span.
LEMMA ShareBelow ==
  ASSUME NEW drop \in Nat, NEW step \in Nat, NEW span \in Nat, drop < span, step > 0
  PROVE  /\ (drop * step) \div span \in Nat
         /\ (drop * step) \div span < step
<1>1. drop * step \in Nat /\ span > 0  OBVIOUS
<1>2. drop * step < span * step
  <2>1. (span - drop) * step > 0  OBVIOUS
  <2>2. span * step - drop * step = (span - drop) * step  OBVIOUS
  <2>3. QED  BY <2>1, <2>2
<1>3. \A a \in Nat, b, s \in Nat : s > 0 /\ a < s * b => a \div s \in Nat /\ a \div s < b
  OBVIOUS
<1>4. QED  BY <1>1, <1>2, <1>3

LEMMA FloorsAreNumbers == \A m \in Metrics : FloorOf[m] \in Int
BY CqAssumption DEF Metrics, FloorOf

LEMMA MeasurementTypes ==
  ASSUME NEW m \in Measurements, m /= NoPoint
  PROVE  m.p5 \in Int /\ m.metric \in Metrics
<1>1. \A w : WindowScale(w) \in Metrics \cup {NoPoint}  BY DEF WindowScale, Metrics
<1>2. WindowScales \subseteq Metrics \cup {NoPoint}  BY <1>1 DEF WindowScales
<1>3. \A a, b \in WindowScales : Pooled(a, b) \in Metrics \cup {NoPoint}
  BY <1>2 DEF Pooled
<1>4. {Pooled(a, b) : a, b \in WindowScales} \ {NoPoint} \subseteq Metrics  BY <1>3
<1>5. m \in [p5 : Scores, metric : {Pooled(a, b) : a, b \in WindowScales} \ {NoPoint}]
  BY DEF Measurements
<1>6. QED  BY <1>4, <1>5, CqAssumption

LEMMA OneMore ==
  ASSUME NEW T, NEW x, NEW n \in Nat, IsFiniteSet(T), Cardinality(T) <= n
  PROVE  IsFiniteSet(T \cup {x}) /\ Cardinality(T \cup {x}) <= n + 1
<1>1. Cardinality(T) \in Nat  BY FS_CardinalityType
<1>2. CASE x \in T
  <2>1. T \cup {x} = T  BY <1>2
  <2>2. QED  BY <1>1, <2>1
<1>3. CASE x \notin T
  <2>1. IsFiniteSet(T \cup {x}) /\ Cardinality(T \cup {x}) = Cardinality(T) + 1
    BY <1>3, FS_AddElement
  <2>2. QED  BY <1>1, <2>1
<1>4. QED  BY <1>2, <1>3

LEMMA FiveAtMost ==
  ASSUME NEW S, NEW a, NEW b, NEW c, NEW d, NEW e, S \subseteq {a, b, c, d, e}
  PROVE  Cardinality(S) <= 5
<1> DEFINE Within(T, n) == IsFiniteSet(T) /\ Cardinality(T) <= n
<1>1. Within({}, 0)  BY FS_EmptySet
<1>2. \A T, x : \A n \in Nat : Within(T, n) => Within(T \cup {x}, n + 1)
  BY OneMore
<1> HIDE DEF Within
<1>3. Within({} \cup {a}, 0 + 1)  BY <1>1, <1>2
<1>4. Within({a} \cup {b}, 1 + 1)
  <2>1. {} \cup {a} = {a} /\ 0 + 1 = 1  OBVIOUS
  <2>2. Within({a}, 1)  BY <1>3, <2>1
  <2>3. QED  BY <1>2, <2>2
<1>5. Within({a, b} \cup {c}, 2 + 1)
  <2>1. {a} \cup {b} = {a, b} /\ 1 + 1 = 2  OBVIOUS
  <2>2. Within({a, b}, 2)  BY <1>4, <2>1
  <2>3. QED  BY <1>2, <2>2
<1>6. Within({a, b, c} \cup {d}, 3 + 1)
  <2>1. {a, b} \cup {c} = {a, b, c} /\ 2 + 1 = 3  OBVIOUS
  <2>2. Within({a, b, c}, 3)  BY <1>5, <2>1
  <2>3. QED  BY <1>2, <2>2
<1>7. Within({a, b, c, d} \cup {e}, 4 + 1)
  <2>1. {a, b, c} \cup {d} = {a, b, c, d} /\ 3 + 1 = 4  OBVIOUS
  <2>2. Within({a, b, c, d}, 4)  BY <1>6, <2>1
  <2>3. QED  BY <1>2, <2>2
<1>8. Within({a, b, c, d, e}, 5)
  <2>1. {a, b, c, d} \cup {e} = {a, b, c, d, e} /\ 4 + 1 = 5  OBVIOUS
  <2>2. QED  BY <1>7, <2>1
<1>9. QED  BY <1>8, FS_Subset, FS_CardinalityType DEF Within

LEMMA CqInit_Inv == CqInit => CqInv
<1>1. CqInit => DOMAIN point = {} /\ cqPc = "start"
  BY DEF CqInit
<1>2. QED  BY <1>1 DEF CqInv, PointsInv, WavesInv, DecidedInv

\* What the rules of decideCq give, on points without a gap.
LEMMA DecisionHolds ==
  ASSUME CqInv, Decide
  PROVE  UnreachableIsTried' /\ ChosenMeetsFloor' /\ FloorIsBracketed'
<1> DEFINE D == DOMAIN point
           met == {c \in D : Meets(c)}
           above == {c \in D : c > LastMet(met)}
<1>1. Measured /\ D \subseteq Ladder
  BY DEF CqInv, PointsInv, DecidedInv, Decide, Ladder
<1>2. \A c \in D : /\ point[c] /= NoPoint
                   /\ point[c].p5 \in Int /\ FloorOf[point[c].metric] \in Int
  BY FloorsAreNumbers DEF CqInv, PointsInv, Decide
<1>3. \A c \in D : Meets(c) <=> point[c].p5 >= FloorOf[point[c].metric]
  BY <1>2 DEF Meets
<1>4. point' = point /\ \A c : Meets(c)' = Meets(c)
  BY DEF Decide, Meets
<1>5. /\ cqPlan'.unreachable = (met = {})
      /\ cqPlan'.cq = IF met = {} THEN Min(D)
                      ELSE IF above = {} THEN LastMet(met)
                      ELSE Interpolated(LastMet(met), Min(above))
  BY DEF Decide
<1> HIDE DEF met, above
<1>6. CASE met = {}
  <2>1. D = {16, 20, 24, 28, 32}
    BY <1>1, <1>6 DEF Measured, met
  <2>2. Min(D) = 16
    BY <2>1, <1>1, MinInLadder
  <2>3. QED
    BY <1>4, <1>5, <1>6, <2>1, <2>2
    DEF UnreachableIsTried, ChosenMeetsFloor, FloorIsBracketed, MinCq
<1>7. CASE met /= {}
  <2> DEFINE L == LastMet(met)
  <2>1. L \in met /\ \A c \in met : c <= L
    BY <1>1, <1>7, MaxInLadder DEF met, LastMet
  <2>2. L \in D /\ Meets(L) /\ L \in Ladder /\ \A c \in D : Meets(c) => c <= L
    BY <1>1, <2>1 DEF met
  <2>3. cqPlan'.unreachable = FALSE
    BY <1>5, <1>7
  <2> HIDE DEF L
  <2>4. CASE above = {}
    <3>1. cqPlan'.cq = L  BY <1>5, <1>7, <2>4 DEF L
    <3>2. \A c \in D : c <= L
      <4>1. \A c \in D : ~(c > L)  BY <2>4 DEF above, L
      <4>2. D \subseteq Int /\ L \in Int  BY <1>1, <2>2 DEF Ladder
      <4>3. QED  BY <4>1, <4>2
    <3>3. ChosenMeetsFloor'
      BY <1>4, <2>2, <3>1 DEF ChosenMeetsFloor
    <3>4. OneScale /\ Falling => L = 40
      <4>1. SUFFICES ASSUME OneScale, Falling PROVE L = 40  OBVIOUS
      <4>2. \A c \in D : c < L => Meets(c)
        BY <4>1, <1>2, <1>3, <2>2 DEF OneScale, Falling
      <4>3. QED  BY <1>1, <2>2, <3>2, <4>2 DEF Measured
    <3>5. FloorIsBracketed'
      BY <1>4, <3>1, <3>4 DEF FloorIsBracketed, OneScale, Falling, MaxCq
    <3>6. QED  BY <2>3, <3>3, <3>5 DEF UnreachableIsTried
  <2>5. CASE above /= {}
    <3> DEFINE H == Min(above)
    <3>1. H \in above /\ \A c \in above : H <= c
      BY <1>1, <2>5, MinInLadder DEF above
    <3>2. H \in D /\ H > L /\ H \in Ladder /\ \A c \in D : c > L => H <= c
      BY <1>1, <3>1 DEF above, L
    <3>3. cqPlan'.cq = Interpolated(L, H)  BY <1>5, <1>7, <2>5 DEF L
    <3> HIDE DEF H
    <3>4. ~Meets(H)  BY <2>2, <3>2 DEF Ladder
    <3>5. H - L = 4
      BY <1>1, <2>2, <3>2 DEF Measured
    <3>6. SUFFICES ASSUME OneScale
                   PROVE  ChosenMeetsFloor' /\ FloorIsBracketed'
      BY <1>4, <2>3 DEF UnreachableIsTried, ChosenMeetsFloor, FloorIsBracketed, OneScale
    <3> DEFINE span == point[L].p5 - point[H].p5
               drop == point[L].p5 - FloorOf[point[L].metric]
    <3>7. span \in Nat /\ drop \in Nat /\ drop < span
      BY <3>6, <1>2, <1>3, <2>2, <3>2, <3>4 DEF OneScale
    <3>8. Interpolated(L, H) = L + (drop * 4) \div span
      BY <3>5, <3>7 DEF Interpolated
    <3> HIDE DEF span, drop
    <3>9. (drop * 4) \div span \in Nat /\ (drop * 4) \div span < 4
      BY <3>7, ShareBelow
    <3>10. cqPlan'.cq \in Int /\ L <= cqPlan'.cq /\ cqPlan'.cq < H
      BY <3>3, <3>5, <3>8, <3>9, <2>2, <3>2 DEF Ladder
    <3>11. cqPlan'.cq \in D => cqPlan'.cq = L
      BY <3>2, <3>10, <1>1, <2>2 DEF Ladder
    <3>12. \A c \in D : Meets(c) => c <= cqPlan'.cq
      BY <2>2, <3>10, <1>1 DEF Ladder
    <3>13. ChosenMeetsFloor'
      BY <1>4, <2>2, <3>11, <3>12 DEF ChosenMeetsFloor
    <3>14. H > cqPlan'.cq /\ H - cqPlan'.cq <= CqStep
      BY <3>5, <3>10, <2>2, <3>2 DEF CqStep, Ladder
    <3>15. FloorIsBracketed'
      BY <1>4, <3>2, <3>4, <3>14 DEF FloorIsBracketed
    <3>16. QED  BY <3>13, <3>15
  <2>6. QED  BY <2>4, <2>5
<1>8. QED  BY <1>6, <1>7

\* A new point changes no other, and one that succeeded has a score and a scale.
LEMMA PointAdded ==
  ASSUME NEW c, NEW m \in Measurements, point' = WithPoint(c, m),
         c \notin DOMAIN point, PointsInv
  PROVE  /\ DOMAIN point' = DOMAIN point \cup {c}
         /\ point'[c] = m
         /\ \A d \in DOMAIN point : point'[d] = point[d] /\ Meets(d)' = Meets(d)
         /\ \A d \in DOMAIN point' :
              point'[d] /= NoPoint => point'[d].p5 \in Int /\ point'[d].metric \in Metrics
         /\ m /= NoPoint => (Meets(c)' <=> m.p5 >= FloorOf[m.metric])
<1>1. /\ DOMAIN point' = DOMAIN point \cup {c}
      /\ point'[c] = m
      /\ \A d \in DOMAIN point : point'[d] = point[d]
  BY DEF WithPoint
<1>2. \A d \in DOMAIN point' :
        point'[d] /= NoPoint => point'[d].p5 \in Int /\ point'[d].metric \in Metrics
  BY <1>1, MeasurementTypes DEF PointsInv
<1>3. \A d \in DOMAIN point : Meets(d)' = Meets(d)
  BY <1>1 DEF Meets
<1>4. m /= NoPoint => (Meets(c)' <=> m.p5 >= FloorOf[m.metric])
  BY <1>1 DEF Meets
<1>5. QED  BY <1>1, <1>2, <1>3, <1>4

\* What one more point at the edge or next to it leaves to decide.
LEMMA SideStep ==
  ASSUME CqInv,
         \/ Side("low", MinCq + CqStep, FALSE, "lowest") \/ Edge("lowest", MinCq)
         \/ Side("high", MaxCq - CqStep, TRUE, "highest") \/ Edge("highest", MaxCq)
  PROVE  CqInv'
<1>1. CASE Side("low", MinCq + CqStep, FALSE, "lowest")
  <2>1. PICK m \in Measurements :
          /\ point' = WithPoint(20, m)
          /\ cqPc' = IF m = NoPoint THEN "failed"
                     ELSE IF GoesToEdge(m, FALSE) THEN "lowest" ELSE "decide"
    <3>1. MinCq + CqStep = 20  BY DEF MinCq, CqStep
    <3>2. QED  BY <1>1, <3>1 DEF Side
  <2>2. cqPc = "low" /\ WentDown(20)  BY <1>1 DEF CqInv, WavesInv, Side
  <2>3. DOMAIN point = {24, 28, 32} /\ ~Meets(24)  BY <2>2 DEF WentDown
  <2>4. /\ DOMAIN point' = {24, 28, 32} \cup {20}
        /\ point'[20] = m /\ ~Meets(24)'
        /\ \A d \in DOMAIN point : point'[d] = point[d]
        /\ \A d \in DOMAIN point' :
             point'[d] /= NoPoint => point'[d].p5 \in Int /\ point'[d].metric \in Metrics
        /\ m /= NoPoint => (Meets(20)' <=> m.p5 >= FloorOf[m.metric])
    <3>1. 20 \notin DOMAIN point /\ PointsInv  BY <2>3 DEF CqInv
    <3>2. QED  BY <2>1, <2>3, <3>1, PointAdded
  <2>5. PointsInv'
    BY <2>1, <2>2, <2>3, <2>4 DEF CqInv, PointsInv
  <2>6. m /= NoPoint => (GoesToEdge(m, FALSE) <=> ~(m.p5 >= FloorOf[m.metric]))
    BY MeasurementTypes, FloorsAreNumbers DEF GoesToEdge
  <2>7. cqPc' = "lowest" => WentDown(16)'
    <3>1. SUFFICES ASSUME cqPc' = "lowest" PROVE WentDown(16)'  OBVIOUS
    <3>2. ~Meets(20)'  BY <2>1, <2>4, <2>6, <3>1
    <3>3. DOMAIN point' = {24, 28, 32} \cup {c \in {16, 20} : c > 16}  BY <2>4
    <3>4. \A c \in DOMAIN point' : c <= 24 => c = 20 \/ c = 24  BY <2>4
    <3>5. \A c \in DOMAIN point' : c <= 24 => ~Meets(c)'  BY <2>4, <3>2, <3>4
    <3>6. QED  BY <3>3, <3>5 DEF WentDown
  <2>8. cqPc' = "decide" => Measured'
    BY <2>1, <2>4, <2>6 DEF Measured
  <2>9. QED  BY <2>1, <2>5, <2>7, <2>8 DEF CqInv, WavesInv, DecidedInv
<1>2. CASE Edge("lowest", MinCq)
  <2>1. PICK m \in Measurements :
          /\ point' = WithPoint(16, m)
          /\ cqPc' = IF m = NoPoint THEN "failed" ELSE "decide"
    BY <1>2 DEF Edge, MinCq
  <2>2. cqPc = "lowest" /\ WentDown(16)  BY <1>2 DEF CqInv, WavesInv, Edge
  <2>3. DOMAIN point = {20, 24, 28, 32} /\ ~Meets(24) /\ ~Meets(20)
    BY <2>2 DEF WentDown
  <2>4. /\ DOMAIN point' = {20, 24, 28, 32} \cup {16}
        /\ point'[16] = m /\ ~Meets(24)' /\ ~Meets(20)'
        /\ \A d \in DOMAIN point : point'[d] = point[d]
        /\ \A d \in DOMAIN point' :
             point'[d] /= NoPoint => point'[d].p5 \in Int /\ point'[d].metric \in Metrics
    <3>1. 16 \notin DOMAIN point /\ PointsInv  BY <2>3 DEF CqInv
    <3>2. QED  BY <2>1, <2>3, <3>1, PointAdded
  <2>5. PointsInv'
    BY <2>1, <2>2, <2>3, <2>4 DEF CqInv, PointsInv
  <2>6. cqPc' = "decide" => Measured'
    BY <2>4 DEF Measured
  <2>7. QED  BY <2>1, <2>5, <2>6 DEF CqInv, WavesInv, DecidedInv
<1>3. CASE Side("high", MaxCq - CqStep, TRUE, "highest")
  <2>1. PICK m \in Measurements :
          /\ point' = WithPoint(36, m)
          /\ cqPc' = IF m = NoPoint THEN "failed"
                     ELSE IF GoesToEdge(m, TRUE) THEN "highest" ELSE "decide"
    <3>1. MaxCq - CqStep = 36  BY DEF MaxCq, CqStep
    <3>2. QED  BY <1>3, <3>1 DEF Side
  <2>2. cqPc = "high" /\ WentUp(36)  BY <1>3 DEF CqInv, WavesInv, Side
  <2>3. DOMAIN point = {24, 28, 32} /\ Meets(24) /\ Meets(32)  BY <2>2 DEF WentUp
  <2>4. /\ DOMAIN point' = {24, 28, 32} \cup {36}
        /\ point'[36] = m /\ Meets(24)' /\ Meets(32)'
        /\ \A d \in DOMAIN point : point'[d] = point[d]
        /\ \A d \in DOMAIN point' :
             point'[d] /= NoPoint => point'[d].p5 \in Int /\ point'[d].metric \in Metrics
        /\ m /= NoPoint => (Meets(36)' <=> m.p5 >= FloorOf[m.metric])
    <3>1. 36 \notin DOMAIN point /\ PointsInv  BY <2>3 DEF CqInv
    <3>2. QED  BY <2>1, <2>3, <3>1, PointAdded
  <2>5. PointsInv'
    BY <2>1, <2>2, <2>3, <2>4 DEF CqInv, PointsInv
  <2>6. m /= NoPoint => (GoesToEdge(m, TRUE) <=> m.p5 >= FloorOf[m.metric])
    BY MeasurementTypes, FloorsAreNumbers DEF GoesToEdge
  <2>7. cqPc' = "highest" => WentUp(40)'
    <3>1. SUFFICES ASSUME cqPc' = "highest" PROVE WentUp(40)'  OBVIOUS
    <3>2. Meets(36)'  BY <2>1, <2>4, <2>6, <3>1
    <3>3. DOMAIN point' = {24, 28, 32} \cup {c \in {36, 40} : c < 40}  BY <2>4
    <3>4. \A c \in DOMAIN point' : c >= 32 => c = 32 \/ c = 36  BY <2>4
    <3>5. \A c \in DOMAIN point' : c >= 32 => Meets(c)'  BY <2>4, <3>2, <3>4
    <3>6. QED  BY <2>4, <3>3, <3>5 DEF WentUp
  <2>8. cqPc' = "decide" => Measured'
    BY <2>1, <2>4, <2>6 DEF Measured
  <2>9. QED  BY <2>1, <2>5, <2>7, <2>8 DEF CqInv, WavesInv, DecidedInv
<1>4. CASE Edge("highest", MaxCq)
  <2>1. PICK m \in Measurements :
          /\ point' = WithPoint(40, m)
          /\ cqPc' = IF m = NoPoint THEN "failed" ELSE "decide"
    BY <1>4 DEF Edge, MaxCq
  <2>2. cqPc = "highest" /\ WentUp(40)  BY <1>4 DEF CqInv, WavesInv, Edge
  <2>3. DOMAIN point = {24, 28, 32, 36} /\ Meets(24)
    BY <2>2 DEF WentUp
  <2>4. /\ DOMAIN point' = {24, 28, 32, 36} \cup {40}
        /\ point'[40] = m /\ Meets(24)'
        /\ \A d \in DOMAIN point : point'[d] = point[d]
        /\ \A d \in DOMAIN point' :
             point'[d] /= NoPoint => point'[d].p5 \in Int /\ point'[d].metric \in Metrics
    <3>1. 40 \notin DOMAIN point /\ PointsInv  BY <2>3 DEF CqInv
    <3>2. QED  BY <2>1, <2>3, <3>1, PointAdded
  <2>5. PointsInv'
    BY <2>1, <2>2, <2>3, <2>4 DEF CqInv, PointsInv
  <2>6. cqPc' = "decide" => Measured'
    BY <2>4 DEF Measured
  <2>7. QED  BY <2>1, <2>5, <2>6 DEF CqInv, WavesInv, DecidedInv
<1>5. QED  BY <1>1, <1>2, <1>3, <1>4

LEMMA CqStep_Inv == CqInv /\ [CqNext]_cqVars => CqInv'
<1> SUFFICES ASSUME CqInv, [CqNext]_cqVars PROVE CqInv'  OBVIOUS
<1>1. CASE BeginCq
  BY <1>1 DEF BeginCq, CqInv, PointsInv, WavesInv, DecidedInv
<1>2. ASSUME NEW c \in BaseCqs, MeasureBase(c) PROVE CqInv'
  <2>1. PICK m \in Measurements : point' = WithPoint(c, m)  BY <1>2 DEF MeasureBase
  <2>2. /\ cqPc = "base" /\ cqPc' = "base" /\ c \notin DOMAIN point
        /\ DOMAIN point \subseteq BaseCqs
    BY <1>2 DEF MeasureBase, CqInv, WavesInv
  <2>3. /\ DOMAIN point' = DOMAIN point \cup {c}
        /\ \A d \in DOMAIN point' :
             point'[d] /= NoPoint => point'[d].p5 \in Int /\ point'[d].metric \in Metrics
    BY <2>1, <2>2, PointAdded DEF CqInv
  <2>4. PointsInv'  BY <2>2, <2>3 DEF PointsInv, BaseCqs
  <2>5. QED  BY <2>2, <2>3, <2>4 DEF CqInv, WavesInv, DecidedInv
<1>3. CASE JoinBase
  <2>1. /\ cqPc = "base" /\ DOMAIN point = {24, 28, 32} /\ point' = point
        /\ \A c : Meets(c)' = Meets(c)
    BY <1>3 DEF JoinBase, BaseCqs, Meets
  <2>2. Min(BaseCqs) = 24 /\ Max(BaseCqs) = 32
    <3>1. BaseCqs \in SUBSET Ladder /\ BaseCqs /= {}  BY DEF BaseCqs, Ladder
    <3>2. QED  BY <3>1, MinInLadder, MaxInLadder DEF BaseCqs
  <2>3. cqPc' = IF \E c \in BaseCqs : point[c] = NoPoint THEN "failed"
                ELSE IF ~Meets(24) THEN "low"
                ELSE IF Meets(32) THEN "high" ELSE "decide"
    BY <1>3, <2>2 DEF JoinBase, LowSide
  <2>4. PointsInv'
    BY <2>1, <2>3 DEF CqInv, PointsInv, BaseCqs
  <2>5. cqPc' = "low" => WentDown(20)'  BY <2>1, <2>3 DEF WentDown
  <2>6. cqPc' = "high" => WentUp(36)'  BY <2>1, <2>3 DEF WentUp
  <2>7. cqPc' = "decide" => Measured'  BY <2>1, <2>3 DEF Measured
  <2>8. QED  BY <2>3, <2>4, <2>5, <2>6, <2>7 DEF CqInv, WavesInv, DecidedInv
<1>4. CASE \/ Side("low", MinCq + CqStep, FALSE, "lowest") \/ Edge("lowest", MinCq)
           \/ Side("high", MaxCq - CqStep, TRUE, "highest") \/ Edge("highest", MaxCq)
  BY <1>4, SideStep
<1>5. CASE Decide
  <2>1. cqPc' = "decided" /\ point' = point /\ cqPc = "decide"  BY <1>5 DEF Decide
  <2>2. PointsInv'  BY <2>1 DEF CqInv, PointsInv
  <2>3. QED  BY <1>5, <2>1, <2>2, DecisionHolds DEF CqInv, WavesInv, DecidedInv
<1>6. CASE UNCHANGED cqVars
  <2>1. PointsInv'  BY <1>6 DEF cqVars, CqInv, PointsInv
  <2>2. WavesInv'  BY <1>6 DEF cqVars, CqInv, WavesInv, WentDown, WentUp, Meets
  <2>3. DecidedInv'
    BY <1>6 DEF cqVars, CqInv, DecidedInv, Measured, Meets, UnreachableIsTried,
                ChosenMeetsFloor, FloorIsBracketed, OneScale, Falling
  <2>4. QED  BY <2>1, <2>2, <2>3 DEF CqInv
<1>7. QED  BY <1>1, <1>2, <1>3, <1>4, <1>5, <1>6 DEF CqNext

LEMMA CqInvIsEnough == CqInv => DecisionIsSound
<1> SUFFICES ASSUME CqInv PROVE DecisionIsSound  OBVIOUS
<1>1. Cardinality(DOMAIN point) <= 5
  BY FiveAtMost DEF CqInv, PointsInv
<1>2. QED  BY <1>1 DEF CqInv, DecidedInv, DecisionIsSound, MaxProbePoints

\* For any scores and floors, the decision is sound.
LEMMA DecisionsAreSound == CqSpec => []DecisionIsSound
<1>1. QED  BY CqInit_Inv, CqStep_Inv, CqInvIsEnough, PTL DEF CqSpec

-----------------------------------------------------------------------------
(* The probe phase over a batch *)

\* What the cache promises of the entries of one key space, whoever stores them.
KeysAreUnique(S) == \A e, f \in S : e.key = f.key => e = f
EntriesAreTrue(S) == \A e \in S : e.of = e.key.ver \/ e.raced

Sound(S) == Cardinality(S) <= MaxEntries /\ KeysAreUnique(S) /\ EntriesAreTrue(S)

CacheInv == cacheFile /= TornCache => Sound(cacheFile)

ShapeInv(p) ==
  /\ prober[p].pc \in {"idle", "probe", "save", "replace", "collect", "canceled", "done"}
  /\ DOMAIN prober[p] =
       IF prober[p].pc = "idle" THEN {"pc"}
       ELSE IF prober[p].pc = "done" THEN {"pc", "results"}
       ELSE {"pc", "stop", "staged", "plans", "taskVids", "outcomes"}

\* A phase at work: every video is decided or has a task, and a stop is the only
\* reason for a task to be left out; what it decided itself is true of the version on
\* disk, unless the source was replaced meanwhile.
NoVideoLost(p) ==
  /\ DOMAIN prober[p].taskVids = DOMAIN prober[p].outcomes
  /\ \A v \in Videos :
       \/ prober[p].plans[v].probed
       \/ \E t \in DOMAIN prober[p].outcomes : prober[p].taskVids[t] = v
  /\ \A t \in DOMAIN prober[p].outcomes :
       prober[p].outcomes[t] \in {"waiting", "ended", "skipped"}
  /\ ~prober[p].stop => \A t \in DOMAIN prober[p].outcomes : prober[p].outcomes[t] /= "skipped"
  /\ prober[p].pc /= "probe" =>
       /\ ~prober[p].stop
       /\ \A t \in DOMAIN prober[p].outcomes : prober[p].outcomes[t] = "ended"

PlansAreTrue(p) ==
  /\ DOMAIN prober[p].plans = Videos
  /\ \A v \in Videos :
       /\ DOMAIN prober[p].plans[v] = {"probed", "fromCache", "of", "raced"}
       /\ Fresh(prober[p].plans[v]) =>
            prober[p].plans[v].of = version[v] \/ prober[p].plans[v].raced

PhaseInv(p) ==
  /\ ShapeInv(p)
  /\ Probing(p) => NoVideoLost(p) /\ PlansAreTrue(p)
  /\ prober[p].pc = "replace" => Sound(prober[p].staged)
  /\ prober[p].pc = "done" => DOMAIN prober[p].results = Videos

ProbeInv ==
  /\ DOMAIN version = Videos /\ DOMAIN prober = Probers
  /\ CacheInv
  /\ \A p \in Probers : PhaseInv(p)

LEMMA ProbeInit_Inv == ProbeInit => ProbeInv
<1> SUFFICES ASSUME ProbeInit PROVE ProbeInv  OBVIOUS
<1>1. Sound({})
  BY FS_EmptySet, ProbeAssumption DEF Sound, KeysAreUnique, EntriesAreTrue
<1>2. \A p \in Probers : PhaseInv(p)
  BY DEF ProbeInit, PhaseInv, ShapeInv, Idle, Probing
<1>3. QED  BY <1>1, <1>2 DEF ProbeInit, ProbeInv, CacheInv

\* A step of one process concerns that process and the cache only.
LEMMA ProbersStay ==
  ASSUME ProbeInv, NEW p \in Probers, version' = version, DOMAIN prober' = Probers,
         \A q \in Probers : q /= p => prober'[q] = prober[q],
         CacheInv', PhaseInv(p)'
  PROVE  ProbeInv'
<1>1. ASSUME NEW q \in Probers, q /= p PROVE PhaseInv(q)'
  <2>1. prober'[q] = prober[q]  BY <1>1
  <2>2. PhaseInv(q)  BY DEF ProbeInv
  <2>3. QED
    BY <2>1, <2>2 DEF PhaseInv, ShapeInv, Probing, NoVideoLost, PlansAreTrue
<1>2. QED  BY <1>1 DEF ProbeInv

\* The steps that change no more than the phase of one process.
LEMMA PhaseStep ==
  ASSUME ProbeInv, NEW p \in Probers, NEW s, prober' = [prober EXCEPT ![p] = s],
         UNCHANGED <<version, cacheFile>>,
         PhaseInv(p)'
  PROVE  ProbeInv'
<1>1. /\ DOMAIN prober' = Probers
      /\ \A q \in Probers : q /= p => prober'[q] = prober[q]
  BY DEF ProbeInv
<1>2. CacheInv'  BY DEF ProbeInv, CacheInv
<1>3. QED  BY <1>1, <1>2, ProbersStay

\* What save writes is sound when what it read and what it adds are.
LEMMA SavedIsSound ==
  ASSUME NEW entries, NEW updates, NEW kept \in Evict(CacheMerged(entries, updates)),
         KeysAreUnique(entries), EntriesAreTrue(entries),
         KeysAreUnique(updates), EntriesAreTrue(updates)
  PROVE  Sound(kept)
<1>1. KeysAreUnique(CacheMerged(entries, updates))
  BY DEF CacheMerged, KeysAreUnique
<1>2. EntriesAreTrue(CacheMerged(entries, updates))
  BY DEF CacheMerged, EntriesAreTrue
<1>3. /\ kept \subseteq CacheMerged(entries, updates)
      /\ Cardinality(kept) <= MaxEntries
  BY ProbeAssumption DEF Evict
<1>4. QED  BY <1>1, <1>2, <1>3 DEF Sound, KeysAreUnique, EntriesAreTrue

LEMMA Scan_Inv == ASSUME ProbeInv, NEW p \in Probers, ScanCache(p) PROVE ProbeInv'
<1>1. PICK tasks \in TasksOf({v \in Videos : Hits(v) = {}}) :
        prober' = [prober EXCEPT ![p] =
          [pc |-> "probe", stop |-> FALSE, staged |-> {},
           plans |-> [v \in Videos |-> IF Hits(v) = {} THEN Unprobed ELSE HitPlan(v)],
           taskVids |-> tasks, outcomes |-> [t \in DOMAIN tasks |-> "waiting"]]]
  BY DEF ScanCache
<1>2. prober'[p] =
        [pc |-> "probe", stop |-> FALSE, staged |-> {},
         plans |-> [v \in Videos |-> IF Hits(v) = {} THEN Unprobed ELSE HitPlan(v)],
         taskVids |-> tasks, outcomes |-> [t \in DOMAIN tasks |-> "waiting"]]
  BY <1>1 DEF ProbeInv
<1>3. UNCHANGED <<version, cacheFile>>  BY DEF ScanCache
<1>4. \A v \in Videos : Hits(v) = {} => \E t \in DOMAIN tasks : tasks[t] = v
  BY DEF TasksOf
<1>5. ShapeInv(p)'  BY <1>2 DEF ShapeInv
<1>6. NoVideoLost(p)'
  BY <1>2, <1>4 DEF NoVideoLost, Unprobed, HitPlan
<1>7. PlansAreTrue(p)'
  BY <1>2, <1>3 DEF PlansAreTrue, Unprobed, HitPlan, Fresh
<1>8. PhaseInv(p)'  BY <1>2, <1>5, <1>6, <1>7 DEF PhaseInv
<1>9. QED  BY <1>1, <1>3, <1>8, PhaseStep

LEMMA Task_Inv ==
  ASSUME ProbeInv, NEW p \in Probers, NEW t \in Videos, ProbeTask(p, t)
  PROVE  ProbeInv'
<1> DEFINE v == prober[p].taskVids[t]
<1>1. PICK plan \in {Unprobed, [Unprobed EXCEPT !.probed = TRUE, !.of = version[v]]} :
        prober' = [prober EXCEPT ![p].plans[v] = plan, ![p].outcomes[t] = "ended"]
  BY DEF ProbeTask
<1>2. UNCHANGED <<version, cacheFile>>  BY DEF ProbeTask
<1>3. PhaseInv(p) /\ prober[p].pc = "probe" /\ t \in DOMAIN prober[p].outcomes
  BY DEF ProbeInv, ProbeTask
<1>4. NoVideoLost(p) /\ PlansAreTrue(p) /\ ShapeInv(p)
  BY <1>3 DEF PhaseInv, Probing
<1> HIDE DEF v
<1>5. /\ DOMAIN prober' = Probers
      /\ \A q \in Probers : q /= p => prober'[q] = prober[q]
  BY <1>1 DEF ProbeInv
<1>6. prober'[p] = [prober[p] EXCEPT !.plans[v] = plan, !.outcomes[t] = "ended"]
  <2>1. DOMAIN prober = Probers  BY DEF ProbeInv
  <2>2. [prober EXCEPT ![p].plans[v] = plan][p] = [prober[p] EXCEPT !.plans[v] = plan]
    BY <2>1
  <2>3. QED  BY <1>1, <2>1, <2>2
<1>7. /\ DOMAIN prober'[p] = DOMAIN prober[p]
      /\ prober'[p].pc = "probe" /\ prober'[p].stop = prober[p].stop
      /\ prober'[p].taskVids = prober[p].taskVids
      /\ prober'[p].plans = [prober[p].plans EXCEPT ![v] = plan]
      /\ prober'[p].outcomes = [prober[p].outcomes EXCEPT ![t] = "ended"]
  BY <1>3, <1>4, <1>6 DEF ShapeInv
<1>8. ShapeInv(p)'  BY <1>3, <1>4, <1>7 DEF ShapeInv
<1>9. NoVideoLost(p)'
  <2>1. \A w \in Videos : w /= v => prober'[p].plans[w] = prober[p].plans[w]
    BY <1>4, <1>7 DEF PlansAreTrue
  <2>2. prober[p].taskVids[t] = v  BY DEF v
  <2>3. QED  BY <1>3, <1>4, <1>7, <2>1, <2>2 DEF NoVideoLost
<1>10. PlansAreTrue(p)'
  <2>1. \A w \in Videos : prober'[p].plans[w] = IF w = v THEN plan ELSE prober[p].plans[w]
    BY <1>4, <1>7 DEF PlansAreTrue
  <2>2. /\ DOMAIN plan = {"probed", "fromCache", "of", "raced"}
        /\ Fresh(plan) => plan.of = version[v]
    <3>1. CASE plan = Unprobed  BY <3>1 DEF Unprobed, Fresh
    <3>2. CASE plan = [Unprobed EXCEPT !.probed = TRUE, !.of = version[v]]
      <4>1. plan = [probed |-> TRUE, fromCache |-> FALSE, of |-> version[v],
                    raced |-> FALSE]
        BY <3>2 DEF Unprobed
      <4>2. QED  BY <4>1
    <3>3. QED  BY <1>1, <3>1, <3>2
  <2>3. QED  BY <1>2, <1>4, <1>7, <2>1, <2>2 DEF PlansAreTrue
<1>11. PhaseInv(p)'  BY <1>7, <1>8, <1>9, <1>10 DEF PhaseInv
<1>12. QED  BY <1>2, <1>5, <1>11, ProbersStay DEF ProbeInv, CacheInv

LEMMA Stop_Inv == ASSUME ProbeInv, NEW p \in Probers, StopProbing(p) PROVE ProbeInv'
<1> DEFINE halted == [t \in DOMAIN prober[p].outcomes |->
                        IF prober[p].outcomes[t] = "waiting" THEN "skipped"
                        ELSE prober[p].outcomes[t]]
<1>1. prober' = [prober EXCEPT ![p] = [prober[p] EXCEPT !.stop = TRUE,
                                                        !.outcomes = halted]]
  BY DEF StopProbing
<1>2. UNCHANGED <<version, cacheFile>>  BY DEF StopProbing
<1>3. PhaseInv(p) /\ prober[p].pc = "probe"  BY DEF ProbeInv, StopProbing
<1>4. NoVideoLost(p) /\ PlansAreTrue(p) /\ ShapeInv(p)
  BY <1>3 DEF PhaseInv, Probing
<1>5. /\ DOMAIN prober'[p] = DOMAIN prober[p]
      /\ prober'[p].pc = "probe" /\ prober'[p].stop = TRUE
      /\ prober'[p].taskVids = prober[p].taskVids
      /\ prober'[p].plans = prober[p].plans
      /\ prober'[p].outcomes = halted
  BY <1>1, <1>3, <1>4 DEF ShapeInv, ProbeInv
<1>6. ShapeInv(p)'  BY <1>3, <1>4, <1>5 DEF ShapeInv
<1>7. NoVideoLost(p)'  BY <1>4, <1>5 DEF NoVideoLost
<1>8. PlansAreTrue(p)'  BY <1>2, <1>4, <1>5 DEF PlansAreTrue
<1>9. PhaseInv(p)'  BY <1>5, <1>6, <1>7, <1>8 DEF PhaseInv
<1>10. QED  BY <1>1, <1>2, <1>9, PhaseStep

LEMMA Joined_Inv == ASSUME ProbeInv, NEW p \in Probers, TasksJoined(p) PROVE ProbeInv'
<1> DEFINE next == IF prober[p].stop THEN "canceled"
                   ELSE IF UpdatesOf(p) = {} THEN "collect" ELSE "save"
<1>1. prober' = [prober EXCEPT ![p] = [prober[p] EXCEPT !.pc = next]]
  BY DEF TasksJoined
<1>2. UNCHANGED <<version, cacheFile>>  BY DEF TasksJoined
<1>3. PhaseInv(p) /\ prober[p].pc = "probe"  BY DEF ProbeInv, TasksJoined
<1>4. NoVideoLost(p) /\ PlansAreTrue(p) /\ ShapeInv(p)
  BY <1>3 DEF PhaseInv, Probing
<1>5. /\ DOMAIN prober'[p] = DOMAIN prober[p]
      /\ prober'[p].pc = next /\ prober'[p].stop = prober[p].stop
      /\ prober'[p].taskVids = prober[p].taskVids
      /\ prober'[p].plans = prober[p].plans
      /\ prober'[p].outcomes = prober[p].outcomes
  BY <1>1, <1>3, <1>4 DEF ShapeInv, ProbeInv
<1>6. ShapeInv(p)'  BY <1>3, <1>4, <1>5 DEF ShapeInv
<1>7. Probing(p)' => ~prober[p].stop  BY <1>5 DEF Probing
<1>8. \A t \in DOMAIN prober[p].outcomes : prober[p].outcomes[t] /= "waiting"
  BY DEF TasksJoined
<1>9. Probing(p)' => NoVideoLost(p)'
  BY <1>4, <1>5, <1>7, <1>8 DEF NoVideoLost
<1>10. PlansAreTrue(p)'  BY <1>2, <1>4, <1>5 DEF PlansAreTrue
<1>11. PhaseInv(p)'  BY <1>5, <1>6, <1>9, <1>10 DEF PhaseInv
<1>12. QED  BY <1>1, <1>2, <1>11, PhaseStep

LEMMA Merge_Inv == ASSUME ProbeInv, NEW p \in Probers, MergeSave(p) PROVE ProbeInv'
<1> DEFINE stamped == {[key |-> u.key, of |-> u.of, raced |-> u.raced, ts |-> clockMs + 1] :
                         u \in UpdatesOf(p)}
<1>1. PICK kept \in Evict(CacheMerged(Loaded, stamped)) :
        prober' = [prober EXCEPT ![p].staged = kept, ![p].pc = "replace"]
  BY DEF MergeSave
<1>2. prober' = [prober EXCEPT ![p] = [prober[p] EXCEPT !.staged = kept, !.pc = "replace"]]
  BY <1>1
<1>3. UNCHANGED <<version, cacheFile>>  BY DEF MergeSave
<1>4. PhaseInv(p) /\ prober[p].pc = "save"  BY DEF ProbeInv, MergeSave
<1>5. NoVideoLost(p) /\ PlansAreTrue(p) /\ ShapeInv(p)
  BY <1>4 DEF PhaseInv, Probing
<1>6. /\ DOMAIN prober'[p] = DOMAIN prober[p]
      /\ prober'[p].pc = "replace" /\ prober'[p].stop = prober[p].stop
      /\ prober'[p].taskVids = prober[p].taskVids
      /\ prober'[p].plans = prober[p].plans
      /\ prober'[p].outcomes = prober[p].outcomes
      /\ prober'[p].staged = kept
  BY <1>2, <1>4, <1>5 DEF ShapeInv, ProbeInv
<1>7. ShapeInv(p)'  BY <1>4, <1>5, <1>6 DEF ShapeInv
<1>8. NoVideoLost(p)'  BY <1>4, <1>5, <1>6 DEF NoVideoLost
<1>9. PlansAreTrue(p)'  BY <1>3, <1>5, <1>6 DEF PlansAreTrue
<1>10. Sound(kept)
  <2>1. KeysAreUnique(Loaded) /\ EntriesAreTrue(Loaded)
    BY DEF ProbeInv, CacheInv, Sound, Loaded, KeysAreUnique, EntriesAreTrue
  <2>2. EntriesAreTrue(stamped)
    <3>1. \A u \in UpdatesOf(p) : u.of = u.key.ver \/ u.raced
      BY <1>5 DEF UpdatesOf, KeyOf, PlansAreTrue
    <3>2. QED  BY <3>1 DEF EntriesAreTrue
  <2>3. KeysAreUnique(stamped)
    <3>1. \A u, w \in UpdatesOf(p) : u.key = w.key => u = w
      <4>1. \A v, w \in Videos : KeyOf(v) = KeyOf(w) => v = w
        <5>1. \A v : KeyOf(v).video = v  BY DEF KeyOf
        <5>2. QED  BY <5>1
      <4>2. QED  BY <4>1 DEF UpdatesOf
    <3>2. QED  BY <3>1 DEF KeysAreUnique
  <2> HIDE DEF stamped
  <2>4. QED  BY <2>1, <2>2, <2>3, SavedIsSound
<1>11. PhaseInv(p)'  BY <1>6, <1>7, <1>8, <1>9, <1>10 DEF PhaseInv
<1>12. QED  BY <1>2, <1>3, <1>11, PhaseStep

LEMMA Replace_Inv == ASSUME ProbeInv, NEW p \in Probers, ReplaceCache(p) PROVE ProbeInv'
<1>1. prober' = [prober EXCEPT ![p] = [prober[p] EXCEPT !.pc = "collect"]]
  BY DEF ReplaceCache
<1>2. version' = version /\ cacheFile' \in {prober[p].staged, TornCache, cacheFile}
  BY DEF ReplaceCache
<1>3. PhaseInv(p) /\ prober[p].pc = "replace"  BY DEF ProbeInv, ReplaceCache
<1>4. NoVideoLost(p) /\ PlansAreTrue(p) /\ ShapeInv(p) /\ Sound(prober[p].staged)
  BY <1>3 DEF PhaseInv, Probing
<1>5. /\ DOMAIN prober'[p] = DOMAIN prober[p]
      /\ prober'[p].pc = "collect" /\ prober'[p].stop = prober[p].stop
      /\ prober'[p].taskVids = prober[p].taskVids
      /\ prober'[p].plans = prober[p].plans
      /\ prober'[p].outcomes = prober[p].outcomes
  BY <1>1, <1>3, <1>4 DEF ShapeInv, ProbeInv
<1>6. ShapeInv(p)'  BY <1>3, <1>4, <1>5 DEF ShapeInv
<1>7. NoVideoLost(p)'  BY <1>3, <1>4, <1>5 DEF NoVideoLost
<1>8. PlansAreTrue(p)'  BY <1>2, <1>4, <1>5 DEF PlansAreTrue
<1>9. PhaseInv(p)'  BY <1>5, <1>6, <1>7, <1>8 DEF PhaseInv
<1>10. CacheInv'  BY <1>2, <1>4 DEF ProbeInv, CacheInv
<1>11. /\ DOMAIN prober' = Probers
       /\ \A q \in Probers : q /= p => prober'[q] = prober[q]
  BY <1>1 DEF ProbeInv
<1>12. QED  BY <1>2, <1>9, <1>10, <1>11, ProbersStay

LEMMA Collect_Inv == ASSUME ProbeInv, NEW p \in Probers, CollectPlans(p) PROVE ProbeInv'
<1> DEFINE kept == {v \in Videos : prober[p].plans[v].probed \/ v \in MeasuredVids(prober[p])}
<1>1. prober' = [prober EXCEPT ![p] =
                   [pc |-> "done", results |-> [v \in kept |-> prober[p].plans[v]]]]
  BY DEF CollectPlans
<1>2. UNCHANGED <<version, cacheFile>>  BY DEF CollectPlans
<1>3. PhaseInv(p) /\ prober[p].pc = "collect"  BY DEF ProbeInv, CollectPlans
<1>4. NoVideoLost(p)  BY <1>3 DEF PhaseInv, Probing
<1>5. \A t \in DOMAIN prober[p].outcomes : prober[p].outcomes[t] = "ended"
  BY <1>3, <1>4 DEF NoVideoLost
<1>6. kept = Videos
  BY <1>4, <1>5 DEF NoVideoLost, MeasuredVids
<1> HIDE DEF kept
<1>7. prober'[p] = [pc |-> "done", results |-> [v \in kept |-> prober[p].plans[v]]]
  BY <1>1 DEF ProbeInv
<1>8. PhaseInv(p)'  BY <1>6, <1>7 DEF PhaseInv, ShapeInv, Probing
<1>9. QED  BY <1>1, <1>2, <1>8, PhaseStep

LEMMA Leave_Inv == ASSUME ProbeInv, NEW p \in Probers, LeaveProbe(p) PROVE ProbeInv'
<1>1. prober' = [prober EXCEPT ![p] = Idle] /\ UNCHANGED <<version, cacheFile>>
  BY DEF LeaveProbe
<1>2. prober'[p] = Idle  BY <1>1 DEF ProbeInv
<1>3. PhaseInv(p)'  BY <1>2 DEF PhaseInv, ShapeInv, Probing, Idle
<1>4. QED  BY <1>1, <1>3, PhaseStep

LEMMA ReplaceVideo_Inv ==
  ASSUME ProbeInv, NEW v \in Videos, ReplaceVideo(v) PROVE ProbeInv'
<1>1. /\ version' = [version EXCEPT ![v] = @ + 1] /\ cacheFile' = cacheFile
      /\ prober' = [p \in Probers |->
                      IF Probing(p) THEN [prober[p] EXCEPT !.plans[v].raced = TRUE]
                      ELSE prober[p]]
  BY DEF ReplaceVideo
<1>2. CacheInv'  BY <1>1 DEF ProbeInv, CacheInv
<1>3. ASSUME NEW p \in Probers PROVE PhaseInv(p)'
  <2>1. PhaseInv(p) /\ ShapeInv(p)  BY DEF ProbeInv, PhaseInv
  <2>2. CASE ~Probing(p)
    <3>1. prober'[p] = prober[p]  BY <1>1, <2>2
    <3>2. QED  BY <2>1, <2>2, <3>1 DEF PhaseInv, ShapeInv, Probing
  <2>3. CASE Probing(p)
    <3>1. prober'[p] = [prober[p] EXCEPT !.plans[v].raced = TRUE]  BY <1>1, <2>3
    <3>2. NoVideoLost(p) /\ PlansAreTrue(p)  BY <2>1, <2>3 DEF PhaseInv
    <3>3. /\ DOMAIN prober'[p] = DOMAIN prober[p]
          /\ prober'[p].pc = prober[p].pc /\ prober'[p].stop = prober[p].stop
          /\ prober'[p].taskVids = prober[p].taskVids
          /\ prober'[p].plans = [prober[p].plans EXCEPT ![v].raced = TRUE]
          /\ prober'[p].outcomes = prober[p].outcomes
          /\ prober'[p].staged = prober[p].staged
      BY <2>1, <2>3, <3>1 DEF ShapeInv, Probing
    <3>4. /\ DOMAIN prober'[p].plans = Videos
          /\ \A w \in Videos \ {v} : prober'[p].plans[w] = prober[p].plans[w]
          /\ prober'[p].plans[v] = [prober[p].plans[v] EXCEPT !.raced = TRUE]
      BY <3>2, <3>3 DEF PlansAreTrue
    <3>5. /\ DOMAIN prober'[p].plans[v] = {"probed", "fromCache", "of", "raced"}
          /\ prober'[p].plans[v].raced = TRUE
          /\ prober'[p].plans[v].probed = prober[p].plans[v].probed
      BY <3>2, <3>4 DEF PlansAreTrue
    <3>6. ShapeInv(p)'  BY <2>1, <3>3 DEF ShapeInv
    <3>7. NoVideoLost(p)'
      <4>1. \A w \in Videos : prober'[p].plans[w].probed = prober[p].plans[w].probed
        BY <3>4, <3>5
      <4>2. QED  BY <3>2, <3>3, <4>1 DEF NoVideoLost
    <3>8. PlansAreTrue(p)'
      <4>1. \A w \in Videos \ {v} : version'[w] = version[w]  BY <1>1 DEF ProbeInv
      <4>2. QED  BY <3>2, <3>4, <3>5, <4>1 DEF PlansAreTrue
    <3>9. QED  BY <2>1, <2>3, <3>3, <3>6, <3>7, <3>8 DEF PhaseInv, Probing
  <2>4. QED  BY <2>2, <2>3
<1>4. QED  BY <1>1, <1>2, <1>3 DEF ProbeInv

LEMMA ProbeStep_Inv == ProbeInv /\ [ProbeNext]_probeVars => ProbeInv'
<1> SUFFICES ASSUME ProbeInv, [ProbeNext]_probeVars PROVE ProbeInv'  OBVIOUS
<1>1. CASE UNCHANGED probeVars
  BY <1>1 DEF probeVars, ProbeInv, CacheInv, PhaseInv, ShapeInv, Probing, NoVideoLost,
              PlansAreTrue
<1>2. CASE ProbeNext
  BY <1>2, Scan_Inv, Task_Inv, Stop_Inv, Joined_Inv, Merge_Inv, Replace_Inv, Collect_Inv,
     Leave_Inv, ReplaceVideo_Inv DEF ProbeNext
<1>3. QED  BY <1>1, <1>2

LEMMA ProbeInvIsEnough == ProbeInv => ProbingIsSound
BY DEF ProbeInv, CacheInv, Sound, KeysAreUnique, EntriesAreTrue, PhaseInv, ProbingIsSound,
       CacheIsTrue, EveryVideoHasAPlan

\* For any numbers of processes and videos, cap and bounds, the phase is sound.
LEMMA PhasesAreSound == ProbeSpec => []ProbingIsSound
<1>1. QED  BY ProbeInit_Inv, ProbeStep_Inv, ProbeInvIsEnough, PTL DEF ProbeSpec

\* For any scores and floors, a decision never takes a CQ that was measured to miss the
\* floor, nor one below a CQ that meets it; and for any number of processes that share
\* the cache, no entry is ever wrong, and a phase that was not stopped plans every video.
THEOREM ProbingStaysSound == CqSpec /\ ProbeSpec => []ProbeIsSound
<1>1. QED
  BY DecisionsAreSound, PhasesAreSound, PTL DEF ProbeIsSound

=============================================================================
