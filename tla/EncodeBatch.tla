----------------------------- MODULE EncodeBatch -----------------------------
(***************************************************************************)
(* One video run after its outputs are planned: the probing stage, the     *)
(* prompt, the worker pool with its progress monitor, the summary and the  *)
(* exit code (src/video/video_process.cpp, video_batch_execution.cpp and   *)
(* video_encoding_state.cpp, under src/app/pipeline.cpp).  The worker loop *)
(* is TaskExecutor's, here only as far as it meets the monitor.            *)
(***************************************************************************)
EXTENDS Integers, FiniteSets

CONSTANTS
  Items,    (* the planned items                                            *)
  Workers,  (* 1..n: ctx.config.maxParallelJobs                             *)
  None,     (* no item; no exit code yet                                    *)
  Configs   (* the configurations a run may have, see ConfigType            *)

ConfigType == [probing : BOOLEAN,   (* mp4 without --crf                    *)
               dryRun  : BOOLEAN,
               verbose : BOOLEAN,   (* no bars, no monitor, one worker      *)
               pack    : BOOLEAN,   (* packOutput                           *)
               consent : BOOLEAN]   (* --yes, or an answer shared by a batch *)

Canceled == 130   \* kCanceledExitCode

ASSUME EncodeBatchAssumption ==
  /\ IsFiniteSet(Items) /\ IsFiniteSet(Workers) /\ 1 \in Workers
  /\ None \notin Items
  /\ Configs \subseteq ConfigType

VARIABLES
  config,    (* ctx.config                                                  *)
  stop,      (* the stop flag                                               *)
  stage,     (* where the main thread is                                    *)
  pending,   (* prepared.pendingItems                                       *)
  skipped,   (* items the probe decided not to encode                       *)
  left,      (* encodable items no worker has claimed                       *)
  pc,        (* where each worker is                                        *)
  item,      (* the item each worker claimed                                *)
  result,    (* what each worker's encode returned                          *)
  active,    (* activeSlots                                                 *)
  finished,  (* counters.finished                                           *)
  ended,     (* items with finished set                                     *)
  victims,   (* items with stopVictim set                                   *)
  outcome,   (* ItemOutcome of each item                                    *)
  record,    (* status of each item's task record                           *)
  monitor,   (* where the monitor thread is                                 *)
  seen,      (* the active items it saw last                                *)
  current,   (* the item whose progress file it is reading                  *)
  exitCode,  (* what the run returned                                       *)
  stateFile, (* whether the saved state is kept at the end                  *)
  killed,    (* history: items whose encode failed under a pending stop     *)
  failedRun  (* history: items whose encode had failed and been judged      *)
             (* before any stop                                             *)

mainVars    == <<config, stage, pending, skipped, exitCode, stateFile>>
workerVars  == <<left, pc, item, result, active, ended, victims, outcome, record,
                 killed, failedRun>>
monitorVars == <<monitor, seen, current>>
vars == <<mainVars, workerVars, monitorVars, finished, stop>>

Total     == Cardinality(Items)
Recovered == Items \ pending
Pool      == IF config.verbose THEN {1} ELSE Workers
ActiveItems == {active[w] : w \in Workers} \ {None}

\* prepareEncodeActions has merged the plan into the store: what needs no
\* execution counts as succeeded.  A dry run has no store and a plan only for
\* the probing pipeline.
Init ==
  /\ config \in {c \in Configs : c.dryRun => c.probing}
  /\ pending \in {p \in SUBSET Items : config.dryRun => p = Items}
  /\ record \in {r \in [Items -> {"pending", "interrupted", "succeeded"}] :
                   \A i \in Items : r[i] = "succeeded" <=> i \notin pending}
  /\ outcome = [i \in Items |-> IF i \in pending THEN "pending" ELSE "succeeded"]
  /\ stop = FALSE
  /\ stage = "scan"
  /\ skipped = {}
  /\ left = {}
  /\ pc = [w \in Workers |-> "gone"]
  /\ item = [w \in Workers |-> None]
  /\ result = [w \in Workers |-> None]
  /\ active = [w \in Workers |-> None]
  /\ finished = 0
  /\ ended = {}
  /\ victims = {}
  /\ monitor = "off"
  /\ seen = {}
  /\ current = None
  /\ exitCode = None
  /\ stateFile = TRUE
  /\ killed = {}
  /\ failedRun = {}

RequestStop ==
  /\ ~stop
  /\ exitCode = None
  /\ stop' = TRUE
  /\ UNCHANGED <<mainVars, workerVars, monitorVars, finished>>

-----------------------------------------------------------------------------
(* The main thread up to the encode stage *)

\* Mutant: a canceled run always removes its state.
Kept_OnlyUncanceled(code, records) == code # Canceled

\* maybeRemoveUnstartedCanceledJobState.
Kept(code, records) == code = Canceled => \E i \in Items : records[i] # "pending"

Exit(code, records) ==
  /\ stage' = "exit"
  /\ exitCode' = code
  /\ stateFile' = Kept(code, records)

\* handlePathEncoding and handleMultiFileEncoding: a failed scan, no common base
\* directory or no plan fails the run, no video ends it.
ScanInputs ==
  /\ stage = "scan"
  /\ \/ stage' = "probe" /\ UNCHANGED <<exitCode, stateFile>>
     \/ Exit(1, record)
     \/ Exit(0, record)
  /\ UNCHANGED <<config, pending, skipped, workerVars, monitorVars, finished, stop>>

\* runProbeStage: without probing everything is encodable; probing is aborted
\* by a stop, fails, ends a dry run, or drops the files that would grow.
ProbeStage ==
  /\ stage = "probe"
  /\ IF pending = {}
       THEN stage' = "settle" /\ skipped' = {}
       ELSE \/ /\ ~config.probing
               /\ stage' = "prompt"
               /\ skipped' = {}
            \/ /\ config.probing
               /\ \/ /\ stage' = "abort"    \* Aborted if stopped, else Failed
                     /\ skipped' = {}
                  \/ /\ ~stop
                     /\ skipped' \in SUBSET pending
                     /\ stage' = IF config.dryRun THEN "planned" ELSE "prompt"
  /\ UNCHANGED <<config, pending, exitCode, stateFile, workerVars, monitorVars,
                 finished, stop>>

\* Mutant: the items the probe dropped are counted a second time.
CompletedBeforeStart_Twice == Cardinality(Recovered) + 2 * Cardinality(skipped)

\* initialCompleted + skippedBeforeStart.
CompletedBeforeStart == Cardinality(Recovered) + Cardinality(skipped)

\* confirmEncodingStart: an accepted prompt hands the encodable items to the
\* pool; with bars the monitor is started before it.
Accepted ==
  /\ stage = "prompt"
  /\ ~stop \/ config.consent
  /\ left' = pending \ skipped
  /\ IF left' = {}
       THEN stage' = "settle" /\ UNCHANGED <<pc, finished, monitor>>
       ELSE /\ stage' = "encode"
            /\ pc' = [w \in Workers |-> IF w \in Pool THEN "idle" ELSE "gone"]
            /\ finished' = CompletedBeforeStart
            /\ monitor' = IF config.verbose THEN "off" ELSE "scan"
  /\ UNCHANGED <<config, pending, skipped, exitCode, stateFile, item, result, active,
                 ended, victims, outcome, record, killed, failedRun, seen, current, stop>>

\* Declined, or canceled by a stop.
Declined ==
  /\ stage = "prompt"
  /\ stop \/ ~config.consent
  /\ stage' = "abort"
  /\ UNCHANGED <<config, pending, skipped, exitCode, stateFile, workerVars,
                 monitorVars, finished, stop>>

\* No answer could be read at the prompt before the encode or the packing.
NoAnswer ==
  /\ stage \in {"prompt", "packPrompt"}
  /\ ~stop /\ ~config.consent
  /\ Exit(1, record)
  /\ UNCHANGED <<config, pending, skipped, workerVars, monitorVars, finished, stop>>

\* canceledExitCodeForPromptAbort reads the flag anew.
Abort ==
  /\ stage = "abort"
  /\ Exit(IF stop THEN Canceled ELSE 0, record)
  /\ UNCHANGED <<config, pending, skipped, workerVars, monitorVars, finished, stop>>

DryRunEnds ==
  /\ stage = "planned"
  /\ Exit(0, record)
  /\ UNCHANGED <<config, pending, skipped, workerVars, monitorVars, finished, stop>>

-----------------------------------------------------------------------------
(* The workers *)

\* The executor's claim: a stop or an empty plan ends the worker.
Claim(w) ==
  /\ pc[w] = "idle"
  /\ IF stop \/ left = {}
       THEN pc' = [pc EXCEPT ![w] = "gone"] /\ UNCHANGED <<left, item>>
       ELSE \E i \in left :
              /\ left' = left \ {i}
              /\ item' = [item EXCEPT ![w] = i]
              /\ pc' = [pc EXCEPT ![w] = IF config.verbose THEN "start" ELSE "check"]
  /\ UNCHANGED <<mainVars, monitorVars, result, active, finished, ended, victims,
                 outcome, record, killed, failedRun, stop>>

\* runEncodingTask looks at the flag before it takes its slot.
CheckStop(w) ==
  /\ pc[w] = "check"
  /\ IF stop
       THEN /\ victims' = victims \cup {item[w]}
            /\ result' = [result EXCEPT ![w] = "failed"]
            /\ pc' = [pc EXCEPT ![w] = "hook"]
       ELSE pc' = [pc EXCEPT ![w] = "start"] /\ UNCHANGED <<victims, result>>
  /\ UNCHANGED <<mainVars, monitorVars, left, item, active, finished, ended, outcome,
                 record, killed, failedRun, stop>>

\* The item's bar is reset and its slot taken, then markRunning in encodeOneItem.
Start(w) ==
  /\ pc[w] = "start"
  /\ IF config.verbose
       THEN UNCHANGED active
       ELSE active' = [active EXCEPT ![w] = item[w]]
  /\ record' = [record EXCEPT ![item[w]] = "running"]
  /\ pc' = [pc EXCEPT ![w] = "encode"]
  /\ UNCHANGED <<mainVars, monitorVars, left, item, result, finished, ended, victims,
                 outcome, killed, failedRun, stop>>

\* encodeVideo returns and the item is marked finished.
EncodeEnds(w) ==
  /\ pc[w] = "encode"
  /\ \E r \in {"succeeded", "failed"} :
       /\ result' = [result EXCEPT ![w] = r]
       /\ killed' = IF r = "failed" /\ stop THEN killed \cup {item[w]} ELSE killed
  /\ ended' = ended \cup {item[w]}
  /\ pc' = [pc EXCEPT ![w] = "mark"]
  /\ UNCHANGED <<mainVars, monitorVars, left, item, active, finished, victims, outcome,
                 record, failedRun, stop>>

\* Mutant: the exception leaves the slot of its task taken.
Cleared_NotByThrow(w) == IF pc[w] = "encode" THEN active ELSE [active EXCEPT ![w] = None]

\* clearActive.
Cleared(w) == [active EXCEPT ![w] = None]

\* recordTaskException: an exception fails the task and clears its slot; the
\* item is not marked finished and its record stays running.
Throw(w) ==
  /\ pc[w] = "encode"
  /\ result' = [result EXCEPT ![w] = "failed"]
  /\ active' = Cleared(w)
  /\ pc' = [pc EXCEPT ![w] = "hook"]
  /\ UNCHANGED <<mainVars, monitorVars, left, item, finished, ended, victims,
                 outcome, record, killed, failedRun, stop>>

\* markSucceeded or markFailed.
Mark(w) ==
  /\ pc[w] = "mark"
  /\ record' = [record EXCEPT ![item[w]] = result[w]]
  /\ pc' = [pc EXCEPT ![w] = "judge"]
  /\ UNCHANGED <<mainVars, monitorVars, left, item, result, active, finished, ended,
                 victims, outcome, killed, failedRun, stop>>

\* Mutant: whatever ends under a stop is the stop's victim.
IsVictim_Always(w) == stop

IsVictim(w) == result[w] = "failed" /\ stop

\* A failure with a stop pending is the stop's victim; the slot is cleared.
Judge(w) ==
  /\ pc[w] = "judge"
  /\ victims' = IF IsVictim(w) THEN victims \cup {item[w]} ELSE victims
  /\ failedRun' = IF result[w] = "failed" /\ ~stop
                    THEN failedRun \cup {item[w]} ELSE failedRun
  /\ active' = Cleared(w)
  /\ pc' = [pc EXCEPT ![w] = "hook"]
  /\ UNCHANGED <<mainVars, monitorVars, left, item, result, finished, ended, outcome,
                 record, killed, stop>>

\* Mutant: a victim is not counted.
Counts_Survivors(w) == ~config.verbose /\ item[w] \notin victims

\* The verbose stage has no postfix.
Counts(w) == ~config.verbose

\* The executor takes the outcome; the stage's postfix counts every task.
Hook(w) ==
  /\ pc[w] = "hook"
  /\ outcome' = [outcome EXCEPT ![item[w]] = result[w]]
  /\ finished' = IF Counts(w) THEN finished + 1 ELSE finished
  /\ pc' = [pc EXCEPT ![w] = "idle"]
  /\ item' = [item EXCEPT ![w] = None]
  /\ result' = [result EXCEPT ![w] = None]
  /\ UNCHANGED <<mainVars, monitorVars, left, active, ended, victims, record, killed,
                 failedRun, stop>>

Worker(w) == \/ Claim(w) \/ CheckStop(w) \/ Start(w) \/ EncodeEnds(w) \/ Throw(w)
             \/ Mark(w) \/ Judge(w) \/ Hook(w)

-----------------------------------------------------------------------------
(* The monitor thread *)

\* The active items are copied before the counters are looked at.
Scan ==
  /\ monitor = "scan"
  /\ seen' = ActiveItems
  /\ monitor' = "decide"
  /\ UNCHANGED <<current, mainVars, workerVars, finished, stop>>

\* Mutant: the monitor waits for the count even when the run was stopped.
MonitorLeaves_Counted == finished >= Total

MonitorLeaves == finished >= Total \/ (stop /\ seen = {})

\* All counted, or stopped with nothing active: leave.  Otherwise wait, or run
\* a parse pass over a fresh copy of the active items when one is due.
Decide ==
  /\ monitor = "decide"
  /\ \/ monitor' = "left" /\ MonitorLeaves /\ UNCHANGED seen
     \/ monitor' = "scan" /\ ~MonitorLeaves /\ UNCHANGED seen
     \/ monitor' = "render" /\ ~MonitorLeaves /\ seen' = ActiveItems
  /\ UNCHANGED <<current, mainVars, workerVars, finished, stop>>

\* runParsePass takes the next item unless it has finished or its progress file
\* has not changed.
NextItem ==
  /\ monitor = "render"
  /\ IF seen = {}
       THEN monitor' = "scan" /\ UNCHANGED <<seen, current>>
       ELSE \E i \in seen :
              /\ seen' = seen \ {i}
              /\ \/ monitor' = "render" /\ UNCHANGED current
                 \/ i \notin ended /\ monitor' = "read" /\ current' = i
  /\ UNCHANGED <<mainVars, workerVars, finished, stop>>

\* The file is read, which may take an ffprobe, and renderProgress moves the bar
\* the item draws on, though the item may have ended since (a bar is not modelled).
RenderProgress ==
  /\ monitor = "read"
  /\ monitor' = "render"
  /\ current' = None
  /\ UNCHANGED <<mainVars, workerVars, finished, stop, seen>>

Monitor == Scan \/ Decide \/ NextItem \/ RenderProgress

-----------------------------------------------------------------------------
(* The main thread from the end of the encode stage *)

\* Mutant: the victims of the stop keep their failure.
Uncleared(i) == outcome[i]

\* clearStopVictims.
ClearedOutcome(i) == IF i \in victims THEN "pending" ELSE outcome[i]

\* The pool has drained, the monitor is joined, and the victims of the stop go
\* back to having no outcome.
Join ==
  /\ stage = "encode"
  /\ \A w \in Workers : pc[w] = "gone"
  /\ monitor \in {"off", "left"}
  /\ stage' = "settle"
  /\ outcome' = [i \in Items |-> ClearedOutcome(i)]
  /\ UNCHANGED <<config, pending, skipped, exitCode, stateFile, left, pc, item, result,
                 active, ended, victims, record, killed, failedRun, monitorVars,
                 finished, stop>>

SummaryItems == {i \in Items : outcome[i] \in {"succeeded", "failed"}}

\* Mutant: the probe's skipped items count for finished ones twice.
EncodeStageFinished_Twice ==
  Cardinality(SummaryItems) + 2 * Cardinality(skipped) >= Total

EncodeStageFinished == Cardinality(SummaryItems) + Cardinality(skipped) >= Total

\* printEncodingSummary: the counts of the line the run ends its encode stage with.
Summary == [success |-> Cardinality({i \in SummaryItems : outcome[i] = "succeeded"}),
            failure |-> Cardinality({i \in SummaryItems : outcome[i] = "failed"}),
            skipped |-> Cardinality(skipped)]

\* maybeHandleInterruptedEncoding: the stop cut the batch short.
Interrupted ==
  /\ stage = "settle"
  /\ ~EncodeStageFinished /\ stop
  /\ LET marked == [i \in Items |->
           IF i \in pending /\ record[i] \in {"pending", "running"} THEN "interrupted"
                                                                    ELSE record[i]]
     IN  record' = marked /\ Exit(Canceled, marked)
  /\ UNCHANGED <<config, pending, skipped, left, pc, item, result, active, ended,
                 victims, outcome, killed, failedRun, monitorVars, finished, stop>>

\* With nothing encoded in this run, packing asks again.
Settle ==
  /\ stage = "settle"
  /\ EncodeStageFinished \/ ~stop
  /\ stage' = IF pending = {} /\ config.pack THEN "packPrompt" ELSE "pack"
  /\ UNCHANGED <<config, pending, skipped, exitCode, stateFile, workerVars,
                 monitorVars, finished, stop>>

PackingAccepted ==
  /\ stage = "packPrompt"
  /\ ~stop \/ config.consent
  /\ stage' = "pack"
  /\ UNCHANGED <<config, pending, skipped, exitCode, stateFile, workerVars,
                 monitorVars, finished, stop>>

PackingDeclined ==
  /\ stage = "packPrompt"
  /\ stop \/ ~config.consent
  /\ stage' = "abort"
  /\ UNCHANGED <<config, pending, skipped, exitCode, stateFile, workerVars,
                 monitorVars, finished, stop>>

\* What packing returns, 0 when it is off: the code of a failure or of a stop,
\* or the run is complete and its code tells whether an item failed.
Complete ==
  /\ stage = "pack"
  /\ \E packed \in {0} \cup IF config.pack THEN {1} \cup (IF stop THEN {Canceled} ELSE {})
                                           ELSE {} :
       Exit(IF packed # 0 THEN packed
            ELSE IF \E i \in SummaryItems : outcome[i] = "failed" THEN 1 ELSE 0, record)
  /\ UNCHANGED <<config, pending, skipped, workerVars, monitorVars, finished, stop>>

Main == \/ ScanInputs \/ ProbeStage \/ Accepted \/ Declined \/ NoAnswer \/ Abort \/ DryRunEnds
        \/ Join \/ Interrupted \/ Settle \/ PackingAccepted \/ PackingDeclined
        \/ Complete

Next == Main \/ Monitor \/ (\E w \in Workers : Worker(w)) \/ RequestStop

Spec == Init /\ [][Next]_vars

\* Every thread is scheduled, a child ends by itself or is terminated, and a
\* prompt is answered or its input ends.
Fairness == WF_vars(Main) /\ WF_vars(Monitor) /\ \A w \in Workers : WF_vars(Worker(w))

FairSpec == Spec /\ Fairness

-----------------------------------------------------------------------------
(* Properties *)

TypeOK ==
  /\ config \in Configs
  /\ stage \in {"scan", "probe", "prompt", "abort", "planned", "encode", "settle",
                "packPrompt", "pack", "exit"}
  /\ skipped \subseteq pending /\ pending \subseteq Items
  /\ left \subseteq pending \ skipped
  /\ pc \in [Workers -> {"idle", "check", "start", "encode", "mark", "judge", "hook",
                         "gone"}]
  /\ item \in [Workers -> Items \cup {None}]
  /\ result \in [Workers -> {"succeeded", "failed", None}]
  /\ active \in [Workers -> Items \cup {None}]
  /\ finished \in 0..Total
  /\ ended \subseteq pending /\ victims \subseteq pending
  /\ killed \subseteq ended /\ failedRun \subseteq ended
  /\ outcome \in [Items -> {"pending", "succeeded", "failed"}]
  /\ record \in [Items -> {"pending", "interrupted", "running", "succeeded", "failed"}]
  /\ monitor \in {"off", "scan", "decide", "render", "read", "left"}
  /\ seen \subseteq Items /\ current \in Items \cup {None}
  /\ exitCode \in {None, 0, 1, Canceled}
  /\ stop \in BOOLEAN /\ stateFile \in BOOLEAN

Settled == stage \in {"settle", "packPrompt", "pack", "exit"}

\* The summary and the store tell one story of every item: what one has as
\* succeeded the other has, an item reported failed has a record that a later run
\* executes again, and an item the pool never finished is neither.
SummaryAgreesWithStore ==
  Settled => \A i \in Items :
    /\ outcome[i] = "succeeded" <=> record[i] = "succeeded"
    /\ outcome[i] = "failed" => record[i] \in {"failed", "running", "interrupted"}

\* A failure that came while a stop was pending is the cancellation's: it is never
\* reported as the file's own.  A failure judged before the stop stays reported,
\* whatever the stop does to the rest of the batch.
FailuresAreTheirOwn ==
  Settled => /\ \A i \in killed : outcome[i] # "failed"
             /\ \A i \in failedRun : outcome[i] = "failed"

\* A run that says it was successful left no item undone, unless it never started
\* to encode; a run that says it was canceled was stopped; and a batch cut short
\* by a stop says so and leaves no record running.
ExitCodeIsHonest ==
  stage = "exit" =>
    /\ exitCode = 0 /\ (ended # {} \/ victims # {})
         => \A i \in Items : i \in skipped \/ outcome[i] = "succeeded"
    /\ exitCode = Canceled => stop
    /\ victims \cup left # {} =>
         exitCode = Canceled /\ \A i \in Items : record[i] # "running"

\* The summary of a batch that was not cut short accounts for every planned item
\* exactly once, however its items were recovered, dropped, encoded or lost.
SummaryAccountsForAll ==
  stage \in {"packPrompt", "pack"} =>
    Summary.success + Summary.failure + Summary.skipped = Total

\* The saved state is removed only by a canceled run that has nothing to lose.
StateIsKept == ~stateFile => ended = {} /\ Recovered = {} /\ exitCode = Canceled

\* The overall count reaches the total exactly when every item is recovered,
\* dropped or through its hook: the monitor leaves neither early nor never.
CountIsComplete ==
  stage = "encode" /\ ~config.verbose =>
    finished = Total - Cardinality(left)
                     - Cardinality({w \in Workers : item[w] # None})

\* Once the batch is over no slot holds an item.
SlotsAreReleased == Settled => ActiveItems = {}

\* The run ends: the join of the monitor thread never waits forever.
RunReturns == <>(stage = "exit")

\* What the summary says of each item, and of all together, is what happened.
SummaryIsHonest == SummaryAgreesWithStore /\ SummaryAccountsForAll

\* The exit code and the state that is kept are those of what happened.
EndIsHonest == ExitCodeIsHonest /\ StateIsKept

\* What the monitor decides by is right at every moment.
MonitorSeesAll == TypeOK /\ CountIsComplete /\ SlotsAreReleased
=============================================================================
