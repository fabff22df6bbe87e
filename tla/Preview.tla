------------------------------ MODULE Preview ------------------------------
(***************************************************************************)
(* The side-by-side preview (src/preview): of one video against windows    *)
(* encoded as a real run would encode them, or of two given videos; with   *)
(* the stop at any moment from the first child process on.                 *)
(***************************************************************************)
EXTENDS Integers, Sequences, FiniteSets, FiniteSetsExt

CONSTANTS
  WindowCount,      (* kWindowCount                                         *)
  WindowLen,        (* kWindowDurationUs                                    *)
  ComparisonBudget, (* kFullComparisonBudgetUs                              *)
  Durations,        (* durations a video may have, 0 if it has none         *)
  Ranges,           (* the ranges --start and --duration may give           *)
  WindowScores,     (* scores: [p5, metric]                                 *)
  Unscored          (* model value                                          *)

ASSUME PreviewAssumption ==
  /\ {WindowLen, ComparisonBudget} \subseteq Nat \ {0} /\ WindowCount \in Nat \ {0, 1}
  /\ ComparisonBudget >= WindowCount * WindowLen
  /\ Durations \subseteq Nat /\ Ranges \subseteq [start : Nat, len : Nat]
  /\ \A s \in WindowScores : s.p5 \in Nat

VARIABLES
  pvPc,       (* start, probe, windows, render, rendering, done             *)
  twoInputs,  (* options.encoded                                            *)
  shorter,    (* duration of the shorter video                              *)
  manual,     (* resolveManualRange: a range, or <<>>                       *)
  windows,    (* [start, len]                                               *)
  scored,     (* the windows whose task ended: segment written, and score   *)
  encodeFailed,
  rendered,   (* the output: none, old, partial or whole                    *)
  pvBar,      (* percent of the one bar                                     *)
  pvStop,
  pvResult    (* running, ok, error, canceled                               *)

pvVars == <<pvPc, twoInputs, shorter, manual, windows, scored, encodeFailed, rendered, pvBar,
            pvStop, pvResult>>

PvInit ==
  /\ pvPc = "start" /\ twoInputs = FALSE /\ shorter = 0 /\ manual = <<>>
  /\ windows = <<>> /\ scored = <<>> /\ encodeFailed = FALSE
  /\ rendered = "none" /\ pvBar = 0
  /\ pvStop = FALSE /\ pvResult = "running"

Ends(result) == pvPc' = "done" /\ pvResult' = result

\* resolveManualRange: --start and --duration, or nothing.
ManualRanges == {<<>>} \cup Ranges

\* probeVideo: a duration that cannot be read is 0.
HasDuration(duration) == duration /= 0

\* runTwoInput, up to the choice of the windows; one input has but one duration.
Probed(two, first, second) ==
  /\ shorter' = IF two THEN Min({first, second}) ELSE first
  /\ IF HasDuration(first) /\ (two => HasDuration(second))
       THEN pvPc' = "probe" /\ UNCHANGED pvResult
       ELSE Ends("error")

\* run: the inputs are validated; an output that names an input is refused before this.
BeginPreview ==
  /\ pvPc = "start"
  /\ twoInputs' \in BOOLEAN
  /\ manual' \in ManualRanges
  /\ rendered' \in {"none", "old"}
  /\ \E first, second \in Durations : Probed(twoInputs', first, second)
  /\ UNCHANGED <<windows, scored, encodeFailed, pvBar, pvStop>>

\* The user's request; the children at work are terminated.
RequestPvStop ==
  /\ pvPc \notin {"start", "done"} /\ ~pvStop
  /\ pvStop' = TRUE
  /\ UNCHANGED <<pvPc, twoInputs, shorter, manual, windows, scored, encodeFailed, rendered,
                 pvBar, pvResult>>

\* Mutant: the windows are spread as if the last began at the end.
StartOf_Past(i) == ((i - 1) * shorter) \div (WindowCount - 1)

StartOf(i) == ((i - 1) * (shorter - WindowLen)) \div (WindowCount - 1)

\* Mutant: the budget admits a video too short for disjoint windows.
ComparedWhole_Shorter == shorter < WindowLen * 2

ComparedWhole == shorter < ComparisonBudget

\* pickPreviewWindows; no window when the range is not in the video.
PickWindows ==
  IF manual /= <<>>
  THEN LET len == Min({manual.len, shorter - manual.start})
       IN IF manual.start >= shorter \/ len <= 0 THEN <<>>
          ELSE <<[start |-> manual.start, len |-> len]>>
  ELSE IF ComparedWhole THEN <<[start |-> 0, len |-> shorter]>>
  ELSE [i \in 1..WindowCount |-> [start |-> StartOf(i), len |-> WindowLen]]

\* probeSingleInputPlan, or the second input's probe; a probe that decided leaves the
\* bar at 40 percent, one that did not lets the windows start from nothing.
ProbeInputs ==
  /\ pvPc = "probe"
  /\ windows' = PickWindows
  /\ IF PickWindows = <<>> THEN Ends("error") /\ UNCHANGED pvBar
     ELSE IF pvStop THEN Ends("canceled") /\ pvBar' \in {0, 10, 20}
     ELSE /\ pvBar' \in IF twoInputs THEN {10} ELSE {0, 40}
          /\ pvPc' = "windows" /\ UNCHANGED pvResult
  /\ UNCHANGED <<twoInputs, shorter, manual, scored, encodeFailed, rendered, pvStop>>

\* Two inputs under a range are not scored.
Scoring == ~(twoInputs /\ manual /= <<>>)

\* phaseProgressValue: from where the phase began to 85 percent.
Advanced == pvBar + (85 - pvBar) \div (Len(windows) - Len(scored))

\* encodeAndScoreWindow, or the scoring of one window of two inputs: scoring may
\* fail, encoding, too, and a failed one has no segment.
WindowEnds ==
  /\ pvPc = "windows" /\ Scoring /\ ~pvStop
  /\ Len(scored) < Len(windows)
  /\ pvBar' = Advanced
  /\ \/ /\ \E s \in WindowScores \cup {Unscored} :
             scored' = Append(scored, [written |-> ~twoInputs, score |-> s])
        /\ UNCHANGED encodeFailed
     \/ /\ ~twoInputs
        /\ scored' = Append(scored, [written |-> FALSE, score |-> Unscored])
        /\ encodeFailed' = TRUE
  /\ UNCHANGED <<pvPc, twoInputs, shorter, manual, windows, rendered, pvStop, pvResult>>

\* Mutant: the stop is looked for only when a window has failed.
StopSeen_OnFailure == pvStop /\ encodeFailed

StopSeen == pvStop

\* The join; the stop's victims fail or were never begun.
JoinWindows ==
  /\ pvPc = "windows"
  /\ pvStop \/ ~Scoring \/ Len(scored) = Len(windows)
  /\ IF StopSeen THEN Ends("canceled") /\ UNCHANGED pvBar
     ELSE IF encodeFailed THEN Ends("error") /\ UNCHANGED pvBar
     ELSE pvPc' = "render" /\ pvBar' = 85 /\ UNCHANGED pvResult
  /\ UNCHANGED <<twoInputs, shorter, manual, windows, scored, encodeFailed, rendered, pvStop>>

\* The render writes over what is there, unless it cannot be launched.
StartRender ==
  /\ pvPc = "render"
  /\ \/ pvPc' = "rendering" /\ rendered' = "partial" /\ UNCHANGED pvResult
     \/ Ends(IF pvStop THEN "canceled" ELSE "error") /\ UNCHANGED rendered
  /\ UNCHANGED <<twoInputs, shorter, manual, windows, scored, encodeFailed, pvBar, pvStop>>

\* Mutant: a file at the output path is success enough.
RenderOk_Exists(exited) == rendered /= "none"

RenderOk(exited) == exited

\* A child that fails under a stop is the stop's victim.
RenderEnds ==
  /\ pvPc = "rendering"
  /\ \E exited \in BOOLEAN :
       /\ rendered' = IF exited THEN "whole" ELSE rendered
       /\ IF RenderOk(exited) THEN Ends("ok") /\ pvBar' = 100
          ELSE Ends(IF pvStop THEN "canceled" ELSE "error") /\ UNCHANGED pvBar
  /\ UNCHANGED <<twoInputs, shorter, manual, windows, scored, encodeFailed, pvStop>>

PvNext == \/ BeginPreview \/ RequestPvStop \/ ProbeInputs \/ WindowEnds
          \/ JoinWindows \/ StartRender \/ RenderEnds

PvSpec == PvInit /\ [][PvNext]_pvVars

-----------------------------------------------------------------------------
(* What is shown *)

\* The inputs of the render: the original once a window, then the other side, a
\* segment or the second video at the window.
RenderInputs ==
  [i \in 1..2 * Len(windows) |->
     IF i <= Len(windows) THEN [side |-> "original", window |-> i]
     ELSE [side |-> "encoded", window |-> i - Len(windows)]]

\* Mutant: the inputs are paired as neighbours.
EncodedInput_Next(i) == RenderInputs[i + 1]

EncodedInput(i) == RenderInputs[Len(windows) + i]

Scored == {i \in DOMAIN scored : scored[i].score /= Unscored}

\* Mutant: the last of equals is marked.
WorstOf_Last(lowest) == Max(lowest)

WorstOf(lowest) == Min(lowest)

\* findWorstWindow; 0 when nothing was scored.
Worst ==
  IF Scored = {} THEN 0
  ELSE WorstOf({i \in Scored :
                  \A j \in Scored : scored[i].score.p5 <= scored[j].score.p5})

-----------------------------------------------------------------------------
(* Properties *)

\* Automatic windows lie inside the shorter video, do not overlap, and reach from its
\* start to its end; a range is cut at the end (pickPreviewWindows).
WindowsCover ==
  windows /= <<>> =>
    /\ \A i \in DOMAIN windows :
         windows[i].len > 0 /\ windows[i].start + windows[i].len <= shorter
    /\ \A i \in 1..Len(windows) - 1 :
         windows[i].start + windows[i].len <= windows[i + 1].start
    /\ manual = <<>> => /\ windows[1].start = 0
                        /\ windows[Len(windows)].start + windows[Len(windows)].len = shorter

\* A preview that is reported written is: whole, of this run, each original window
\* beside its own segment, all of them encoded (runSingleInput, renderPreview).
WrittenIsWhole ==
  pvResult = "ok" =>
    /\ rendered = "whole" /\ pvBar = 100
    /\ ~twoInputs => Len(scored) = Len(windows) /\ \A i \in DOMAIN scored : scored[i].written
    /\ \A i \in DOMAIN windows :
         EncodedInput(i).side = "encoded" /\ EncodedInput(i).window = RenderInputs[i].window

\* The stop's victims are not reported as failures: after a stop a preview is
\* canceled, or written if the stop came too late (reportPreviewCanceled).
StopIsNoFailure ==
  /\ pvResult = "canceled" => pvStop
  /\ pvResult = "error" /\ pvStop => windows = <<>>

\* The window marked is the first of those with the lowest score, when the scores are
\* on one scale (findWorstWindow).
WorstIsWorst ==
  (\A i, j \in Scored : scored[i].score.metric = scored[j].score.metric) =>
    \/ Scored = {} /\ Worst = 0
    \/ /\ Worst \in Scored
       /\ \A i \in Scored : \/ scored[i].score.p5 > scored[Worst].score.p5
                            \/ scored[i].score.p5 = scored[Worst].score.p5 /\ i >= Worst

PreviewIsSound == WindowsCover /\ WrittenIsWhole /\ StopIsNoFailure /\ WorstIsWorst
=============================================================================
