---------------------------- MODULE ProgressBars ----------------------------
(***************************************************************************)
(* A progress context on a terminal (src/core/progress.cpp): its bars, the *)
(* repaint clock, the threads that set bars and the phase that erases them *)
(* and prints below.  Every method but eraseBars runs whole under mtx_.    *)
(***************************************************************************)
EXTENDS Integers

CONSTANTS
  Clocks,    (* 1..n: the ticker threads a context may start                *)
  MaxBars    (* bound: bars added to the context                            *)

VARIABLES
  terminal,       (* progressBarsAllowed()                                  *)
  bars,           (* bars_.size()                                           *)
  spinning,       (* indeterminate_ of each bar                             *)
  sampled,        (* the bar's estimator has its first sample               *)
  badge,          (* the bar's text carries an ETA badge                    *)
  rendered,       (* renderedBarCount_                                      *)
  cleared,        (* cleared_                                               *)
  ticker,         (* the clock ticker_ owns, 0 for none                     *)
  clock,          (* each clock: "none", "sleeping", "ticking", "gone"      *)
  stopAsked,      (* its stop token                                         *)
  eraser,         (* eraseBars: "idle", "joining", "joined"                 *)
  joining,        (* the clock being joined                                 *)
  locked,         (* mtx_ is held over more than one step                   *)
  screen          (* bar lines above the cursor that erasing has to remove  *)

barVars == <<terminal, bars, spinning, sampled, badge, rendered, cleared, ticker,
             clock, stopAsked, eraser, joining, locked, screen>>

Bars  == 1..MaxBars
Known == 1..bars

BarsInit ==
  /\ terminal = TRUE
  /\ bars = 0
  /\ spinning = [b \in Bars |-> FALSE]
  /\ sampled = [b \in Bars |-> FALSE]
  /\ badge = [b \in Bars |-> FALSE]
  /\ rendered = 0
  /\ cleared = FALSE
  /\ ticker = 0
  /\ clock = [c \in Clocks |-> "none"]
  /\ stopAsked = [c \in Clocks |-> FALSE]
  /\ eraser = "idle" /\ joining = 0
  /\ locked = FALSE
  /\ screen = 0

clockVars == <<ticker, clock, stopAsked>>
eraseVars == <<eraser, joining, locked, cleared>>

\* Mutant: painting does not ask whether the context is finished.
MayPaint_Always == terminal

MayPaint == ~cleared /\ terminal

\* render: print_progress draws every bar the manager holds.
Render ==
  IF MayPaint THEN screen' = bars /\ rendered' = bars
              ELSE UNCHANGED <<screen, rendered>>

\* Mutant: the badge asks the estimator alone.
BadgeOf_Sampled(isSpinning, hasSample) == hasSample

\* applyBarText, for a bar below 100 percent.
BadgeOf(isSpinning, hasSample) == ~isSpinning /\ hasSample

ApplyBarText(b) ==
  badge' = [badge EXCEPT ![b] = BadgeOf(spinning'[b], sampled'[b])]

-----------------------------------------------------------------------------
(* The setters *)

\* A context on a pipe, or a quiet one, never paints.
UsePipe ==
  /\ bars = 0 /\ terminal
  /\ terminal' = FALSE
  /\ UNCHANGED <<bars, spinning, sampled, badge, rendered, clockVars, eraseVars, screen>>

\* addBar, ensureTicker: a clock is started when ticker_ owns none.
AddBar ==
  /\ ~locked /\ bars < MaxBars
  /\ bars' = bars + 1
  /\ IF ticker # 0 THEN UNCHANGED clockVars
     ELSE \E c \in Clocks : /\ clock[c] = "none"
                            /\ ticker' = c
                            /\ clock' = [clock EXCEPT ![c] = "sleeping"]
                            /\ UNCHANGED stopAsked
  /\ UNCHANGED <<terminal, spinning, sampled, badge, rendered, eraseVars, screen>>

Setter(b) ==
  /\ ~locked /\ b \in Known
  /\ Render
  /\ UNCHANGED <<terminal, bars, clockVars, eraseVars>>

\* setProgress with a positive value: the estimator has its anchor.
SetProgress(b) ==
  /\ Setter(b)
  /\ sampled' = [sampled EXCEPT ![b] = TRUE]
  /\ UNCHANGED spinning
  /\ ApplyBarText(b)

SetPostfixText(b) ==
  /\ Setter(b)
  /\ UNCHANGED <<spinning, sampled>>
  /\ ApplyBarText(b)

SetRole(b) ==
  /\ Setter(b)
  /\ UNCHANGED <<spinning, sampled, badge>>

SetIndeterminate(b) ==
  /\ Setter(b)
  /\ spinning' = [spinning EXCEPT ![b] = ~@]
  /\ sampled' = [sampled EXCEPT ![b] = IF spinning'[b] THEN FALSE ELSE @]
  /\ ApplyBarText(b)

\* resetEta changes the estimator and leaves the text to the next repaint.
ResetEta(b) ==
  /\ ~locked /\ b \in Known
  /\ sampled' = [sampled EXCEPT ![b] = FALSE]
  /\ UNCHANGED <<terminal, bars, spinning, badge, rendered, clockVars, eraseVars, screen>>

-----------------------------------------------------------------------------
(* The repaint clock *)

ClockStep(c) == UNCHANGED <<terminal, bars, spinning, sampled, ticker, stopAsked, eraseVars>>

\* The stop token is looked at before the sleep, never inside it.
Sleep(c) ==
  /\ clock[c] = "sleeping"
  /\ clock' = [clock EXCEPT ![c] = IF stopAsked[c] THEN "gone" ELSE "ticking"]
  /\ UNCHANGED <<badge, rendered, screen>>
  /\ ClockStep(c)

\* Mutant: a tick paints the texts as they are.
TextsOfTick_Old == badge

\* applyBarText for every bar.
TextsOfTick == [b \in Bars |-> b \in Known /\ BadgeOf(spinning[b], sampled[b])]

Tick(c) ==
  /\ clock[c] = "ticking" /\ ~locked
  /\ clock' = [clock EXCEPT ![c] = "sleeping"]
  /\ IF cleared \/ bars = 0 \/ ~terminal
     THEN UNCHANGED <<badge, rendered, screen>>
     ELSE /\ badge' = TextsOfTick
          /\ screen' = bars /\ rendered' = bars
  /\ ClockStep(c)

-----------------------------------------------------------------------------
(* eraseBars *)

\* Mutant: the clock is joined under the mutex it needs for its last tick.
LockedWhileJoining_Held == TRUE

LockedWhileJoining == FALSE

\* Mutant: the clock is joined and never asked to stop.
StopAskedOf_Nobody(c) == FALSE

StopAskedOf(c) == TRUE

\* stopTicker: the clock is taken out of ticker_ under the lock and joined after it.
EraseBegin ==
  /\ eraser = "idle" /\ ~locked
  /\ eraser' = "joining"
  /\ joining' = ticker
  /\ locked' = LockedWhileJoining
  /\ ticker' = 0
  /\ stopAsked' = [c \in Clocks |-> (c = ticker /\ StopAskedOf(c)) \/ stopAsked[c]]
  /\ UNCHANGED <<terminal, bars, spinning, sampled, badge, rendered, cleared, clock, screen>>

EraseJoin ==
  /\ eraser = "joining"
  /\ \A c \in Clocks : c = joining => clock[c] = "gone"
  /\ eraser' = "joined" /\ joining' = 0 /\ locked' = FALSE
  /\ UNCHANGED <<terminal, bars, spinning, sampled, badge, rendered, cleared, clockVars,
                 screen>>

\* Mutant: as many lines are erased as there are bars.
LinesToErase_Bars == bars

LinesToErase == rendered

EraseLines ==
  /\ eraser = "joined" /\ ~locked
  /\ eraser' = "idle"
  /\ cleared' = TRUE
  /\ IF terminal THEN screen' = screen - LinesToErase /\ rendered' = 0
                 ELSE UNCHANGED <<screen, rendered>>
  /\ UNCHANGED <<terminal, bars, spinning, sampled, badge, clockVars, joining, locked>>

-----------------------------------------------------------------------------
BarsNext ==
  \/ UsePipe \/ AddBar
  \/ \E b \in Bars : SetProgress(b) \/ SetPostfixText(b) \/ SetRole(b)
                     \/ SetIndeterminate(b) \/ ResetEta(b)
  \/ \E c \in Clocks : Sleep(c) \/ Tick(c)
  \/ EraseBegin \/ EraseJoin \/ EraseLines

BarsSpec == BarsInit /\ [][BarsNext]_barVars

\* The clock threads and a thread inside eraseBars are scheduled.
BarsFairness ==
  /\ \A c \in Clocks : WF_barVars(Sleep(c)) /\ WF_barVars(Tick(c))
  /\ WF_barVars(EraseJoin) /\ WF_barVars(EraseLines)

-----------------------------------------------------------------------------
(* Properties *)

\* After eraseBars the terminal holds none of the bars' lines and loses none of
\* the lines above them, though setters, the clock and even new bars go on
\* (eraseBars, render: lines 546-582).
ErasedForGood == screen >= 0 /\ (cleared => screen = 0)

\* A bar that spins never shows an elapsed time, whatever it had measured before
\* and whatever repaints in between (applyBarText, setIndeterminate).
SpinnerHasNoBadge == \A b \in Bars : badge[b] => ~spinning[b]

\* eraseBars comes back: the clock it joins gets its last tick done and leaves
\* (stopTicker, lines 496-503).
EraseReturns == eraser = "joining" ~> eraser = "idle"

\* A badge of an estimator that was reset does not stay on a bar that goes on
\* being repainted (resetEta leaves it to the clock).
StaleBadgeGoes ==
  \A b \in Bars : (badge[b] /\ ~sampled[b]) ~> (~badge[b] \/ sampled[b] \/ ~terminal \/ cleared)

\* What is on the terminal is what the bars are: nothing of an erased bar, and no
\* time on one that spins.
ScreenIsTruthful == ErasedForGood /\ SpinnerHasNoBadge
=============================================================================
