---------------------------- MODULE EtaEstimator ----------------------------
(***************************************************************************)
(* The remaining-time estimate of one bar (src/core/progress.cpp, class    *)
(* EtaEstimator), fed by one attempt after another.  Time runs in sample   *)
(* intervals; the exponential smoothing is any value between the old and   *)
(* the new projection.                                                     *)
(***************************************************************************)
EXTENDS Integers

CONSTANTS
  Full,       (* progress of a finished item, 100 percent                   *)
  SeedGain,   (* kSeedMinProgress                                           *)
  SeedTime,   (* kSeedMaxElapsed                                            *)
  MaxTime     (* bound: how long the model runs                             *)

ASSUME EtaAssumption == Full \in Nat \ {0} /\ SeedGain \in Nat /\ SeedTime \in Nat

VARIABLES
  now,
  etaLast,      (* lastProgress_                                            *)
  hasSample,
  startAt,      (* startAt_                                                 *)
  lastFoldAt,   (* lastFoldAt_                                              *)
  base,         (* baseProgress_                                            *)
  lastFolded,   (* lastFoldedProgress_                                      *)
  elapsedBase,  (* elapsedBaseSec_                                          *)
  hasProjection,
  projected,    (* projectedTotalSec_                                       *)
  attemptAt     (* history: when the present attempt began                  *)

etaVars == <<now, etaLast, hasSample, startAt, lastFoldAt, base, lastFolded, elapsedBase,
             hasProjection, projected, attemptAt>>

EtaInit ==
  /\ now = 0 /\ etaLast = 0
  /\ hasSample = FALSE /\ startAt = 0 /\ lastFoldAt = 0
  /\ base = 0 /\ lastFolded = 0 /\ elapsedBase = 0
  /\ hasProjection = FALSE /\ projected = 0
  /\ attemptAt = 0

EtaClock ==
  /\ now < MaxTime
  /\ now' = now + 1
  /\ UNCHANGED <<etaLast, hasSample, startAt, lastFoldAt, base, lastFolded, elapsedBase,
                 hasProjection, projected, attemptAt>>

\* Mutant: the explicit 0 at the start of an encode starts the clock.
Anchors_AtZero(progress) == TRUE

Anchors(progress) == progress > 0

\* Mutant: a regression or a repeated value is folded, too.
Forward_Any(progress) == progress > 0 /\ progress < Full

\* Only real movement is folded, and not the end of the item.
Forward(progress) == progress > 0 /\ progress < Full /\ progress > lastFolded

Seeded(progress) == progress - base >= SeedGain \/ now - startAt >= SeedTime

\* elapsed * 100 / gained; what a division by zero yields is far below any time.
Projection(progress) ==
  IF progress = base THEN -1000 ELSE ((now - startAt) * Full) \div (progress - base)

\* An exponential step from the old projection to the new one.
Between(a, b) == IF a <= b THEN a..b ELSE b..a

Sample(progress) ==
  /\ etaLast' = progress
  /\ UNCHANGED <<now, elapsedBase, attemptAt>>
  /\ IF ~hasSample
     THEN IF Anchors(progress)
          THEN /\ startAt' = now /\ lastFoldAt' = now
               /\ base' = progress /\ lastFolded' = progress
               /\ hasSample' = TRUE
               /\ UNCHANGED <<hasProjection, projected>>
          ELSE UNCHANGED <<hasSample, startAt, lastFoldAt, base, lastFolded, hasProjection,
                           projected>>
     ELSE /\ UNCHANGED <<hasSample, startAt, base>>
          /\ lastFoldAt' = IF now - lastFoldAt < 1 THEN lastFoldAt ELSE now
          /\ IF now - lastFoldAt >= 1 /\ Forward(progress) /\ Seeded(progress)
             THEN /\ projected' \in IF hasProjection
                                    THEN Between(projected, Projection(progress))
                                    ELSE {Projection(progress)}
                  /\ hasProjection' = TRUE
                  /\ lastFolded' = progress
             ELSE UNCHANGED <<projected, hasProjection, lastFolded>>

\* reset, when an item's encode begins again or another item takes the bar.
EtaReset(elapsed) ==
  /\ startAt' = 0 /\ lastFoldAt' = 0
  /\ base' = 0 /\ etaLast' = 0 /\ lastFolded' = 0
  /\ elapsedBase' = elapsed
  /\ projected' = 0
  /\ hasProjection' = FALSE /\ hasSample' = FALSE
  /\ attemptAt' = now
  /\ UNCHANGED now

EtaNext ==
  \/ EtaClock
  \/ \E p \in 0..Full : Sample(p)
  \/ \E e \in 0..1 : EtaReset(e)

EtaSpec == EtaInit /\ [][EtaNext]_etaVars

\* etaSeconds and elapsedSeconds, the badge's two numbers; -1 for none.
EtaSeconds(progress) ==
  IF ~hasProjection \/ progress <= 0 \/ progress >= Full THEN -1
  ELSE (projected * (Full - progress)) \div Full

ElapsedSeconds == IF hasSample THEN elapsedBase + (now - startAt) ELSE -1

-----------------------------------------------------------------------------
(* Properties *)

\* An estimate is never negative, and an estimate is only shown beside an elapsed
\* time: regressions, repeats and the end of an item do not reach the division
\* (sample, lines 332-351).
EstimateIsSane ==
  /\ hasProjection => projected >= 0 /\ hasSample
  /\ \A p \in 0..Full : EtaSeconds(p) >= 0 => ElapsedSeconds >= 0

\* The elapsed clock starts at the first real progress of the present attempt: it
\* neither counts an older attempt twice nor the wait before the encoder starts
\* (reset and the anchor, lines 317-330, 354-364).
ClockStartsWithProgress ==
  hasSample => base > 0 /\ startAt >= attemptAt /\ ElapsedSeconds <= elapsedBase + now - attemptAt

\* The badge says nothing the samples do not: neither of the estimate nor of the time.
BadgeIsSane == EstimateIsSane /\ ClockStartsWithProgress
=============================================================================
