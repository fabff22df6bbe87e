------------------------------ MODULE CqProbe ------------------------------
(***************************************************************************)
(* The choice of one video's CQ (src/video/encode_probe.cpp): which CQs    *)
(* are measured, in two waves, and what is decided from the points.  What  *)
(* a measurement yields is any score on either scale, or nothing: a window *)
(* that fails to encode or to score, or two windows on different scales.   *)
(***************************************************************************)
EXTENDS Integers, FiniteSets, FiniteSetsExt

CONSTANTS
  Scores,       (* the p5 scores a point may have                           *)
  VmafFloor,    (* the floor on the scale asked for                         *)
  XpsnrFloor,   (* ... and on the scales scoring falls back to              *)
  SsimFloor,
  NoPoint       (* model value: a measurement failed                        *)

BaseCqs == {24, 28, 32}
MinCq == 16
MaxCq == 40
CqStep == 4
MaxProbePoints == 5

ASSUME CqAssumption == Scores \cup {VmafFloor, XpsnrFloor, SsimFloor} \subseteq Int

VARIABLES
  hdr,          (* isHdrVideo                                               *)
  cqPc,         (* start, base, low, lowest, high, highest, decided, failed *)
  point,        (* the points measured so far: cq to score and metric       *)
  cqPlan        (* the decision                                             *)

cqVars == <<hdr, cqPc, point, cqPlan>>

NoPlan == [cq |-> 0, unreachable |-> FALSE]

CqInit ==
  /\ hdr = FALSE
  /\ cqPc = "start"
  /\ point = [c \in {} |-> 0]
  /\ cqPlan = NoPlan

BeginCq ==
  /\ cqPc = "start"
  /\ hdr' \in BOOLEAN
  /\ cqPc' = "base"
  /\ UNCHANGED <<point, cqPlan>>

\* floorForMetric.
FloorOf == [VMAF |-> VmafFloor, XPSNR |-> XpsnrFloor, SSIM |-> SsimFloor]

\* measureSegmentQuality: the first scale that works, of those the source is fit for.
WindowScale(works) ==
  LET fit == works \cap (IF hdr THEN {"SSIM"} ELSE {"VMAF", "XPSNR", "SSIM"})
  IN IF fit = {} THEN NoPoint
     ELSE IF "VMAF" \in fit THEN "VMAF" ELSE IF "XPSNR" \in fit THEN "XPSNR" ELSE "SSIM"

\* A window that failed to encode has no scale, either.
WindowScales == {WindowScale(works) : works \in SUBSET DOMAIN FloorOf}

\* Two windows make a point when their scores are on one scale.
Pooled(first, second) == IF first = second THEN first ELSE NoPoint

Measurements ==
  {NoPoint} \cup [p5 : Scores,
                  metric : {Pooled(a, b) : a, b \in WindowScales} \ {NoPoint}]

Meets(c) == point[c] /= NoPoint /\ point[c].p5 >= FloorOf[point[c].metric]

WithPoint(c, m) == [d \in DOMAIN point \cup {c} |-> IF d = c THEN m ELSE point[d]]

\* The base CQs are measured at once and end in any order.
MeasureBase(c) ==
  /\ cqPc = "base"
  /\ c \in BaseCqs \ DOMAIN point
  /\ \E m \in Measurements : point' = WithPoint(c, m)
  /\ UNCHANGED <<hdr, cqPc, cqPlan>>

\* Down from the lowest base CQ while the floor is unmet there.
LowSide == ~Meets(Min(BaseCqs))

\* All base points are joined; one missing point fails the probe.
JoinBase ==
  /\ cqPc = "base" /\ DOMAIN point = BaseCqs
  /\ cqPc' = IF \E c \in BaseCqs : point[c] = NoPoint THEN "failed"
             ELSE IF LowSide THEN "low"
             ELSE IF Meets(Max(BaseCqs)) THEN "high" ELSE "decide"
  /\ UNCHANGED <<hdr, point, cqPlan>>

\* Mutant: one more point is taken to be enough.
GoesToEdge_Never(score, stopWhenMet) == FALSE

\* The bound itself is measured when the first point leaves the floor open.
GoesToEdge(m, whenMet) == (m.p5 >= FloorOf[m.metric]) = whenMet

Side(at, c, whenMet, edge) ==
  /\ cqPc = at
  /\ \E m \in Measurements :
       /\ point' = WithPoint(c, m)
       /\ cqPc' = IF m = NoPoint THEN "failed"
                  ELSE IF GoesToEdge(m, whenMet) THEN edge ELSE "decide"
  /\ UNCHANGED <<hdr, cqPlan>>

Edge(at, c) ==
  /\ cqPc = at
  /\ \E m \in Measurements :
       /\ point' = WithPoint(c, m)
       /\ cqPc' = IF m = NoPoint THEN "failed" ELSE "decide"
  /\ UNCHANGED <<hdr, cqPlan>>

\* Mutant: the first point that meets the floor is taken, not the last.
LastMet_First(met) == Min(met)

LastMet(met) == Max(met)

\* The share of the way from low to the next point at which the score falls to the
\* floor, rounded down; a score that does not fall adds nothing.
Interpolated(low, high) ==
  LET span == point[low].p5 - point[high].p5
      drop == point[low].p5 - FloorOf[point[low].metric]
  IN IF span > 0 THEN low + (drop * (high - low)) \div span ELSE low

\* decideCq.
Decide ==
  /\ cqPc = "decide"
  /\ LET met == {c \in DOMAIN point : Meets(c)}
         above == {c \in DOMAIN point : c > LastMet(met)}
     IN cqPlan' = [unreachable |-> met = {},
                   cq |-> IF met = {} THEN Min(DOMAIN point)
                          ELSE IF above = {} THEN LastMet(met)
                          ELSE Interpolated(LastMet(met), Min(above))]
  /\ cqPc' = "decided"
  /\ UNCHANGED <<hdr, point>>

CqNext ==
  \/ BeginCq
  \/ \E c \in BaseCqs : MeasureBase(c)
  \/ JoinBase
  \/ Side("low", MinCq + CqStep, FALSE, "lowest")
  \/ Edge("lowest", MinCq)
  \/ Side("high", MaxCq - CqStep, TRUE, "highest")
  \/ Edge("highest", MaxCq)
  \/ Decide

CqSpec == CqInit /\ [][CqNext]_cqVars

-----------------------------------------------------------------------------
(* Properties *)

OneScale == \A c, d \in DOMAIN point : point[c].metric = point[d].metric

\* The score does not rise with the CQ: what encoders do, up to noise.
Falling == \A c, d \in DOMAIN point : c < d => point[c].p5 >= point[d].p5

\* The floor is called unreachable only after the lowest CQ of the range was tried,
\* and that one is used (probeCqSequence, decideCq).
UnreachableIsTried ==
  cqPlan.unreachable => cqPlan.cq = MinCq /\ MinCq \in DOMAIN point

\* Scores on one scale never choose a CQ that was measured to miss the floor, nor
\* one below a CQ measured to meet it (decideCq).
ChosenMeetsFloor ==
  OneScale /\ ~cqPlan.unreachable =>
    /\ cqPlan.cq \in DOMAIN point => Meets(cqPlan.cq)
    /\ \A c \in DOMAIN point : Meets(c) => c <= cqPlan.cq

\* Falling scores bracket the floor within a step: the next CQ measured above the
\* chosen one misses it, or there is none above in the range (probeSide).
FloorIsBracketed ==
  OneScale /\ Falling /\ ~cqPlan.unreachable =>
    \/ cqPlan.cq = MaxCq
    \/ \E c \in DOMAIN point : ~Meets(c) /\ c > cqPlan.cq /\ c - cqPlan.cq <= CqStep

\* The plan of a probe that did not fail; the progress bar counts five points.
DecisionIsSound ==
  /\ Cardinality(DOMAIN point) <= MaxProbePoints
  /\ cqPc = "decided" => UnreachableIsTried /\ ChosenMeetsFloor /\ FloorIsBracketed
=============================================================================
