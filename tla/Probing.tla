------------------------------- MODULE Probing -------------------------------
(***************************************************************************)
(* Quality probing: the choice of one video's CQ, and the phase over a     *)
(* batch.  The two share no state: ProbeTask of ProbePhase stands for one  *)
(* whole choice, a decision or none.                                       *)
(***************************************************************************)
EXTENDS CqProbe, ProbePhase

\* The decision for one video is the best its points allow, and a batch gets a plan for
\* every video from a cache that is never wrong (encode_probe.cpp, probe_cache.cpp).
ProbeIsSound == DecisionIsSound /\ ProbingIsSound
=============================================================================
