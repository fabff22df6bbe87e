------------------------------- MODULE Plans -------------------------------
(***************************************************************************)
(* What is decided before anything is written: how the files of a pack are *)
(* split, what every output and entry is called, and which images are put  *)
(* into one group.  The three share no state.                              *)
(***************************************************************************)
EXTENDS PackGrouping, OutputNames, Clustering

\* What is packed is split as promised and every name is given once (packer.cpp,
\* video_output_planning.cpp), and the clusters of an organize run are those of the
\* linkage it states (cluster.cpp).
PlansAreSound == PlanIsSound /\ NamesAreSound /\ LinkageIsExact

=============================================================================
