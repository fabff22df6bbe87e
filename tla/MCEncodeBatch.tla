---------------------------- MODULE MCEncodeBatch ----------------------------
(* EncodeBatch for TLC: the configurations that differ in control.          *)
EXTENDS EncodeBatch

\* Probing, a dry run, no bars, and packing with and without a shared answer.
SomeConfigs ==
  {[probing |-> TRUE,  dryRun |-> FALSE, verbose |-> FALSE, pack |-> FALSE, consent |-> FALSE],
   [probing |-> TRUE,  dryRun |-> TRUE,  verbose |-> FALSE, pack |-> FALSE, consent |-> TRUE],
   [probing |-> FALSE, dryRun |-> FALSE, verbose |-> FALSE, pack |-> TRUE,  consent |-> TRUE],
   [probing |-> FALSE, dryRun |-> FALSE, verbose |-> TRUE,  pack |-> TRUE,  consent |-> FALSE]}

=============================================================================
