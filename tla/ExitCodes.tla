------------------------------ MODULE ExitCodes ------------------------------
(***************************************************************************)
(* The exit codes the components share (src/infra/stop_signal.h, the       *)
(* shell's code for a tool that does not exist, and the program's own).    *)
(***************************************************************************)
EXTENDS Integers

Succeeded  == 0
Failure    == 1
Missing    == 127
Canceled   == 130   \* kCanceledExitCode
Unfinished == -1    \* no exit code yet
=============================================================================
