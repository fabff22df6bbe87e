------------------------------ MODULE MCSupport ------------------------------
(* The components below the workflows, each alone, in one run: the initial   *)
(* state picks one, and only that one moves.                                 *)
EXTENDS StopSignal, Exec, ProgressBars, EtaEstimator, StateFile, Probing, Settings,
        ModelStore

VARIABLE part   (* the component this behaviour is about *)

Parts == {"signal", "exec", "bars", "eta", "file", "cq", "probe", "settings", "models"}

Init ==
  /\ part \in Parts
  /\ SigInit /\ ExecInit /\ BarsInit /\ EtaInit /\ FileInit /\ CqInit /\ ProbeInit
  /\ SetInit /\ MsInit

Next ==
  /\ UNCHANGED part
  /\ \/ /\ part = "signal" /\ SigNext
        /\ UNCHANGED <<execVars, barVars, etaVars, fileVars, cqVars, probeVars, setVars,
                       msVars>>
     \/ /\ part = "exec" /\ ExecNext
        /\ UNCHANGED <<sigVars, barVars, etaVars, fileVars, cqVars, probeVars, setVars,
                       msVars>>
     \/ /\ part = "bars" /\ BarsNext
        /\ UNCHANGED <<sigVars, execVars, etaVars, fileVars, cqVars, probeVars, setVars,
                       msVars>>
     \/ /\ part = "eta" /\ EtaNext
        /\ UNCHANGED <<sigVars, execVars, barVars, fileVars, cqVars, probeVars, setVars,
                       msVars>>
     \/ /\ part = "file" /\ FileNext
        /\ UNCHANGED <<sigVars, execVars, barVars, etaVars, cqVars, probeVars, setVars,
                       msVars>>
     \/ /\ part = "cq" /\ CqNext
        /\ UNCHANGED <<sigVars, execVars, barVars, etaVars, fileVars, probeVars, setVars,
                       msVars>>
     \/ /\ part = "probe" /\ ProbeNext
        /\ UNCHANGED <<sigVars, execVars, barVars, etaVars, fileVars, cqVars, setVars,
                       msVars>>
     \/ /\ part = "settings" /\ SetNext
        /\ UNCHANGED <<sigVars, execVars, barVars, etaVars, fileVars, cqVars, probeVars,
                       msVars>>
     \/ /\ part = "models" /\ MsNext
        /\ UNCHANGED <<sigVars, execVars, barVars, etaVars, fileVars, cqVars, probeVars,
                       setVars>>

vars == <<part, sigVars, execVars, barVars, etaVars, fileVars, cqVars, probeVars, setVars,
          msVars>>

\* In the initial state of a component none of its fair actions is enabled, so
\* the fairness of one asks nothing of the behaviours of another.
Spec == Init /\ [][Next]_vars /\ SigFairness /\ ExecFairness /\ BarsFairness

\* Whatever is waited for comes: the stop reaches every waiter and, on Windows, the
\* end of the process; a call returns after a stop; the bars are erased; a badge
\* without an estimator goes.
SupportReturns ==
  EveryWaiterLearns /\ StopEndsTheProcess /\ StopReturnsCall /\ EraseReturns /\ StaleBadgeGoes
=============================================================================
