-------------------------- MODULE SnapshotRegister --------------------------
(***************************************************************************)
(* What the job store expects of the file it flushes its snapshot to       *)
(* (detail::flushSnapshot, src/core/job_state.cpp) and what JobState takes *)
(* for granted: a register that a flush overwrites whole or leaves alone,  *)
(* that answers truthfully, and that survives the end of the process.  Its *)
(* one weakness is a fallback that is cut off, which empties it.           *)
(***************************************************************************)
EXTENDS Naturals

VARIABLES
  value,   (* the snapshot a run that starts now would load; 0: none *)
  held,    (* the snapshot of the running process; 0: none           *)
  flushing,
  answer,  (* what the last flush answered                           *)
  lost     (* what emptied the register in this job, or "no"         *)

registerVars == <<value, held, flushing, answer, lost>>

RegisterInit ==
  value = 0 /\ held = 0 /\ flushing = FALSE /\ answer = "none" /\ lost = "no"

\* The process loads or makes a snapshot, or changes the one it holds.
Hold ==
  /\ ~flushing
  /\ held' \in Nat /\ held' > held
  /\ flushing' \in BOOLEAN
  /\ answer' = "none"
  /\ lost' = IF held = 0 THEN "no" ELSE lost
  /\ UNCHANGED value

Commit ==
  /\ flushing
  /\ value' = held
  /\ UNCHANGED <<held, flushing, answer, lost>>

Answer ==
  /\ flushing
  /\ answer' = IF value = held THEN "ok" ELSE "error"
  /\ flushing' = FALSE
  /\ UNCHANGED <<value, held, lost>>

CommitAndAnswer ==
  /\ flushing
  /\ value' = held /\ answer' = "ok"
  /\ flushing' = FALSE
  /\ UNCHANGED <<held, lost>>

\* The flush is cut off with the old snapshot moved aside, and is not a success.
Lose ==
  /\ flushing
  /\ value' = 0
  /\ flushing' = FALSE
  /\ \/ lost' = "restore" /\ held' = held /\ answer' = "error"
     \/ lost' \in {"crash", "restore"} /\ held' = 0 /\ answer' = "none"

End ==
  /\ held' = 0 /\ flushing' = FALSE /\ answer' = "none"
  /\ UNCHANGED <<value, lost>>

RegisterNext == Hold \/ Commit \/ Answer \/ CommitAndAnswer \/ Lose \/ End

RegisterSpec == RegisterInit /\ [][RegisterNext]_registerVars

=============================================================================
