-------------------------------- MODULE Exec --------------------------------
(***************************************************************************)
(* One subprocess call (src/utils/utils.cpp: exec2, runProcess): the race  *)
(* of the child's output, its end and the stop request, the drains after   *)
(* the race and the child's termination.  Output is counted in half lines: *)
(* an odd unit starts a line and the even one after it ends it.            *)
(***************************************************************************)
EXTENDS ExitCodes

CONSTANT MaxOutput   \* bound: half lines a child writes to a stream

VARIABLES
  call,       (* where runProcess is                                        *)
  merged,     (* mergeStdErr                                                *)
  child,      (* "none", "running", "gone"                                  *)
  childCode,  (* the exit code it ends with                                 *)
  outEnds,    (* who holds the write end of stdout: the child, a grandchild *)
  errEnds,    (* and of the separate stderr                                 *)
  outWritten, (* half lines written to stdout                               *)
  outRead,    (* half lines in state->output_                               *)
  errWritten,
  errRead,
  partial,    (* half a line in the pendingLine of the current read         *)
  torn,       (* history: a callback got a tail of a line, and not from the *)
              (* drain after the child's end                               *)
  stopped,    (* isStopRequested()                                          *)
  sawRunning, (* history: terminateOnStop found the child running           *)
  code        (* the call's exit code                                       *)

execVars == <<call, merged, child, childCode, outEnds, errEnds, outWritten, outRead,
              errWritten, errRead, partial, torn, stopped, sawRunning, code>>

outVars   == <<outRead, partial, torn>>
childVars == <<child, outEnds, errEnds, outWritten, errWritten>>

ExecInit ==
  /\ call = "idle" /\ merged = TRUE
  /\ child = "none" /\ childCode = 0 /\ code = Unfinished
  /\ outEnds = {} /\ errEnds = {}
  /\ outWritten = 0 /\ outRead = 0 /\ errWritten = 0 /\ errRead = 0
  /\ partial = FALSE /\ torn = FALSE
  /\ stopped = FALSE /\ sawRunning = FALSE

\* resolveExecutableToken finds no file: 127, and nothing is launched.
CallMissing ==
  /\ call = "idle"
  /\ call' = "done" /\ code' = Missing
  /\ UNCHANGED <<merged, childVars, childCode, outVars, errRead, stopped, sawRunning>>

\* The child is launched and the parent's write ends are closed.
Launch ==
  /\ call = "idle"
  /\ merged' \in BOOLEAN
  /\ childCode' \in {0, 1}
  /\ call' = "race"
  /\ child' = "running"
  /\ outEnds' = {"child"}
  /\ errEnds' = IF merged' THEN {} ELSE {"child"}
  /\ UNCHANGED <<outWritten, errWritten, outVars, errRead, stopped, sawRunning, code>>

RequestStopOfCall ==
  /\ ~stopped /\ call # "done"
  /\ stopped' = TRUE
  /\ UNCHANGED <<call, merged, childVars, childCode, outVars, errRead, sawRunning, code>>

-----------------------------------------------------------------------------
(* The child *)

ChildStep ==
  /\ call # "done"
  /\ UNCHANGED <<call, merged, childCode, outVars, errRead, stopped, sawRunning, code>>

ChildWrites ==
  /\ child = "running"
  /\ \/ /\ "child" \in outEnds /\ outWritten < MaxOutput
        /\ outWritten' = outWritten + 1
        /\ UNCHANGED errWritten
     \/ /\ "child" \in errEnds /\ errWritten < MaxOutput
        /\ errWritten' = errWritten + 1
        /\ UNCHANGED outWritten
  /\ UNCHANGED <<child, outEnds, errEnds>>
  /\ ChildStep

\* A child may close its stdout or stderr and go on, or start a process of its
\* own that inherits both.
ChildCloses ==
  /\ child = "running"
  /\ \/ outEnds' = outEnds \ {"child"} /\ UNCHANGED errEnds
     \/ errEnds' = errEnds \ {"child"} /\ UNCHANGED outEnds
  /\ UNCHANGED <<child, outWritten, errWritten>>
  /\ ChildStep

ChildForks ==
  /\ child = "running" /\ "child" \in outEnds
  /\ outEnds' = outEnds \cup {"grandchild"}
  /\ errEnds' = IF "child" \in errEnds THEN errEnds \cup {"grandchild"} ELSE errEnds
  /\ UNCHANGED <<child, outWritten, errWritten>>
  /\ ChildStep

\* It ends by itself or because it was terminated.
ChildEnds ==
  /\ child = "running"
  /\ child' = "gone"
  /\ outEnds' = outEnds \ {"child"}
  /\ errEnds' = errEnds \ {"child"}
  /\ UNCHANGED <<outWritten, errWritten>>
  /\ ChildStep

-----------------------------------------------------------------------------
(* readAllInto: a chunk at a time, callbacks for the lines it completes *)

ReadOut ==
  /\ outRead < outWritten
  /\ outRead' = outRead + 1
  /\ partial' = (outRead' % 2 = 1)
  /\ torn' = (torn \/ (merged /\ call # "drainAfterExit" /\ outRead' % 2 = 0 /\ ~partial))
  /\ UNCHANGED errRead

ReadErr ==
  /\ errRead < errWritten
  /\ errRead' = errRead + 1
  /\ UNCHANGED outVars

\* Mutant: a pipe counts as ended when nothing is in it.
Eof_Empty(ends, written, read) == written = read

Eof(ends, written, read) == ends = {} /\ written = read

OutEof == Eof(outEnds, outWritten, outRead)
ErrEof == merged \/ Eof(errEnds, errWritten, errRead)

CallStep == UNCHANGED <<merged, childVars, childCode, stopped>>

\* The two readers of the race.
ReadInRace ==
  /\ call = "race"
  /\ ReadOut \/ ReadErr
  /\ UNCHANGED <<call, sawRunning, code>>
  /\ CallStep

\* One awaitable wins and the others are canceled: an end of file, the child's
\* end or the stop.  A canceled reader takes its half line with it.
RaceEnds ==
  /\ call = "race"
  /\ \/ (OutEof \/ (~merged /\ ErrEof)) /\ call' = "drainBeforeExit"
     \/ child = "gone" /\ call' = "drainAfterExit"
     \/ stopped /\ call' = "terminate"
  /\ partial' = FALSE
  /\ UNCHANGED <<outRead, torn, errRead, sawRunning, code>>
  /\ CallStep

\* Whichever drain it is, stdout is read to its end, then stderr, and nothing
\* else is looked at meanwhile.
DrainRead ==
  /\ call \in {"drainBeforeExit", "drainAfterExit"}
  /\ ReadOut \/ (OutEof /\ ReadErr)
  /\ UNCHANGED <<call, sawRunning, code>>
  /\ CallStep

Drained == OutEof /\ ErrEof

DrainEnds ==
  /\ call \in {"drainBeforeExit", "drainAfterExit"}
  /\ Drained
  /\ IF call = "drainAfterExit" THEN call' = "done" /\ code' = childCode
                                ELSE call' = "second" /\ UNCHANGED code
  /\ UNCHANGED <<outVars, errRead, sawRunning>>
  /\ CallStep

\* waitExitOp || stopOp
SecondRace ==
  /\ call = "second"
  /\ \/ child = "gone" /\ call' = "done" /\ code' = childCode
     \/ stopped /\ call' = "terminate" /\ UNCHANGED code
  /\ UNCHANGED <<outVars, errRead, sawRunning>>
  /\ CallStep

-----------------------------------------------------------------------------
(* terminateOnStop *)

\* Mutant: whoever loses to the stop is reported as canceled.
EndedByItself_Never == FALSE

EndedByItself == child = "gone"

\* A child that had already ended keeps its code; else it is asked to end, which
\* may be refused.
Terminate ==
  /\ call = "terminate"
  /\ IF EndedByItself THEN call' = "done" /\ code' = childCode
                      ELSE call' = "grace" /\ UNCHANGED code
  /\ sawRunning' = (child = "running")
  /\ UNCHANGED <<outVars, errRead>>
  /\ CallStep

\* Mutant: the grace period has no end.
GraceEnds_WithChild == child = "gone"

GraceEnds == TRUE   \* the child's end or the deadline, then detach

ExecCanceled ==
  /\ call = "grace"
  /\ GraceEnds
  /\ call' = "done" /\ code' = Canceled
  /\ UNCHANGED <<outVars, errRead, sawRunning>>
  /\ CallStep

-----------------------------------------------------------------------------
CallGoesOn == ReadInRace \/ RaceEnds \/ DrainRead \/ DrainEnds \/ SecondRace
              \/ Terminate \/ ExecCanceled

ExecNext ==
  \/ CallMissing \/ Launch \/ RequestStopOfCall
  \/ ChildWrites \/ ChildCloses \/ ChildForks \/ ChildEnds
  \/ CallGoesOn

ExecSpec == ExecInit /\ [][ExecNext]_execVars

\* The event loop runs.  Nothing is assumed of the child: it may run forever.
ExecFairness == WF_execVars(CallGoesOn)

-----------------------------------------------------------------------------
(* Properties *)

\* exec2 reports the cancellation code only for a child the stop found running
\* and else the child's own code: a finished encode is not taken for a canceled
\* one, whichever awaitable won (terminateOnStop, lines 158-187).
CodeIsTheChilds ==
  call = "done" /\ code # Missing =>
    IF code = Canceled THEN stopped /\ sawRunning ELSE child = "gone" /\ code = childCode

\* When no stop was involved everything the child wrote to either stream is in
\* the result, in whatever order the ends of file and the exit were seen
\* (lines 328-367).
OutputIsComplete ==
  call = "done" /\ child = "gone" /\ ~stopped =>
    outRead = outWritten /\ (merged \/ errRead = errWritten)

\* A call returns after a stop, even when the child ignores its termination
\* (lines 342-384).  The exceptions are the two drains: while a grandchild, or a
\* child that closed one of its two streams, holds an end open, nobody looks at
\* the stop.
HeldOpen ==
  /\ call \in {"drainBeforeExit", "drainAfterExit"}
  /\ outEnds # {} \/ (~merged /\ errEnds # {})

StopReturnsCall == (stopped /\ call # "idle") ~> (call = "done" \/ HeldOpen)

\* openspec/specs/subprocess-exec/spec.md:54: "each completed line of output MUST
\* be delivered to it", and not the tail of one.  The exception is a child whose end
\* wins the race: the half line its canceled reader holds is lost to the drain
\* (lines 71, 341, 363-371).
LinesAreWhole == ~torn

\* What a call reports of its child, code and output, is what the child did.
CallIsTruthful == CodeIsTheChilds /\ OutputIsComplete /\ LinesAreWhole
=============================================================================
