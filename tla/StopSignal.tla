----------------------------- MODULE StopSignal -----------------------------
(***************************************************************************)
(* The stop flag, the event that wakes those who wait for it and the       *)
(* watchdog that ends a process which does not stop                        *)
(* (src/infra/stop_signal.cpp), from the program's start on.               *)
(* On POSIX the event is a pipe that every waiter drains, on Windows a     *)
(* manual-reset event that the first waiter creates.                       *)
(***************************************************************************)
EXTENDS Integers

CONSTANTS
  Waiters,    (* threads in waitForStop: the monitor, the packing spinner   *)
  Requests    (* stop requests: Ctrl-C, a signal                            *)

PipeBytes == 2   \* bound: bytes the pipe holds before a write is refused

VARIABLES
  platform,       (* "posix" or "windows"                                   *)
  boot,           (* main: "start", "installed", "ready", "gone"            *)
  stopRequested,  (* gStopRequested                                         *)
  eventMade,      (* the pipe, or gStopEvent, exists                        *)
  event,          (* bytes in the pipe; 1 when the Windows event is set     *)
  deadline,       (* gForceExitDeadlineMs: "none", "armed", "over"          *)
  request,        (* where the handler of each request is                   *)
  waiter,         (* where each waiter is; "told" when it returned TRUE     *)
  forced,         (* the process was ended by force                         *)
  early           (* history: requests whose flag the startup reset erased  *)

sigVars == <<platform, boot, stopRequested, eventMade, event, deadline, request,
             waiter, forced, early>>

Windows == platform = "windows"
Alive   == ~forced /\ boot # "gone"

SigInit ==
  /\ platform = "posix"
  /\ boot = "start"
  /\ stopRequested = FALSE
  /\ eventMade = FALSE
  /\ event = 0
  /\ deadline = "none"
  /\ request = [r \in Requests |-> "idle"]
  /\ waiter = [w \in Waiters |-> "idle"]
  /\ forced = FALSE
  /\ early = {}

-----------------------------------------------------------------------------
(* Startup: app_entry.cpp installs the handler and then resets the state. *)

\* installHandler; ensureStopPipe may fail, and then there is no pipe.
InstallHandler ==
  /\ boot = "start"
  /\ boot' = "installed"
  /\ platform' \in {"posix", "windows"}
  /\ eventMade' \in IF platform' = "posix" THEN BOOLEAN ELSE {FALSE}
  /\ UNCHANGED <<stopRequested, event, deadline, request, waiter, forced, early>>

\* reset: a request that came in since is forgotten, one that is half handled
\* keeps its remaining steps.
Reset ==
  /\ Alive /\ boot = "installed"
  /\ boot' = "ready"
  /\ stopRequested' = FALSE
  /\ deadline' = "none"
  /\ event' = 0
  /\ early' = {r \in Requests : request[r] # "idle"}
  /\ UNCHANGED <<platform, eventMade, request, waiter, forced>>

\* The program ends: the stage that ran left at a checkpoint or was done.
EndProcess ==
  /\ Alive /\ boot = "ready"
  /\ boot' = "gone"
  /\ UNCHANGED <<platform, stopRequested, eventMade, event, deadline, request, waiter,
                 forced, early>>

-----------------------------------------------------------------------------
(* A stop request: the flag, then the event, then the deadline *)

SetFlag(r) ==
  /\ Alive /\ boot # "start" /\ request[r] = "idle"
  /\ stopRequested' = TRUE
  /\ request' = [request EXCEPT ![r] = "flagged"]
  /\ UNCHANGED <<platform, boot, eventMade, event, deadline, waiter, forced, early>>

\* signalStopEvent: a full pipe refuses the byte, which loses nothing.
SignalEvent(r) ==
  /\ Alive /\ request[r] = "flagged"
  /\ event' = IF ~eventMade THEN event
              ELSE IF Windows THEN 1
              ELSE IF event < PipeBytes THEN event + 1 ELSE event
  /\ request' = [request EXCEPT ![r] = IF Windows THEN "signaled" ELSE "done"]
  /\ UNCHANGED <<platform, boot, stopRequested, eventMade, deadline, waiter, forced, early>>

\* armForceExitDeadline: the second request while a deadline is armed ends the
\* process at once.
ArmDeadline(r) ==
  /\ Alive /\ request[r] = "signaled"
  /\ request' = [request EXCEPT ![r] = "done"]
  /\ IF deadline = "none" THEN deadline' = "armed" /\ UNCHANGED forced
                          ELSE forced' = TRUE /\ UNCHANGED deadline
  /\ UNCHANGED <<platform, boot, stopRequested, eventMade, event, waiter, early>>

GraceOver ==
  /\ Alive /\ deadline = "armed"
  /\ deadline' = "over"
  /\ UNCHANGED <<platform, boot, stopRequested, eventMade, event, request, waiter,
                 forced, early>>

\* Mutant: the watchdog wakes by the event, which nobody may have created.
Overdue_ByEvent == deadline = "over" /\ stopRequested /\ event > 0

Overdue == deadline = "over" /\ stopRequested

Watchdog ==
  /\ Alive /\ Overdue
  /\ forced' = TRUE
  /\ UNCHANGED <<platform, boot, stopRequested, eventMade, event, deadline, request,
                 waiter, early>>

-----------------------------------------------------------------------------
(* waitForStop *)

WaiterGoes(w, place) ==
  /\ waiter' = [waiter EXCEPT ![w] = place]
  /\ UNCHANGED <<platform, boot, stopRequested, deadline, request, forced, early>>

\* isStopRequested, then stopEventHandle: the pipe is there or not; the Windows
\* event is created by who finds none (CreateEvent may fail as well).
WaitBegin(w) ==
  /\ Alive /\ boot = "ready" /\ waiter[w] = "idle"
  /\ UNCHANGED <<eventMade, event>>
  /\ \/ stopRequested /\ WaiterGoes(w, "told")
     \/ ~stopRequested /\ eventMade /\ WaiterGoes(w, "polling")
     \/ ~stopRequested /\ ~eventMade /\ WaiterGoes(w, "asking")
     \/ ~stopRequested /\ ~eventMade /\ Windows /\ WaiterGoes(w, "creating")

\* compare_exchange on gStopEvent: the loser closes its event and takes the
\* winner's.
PublishEvent(w) ==
  /\ Alive /\ waiter[w] = "creating"
  /\ eventMade' = TRUE
  /\ UNCHANGED event
  /\ WaiterGoes(w, IF eventMade THEN "polling" ELSE "created")

\* Mutant: the creator does not look at the flag again.
EventOfCreator_Unset == event

EventOfCreator == IF stopRequested THEN 1 ELSE event

CheckFlagAgain(w) ==
  /\ Alive /\ waiter[w] = "created"
  /\ event' = EventOfCreator
  /\ UNCHANGED eventMade
  /\ WaiterGoes(w, "polling")

\* Mutant: a byte in the pipe is taken for the request itself.
AfterWake_Told == "told"

\* On Windows the set event is the answer, on POSIX the flag is asked.
AfterWake == IF Windows THEN "told" ELSE "draining"

Wake(w) ==
  /\ Alive /\ waiter[w] = "polling" /\ event > 0
  /\ UNCHANGED <<eventMade, event>>
  /\ WaiterGoes(w, AfterWake)

\* The drain empties the pipe for every other waiter, too.
Drain(w) ==
  /\ Alive /\ waiter[w] = "draining"
  /\ event' = 0
  /\ UNCHANGED eventMade
  /\ WaiterGoes(w, "asking")

\* Mutant: a wait has no timeout.
TimesOut_Never == FALSE

TimesOut == TRUE

WaitTimeout(w) ==
  /\ Alive /\ waiter[w] = "polling" /\ TimesOut
  /\ UNCHANGED <<eventMade, event>>
  /\ WaiterGoes(w, "asking")

\* The final isStopRequested; a caller told FALSE does its round and waits again.
WaitReturn(w) ==
  /\ Alive /\ waiter[w] = "asking"
  /\ UNCHANGED <<eventMade, event>>
  /\ WaiterGoes(w, IF stopRequested THEN "told" ELSE "idle")

-----------------------------------------------------------------------------
RequestStep(r) == SetFlag(r) \/ SignalEvent(r) \/ ArmDeadline(r)

WaiterStep(w) ==
  \/ WaitBegin(w) \/ PublishEvent(w) \/ CheckFlagAgain(w) \/ Wake(w) \/ Drain(w)
  \/ WaitReturn(w)

SigNext ==
  \/ InstallHandler \/ Reset \/ EndProcess \/ GraceOver \/ Watchdog
  \/ \E r \in Requests : RequestStep(r)
  \/ \E w \in Waiters : WaiterStep(w) \/ WaitTimeout(w)

SigSpec == SigInit /\ [][SigNext]_sigVars

\* Threads and handlers are scheduled and time passes.  The timeout of a wait is
\* counted on only where a waiter may have lost its byte to another.
SigFairness ==
  /\ WF_sigVars(GraceOver) /\ WF_sigVars(Watchdog)
  /\ \A r \in Requests : WF_sigVars(SignalEvent(r)) /\ WF_sigVars(ArmDeadline(r))
  /\ \A w \in Waiters : /\ WF_sigVars(WaiterStep(w))
                        /\ WF_sigVars(~Windows /\ WaitTimeout(w))

-----------------------------------------------------------------------------
(* Properties *)

\* A wait reports a stop only when there is one (waitForStop, lines 250-272): a
\* stale byte in the pipe wakes a waiter but does not stop its work.  Only on
\* Windows can the event of a request that the startup reset erased do that.
ToldOnlyOfStops ==
  \A w \in Waiters : waiter[w] = "told" => stopRequested \/ (Windows /\ early # {})

\* On Windows nobody sleeps on an event that a handled request left unset, although
\* the event may be created after the request and by several threads at once
\* (stopEventHandle, lines 225-248).
WakeIsNotLost ==
  Windows /\ stopRequested /\ (\E w \in Waiters : waiter[w] = "polling") =>
    event > 0 \/ (\E r \in Requests : request[r] = "flagged")
              \/ (\E w \in Waiters : waiter[w] = "created")

\* Every thread that waits learns of a stop: on Windows from the event alone, on
\* POSIX although one waiter may drain the byte that was to wake the others.
EveryWaiterLearns ==
  (boot = "ready" /\ stopRequested) ~> (~Alive \/ \A w \in Waiters : waiter[w] = "told")

\* On Windows a process that was asked to stop does end, whatever its stages do
\* and whether or not anyone ever waited for the event
\* (ensureForceExitWatchdogStarted, lines 90-118).
StopEndsTheProcess == (Windows /\ boot = "ready" /\ stopRequested) ~> ~Alive

\* A wait and the stop never miss each other: neither a false alarm nor a lost one.
StopIsHeard == ToldOnlyOfStops /\ WakeIsNotLost
=============================================================================
