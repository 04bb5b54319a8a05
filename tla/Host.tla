-------------------------------- MODULE Host --------------------------------
(***************************************************************************)
(* The host daemon (crates/lm-provision-host): the interval timer that     *)
(* runs one sweep after another as a child process, the status the sweeps  *)
(* add up to, the document the health endpoint answers with, and Ctrl-C.   *)
(*                                                                         *)
(* Time is relative, so the daemon may run for ever: the timer counts down *)
(* to its deadline and up past it.  A sweep is what its process may do     *)
(* (main.rs, run_sweep): exit 0 with an artifact that names no failure,    *)
(* exit 1 with one that does, or end without one; --driver may name a      *)
(* program that writes something else.                                     *)
(***************************************************************************)
EXTENDS Integers

CONSTANTS
  Interval,   \* --interval-secs
  MaxLate     \* bound: how late a tick is told apart

ASSUME HostAssumption == Interval \in Nat \ {0} /\ MaxLate \in Nat

VARIABLES
  left,      \* until the timer's deadline
  late,      \* how long the deadline has been past
  sweeping,  \* the child runs
  newest,    \* how the newest sweep ended, with no memory of the daemon's
  status,    \* the daemon's whole memory of the sweeps
  caught,    \* SIGINT has a handler, and no longer ends the process by itself
  asked,     \* Ctrl-C has been pressed
  heard,     \* and the loop's ctrl_c future has seen it
  stopped

vars == <<left, late, sweeping, newest, status, caught, asked,
          heard, stopped>>

Smaller(a, b) == IF a < b THEN a ELSE b

-----------------------------------------------------------------------------
(* What a sweep leaves                                                      *)

\* `wrote` is what its stdout holds, `failed` whether that names a machine
\* that could not be released.
Endings ==
  { [spawned |-> TRUE,  zero |-> TRUE,  wrote |-> "artifact", failed |-> FALSE],
    [spawned |-> TRUE,  zero |-> FALSE, wrote |-> "artifact", failed |-> TRUE],
    [spawned |-> TRUE,  zero |-> FALSE, wrote |-> "nothing",  failed |-> FALSE],
    [spawned |-> TRUE,  zero |-> TRUE,  wrote |-> "other",    failed |-> FALSE],
    [spawned |-> FALSE, zero |-> FALSE, wrote |-> "nothing",  failed |-> FALSE] }

None == [spawned |-> FALSE, zero |-> TRUE, wrote |-> "nothing", failed |-> FALSE]

\* Mutant: the exit code is not looked at.
ParsedIsFine(end) ==
  IF end.spawned /\ end.wrote = "artifact"
    THEN [ok |-> TRUE, error |-> "none", artifact |-> end]
  ELSE [ok |-> FALSE, error |-> "unparseable", artifact |-> None]

\* tick, interpret_sweep: a failing sweep's artifact rides on the failure.
Interpreted(end) ==
  CASE ~end.spawned ->
         [ok |-> FALSE, error |-> "spawn", artifact |-> None]
    [] end.spawned /\ ~end.zero ->
         [ok |-> FALSE, error |-> "exit",
          artifact |-> IF end.wrote = "artifact" THEN end ELSE None]
    [] end.spawned /\ end.zero /\ end.wrote # "artifact" ->
         [ok |-> FALSE, error |-> "unparseable", artifact |-> None]
    [] OTHER -> [ok |-> TRUE, error |-> "none", artifact |-> end]

Started == [ticked |-> FALSE, ok |-> FALSE, error |-> "none", artifact |-> None]

\* record
Recorded(end) ==
  LET fold == Interpreted(end) IN
  [ticked |-> TRUE, ok |-> fold.ok, error |-> fold.error,
   artifact |-> fold.artifact]

\* health: what the endpoint answers, to whoever asks at any time.
Health == [ok |-> status.ticked => status.ok, error |-> status.error,
           artifact |-> status.artifact]

Init ==
  /\ left = 0 /\ late = 0
  /\ sweeping = FALSE
  /\ newest = None
  /\ status = Started
  /\ caught = FALSE /\ asked = FALSE /\ heard = FALSE
  /\ stopped = FALSE

-----------------------------------------------------------------------------
(* main                                                                     *)

\* A tick that is due and unanswered is only late while a sweep runs.  A loop
\* that waits has polled both branches, and the first poll of ctrl_c() is what
\* installs the handler.
Pass ==
  /\ left > 0 \/ sweeping
  /\ IF left > 0 THEN left' = left - 1 /\ UNCHANGED late
                 ELSE late' = Smaller(late + 1, MaxLate) /\ UNCHANGED left
  /\ caught' = (caught \/ ~sweeping)
  /\ UNCHANGED <<sweeping, newest, status, asked, heard, stopped>>

\* MissedTickBehavior::Delay: the next deadline is an interval from now.
AfterTick == Interval

\* Mutant: a failed tick fails its caller, and the loop is over.
BeginSweepWhileWell ==
  /\ Health.ok
  /\ ~sweeping /\ left = 0
  /\ sweeping' = TRUE
  /\ left' = Interval /\ late' = 0 /\ heard' = FALSE
  /\ UNCHANGED <<newest, status, caught, asked, stopped>>

\* select! takes the timer's branch, having polled the other or not: its future
\* is dropped, and with it a Ctrl-C it may have seen.
BeginSweep ==
  /\ ~sweeping /\ left = 0
  /\ sweeping' = TRUE
  /\ left' = AfterTick /\ late' = 0
  /\ caught' \in {caught, TRUE}
  /\ heard' = FALSE
  /\ UNCHANGED <<newest, status, asked, stopped>>

\* tick: the child's end is awaited and recorded, whatever it is.
EndSweep ==
  /\ sweeping
  /\ \E end \in Endings :
       /\ newest' = end
       /\ status' = Recorded(end)
  /\ sweeping' = FALSE
  /\ UNCHANGED <<left, late, caught, asked, heard, stopped>>

\* SIGINT ends a process that has not caught it yet; caught, it reaches the
\* listeners there are, and there are none while a sweep is awaited.
Interrupt ==
  /\ ~asked
  /\ asked' = TRUE
  /\ heard' = (caught /\ ~sweeping)
  /\ stopped' = ~caught
  /\ UNCHANGED <<left, late, sweeping, newest, status, caught>>

\* select! takes the other branch.
Stop ==
  /\ ~sweeping /\ heard
  /\ stopped' = TRUE
  /\ UNCHANGED <<left, late, sweeping, newest, status, caught, asked, heard>>

Next ==
  /\ ~stopped
  /\ Pass \/ BeginSweep \/ EndSweep \/ Interrupt \/ Stop

Spec == Init /\ [][Next]_vars

\* Time passes and the loop's branches are polled; a sweep's process ends (the
\* daemon sets it no deadline).
Fairness ==
  /\ WF_vars(~stopped /\ Pass)
  /\ WF_vars(~stopped /\ BeginSweep)
  /\ WF_vars(~stopped /\ EndSweep)
  /\ WF_vars(~stopped /\ Stop)

FairSpec == Spec /\ Fairness

-----------------------------------------------------------------------------
(* Properties                                                               *)

\* The timer and the daemon's memory have the shape the code gives them
\* (Status, tokio's Interval).
TypeOK ==
  /\ left \in 0 .. Interval /\ late \in 0 .. MaxLate
  /\ {sweeping, caught, asked, heard, stopped} \subseteq BOOLEAN
  /\ newest \in Endings \cup {None}
  /\ status.error \in {"none", "spawn", "exit", "unparseable"}
  /\ status.artifact \in Endings \cup {None}
  /\ (late > 0 => left = 0) /\ (heard => asked)

\* ok is never said after a sweep that was not started, ended badly, wrote no
\* artifact or left a machine running past its lease (interpret_sweep, record,
\* health).
OkIsEarned ==
  Health.ok =>
    newest = None
      \/ (newest.spawned /\ newest.zero /\ newest.wrote = "artifact" /\ ~newest.failed)

\* Enforcement goes on for as long as the daemon is up: no failing sweep is
\* the last (tick never fails its caller).
KeepsSweeping == []<>(sweeping \/ stopped)

-----------------------------------------------------------------------------
(* What the documents say, and the code does not do                         *)

\* crates/lm-provision-host/README.md: "Ctrl-C stops the daemon".  One pressed
\* during a sweep, or as a tick comes due, is lost.
CtrlCStops == asked ~> stopped
=============================================================================
