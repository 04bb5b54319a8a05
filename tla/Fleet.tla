-------------------------------- MODULE Fleet --------------------------------
(***************************************************************************)
(* The fleet of rented machines: `machine acquire`, `machine release` and  *)
(* `machine sweep` (lm-provision-cli/src/main.rs) over the platform's own  *)
(* account, the append-only acquisitions record and the apply ledger       *)
(* (lm-provision-protocol).  Every process is a separate invocation of the *)
(* CLI; they share the platform and the two files and nothing else.        *)
(*                                                                         *)
(* A machine id belongs to one platform (ProviderOf), a platform lists     *)
(* what it runs consistently, and the clock is shared.  Files are read and *)
(* appended atomically: each append is one write call.                     *)
(***************************************************************************)
EXTENDS Integers, Sequences, FiniteSets

CONSTANTS
  Machines,       \* the ids the platforms hand out
  Legacy,         \* machines bought before leases were stamped: a row, no stamp
  Foreign,        \* machines somebody else created: no stamp, no row
  Providers,      \* the platforms
  ProviderOf,     \* the platform of each machine
  Sweepers,       \* concurrent `machine sweep` processes
  Asks,           \* the --provider sets a sweep is run with
  DryRuns,        \* the --dry-run values a sweep is run with
  Ttls,           \* leases on offer, in clock ticks
  Second,         \* clock ticks in a second, the stamp's granularity
  UnreadableRows, \* whether a listing may hold rows it cannot read an id from
  ByHand,         \* bound: machines that are also released or ended outside sweeps
  LedgerFaults,   \* whether reading the ledger may fail
  Horizon,        \* bound: the last instant of the clock
  MaxApplies,     \* bound: ledger rows per machine
  MaxFaults       \* bound: failed calls, failed appends and crashes

NoLease == -1

ASSUME FleetAssumption ==
  /\ Machines # {}
  /\ Legacy \subseteq Machines
  /\ Foreign \subseteq Machines
  /\ Legacy \cap Foreign = {}
  /\ ProviderOf \in [Machines -> Providers]
  /\ Asks \subseteq SUBSET Providers
  /\ DryRuns \subseteq BOOLEAN
  /\ Ttls \subseteq Nat
  /\ Second \in Nat \ {0}
  /\ UnreadableRows \in BOOLEAN
  /\ ByHand \subseteq Machines
  /\ LedgerFaults \in BOOLEAN
  /\ Horizon \in Nat
  /\ MaxApplies \in Nat
  /\ MaxFaults \in Nat

VARIABLES
  now,        \* the clock every process reads
  state,      \* what the platform has done with each machine
  lease,      \* the expiry an acquire computed, or NoLease
  record,     \* the rows of acquisitions.jsonl
  ledger,     \* the rows of the apply ledger, per machine, oldest first
  acquiring,  \* where the acquire that buys a machine is
  releasing,  \* where an operator's release of a machine is
  pc,         \* where each sweep is
  run,        \* what a sweep read at its start: flag, clock, outstanding rows
  view,       \* what is left of a sweep, and what the listings told it
  target,     \* the machine a sweep is releasing or retiring
  out,        \* what a sweep's artifact will say
  faults      \* failures so far

platformVars == <<state, lease>>
sweepVars == <<pc, run, view, target, out>>
vars == <<now, state, lease, record, ledger, acquiring, releasing,
          pc, run, view, target, out, faults>>

-----------------------------------------------------------------------------
(* Data *)

Gone(m) == state[m] \in {"swept", "released", "forced", "vanished"}

Stamped(m) == m \notin Legacy \cup Foreign

\* Mutant: the stamp keeps the minute and loses the second.
StampToMinute(t) == t - (t % (60 * Second))

\* The `lmp-exp-` name: the lease with everything below a second cut off.
StampOf(t) == t - (t % Second)

Row(m, expires, released) ==
  [id |-> m, expires |-> expires, released |-> released]

Retired == {r.id : r \in {q \in record : q.released}}

\* acquisition.rs: the id-join over the whole file, in whatever order the
\* rows were appended.
Outstanding == {r \in record : r.id \notin Retired}

RowsOf(m) == {r \in record : r.id = m}

Corrected(rows) == {[r EXCEPT !.released = TRUE] : r \in rows}

\* A machine this record never acquired is released all the same: its lease
\* fields are the moment of release, a lease nobody recorded is not invented.
FreshCorrection(m) == Row(m, now, TRUE)

\* The newest real apply left an artifact on the machine; dry-run rows are
\* stepped over.
Debt(m) ==
  \E i \in DOMAIN ledger[m] :
    /\ ~ledger[m][i].dry
    /\ ledger[m][i].debt
    /\ \A j \in DOMAIN ledger[m] : j > i => ledger[m][j].dry

\* Mutant: the newest row decides, a dry run's too.
GateOfNewestRow(m) ==
  {IF ledger[m] # << >> /\ ledger[m][Len(ledger[m])].debt
     THEN "holding" ELSE "clear"}

\* What the release gate may answer about m.
Gate(m) ==
  {IF Debt(m) THEN "holding" ELSE "clear"}
    \cup (IF LedgerFaults /\ faults < MaxFaults THEN {"unreadable"} ELSE {})

RunningOn(p) == {m \in Machines : ProviderOf[m] = p /\ state[m] = "running"}

\* Mutant: the fleet is read through the record instead of the platform.
RecordedReadings(p) == {{m \in RunningOn(p) : RowsOf(m) # {}}}

\* What reading p's listing yields: a row with no readable id is skipped,
\* unless nothing else could be read, which is an error.
Readings(p) ==
  IF UnreadableRows
    THEN {seen \in SUBSET RunningOn(p) : seen = {} => RunningOn(p) = {}}
    ELSE {RunningOn(p)}

Fault == faults < MaxFaults /\ faults' = faults + 1

NoOutcome ==
  [expired |-> 0, released |-> {}, refused |-> {}, failed |-> {},
   unasked |-> {}, unknown |-> {}]

NoRun == [dry |-> FALSE, at |-> 0, rows |-> {}]

NoView ==
  [planes |-> {}, found |-> {}, listed |-> {}, present |-> {},
   handled |-> {}, left |-> {}]

Init ==
  /\ now = 0
  /\ state = [m \in Machines |->
               IF m \in Legacy \cup Foreign THEN "running" ELSE "unbought"]
  /\ lease \in [Machines -> Ttls \cup {NoLease}]
  /\ \A m \in Machines : lease[m] # NoLease <=> m \in Legacy
  /\ record = {Row(m, lease[m], FALSE) : m \in Legacy}
  /\ ledger = [m \in Machines |-> << >>]
  /\ acquiring = [m \in Machines |->
                   IF Stamped(m) THEN "idle" ELSE "over"]
  /\ releasing = [m \in Machines |-> "idle"]
  /\ pc = [s \in Sweepers |-> "idle"]
  /\ run = [s \in Sweepers |-> NoRun]
  /\ view = [s \in Sweepers |-> NoView]
  /\ target = [s \in Sweepers |-> CHOOSE m \in Machines : TRUE]
  /\ out = [s \in Sweepers |-> NoOutcome]
  /\ faults = 0

-----------------------------------------------------------------------------
(* machine acquire.  Admission, rendering, the image check and the          *)
(* credential come before anything is spent and change nothing when they    *)
(* refuse; neither does --dry-run.                                          *)

\* The lease is read off the clock once, before the create is rendered.
AcquireAdmit(m) ==
  /\ acquiring[m] = "idle"
  /\ \E ttl \in Ttls : lease' = [lease EXCEPT ![m] = now + ttl]
  /\ acquiring' = [acquiring EXCEPT ![m] = "creating"]
  /\ UNCHANGED <<now, state, record, ledger, releasing, sweepVars, faults>>

AcquireCreate(m) ==
  /\ acquiring[m] = "creating"
  /\ state' = [state EXCEPT ![m] = "running"]
  /\ acquiring' = [acquiring EXCEPT ![m] = "recording"]
  /\ UNCHANGED <<now, lease, record, ledger, releasing, sweepVars, faults>>

\* The machine exists and the answer carried no id: nothing can be recorded.
AcquireAnonymous(m) ==
  /\ acquiring[m] = "creating"
  /\ Fault
  /\ state' = [state EXCEPT ![m] = "running"]
  /\ acquiring' = [acquiring EXCEPT ![m] = "over"]
  /\ UNCHANGED <<now, lease, record, ledger, releasing, sweepVars>>

AcquireRecord(m) ==
  /\ acquiring[m] = "recording"
  /\ record' = record \cup {Row(m, lease[m], FALSE)}
  /\ acquiring' = [acquiring EXCEPT ![m] = "over"]
  /\ UNCHANGED <<now, platformVars, ledger, releasing, sweepVars, faults>>

\* A create that failed, a row that could not be appended, or the process
\* dying between two of its steps: the machine stays what it was.
AcquireStops(m) ==
  /\ acquiring[m] \in {"creating", "recording"}
  /\ Fault
  /\ acquiring' = [acquiring EXCEPT
                    ![m] = IF @ = "recording" THEN "unrecorded" ELSE "over"]
  /\ UNCHANGED <<now, platformVars, record, ledger, releasing, sweepVars>>

-----------------------------------------------------------------------------
(* machine release --id m [--force]                                         *)

ReleaseGate(m) ==
  /\ m \in ByHand
  /\ releasing[m] = "idle"
  /\ state[m] # "unbought"
  /\ \E verdict \in Gate(m), force \in BOOLEAN :
       /\ verdict = "clear" \/ force
       /\ releasing' = [releasing EXCEPT
                         ![m] = IF verdict = "clear" THEN "passed" ELSE "forced"]
       /\ faults' = IF verdict = "unreadable" THEN faults + 1 ELSE faults
  /\ UNCHANGED <<now, platformVars, record, ledger, acquiring, sweepVars>>

ReleaseCall(m) ==
  /\ releasing[m] \in {"passed", "forced"}
  /\ state[m] = "running"
  /\ state' = [state EXCEPT
                ![m] = IF releasing[m] = "forced" THEN "forced" ELSE "released"]
  /\ releasing' = [releasing EXCEPT ![m] = "correcting"]
  /\ UNCHANGED <<now, lease, record, ledger, acquiring, sweepVars, faults>>

\* The platform knows no such machine: the command exits non-zero and no
\* correction is written.
ReleaseMissing(m) ==
  /\ releasing[m] \in {"passed", "forced"}
  /\ Gone(m)
  /\ releasing' = [releasing EXCEPT ![m] = "idle"]
  /\ UNCHANGED <<now, platformVars, record, ledger, acquiring, sweepVars, faults>>

\* correction_row: the recorded lease facts, or the moment of release twice.
ReleaseCorrect(m) ==
  /\ releasing[m] = "correcting"
  /\ record' = record \cup (IF RowsOf(m) = {} THEN {FreshCorrection(m)}
                                              ELSE Corrected(RowsOf(m)))
  /\ releasing' = [releasing EXCEPT ![m] = "idle"]
  /\ UNCHANGED <<now, platformVars, ledger, acquiring, sweepVars, faults>>

\* A profile, adapter or credential refusal, a failed call, a correction that
\* could not be appended, or the process dying.
ReleaseStops(m) ==
  /\ releasing[m] # "idle"
  /\ Fault
  /\ releasing' = [releasing EXCEPT ![m] = "idle"]
  /\ UNCHANGED <<now, platformVars, record, ledger, acquiring, sweepVars>>

-----------------------------------------------------------------------------
(* What else happens around the fleet                                       *)

Tick ==
  /\ now < Horizon
  /\ now' = now + 1
  /\ UNCHANGED <<platformVars, record, ledger, acquiring, releasing, sweepVars,
                 faults>>

\* A session for m reaches its ledger step.  A dry run records no artifacts.
LedgerAppend(m) ==
  /\ state[m] # "unbought"
  /\ Len(ledger[m]) < MaxApplies
  /\ \E dry, debt \in BOOLEAN :
       /\ dry => ~debt
       /\ ledger' = [ledger EXCEPT ![m] = Append(@, [dry |-> dry, debt |-> debt])]
  /\ UNCHANGED <<now, platformVars, record, acquiring, releasing, sweepVars,
                 faults>>

\* Deleted by hand, or ended by the platform.
Vanish(m) ==
  /\ m \in ByHand
  /\ state[m] = "running"
  /\ state' = [state EXCEPT ![m] = "vanished"]
  /\ UNCHANGED <<now, lease, record, ledger, acquiring, releasing, sweepVars,
                 faults>>

-----------------------------------------------------------------------------
(* machine sweep.  The record is read before any platform is asked and the  *)
(* clock right after it; the run keeps both to its end.                     *)

SweepStart(s) ==
  /\ pc[s] \in {"idle", "done"}
  /\ pc' = [pc EXCEPT ![s] = "work"]
  /\ \E dry \in DryRuns, ask \in Asks :
       /\ run' = [run EXCEPT ![s] = [dry |-> dry, at |-> now, rows |-> Outstanding]]
       /\ view' = [view EXCEPT ![s] = [NoView EXCEPT !.planes = ask,
                                                      !.left = Outstanding]]
  /\ out' = [out EXCEPT ![s] = NoOutcome]
  /\ UNCHANGED <<now, platformVars, record, ledger, acquiring, releasing,
                 target, faults>>

\* One platform's listing, taken when every machine of the one before it has
\* been dealt with.
SweepList(s, p) ==
  /\ pc[s] = "work"
  /\ view[s].found = {}
  /\ p \in view[s].planes
  /\ \E seen \in Readings(p) :
       view' = [view EXCEPT ![s].planes = @ \ {p}, ![s].found = seen,
                            ![s].listed = @ \cup {p}, ![s].present = @ \cup seen]
  /\ UNCHANGED <<now, platformVars, record, ledger, acquiring, releasing,
                 pc, run, target, out, faults>>

\* A platform nobody could list: no conclusion is drawn from its silence.
SweepListFails(s, p) ==
  /\ pc[s] = "work"
  /\ view[s].found = {}
  /\ p \in view[s].planes
  /\ Fault
  /\ view' = [view EXCEPT ![s].planes = @ \ {p}]
  /\ out' = [out EXCEPT ![s].unasked = @ \cup {p}]
  /\ UNCHANGED <<now, platformVars, record, ledger, acquiring, releasing,
                 pc, run, target>>

\* Where the artifact puts a machine whose lease has run out.
Judged(o, m, verdict, expired, dry) ==
  [o EXCEPT !.expired  = expired,
            !.released = IF verdict = "clear" /\ dry THEN @ \cup {m} ELSE @,
            !.refused  = IF verdict = "holding" THEN @ \cup {m} ELSE @,
            !.failed   = IF verdict = "unreadable" THEN @ \cup {m} ELSE @]

\* What both halves do with a machine whose lease has run out, once the gate
\* has answered.
Settle(s, m, verdict, expired) ==
  /\ out' = [out EXCEPT ![s] = Judged(@, m, verdict, expired, run[s].dry)]
  /\ faults' = IF verdict = "unreadable" THEN faults + 1 ELSE faults
  /\ IF verdict = "clear" /\ ~run[s].dry
       THEN /\ pc' = [pc EXCEPT ![s] = "call"]
            /\ target' = [target EXCEPT ![s] = m]
       ELSE UNCHANGED <<pc, target>>

\* Mutant: a listed machine is not set aside for the record half.
SettledUnmarked(s, m) == view' = [view EXCEPT ![s].found = @ \ {m}]

\* Mutant: an unstamped machine is set aside like any other.
LeftToNobody(s, m) ==
  view' = [view EXCEPT ![s].found = @ \ {m}, ![s].handled = @ \cup {m}]

\* A listed machine is dealt with: settled by its stamp, or left to the record.
Settled(s, m) ==
  view' = [view EXCEPT ![s].found = @ \ {m}, ![s].handled = @ \cup {m}]

LeftToRecord(s, m) == view' = [view EXCEPT ![s].found = @ \ {m}]

\* The platform half: standing() of one listed machine.
SweepFoundLive(s, m) ==
  /\ pc[s] = "work"
  /\ m \in view[s].found
  /\ Stamped(m) /\ StampOf(lease[m]) > run[s].at
  /\ Settled(s, m)
  /\ UNCHANGED <<now, platformVars, record, ledger, acquiring, releasing,
                 pc, run, target, out, faults>>

SweepFoundUnknown(s, m) ==
  /\ pc[s] = "work"
  /\ m \in view[s].found
  /\ ~Stamped(m)
  /\ LeftToRecord(s, m)
  /\ out' = [out EXCEPT ![s].unknown = @ \cup {m}]
  /\ UNCHANGED <<now, platformVars, record, ledger, acquiring, releasing,
                 pc, run, target, faults>>

SweepFoundExpired(s, m) ==
  /\ pc[s] = "work"
  /\ m \in view[s].found
  /\ Stamped(m) /\ StampOf(lease[m]) <= run[s].at
  /\ Settled(s, m)
  /\ \E verdict \in Gate(m) : Settle(s, m, verdict, out[s].expired + 1)
  /\ UNCHANGED <<now, platformVars, record, ledger, acquiring, releasing, run>>

\* The record half, once every platform has spoken: bookkeeping() of one row.
Rest(s, r) ==
  /\ pc[s] = "work"
  /\ view[s].found = {} /\ view[s].planes = {}
  /\ r \in view[s].left
  /\ view' = [view EXCEPT ![s].left = @ \ {r}]

\* Mutant: absence counts even when the platform was never listed.
AbsentAnywhere(s, m) == m \notin view[s].handled \cup view[s].present

\* Mutant: absence from a listing is never acted on.
NeverAbsent(s, m) == FALSE

\* The row's platform was listed and the machine was not in the answer.
Absent(s, m) ==
  m \notin view[s].handled /\ ProviderOf[m] \in view[s].listed
                           /\ m \notin view[s].present

\* Nothing else knows about the machine: the row is judged by its own lease.
Unsettled(s, m) == m \notin view[s].handled /\ ~Absent(s, m)

SweepRowHandled(s, r) ==
  /\ Rest(s, r)
  /\ r.id \in view[s].handled
  /\ UNCHANGED <<now, platformVars, record, ledger, acquiring, releasing,
                 pc, run, target, out, faults>>

\* Under --dry-run nothing is written anywhere, the record included.
Correct(s, m) ==
  IF run[s].dry
    THEN UNCHANGED <<pc, target>>
    ELSE /\ pc' = [pc EXCEPT ![s] = "retire"]
         /\ target' = [target EXCEPT ![s] = m]

SweepRowGone(s, r) ==
  /\ Rest(s, r)
  /\ Absent(s, r.id)
  /\ Correct(s, r.id)
  /\ UNCHANGED <<now, platformVars, record, ledger, acquiring, releasing,
                 run, out, faults>>

SweepRowLive(s, r) ==
  /\ Rest(s, r)
  /\ Unsettled(s, r.id)
  /\ r.expires > run[s].at
  /\ UNCHANGED <<now, platformVars, record, ledger, acquiring, releasing,
                 pc, run, target, out, faults>>

\* due(): a row whose gate could not be read is failed, and not counted.
SweepRowExpired(s, r) ==
  /\ Rest(s, r)
  /\ Unsettled(s, r.id)
  /\ r.expires <= run[s].at
  /\ \E verdict \in Gate(r.id) :
       Settle(s, r.id, verdict,
              out[s].expired + (IF verdict = "unreadable" THEN 0 ELSE 1))
  /\ UNCHANGED <<now, platformVars, record, ledger, acquiring, releasing, run>>

\* The row a sweep corrects is the one in its own snapshot.
SnapshotRows(s) == {r \in run[s].rows : r.id = target[s]}

\* The platform destroyed the machine and said so.
SweepCall(s) ==
  /\ pc[s] = "call"
  /\ state[target[s]] = "running"
  /\ state' = [state EXCEPT ![target[s]] = "swept"]
  /\ out' = [out EXCEPT ![s].released = @ \cup {target[s]}]
  /\ pc' = [pc EXCEPT ![s] = IF SnapshotRows(s) = {} THEN "work" ELSE "retire"]
  /\ UNCHANGED <<now, lease, record, ledger, acquiring, releasing,
                 run, view, target, faults>>

\* The machine is already gone and the platform refuses the call.  Nothing
\* is read out of its words.
SweepCallMissing(s) ==
  /\ pc[s] = "call"
  /\ Gone(target[s])
  /\ out' = [out EXCEPT ![s].failed = @ \cup {target[s]}]
  /\ pc' = [pc EXCEPT ![s] = "work"]
  /\ UNCHANGED <<now, platformVars, record, ledger, acquiring, releasing,
                 run, view, target, faults>>

\* A missing credential or a failed command; the machine may have been
\* destroyed before the command failed.
SweepCallFails(s) ==
  /\ pc[s] = "call"
  /\ state[target[s]] = "running"
  /\ Fault
  /\ state' \in {state, [state EXCEPT ![target[s]] = "swept"]}
  /\ out' = [out EXCEPT ![s].failed = @ \cup {target[s]}]
  /\ pc' = [pc EXCEPT ![s] = "work"]
  /\ UNCHANGED <<now, lease, record, ledger, acquiring, releasing,
                 run, view, target>>

SweepRetire(s) ==
  /\ pc[s] = "retire"
  /\ record' = record \cup Corrected(SnapshotRows(s))
  /\ pc' = [pc EXCEPT ![s] = "work"]
  /\ UNCHANGED <<now, platformVars, ledger, acquiring, releasing,
                 run, view, target, out, faults>>

\* A correction that fails to write is reported and not raised.
SweepRetireFails(s) ==
  /\ pc[s] = "retire"
  /\ Fault
  /\ pc' = [pc EXCEPT ![s] = "work"]
  /\ UNCHANGED <<now, platformVars, record, ledger, acquiring, releasing,
                 run, view, target, out>>

\* The artifact is printed; the exit code is 1 iff something failed.
SweepFinish(s) ==
  /\ pc[s] = "work"
  /\ view[s].found = {} /\ view[s].planes = {} /\ view[s].left = {}
  /\ pc' = [pc EXCEPT ![s] = "done"]
  /\ UNCHANGED <<now, platformVars, record, ledger, acquiring, releasing,
                 run, view, target, out, faults>>

SweepCrash(s) ==
  /\ pc[s] \notin {"idle", "done"}
  /\ Fault
  /\ pc' = [pc EXCEPT ![s] = "idle"]
  /\ run' = [run EXCEPT ![s] = NoRun]
  /\ view' = [view EXCEPT ![s] = NoView]
  /\ out' = [out EXCEPT ![s] = NoOutcome]
  /\ UNCHANGED <<now, platformVars, record, ledger, acquiring, releasing, target>>

-----------------------------------------------------------------------------

Acquire(m) ==
  \/ AcquireAdmit(m) \/ AcquireCreate(m) \/ AcquireAnonymous(m)
  \/ AcquireRecord(m) \/ AcquireStops(m)

Release(m) ==
  \/ ReleaseGate(m) \/ ReleaseCall(m) \/ ReleaseMissing(m)
  \/ ReleaseCorrect(m) \/ ReleaseStops(m)

Around(m) == LedgerAppend(m) \/ Vanish(m)

SweepPlatformHalf(s) ==
  \/ \E p \in Providers : SweepList(s, p) \/ SweepListFails(s, p)
  \/ \E m \in Machines : \/ SweepFoundLive(s, m)
                         \/ SweepFoundUnknown(s, m)
                         \/ SweepFoundExpired(s, m)

SweepRecordHalf(s) ==
  \E r \in view[s].left : \/ SweepRowHandled(s, r) \/ SweepRowGone(s, r)
                          \/ SweepRowLive(s, r) \/ SweepRowExpired(s, r)

SweepEffects(s) ==
  \/ SweepCall(s) \/ SweepCallMissing(s) \/ SweepCallFails(s)
  \/ SweepRetire(s) \/ SweepRetireFails(s)

Sweep(s) ==
  \/ SweepStart(s) \/ SweepPlatformHalf(s) \/ SweepRecordHalf(s)
  \/ SweepEffects(s) \/ SweepFinish(s)

Next ==
  \/ Tick
  \/ \E m \in Machines : Acquire(m) \/ Release(m) \/ Around(m)
  \/ \E s \in Sweepers : Sweep(s) \/ SweepCrash(s)

Spec == Init /\ [][Next]_vars

\* The host daemon starts a sweep at every tick of an endless timer and a
\* sweep has no step that waits on anyone (lm-provision-host/src/main.rs).
\* Failures, being bounded, are transient; nothing else need ever happen.
FairSpec == Spec /\ \A s \in Sweepers : WF_vars(Sweep(s))

-----------------------------------------------------------------------------
(* Properties                                                               *)

Times == Nat
States == {"unbought", "running", "swept", "released", "forced", "vanished"}
Rows == [id : Machines, expires : Times, released : BOOLEAN]
LedgerRows == [dry : BOOLEAN, debt : BOOLEAN]
Runs == [dry : BOOLEAN, at : Times, rows : SUBSET Rows]
Views == [planes : SUBSET Providers, found : SUBSET Machines,
          listed : SUBSET Providers, present : SUBSET Machines,
          handled : SUBSET Machines, left : SUBSET Rows]
Outcomes == [expired : Nat, released : SUBSET Machines,
             refused : SUBSET Machines, failed : SUBSET Machines,
             unasked : SUBSET Providers, unknown : SUBSET Machines]

\* Every file row, process and artifact has the shape the code gives it.
TypeOK ==
  /\ now \in Times
  /\ state \in [Machines -> States]
  /\ lease \in [Machines -> Times \cup {NoLease}]
  /\ record \in SUBSET Rows
  /\ ledger \in [Machines -> Seq(LedgerRows)]
  /\ acquiring \in [Machines -> 
                              {"idle", "creating", "recording", "unrecorded", "over"}]
  /\ releasing \in [Machines -> {"idle", "passed", "forced", "correcting"}]
  /\ pc \in [Sweepers -> {"idle", "work", "call", "retire", "done"}]
  /\ run \in [Sweepers -> Runs]
  /\ view \in [Sweepers -> Views]
  /\ target \in [Sweepers -> Machines]
  /\ out \in [Sweepers -> Outcomes]
  /\ faults \in Nat

\* No machine the record calls given back is still running: bookkeeping by
\* absence never meets a machine bought after the listing, or one on a
\* platform that could not be asked (sweep, bookkeeping, retire).
RetiredIsGone == \A m \in Retired : Gone(m)

\* A sweep destroys only machines that carry or are recorded under a lease,
\* and never a whole second before it runs out, whichever half judged it and
\* however old its snapshot (standing, due).
NeverSweptEarly ==
  \A m \in Machines :
    state[m] = "swept" => /\ m \notin Foreign
                          /\ lease[m] # NoLease
                          /\ lease[m] < now + Second

\* Somebody has read a clear gate for m and not yet made the call.
GatePassed(m) ==
  \/ releasing[m] = "passed"
  \/ \E s \in Sweepers : pc[s] = "call" /\ target[s] = m

\* While the newest real apply on record owes an artifact and nobody was past
\* the gate when it was recorded, no unforced release takes the machine and
\* none gets past the gate (gate, uncollected_artifacts, run_release).
DebtIsHeld ==
  [][\A m \in Machines :
       Debt(m) /\ ~GatePassed(m) =>
         /\ ~GatePassed(m)'
         /\ state[m] = "running" => state'[m] \notin {"swept", "released"}]_vars

Failed(s) == out[s].failed # {} \/ out[s].unasked # {}

\* Due by the machine's own stamp where a listing showed it, and by its row
\* where none did.
DueIn(s, m) ==
  /\ lease[m] # NoLease
  /\ (IF Stamped(m) /\ m \in view[s].present THEN StampOf(lease[m])
                                             ELSE lease[m]) <= run[s].at

\* A finished sweep that exits 0 has left no machine it knew of running past
\* its lease, but for the ones it names as refused (run_sweep, sweep_exit).
CleanSweepEnforces ==
  \A s \in Sweepers :
    pc[s] = "done" /\ ~run[s].dry /\ ~Failed(s) =>
      \A m \in view[s].present \cup {r.id : r \in run[s].rows} :
        DueIn(s, m) => Gone(m) \/ m \in out[s].refused

\* `expired` counts a machine once however many halves of the sweep saw it,
\* and every machine it counts is accounted for in exactly one list.
CountedOnce ==
  \A s \in Sweepers :
    pc[s] = "done" =>
      /\ out[s].expired =
           Cardinality(out[s].released \cup out[s].refused \cup out[s].failed)
      /\ out[s].released \cap (out[s].refused \cup out[s].failed) = {}
      /\ out[s].refused \cap out[s].failed = {}

\* Every stamped machine whose lease has run out is given back, unless its
\* work is still on it: with no row for it on this host, after a crash
\* between create and record, after failed calls (tick, run_sweep).
LeaseEnforced ==
  \A m \in Machines :
    (state[m] = "running" /\ Stamped(m) /\ lease[m] <= now)
      ~> (Gone(m) \/ Debt(m))

\* The record catches up with every machine that ended, whoever ended it and
\* whichever correction was lost.
RecordConverges ==
  \A m \in Machines :
    Gone(m) /\ acquiring[m] # "recording" ~> \A r \in Outstanding : r.id # m

\* The fleet keeps the promise: the record's corrections are the write-offs.
Promise == INSTANCE Leases WITH retired <- Retired
LeasesSpec == Promise!Spec

-----------------------------------------------------------------------------
(* What the documents and comments say, and the code does not do            *)

\* docs/spec/09: a row "not in the answer" of its platform names a machine that
\* "is not running whatever the row says".
AbsentMeansGone ==
  \A s \in Sweepers : pc[s] = "retire" => Gone(target[s])
=============================================================================
