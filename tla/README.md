# lm-provision in TLA+

`lm-provision` rents GPU machines from several platforms, provisions them from a
declarative profile, and gives them back when their lease runs out. This
directory holds TLA+ models of the parts of it that are hard to test, the TLC
runs that check them on small instances, and TLAPS proofs of what matters most
for every size of instance.

Paths below are relative to the repository root; `main.rs` is
`crates/lm-provision-cli/src/main.rs`, `driver/` is `crates/lm-provision-driver/src/`
and `exec/`, `egress/` are under `crates/lm-provision/src/`.

## The system

| Component | State | Operations | Talks to |
|---|---|---|---|
| **Fleet commands** (`main.rs`, `driver/infra.rs`, `driver/inventory.rs`) | none of their own: a run reads the record and the clock once and keeps both | `machine acquire`, `machine release`, `machine sweep`, `machine list` | the platforms' CLIs, the acquisitions record, the apply ledger |
| **Acquire's admission and wait** (`main.rs`, `driver/infra.rs`, `driver/image.rs`, `machine.rs`) | deadline, cap, the newest description | requirements, request, image check, create, wait, verdict | platform, registry |
| **Records** (`lm-provision-protocol`: `acquisition.rs`, `ledger.rs`, `forward.rs`, `price.rs`) | append-only JSONL files on the operator's host | `append`, `list`, `outstanding`, `get`, `rewrite` | every command above, concurrently |
| **Host daemon** (`lm-provision-host`) | tick counter, newest artifact, newest error | a tick of the interval timer spawns one sweep; the health endpoint answers | the CLI as a child process |
| **Push session** (`driver/session.rs`, `provisioner.rs`, `transport.rs`, `ssh.rs`, `local_exec.rs`) | staged profile and binary on the machine | preflight, ensure binary, place profile, verify, invoke, parse, pull artifacts, append to the ledger | the machine over ssh, the ledger |
| **Port forwards** (`driver/ssh.rs`, `main.rs`) | an ssh child, a handler, a row | open, detach, stop, list | ssh, the forwards record |
| **Profile pipeline** (`resolve.rs`, `validate.rs`, `normalize.rs`, `canonical.rs`, `plan.rs`, `pin.rs`, `fetch.rs`) | a cache directory | import resolution, validation, normal form, hashes, pins | files, servers |
| **Apply engine** (`apply.rs`, `exec/registry.rs`, `exec/report.rs`, `exec/steps.rs`) | the plan, the wave in flight, the report | phases in order, independent steps of a parallel phase at most four at a time, fail-fast | step effects |
| **Step effects** (`exec/lifecycle.rs`, `exec/effects.rs`, `exec/chunked.rs`, `exec/assert.rs`) | files, processes, pid files on the machine | shell, download (ranged and streamed), upload, service start, poll, assertions | network, processes |
| **Egress** (`egress/proxy.rs`, `sni.rs`, `hardpin.rs`) | policy, open connections, a seccomp listener | connect, refuse, relay; judge and perform the trapped calls of a command | steps that reach out |
| **MCP server** (`lm-provision-mcp`) | targets, configuration | tools that run the same sessions | session, ledger |
| **Prices, cost, balance, endpoints** | small files | record, render | platforms |

What is hard here, and why a test hardly reaches it:

* The fleet commands are separate processes that share the platform and two
  files and hold nothing while they decide. A sweep reads the record, then asks
  the platforms one after another, then reads the ledger once per machine, then
  calls, then corrects the record; between any two of these another sweep, an
  acquire, an operator, an apply or the platform may act, and any call may fail
  or the process may die. A listing is itself several requests.
* What a machine is known to be is put together from a create response and
  descriptions that may be empty, late or wrong.
* Sessions share a pod's two files, forwards share ports and a record, resolving
  processes share a cache; nothing locks any of them.
* The steps of an apply run concurrently and their reports are put back in order,
  on a disk that earlier applies, failed or killed, have left.
* Transfers arrive in ranges, are retried, and end in a file whose presence means
  "done"; servers outlive the apply that starts them.
* TCP cuts what the proxy must judge whole; a traced command writes to memory
  while its call is judged.
* The daemon must keep ticking, and must never report an old success.

`PROJECT.json` lists each hazard at its line, with the properties that would
catch it.

## Modules

| Module | What it is |
|---|---|
| `Fleet` | acquire, release and sweep over the platform, the record and the ledger |
| `Leases` | the abstract specification of what the fleet promises; `Fleet` implements it |
| `FleetInductive`, `FleetProofs`, `SweepProofs` | the inductive strengthening of `Fleet`'s safety properties, the theorems, those about what a sweep says of itself |
| `MCFleet` | small instances of `Fleet` for TLC |
| `Requirements`, `Adapters`, `Acquire`, `MCAcquire` | one acquire: what a profile requires, what each target makes of it, the run |
| `Listing` | one paged listing of an account that changes meanwhile |
| `Host`, `MCHost` | the daemon's timer, its sweeps, its status and Ctrl-C |
| `Forward` | port forwards on one host and their record |
| `Session` | push sessions against one pod |
| `MCOperator` | `Host`, `Listing`, `Forward` and `Session`, each in its own behaviours |
| `OperatorProofs` | theorems about `Host`, `Listing`, `Forward` and `Session` |
| `Pipeline`, `MCPipeline` | resolve, normalize, validate and what an apply makes of it |
| `Apply`, `MCApply` | successive applies of one profile on one machine: phases, waves, gate, conditions, report |
| `Transfer`, `MCTransfer` | one download: routes, ranges, retries, the file that means "done" |
| `Launch` | one service over several applies: launch, pid file, condition, readiness poll |
| `Proxy` | one connection through the egress proxy |
| `HardPin` | one pinned command: hand-off, supervisor, trapped calls |
| `MCPod` | `Launch`, `Proxy` and `HardPin`, each in its own behaviours |
| `AcquireProofs`, `ApplyProofs`, `TransferProofs`, `PipelineProofs`, `PodProofs` | theorems about `Acquire`, `Apply`, `Transfer`, `Pipeline`; about `Launch`, `HardPin` and `Proxy` |

`Fleet` is the core. The components do not share variables, and what one takes
from another is a property of that other:

* a step of `Apply` that transfers finishes its file or removes it (`Transfer`:
  `DoneIsWhole`) and ends (`Ends`); one that starts a service is `Launch`;
* `Fleet`'s sweeps are those the daemon starts for ever (`Host`: `KeepsSweeping`); its
  listings are those of `Listing`, a row that cannot be read or was hidden by a
  departure being `UnreadableRows`; its acquires are those of `Acquire`, which
  adds what is asked before and judged after; the rows of its ledger are written by
  `Session`;
* `Apply` starts from what `Pipeline` admits, and `Session` invokes an apply;
* the commands an `Apply` runs reach out through `Proxy`, and are held by `HardPin`.

`MCOperator` and `MCPod` put components that share no state beside each other: a
behaviour is a behaviour of one of them while the others rest in a state that
ends them, so that each is explored alone and by its own specification, fairness
included.

### Fleet

**State.** `state[m]` and `lease[m]` are the platform's account: what has become
of a machine and the expiry an acquire put on it. How a machine ended is kept
apart (`swept`, `released` through a clear gate, `forced`, `vanished`) because
the properties tell these apart; the platform does not. `record` is the set of
rows of `acquisitions.jsonl`: `outstanding` joins over the whole file, so order
is abstracted. `ledger[m]` is the sequence of the rows of one machine: whether it
was a dry run, and whether it left an artifact. `acquiring[m]` and
`releasing[m]` are the program counters of the acquire that buys `m` and of an
operator's release of it. A sweep `s` has `pc[s]`, what it read at its start
(`run[s]`: flag, clock, outstanding rows), what is left to do and what the
listings said (`view[s]`), the machine a call or a correction is under way for
(`target[s]`) and its artifact (`out[s]`).

**Atomicity.** A step ends where the code touches something shared: the reading of
the record, one listing, one gate reading, one release call, one append. A gate
reading and the call it permits are two steps; a call and its correction are two
steps. One append is one step because `append` is one write call on a file
opened for appending. A listing is one step here and several in `Listing`.

**Correspondence.** `AcquireAdmit` reads the lease off the clock before the create
call, `AcquireCreate`/`AcquireAnonymous` are the create call with and without a
readable id, `AcquireRecord` the append. `ReleaseGate`, `ReleaseCall`,
`ReleaseMissing`, `ReleaseCorrect` are `run_release`, `SweepStart`, `SweepList`,
`SweepListFails`, `SweepFound*` the platform half of `run_sweep`, `SweepRow*` its
record half (`bookkeeping`, `due`), `SweepCall*` `run_release_argv`,
`SweepRetire*` `retire`, `SweepFinish` the artifact. `AcquireStops`,
`ReleaseStops`, `SweepCrash` are failures and crashes between two steps.
The order in which platforms, listed machines and rows are taken is left open.

**Assumed.** An id belongs to one platform (`ProviderOf`); a listing is a snapshot
of what runs, except for rows whose id cannot be read (`UnreadableRows`); the
clock is shared and never runs backwards; a platform's refusal of a release call
means that the machine is gone, or is a transient failure that is counted as a fault.

### Requirements, Adapters, Acquire

`Requirements` is `machine.rs`: slots are functions from the keys they have, `Declared`
the names of what they require, `Finding` and `Verdict` the judgement. `Adapters` has, for
each of the seven targets, the answer to a requirement (`RunpodGpu`, `DeepinfraDisk`,
...), the request (`RunpodBody`, ...; what it asks for, what the profile wrote over that,
whether it can be sent) and the reading of a description (`RunpodState`, `HasAddress`,
`StillMaterializing`). `Acquire` is `run_acquire`: `Start` is everything decided on this
host, `Preflight` the image check, `Keys` the credentials, `Discover`, `Create*` and
`Record` the purchase, `FirstInspection`, `Loop`, `Sleep` the wait, `Judge` the exit code.
`given` is what the platform built, `inspected` the newest description with its blanks
filled from the create response (`Acquired::inspect`), `heard` the newest status by
itself. The platform builds what it was asked for and anything where it was not asked; a
description is empty or has the fields each platform's recorded responses have.

### Listing

`list` and `machines` of `driver/infra.rs`. A row is `live`, has a `readable` id
and is `keyed`; `MachinesOf` finds the array of rows among a document's arrays and tells
an empty account from a shape it does not know. `Ask` is one page; `Arrive` and
`Depart` change the account between pages. `steady`, `ended` and `departed` remember
what the account held when the first page was asked for, for the property alone.

### Host

Time is relative: `left` counts to the timer's deadline, `late` how long it has been past.
`BeginSweep`/`EndSweep` are the timer branch of `select!` with `tick` awaited in its handler,
`Recorded` is `interpret_sweep` and `record`, `Health` the document of the endpoint, which
reads the status at any time. `caught` and `heard` are what tokio does with SIGINT: the first
poll of a `ctrl_c()` future takes the signal over for the life of the process, and a signal is
seen by the futures that exist when it comes. `newest` is the newest sweep's true end.

### Forward

A command `c` stands at `step[c]`, its ssh at `ssh[c]`; `holder[p]` is whose ssh has bound a
port. `Spawn`, `Arm`, `ProbePort`, `Carry`, `Disarm` are `SshTransport::forward` and `bound`;
`List`, `Rewrite`, `AppendRow` are `record_forward`, its three touches of the shared file;
`overlapped[c]` is set when a command comes to the record while another is at it.
`Binds` and `Drops` are the ssh's own steps; `Signal` passes through the handler if
`relays[c]`, and ends the command alone before that; `Kill` is SIGKILL.

### Session

`pod[f]` is what a file holds: a whole text or binary, `torn` while or after an
interrupted upload, or nothing. `Preflight` ... `Record` are the steps of `session::run`
in order, an upload being two (`Place`, `Placed`), so that another session may open the
same file between them. `InvocationEnds` also ends an invocation whose session is gone.
`ran` and `disturbed` are kept for `RunsItsOwn`.

### Pipeline

A document is a record of its capabilities, assumptions, environment and phases (`Docs`); a pin is
the document expanded and without its ids (`Hash`). The normal form keeps the phases under the numbers they
were written or inserted at, and `Earlier` says which of two runs first. `Parse` mints ids, `Look`,
`Load`, `Close`, `Pass` are `resolve_at`'s explicit stack, `Merge` the splice of an expanded
fragment, `Finish` the end of a resolve: a `validate` judges the normal form (`Admits`),
an `apply` runs it (`RunsThrough`, every phase against what earlier ones bound).
`Republish` and `Disturb` are servers and the cache directory. `settled` and `admitted`
remember earlier commands.

### Apply

`profile` is a sequence of phases in canonical order. A phase is a direct
op or a lifecycle op with its steps; `expands` and `env` say whether its expansion and its
environment check succeed, `denied` whether a step fails the gate. `wave` is the set of
steps the engine is blocked on, and for each how far `resolve_lifecycle_step` has brought it
(`pending`: a spawned future with no seat; `spawned`; `due`, `doubted`: its condition did not
hold or could not be read; `doing`; `ok`, `failed`). `disk[f]` records the handles open on a
file and whose bytes are in it, which is what a digest (`"content"`) tells apart and existence
(`"exists"`) does not. `Start`, `Advance` and `Conclude` are `run_apply_ast` and `drive`,
`Spawn` ... `Fail` the steps, `Panic` and `Crash` the ends nobody handles.
`kept` and `foretold` remember what earlier reports promised, for the
properties alone.

### Transfer

One call of `net.transfer` (`exec/effects.rs`, `download`; `exec/chunked.rs`). `file` is
the destination: `held` the offsets that carry the supplier's byte, `length` its size (a
ranged download sizes it first). `armed` is the partial-file guard, `task[o]` the range
starting at `o` with its attempts and what the present attempt has landed, `written`
the counter the ranges share, `pending` what `tokio::fs::File` holds in its buffer when
`write_all` has returned, `said` the newest progress report.
`Answered`/`Refused` are the opening request, `Create*` the choice of a route,
`Stream*` `stream_to_file`, `Range*` `fetch_sub`/`attempt_chunk`/`drain`, `Join*` the
join loop of `chunked::download`, `Cancel` the drop of the step's future, `Killed` the
death of the process. The supplier is HTTP: it may refuse, break off or end early at any
piece, and does not send more than the length it declared or other bytes than the entity's.

### Launch

Applies come one after another (`current`), each a launch or a resume that only polls.
`Decide` reads the service's condition (`fold_all` of `process_alive` and `process_argv`),
`Spawn`, `WritePid`, `Settle` are the detached launch script, `Ask` and `Look` one pass of
the readiness poll with its arming rule. `proc[p]` is a process: starting, serving,
a zombie, gone, or a stranger under its number.

### Proxy

The wire is a sequence of bytes in a world where a record's header and a handshake
message's are two bytes each; `talk` is what a client means to say, which the code
never sees and the properties compare with; its `cuts` say how far into the hello each record comes, so that where
a record ends (`Wire`) is not a sum. `ReadHead` is `read_head` with its backed-up
cursor, `Answer` the refusals in their order, `Dial` the upstream and the 200,
`Fill`, `First`, `Header`, `Body` are `peek_client_hello`, `Forward` and `Carry` the relay.

### HardPin

Descriptors are who holds what: `ends` of the socket pair, `holders` of the
listener. `Fork`, `Install`, `Tell`, `Exec` are the child's side (`install_and_signal`),
`Receive*` the helper thread (`lift_listener`, `recv_listener`), `Spawned` ... `Return`
`run_pinned`, `Judge`, `MakePlan`, `Respond` one notification of `supervise`, with
its two reads of the command's memory; `Rewrite` is another thread of the command writing
between them. `left` is a process the command leaves behind. `Park` and `Unpark` are a connect
to a local socket that the supervisor performs (`do_connect`) and that waits for a place in the
listener's backlog: from one to the other no call is answered and `stop` is not looked at.

## Runs

| Run | Instance | Shows |
|---|---|---|
| `fleet_race` | one machine, two sweeps, one failure or crash, an operator | `RetiredIsGone`, `NeverSweptEarly`, `CountedOnce`, and `SweepIInv`, the invariant the proofs rest on |
| `fleet_kinds` | a stamped, a pre-stamp and a foreign machine on two platforms, one sweep, dry or not, any set of platforms asked | `CleanSweepEnforces` |
| `fleet_live` | up to two ledger rows, two failures of any kind, an operator, fair sweeps | `DebtIsHeld`, `LeasesSpec` (`Fleet` implements `Leases`), `LeaseEnforced`, `RecordConverges` |
| `fleet_unreadable_row` | a listing with a row it cannot read | `AbsentMeansGone` fails |
| `acquire_runs` | 36 invocations over the seven targets | `SuccessMeetsAll`, `NothingDropped`, `RefusedCostsNothing`, `LastWordCounts`, `AlwaysReports` |
| `transfer_ranges` | entities of 0 to 6 bytes in chunks of 2, with and without ranges and a total; 2 seats, 2 attempts | `DoneIsWhole`, `ReportedIsHeld`, `FailsOnlyWhenSpent`, `Ends` |
| `transfer_truncated` | 3 bytes, between one chunk and `MIN_TOTAL` | `SuccessIsWhole` fails |
| `apply_runs` | nine profiles, three applies of each, dry or real, two faults | `VerdictTrue`, `NoStrayWriter`, `SuccessIsDone`, `FinishedIsKept`, `DryForetells`, `EveryRunEnds` |
| `operator_host` | the daemon; four machines in pages of two; three forwards on one port, over one record; two sessions of six kinds | `OkIsEarned`, `ListingTrue`, `StopTakesSsh`, `RowOutlivesCommand`, `RunsItsOwn`, `ZeroMeansAll`, `OperatorLives` |
| `pod_apply` | two applies of a service with two argvs; 51 conversations; a command and a process it leaves | `OneServer`, `DeathIsWitnessed`, `BytesDecide`, `PerformsWhatItRead`, `CommandIsAnswered`, `PodLives` |
| `pipeline` | two processes, two commands, three profiles over three URLs, one change of a server or a cache file | `PinnedIsFixed`, `AdmittedRuns`, `IdsInjective` |
| `host_ctrl_c` | one Ctrl-C at any time | `CtrlCStops` fails |

The violated properties are sentences of the documents and comments that the code does not
keep; `PROJECT.json` quotes each.

What each property says, in short:

* *Fleet.* A row is corrected only for a machine that has ended; no sweep takes a machine a
  second or more before its lease; an artifact counts a machine once; exit 0 of a sweep means
  that nothing known was left past its lease; an artifact owed on the newest real apply holds the
  machine against every release not yet past its gate; every stamped machine past its lease ends,
  and the record comes to say so, however calls, rows and sweeps were lost.
* *Acquire.* Exit 0 is a machine that has all that was declared, whatever was looked up, filled
  in from the create response or never looked at; what is declared reaches the request; a refusal
  or a dry run has bought nothing; past the deadline only a platform that still says "coming" is
  waited on; every run ends in a report.
* *Listing, Host.* A listing that succeeds hides no running machine with a readable row but one
  for each row that left while it was read; `ok` is earned by the newest sweep.
* *Forward, Session.* A foreground command that ends takes its ssh along; a tunnel that is up stays
  recorded; a session runs its own binary on the profile it hashed, unless another session
  wrote the file since; exit 0 is a good report, its row and its artifact.
* *Pipeline.* A pinned profile has one expansion, whoever resolves it, when, and from what cache;
  what `validate` admits does not stop in its run for a capability or a resource; no id is
  minted twice.
* *Apply, Transfer.* The verdict is the fold of what happened, in the profile's order; no step
  writes after the verdict; a good report means the conditions hold; what is finished
  is not done again; a dry run foretells the real one; a download that succeeds is whole, one
  that fails leaves nothing, a report never exceeds the file.
* *Launch, Proxy, HardPin.* Re-applying starts no second server; a readiness failure names a
  process the same poll saw alive; a connection's fate is decided by the bytes and not by how
  TCP cut them; with the full pin a performed call is one that was allowed when last read;
  the command is never without somebody to hold its listener; all three come to an end, the pinned
  command unless its supervisor stays in a connect it performs.

**Bounds.** In `Fleet` they are on the clock (`Horizon`), the applies (`MaxApplies`), the
failures and crashes together (`MaxFaults`) and the machines ended outside a sweep (`ByHand`).
Two sweeps are enough for the races: every hazard between sweeps is one acting on
what another has just changed. A clock of three instants with two-tick seconds has a
lease that ends inside a second (bought at 1 for 2 ticks, it ends at 3 and is stamped 2),
which is what separates the stamp from the row. One machine suffices where
properties speak of each machine alone; the runs with several are those whose properties
speak of a whole sweep. Two rows of a ledger put a dry run behind or before the
real one that owes.

`Acquire`'s wait has a deadline of two polls, a cap of four, and inspections of up to
one poll (`Lag`): the deadline is passed while the platform says "coming", at the cap and
beyond it. Its invocations are listed in `MCAcquire`: each way to be refused on each target,
and on each one purchase or more (with and without ports, with the profile's own words over
the requirement, with a GPU count of zero). Memory sizes are those of the catalogues.

Two bytes to a chunk give every case of the ranges: none, a short or whole
single chunk, the sizes between one chunk and `MIN_TOTAL`, and two or three chunks (more than
the seats) with a short or whole last; pieces of one and two bytes let a range break before,
inside and at its end; two attempts give a retry that succeeds and one that is the last.
For `Apply` three files and two seats of the code's four make a parallel phase wait for a seat.
Its profiles are listed in `MCApply`, each for a case: steps together then one at a time and
the reverse, two phases writing one file, a denied step behind an allowed one, phases
without steps. Three runs are a dry one, the real one it foretells and one that finds
everything done; two faults are a failure and the doubt or crash that meets its traces.

In `Host` a sweep may end before its next tick, at it, and after missing one or two.
Four machines in pages of two, at most three pages (`MAX_LIST_PAGES`), make one border, arrivals
behind it and departures before it, and a walk that is cut off. Three forwards on one
port, which may be a stranger's, are the least that show two commands rewriting the record over one another
and the row of a third; commands are alike, so those that do not detach come first (`InOrder`). The sessions' jobs differ in text, binary,
mode, artifact and what they skip, so that each file can be overwritten by the other.
In `Launch` two applies give the pid file an earlier owner, two passes a poll that arms and then
sees a death. `Proxy`'s heads end before, at and past their cap, and its hellos are whole, in
up to eight records, cut short at every byte, with a foreign record, and past theirs.
Two tracees are enough for `HardPin`: calls of one process are answered one at a time.
In `Pipeline` a depth of two is passed by a chain of three; one change lets a document or a cache
file differ between any two reads of it; two commands are the two processes at once, or a
validate and the apply it speaks for.

**Fairness.** In `Fleet`, `FairSpec` is weak fairness of each sweeper's own steps. The daemon
starts a sweep at every tick of an endless timer, and a sweep is a sequence of calls
that waits on no other process of the model; that platform CLIs return is
assumed (the code sets no timeout on them), here and in `Acquire` and `Listing`. Nothing is
assumed of acquires, operators or the clock, and failures are finite: under unending
failures nothing is enforced.
`Transfer` proceeds: every request has a connect error or a read timeout, so a stall is a break.
`Apply`'s driver polls what is ready, but nothing is assumed of a shell command,
which the code lets run as long as it likes: `EveryRunEnds` allows for a run whose command never returns.
`Host` polls both branches of its loop, and a sweep is assumed to end, which the daemon does
not enforce (`tick` awaits the child without a deadline).
`Forward`, `Session` and `Launch` run their own steps; nothing is assumed of an ssh that is up, of an
invocation or of a server. `Proxy`'s reads have deadlines. In `HardPin` threads and the
child's prelude run and the kernel queues calls in order; what `emulate` performs comes back, but for the
connect to a local socket: the sends and `finish_connect` wait 5 s at most, a TCP connect as long as the kernel
retries, and the plain `connect` of a blocking local socket until its listener accepts or closes. Nothing is
assumed of that listener (`Unpark` has no fairness), and `PinReturns` allows for a supervisor that stays there.
The command ends if its calls are answered,
and what it leaves behind lets go of the pipes and makes a pause of 200 ms, without
which `run_pinned` waits for ever. `Pipeline` is checked for safety alone.

Each module also has a type invariant. All of them hold on the instances above; which are proved
is said below.

## What is proved

Every safety property the passing runs check is proved for all values of the constants, but
for four. Each proof is an inductive invariant: that it holds of the initial
states, that every action keeps it (one lemma or step per action), and that it implies the property. What an
invariant adds to the property it serves is what each part below is about.

**`FleetProofs`** (`FleetAssumption`: any number of machines, platforms, sweeps and failures, any
leases):

* `TypeCorrect`: `Spec => []TypeOK`; `Inductive`: `Spec => []IInv`.
* `NoEarlySweep`: `Spec => []NeverSweptEarly`, even with unreadable rows.
* `NoRunningMachineRetired`: `Spec => []RetiredIsGone`, if listings are readable. The
  assumption is needed: `fleet_unreadable_row` is the counterexample without it.
* `GateKeepsDebt`: `Spec => DebtIsHeld`.
* `FleetKeepsThePromise`: `Spec => LeasesSpec`, if listings are readable.

`IInv` adds `AcquireOrder` (the lease is fixed before the purchase, the purchase precedes the row),
`RecordTrue` and `SnapshotTrue` (a row that stands names a bought machine under its true
lease, and so does every row of a snapshot, however old, because a lease once agreed to never
changes), `FoundBought`, `AbsenceTrue` (a listing is younger than the snapshot it
is held against, so a machine of the snapshot that it does not show has ended), and
`EffectTrue` (a machine handed to a call is past its lease, a row handed to a correction
names a machine that has ended). Lemmas of the form
`...Writers` say which actions write a variable, and `StepKeeps` says what no step takes back
(time, ends, purchases, leases).

**`SweepProofs`** (the same assumption):

* `SweepsInductive`: `Spec => []SweepIInv`, which `fleet_race` also checks.
* `MachinesAreCountedOnce`: `Spec => []CountedOnce`, if the ledger can be read. Where it cannot, a
  sweep's record half puts the machine under `failed` without counting it in `expired`.
* `ExitZeroEnforces`: `Spec => []CleanSweepEnforces`, if listings are readable: a machine whose
  row was not readable is taken for gone, and its record corrected, with exit 0.

`SweepIInv` adds, per sweep, `HalvesApart` (a machine the platform half has set aside is not met
again by the record half, which starts when no platform is left), `Tally` (each concluded machine stands in
one list of the artifact and was counted when it was put there), `Enforced` (a due machine that
is concluded is gone, listed as refused or failed, or being released) and `LegacyKnown` (a machine
without a stamp is in the snapshot or has ended).

**`OperatorProofs`** (any machines, commands, ports, sessions and jobs):

* `HostTypeCorrect`, `HealthIsEarned`: `Spec => []OkIsEarned`, by `StatusFolds`: the daemon's memory
  is the reading of the newest sweep and of no other (`HostAssumption`).
* `ForwardTypeCorrect`, `ForegroundTakesItsSsh`: `ForwardSpec => []StopTakesSsh`, for any number of
  commands and ports; `ForegroundWay` says at which steps the handler is armed for the child it names.
* `RecordKeepsTunnels`: `ForwardSpec => RowOutlivesCommand`. `SeenIsCurrent` is the argument: what any
  command is about to write back agrees with the record about every row that is up and whose own command was
  alone at the record, so rewrites over one another take none of those.
  `ForwardAssumption` has the two marks of a port without a command (nobody's, a stranger's) be no commands.
* `ListingIsTrue`: `ListingSpec => []ListingTrue`, for any account, page length and number of pages
  (`ListingAssumption`), by counting: `SlippedFew` bounds the rows that slipped in front of the next page by the
  departures, and one page moves none.

* `SessionRunsItsOwn`: `SessionSpec => []RunsItsOwn`. `OwnBinary` and `OwnProfile` follow what stands at
  the two paths from the step that put it there; an upload somebody touched is torn or disturbed (`SessionAssumption`: a profile's path on the pod is not the binary's).
* `SessionZeroMeansAll`: `SessionSpec => []ZeroMeansAll`.

**`AcquireProofs`** (any invocations, deadline, cap and delay, anything the platform builds or says;
`AcquireAssumption`: targets are the seven, a slot's value is a number or does not parse):

* `AcquireTypeCorrect`; `RefusalIsFree`, `NothingIsDropped`, `NewestWordCounts`, `SuccessIsWhole`:
  `Spec =>` `[]RefusedCostsNothing`, `[]NothingDropped`, `[]LastWordCounts`, `[]SuccessMeetsAll`.

`SpentWell` says that past the admission the request may be sent and the run is no dry one,
`KnownTrue` that what the descriptions said is what was built, and `SuccessEarned` carries the verdict.
The lemmas about `Requirements` and `Adapters` say what each target's admission guarantees of its request.

* `EveryWaitIsBounded`: `Spec => []WaitBounded /\ [][ComesToItsEnd]_vars`. A wait lasts at most the longer of
  the deadline and the cap, and an inspection under way at its end (`Lag`); each step of the run lowers the natural number
  `StillToCome`, and what the machine does meanwhile does not raise it.

**`ApplyProofs`** (any profiles, any number of applies, failures, panics and crashes;
`ApplyAssumption`: a step with a completion condition has a file, a phase that is no lifecycle op is one step
without a condition):

* `ApplyInductive`: `Spec => []ApplyIInv`; `NoStepOutlivesItsRun`: `Spec => []NoStrayWriter`;
  `FinishedStaysFinished`: `Spec => []FinishedIsKept`; `TheDryRunForetells`: `Spec => []DryForetells`.
* `TheVerdictIsTrue`: `Spec => []VerdictTrue`. The report is put in the profile's order by insertion;
  `ComesToStand`, `FindsAPlace` and `StandInOrder` prove that it is a sorting of what was answered.
* `SuccessMeansDone`: `Spec => []SuccessIsDone`, if a condition of mere existence belongs to transfers
  only (`ExistenceIsOfTransfers`). A command that fails half-way leaves its file, whose existence then answers for it
  in the next apply; a transfer removes what it did not finish. The code does route some downloads
  through a command with such a condition (`exec/lifecycle.rs:860`), so this is a hypothesis of the theorem and not
  an assumption of the model. The run checks the property on profiles that meet it.

`OpenTrue` says whose handles are open on a file, `AloneInIt` that a file one step writes has nobody else's bytes,
`KeptTrue` and `ForeTrue` what remembered reports have to do with the disk; for `SuccessMeansDone`, `Settled` says that
a step this run has passed left its file as it should be and `Blamed` that a file in nobody's
hands belongs to a step still ahead.

* `NoApplyGoesRound`: `Spec => []IsFiniteSet(StillToPass) /\ [][PassesOn]_vars`. `StillToPass` is the set of what the
  engine has still to pass, a step of a phase at a level from pending to answered and left behind: it is finite and each
  step of a run leaves a smaller one. A command may stay at its level for ever, so this is no liveness.

**`TransferProofs`** (any size, chunk length, seats and attempts; `TransferAssumption`: all positive):

* `TransferInductive`: `Spec => []TransferIInv`; `SuccessLeavesTheWhole`: `Spec => []DoneIsWhole`;
  `NoByteIsCountedTwice`: `Spec => []ReportedIsHeld`; `RangesFailOnlyWhenSpent`: `Spec => FailsOnlyWhenSpent`.

`RangesTrue` is the argument: the shared counter is the number of offsets the tasks stand for, an
attempt that breaks having given back what it had added. Chunks are apart and cover the entity
(`ChunksAreApart` and the lemmas after it).

* `RetriesRunOut`: `Spec => [](AttemptsTrue /\ IsFiniteSet(Credit)) /\ [][SpendsCredit]_vars`. `Credit` is the set of the
  places, an offset in an attempt of a range, that some range may still come to: it is finite, each step of a range
  leaves a smaller one, and the ticker adds nothing.

**`PodProofs`**:

* `LaunchTypeCorrect`, `NoSecondServer`: `LaunchSpec => []OneServer`; `DeathsWereSeen`:
  `LaunchSpec => DeathIsWitnessed`. `ArmedByPid` says that a poll is armed only by the pid its file names,
  `ServerPlace` where the one server is between its start and the record of its pid.
* `PinTypeCorrect`, `OnlyTheAllowedIsPerformed`: `PinSpec => []PerformsWhatItRead`;
  `NoCallOfTheCommandIsLost`: `PinSpec => []CommandIsAnswered`. `HandOffOrder` and `RunnerHolds`
  follow the listener from the child over the socket pair to the helper and to the supervisor: from the
  installation of the filter to the end of the command somebody on the other side holds it or
  is about to receive it (`LaunchAssumption`, `PinAssumption`: the calls are those of the trapped set).
* `BytesAloneDecide`: `ProxySpec => []BytesDecide`, for any client, sizes of reads and caps (`ProxyAssumption`: the
  caps are numbers; a client's records go on in its hello, or stand still, and it leaves unwritten at most what it has to say). What is in hand and what is unread are together, in
  that order, the wire (`InTheHead`) or its part after the head (`PastTheHead`, `InTheTunnel`), wherever the reads cut
  it; so the first terminator of the wire is the one the backed-up cursor meets. `InTheRecords` says that while the
  hello is sought some number of its records is taken apart: they are handshake records within the cap, their bodies in hand are
  the hello's first bytes and not yet all of it, and an opened record is the next. From there `Body` refuses or
  forwards as `Promised` reads off what the client meant to say, which is `Granted` once it forwards.
* `NoConnectionGoesRound`: `ProxySpec => [](StillAhead \in Nat) /\ [][Settling]_proxyVars`. Short of the tunnel, each step
  lowers `StillAhead`, the bytes not yet read, the room left for records and the steps of the stage: a record with an
  empty body would be the way round, and its header alone takes from the room.
* `EveryApplyComesNearer`: `LaunchSpec => [](StillToDo \in Nat /\ current <= LastApply) /\ [][ComesNearer]_launchVars`: each
  step of an apply, its death included, begins the next one or lowers the steps it has left, whatever servers
  do between the passes of its poll.

**`PipelineProofs`** (any profiles, files, servers, cache contents, depth and number of processes;
`PipelineAssumption`: there are finitely many keys, profiles are among the local files, documents are
well-formed and bear no ids before they are parsed):

* `PipelineInductive`: `Spec => []PipelineIInv`; `ExpansionIsFixed`: `Spec => []PinnedIsFixed`;
  `WhatIsAdmittedRuns`: `Spec => []AdmittedRuns`; `IdsAreKept`: `Spec => []IdsInjective`.

`Expansions` is the smallest set of stages `<<file, phases done, hash so far>>` that has each file's empty beginning
and is closed under passing a phase through, splicing what hashes to a pin, and splicing what an unpinned file
comes to; `ExpansionsAgree` proves that a file has one hash at each stage. `Traced` says that an open local document stands
at such a stage, `Lands` that what is spliced, from the cache or from the stack, is what the pin says. What runs
depends on the hash alone (`SameRun`), and `Admits` and `RunsThrough` agree
(`AdmittedIsWhatRuns`), which is the argument for `AdmittedRuns`. `Keyed` is the one for ids: the documents open, each
with what is ahead of it, have ids apart and below the next one's. `Expansions` is defined
over infinite sets, so TLC checks the three properties of this module but not their inductive invariant.

No assumption restricts how many there are of anything; each is satisfied by the runs' instances, where TLC
evaluates it.

**Only model-checked.**

* The liveness properties: `LeaseEnforced`, `RecordConverges`, `AlwaysReports`, `Ends`, `EveryRunEnds`,
  `OperatorLives`, `PodLives`. The prover has no rules for fairness of this kind or for `ENABLED`. For the wait of an
  acquire, an apply's engine, a ranged transfer, a connection through the proxy and an apply of a service the half
  that needs neither is proved: what is left to do goes down with each step and not for ever (`EveryWaitIsBounded`,
  `NoApplyGoesRound`, `RetriesRunOut`, `NoConnectionGoesRound`, `EveryApplyComesNearer`). That a next step is enabled and taken is TLC's.

Induction is within reach where it is stated with a set instead of an operator: `SmallestSubset` of `ApplyProofs`
and `LeastNumber` of `PipelineProofs` take it from well-foundedness, `Expansions` is a smallest set.

## Where the documents and the code part

Besides the findings of the runs, reading and modelling showed these, which no run is spent on.

*Fleet, host, acquire.*

* `docs/spec/09-apply-report-and-ledger.md:267` has the release gate refuse to delete a machine
  while its newest real apply carries a debt. The gate is read, and the call follows with nothing held: an apply whose
  row lands in between is not seen (`DebtIsHeld` speaks of releases not yet past their gate).
* `crates/lm-provision-host/README.md:102` has `last_artifact` absent after a failed tick;
  `record` keeps the artifact of a sweep that exits 1.
  Line 96 has `ok` say that the sweep produced an artifact; one that exits 1 is not `ok`
  whatever it wrote.
* `TickFailure::Exit` is documented as a machine still billing; `run_sweep` also exits 1 when it
  cannot read its record (`main.rs:2164`).
* A sweep's `expired` leaves out machines whose ledger cannot be read, a lost correction can waste
  more than one release call, and a purchase whose append failed is found by no sweep of the record.
* Ids key the sweep's `handled`, the gate and the corrections by themselves (`main.rs:2067`); two platforms
  that use one id are told apart nowhere.
* `Fleet::next_page`'s own comment admits that a row may be skipped when one leaves between two
  pages; a sweep then retires the row of the machine that was hidden. `ListingTrue` bounds how many.
* `main.rs:1713`: "the wait already judged what it declared" is said of declared ports, but the wait's outcome
  does not reach the exit code: on a target that maps ports, ports that never answered end in
  exit 0 when the description lists them as exposed.
* `main.rs:1544`: "the machine is not condemned on one unanswered question", yet when the create response
  leaves nothing to wait for, the first inspection is the only one.
* On `hetzner` a profile that requires a GPU count of zero is bought and can never be satisfied: nothing
  the platform says is checked, and the run exits 1. On `runpod` a memory floor beside a count of
  zero is left out of the request.
* `gb_to_mib` narrows to `u32` (`machine.rs:207`): a floor above about 4.5 million GB wraps.

*Sessions and forwards.*

* Chapter 09 has `profile_hash` be the hash of the applied profile; between step 2 (verify) and step 3 (invoke)
  another session of the pod may replace the file, and the row names the hash computed here.
* `docs/spec/08-push-driver-protocol.md:161` has an artifact pulled to
  `<artifacts-dir>/<pod_id>/<pod path>`; `scp -r` of a directory whose destination exists puts it
  inside the old one (`driver/ssh.rs`, `download`), so the old one still stands at the path.
* `driver/ssh.rs:122` has `FOREGROUND_FORWARD` reset before the child is reaped; where the wait comes first
  there is a moment in which a handler names a reaped pid.
* `driver/ssh.rs:101` has every local port accepting when detached; what accepts may be
  another holder of the port, while this ssh is still dialling.
* `protocol/src/forward.rs` describes `rewrite` as dropping rows whose process is gone; two commands at once also
  drop the row the other has just appended (`RowOutlivesCommand` says that they lose no other).

*The pod.*

* `exec/registry.rs:1503` has destinations pairwise distinct; what is compared are their spellings
  (line 1530), and `subdir` is the author's (`lora`, `lora/`). The two writers then share one file.
* `exec/registry.rs:1928` has a failing step's entry last in the report; in a phase whose steps
  run together others follow it.
* `exec/lifecycle.rs:1918` has a dead pid fatal once the poll has seen that same pid alive; what is kept is
  one flag for any pid.
* Two ranges of a download may come from two versions of an entity (`exec/chunked.rs:322`): no validator is sent.
* The proxy compares the length of what one read left with the head's cap, so a head between the cap
  and 1024 bytes beyond it is served or dropped depending on how TCP cut it.
* `egress/proxy.rs:485-488` (on `Fill::Closed`) has a close inside the first record header be a non-TLS
  payload, which is forwarded; the code (586-592) and a test refuse it, and so does `BytesDecide`.
* `egress/hardpin.rs:128-131` has every wait on a tracee socket bounded, so that no emulated connect can park the
  supervisor. `do_connect` (1264-1271) is a plain `connect`: on a blocking AF_UNIX socket, which `resolve_addr` allows
  (899), whose listener's backlog is full it does not return while the listener neither accepts nor closes. No other
  call is answered meanwhile, and when the command has ended `run_pinned` does not return (2579). A blocking TCP connect is
  bounded by the kernel's retries and not by the 5 s of `finish_connect`.
* `egress/hardpin.rs:813-815`, `825-829` and `2316-2319` still have `CONTINUE` be the answer to a send to the connected
  peer, or to any allowed call; with the full pin the supervisor performs all but those with NULL in a register (`Fixed`).
* `egress/hardpin.rs:2401`: "the supervisor never acts for a tracee that has gone"; the call may be
  cancelled between the check and the act. The supervisor looks at `stop` only when a poll times out,
  so a process the command left behind that keeps calling keeps `run_pinned` from returning; a service
  left running by a pinned step gets ENOSYS from its trapped calls after the return.
* `validate` admits a declared capability nobody knows, which the build of the gate refuses when it is
  applied. A resolve from a warm cache does not meet the depth limit a cold one meets.

## Plan

Done: a model of every component but those under "Not modelled", and a proof of every safety and action
property the passing runs check, some under the hypotheses named above.

What is left:

1. `Fleet`: that the apply ledger's newest real row decides (`Gate`) for ledgers of any length.

## Not modelled

* Wording, rendering and parsing of requests, replies and artifacts; the platforms' own behaviour beyond
  what the code relies on.
* Of the pipeline: paths, urls, shell safety, service numbering and machine slots, which `validate` checks one by one;
  kinds of phases that bind, need and imply nothing other than those modelled; the canonical
  encoding byte by byte (`Hash` is what it reads); `frontend.rs`, `plan.rs`, `pin.rs`, `fetch.rs`: pure
  functions or one request.
* Of the step effects: uploads, mounts, plain requests, each one call; what each kind of phase composes its commands of;
  the rendering of payloads and audit events; the synchronous driver of the debugger host. `dsl-kit` is external.
* `Discovery`'s wait and `stamp_from_inspect`, which no adapter sets.
* `local_exec.rs`, `machine attach`, `cp` and `ssh`: one child process. `provisioner.rs`: a download checked
  against a digest and renamed into a cache.
* The MCP server: a request surface over the same sessions (`Session` covers what its `lm_apply` does to
  a pod). Prices, cost, balance, endpoints, probes: rendering of what platforms answer.
* A process that dies while its download stands at full length: the code keeps no promise for it, and a condition
  with a digest is what protects against it (`Apply`: `SuccessIsDone`).
* A daemon whose sweep never ends: the code has no timeout to model.

`PROJECT.json` lists every component and its status.
