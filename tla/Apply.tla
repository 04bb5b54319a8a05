------------------------------- MODULE Apply -------------------------------
(***************************************************************************)
(* One machine's applies of one profile (apply.rs, exec/registry.rs,       *)
(* exec/steps.rs, exec/report.rs, exec/lifecycle.rs): the phases in their  *)
(* order, the step plan, the waves of steps the driver resolves, the gate  *)
(* over a whole phase, the conditions that let a step be skipped, the      *)
(* report and its error line.  Applies follow one another on the same      *)
(* disk, so a run starts from whatever the runs before it left.            *)
(*                                                                         *)
(* A file is who has bytes in it.  Steps write it, and the condition of a  *)
(* step reads it: "exists" is a model without a digest, "content" one with *)
(* a digest, or a checkout at its revision.                                *)
(***************************************************************************)
EXTENDS Integers, Sequences, FiniteSets

CONSTANTS
  Profiles,      \* the profiles that may be applied, in canonical order
  Files,         \* the files that steps write
  NoFile,        \* what a step that writes none (a poll) has for one
  MaxConcurrent, \* MAX_CONCURRENT_STEPS
  MaxRuns,       \* bound: applies of the profile
  MaxFaults      \* bound: failures, panics, unreadable conditions, crashes

Shapes == {"transfer", "sh", "poll"}
Conditions == {"none", "exists", "content"}

\* `path` is a destination as the profile spells it, `file` the file it names.
Steps == [shape : Shapes, path : STRING, file : Files \cup {NoFile},
          done : Conditions, denied : BOOLEAN]

Phases == [lifecycle : BOOLEAN, expands : BOOLEAN, env : BOOLEAN,
           steps : Seq(Steps)]

\* A condition is read from a file; a direct phase is one step without one.
ASSUME ApplyAssumption ==
  /\ NoFile \notin Files
  /\ MaxConcurrent \in Nat \ {0}
  /\ MaxRuns \in Nat /\ MaxFaults \in Nat
  /\ \A p \in Profiles :
       /\ p \in Seq(Phases)
       /\ \A i \in DOMAIN p :
            /\ \A n \in DOMAIN p[i].steps :
                 p[i].steps[n].done # "none" => p[i].steps[n].file # NoFile
            /\ ~p[i].lifecycle =>
                 Len(p[i].steps) = 1 /\ p[i].steps[1].done = "none"

VARIABLES
  profile,   \* the sequence of phases
  disk,      \* each file: there, the handles open on it, who has bytes in it
  dry,       \* the mode of the run
  stage,     \* "idle", "running" or "ended"
  at,        \* the phase the engine is in
  wave,      \* the steps the engine is blocked on, and how far each is
  report,    \* the entries, in the order they were pushed
  verdict,   \* the envelope's ok, and the entry its error line names
  kept,      \* the steps a real run reported ok and none has begun since
  foretold,  \* the report of the run before, if that was a dry run
  runs, faults

vars == <<profile, disk, dry, stage, at, wave, report, verdict, kept,
          foretold, runs, faults>>

-----------------------------------------------------------------------------
(* The plan                                                                 *)

Absent == [there |-> FALSE, open |-> {}, by |-> {}]

\* A file that no step of a report answers for: it was there before the first
\* run, or the process that wrote it died.
Foreign == [there |-> TRUE, open |-> {}, by |-> {<<0, 0>>}]

\* A lifecycle phase whose expansion fails or is empty keeps its op.
Projected(p) == p.lifecycle /\ p.expands /\ p.steps # << >>

\* Mutant: two steps with one destination count as independent.
IndependentOfPaths(p) ==
  Len(p.steps) >= 2 /\ \A n \in DOMAIN p.steps : p.steps[n].shape = "transfer"

Independent(p) ==
  /\ Len(p.steps) >= 2
  /\ \A n \in DOMAIN p.steps : p.steps[n].shape = "transfer"
  /\ \A n, k \in DOMAIN p.steps :
       p.steps[n].path = p.steps[k].path => n = k

Parallel(p) == Projected(p) /\ Independent(p)

\* The steps the engine first blocks on in a phase: 0 is the phase's own op.
Opening(p) ==
  CASE ~p.lifecycle -> {1}
    [] p.lifecycle /\ ~Projected(p) -> {0}
    [] Parallel(p) -> DOMAIN p.steps
    [] OTHER -> {1}

Asked(N) == [n \in N |-> "pending"]

OpeningOf(i) == IF i \in DOMAIN profile THEN Asked(Opening(profile[i])) ELSE << >>

Phase == profile[at]

Step(n) == Phase.steps[n]

\* The env.ref capability, the phase's env, and the capability and allowlists
\* of every step, whichever step asks.
Denied(p, n) == ~p.env \/ \E k \in DOMAIN p.steps : p.steps[k].denied

-----------------------------------------------------------------------------
(* The report                                                               *)

\* A direct phase and a phase-level entry have no place among the steps (0).
Entry(n, ok, said) ==
  [phase |-> at, step |-> n, ok |-> ok, said |-> said]

Declared(entry) == entry.step # 0

EntryOf(n) == IF Phase.lifecycle THEN n ELSE 0

Pushed(entry) == report' = Append(report, entry)

\* push_phase_failure_report: unless the identical entry is already there.
StatedOnce ==
  IF \E k \in DOMAIN report : report[k] = Entry(0, FALSE, "denied")
    THEN UNCHANGED report
    ELSE Pushed(Entry(0, FALSE, "denied"))

Before(a, b) == a.phase < b.phase \/ (a.phase = b.phase /\ a.step < b.step)

\* The maximal run of declared entries around position k.
RunAround(r, k) ==
  {j \in DOMAIN r :
     \A i \in DOMAIN r :
       (j <= i /\ i <= k) \/ (k <= i /\ i <= j) => Declared(r[i])}

\* in_declaration_order: within such a run, the entry at k is the one that as
\* many precede as there are places before k.
InDeclarationOrder(r) ==
  [k \in DOMAIN r |->
    IF ~Declared(r[k]) THEN r[k]
    ELSE LET near == RunAround(r, k)
             rank(j) == Cardinality({i \in near : Before(r[i], r[j])})
         IN  r[CHOOSE j \in near : rank(j) = Cardinality({i \in near : i < k})]]

Failing(r) == {k \in DOMAIN r : ~r[k].ok}

NoVerdict == [ok |-> FALSE, phase |-> 0, step |-> 0]

\* Mutant: the error line names the entry that failed last.
EnvelopeOfLast(r, failed) ==
  IF failed /\ Failing(r) # {}
    THEN LET last == r[CHOOSE k \in Failing(r) : \A j \in Failing(r) : k >= j]
         IN  [ok |-> FALSE, phase |-> last.phase, step |-> last.step]
    ELSE [NoVerdict EXCEPT !.ok = ~failed]

\* The envelope of report r: the error line names the first failing entry, or
\* none if the engine stopped without one.
Envelope(r, failed) ==
  IF failed /\ Failing(r) # {}
    THEN LET first == r[CHOOSE k \in Failing(r) : \A j \in Failing(r) : k <= j]
         IN  [ok |-> FALSE, phase |-> first.phase, step |-> first.step]
    ELSE [NoVerdict EXCEPT !.ok = ~failed]

-----------------------------------------------------------------------------

Init ==
  /\ profile \in Profiles
  /\ disk \in [Files -> {Absent, Foreign}]
  /\ dry = FALSE
  /\ stage = "idle"
  /\ at = 0
  /\ wave = << >>
  /\ report = << >>
  /\ verdict = NoVerdict
  /\ kept = {}
  /\ foretold = {}
  /\ runs = 0 /\ faults = 0

Faulty == faults < MaxFaults /\ faults' = faults + 1

\* run_apply_ast: resolution, normalisation and the step plan are behind; a
\* real run's egress layer is up.
Start ==
  /\ stage # "running" /\ runs < MaxRuns
  /\ runs' = runs + 1
  /\ dry' \in BOOLEAN
  /\ stage' = "running"
  /\ at' = 1
  /\ wave' = OpeningOf(1)
  /\ report' = << >>
  /\ verdict' = NoVerdict
  /\ UNCHANGED <<profile, disk, kept, foretold, faults>>

-----------------------------------------------------------------------------
(* resolve_wave and resolve_lifecycle_step                                  *)

InFlight == {n \in DOMAIN wave : wave[n] \in {"spawned", "due", "doubted", "doing"}}

Moved(n, to) == wave' = [wave EXCEPT ![n] = to]

\* Mutant: a seat is never given back.
SeatLeftOnce == Cardinality({n \in DOMAIN wave : wave[n] # "pending"}) < MaxConcurrent

SeatLeft == Cardinality(InFlight) < MaxConcurrent

Spawn(n) ==
  /\ wave[n] = "pending" /\ SeatLeft
  /\ Moved(n, "spawned")
  /\ UNCHANGED <<profile, disk, dry, stage, at, report, verdict, kept,
                 foretold, runs, faults>>

\* The phase kept its op: its expansion fails again, or has nothing to run.
RunUnprojected ==
  /\ 0 \in DOMAIN wave /\ wave[0] = "pending"
  /\ IF Phase.env /\ Phase.expands
       THEN /\ Moved(0, "ok")
            /\ UNCHANGED report
       ELSE /\ Moved(0, "failed")
            /\ StatedOnce
  /\ UNCHANGED <<profile, disk, dry, stage, at, verdict, kept, foretold, runs,
                 faults>>

\* lifecycle_preflight, or a direct phase's gate and policies.
Deny(n) ==
  /\ wave[n] = "spawned"
  /\ Denied(Phase, n)
  /\ Moved(n, "failed")
  /\ StatedOnce
  /\ UNCHANGED <<profile, disk, dry, stage, at, verdict, kept, foretold, runs,
                 faults>>

\* Step n of phase p alone has put bytes into a file that nobody has open.
Whole(f, p, n) ==
  disk[f].there /\ disk[f].open = {} /\ disk[f].by = {<<p, n>>}

\* Mutant: only existence is ever asked for.
SatisfiedByExistence(n) == Step(n).done = "exists" /\ disk[Step(n).file].there

Satisfied(n) ==
  \/ Step(n).done = "exists" /\ disk[Step(n).file].there
  \/ Step(n).done = "content" /\ Whole(Step(n).file, at, n)

\* Mutant: a file that is there answers for its digest.
ForetellingByExistence(n) ==
  IF Step(n).done # "none" /\ disk[Step(n).file].there
    THEN "would skip" ELSE "would run"

\* What a dry run says: a digest is read in a real run only, and an absent file
\* answers for it; a checkout is compared in both.
Foretelling(n) ==
  LET there == disk[Step(n).file].there IN
  CASE Step(n).done = "none" -> "would run"
    [] Step(n).done # "none" /\ ~there -> "would run"
    [] Step(n).done = "content" /\ there /\ Step(n).shape = "transfer" ->
         "undecided"
    [] OTHER -> IF Satisfied(n) THEN "would skip" ELSE "would run"

Foretell(n) ==
  /\ wave[n] = "spawned"
  /\ dry /\ ~Denied(Phase, n)
  /\ Moved(n, "ok")
  /\ Pushed(Entry(EntryOf(n), TRUE, Foretelling(n)))
  /\ UNCHANGED <<profile, disk, dry, stage, at, verdict, kept, foretold, runs,
                 faults>>

Skip(n) ==
  /\ wave[n] = "spawned"
  /\ ~dry /\ ~Denied(Phase, n) /\ Satisfied(n)
  /\ Moved(n, "ok")
  /\ Pushed(Entry(EntryOf(n), TRUE, "skipped"))
  /\ UNCHANGED <<profile, disk, dry, stage, at, verdict, kept, foretold, runs,
                 faults>>

\* The condition does not hold, or there is none.
Due(n) ==
  /\ wave[n] = "spawned"
  /\ ~dry /\ ~Denied(Phase, n) /\ ~Satisfied(n)
  /\ Moved(n, "due")
  /\ UNCHANGED <<profile, disk, dry, stage, at, report, verdict, kept,
                 foretold, runs, faults>>

\* The condition could not be read: the step runs.
Doubt(n) ==
  /\ wave[n] = "spawned"
  /\ ~dry /\ ~Denied(Phase, n) /\ Step(n).done # "none"
  /\ Faulty
  /\ Moved(n, "doubted")
  /\ UNCHANGED <<profile, disk, dry, stage, at, report, verdict, kept,
                 foretold, runs>>

FileOf(n) == Step(n).file

Wrote(n, state) ==
  disk' = IF FileOf(n) = NoFile THEN disk ELSE [disk EXCEPT ![FileOf(n)] = state]

\* The effect opens its file and truncates it: whoever has it open goes on
\* writing into what is left.
Begin(n) ==
  /\ wave[n] \in {"due", "doubted"}
  /\ Moved(n, "doing")
  /\ Wrote(n, LET holders == disk[FileOf(n)].open \cup {<<at, n>>}
              IN  [there |-> TRUE, open |-> holders, by |-> holders])
  /\ kept' = kept \ {<<at, n>>}
  /\ UNCHANGED <<profile, dry, stage, at, report, verdict, foretold, runs,
                 faults>>

Closed(n) == [disk[FileOf(n)] EXCEPT !.open = @ \ {<<at, n>>}]

\* A file removed under an open handle takes the bytes with it.
Succeed(n) ==
  /\ wave[n] = "doing"
  /\ Moved(n, "ok")
  /\ Wrote(n, Closed(n))
  /\ Pushed(Entry(EntryOf(n), TRUE, "ran"))
  /\ UNCHANGED <<profile, dry, stage, at, verdict, kept, foretold, runs,
                 faults>>

\* A failed transfer's guard removes the destination, whoever else has it
\* open; a failed command leaves something of its own.
Leftover(n) ==
  IF Step(n).shape = "transfer" THEN Absent ELSE [Closed(n) EXCEPT !.by = {}]

Fail(n) ==
  /\ wave[n] = "doing"
  /\ Faulty
  /\ Moved(n, "failed")
  /\ Wrote(n, Leftover(n))
  /\ Pushed(Entry(EntryOf(n), FALSE, "ran"))
  /\ UNCHANGED <<profile, dry, stage, at, verdict, kept, foretold, runs>>

Answer(n) == Succeed(n) \/ Fail(n)

StepMoves(n) ==
  \/ Spawn(n) \/ Deny(n) \/ Foretell(n) \/ Skip(n) \/ Due(n) \/ Doubt(n)
  \/ Begin(n) \/ Answer(n)

-----------------------------------------------------------------------------
(* drive: the engine, between two waves                                     *)

\* Mutant: a wave is fed back as soon as one of its steps has failed.
AnsweredEarly ==
  \/ \A n \in DOMAIN wave : wave[n] \in {"ok", "failed"}
  \/ \E n \in DOMAIN wave : wave[n] = "failed"

Answered == \A n \in DOMAIN wave : wave[n] \in {"ok", "failed"}

Stopped == \E n \in DOMAIN wave : wave[n] = "failed"

\* The step after those answered, in a phase that runs one at a time.
Following ==
  IF ~Projected(Phase) \/ Parallel(Phase) THEN {}
  ELSE {n \in DOMAIN Phase.steps : n - 1 \in DOMAIN wave}

\* The next wave: the next step of the phase, or the opening of the next one.
Advance ==
  /\ at \in DOMAIN profile
  /\ Answered /\ ~Stopped
  /\ IF Following # {}
       THEN at' = at /\ wave' = Asked(Following)
       ELSE at' = at + 1 /\ wave' = OpeningOf(at + 1)
  /\ UNCHANGED <<profile, disk, dry, stage, report, verdict, kept, foretold,
                 runs, faults>>

\* What is kept of a report when its run is over.
Remembered(r, isDry) ==
  /\ kept' = IF isDry THEN kept
             ELSE kept \cup {<<r[k].phase, r[k].step>> :
                               k \in {j \in DOMAIN r : r[j].ok}}
  /\ foretold' = IF isDry THEN {r[k] : k \in DOMAIN r} ELSE {}

\* All phases are through, or the engine stopped on a failure.
Conclude ==
  /\ at \notin DOMAIN profile \/ (Answered /\ Stopped)
  /\ stage' = "ended"
  /\ report' = InDeclarationOrder(report)
  /\ verdict' = Envelope(InDeclarationOrder(report), at \in DOMAIN profile)
  /\ wave' = << >>
  /\ Remembered(report, dry)
  /\ UNCHANGED <<profile, disk, dry, at, runs, faults>>

\* A run that stops in the middle: a dropped transfer's guard removes its
\* file, anything else that was open is left torn.
Guarded(f) ==
  \E n \in DOMAIN wave :
    /\ wave[n] = "doing" /\ <<at, n>> \in disk[f].open
    /\ Step(n).shape = "transfer"

Torn(f) == [disk[f] EXCEPT !.open = {}, !.by = {}]

\* A step that the driver awaits panics: the rest of the wave is dropped and
\* the run ends, with an error line of the engine's if no entry has failed.
Panic ==
  /\ Faulty
  /\ \E n \in InFlight : Phase.lifecycle \/ Step(n).shape # "sh"
  /\ disk' = [f \in Files |->
               CASE Guarded(f) -> Absent
                 [] ~Guarded(f) /\ disk[f].open # {} -> Torn(f)
                 [] OTHER -> disk[f]]
  /\ stage' = "ended"
  /\ report' = InDeclarationOrder(report)
  /\ verdict' = Envelope(InDeclarationOrder(report), TRUE)
  /\ wave' = << >>
  /\ Remembered(report, dry)
  /\ UNCHANGED <<profile, dry, at, runs>>

\* The provisioner's process dies: no guard runs and there is no report.
Crash ==
  /\ Faulty
  /\ disk' = [f \in Files |-> IF disk[f].open # {} THEN Foreign ELSE disk[f]]
  /\ stage' = "idle"
  /\ at' = 0
  /\ wave' = << >>
  /\ report' = << >>
  /\ foretold' = IF dry THEN foretold ELSE {}
  /\ UNCHANGED <<profile, dry, verdict, kept, runs>>

Progress ==
  /\ stage = "running"
  /\ \/ \E n \in DOMAIN wave \ {0} : StepMoves(n)
     \/ RunUnprojected
     \/ Advance
     \/ Conclude

Break == stage = "running" /\ (Panic \/ Crash)

Next == Start \/ Progress \/ Break

Spec == Init /\ [][Next]_vars

Command(n) == wave[n] = "doing" /\ Step(n).shape = "sh"

Commanding == stage = "running" /\ \E n \in DOMAIN wave \ {0} : Command(n)

\* The driver polls what is ready.  A transfer ends (Transfer) and a poll has a
\* deadline; a command has neither, so nothing is assumed of one.
FairSpec == Spec /\ WF_vars(Progress /\ ~Commanding)

-----------------------------------------------------------------------------
(* Properties                                                               *)

Ids == UNION {{<<i, n>> : n \in {0} \cup DOMAIN profile[i].steps} :
               i \in DOMAIN profile}

\* The disk, the wave and the report have the shape the code gives them
\* (StepPlan, resolve_wave, StepReport).
TypeOK ==
  /\ profile \in Profiles
  /\ \A f \in Files : /\ disk[f].there \in BOOLEAN
                      /\ disk[f].open \subseteq disk[f].by
                      /\ disk[f].by \subseteq Ids \cup {<<0, 0>>}
                      /\ ~disk[f].there => disk[f].by = {}
  /\ dry \in BOOLEAN
  /\ stage \in {"idle", "running", "ended"}
  /\ at \in 0 .. Len(profile) + 1
  /\ \A n \in DOMAIN wave :
       /\ n = 0 \/ n \in DOMAIN Phase.steps
       /\ wave[n] \in {"pending", "spawned", "due", "doubted", "doing", "ok", "failed"}
  /\ \A k \in DOMAIN report :
       /\ <<report[k].phase, report[k].step>> \in Ids
       /\ report[k].said \in {"ran", "skipped", "denied", "would run",
                              "would skip", "undecided"}
  /\ kept \subseteq Ids
  /\ runs \in 0 .. MaxRuns /\ faults \in 0 .. MaxFaults

\* ok means that every step of every phase that has any answered and none
\* failed; an error line names the failing entry nearest the top of the
\* profile (run_apply_ast_routed).
VerdictTrue ==
  stage = "ended" =>
    /\ verdict.ok =>
         /\ Failing(report) = {}
         /\ \A i \in DOMAIN profile : \A n \in DOMAIN profile[i].steps :
              \E k \in DOMAIN report :
                /\ report[k].phase = i
                /\ report[k].step = IF profile[i].lifecycle THEN n ELSE 0
    /\ Failing(report) # {} =>
         /\ ~verdict.ok
         /\ \E k \in Failing(report) :
              /\ verdict.phase = report[k].phase /\ verdict.step = report[k].step
              /\ \A j \in Failing(report) : ~Before(report[j], report[k])

\* No step outlives the run it belongs to: when a report is out, no file is
\* still being written (resolve_wave answers a whole wave or drops it).
NoStrayWriter ==
  stage # "running" => \A f \in Files : disk[f].open = {}

Writers(f) ==
  {w \in Ids : w[2] \in DOMAIN profile[w[1]].steps
               /\ profile[w[1]].steps[w[2]].file = f}

\* The writer of f nearest the bottom of the profile.
LastWriter(f) ==
  CHOOSE w \in Writers(f) :
    \A v \in Writers(f) : v[1] < w[1] \/ (v[1] = w[1] /\ v[2] <= w[2])

\* Two spellings of one file: steps_are_independent compares the spellings.
Aliased ==
  \E i \in DOMAIN profile : \E n, k \in DOMAIN profile[i].steps :
    /\ profile[i].steps[n].path # profile[i].steps[k].path
    /\ profile[i].steps[n].file = profile[i].steps[k].file
    /\ profile[i].steps[n].file # NoFile

\* After a run that reports ok every file is what running the profile one step
\* at a time would leave: wholly the last step's that writes it, or, where the
\* profile asks for existence alone, there, and not a leftover of a transfer
\* that failed, was cancelled or panicked in an earlier run.
SuccessIsDone ==
  stage = "ended" /\ verdict.ok /\ ~dry /\ ~Aliased =>
    \A f \in Files :
      Writers(f) # {} =>
        LET w == LastWriter(f) IN
        IF profile[w[1]].steps[w[2]].done = "exists"
          THEN disk[f].there /\ disk[f].by # {}
          ELSE Whole(f, w[1], w[2])

OnlyWriter(i, n) == Writers(profile[i].steps[n].file) = {<<i, n>>}

\* What an apply has finished is not done again by a later one, whatever failed,
\* panicked or crashed in between: only a condition that cannot be read makes a
\* finished step run (execute_step; the reason for CollectAll).
FinishedIsKept ==
  \A n \in DOMAIN wave :
    wave[n] = "due" /\ Step(n).done # "none" /\ OnlyWriter(at, n) =>
      <<at, n>> \notin kept

\* A real run on a disk nobody touched since a dry run does what that said: it
\* runs no step that would be skipped and skips none that would run
\* (dry_run_step, execute_step).
DryForetells ==
  stage = "running" /\ ~dry /\ at \in DOMAIN profile =>
    \A n \in DOMAIN wave :
      n # 0 /\ Phase.lifecycle /\ OnlyWriter(at, n) =>
        \A e \in foretold :
          e.phase = at /\ e.step = n =>
            /\ e.said = "would skip" => wave[n] # "due"
            /\ e.said = "would run" =>
                 ~\E k \in DOMAIN report :
                    report[k].phase = at /\ report[k].step = n
                      /\ report[k].said = "skipped"

\* The driver never waits for an answer that will not come: a run ends, unless
\* a command it has started does not.
EveryRunEnds == stage = "running" ~> stage # "running" \/ Commanding

=============================================================================
