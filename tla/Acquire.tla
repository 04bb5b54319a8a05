------------------------------- MODULE Acquire -------------------------------
(***************************************************************************)
(* One `machine acquire` (crates/lm-provision-cli/src/main.rs,             *)
(* run_acquire; driver/src/infra.rs, acquire and Acquired): what is asked  *)
(* before anything is spent, the create call, the record, and the wait     *)
(* until the platform has brought the machine up, been heard to fail, or   *)
(* used up its time.                                                       *)
(*                                                                         *)
(* The platform is the environment: it builds what the request asks for,   *)
(* and whatever it likes where the request is silent; the machine comes up *)
(* or dies while the run waits; an inspection may fail, or answer with an  *)
(* empty description, whatever the machine does.                           *)
(***************************************************************************)
EXTENDS Adapters

CONSTANTS
  Jobs,       \* the invocations: profile, provider slot, target, flags
  Deadline,   \* ACQUIRE_REACHABILITY_TIMEOUT, in polls
  Cap,        \* ACQUIRE_MATERIALIZING_CAP, in polls
  Lag         \* bound: polls an inspection may take

\* A number in a slot is one the parser took, or Garbled.
ASSUME AcquireAssumption ==
  /\ Deadline \in Nat /\ Cap \in Nat /\ Lag \in Nat
  /\ \A j \in Jobs :
       /\ j.target \in Targets
       /\ \A key \in DOMAIN j.gpu : j.gpu[key] \in Nat \cup {Garbled}
       /\ \A key \in DOMAIN j.disk \ {"persistent_at"} :
            j.disk[key] \in Nat \cup {Garbled}

VARIABLES
  job,        \* this run's invocation
  pc,
  registry,   \* what the image's registry holds, once it has been asked
  lease,      \* the expiry read off the clock before the request is rendered
  machine,    \* "none", "coming", "up", "dead" (never up) or "gone"
  given,      \* what the platform built
  created,    \* the create response
  inspected,  \* the newest description, its blanks filled
  heard,      \* the status of the newest description by itself
  answered,   \* some inspection has answered
  row,        \* the expiry in the acquisitions row
  waited,     \* since the wait began
  gaveUp,     \* gave_up_materializing
  exit

vars == <<job, pc, registry, lease, machine, given, created, inspected,
          heard, answered, row, waited, gaveUp, exit>>

t        == job.target
required == Required(job)
request  == Request(t, required, job.slot)

NotBuilt == [count |-> Unset, mib |-> Unset, levels |-> {}, exposed |-> {},
             stamp |-> Unset]

Running == -1    \* no exit code yet

\* connection_covers
Covers(d) == DOMAIN required.ports \subseteq Endpoints(d)

\* A target whose address is the platform's own: it maps nothing.
OwnAddress == Provides(t) = {}

-----------------------------------------------------------------------------
(* The platform                                                             *)

Builds ==
  LET asked == request.asks \ request.over IN
  { [count |-> n, mib |-> size, stamp |-> Stamp(t, job.slot, lease),
     levels |-> asked \cap required.disk.levels,
     exposed |-> IF "ports" \in asked
                   THEN {<<port, required.ports[port]>> :
                           port \in DOMAIN required.ports} ELSE {}] :
      n \in (IF "gpu.count" \in asked THEN {required.gpu.count} ELSE {0, 1}),
      size \in (IF "gpu.min_vram_gb" \in asked THEN {GbToMib(required.gpu.floor)}
                ELSE {GbToMib(24)}) }

\* The create response says of itself what the tests' responses say.  A model
\* the profile named itself may be one the catalogue does not know the size of.
CreateResponses(built) ==
  CASE t = "runpod" ->
         {[BlankDoc EXCEPT !.count = {built.count}, !.mib = size,
             !.levels = built.levels, !.open = {built.exposed}] :
            size \in {{built.mib}} \cup
              (IF "gpuTypeIds" \in job.slot THEN {{}} ELSE {})}
    [] t = "together" ->
         {[BlankDoc EXCEPT !.made = {"coming"}, !.count = {built.count},
             !.mib = {built.mib}]}
    [] t = "hetzner" ->
         {[BlankDoc EXCEPT !.status = {"coming"}, !.addr = {"addr"}]}
    [] t = "deepinfra-deploy" -> {[BlankDoc EXCEPT !.addr = {"addr"}]}
    [] OTHER -> {BlankDoc}

Word == {CASE machine \in {"coming", "up"} -> machine [] OTHER -> "over"}

Statuses == CASE t = "runpod" -> {{}}
              [] t = "together" /\ machine = "coming" -> {{}, Word}
              [] OTHER -> {Word}

Addresses == CASE t = "deepinfra-deploy" -> {{"addr"}}
               [] machine = "up" /\ t # "together" -> {{"addr"}}
               [] machine = "up" /\ t = "together" -> {{}, {"addr"}}
               [] machine = "coming" /\ t \in {"vast", "deepinfra", "hetzner"} ->
                    {{}, {"addr"}}
               [] OTHER -> {{}}

\* What the platform may answer of the machine as it is now: nothing yet, or
\* the fields each of them is known to send.
ReadBacks ==
  {BlankDoc} \cup
  { [status |-> word, made |-> {}, addr |-> address,
     mapped |-> IF machine = "up" THEN {p[1] : p \in given.exposed} ELSE {},
     open   |-> IF t = "runpod" \/ (t = "vast" /\ machine = "up")
                  THEN {given.exposed} ELSE {},
     count  |-> IF t = "hetzner" \/ (t = "together" /\ word = {})
                  THEN {} ELSE {given.count},
     mib    |-> IF t \in {"hetzner", "runpod"} \/ (t = "together" /\ word = {})
                  THEN {} ELSE {given.mib},
     levels |-> given.levels] :
    word \in Statuses, address \in Addresses }

\* An inspection: it fails, and what was known stays, or it answers.
Inspects ==
  \/ UNCHANGED <<inspected, heard, answered>>
  \/ \E fresh \in ReadBacks :
       /\ inspected' = Filled(fresh, created)
       /\ heard' = fresh.status
       /\ answered' = TRUE

Boots == /\ machine = "coming" /\ exit = Running
         /\ machine' \in {"up", "dead"}
         /\ UNCHANGED <<job, pc, registry, lease, given, created,
                        inspected, heard, answered, row, waited, gaveUp, exit>>

Stops == /\ machine = "up" /\ exit = Running
         /\ machine' = "gone"
         /\ UNCHANGED <<job, pc, registry, lease, given, created,
                        inspected, heard, answered, row, waited, gaveUp, exit>>

-----------------------------------------------------------------------------
(* run_acquire                                                              *)

Init ==
  /\ job \in Jobs
  /\ pc = "start" /\ registry = "unasked" /\ lease = Unset
  /\ machine = "none" /\ given = NotBuilt
  /\ created = BlankDoc /\ inspected = BlankDoc
  /\ heard = {} /\ answered = FALSE /\ row = Unset
  /\ waited = 0 /\ gaveUp = FALSE /\ exit = Running

Ends(code) == pc' = "done" /\ exit' = code

Goes(to)   == pc' = to /\ UNCHANGED exit

\* Mutant: a dry run is not told apart.
AfterRenderWet == Goes("image")

AfterRender == IF job.dry THEN Ends(0) ELSE Goes("image")

Start ==
  /\ pc = "start"
  /\ CASE ~SlotsRead(job) \/ job.ttl = Garbled -> Ends(2) /\ UNCHANGED lease
       [] SlotsRead(job) /\ job.ttl # Garbled /\ ~Admitted(t, required) ->
            Ends(3) /\ UNCHANGED lease
       [] OTHER ->
            /\ lease' = job.ttl
            /\ IF request.sent THEN AfterRender ELSE Ends(2)
  /\ UNCHANGED <<job, registry, machine, given, created, inspected,
                 heard, answered, row, waited, gaveUp>>

ImageField == CASE t = "runpod" -> "imageName" [] t = "vast" -> "image"
                [] t = "deepinfra-deploy" -> "container_image" [] OTHER -> "none"

\* manifest_check: a challenge is answered once, with an anonymous token if
\* there is one.  0 is a network that did not answer.
Manifest(first, token, second) ==
  LET status == IF first # 401 THEN first ELSE IF token THEN second ELSE 0 IN
  CASE status = 200 -> "present" [] status = 404 -> "absent"
    [] OTHER -> "undetermined"

Answers(held) == {0, 401, 500} \cup (IF held = "held" THEN {200} ELSE {404})

Preflight ==
  /\ pc = "image"
  /\ IF ImageField \in job.slot
       THEN \E held \in {"held", "lacking"}, token \in BOOLEAN :
              \E first, second \in Answers(held) :
                /\ registry' = held
                /\ IF Manifest(first, token, second) = "absent"
                     THEN Ends(3) ELSE Goes("keys")
       ELSE UNCHANGED registry /\ Goes("keys")
  /\ UNCHANGED <<job, lease, machine, given, created, inspected, heard,
                 answered, row, waited, gaveUp>>

\* credentials::require: vast's CLI holds its own key.
Keys ==
  /\ pc = "keys"
  /\ CASE t = "vast" -> Goes("discover")
       [] t # "vast" /\ job.keys -> Goes("create")
       [] OTHER -> Ends(4)
  /\ UNCHANGED <<job, registry, lease, machine, given, created,
                 inspected, heard, answered, row, waited, gaveUp>>

\* acquire, first half: the first offer of a sorted query, or none.
Discover ==
  /\ pc = "discover"
  /\ Goes("create") \/ Ends(1)
  /\ UNCHANGED <<job, registry, lease, machine, given, created,
                 inspected, heard, answered, row, waited, gaveUp>>

CreateFails ==
  /\ pc = "create"
  /\ Ends(1)
  /\ UNCHANGED <<job, registry, lease, machine, given, created,
                 inspected, heard, answered, row, waited, gaveUp>>

\* The machine is there, and the answer is lost, unreadable or without an id:
\* nobody is told, and the stamp is all there is.
CreateUnanswered ==
  /\ pc = "create"
  /\ machine' = "coming" /\ given' \in Builds
  /\ Ends(1)
  /\ UNCHANGED <<job, registry, lease, created, inspected, heard,
                 answered, row, waited, gaveUp>>

Create ==
  /\ pc = "create"
  /\ machine' = "coming"
  /\ given' \in Builds
  /\ created' \in CreateResponses(given')
  /\ inspected' = created'
  /\ Goes("record")
  /\ UNCHANGED <<job, registry, lease, heard, answered, row, waited, gaveUp>>

\* record_acquisition, which may fail without ending the run.
Record ==
  /\ pc = "record"
  /\ row' \in {Unset, lease}
  /\ Goes("first")
  /\ UNCHANGED <<job, registry, lease, machine, given, created,
                 inspected, heard, answered, waited, gaveUp, exit>>

FirstInspection ==
  /\ pc = "first"
  /\ Inspects
  /\ Goes("loop")
  /\ UNCHANGED <<job, registry, lease, machine, given, created, row,
                 waited, gaveUp>>

Waits == ~Covers(inspected) \/ StillMaterializing(t, inspected)

\* Past the deadline, only for a machine that says "not yet", and not for ever.
MayWaitOn == waited < Cap /\ StillMaterializing(t, inspected)

Loop ==
  /\ pc = "loop"
  /\ IF Waits /\ (waited < Deadline \/ MayWaitOn)
       THEN Goes("sleep") /\ UNCHANGED gaveUp
       ELSE /\ gaveUp' = (Waits /\ StillMaterializing(t, inspected))
            /\ Goes("judge")
  /\ UNCHANGED <<job, registry, lease, machine, given, created,
                 inspected, heard, answered, row, waited>>

\* Mutant: an inspection that fails starts the wait again.
ElapsedAnew(took) == IF UNCHANGED inspected THEN 0 ELSE waited + 1 + took

Elapsed(took) == waited + 1 + took

Sleep ==
  /\ pc = "sleep"
  /\ Inspects
  /\ \E took \in 0 .. Lag : waited' = Elapsed(took)
  /\ Goes("loop")
  /\ UNCHANGED <<job, registry, lease, machine, given, created, row,
                 gaveUp>>

Findings == Observe(required, ReadState(t, inspected))

\* Mutant: what nothing looked at does not count against the machine.
SatisfiedIfUnseen == Verdict(Findings) # "Unsatisfied"

Satisfied == Verdict(Findings) = "Satisfied"

NeverCameUp == ~HasAddress(t, inspected) /\ OwnAddress

Judge ==
  /\ pc = "judge"
  /\ IF ~gaveUp /\ ~NeverCameUp /\ Satisfied THEN Ends(0) ELSE Ends(1)
  /\ UNCHANGED <<job, registry, lease, machine, given, created,
                 inspected, heard, answered, row, waited, gaveUp>>

Buy == CreateFails \/ CreateUnanswered \/ Create
Wait == FirstInspection \/ Loop \/ Sleep
Command == Start \/ Preflight \/ Keys \/ Discover \/ Buy \/ Record \/ Wait \/ Judge

Over == exit # Running /\ UNCHANGED vars

Next == Command \/ Boots \/ Stops \/ Over

\* The run is one thread that sleeps and asks; a platform's CLI returns.
Spec == Init /\ [][Next]_vars /\ WF_vars(Command)

-----------------------------------------------------------------------------
(* Properties                                                               *)

\* Every variable keeps to its values.
TypeOK ==
  /\ job \in Jobs
  /\ pc \in {"start", "image", "keys", "discover", "create", "record", "first",
             "loop", "sleep", "judge", "done"}
  /\ registry \in {"unasked", "held", "lacking"}
  /\ lease \in {Unset, job.ttl}
  /\ machine \in {"none", "coming", "up", "dead", "gone"}
  /\ DOMAIN created = DOMAIN BlankDoc /\ DOMAIN inspected = DOMAIN BlankDoc
  /\ answered \in BOOLEAN /\ gaveUp \in BOOLEAN
  /\ waited \in Nat
  /\ exit \in -1 .. 4 /\ (exit # Running) = (pc = "done")

Bought == machine # "none"
Succeeded == exit = 0 /\ ~job.dry

\* Success is a machine that has all that was declared, whatever of it was
\* looked up, filled in from the create response or not looked at at all.
SuccessMeetsAll ==
  Succeeded =>
    /\ required.gpu.asked => given.count >= required.gpu.count
    /\ required.gpu.asked /\ required.gpu.floor # Unset =>
         given.mib >= GbToMib(required.gpu.floor)
    /\ required.disk.levels \subseteq given.levels
    /\ \A port \in DOMAIN required.ports :
         <<port, required.ports[port]>> \in given.exposed

\* Nothing declared is dropped on the way to a machine: it is in the request,
\* or the profile itself wrote another value over it, or it says nothing (no
\* GPU), or the target takes its hardware from the account's configuration and
\* is judged by the description alone.
NothingDropped ==
  Bought => \A name \in Declared(required) :
              \/ name \in request.asks \cup request.over
              \/ required.gpu.count = 0 /\ name \in {"gpu.count", "gpu.min_vram_gb"}
              \/ t = "together" /\ name \in {"gpu.count", "gpu.min_vram_gb"}

\* A run that ends in a refusal, or was only asked what it would do, has bought
\* nothing.
RefusedCostsNothing == exit \in {2, 3, 4} \/ job.dry => ~Bought

\* Past the deadline the run waits only on a platform that still says "coming":
\* never for what the create response said once.
LastWordCounts == pc = "sleep" /\ waited >= Deadline => heard # {"over"}

\* Every run ends in a report, whatever fails and whatever is answered.
AlwaysReports == <>(exit # Running)
=============================================================================
