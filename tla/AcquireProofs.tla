---------------------------- MODULE AcquireProofs ----------------------------
(***************************************************************************)
(* What holds of `machine acquire` for every profile, slot and target, for *)
(* every deadline and cap, and for every answer of the platform: what a    *)
(* refusal may not have cost, that nothing declared is dropped, that       *)
(* success is what was declared, and whose word the wait goes by.          *)
(***************************************************************************)
EXTENDS Acquire, TLAPS

Asking  == {"image", "keys", "discover", "create"}
Holding == {"record", "first", "loop", "sleep", "judge"}

\* What has to be true of an invocation before money is spent on it.
Sendable ==
  SlotsRead(job) /\ Admitted(t, required) /\ request.sent /\ ~job.dry

\* A description that says nothing of the machine that is not so.
SaysOnly(d, built) ==
  /\ d.count \subseteq {built.count} /\ d.mib \subseteq {built.mib}
  /\ d.levels \subseteq built.levels /\ d.open \subseteq {built.exposed}

KnownOf(d) == SaysOnly(d, given)

\* Money is spent on what may be sent, and by a run that goes on or fails later.
SpentWell ==
  /\ pc \in Asking \cup Holding => Sendable
  /\ machine # "none" => Sendable /\ exit \in {Running, 0, 1}
  /\ pc \in {"start"} \cup Asking => machine = "none"

\* Nothing is known of a machine before there is one, and what is known is so.
KnownTrue ==
  /\ pc \in {"start"} \cup Asking => created = BlankDoc /\ inspected = BlankDoc
  /\ KnownOf(created) /\ KnownOf(inspected)

\* What the newest description says of the status stands over all before it.
HeardStands == heard # {} => inspected.status = heard

WaitsForCause == pc = "sleep" => waited < Deadline \/ MayWaitOn

SuccessEarned == Succeeded => Sendable /\ Satisfied

AcquireIInv ==
  TypeOK /\ SpentWell /\ KnownTrue /\ HeardStands /\ WaitsForCause /\ SuccessEarned

-----------------------------------------------------------------------------
(* The request                                                              *)

\* A requirement that was read is made of numbers.
LEMMA NumbersRead ==
  ASSUME NEW j \in Jobs, SlotsRead(j)
  PROVE  /\ Required(j).gpu.asked => Required(j).gpu.count \in Nat
         /\ Required(j).disk.levels \subseteq
              {"ephemeral_gb", "persistent_gb", "persistent_at"}
         /\ "ephemeral_gb" \in Required(j).disk.levels =>
              Required(j).disk.ephemeral # Unset
         /\ Required(j).disk.levels # {} => Required(j).disk.asked
<1>1. Required(j).gpu.asked => Required(j).gpu.count \in Nat
  BY AcquireAssumption DEF SlotsRead, GpuReads, Required, GpuOf, Value
<1>2. Required(j).disk.levels \subseteq
        {"ephemeral_gb", "persistent_gb", "persistent_at"}
  BY DEF SlotsRead, DiskReads, Required, DiskOf
<1>3. ASSUME "ephemeral_gb" \in Required(j).disk.levels
      PROVE  Required(j).disk.ephemeral # Unset
  <2>1. "ephemeral_gb" \in DOMAIN j.disk
    BY <1>3 DEF Required, DiskOf
  <2>2. j.disk["ephemeral_gb"] \in Nat \cup {Garbled}
    BY <2>1, AcquireAssumption
  <2> QED BY <2>1, <2>2 DEF Required, DiskOf, Value, Unset, Garbled
<1>4. Required(j).disk.levels # {} => Required(j).disk.asked
  BY DEF Required, DiskOf
<1> QED BY <1>1, <1>2, <1>3, <1>4

\* A target that maps no port admits a profile without ports.
LEMMA NoPortsAdmitted ==
  ASSUME NEW where, NEW r, Provides(where) = {}, Admitted(where, r)
  PROVE  DOMAIN r.ports = {}
BY DEF Admitted, Shortfall

\* Each adapter answers for all that is declared or does not send.
LEMMA RequestWhole ==
  ASSUME NEW j \in Jobs, SlotsRead(j), Admitted(j.target, Required(j)),
         Request(j.target, Required(j), j.slot).sent,
         NEW name \in Declared(Required(j))
  PROVE  \/ name \in Request(j.target, Required(j), j.slot).asks
                     \cup Request(j.target, Required(j), j.slot).over
         \/ Required(j).gpu.count = 0 /\ name \in GpuNames
         \/ j.target = "together" /\ name \in GpuNames
<1> DEFINE r == Required(j)
<1> HIDE DEF r
<1>1. /\ name \in GpuNames => r.gpu.asked /\ r.gpu.count \in Nat
      /\ name \in GpuNames \cup r.disk.levels \cup {"ports"}
      /\ name \in r.disk.levels => r.disk.asked
      /\ name = "ports" => name \in GpuNames \cup r.disk.levels \/ DOMAIN r.ports # {}
  BY NumbersRead DEF Declared, GpuNames, r
<1>2. r.disk.levels \subseteq {"ephemeral_gb", "persistent_gb", "persistent_at"}
  BY NumbersRead DEF r
<1>3. "ephemeral_gb" \in r.disk.levels => r.disk.ephemeral # Unset
  BY NumbersRead DEF r
<1>4. Provides(j.target) = {} => DOMAIN r.ports = {}
  BY NoPortsAdmitted DEF r
<1>5. name \in Declared(r) /\ Request(j.target, r, j.slot).sent
  BY DEF r
<1>6. CASE j.target = "runpod"
  <2>1. Request(j.target, r, j.slot) = RunpodBody(r, j.slot)
    BY <1>6 DEF Request
  <2> QED BY <1>1, <2>1 DEF RunpodBody, GpuNames, r
<1>7. CASE j.target = "vast"
  <2>1. Request(j.target, r, j.slot) = VastAcquisition(r, j.slot)
    BY <1>7 DEF Request
  <2> QED BY <1>1, <1>2, <2>1 DEF VastAcquisition, MayAsk, VastDisk, Met, Keeps, r
<1>8. CASE j.target = "deepinfra"
  <2>1. Request(j.target, r, j.slot) = DeepinfraBody(r, j.slot)
    BY <1>8 DEF Request
  <2>2. r.disk.levels = {}
    BY <2>1, NumbersRead DEF DeepinfraBody, MayAsk, DeepinfraDisk, Keeps, r
  <2>3. name \in GpuNames
    BY <1>1, <1>4, <1>8, <2>2 DEF Provides
  <2> QED BY <2>1, <2>3 DEF DeepinfraBody, r
<1>9. CASE j.target = "deepinfra-deploy"
  <2>1. Request(j.target, r, j.slot) = DeployBody(r, j.slot)
    BY <1>9 DEF Request
  <2>2. r.disk.levels = {}
    BY <2>1, NumbersRead DEF DeployBody, MayAsk, DeployDisk, r
  <2>3. name \in GpuNames
    BY <1>1, <1>4, <1>9, <2>2 DEF Provides
  <2> QED BY <2>1, <2>3 DEF DeployBody, r
<1>10. CASE j.target = "together"
  <2>1. Request(j.target, r, j.slot) = TogetherCreate(r, j.slot)
    BY <1>10 DEF Request
  <2>2. r.disk.levels = {}
    BY <2>1, NumbersRead DEF TogetherCreate, MayAsk, TogetherDisk, r
  <2> QED BY <1>1, <1>4, <1>10, <2>2 DEF Provides
<1>11. CASE j.target = "hetzner"
  <2>1. Request(j.target, r, j.slot) = HetznerBody(r, j.slot)
    BY <1>11 DEF Request
  <2>2. r.disk.levels = {}
    BY <2>1, NumbersRead DEF HetznerBody, MayAsk, HetznerDisk, Keeps, r
  <2>3. name \in GpuNames
    BY <1>1, <1>4, <1>11, <2>2 DEF Provides
  <2>4. r.gpu.count = 0
    BY <1>1, <1>5, <2>1, <2>3 DEF HetznerBody, MayAsk, HetznerGpu, Met
  <2> QED BY <2>3, <2>4 DEF r
<1>12. CASE j.target = "container"
  BY <1>12 DEF Request, Refusal
<1>13. j.target \in Targets
  BY AcquireAssumption
<1> QED BY <1>6, <1>7, <1>8, <1>9, <1>10, <1>11, <1>12, <1>13 DEF Targets

-----------------------------------------------------------------------------
(* The description                                                          *)

LEMMA FilledFields ==
  ASSUME NEW fresh, NEW earlier, DOMAIN fresh = DOMAIN BlankDoc
  PROVE  /\ DOMAIN Filled(fresh, earlier) = DOMAIN BlankDoc
         /\ \A f \in DOMAIN BlankDoc :
              Filled(fresh, earlier)[f] = IF fresh[f] = {} THEN earlier[f] ELSE fresh[f]
BY DEF Filled

\* What was true of the machine is true still when the blanks are filled.
LEMMA FilledTrue ==
  ASSUME NEW fresh, NEW earlier, DOMAIN fresh = DOMAIN BlankDoc,
         KnownOf(fresh), KnownOf(earlier)
  PROVE  /\ KnownOf(Filled(fresh, earlier))
         /\ fresh.status # {} => Filled(fresh, earlier).status = fresh.status
<1>1. {"status", "count", "mib", "levels", "open"} \subseteq DOMAIN BlankDoc
  BY DEF BlankDoc
<1> QED BY <1>1, FilledFields DEF KnownOf, SaysOnly

\* A platform answers of the machine as it is.
LEMMA ReadBackTrue ==
  ASSUME NEW fresh \in ReadBacks
  PROVE  DOMAIN fresh = DOMAIN BlankDoc /\ KnownOf(fresh)
BY DEF ReadBacks, BlankDoc, KnownOf, SaysOnly

LEMMA CreateResponseTrue ==
  ASSUME NEW built, NEW doc \in CreateResponses(built)
  PROVE  DOMAIN doc = DOMAIN BlankDoc /\ SaysOnly(doc, built)
<1>1. CASE t = "runpod"
  <2>1. PICK size \in {{built.mib}, {}} :
          doc = [BlankDoc EXCEPT !.count = {built.count}, !.mib = size,
                                 !.levels = built.levels, !.open = {built.exposed}]
    BY <1>1 DEF CreateResponses
  <2> QED BY <2>1 DEF SaysOnly
<1>2. CASE t = "together"
  <2>1. doc = [BlankDoc EXCEPT !.made = {"coming"}, !.count = {built.count},
                               !.mib = {built.mib}]
    BY <1>2 DEF CreateResponses
  <2> QED BY <2>1 DEF BlankDoc, SaysOnly
<1>3. CASE t \notin {"runpod", "together"}
  <2>1. CASE doc = [BlankDoc EXCEPT !.status = {"coming"}, !.addr = {"addr"}]
    BY <2>1 DEF BlankDoc, SaysOnly
  <2>2. CASE doc = [BlankDoc EXCEPT !.addr = {"addr"}]
    BY <2>2 DEF BlankDoc, SaysOnly
  <2>3. CASE doc = BlankDoc
    BY <2>3 DEF BlankDoc, SaysOnly
  <2> QED BY <1>3, <2>1, <2>2, <2>3 DEF CreateResponses
<1> QED BY <1>1, <1>2, <1>3

LEMMA InspectionTrue ==
  ASSUME TypeOK, KnownTrue, HeardStands, Inspects
  PROVE  /\ DOMAIN inspected' = DOMAIN BlankDoc /\ KnownOf(inspected')
         /\ HeardStands'
<1>1. CASE UNCHANGED <<inspected, heard, answered>>
  BY <1>1 DEF TypeOK, KnownTrue, HeardStands
<1>2. CASE \E fresh \in ReadBacks :
             inspected' = Filled(fresh, created) /\ heard' = fresh.status
  BY <1>2, FilledFields, FilledTrue, ReadBackTrue DEF KnownTrue, HeardStands
<1> QED BY <1>1, <1>2 DEF Inspects

-----------------------------------------------------------------------------
(* The run                                                                  *)

LEMMA AcquireInitially == Init => AcquireIInv
<1> SUFFICES ASSUME Init PROVE AcquireIInv
  OBVIOUS
<1>1. SpentWell
  BY DEF Init, SpentWell, Asking, Holding
<1>4. TypeOK
  <2>1. DOMAIN created = DOMAIN BlankDoc /\ DOMAIN inspected = DOMAIN BlankDoc
    BY DEF Init
  <2>2. exit \in -1 .. 4 /\ (exit # Running) = (pc = "done")
    BY DEF Init, Running
  <2> QED BY <2>2 DEF Init, TypeOK
<1>2. KnownTrue
  BY DEF Init, KnownTrue, KnownOf, SaysOnly, BlankDoc
<1>3. HeardStands /\ WaitsForCause /\ SuccessEarned
  BY DEF Init, HeardStands, WaitsForCause, SuccessEarned, Succeeded, Running
<1> QED BY <1>1, <1>2, <1>3, <1>4 DEF AcquireIInv

\* What a judgement is made of.
Judged == <<job, inspected>>

LEMMA JudgedAlike ==
  ASSUME UNCHANGED Judged
  PROVE  /\ UNCHANGED <<t, required, request>>
         /\ Sendable' = Sendable /\ Satisfied' = Satisfied
<1>1. UNCHANGED <<t, required>>
  BY DEF Judged, t, required
<1>2. UNCHANGED request
  BY <1>1 DEF Judged, request
<1>3. Sendable' = Sendable
  BY <1>1, <1>2 DEF Judged, Sendable
<1>4. Satisfied' = Satisfied
  BY <1>1 DEF Judged, Satisfied, Findings
<1> QED BY <1>1, <1>2, <1>3, <1>4

LEMMA AcquireStutters ==
  ASSUME AcquireIInv, UNCHANGED vars
  PROVE  AcquireIInv'
<1> USE DEF AcquireIInv
<1>1. UNCHANGED <<t, required, request>> /\ Sendable' = Sendable /\ Satisfied' = Satisfied
  BY JudgedAlike DEF vars, Judged
<1>2. TypeOK' /\ SpentWell'
  BY <1>1 DEF vars, TypeOK, SpentWell
<1>3. KnownTrue' /\ HeardStands'
  BY DEF vars, KnownTrue, KnownOf, HeardStands
<1>4. WaitsForCause' /\ SuccessEarned'
  BY <1>1 DEF vars, WaitsForCause, MayWaitOn, SuccessEarned, Succeeded
<1> QED BY <1>2, <1>3, <1>4

LEMMA AcquireSteps ==
  ASSUME AcquireIInv, Next
  PROVE  AcquireIInv'
<1> USE DEF AcquireIInv
<1>1. CASE Start
  <2>1. TypeOK'
    BY <1>1 DEF Start, AfterRender, Ends, Goes, TypeOK, Running
  <2>2. SpentWell'
    BY <1>1, JudgedAlike DEF Start, AfterRender, Ends, SpentWell, Asking, Holding,
       Judged, Sendable
  <2>3. KnownTrue' /\ HeardStands'
    BY <1>1 DEF Start, KnownTrue, KnownOf, HeardStands
  <2>4. WaitsForCause'
    BY <1>1 DEF Start, AfterRender, Ends, Goes, WaitsForCause
  <2>5. SuccessEarned'
    BY <1>1, JudgedAlike DEF Start, AfterRender, Ends, Goes, SuccessEarned, Succeeded,
       Judged
  <2> QED BY <2>1, <2>2, <2>3, <2>4, <2>5
<1>2. CASE Preflight
  <2>1. TypeOK'
    BY <1>2 DEF Preflight, Ends, Goes, TypeOK, Running
  <2>2. SpentWell'
    BY <1>2, JudgedAlike DEF Preflight, SpentWell, Asking, Judged
  <2>3. KnownTrue' /\ HeardStands'
    BY <1>2 DEF Preflight, KnownTrue, KnownOf, HeardStands, Asking
  <2>4. WaitsForCause'
    BY <1>2 DEF Preflight, Ends, Goes, WaitsForCause
  <2>5. SuccessEarned'
    BY <1>2, JudgedAlike DEF Preflight, Ends, Goes, SuccessEarned, Succeeded, Judged
  <2> QED BY <2>1, <2>2, <2>3, <2>4, <2>5
<1>3. CASE Keys
  <2>1. TypeOK'
    BY <1>3 DEF Keys, Ends, Goes, TypeOK, Running
  <2>2. SpentWell'
    BY <1>3, JudgedAlike DEF Keys, SpentWell, Asking, Judged
  <2>3. KnownTrue' /\ HeardStands'
    BY <1>3 DEF Keys, KnownTrue, KnownOf, HeardStands, Asking
  <2>4. WaitsForCause'
    BY <1>3 DEF Keys, Ends, Goes, WaitsForCause
  <2>5. SuccessEarned'
    BY <1>3, JudgedAlike DEF Keys, Ends, Goes, SuccessEarned, Succeeded, Judged
  <2> QED BY <2>1, <2>2, <2>3, <2>4, <2>5
<1>4. CASE Discover
  <2>1. TypeOK'
    BY <1>4 DEF Discover, Ends, Goes, TypeOK, Running
  <2>2. SpentWell'
    BY <1>4, JudgedAlike DEF Discover, SpentWell, Asking, Judged
  <2>3. KnownTrue' /\ HeardStands'
    BY <1>4 DEF Discover, KnownTrue, KnownOf, HeardStands, Asking
  <2>4. WaitsForCause'
    BY <1>4 DEF Discover, Ends, Goes, WaitsForCause
  <2>5. SuccessEarned'
    BY <1>4, JudgedAlike DEF Discover, Ends, Goes, SuccessEarned, Succeeded, Judged
  <2> QED BY <2>1, <2>2, <2>3, <2>4, <2>5
<1>5. CASE CreateFails
  <2>1. TypeOK'
    BY <1>5 DEF CreateFails, Ends, TypeOK, Running
  <2>2. SpentWell'
    BY <1>5 DEF CreateFails, Ends, SpentWell, Asking, Holding
  <2>3. KnownTrue' /\ HeardStands'
    BY <1>5 DEF CreateFails, KnownTrue, KnownOf, HeardStands, Asking
  <2>4. WaitsForCause'
    BY <1>5 DEF CreateFails, Ends, WaitsForCause
  <2>5. SuccessEarned'
    BY <1>5 DEF CreateFails, Ends, SuccessEarned, Succeeded
  <2> QED BY <2>1, <2>2, <2>3, <2>4, <2>5
<1>6. CASE CreateUnanswered
  <2>1. TypeOK'
    BY <1>6 DEF CreateUnanswered, Ends, TypeOK, Running
  <2>2. SpentWell'
    BY <1>6, JudgedAlike DEF CreateUnanswered, Ends, SpentWell, Asking, Judged
  <2>3. KnownTrue' /\ HeardStands'
    BY <1>6 DEF CreateUnanswered, KnownTrue, KnownOf, SaysOnly, BlankDoc, HeardStands,
       Asking
  <2>4. WaitsForCause'
    BY <1>6 DEF CreateUnanswered, Ends, WaitsForCause
  <2>5. SuccessEarned'
    BY <1>6 DEF CreateUnanswered, Ends, SuccessEarned, Succeeded
  <2> QED BY <2>1, <2>2, <2>3, <2>4, <2>5
<1>7. CASE Create
  <2>1. TypeOK'
    <3>1. DOMAIN created' = DOMAIN BlankDoc /\ inspected' = created'
      BY <1>7, CreateResponseTrue DEF Create
    <3> QED BY <1>7, <3>1 DEF Create, Goes, TypeOK
  <2>2. SpentWell'
    <3>1. UNCHANGED <<t, required, request>> /\ Sendable' = Sendable
      BY <1>7 DEF Create, t, required, request, Sendable
    <3> QED BY <1>7, <3>1 DEF Create, Goes, SpentWell, Asking, TypeOK
  <2>3. KnownTrue' /\ HeardStands'
    <3>1. KnownOf(created)'
      BY <1>7, CreateResponseTrue DEF Create, KnownOf
    <3>2. heard = {}
      BY <1>7 DEF Create, KnownTrue, HeardStands, BlankDoc, Asking
    <3> QED BY <1>7, <3>1, <3>2 DEF Create, Goes, KnownTrue, HeardStands, Asking
  <2>4. WaitsForCause'
    BY <1>7 DEF Create, Goes, WaitsForCause
  <2>5. SuccessEarned'
    BY <1>7 DEF Create, Goes, SuccessEarned, Succeeded, Running, TypeOK
  <2> QED BY <2>1, <2>2, <2>3, <2>4, <2>5
<1>8. CASE Record
  <2>1. TypeOK'
    BY <1>8 DEF Record, Goes, TypeOK
  <2>2. SpentWell'
    BY <1>8, JudgedAlike DEF Record, Goes, SpentWell, Asking, Holding, Judged
  <2>3. KnownTrue' /\ HeardStands'
    BY <1>8 DEF Record, Goes, KnownTrue, KnownOf, HeardStands, Asking
  <2>4. WaitsForCause'
    BY <1>8 DEF Record, Goes, WaitsForCause
  <2>5. SuccessEarned'
    BY <1>8, JudgedAlike DEF Record, SuccessEarned, Succeeded, Judged
  <2> QED BY <2>1, <2>2, <2>3, <2>4, <2>5
<1>9. CASE FirstInspection
  <2>1. TypeOK'
    <3>1. DOMAIN inspected' = DOMAIN BlankDoc /\ answered' \in BOOLEAN
      BY <1>9, InspectionTrue DEF FirstInspection, Inspects, TypeOK
    <3> QED BY <1>9, <3>1 DEF FirstInspection, Goes, TypeOK
  <2>2. SpentWell'
    <3>1. UNCHANGED <<t, required, request>> /\ Sendable' = Sendable
      BY <1>9 DEF FirstInspection, t, required, request, Sendable
    <3> QED BY <1>9, <3>1 DEF FirstInspection, Goes, SpentWell, Asking, Holding
  <2>3. KnownTrue' /\ HeardStands'
    BY <1>9, InspectionTrue DEF FirstInspection, Goes, KnownTrue, KnownOf, Asking
  <2>4. WaitsForCause'
    BY <1>9 DEF FirstInspection, Goes, WaitsForCause
  <2>5. SuccessEarned'
    BY <1>9 DEF FirstInspection, Goes, SuccessEarned, Succeeded, Running, TypeOK
  <2> QED BY <2>1, <2>2, <2>3, <2>4, <2>5
<1>10. CASE Loop
  <2>1. TypeOK'
    BY <1>10 DEF Loop, Goes, TypeOK
  <2>2. SpentWell'
    BY <1>10, JudgedAlike DEF Loop, Goes, SpentWell, Asking, Holding, Judged
  <2>3. KnownTrue' /\ HeardStands'
    BY <1>10 DEF Loop, Goes, KnownTrue, KnownOf, HeardStands, Asking
  <2>4. WaitsForCause'
    BY <1>10 DEF Loop, Goes, WaitsForCause, MayWaitOn, t
  <2>5. SuccessEarned'
    BY <1>10, JudgedAlike DEF Loop, Goes, SuccessEarned, Succeeded, Judged
  <2> QED BY <2>1, <2>2, <2>3, <2>4, <2>5
<1>11. CASE Sleep
  <2>1. TypeOK'
    <3>1. DOMAIN inspected' = DOMAIN BlankDoc /\ answered' \in BOOLEAN
      BY <1>11, InspectionTrue DEF Sleep, Inspects, TypeOK
    <3>2. waited' \in Nat
      BY <1>11 DEF Sleep, Elapsed, TypeOK
    <3> QED BY <1>11, <3>1, <3>2 DEF Sleep, Goes, TypeOK
  <2>2. SpentWell'
    <3>1. UNCHANGED <<t, required, request>> /\ Sendable' = Sendable
      BY <1>11 DEF Sleep, t, required, request, Sendable
    <3> QED BY <1>11, <3>1 DEF Sleep, Goes, SpentWell, Asking, Holding
  <2>3. KnownTrue' /\ HeardStands'
    BY <1>11, InspectionTrue DEF Sleep, Goes, KnownTrue, KnownOf, Asking
  <2>4. WaitsForCause'
    BY <1>11 DEF Sleep, Goes, WaitsForCause
  <2>5. SuccessEarned'
    BY <1>11 DEF Sleep, Goes, SuccessEarned, Succeeded, Running, TypeOK
  <2> QED BY <2>1, <2>2, <2>3, <2>4, <2>5
<1>12. CASE Judge
  <2>1. TypeOK'
    BY <1>12 DEF Judge, Ends, TypeOK, Running
  <2>2. SpentWell'
    BY <1>12, JudgedAlike DEF Judge, Ends, SpentWell, Asking, Holding, Judged
  <2>3. KnownTrue' /\ HeardStands'
    BY <1>12 DEF Judge, Ends, KnownTrue, KnownOf, HeardStands, Asking
  <2>4. WaitsForCause'
    BY <1>12 DEF Judge, Ends, WaitsForCause
  <2>5. SuccessEarned'
    BY <1>12, JudgedAlike DEF Judge, Ends, SuccessEarned, Succeeded, Judged, SpentWell,
       Holding
  <2> QED BY <2>1, <2>2, <2>3, <2>4, <2>5
<1>13. CASE Boots
  <2>1. TypeOK'
    BY <1>13 DEF Boots, TypeOK
  <2>2. SpentWell'
    BY <1>13, JudgedAlike DEF Boots, SpentWell, Judged
  <2>3. KnownTrue' /\ HeardStands'
    BY <1>13 DEF Boots, KnownTrue, KnownOf, HeardStands
  <2>4. WaitsForCause'
    BY <1>13 DEF Boots, WaitsForCause, MayWaitOn, t
  <2>5. SuccessEarned'
    BY <1>13 DEF Boots, SuccessEarned, Succeeded, Running
  <2> QED BY <2>1, <2>2, <2>3, <2>4, <2>5
<1>14. CASE Stops
  <2>1. TypeOK'
    BY <1>14 DEF Stops, TypeOK
  <2>2. SpentWell'
    BY <1>14, JudgedAlike DEF Stops, SpentWell, Judged
  <2>3. KnownTrue' /\ HeardStands'
    BY <1>14 DEF Stops, KnownTrue, KnownOf, HeardStands
  <2>4. WaitsForCause'
    BY <1>14 DEF Stops, WaitsForCause, MayWaitOn, t
  <2>5. SuccessEarned'
    BY <1>14 DEF Stops, SuccessEarned, Succeeded, Running
  <2> QED BY <2>1, <2>2, <2>3, <2>4, <2>5
<1>15. CASE Over
  BY <1>15, AcquireStutters DEF Over
<1> QED BY <1>1, <1>2, <1>3, <1>4, <1>5, <1>6, <1>7, <1>8, <1>9, <1>10, <1>11, <1>12,
       <1>13, <1>14, <1>15 DEF Next, Command, Buy, Wait

LEMMA AcquireAlways == Spec => []AcquireIInv
<1>1. AcquireIInv /\ [Next]_vars => AcquireIInv'
  BY AcquireSteps, AcquireStutters
<1> QED BY <1>1, AcquireInitially, PTL DEF Spec

-----------------------------------------------------------------------------
(* What it promises                                                         *)

\* The run's variables keep to their values; it has an exit code when it is done.
THEOREM AcquireTypeCorrect == Spec => []TypeOK
<1>1. AcquireIInv => TypeOK
  BY DEF AcquireIInv
<1> QED BY <1>1, AcquireAlways, PTL

\* run_acquire refuses before it spends: whatever the profile, the registry, the
\* keys and the offers, a run that ends in a refusal has bought nothing.
THEOREM RefusalIsFree == Spec => []RefusedCostsNothing
<1>1. AcquireIInv => RefusedCostsNothing
  BY DEF AcquireIInv, SpentWell, RefusedCostsNothing, Bought, Sendable, Running
<1> QED BY <1>1, AcquireAlways, PTL

\* The adapters together: whatever a profile declares, no target buys a machine
\* without asking for it, leaving it to the profile's own word or judging it after.
THEOREM NothingIsDropped == Spec => []NothingDropped
<1>1. ASSUME AcquireIInv PROVE NothingDropped
  <2>1. CASE Bought
    <3>1. job \in Jobs /\ Sendable
      BY <1>1, <2>1 DEF AcquireIInv, TypeOK, SpentWell, Bought
    <3> QED BY <3>1, RequestWhole DEF NothingDropped, Sendable, request, required, t,
           GpuNames
  <2> QED BY <2>1 DEF NothingDropped
<1> QED BY <1>1, AcquireAlways, PTL

\* The wait (run_acquire's loop): past the deadline it goes on only while the
\* newest description does not say that the machine is over.
THEOREM NewestWordCounts == Spec => []LastWordCounts
<1>1. ASSUME AcquireIInv PROVE LastWordCounts
  <2>1. StillMaterializing(t, inspected) /\ heard # {} => heard = {"coming"}
    BY <1>1 DEF AcquireIInv, HeardStands, StillMaterializing, TogetherWord
  <2> QED BY <1>1, <2>1, AcquireAssumption DEF AcquireIInv, TypeOK, WaitsForCause,
         MayWaitOn, LastWordCounts
<1> QED BY <1>1, AcquireAlways, PTL

\* What a description states is what a satisfied finding compared.
LEMMA StatedOne ==
  ASSUME NEW field, NEW n, field \subseteq {n}, Stated(field) # Unset
  PROVE  Stated(field) = n
<1>1. field = {n}
  BY DEF Stated
<1> QED BY DEF Stated

LEMMA StateTrue ==
  ASSUME KnownOf(inspected)
  PROVE  LET s == ReadState(t, inspected) IN
         /\ s.count \in {Unset, given.count} /\ s.mib \in {Unset, given.mib}
         /\ s.levels \subseteq given.levels
         /\ s.listed => s.exposed = given.exposed
<1> DEFINE count == Stated(inspected.count)
           mib == Stated(inspected.mib)
<1>1. count \in {Unset, given.count} /\ mib \in {Unset, given.mib}
  BY StatedOne DEF KnownOf, SaysOnly
<1>2. inspected.open # {} => UNION inspected.open = given.exposed
  BY DEF KnownOf, SaysOnly
<1>3. \/ ReadState(t, inspected) = RunpodState(inspected)
      \/ ReadState(t, inspected) = VastState(inspected)
      \/ ReadState(t, inspected) = [Unseen EXCEPT !.count = count, !.mib = mib]
      \/ ReadState(t, inspected) = Unseen
  BY DEF ReadState, DeepinfraState, DeployState, TogetherState
<1> HIDE DEF count, mib
<1>4. CASE ReadState(t, inspected) = RunpodState(inspected)
  <2> DEFINE s == ReadState(t, inspected)
  <2>1. /\ s.count = count /\ s.mib = mib /\ s.levels \subseteq inspected.levels
        /\ s.listed = (inspected.open # {}) /\ s.exposed = UNION inspected.open
    BY <1>4 DEF RunpodState, count, mib
  <2> QED BY <1>1, <2>1 DEF KnownOf, SaysOnly
<1>5. CASE ReadState(t, inspected) = VastState(inspected)
  <2> DEFINE s == ReadState(t, inspected)
  <2>1. /\ s.count = count /\ s.mib = mib /\ s.levels \subseteq inspected.levels
        /\ s.listed = (inspected.open # {}) /\ s.exposed = UNION inspected.open
    BY <1>5 DEF VastState, count, mib
  <2> QED BY <1>1, <2>1 DEF KnownOf, SaysOnly
<1>6. CASE ReadState(t, inspected) = [Unseen EXCEPT !.count = count, !.mib = mib]
  BY <1>1, <1>6 DEF Unseen
<1>7. CASE ReadState(t, inspected) = Unseen
  BY <1>7 DEF Unseen
<1> QED BY <1>3, <1>4, <1>5, <1>6, <1>7

\* Whatever is looked up, filled in or passed over (acquire's judgement): a run
\* that reports success has a machine with all that its profile declared.
THEOREM SuccessIsWhole == Spec => []SuccessMeetsAll
<1>1. ASSUME AcquireIInv, Succeeded PROVE SuccessMeetsAll
  <2> DEFINE s == ReadState(t, inspected)
  <2>1. /\ s.count \in {Unset, given.count} /\ s.mib \in {Unset, given.mib}
        /\ s.levels \subseteq given.levels
        /\ s.listed => s.exposed = given.exposed
    BY <1>1, StateTrue DEF AcquireIInv, KnownTrue
  <2>2. Satisfied /\ job \in Jobs /\ SlotsRead(job)
    BY <1>1 DEF AcquireIInv, TypeOK, SuccessEarned, Sendable
  <2> HIDE DEF s
  <2>3. \A name \in Declared(required) : Finding(name, required, s) = "Satisfied"
    <3>1. ASSUME NEW name
          PROVE  Finding(name, required, s) \in {"Satisfied", "NotChecked", "Unsatisfied"}
      BY DEF Finding, AtLeast
    <3> QED BY <2>2, <3>1 DEF Satisfied, Verdict, Findings, Observe, s
  <2>4. required.disk.levels \subseteq {"ephemeral_gb", "persistent_gb", "persistent_at"}
    BY <2>2, NumbersRead DEF required
  <2>5. required.gpu.asked => given.count >= required.gpu.count
    BY <2>1, <2>3 DEF Declared, Finding, AtLeast
  <2>6. required.gpu.asked /\ required.gpu.floor # Unset =>
          given.mib >= GbToMib(required.gpu.floor)
    BY <2>1, <2>3 DEF Declared, Finding, AtLeast
  <2>7. required.disk.levels \subseteq given.levels
    BY <2>1, <2>3, <2>4 DEF Declared, Finding
  <2>8. ASSUME NEW port \in DOMAIN required.ports
        PROVE  <<port, required.ports[port]>> \in given.exposed
    BY <2>1, <2>3 DEF Declared, Finding
  <2> QED BY <2>5, <2>6, <2>7, <2>8 DEF SuccessMeetsAll
<1>2. AcquireIInv => SuccessMeetsAll
  BY <1>1 DEF SuccessMeetsAll
<1> QED BY <1>2, AcquireAlways, PTL

-----------------------------------------------------------------------------
(* How long it waits                                                        *)

\* What a wait may last, and what it may last with an inspection under way.
Longest == IF Deadline < Cap THEN Cap ELSE Deadline
Latest == Longest + Lag

\* The steps still to come: each sleep of the wait costs its poll.
StepsAfter(at) ==
  CASE at = "start" -> 9 [] at = "image" -> 8 [] at = "keys" -> 7 [] at = "discover" -> 6
    [] at = "create" -> 5 [] at = "record" -> 4 [] at = "first" -> 3 [] at = "loop" -> 2
    [] OTHER -> 1

StillToCome == IF pc = "done" THEN 0 ELSE 2 * (Latest - waited) + StepsAfter(pc)

WaitBounded == waited <= Latest

\* A step of the run brings its end nearer; the machine's own life puts it no further.
ComesToItsEnd == /\ Command => StillToCome' < StillToCome
                 /\ Boots \/ Stops => StillToCome' = StillToCome

LEMMA LatestIs == Longest \in Nat /\ Latest \in Nat /\ Deadline <= Longest /\ Cap <= Longest
                  /\ Longest + Lag = Latest /\ Lag \in Nat
BY AcquireAssumption DEF Longest, Latest

LEMMA CommandComesNearer ==
  ASSUME AcquireIInv, WaitBounded, Command
  PROVE  WaitBounded' /\ StillToCome \in Nat /\ StillToCome' < StillToCome
<1> USE DEF Ends, Goes
<1>1. waited \in Nat /\ Latest \in Nat /\ waited <= Latest
  BY LatestIs DEF AcquireIInv, TypeOK, WaitBounded
<1>2. PICK s \in 1 .. 9 : s = StepsAfter(pc)
  BY DEF StepsAfter
<1>3. PICK r \in 1 .. 9 : r = StepsAfter(pc')
  BY DEF StepsAfter
<1>4. ASSUME pc # "done", waited' = waited, pc' = "done" \/ r < s
      PROVE  WaitBounded' /\ StillToCome \in Nat /\ StillToCome' < StillToCome
  <2>1. StillToCome = 2 * (Latest - waited) + s
    BY <1>2, <1>4 DEF StillToCome
  <2>2. StillToCome' = IF pc' = "done" THEN 0 ELSE 2 * (Latest - waited) + r
    BY <1>3, <1>4 DEF StillToCome
  <2>3. WaitBounded'
    BY <1>1, <1>4 DEF WaitBounded
  <2> QED BY <1>1, <1>2, <1>3, <1>4, <2>1, <2>2, <2>3
<1>5. CASE Sleep
  <2>1. PICK took \in 0 .. Lag : waited' = waited + 1 + took
    BY <1>5 DEF Sleep, Elapsed
  <2>2. pc = "sleep" /\ pc' = "loop"
    BY <1>5 DEF Sleep
  <2>3. waited + 1 <= Longest
    <3>1. waited < Deadline \/ waited < Cap
      BY <2>2 DEF AcquireIInv, WaitsForCause, MayWaitOn
    <3>2. Deadline \in Nat /\ Cap \in Nat
      BY AcquireAssumption
    <3> QED BY <1>1, <3>1, <3>2, LatestIs
  <2>4. took \in Nat /\ took <= Lag
    BY <2>1, LatestIs
  <2>5. waited' \in Nat /\ waited' <= Latest /\ waited' >= waited + 1
    BY <1>1, <2>1, <2>3, <2>4, LatestIs
  <2>6. /\ StillToCome = 2 * (Latest - waited) + 1
        /\ StillToCome' = 2 * (Latest - waited') + 2
    <3>1. StepsAfter(pc) = 1 /\ StepsAfter(pc') = 2 /\ pc # "done" /\ pc' # "done"
      BY <2>2 DEF StepsAfter
    <3>2. StillToCome' = 2 * (Latest - waited') + StepsAfter(pc')
      BY <3>1 DEF StillToCome, Latest, Longest
    <3> QED BY <3>1, <3>2 DEF StillToCome
  <2>7. WaitBounded'
    <3>1. Latest' = Latest
      BY DEF Latest, Longest
    <3> QED BY <2>5, <3>1 DEF WaitBounded
  <2>8. StillToCome \in Nat /\ StillToCome' < StillToCome
    <3>1. ASSUME NEW l \in Nat, NEW w \in Nat, NEW v \in Nat, w <= l, v <= l, v >= w + 1
          PROVE  2 * (l - w) + 1 \in Nat /\ 2 * (l - v) + 2 < 2 * (l - w) + 1
      BY ONLY <3>1
    <3> QED BY ONLY <1>1, <2>5, <2>6, <3>1
  <2> QED BY <2>7, <2>8
<1>6. CASE Start
  <2>1. pc = "start" /\ waited' = waited /\ pc' \in {"image", "done"}
    BY <1>6 DEF Start, AfterRender
  <2> QED BY <1>2, <1>3, <1>4, <2>1 DEF StepsAfter
<1>7. CASE Preflight
  <2>1. pc = "image" /\ waited' = waited /\ pc' \in {"keys", "done"}
    BY <1>7 DEF Preflight
  <2> QED BY <1>2, <1>3, <1>4, <2>1 DEF StepsAfter
<1>8. CASE Keys
  <2>1. pc = "keys" /\ waited' = waited /\ pc' \in {"discover", "create", "done"}
    BY <1>8 DEF Keys
  <2> QED BY <1>2, <1>3, <1>4, <2>1 DEF StepsAfter
<1>9. CASE Discover
  <2>1. pc = "discover" /\ waited' = waited /\ pc' \in {"create", "done"}
    BY <1>9 DEF Discover
  <2> QED BY <1>2, <1>3, <1>4, <2>1 DEF StepsAfter
<1>10. CASE Buy
  <2>1. pc = "create" /\ waited' = waited /\ pc' \in {"record", "done"}
    BY <1>10 DEF Buy, CreateFails, CreateUnanswered, Create
  <2> QED BY <1>2, <1>3, <1>4, <2>1 DEF StepsAfter
<1>11. CASE Record
  <2>1. pc = "record" /\ waited' = waited /\ pc' = "first"
    BY <1>11 DEF Record
  <2> QED BY <1>2, <1>3, <1>4, <2>1 DEF StepsAfter
<1>12. CASE FirstInspection
  <2>1. pc = "first" /\ waited' = waited /\ pc' = "loop"
    BY <1>12 DEF FirstInspection
  <2> QED BY <1>2, <1>3, <1>4, <2>1 DEF StepsAfter
<1>13. CASE Loop
  <2>1. pc = "loop" /\ waited' = waited /\ pc' \in {"sleep", "judge"}
    BY <1>13 DEF Loop
  <2> QED BY <1>2, <1>3, <1>4, <2>1 DEF StepsAfter
<1>14. CASE Judge
  <2>1. pc = "judge" /\ waited' = waited /\ pc' = "done"
    BY <1>14 DEF Judge
  <2> QED BY <1>4, <2>1
<1> QED BY <1>5, <1>6, <1>7, <1>8, <1>9, <1>10, <1>11, <1>12, <1>13, <1>14
        DEF Command, Wait

\* run_acquire's wait, whatever the platform says and however slowly: it has not lasted
\* past its deadline and its cap by more than one inspection, and no step of the run puts
\* its end further off.
THEOREM EveryWaitIsBounded == Spec => []WaitBounded /\ [][ComesToItsEnd]_vars
<1>1. Init => WaitBounded
  BY LatestIs DEF Init, WaitBounded
<1>2. AcquireIInv /\ WaitBounded /\ [Next]_vars => WaitBounded' /\ [ComesToItsEnd]_vars
  <2> SUFFICES ASSUME AcquireIInv, WaitBounded, [Next]_vars
               PROVE  WaitBounded' /\ [ComesToItsEnd]_vars
    OBVIOUS
  <2>1. CASE Command
    <3>1. ~(Boots \/ Stops)
      <4>1. Command => pc' # pc
        BY DEF Command, Start, AfterRender, Preflight, Keys, Discover, Buy, CreateFails,
           CreateUnanswered, Create, Record, Wait, FirstInspection, Loop, Sleep, Judge,
           Ends, Goes
      <4> QED BY <2>1, <4>1 DEF Boots, Stops
    <3> QED BY <2>1, <3>1, CommandComesNearer DEF ComesToItsEnd
  <2>2. CASE Boots \/ Stops
    <3>1. pc' = pc /\ waited' = waited
      BY <2>2 DEF Boots, Stops
    <3>2. StillToCome' = StillToCome
      BY <3>1 DEF StillToCome
    <3>3. ~Command
      BY <2>2, <3>1, <3>2, CommandComesNearer DEF Boots, Stops
    <3> QED BY <2>2, <3>1, <3>2, <3>3 DEF ComesToItsEnd, WaitBounded
  <2>3. CASE UNCHANGED vars \/ Over
    BY <2>3 DEF vars, Over, WaitBounded
  <2> QED BY <2>1, <2>2, <2>3 DEF Next
<1> QED BY <1>1, <1>2, AcquireAlways, PTL DEF Spec
=============================================================================
