----------------------------- MODULE FleetProofs -----------------------------
(* Theorems about Fleet, for every value of its constants.                   *)
EXTENDS FleetInductive, TLAPS

LEMMA GateAnswers ==
  ASSUME NEW m \in Machines, NEW verdict \in Gate(m)
  PROVE  verdict \in {"clear", "holding", "unreadable"}
BY DEF Gate

LEMMA RowTyped ==
  ASSUME NEW m \in Machines, NEW expires \in Nat, NEW released \in BOOLEAN
  PROVE  Row(m, expires, released) \in Rows
BY DEF Row, Rows, Times

LEMMA CorrectedTyped ==
  ASSUME NEW rows \in SUBSET Rows
  PROVE  Corrected(rows) \in SUBSET Rows
BY DEF Corrected, Rows

(***************************************************************************)
(* The initial states                                                      *)
(***************************************************************************)

LEMMA InitTypeOK == Init => TypeOK
<1> SUFFICES ASSUME Init PROVE TypeOK
  OBVIOUS
<1>1. lease \in [Machines -> Nat \cup {NoLease}]
  BY FleetAssumption DEF Init
<1>2. ASSUME NEW m \in Legacy PROVE lease[m] \in Nat
  BY <1>1, <1>2, FleetAssumption DEF Init
<1>3. record \in SUBSET Rows
  <2>1. ASSUME NEW m \in Legacy PROVE Row(m, lease[m], FALSE) \in Rows
    BY <1>2, <2>1, RowTyped, FleetAssumption
  <2> QED BY <2>1 DEF Init
<1>4. target \in [Sweepers -> Machines]
  BY FleetAssumption DEF Init
<1>5. ledger \in [Machines -> Seq(LedgerRows)]
  BY DEF Init
<1>6. run \in [Sweepers -> Runs]
  BY DEF Init, NoRun, Runs, Times
<1>7. view \in [Sweepers -> Views]
  BY DEF Init, NoView, Views
<1>8. out \in [Sweepers -> Outcomes]
  BY DEF Init, NoOutcome, Outcomes
<1> QED
  BY <1>1, <1>3, <1>4, <1>5, <1>6, <1>7, <1>8
  DEF Init, TypeOK, Times, States, Stamped

LEMMA InitIInv == Init => IInv
<1> SUFFICES ASSUME Init PROVE IInv
  OBVIOUS
<1>1. TypeOK
  BY InitTypeOK
<1>2. AcquireOrder
  BY FleetAssumption DEF Init, AcquireOrder, Stamped, NoLease
<1>3. \A r \in record : ~r.released /\ r.id \in Legacy /\ r.expires = lease[r.id]
  BY DEF Init, Row
<1>4. RecordTrue
  BY <1>3, FleetAssumption DEF Init, RecordTrue, Describes
<1>5. SnapshotTrue /\ FoundBought /\ AbsenceTrue
  BY DEF Init, SnapshotTrue, FoundBought, AbsenceTrue, NoRun, NoView
<1>6. EffectTrue
  BY DEF Init, EffectTrue
<1>7. RetiredTrue
  BY <1>3 DEF RetiredTrue, Retired
<1>8. NeverSweptEarly
  BY DEF Init, NeverSweptEarly
<1> QED
  BY <1>1, <1>2, <1>4, <1>5, <1>6, <1>7, <1>8 DEF IInv

(***************************************************************************)
(* Every step keeps the types.  AcquireOrder is what makes the row an      *)
(* acquire appends a row: the lease it writes is one it agreed to.         *)
(***************************************************************************)

LEMMA AcquireTypeOK ==
  ASSUME TypeOK, AcquireOrder, NEW m \in Machines, Acquire(m)
  PROVE  TypeOK'
<1> USE FleetAssumption DEF TypeOK, platformVars, sweepVars, Times, States
<1>1. CASE AcquireAdmit(m)
  <2>1. lease' \in [Machines -> Nat \cup {NoLease}]
    BY <1>1 DEF AcquireAdmit
  <2> QED BY <1>1, <2>1 DEF AcquireAdmit
<1>2. CASE AcquireCreate(m)
  BY <1>2 DEF AcquireCreate
<1>3. CASE AcquireAnonymous(m)
  BY <1>3 DEF AcquireAnonymous, Fault
<1>4. CASE AcquireRecord(m)
  <2>1. lease[m] \in Nat
    BY <1>4 DEF AcquireRecord, AcquireOrder, Stamped
  <2>2. record' \in SUBSET Rows
    BY <1>4, <2>1, RowTyped DEF AcquireRecord
  <2> QED BY <1>4, <2>2 DEF AcquireRecord
<1>5. CASE AcquireStops(m)
  BY <1>5 DEF AcquireStops, Fault
<1> QED BY <1>1, <1>2, <1>3, <1>4, <1>5 DEF Acquire

LEMMA ReleaseTypeOK ==
  ASSUME TypeOK, NEW m \in Machines, Release(m)
  PROVE  TypeOK'
<1> USE FleetAssumption DEF TypeOK, platformVars, sweepVars, Times, States
<1>1. CASE ReleaseGate(m)
  BY <1>1 DEF ReleaseGate
<1>2. CASE ReleaseCall(m)
  BY <1>2 DEF ReleaseCall
<1>3. CASE ReleaseMissing(m)
  BY <1>3 DEF ReleaseMissing
<1>4. CASE ReleaseCorrect(m)
  <2>1. FreshCorrection(m) \in Rows
    BY RowTyped DEF FreshCorrection
  <2>2. Corrected(RowsOf(m)) \in SUBSET Rows
    BY CorrectedTyped DEF RowsOf
  <2>3. record' \in SUBSET Rows
    BY <1>4, <2>1, <2>2 DEF ReleaseCorrect
  <2> QED BY <1>4, <2>3 DEF ReleaseCorrect
<1>5. CASE ReleaseStops(m)
  BY <1>5 DEF ReleaseStops, Fault
<1> QED BY <1>1, <1>2, <1>3, <1>4, <1>5 DEF Release

LEMMA AroundTypeOK ==
  ASSUME TypeOK, NEW m \in Machines, Around(m)
  PROVE  TypeOK'
<1> USE DEF TypeOK, platformVars, sweepVars, Times, States
<1>1. CASE LedgerAppend(m)
  <2>1. ledger' \in [Machines -> Seq(LedgerRows)]
    BY <1>1 DEF LedgerAppend, LedgerRows
  <2> QED BY <1>1, <2>1 DEF LedgerAppend
<1>2. CASE Vanish(m)
  BY <1>2 DEF Vanish
<1> QED BY <1>1, <1>2 DEF Around

LEMMA OutcomeAdds ==
  ASSUME NEW o \in Outcomes, NEW m \in Machines
  PROVE  /\ [o EXCEPT !.released = @ \cup {m}] \in Outcomes
         /\ [o EXCEPT !.failed = @ \cup {m}] \in Outcomes
         /\ [o EXCEPT !.unknown = @ \cup {m}] \in Outcomes
BY DEF Outcomes

LEMMA ViewFinds ==
  ASSUME NEW v \in Views, NEW m \in Machines
  PROVE  /\ [v EXCEPT !.found = @ \ {m}] \in Views
         /\ [v EXCEPT !.found = @ \ {m}, !.handled = @ \cup {m}] \in Views
BY DEF Views

LEMMA ViewLists ==
  ASSUME NEW v \in Views, NEW p \in Providers, NEW seen \in SUBSET Machines
  PROVE  /\ [v EXCEPT !.planes = @ \ {p}] \in Views
         /\ [v EXCEPT !.planes = @ \ {p}, !.found = seen,
                      !.listed = @ \cup {p}, !.present = @ \cup seen] \in Views
BY DEF Views

\* What settling a machine leaves typed.
SettleTyped(s) ==
  /\ out' \in [Sweepers -> Outcomes]
  /\ pc' \in [Sweepers -> {"idle", "work", "call", "retire", "done"}]
  /\ target' \in [Sweepers -> Machines]
  /\ faults' \in Nat

LEMMA JudgedTyped ==
  ASSUME NEW o \in Outcomes, NEW m \in Machines, NEW verdict,
         NEW expired \in Nat, NEW dry
  PROVE  Judged(o, m, verdict, expired, dry) \in Outcomes
<1>1. Judged(o, m, verdict, expired, dry).expired = expired
  BY DEF Judged, Outcomes
<1>2. /\ Judged(o, m, verdict, expired, dry).released \subseteq Machines
      /\ Judged(o, m, verdict, expired, dry).refused \subseteq Machines
      /\ Judged(o, m, verdict, expired, dry).failed \subseteq Machines
  BY DEF Judged, Outcomes
<1> QED BY <1>1, <1>2 DEF Judged, Outcomes

LEMMA SettleTypeOK ==
  ASSUME TypeOK, NEW s \in Sweepers, NEW m \in Machines,
         NEW verdict \in Gate(m), NEW expired \in Nat,
         Settle(s, m, verdict, expired)
  PROVE  SettleTyped(s)
<1> USE DEF TypeOK
<1>1. Judged(out[s], m, verdict, expired, run[s].dry) \in Outcomes
  BY JudgedTyped
<1>2. out' \in [Sweepers -> Outcomes]
  BY <1>1 DEF Settle
<1>3. \/ UNCHANGED <<pc, target>>
      \/ /\ pc' = [pc EXCEPT ![s] = "call"]
         /\ target' = [target EXCEPT ![s] = m]
  BY DEF Settle
<1>4. /\ pc' \in [Sweepers -> {"idle", "work", "call", "retire", "done"}]
      /\ target' \in [Sweepers -> Machines]
  BY <1>3, ZenonT(60)
<1>5. faults' \in Nat
  BY DEF Settle
<1> QED BY <1>2, <1>4, <1>5 DEF SettleTyped

LEMMA SettledTyped ==
  ASSUME TypeOK, NEW s \in Sweepers, NEW m \in Machines, Settled(s, m)
  PROVE  view' \in [Sweepers -> Views]
<1> DEFINE v == [view[s] EXCEPT !.found = @ \ {m}, !.handled = @ \cup {m}]
<1>1. v \in Views
  BY ViewFinds DEF TypeOK
<1>2. view' = [view EXCEPT ![s] = v]
  BY DEF Settled
<1> QED BY <1>1, <1>2 DEF TypeOK

LEMMA FailedTyped ==
  ASSUME TypeOK, NEW s \in Sweepers,
         out' = [out EXCEPT ![s].failed = @ \cup {target[s]}]
  PROVE  out' \in [Sweepers -> Outcomes]
<1> DEFINE o == [out[s] EXCEPT !.failed = @ \cup {target[s]}]
<1>1. o \in Outcomes
  BY OutcomeAdds DEF TypeOK
<1>2. out' = [out EXCEPT ![s] = o]
  OBVIOUS
<1> QED BY <1>1, <1>2 DEF TypeOK

LEMMA PlatformHalfTypeOK ==
  ASSUME TypeOK, NEW s \in Sweepers, SweepPlatformHalf(s)
  PROVE  TypeOK'
<1> USE FleetAssumption DEF TypeOK, platformVars, sweepVars, Times, States
<1>1. view[s] \in Views /\ run[s] \in Runs /\ out[s] \in Outcomes
  OBVIOUS
<1>2. ASSUME NEW p \in Providers, SweepList(s, p) PROVE TypeOK'
  <2>1. PICK seen \in Readings(p) :
          view' = [view EXCEPT ![s].planes = @ \ {p}, ![s].found = seen,
                     ![s].listed = @ \cup {p}, ![s].present = @ \cup seen]
    BY <1>2 DEF SweepList
  <2>2. seen \subseteq Machines
    BY DEF Readings, RunningOn
  <2>3. view' \in [Sweepers -> Views]
    <3> DEFINE v == [view[s] EXCEPT !.planes = @ \ {p}, !.found = seen,
                                   !.listed = @ \cup {p},
                                   !.present = @ \cup seen]
    <3>1. v \in Views
      BY <1>1, <2>2, ViewLists
    <3>2. view' = [view EXCEPT ![s] = v]
      BY <2>1
    <3> QED BY <3>1, <3>2
  <2> QED BY <1>2, <2>3 DEF SweepList
<1>3. ASSUME NEW p \in Providers, SweepListFails(s, p) PROVE TypeOK'
  <2> DEFINE v == [view[s] EXCEPT !.planes = @ \ {p}]
             o == [out[s] EXCEPT !.unasked = @ \cup {p}]
  <2>1. v \in Views
    BY <1>1, ViewLists
  <2>2. o \in Outcomes
    BY <1>1 DEF Outcomes
  <2>3. view' = [view EXCEPT ![s] = v] /\ out' = [out EXCEPT ![s] = o]
    BY <1>3 DEF SweepListFails
  <2>4. view' \in [Sweepers -> Views] /\ out' \in [Sweepers -> Outcomes]
    BY <2>1, <2>2, <2>3
  <2> QED BY <1>3, <2>4 DEF SweepListFails, Fault
<1>4. ASSUME NEW m \in Machines, SweepFoundLive(s, m) PROVE TypeOK'
  <2>1. view' \in [Sweepers -> Views]
    BY <1>4, SettledTyped DEF SweepFoundLive
  <2> QED BY <1>4, <2>1 DEF SweepFoundLive
<1>5. ASSUME NEW m \in Machines, SweepFoundUnknown(s, m) PROVE TypeOK'
  <2> DEFINE v == [view[s] EXCEPT !.found = @ \ {m}]
             o == [out[s] EXCEPT !.unknown = @ \cup {m}]
  <2>1. v \in Views
    BY <1>1, ViewFinds
  <2>2. o \in Outcomes
    BY <1>1, OutcomeAdds
  <2>3. view' = [view EXCEPT ![s] = v] /\ out' = [out EXCEPT ![s] = o]
    BY <1>5 DEF SweepFoundUnknown, LeftToRecord
  <2>4. view' \in [Sweepers -> Views] /\ out' \in [Sweepers -> Outcomes]
    BY <2>1, <2>2, <2>3
  <2> QED BY <1>5, <2>4 DEF SweepFoundUnknown
<1>6. ASSUME NEW m \in Machines, SweepFoundExpired(s, m) PROVE TypeOK'
  <2>1. view' \in [Sweepers -> Views]
    BY <1>6, SettledTyped DEF SweepFoundExpired
  <2>2. PICK verdict \in Gate(m) : Settle(s, m, verdict, out[s].expired + 1)
    BY <1>6 DEF SweepFoundExpired
  <2>3. out[s].expired + 1 \in Nat
    BY <1>1 DEF Outcomes
  <2>4. SettleTyped(s)
    BY <2>2, <2>3, SettleTypeOK
  <2> QED BY <1>6, <2>1, <2>4 DEF SweepFoundExpired, SettleTyped
<1> QED
  BY <1>2, <1>3, <1>4, <1>5, <1>6 DEF SweepPlatformHalf

LEMMA RecordHalfTypeOK ==
  ASSUME TypeOK, NEW s \in Sweepers, SweepRecordHalf(s)
  PROVE  TypeOK'
<1> USE FleetAssumption DEF TypeOK, platformVars, sweepVars, Times, States
<1>1. view[s] \in Views /\ run[s] \in Runs /\ out[s] \in Outcomes
  OBVIOUS
<1>2. PICK r \in view[s].left : \/ SweepRowHandled(s, r) \/ SweepRowGone(s, r)
                                \/ SweepRowLive(s, r) \/ SweepRowExpired(s, r)
  BY DEF SweepRecordHalf
<1>3. r.id \in Machines
  BY <1>1 DEF Views, Rows
<1>4. Rest(s, r)
  BY <1>2 DEF SweepRowHandled, SweepRowGone, SweepRowLive, SweepRowExpired
<1>5. view' \in [Sweepers -> Views]
  BY <1>1, <1>4 DEF Rest, Views
<1>6. CASE SweepRowHandled(s, r)
  BY <1>5, <1>6 DEF SweepRowHandled
<1>7. CASE SweepRowGone(s, r)
  BY <1>3, <1>5, <1>7 DEF SweepRowGone, Correct
<1>8. CASE SweepRowLive(s, r)
  BY <1>5, <1>8 DEF SweepRowLive
<1>9. CASE SweepRowExpired(s, r)
  <2>1. PICK verdict \in Gate(r.id) :
          Settle(s, r.id, verdict,
                 out[s].expired + (IF verdict = "unreadable" THEN 0 ELSE 1))
    BY <1>9 DEF SweepRowExpired
  <2>2. out[s].expired + (IF verdict = "unreadable" THEN 0 ELSE 1) \in Nat
    BY <1>1 DEF Outcomes
  <2>3. SettleTyped(s)
    BY <1>3, <2>1, <2>2, SettleTypeOK
  <2> QED BY <1>5, <1>9, <2>3 DEF SweepRowExpired, SettleTyped
<1> QED
  BY <1>2, <1>6, <1>7, <1>8, <1>9

LEMMA EffectsTypeOK ==
  ASSUME TypeOK, NEW s \in Sweepers, SweepEffects(s)
  PROVE  TypeOK'
<1> USE FleetAssumption DEF TypeOK, platformVars, sweepVars, Times, States
<1>1. view[s] \in Views /\ run[s] \in Runs /\ out[s] \in Outcomes
  OBVIOUS
<1>2. CASE SweepCall(s)
  <2>1. out' \in [Sweepers -> Outcomes]
    <3> DEFINE o == [out[s] EXCEPT !.released = @ \cup {target[s]}]
    <3>1. o \in Outcomes
      BY <1>1, OutcomeAdds
    <3>2. out' = [out EXCEPT ![s] = o]
      BY <1>2 DEF SweepCall
    <3> QED BY <3>1, <3>2
  <2> QED BY <1>2, <2>1 DEF SweepCall
<1>3. CASE SweepCallMissing(s)
  <2>1. out' \in [Sweepers -> Outcomes]
    BY <1>3, FailedTyped DEF SweepCallMissing
  <2> QED BY <1>3, <2>1 DEF SweepCallMissing
<1>4. CASE SweepCallFails(s)
  <2>1. out' \in [Sweepers -> Outcomes]
    BY <1>4, FailedTyped DEF SweepCallFails
  <2>2. state' = state \/ state' = [state EXCEPT ![target[s]] = "swept"]
    BY <1>4 DEF SweepCallFails
  <2>3. state' \in [Machines -> States]
    BY <2>2
  <2>4. pc' \in [Sweepers -> {"idle", "work", "call", "retire", "done"}]
    BY <1>4 DEF SweepCallFails
  <2> QED BY <1>4, <2>1, <2>3, <2>4 DEF SweepCallFails, Fault
<1>5. CASE SweepRetire(s)
  <2>1. Corrected(SnapshotRows(s)) \in SUBSET Rows
    BY <1>1, CorrectedTyped DEF SnapshotRows, Runs
  <2> QED BY <1>5, <2>1 DEF SweepRetire
<1>6. CASE SweepRetireFails(s)
  BY <1>6 DEF SweepRetireFails, Fault
<1> QED BY <1>2, <1>3, <1>4, <1>5, <1>6 DEF SweepEffects

LEMMA SweepTypeOK ==
  ASSUME TypeOK, NEW s \in Sweepers, Sweep(s) \/ SweepCrash(s)
  PROVE  TypeOK'
<1> USE FleetAssumption DEF TypeOK, platformVars, Times, States
<1>1. CASE SweepStart(s)
  <2>1. PICK dry \in DryRuns, ask \in Asks :
          /\ run' = [run EXCEPT ![s] = [dry |-> dry, at |-> now,
                                        rows |-> Outstanding]]
          /\ view' = [view EXCEPT ![s] = [NoView EXCEPT !.planes = ask,
                                                        !.left = Outstanding]]
    BY <1>1 DEF SweepStart
  <2>2. Outstanding \in SUBSET Rows
    BY DEF Outstanding
  <2>3. [dry |-> dry, at |-> now, rows |-> Outstanding] \in Runs
    BY <2>2 DEF Runs
  <2>4. [NoView EXCEPT !.planes = ask, !.left = Outstanding] \in Views
    BY <2>2 DEF NoView, Views
  <2>5. NoOutcome \in Outcomes
    BY DEF NoOutcome, Outcomes
  <2>6. /\ run' \in [Sweepers -> Runs]
        /\ view' \in [Sweepers -> Views]
        /\ out' \in [Sweepers -> Outcomes]
    BY <1>1, <2>1, <2>3, <2>4, <2>5 DEF SweepStart
  <2> QED BY <1>1, <2>6 DEF SweepStart
<1>2. CASE SweepPlatformHalf(s)
  BY <1>2, PlatformHalfTypeOK
<1>3. CASE SweepRecordHalf(s)
  BY <1>3, RecordHalfTypeOK
<1>4. CASE SweepEffects(s)
  BY <1>4, EffectsTypeOK
<1>5. CASE SweepFinish(s)
  BY <1>5 DEF SweepFinish
<1>6. CASE SweepCrash(s)
  <2>1. NoRun \in Runs /\ NoView \in Views /\ NoOutcome \in Outcomes
    BY DEF NoRun, NoView, NoOutcome, Runs, Views, Outcomes
  <2>2. /\ run' \in [Sweepers -> Runs]
        /\ view' \in [Sweepers -> Views]
        /\ out' \in [Sweepers -> Outcomes]
    BY <1>6, <2>1 DEF SweepCrash
  <2> QED BY <1>6, <2>2 DEF SweepCrash, Fault
<1> QED BY <1>1, <1>2, <1>3, <1>4, <1>5, <1>6 DEF Sweep

LEMMA StepTypeOK ==
  ASSUME TypeOK, AcquireOrder, [Next]_vars
  PROVE  TypeOK'
<1>1. CASE Tick
  BY <1>1, FleetAssumption DEF Tick, TypeOK, platformVars, sweepVars, Times
<1>2. ASSUME NEW m \in Machines, Acquire(m) \/ Release(m) \/ Around(m)
      PROVE  TypeOK'
  BY <1>2, AcquireTypeOK, ReleaseTypeOK, AroundTypeOK
<1>3. ASSUME NEW s \in Sweepers, Sweep(s) \/ SweepCrash(s)
      PROVE  TypeOK'
  BY <1>3, SweepTypeOK
<1>4. CASE UNCHANGED vars
  BY <1>4 DEF vars, TypeOK
<1> QED BY <1>1, <1>2, <1>3, <1>4 DEF Next

(***************************************************************************)
(* Who writes what                                                         *)
(***************************************************************************)

\* The platform's account changes in five ways.
LEMMA StateWriters ==
  ASSUME TypeOK, [Next]_vars
  PROVE  \/ UNCHANGED state
         \/ \E m \in Machines : \/ AcquireCreate(m) \/ AcquireAnonymous(m)
                                \/ ReleaseCall(m) \/ Vanish(m)
         \/ \E s \in Sweepers : SweepCall(s) \/ SweepCallFails(s)
<1> USE DEF platformVars
<1>1. ASSUME NEW m \in Machines, Acquire(m)
      PROVE  AcquireCreate(m) \/ AcquireAnonymous(m) \/ UNCHANGED state
  BY <1>1 DEF Acquire, AcquireAdmit, AcquireRecord, AcquireStops
<1>2. ASSUME NEW m \in Machines, Release(m)
      PROVE  ReleaseCall(m) \/ UNCHANGED state
  BY <1>2 DEF Release, ReleaseGate, ReleaseMissing, ReleaseCorrect, ReleaseStops
<1>3. ASSUME NEW m \in Machines, Around(m)
      PROVE  Vanish(m) \/ UNCHANGED state
  BY <1>3 DEF Around, LedgerAppend
<1>4. ASSUME NEW s \in Sweepers, Sweep(s) \/ SweepCrash(s)
      PROVE  SweepCall(s) \/ SweepCallFails(s) \/ UNCHANGED state
  BY <1>4 DEF Sweep, SweepStart, SweepFinish, SweepCrash, SweepPlatformHalf,
      SweepList, SweepListFails, SweepFoundLive, SweepFoundUnknown,
      SweepFoundExpired, SweepRecordHalf, SweepRowHandled, SweepRowGone,
      SweepRowLive, SweepRowExpired, SweepEffects, SweepCallMissing,
      SweepRetire, SweepRetireFails
<1> QED BY <1>1, <1>2, <1>3, <1>4 DEF Next, Tick, vars

LEMMA LeaseWriters ==
  ASSUME [Next]_vars
  PROVE  UNCHANGED lease \/ \E m \in Machines : AcquireAdmit(m)
<1> USE DEF platformVars
<1>1. ASSUME NEW m \in Machines, Acquire(m) \/ Release(m) \/ Around(m)
      PROVE  AcquireAdmit(m) \/ UNCHANGED lease
  BY <1>1 DEF Acquire, AcquireCreate, AcquireAnonymous, AcquireRecord,
      AcquireStops, Release, ReleaseGate, ReleaseCall, ReleaseMissing,
      ReleaseCorrect, ReleaseStops, Around, LedgerAppend, Vanish
<1>2. ASSUME NEW s \in Sweepers, Sweep(s) \/ SweepCrash(s)
      PROVE  UNCHANGED lease
  BY <1>2 DEF Sweep, SweepStart, SweepFinish, SweepCrash, SweepPlatformHalf,
      SweepList, SweepListFails, SweepFoundLive, SweepFoundUnknown,
      SweepFoundExpired, SweepRecordHalf, SweepRowHandled, SweepRowGone,
      SweepRowLive, SweepRowExpired, SweepEffects, SweepCall, SweepCallMissing,
      SweepCallFails, SweepRetire, SweepRetireFails
<1> QED BY <1>1, <1>2 DEF Next, Tick, vars

LEMMA RecordWriters ==
  ASSUME [Next]_vars
  PROVE  \/ UNCHANGED record
         \/ \E m \in Machines : AcquireRecord(m) \/ ReleaseCorrect(m)
         \/ \E s \in Sweepers : SweepRetire(s)
<1>1. ASSUME NEW m \in Machines, Acquire(m) \/ Release(m) \/ Around(m)
      PROVE  AcquireRecord(m) \/ ReleaseCorrect(m) \/ UNCHANGED record
  BY <1>1, SMTT(60) DEF Acquire, AcquireAdmit, AcquireCreate, AcquireAnonymous,
      AcquireStops, Release, ReleaseGate, ReleaseCall, ReleaseMissing,
      ReleaseStops, Around, LedgerAppend, Vanish
<1>2. ASSUME NEW s \in Sweepers, Sweep(s) \/ SweepCrash(s)
      PROVE  SweepRetire(s) \/ UNCHANGED record
  BY <1>2 DEF Sweep, SweepStart, SweepFinish, SweepCrash, SweepPlatformHalf,
      SweepList, SweepListFails, SweepFoundLive, SweepFoundUnknown,
      SweepFoundExpired, SweepRecordHalf, SweepRowHandled, SweepRowGone,
      SweepRowLive, SweepRowExpired, SweepEffects, SweepCall, SweepCallMissing,
      SweepCallFails, SweepRetireFails
<1> QED BY <1>1, <1>2 DEF Next, Tick, vars

\* Only a sweep writes what a sweep knows.
LEMMA SweepWriters ==
  ASSUME [Next]_vars
  PROVE  UNCHANGED sweepVars \/ \E s \in Sweepers : Sweep(s) \/ SweepCrash(s)
<1>1. ASSUME NEW m \in Machines, Acquire(m) \/ Release(m) \/ Around(m)
      PROVE  UNCHANGED sweepVars
  BY <1>1 DEF Acquire, AcquireAdmit, AcquireCreate, AcquireAnonymous,
      AcquireRecord, AcquireStops, Release, ReleaseGate, ReleaseCall,
      ReleaseMissing, ReleaseCorrect, ReleaseStops, Around, LedgerAppend, Vanish
<1> QED BY <1>1 DEF Next, Tick, vars, sweepVars

LEMMA AcquiringWriters ==
  ASSUME [Next]_vars
  PROVE  UNCHANGED acquiring \/ \E m \in Machines : Acquire(m)
<1>1. ASSUME NEW m \in Machines, Release(m) \/ Around(m)
      PROVE  UNCHANGED acquiring
  BY <1>1 DEF Release, ReleaseGate, ReleaseCall, ReleaseMissing,
      ReleaseCorrect, ReleaseStops, Around, LedgerAppend, Vanish
<1>2. ASSUME NEW s \in Sweepers, Sweep(s) \/ SweepCrash(s)
      PROVE  UNCHANGED acquiring
  BY <1>2 DEF Sweep, SweepStart, SweepFinish, SweepCrash, SweepPlatformHalf,
      SweepList, SweepListFails, SweepFoundLive, SweepFoundUnknown,
      SweepFoundExpired, SweepRecordHalf, SweepRowHandled, SweepRowGone,
      SweepRowLive, SweepRowExpired, SweepEffects, SweepCall, SweepCallMissing,
      SweepCallFails, SweepRetire, SweepRetireFails
<1> QED BY <1>1, <1>2 DEF Next, Tick, vars

LEMMA ReleasingWriters ==
  ASSUME [Next]_vars
  PROVE  UNCHANGED releasing \/ \E m \in Machines : Release(m)
<1>1. ASSUME NEW m \in Machines, Acquire(m) \/ Around(m)
      PROVE  UNCHANGED releasing
  BY <1>1 DEF Acquire, AcquireAdmit, AcquireCreate, AcquireAnonymous,
      AcquireRecord, AcquireStops, Around, LedgerAppend, Vanish
<1>2. ASSUME NEW s \in Sweepers, Sweep(s) \/ SweepCrash(s)
      PROVE  UNCHANGED releasing
  BY <1>2 DEF Sweep, SweepStart, SweepFinish, SweepCrash, SweepPlatformHalf,
      SweepList, SweepListFails, SweepFoundLive, SweepFoundUnknown,
      SweepFoundExpired, SweepRecordHalf, SweepRowHandled, SweepRowGone,
      SweepRowLive, SweepRowExpired, SweepEffects, SweepCall, SweepCallMissing,
      SweepCallFails, SweepRetire, SweepRetireFails
<1> QED BY <1>1, <1>2 DEF Next, Tick, vars

LEMMA NowWriters ==
  ASSUME [Next]_vars
  PROVE  UNCHANGED now \/ Tick
<1>1. ASSUME NEW m \in Machines, Acquire(m) \/ Release(m) \/ Around(m)
      PROVE  UNCHANGED now
  BY <1>1 DEF Acquire, AcquireAdmit, AcquireCreate, AcquireAnonymous,
      AcquireRecord, AcquireStops, Release, ReleaseGate, ReleaseCall,
      ReleaseMissing, ReleaseCorrect, ReleaseStops, Around, LedgerAppend, Vanish
<1>2. ASSUME NEW s \in Sweepers, Sweep(s) \/ SweepCrash(s)
      PROVE  UNCHANGED now
  BY <1>2 DEF Sweep, SweepStart, SweepFinish, SweepCrash, SweepPlatformHalf,
      SweepList, SweepListFails, SweepFoundLive, SweepFoundUnknown,
      SweepFoundExpired, SweepRecordHalf, SweepRowHandled, SweepRowGone,
      SweepRowLive, SweepRowExpired, SweepEffects, SweepCall, SweepCallMissing,
      SweepCallFails, SweepRetire, SweepRetireFails
<1> QED BY <1>1, <1>2 DEF Next, vars

(***************************************************************************)
(* What no step takes back                                                 *)
(***************************************************************************)

\* Time passes, what has ended stays ended, what was bought stays bought, and
\* a lease once agreed to stays what it is.
Kept ==
  /\ now <= now'
  /\ \A m \in Machines :
       /\ Gone(m) => Gone(m)'
       /\ state[m] # "unbought" => state'[m] # "unbought"
       /\ lease[m] # NoLease => lease'[m] = lease[m]

LEMMA StepKeeps ==
  ASSUME TypeOK, AcquireOrder, [Next]_vars
  PROVE  Kept
<1>1. now <= now'
  BY NowWriters DEF Tick, TypeOK, Times
<1>2. ASSUME NEW m \in Machines
      PROVE  /\ Gone(m) => Gone(m)'
             /\ state[m] # "unbought" => state'[m] # "unbought"
  <2>1. CASE UNCHANGED state
    BY <2>1 DEF Gone
  <2>2. ASSUME NEW k \in Machines,
               AcquireCreate(k) \/ AcquireAnonymous(k)
        PROVE  /\ Gone(m) => Gone(m)'
               /\ state[m] # "unbought" => state'[m] # "unbought"
    <3>1. state[k] = "unbought" /\ state' = [state EXCEPT ![k] = "running"]
      BY <2>2 DEF AcquireCreate, AcquireAnonymous, AcquireOrder
    <3> QED BY <3>1 DEF TypeOK, Gone
  <2>3. ASSUME NEW k \in Machines, ReleaseCall(k) \/ Vanish(k)
        PROVE  /\ Gone(m) => Gone(m)'
               /\ state[m] # "unbought" => state'[m] # "unbought"
    <3>1. PICK how \in {"released", "forced", "vanished"} :
            state' = [state EXCEPT ![k] = how]
      BY <2>3 DEF ReleaseCall, Vanish
    <3> QED BY <3>1 DEF TypeOK, Gone
  <2>4. ASSUME NEW s \in Sweepers, SweepCall(s) \/ SweepCallFails(s)
        PROVE  /\ Gone(m) => Gone(m)'
               /\ state[m] # "unbought" => state'[m] # "unbought"
    <3>1. state' = state \/ state' = [state EXCEPT ![target[s]] = "swept"]
      BY <2>4 DEF SweepCall, SweepCallFails
    <3> QED BY <3>1 DEF TypeOK, Gone
  <2> QED BY <2>1, <2>2, <2>3, <2>4, StateWriters
<1>3. ASSUME NEW m \in Machines, lease[m] # NoLease
      PROVE  lease'[m] = lease[m]
  <2>1. CASE UNCHANGED lease
    BY <2>1
  <2>2. ASSUME NEW k \in Machines, AcquireAdmit(k) PROVE lease'[m] = lease[m]
    <3>1. lease[k] = NoLease
      BY <2>2 DEF AcquireAdmit, AcquireOrder
    <3> QED BY <1>3, <2>2, <3>1 DEF AcquireAdmit, TypeOK
  <2> QED BY <2>1, <2>2, LeaseWriters
<1> QED BY <1>1, <1>2, <1>3 DEF Kept

(***************************************************************************)
(* Each part of the invariant is kept                                      *)
(***************************************************************************)

LEMMA OrderStep ==
  ASSUME TypeOK, AcquireOrder, [Next]_vars
  PROVE  AcquireOrder'
<1> USE FleetAssumption DEF TypeOK, AcquireOrder, Stamped
<1>1. ASSUME NEW m \in Machines, Acquire(m) PROVE AcquireOrder'
  <2>1. CASE AcquireAdmit(m)
    <3>1. PICK ttl \in Ttls : lease' = [lease EXCEPT ![m] = now + ttl]
      BY <2>1 DEF AcquireAdmit
    <3>2. now + ttl # NoLease
      BY DEF NoLease, Times
    <3> QED BY <2>1, <3>1, <3>2 DEF AcquireAdmit
  <2>2. CASE AcquireCreate(m)
    BY <2>2 DEF AcquireCreate
  <2>3. CASE AcquireAnonymous(m)
    BY <2>3 DEF AcquireAnonymous
  <2>4. CASE AcquireRecord(m)
    BY <2>4 DEF AcquireRecord, platformVars
  <2>5. CASE AcquireStops(m)
    BY <2>5 DEF AcquireStops, platformVars
  <2> QED BY <1>1, <2>1, <2>2, <2>3, <2>4, <2>5 DEF Acquire
<1>2. CASE UNCHANGED acquiring
  <2>1. ~ \E m \in Machines : \/ AcquireAdmit(m) \/ AcquireCreate(m)
                              \/ AcquireAnonymous(m)
    BY <1>2 DEF AcquireAdmit, AcquireCreate, AcquireAnonymous
  <2>2. UNCHANGED lease
    BY <2>1, LeaseWriters
  <2>3. \A m \in Machines : state[m] = "unbought" => state'[m] = "unbought"
    <3>1. ASSUME NEW k \in Machines, ReleaseCall(k) \/ Vanish(k)
          PROVE  \A m \in Machines : state[m] = "unbought" => state'[m] = "unbought"
      BY <3>1 DEF ReleaseCall, Vanish
    <3>2. ASSUME NEW s \in Sweepers, SweepCall(s) \/ SweepCallFails(s)
          PROVE  \A m \in Machines : state[m] = "unbought" => state'[m] = "unbought"
      <4>1. /\ state[target[s]] = "running"
            /\ state' = state \/ state' = [state EXCEPT ![target[s]] = "swept"]
        BY <3>2 DEF SweepCall, SweepCallFails
      <4> QED BY <4>1
    <3> QED BY <2>1, <3>1, <3>2, StateWriters
  <2>4. \A m \in Machines : state[m] # "unbought" => state'[m] # "unbought"
    BY StepKeeps DEF Kept
  <2> QED BY <1>2, <2>2, <2>3, <2>4
<1> QED BY <1>1, <1>2, AcquiringWriters

LEMMA RecordStep ==
  ASSUME TypeOK, AcquireOrder, RecordTrue, EffectTrue, [Next]_vars
  PROVE  RecordTrue'
<1>1. Kept
  BY StepKeeps
<1>2. ASSUME NEW r \in record
      PROVE  (state[r.id] # "unbought" /\ (~r.released => Describes(r)))'
  <2>1. r.id \in Machines /\ r.expires \in Nat
    BY DEF TypeOK, Rows, Times
  <2> QED BY <1>1, <2>1 DEF RecordTrue, Describes, Kept, NoLease
<1>3. CASE UNCHANGED record
  BY <1>2, <1>3 DEF RecordTrue
<1>4. ASSUME NEW m \in Machines, AcquireRecord(m) PROVE RecordTrue'
  <2>1. /\ state'[m] # "unbought" /\ m \notin Foreign
        /\ lease' = lease
    BY <1>4 DEF AcquireRecord, AcquireOrder, Stamped, platformVars
  <2>2. ASSUME NEW r \in record', r = Row(m, lease[m], FALSE)
        PROVE  (state[r.id] # "unbought" /\ (~r.released => Describes(r)))'
    BY <2>1, <2>2 DEF Describes, Row
  <2>3. ASSUME NEW r \in record'
        PROVE  (state[r.id] # "unbought" /\ (~r.released => Describes(r)))'
    BY <1>2, <1>4, <2>2 DEF AcquireRecord
  <2> QED BY <2>3 DEF RecordTrue
<1>5. ASSUME NEW m \in Machines, NEW rows,
             state[m] # "unbought", record' = record \cup rows,
             \A r \in rows : r.id = m /\ r.released
      PROVE  RecordTrue'
  <2>1. state'[m] # "unbought"
    BY <1>1, <1>5 DEF Kept
  <2> QED BY <1>2, <1>5, <2>1 DEF RecordTrue
<1>6. ASSUME NEW m \in Machines, ReleaseCorrect(m) PROVE RecordTrue'
  <2> DEFINE rows == IF RowsOf(m) = {} THEN {FreshCorrection(m)}
                                       ELSE Corrected(RowsOf(m))
  <2>1. \A r \in rows : r.id = m /\ r.released
    BY DEF RowsOf, FreshCorrection, Corrected, Row, TypeOK, Rows
  <2>2. state[m] # "unbought" /\ record' = record \cup rows
    BY <1>6 DEF ReleaseCorrect, EffectTrue, Gone
  <2> QED BY <1>5, <2>1, <2>2
<1>7. ASSUME NEW s \in Sweepers, SweepRetire(s) PROVE RecordTrue'
  <2>1. \A r \in Corrected(SnapshotRows(s)) : r.id = target[s] /\ r.released
    BY DEF SnapshotRows, Corrected, TypeOK, Runs, Rows
  <2>2. /\ target[s] \in Machines /\ state[target[s]] # "unbought"
        /\ record' = record \cup Corrected(SnapshotRows(s))
    BY <1>7 DEF SweepRetire, EffectTrue, Ended, TypeOK
  <2> QED BY <1>5, <2>1, <2>2
<1> QED BY <1>3, <1>4, <1>6, <1>7, RecordWriters

\* A step of a sweep that neither starts it, ends it badly nor takes a listing
\* leaves its snapshot and its listings alone, and only uses up its work.
LEMMA SweepUsesUp ==
  ASSUME TypeOK, NEW s \in Sweepers, Sweep(s), ~SweepStart(s),
         \A p \in Providers : ~SweepList(s, p)
  PROVE  /\ run' = run
         /\ \A t \in Sweepers : /\ view'[t].listed = view[t].listed
                                /\ view'[t].present = view[t].present
                                /\ view'[t].found \subseteq view[t].found
                                /\ view'[t].left \subseteq view[t].left
<1> DEFINE Goal == /\ run' = run
                   /\ \A t \in Sweepers :
                        /\ view'[t].listed = view[t].listed
                        /\ view'[t].present = view[t].present
                        /\ view'[t].found \subseteq view[t].found
                        /\ view'[t].left \subseteq view[t].left
<1>0. view \in [Sweepers -> Views]
  BY DEF TypeOK
<1>1. ASSUME run' = run,
             \/ UNCHANGED view
             \/ \E p \in Providers : view' = [view EXCEPT ![s].planes = @ \ {p}]
             \/ \E m \in Machines : Settled(s, m) \/ LeftToRecord(s, m)
             \/ \E r \in view[s].left : view' = [view EXCEPT ![s].left = @ \ {r}]
      PROVE  Goal
  <2>1. CASE UNCHANGED view
    BY <1>1, <2>1
  <2>2. ASSUME NEW p \in Providers, view' = [view EXCEPT ![s].planes = @ \ {p}]
        PROVE  Goal
    BY <1>0, <1>1, <2>2 DEF Views
  <2>3. ASSUME NEW m \in Machines, Settled(s, m) PROVE Goal
    <3> DEFINE v == [view[s] EXCEPT !.found = @ \ {m}, !.handled = @ \cup {m}]
    <3>1. view' = [view EXCEPT ![s] = v]
      BY <2>3 DEF Settled
    <3>2. /\ v.listed = view[s].listed /\ v.present = view[s].present
          /\ v.found \subseteq view[s].found /\ v.left = view[s].left
      BY <1>0 DEF Views
    <3> QED BY <1>0, <1>1, <3>1, <3>2
  <2>4. ASSUME NEW m \in Machines, LeftToRecord(s, m) PROVE Goal
    BY <1>0, <1>1, <2>4 DEF Views, LeftToRecord
  <2>5. ASSUME NEW r \in view[s].left, view' = [view EXCEPT ![s].left = @ \ {r}]
        PROVE  Goal
    BY <1>0, <1>1, <2>5 DEF Views
  <2> QED BY <1>1, <2>1, <2>2, <2>3, <2>4, <2>5
<1>2. CASE SweepPlatformHalf(s)
  <2>1. ASSUME NEW p \in Providers, SweepListFails(s, p) PROVE Goal
    BY <1>1, <2>1 DEF SweepListFails
  <2>2. ASSUME NEW m \in Machines, \/ SweepFoundLive(s, m)
                                   \/ SweepFoundUnknown(s, m)
                                   \/ SweepFoundExpired(s, m)
        PROVE  Goal
    BY <1>1, <2>2 DEF SweepFoundLive, SweepFoundUnknown, SweepFoundExpired
  <2> QED BY <1>2, <2>1, <2>2 DEF SweepPlatformHalf
<1>3. CASE SweepRecordHalf(s)
  BY <1>1, <1>3 DEF SweepRecordHalf, SweepRowHandled, SweepRowGone,
      SweepRowLive, SweepRowExpired, Rest
<1>4. CASE SweepEffects(s)
  BY <1>1, <1>4 DEF SweepEffects, SweepCall, SweepCallMissing, SweepCallFails,
      SweepRetire, SweepRetireFails
<1>5. CASE SweepFinish(s)
  BY <1>1, <1>5 DEF SweepFinish
<1> QED BY <1>2, <1>3, <1>4, <1>5 DEF Sweep

LEMMA OutstandingDescribed ==
  ASSUME RecordTrue, NEW r \in Outstanding
  PROVE  Describes(r)
BY DEF RecordTrue, Outstanding, Retired

LEMMA SnapshotStep ==
  ASSUME TypeOK, AcquireOrder, RecordTrue, SnapshotTrue, [Next]_vars
  PROVE  SnapshotTrue'
<1>1. Kept /\ TypeOK'
  BY StepKeeps, StepTypeOK
<1>2. ASSUME NEW r \in Rows, Describes(r) PROVE Describes(r)'
  BY <1>1, <1>2 DEF Describes, Kept, Rows, Times, NoLease
<1>3. ASSUME NEW t \in Sweepers, run'[t] = run[t],
             view'[t].left \subseteq view[t].left
      PROVE  /\ run'[t].at <= now'
             /\ view'[t].left \subseteq run'[t].rows
             /\ \A r \in run'[t].rows : Describes(r)'
  <2>1. run[t].at <= now /\ run[t].at \in Nat /\ now \in Nat /\ now' \in Nat
    BY <1>1 DEF SnapshotTrue, TypeOK, Runs, Times
  <2>2. run[t].rows \subseteq Rows
    BY DEF TypeOK, Runs
  <2> QED BY <1>1, <1>2, <1>3, <2>1, <2>2 DEF SnapshotTrue, Kept
<1>4. CASE UNCHANGED sweepVars
  BY <1>3, <1>4 DEF sweepVars, SnapshotTrue
<1>5. ASSUME NEW s \in Sweepers, SweepStart(s) PROVE SnapshotTrue'
  <2>1. /\ run'[s].at = now /\ run'[s].rows = Outstanding
        /\ view'[s].left = Outstanding /\ now' = now
    BY <1>5 DEF SweepStart, TypeOK, NoView
  <2>2. \A r \in Outstanding : Describes(r)'
    BY <1>2, OutstandingDescribed DEF Outstanding, TypeOK
  <2>3. now \in Nat
    BY DEF TypeOK, Times
  <2>4. \A t \in Sweepers \ {s} : run'[t] = run[t] /\ view'[t] = view[t]
    BY <1>5 DEF SweepStart, TypeOK
  <2> QED BY <1>3, <2>1, <2>2, <2>3, <2>4 DEF SnapshotTrue
<1>6. ASSUME NEW s \in Sweepers, SweepCrash(s) PROVE SnapshotTrue'
  <2>1. /\ run'[s].at = 0 /\ run'[s].rows = {}
        /\ view'[s].left = {}
    BY <1>6 DEF SweepCrash, TypeOK, NoView, NoRun
  <2>2. now' \in Nat
    BY <1>1 DEF TypeOK, Times
  <2>3. \A t \in Sweepers \ {s} : run'[t] = run[t] /\ view'[t] = view[t]
    BY <1>6 DEF SweepCrash, TypeOK
  <2> QED BY <1>3, <2>1, <2>2, <2>3 DEF SnapshotTrue
<1>7. ASSUME NEW s \in Sweepers, NEW p \in Providers, SweepList(s, p)
      PROVE  SnapshotTrue'
  <2>1. run' = run /\ \A t \in Sweepers : view'[t].left = view[t].left
    BY <1>7 DEF SweepList, TypeOK, Views
  <2> QED BY <1>3, <2>1 DEF SnapshotTrue
<1>8. ASSUME NEW s \in Sweepers, Sweep(s), ~SweepStart(s),
             \A p \in Providers : ~SweepList(s, p)
      PROVE  SnapshotTrue'
  BY <1>3, <1>8, SweepUsesUp DEF SnapshotTrue
<1> QED BY <1>4, <1>5, <1>6, <1>7, <1>8, SweepWriters

LEMMA SweepResets ==
  ASSUME TypeOK, NEW s \in Sweepers, SweepStart(s) \/ SweepCrash(s)
  PROVE  /\ view'[s].found = {} /\ view'[s].listed = {}
         /\ \A t \in Sweepers \ {s} : view'[t] = view[t] /\ run'[t] = run[t]
<1>1. CASE SweepStart(s)
  <2>1. PICK ask \in Asks :
          view' = [view EXCEPT ![s] = [NoView EXCEPT !.planes = ask,
                                                     !.left = Outstanding]]
    BY <1>1 DEF SweepStart
  <2>2. view'[s] = [NoView EXCEPT !.planes = ask, !.left = Outstanding]
    BY <2>1 DEF TypeOK
  <2>3. \A t \in Sweepers \ {s} : view'[t] = view[t] /\ run'[t] = run[t]
    BY <1>1, <2>1 DEF SweepStart, TypeOK
  <2> QED BY <2>2, <2>3 DEF NoView
<1>2. CASE SweepCrash(s)
  BY <1>2 DEF SweepCrash, NoView, TypeOK
<1> QED BY <1>1, <1>2

LEMMA FoundStep ==
  ASSUME TypeOK, AcquireOrder, FoundBought, [Next]_vars
  PROVE  FoundBought'
<1>1. Kept
  BY StepKeeps
<1>2. ASSUME NEW t \in Sweepers, view'[t].found \subseteq view[t].found
      PROVE  \A m \in view'[t].found : state'[m] # "unbought"
  BY <1>1, <1>2 DEF FoundBought, Kept, TypeOK, Views
<1>3. CASE UNCHANGED sweepVars
  BY <1>2, <1>3 DEF sweepVars, FoundBought
<1>4. ASSUME NEW s \in Sweepers, SweepStart(s) \/ SweepCrash(s)
      PROVE  FoundBought'
  <2>1. view'[s].found = {} /\ \A t \in Sweepers \ {s} : view'[t] = view[t]
    BY <1>4, SweepResets
  <2> QED BY <1>2, <2>1 DEF FoundBought
<1>5. ASSUME NEW s \in Sweepers, NEW p \in Providers, SweepList(s, p)
      PROVE  FoundBought'
  <2>1. /\ view'[s].found \subseteq RunningOn(p) /\ state' = state
        /\ \A t \in Sweepers \ {s} : view'[t] = view[t]
    <3>1. PICK seen \in Readings(p) :
            view' = [view EXCEPT ![s].planes = @ \ {p}, ![s].found = seen,
                       ![s].listed = @ \cup {p}, ![s].present = @ \cup seen]
      BY <1>5 DEF SweepList
    <3>2. seen \subseteq RunningOn(p)
      BY DEF Readings
    <3> QED BY <1>5, <3>1, <3>2 DEF SweepList, platformVars, TypeOK, Views
  <2> QED BY <1>2, <2>1 DEF FoundBought, RunningOn
<1>6. ASSUME NEW s \in Sweepers, Sweep(s), ~SweepStart(s),
             \A p \in Providers : ~SweepList(s, p)
      PROVE  FoundBought'
  BY <1>2, <1>6, SweepUsesUp DEF FoundBought
<1> QED BY <1>3, <1>4, <1>5, <1>6, SweepWriters

\* The listing a sweep takes is complete when no row of it is unreadable.
LEMMA AbsenceStep ==
  ASSUME TypeOK, AcquireOrder, SnapshotTrue, AbsenceTrue,
         [Next]_vars
  PROVE  AbsenceTrue'
<1>1. Kept
  BY StepKeeps
<1>2. ASSUME NEW t \in Sweepers, run'[t] = run[t],
             view'[t].listed = view[t].listed, view'[t].present = view[t].present
      PROVE  \A r \in run'[t].rows :
               ProviderOf[r.id] \in view'[t].listed /\ r.id \notin view'[t].present
                 => Ended(r.id)'
  BY <1>1, <1>2 DEF AbsenceTrue, Ended, Kept, TypeOK, Runs, Rows
<1>3. CASE UNCHANGED sweepVars
  BY <1>2, <1>3 DEF sweepVars, AbsenceTrue
<1>4. ASSUME NEW s \in Sweepers, SweepStart(s) \/ SweepCrash(s)
      PROVE  AbsenceTrue'
  <2>1. /\ view'[s].listed = {}
        /\ \A t \in Sweepers \ {s} : view'[t] = view[t] /\ run'[t] = run[t]
    BY <1>4, SweepResets
  <2> QED BY <1>2, <2>1 DEF AbsenceTrue
<1>5. ASSUME NEW s \in Sweepers, NEW p \in Providers, SweepList(s, p)
      PROVE  AbsenceTrue'
  <2>1. /\ view'[s].listed = view[s].listed \cup {p}
        /\ view[s].present \subseteq view'[s].present
        /\ ~UnreadableRows => RunningOn(p) \subseteq view'[s].present
        /\ \A t \in Sweepers \ {s} : view'[t] = view[t]
    BY <1>5 DEF SweepList, Readings, TypeOK, Views
  <2>2. run' = run /\ state' = state
    BY <1>5 DEF SweepList, platformVars
  <2>3. ASSUME NEW r \in run[s].rows, ProviderOf[r.id] \in view'[s].listed,
               r.id \notin view'[s].present
        PROVE  Ended(r.id)'
    <3>1. CASE ProviderOf[r.id] \in view[s].listed
      BY <2>1, <2>2, <2>3, <3>1 DEF AbsenceTrue, Ended, Gone
    <3>2. CASE ProviderOf[r.id] = p
      <4>1. r.id \in Machines /\ state[r.id] # "unbought"
        BY DEF SnapshotTrue, Describes, TypeOK, Runs, Rows
      <4>2. ~UnreadableRows => state[r.id] # "running"
        BY <2>1, <2>3, <3>2, <4>1 DEF RunningOn
      <4> QED BY <2>2, <4>1, <4>2 DEF TypeOK, States, Ended, Gone
    <3> QED BY <2>1, <2>3, <3>1, <3>2
  <2> QED BY <1>2, <2>1, <2>2, <2>3 DEF AbsenceTrue
<1>6. ASSUME NEW s \in Sweepers, Sweep(s), ~SweepStart(s),
             \A p \in Providers : ~SweepList(s, p)
      PROVE  AbsenceTrue'
  BY <1>2, <1>6, SweepUsesUp DEF AbsenceTrue
<1> QED BY <1>3, <1>4, <1>5, <1>6, SweepWriters

LEMMA RetiredStep ==
  ASSUME TypeOK, AcquireOrder, EffectTrue, RetiredTrue, [Next]_vars
  PROVE  RetiredTrue'
<1>1. Kept
  BY StepKeeps
<1>2. \A m \in Retired : m \in Machines /\ Ended(m)'
  BY <1>1 DEF RetiredTrue, Ended, Retired, Kept, TypeOK, Rows
<1>3. CASE UNCHANGED record
  BY <1>2, <1>3 DEF RetiredTrue, Retired
<1>4. ASSUME NEW m \in Machines, AcquireRecord(m) PROVE RetiredTrue'
  <2>1. Retired' = Retired
    BY <1>4 DEF AcquireRecord, Retired, Row
  <2> QED BY <1>2, <2>1 DEF RetiredTrue
<1>5. ASSUME NEW m \in Machines, Ended(m), Retired' \subseteq Retired \cup {m}
      PROVE  RetiredTrue'
  BY <1>1, <1>2, <1>5 DEF RetiredTrue, Ended, Kept
<1>6. ASSUME NEW m \in Machines, ReleaseCorrect(m) PROVE RetiredTrue'
  <2>1. Ended(m)
    BY <1>6 DEF ReleaseCorrect, EffectTrue, Ended, Gone
  <2>2. Retired' \subseteq Retired \cup {m}
    BY <1>6 DEF ReleaseCorrect, Retired, FreshCorrection, Row, Corrected,
        RowsOf, TypeOK, Rows
  <2> QED BY <1>5, <2>1, <2>2
<1>7. ASSUME NEW s \in Sweepers, SweepRetire(s) PROVE RetiredTrue'
  <2>1. target[s] \in Machines /\ Ended(target[s])
    BY <1>7 DEF SweepRetire, EffectTrue, TypeOK
  <2>2. Retired' \subseteq Retired \cup {target[s]}
    BY <1>7 DEF SweepRetire, Retired, SnapshotRows, Corrected, TypeOK, Runs, Rows
  <2> QED BY <1>5, <2>1, <2>2
<1> QED BY <1>3, <1>4, <1>6, <1>7, RecordWriters

LEMMA EarlyStep ==
  ASSUME TypeOK, AcquireOrder, SnapshotTrue, EffectTrue, NeverSweptEarly,
         [Next]_vars
  PROVE  NeverSweptEarly'
<1>1. Kept /\ TypeOK'
  BY StepKeeps, StepTypeOK
<1>2. now \in Nat /\ now' \in Nat /\ Second \in Nat /\ now <= now'
  BY <1>1, FleetAssumption DEF TypeOK, Times, Kept
<1>3. ASSUME NEW m \in Machines, state'[m] = "swept"
      PROVE  m \notin Foreign /\ lease'[m] # NoLease /\ lease'[m] < now' + Second
  <2>1. lease[m] \in Nat \cup {NoLease}
    BY DEF TypeOK, Times
  <2>2. CASE state[m] = "swept"
    BY <1>1, <1>2, <2>1, <2>2 DEF NeverSweptEarly, Kept, NoLease
  <2>3. ASSUME NEW s \in Sweepers, pc[s] = "call", target[s] = m
        PROVE  m \notin Foreign /\ lease'[m] # NoLease /\ lease'[m] < now' + Second
    <3>1. LeaseOver(m, run[s].at) /\ run[s].at <= now /\ run[s].at \in Nat
      BY <2>3 DEF EffectTrue, SnapshotTrue, TypeOK, Runs, Times
    <3> QED BY <1>1, <1>2, <2>1, <3>1 DEF LeaseOver, Kept, NoLease
  <2>4. CASE state[m] # "swept"
    <3>1. PICK s \in Sweepers : SweepCall(s) \/ SweepCallFails(s)
      BY <1>3, <2>4, StateWriters DEF AcquireCreate, AcquireAnonymous,
         ReleaseCall, Vanish, TypeOK
    <3>2. pc[s] = "call" /\ target[s] = m
      BY <1>3, <2>4, <3>1 DEF SweepCall, SweepCallFails, TypeOK
    <3> QED BY <2>3, <3>2
  <2> QED BY <2>2, <2>4
<1> QED BY <1>3 DEF NeverSweptEarly

\* The second the stamp loses is the second NeverSweptEarly allows.
LEMMA StampLoss ==
  ASSUME NEW t \in Nat, NEW at \in Nat, StampOf(t) <= at
  PROVE  t < at + Second
<1>1. t % Second \in 0 .. (Second - 1)
  BY FleetAssumption
<1> QED BY <1>1, FleetAssumption DEF StampOf

\* What a sweep does says nothing of the other sweeps.
LEMMA SweepAlone ==
  ASSUME TypeOK, NEW s \in Sweepers, Sweep(s) \/ SweepCrash(s),
         NEW t \in Sweepers \ {s}
  PROVE  pc'[t] = pc[t] /\ target'[t] = target[t] /\ run'[t] = run[t]
<1> USE DEF TypeOK
<1>1. CASE SweepStart(s) \/ SweepFinish(s) \/ SweepCrash(s)
  BY <1>1, ZenonT(60) DEF SweepStart, SweepFinish, SweepCrash
<1>2. CASE SweepPlatformHalf(s)
  BY <1>2, ZenonT(60) DEF SweepPlatformHalf, SweepList, SweepListFails, SweepFoundLive,
      SweepFoundUnknown, SweepFoundExpired, Settle
<1>3. CASE SweepRecordHalf(s)
  BY <1>3 DEF SweepRecordHalf, SweepRowHandled, SweepRowGone, SweepRowLive,
      SweepRowExpired, Settle, Correct
<1>4. CASE SweepEffects(s)
  BY <1>4 DEF SweepEffects, SweepCall, SweepCallMissing, SweepCallFails,
      SweepRetire, SweepRetireFails
<1> QED BY <1>1, <1>2, <1>3, <1>4 DEF Sweep

\* The platform half names a machine for release only when the stamp it reads
\* has run out.
LEMMA PlatformHalfEffect ==
  ASSUME TypeOK, AcquireOrder, FoundBought, NEW s \in Sweepers,
         SweepPlatformHalf(s)
  PROVE  /\ run' = run
         /\ \/ pc'[s] = pc[s] /\ target'[s] = target[s]
            \/ pc'[s] = "call" /\ LeaseOver(target'[s], run[s].at)
<1> USE DEF TypeOK
<1>1. ASSUME NEW m \in Machines, SweepFoundExpired(s, m)
      PROVE  LeaseOver(m, run[s].at)
  <2>1. m \notin Foreign /\ lease[m] # NoLease
    BY <1>1 DEF SweepFoundExpired, FoundBought, AcquireOrder, Stamped
  <2>2. lease[m] \in Nat /\ run[s].at \in Nat
    BY <2>1 DEF Runs, Times
  <2> QED BY <1>1, <2>1, <2>2, StampLoss DEF SweepFoundExpired, LeaseOver
<1>2. ASSUME NEW m \in Machines, SweepFoundExpired(s, m)
      PROVE  /\ run' = run
             /\ \/ UNCHANGED <<pc, target>>
                \/ pc'[s] = "call" /\ target'[s] = m
  BY <1>2 DEF SweepFoundExpired, Settle
<1>3. CASE \A m \in Machines : ~SweepFoundExpired(s, m)
  BY <1>3 DEF SweepPlatformHalf, SweepList, SweepListFails, SweepFoundLive,
      SweepFoundUnknown
<1> QED BY <1>1, <1>2, <1>3

\* The record half names one for release only past its recorded lease, and
\* corrects a row by absence only when the machine has ended.
LEMMA RecordHalfEffect ==
  ASSUME TypeOK, SnapshotTrue, AbsenceTrue, NEW s \in Sweepers,
         SweepRecordHalf(s)
  PROVE  /\ run' = run
         /\ \/ pc'[s] = pc[s] /\ target'[s] = target[s]
            \/ pc'[s] = "call" /\ LeaseOver(target'[s], run[s].at)
            \/ pc'[s] = "retire" /\ Ended(target'[s])
<1> USE DEF TypeOK
<1>1. PICK r \in view[s].left : \/ SweepRowHandled(s, r) \/ SweepRowGone(s, r)
                                \/ SweepRowLive(s, r) \/ SweepRowExpired(s, r)
  BY DEF SweepRecordHalf
<1>2. r \in run[s].rows /\ Describes(r)
  BY DEF SnapshotTrue
<1>3. r.id \in Machines /\ r.expires \in Nat /\ run[s].at \in Nat
  BY <1>2 DEF Runs, Rows, Times
<1>4. CASE SweepRowHandled(s, r) \/ SweepRowLive(s, r)
  BY <1>4 DEF SweepRowHandled, SweepRowLive
<1>5. CASE SweepRowGone(s, r)
  <2>1. Ended(r.id)
    BY <1>2, <1>5 DEF SweepRowGone, Absent, AbsenceTrue
  <2> QED BY <1>3, <1>5, <2>1 DEF SweepRowGone, Correct
<1>6. CASE SweepRowExpired(s, r)
  <2>1. LeaseOver(r.id, run[s].at)
    BY <1>2, <1>3, <1>6, FleetAssumption
    DEF SweepRowExpired, LeaseOver, Describes, NoLease
  <2>2. /\ run' = run
        /\ \/ UNCHANGED <<pc, target>>
           \/ pc'[s] = "call" /\ target'[s] = r.id
    BY <1>3, <1>6 DEF SweepRowExpired, Settle
  <2> QED BY <2>1, <2>2
<1> QED BY <1>1, <1>4, <1>5, <1>6

\* A machine is handed to the release call only past its lease, and its row to
\* the record only once it has ended.
LEMMA EffectStep ==
  ASSUME TypeOK, AcquireOrder, SnapshotTrue, FoundBought, AbsenceTrue,
         EffectTrue, [Next]_vars
  PROVE  EffectTrue'
<1>1. Kept
  BY StepKeeps
<1> DEFINE Call(t) == pc[t] = "call" => LeaseOver(target[t], run[t].at)
           Retire(t) == pc[t] = "retire" => Ended(target[t])
           Correcting(m) == releasing[m] = "correcting" => Gone(m)
<1>2. ASSUME NEW t \in Sweepers, pc'[t] = pc[t], target'[t] = target[t],
             run'[t] = run[t]
      PROVE  (Call(t) /\ Retire(t))'
  <2>1. target[t] \in Machines
    BY DEF TypeOK
  <2>2. ASSUME LeaseOver(target[t], run[t].at)
        PROVE  LeaseOver(target[t], run[t].at)'
    BY <1>1, <1>2, <2>1, <2>2 DEF LeaseOver, Kept
  <2> QED BY <1>1, <1>2, <2>1, <2>2 DEF EffectTrue, Ended, Kept
<1>3. \A t \in Sweepers : (Call(t) /\ Retire(t))'
  <2>1. CASE UNCHANGED sweepVars
    BY <1>2, <2>1 DEF sweepVars
  <2>2. ASSUME NEW s \in Sweepers, Sweep(s) \/ SweepCrash(s)
        PROVE  \A t \in Sweepers : (Call(t) /\ Retire(t))'
    <3>1. \A t \in Sweepers \ {s} : /\ pc'[t] = pc[t] /\ target'[t] = target[t]
                                    /\ run'[t] = run[t]
      BY <2>2, SweepAlone
    <3>2. ASSUME SweepStart(s) \/ SweepFinish(s) \/ SweepCrash(s)
          PROVE  (Call(s) /\ Retire(s))'
      <4>1. pc'[s] \in {"idle", "work", "done"}
        BY <3>2 DEF SweepStart, SweepFinish, SweepCrash, TypeOK
      <4> QED BY <4>1
    <3>3. ASSUME \/ pc'[s] = pc[s] /\ target'[s] = target[s]
                 \/ pc'[s] = "call" /\ LeaseOver(target'[s], run[s].at)
                 \/ pc'[s] = "retire" /\ Ended(target'[s]),
                 run' = run
          PROVE  (Call(s) /\ Retire(s))'
      <4>1. target[s] \in Machines /\ target'[s] \in Machines
        BY StepTypeOK DEF TypeOK
      <4> QED BY <1>1, <1>2, <3>3, <4>1 DEF LeaseOver, Ended, Kept
    <3>4. ASSUME SweepPlatformHalf(s) PROVE (Call(s) /\ Retire(s))'
      BY <3>3, <3>4, PlatformHalfEffect
    <3>5. ASSUME SweepRecordHalf(s) PROVE (Call(s) /\ Retire(s))'
      BY <3>3, <3>5, RecordHalfEffect
    <3>6. ASSUME SweepEffects(s) PROVE (Call(s) /\ Retire(s))'
      <4>1. CASE SweepCall(s)
        <5>1. /\ pc'[s] \in {"work", "retire"} /\ target'[s] = target[s]
              /\ state'[target[s]] = "swept"
          BY <4>1 DEF SweepCall, TypeOK
        <5> QED BY <5>1 DEF Ended, Gone
      <4>2. CASE ~SweepCall(s)
        <5>1. pc'[s] = "work"
          BY <3>6, <4>2 DEF SweepEffects, SweepCallMissing, SweepCallFails,
             SweepRetire, SweepRetireFails, TypeOK
        <5> QED BY <5>1
      <4> QED BY <4>1, <4>2
    <3>7. (Call(s) /\ Retire(s))'
      BY <2>2, <3>2, <3>4, <3>5, <3>6 DEF Sweep
    <3> QED BY <1>2, <3>1, <3>7
  <2> QED BY <2>1, <2>2, SweepWriters
<1>4. \A m \in Machines : Correcting(m)'
  <2>1. ASSUME NEW m \in Machines, releasing'[m] = releasing[m]
        PROVE  Correcting(m)'
    BY <1>1, <2>1 DEF EffectTrue, Kept
  <2>2. ASSUME NEW k \in Machines, Release(k)
        PROVE  \A m \in Machines : Correcting(m)'
    <3>1. CASE ReleaseCall(k)
      BY <2>1, <3>1 DEF ReleaseCall, TypeOK, Gone
    <3>2. CASE ReleaseGate(k)
      BY <2>1, <3>2 DEF ReleaseGate, TypeOK
    <3>3. CASE ReleaseMissing(k) \/ ReleaseCorrect(k) \/ ReleaseStops(k)
      BY <2>1, <3>3 DEF ReleaseMissing, ReleaseCorrect, ReleaseStops, TypeOK
    <3> QED BY <2>2, <3>1, <3>2, <3>3 DEF Release
  <2> QED BY <2>1, <2>2, ReleasingWriters
<1> QED BY <1>3, <1>4 DEF EffectTrue

LEMMA IInvStep ==
  ASSUME IInv, [Next]_vars
  PROVE  IInv'
BY StepTypeOK, OrderStep, RecordStep, SnapshotStep, FoundStep, AbsenceStep,
   EffectStep, RetiredStep, EarlyStep DEF IInv

(***************************************************************************)
(* The theorems                                                            *)
(***************************************************************************)

\* The strengthened invariant holds of every reachable state.
THEOREM Inductive == Spec => []IInv
<1>1. Init => IInv
  BY InitIInv
<1>2. IInv /\ [Next]_vars => IInv'
  BY IInvStep
<1> QED BY <1>1, <1>2, PTL DEF Spec

\* Every row, process and artifact keeps its type.
THEOREM TypeCorrect == Spec => []TypeOK
<1>1. IInv => TypeOK
  BY DEF IInv
<1> QED BY <1>1, Inductive, PTL

\* No sweep destroys a machine a whole second before its lease runs out, or one
\* nobody bought here, however many sweeps, crashes and failures interleave.
THEOREM NoEarlySweep == Spec => []NeverSweptEarly
<1>1. IInv => NeverSweptEarly
  BY DEF IInv
<1> QED BY <1>1, Inductive, PTL

\* Where every row of a listing can be read, no running machine is ever written
\* off in the record.
THEOREM NoRunningMachineRetired ==
  ASSUME ~UnreadableRows
  PROVE  Spec => []RetiredIsGone
<1>1. IInv => RetiredIsGone
  BY DEF IInv, RetiredTrue, RetiredIsGone, Ended
<1> QED BY <1>1, Inductive, PTL

(***************************************************************************)
(* The release gate                                                        *)
(***************************************************************************)

LEMMA GateHolds ==
  ASSUME NEW m \in Machines, Debt(m)
  PROVE  "clear" \notin Gate(m)
BY DEF Gate

\* Nobody gets past the gate of a machine that owes an artifact.
LEMMA GateStep ==
  ASSUME TypeOK, TypeOK', [Next]_vars, NEW m \in Machines,
         Debt(m), ~GatePassed(m)
  PROVE  ~GatePassed(m)'
<1> USE DEF TypeOK
<1>1. releasing'[m] # "passed"
  <2>1. CASE UNCHANGED releasing
    BY <2>1 DEF GatePassed
  <2>2. ASSUME NEW k \in Machines, Release(k) PROVE releasing'[m] # "passed"
    <3>1. CASE ReleaseGate(k)
      BY <3>1, GateHolds DEF ReleaseGate, GatePassed
    <3>2. CASE ~ReleaseGate(k)
      BY <2>2, <3>2 DEF Release, ReleaseCall, ReleaseMissing, ReleaseCorrect,
         ReleaseStops, GatePassed
    <3> QED BY <3>1, <3>2
  <2> QED BY <2>1, <2>2, ReleasingWriters
<1>2. ASSUME NEW s \in Sweepers PROVE ~(pc'[s] = "call" /\ target'[s] = m)
  <2>1. CASE pc'[s] = pc[s] /\ target'[s] = target[s]
    BY <2>1 DEF GatePassed
  <2>2. ASSUME Sweep(s) \/ SweepCrash(s)
        PROVE  ~(pc'[s] = "call" /\ target'[s] = m)
    <3>1. CASE SweepStart(s) \/ SweepFinish(s) \/ SweepCrash(s)
      BY <3>1, ZenonT(60) DEF SweepStart, SweepFinish, SweepCrash
    <3>2. ASSUME NEW k \in Machines, NEW verdict \in Gate(k), NEW expired,
                 Settle(s, k, verdict, expired)
          PROVE  ~(pc'[s] = "call" /\ target'[s] = m)
      <4>1. CASE verdict = "clear"
        <5>1. k # m
          BY <4>1, GateHolds
        <5>2. \/ UNCHANGED <<pc, target>>
              \/ target'[s] = k
          BY <3>2 DEF Settle
        <5> QED BY <2>1, <5>1, <5>2
      <4>2. CASE verdict # "clear"
        BY <2>1, <3>2, <4>2 DEF Settle
      <4> QED BY <4>1, <4>2
    <3>3. CASE SweepPlatformHalf(s)
      BY <2>1, <3>2, <3>3 DEF SweepPlatformHalf, SweepList, SweepListFails,
         SweepFoundLive, SweepFoundUnknown, SweepFoundExpired
    <3>4. CASE SweepRecordHalf(s)
      <4>1. PICK r \in view[s].left :
              \/ SweepRowHandled(s, r) \/ SweepRowGone(s, r)
              \/ SweepRowLive(s, r) \/ SweepRowExpired(s, r)
        BY <3>4 DEF SweepRecordHalf
      <4>2. r.id \in Machines
        BY DEF Views, Rows
      <4>3. CASE SweepRowHandled(s, r) \/ SweepRowLive(s, r)
        BY <2>1, <4>3 DEF SweepRowHandled, SweepRowLive
      <4>4. CASE SweepRowGone(s, r)
        BY <2>1, <4>4 DEF SweepRowGone, Correct
      <4>5. CASE SweepRowExpired(s, r)
        BY <3>2, <4>2, <4>5 DEF SweepRowExpired
      <4> QED BY <4>1, <4>3, <4>4, <4>5
    <3>5. CASE SweepEffects(s)
      BY <3>5 DEF SweepEffects, SweepCall, SweepCallMissing, SweepCallFails,
         SweepRetire, SweepRetireFails
    <3> QED BY <2>2, <3>1, <3>3, <3>4, <3>5 DEF Sweep
  <2>3. CASE UNCHANGED sweepVars
    BY <2>1, <2>3 DEF sweepVars
  <2>4. ASSUME NEW t \in Sweepers \ {s}, Sweep(t) \/ SweepCrash(t)
        PROVE  ~(pc'[s] = "call" /\ target'[s] = m)
    BY <2>1, <2>4, SweepAlone
  <2> QED BY <2>2, <2>3, <2>4, SweepWriters
<1> QED BY <1>1, <1>2 DEF GatePassed

\* The action of DebtIsHeld, for one machine.
LEMMA DebtStep ==
  ASSUME TypeOK, TypeOK', [Next]_vars, NEW m \in Machines,
         Debt(m), ~GatePassed(m)
  PROVE  /\ ~GatePassed(m)'
         /\ state[m] = "running" => state'[m] \notin {"swept", "released"}
<1>1. ~GatePassed(m)'
  BY GateStep
<1>2. ASSUME state[m] = "running", state'[m] \in {"swept", "released"}
      PROVE  FALSE
  <2>1. ASSUME NEW k \in Machines, \/ AcquireCreate(k) \/ AcquireAnonymous(k)
                                   \/ ReleaseCall(k) \/ Vanish(k)
        PROVE  FALSE
    <3>1. PICK how \in {"running", "released", "forced", "vanished"} :
            /\ state' = [state EXCEPT ![k] = how]
            /\ how = "released" => releasing[k] = "passed"
      BY <2>1 DEF AcquireCreate, AcquireAnonymous, ReleaseCall, Vanish
    <3> QED BY <1>2, <3>1 DEF GatePassed, TypeOK
  <2>2. ASSUME NEW s \in Sweepers, SweepCall(s) \/ SweepCallFails(s)
        PROVE  FALSE
    BY <1>2, <2>2 DEF SweepCall, SweepCallFails, GatePassed, TypeOK
  <2> QED BY <1>2, <2>1, <2>2, StateWriters
<1> QED BY <1>1, <1>2

\* While the newest real apply on record owes an artifact, no unforced release
\* takes the machine unless somebody was past its gate before.
THEOREM GateKeepsDebt == Spec => DebtIsHeld
<1>1. TypeOK /\ TypeOK' /\ [Next]_vars =>
        [\A m \in Machines :
           Debt(m) /\ ~GatePassed(m) =>
             /\ ~GatePassed(m)'
             /\ state[m] = "running" => state'[m] \notin {"swept", "released"}]_vars
  BY DebtStep
<1> QED BY <1>1, TypeCorrect, PTL DEF Spec, DebtIsHeld

(***************************************************************************)
(* Fleet implements Leases                                                 *)
(***************************************************************************)

LEMMA PromiseInit == Init => Promise!Init
<1> SUFFICES ASSUME Init PROVE Promise!Init
  OBVIOUS
<1>1. Retired = {}
  BY DEF Init, Retired, Row
<1>2. lease \in [Machines -> Nat \cup {NoLease}]
  BY FleetAssumption DEF Init
<1> QED BY <1>1, <1>2 DEF Init, Promise!Init, Promise!NoLease, NoLease

\* The steps that change the platform's account are the purchase, the
\* enforcement and the end of one machine.
LEMMA PromiseState ==
  ASSUME IInv, IInv', [Next]_vars, ~ UNCHANGED state,
         UNCHANGED <<now, lease, record>>
  PROVE  Promise!Next
<1> USE DEF Promise!NoLease, NoLease
<1>1. UNCHANGED <<now, lease, Retired>>
  BY DEF Retired
<1>2. ASSUME NEW m \in Machines, AcquireCreate(m) \/ AcquireAnonymous(m)
      PROVE  Promise!Buy(m)
  BY <1>1, <1>2 DEF AcquireCreate, AcquireAnonymous, Promise!Buy, IInv,
     AcquireOrder, Stamped
<1>3. ASSUME NEW m \in Machines, ReleaseCall(m) \/ Vanish(m)
      PROVE  Promise!End(m)
  BY <1>1, <1>3 DEF ReleaseCall, Vanish, Promise!End, Promise!Ended
<1>4. ASSUME NEW s \in Sweepers, SweepCall(s) \/ SweepCallFails(s)
      PROVE  Promise!Enforce(target[s])
  <2>1. /\ state[target[s]] = "running"
        /\ state' = [state EXCEPT ![target[s]] = "swept"]
    BY <1>4 DEF SweepCall, SweepCallFails
  <2>2. target[s] \in Machines
    BY DEF IInv, TypeOK
  <2>3. state'[target[s]] = "swept"
    BY <2>1, <2>2 DEF IInv, TypeOK
  <2>4. lease[target[s]] # NoLease /\ lease[target[s]] < now + Second
    BY <1>1, <2>2, <2>3 DEF IInv, NeverSweptEarly
  <2> QED BY <1>1, <2>1, <2>4 DEF Promise!Enforce
<1> QED
  BY <1>2, <1>3, <1>4, StateWriters DEF Promise!Next, IInv, TypeOK

LEMMA PromiseStep ==
  ASSUME ~UnreadableRows, IInv, IInv', [Next]_vars
  PROVE  [Promise!Next]_(Promise!vars)
<1> USE DEF Promise!NoLease, NoLease
<1>1. CASE Tick
  <2>1. UNCHANGED <<state, lease, Retired>>
    BY <1>1 DEF Tick, platformVars, Retired
  <2> QED BY <1>1, <2>1 DEF Tick, Promise!Pass, Promise!Next
<1>2. ASSUME NEW m \in Machines, AcquireAdmit(m) PROVE Promise!Agree(m)
  <2>1. UNCHANGED <<now, state, Retired>>
    BY <1>2 DEF AcquireAdmit, Retired
  <2>2. state[m] = "unbought" /\ lease[m] = NoLease
    BY <1>2 DEF AcquireAdmit, IInv, AcquireOrder
  <2>3. PICK ttl \in Ttls : lease' = [lease EXCEPT ![m] = now + ttl]
    BY <1>2 DEF AcquireAdmit
  <2>4. /\ lease' = [lease EXCEPT ![m] = lease'[m]]
        /\ lease'[m] \in Nat /\ lease'[m] >= now
    BY <2>3, FleetAssumption DEF IInv, TypeOK, Times
  <2> QED BY <2>1, <2>2, <2>4 DEF Promise!Agree
<1>3. ASSUME NEW m \in Machines, Retired' = Retired \cup {m}, Gone(m),
             UNCHANGED <<now, state, lease>>
      PROVE  Promise!WriteOff(m)
  BY <1>3 DEF Promise!WriteOff, Promise!Ended, Gone
<1>4. ASSUME ~ UNCHANGED record
      PROVE  \/ UNCHANGED <<now, state, lease, Retired>>
             \/ \E m \in Machines : Promise!WriteOff(m)
  <2>1. ASSUME NEW m \in Machines, AcquireRecord(m)
        PROVE  UNCHANGED <<now, state, lease, Retired>>
    BY <2>1 DEF AcquireRecord, platformVars, Retired, Row
  <2>2. ASSUME NEW m \in Machines, NEW rows, Gone(m),
               record' = record \cup rows,
               \A r \in rows : r.id = m /\ r.released,
               UNCHANGED <<now, state, lease>>
        PROVE  \/ UNCHANGED <<now, state, lease, Retired>>
               \/ Promise!WriteOff(m)
    <3>1. Retired' = Retired \/ Retired' = Retired \cup {m}
      BY <2>2 DEF Retired
    <3> QED BY <1>3, <2>2, <3>1
  <2>3. ASSUME NEW m \in Machines, ReleaseCorrect(m)
        PROVE  \/ UNCHANGED <<now, state, lease, Retired>>
               \/ Promise!WriteOff(m)
    <3> DEFINE rows == IF RowsOf(m) = {} THEN {FreshCorrection(m)}
                                         ELSE Corrected(RowsOf(m))
    <3>1. \A r \in rows : r.id = m /\ r.released
      BY DEF RowsOf, FreshCorrection, Corrected, Row, IInv, TypeOK, Rows
    <3>2. /\ Gone(m) /\ record' = record \cup rows
          /\ UNCHANGED <<now, state, lease>>
      BY <2>3 DEF ReleaseCorrect, IInv, EffectTrue, platformVars
    <3> QED BY <2>2, <3>1, <3>2
  <2>4. ASSUME NEW s \in Sweepers, SweepRetire(s)
        PROVE  \/ UNCHANGED <<now, state, lease, Retired>>
               \/ Promise!WriteOff(target[s])
    <3>1. \A r \in Corrected(SnapshotRows(s)) : r.id = target[s] /\ r.released
      BY DEF SnapshotRows, Corrected, IInv, TypeOK, Runs, Rows
    <3>2. /\ target[s] \in Machines /\ Gone(target[s])
          /\ record' = record \cup Corrected(SnapshotRows(s))
          /\ UNCHANGED <<now, state, lease>>
      BY <2>4 DEF SweepRetire, IInv, EffectTrue, Ended, TypeOK, platformVars
    <3> QED BY <2>2, <3>1, <3>2
  <2> QED BY <1>4, <2>1, <2>3, <2>4, RecordWriters DEF IInv, TypeOK
<1>5. CASE ~Tick /\ ~(\E m \in Machines : AcquireAdmit(m)) /\ UNCHANGED record
  <2>1. UNCHANGED <<now, lease>>
    BY <1>5, NowWriters, LeaseWriters
  <2>2. CASE UNCHANGED state
    BY <1>5, <2>1, <2>2 DEF Promise!vars, Retired
  <2>3. CASE ~ UNCHANGED state
    BY <1>5, <2>1, <2>3, PromiseState
  <2> QED BY <2>2, <2>3
<1> QED
  BY <1>1, <1>2, <1>4, <1>5 DEF Promise!Next, Promise!vars

\* The three commands, however they interleave and fail, are a lease that is
\* agreed before the purchase, enforced only after it has run out and written
\* off only after the machine has ended - where listings can be read.
THEOREM FleetKeepsThePromise ==
  ASSUME ~UnreadableRows
  PROVE  Spec => LeasesSpec
<1>1. Init => Promise!Init
  BY PromiseInit
<1>2. IInv /\ IInv' /\ [Next]_vars => [Promise!Next]_(Promise!vars)
  BY PromiseStep
<1> QED BY <1>1, <1>2, Inductive, PTL DEF Spec, LeasesSpec, Promise!Spec
=============================================================================
