----------------------------- MODULE SweepProofs -----------------------------
(* What a finished sweep says of itself, and of the fleet, is true: theorems  *)
(* about Fleet's sweeps for every value of its constants.                     *)
EXTENDS FleetProofs, FiniteSetTheorems

(***************************************************************************)
(* The initial states, and the machines nobody acquired here               *)
(***************************************************************************)

LEMMA KindsInit == Init => KindsTrue
<1> SUFFICES ASSUME Init PROVE KindsTrue
  OBVIOUS
<1>1. \A m \in Legacy : Row(m, lease[m], FALSE) \in record
  BY DEF Init
<1>2. \A m \in Legacy : \E r \in record : r.id = m /\ ~r.released
  BY <1>1 DEF Row
<1>3. \A m \in Foreign : lease[m] = NoLease
  BY FleetAssumption DEF Init
<1>4. \A m \in Legacy \cup Foreign : state[m] # "unbought"
  BY FleetAssumption DEF Init
<1> QED BY <1>2, <1>3, <1>4 DEF KindsTrue

LEMMA SweepInit ==
  ASSUME Init, NEW s \in Sweepers
  PROVE  HalvesApart(s) /\ Tally(s) /\ Enforced(s) /\ LegacyKnown(s)
<1>1. /\ view[s] = NoView /\ run[s] = NoRun /\ out[s] = NoOutcome
      /\ pc[s] = "idle"
  BY DEF Init
<1>2. HalvesApart(s) /\ Enforced(s) /\ LegacyKnown(s)
  BY <1>1 DEF HalvesApart, Enforced, LegacyKnown, Concluded, NoView, NoRun
<1>3. Accounted(s) = {}
  BY <1>1 DEF Accounted, NoOutcome
<1>4. IsFiniteSet(Accounted(s)) /\ Cardinality(Accounted(s)) = 0
  BY <1>3, FS_EmptySet
<1>5. Tally(s)
  BY <1>1, <1>3, <1>4 DEF Tally, NoOutcome
<1> QED BY <1>2, <1>5

LEMMA RecordGrows ==
  ASSUME [Next]_vars
  PROVE  record \subseteq record'
BY RecordWriters DEF AcquireRecord, ReleaseCorrect, SweepRetire

LEMMA KindsStep ==
  ASSUME TypeOK, AcquireOrder, KindsTrue, [Next]_vars
  PROVE  KindsTrue'
<1>1. \A m \in Legacy : \E r \in record' : r.id = m /\ ~r.released
  BY RecordGrows DEF KindsTrue
<1>2. ASSUME NEW m \in Foreign PROVE lease'[m] = NoLease
  <2>1. ASSUME NEW k \in Machines, AcquireAdmit(k) PROVE lease'[m] = lease[m]
    <3>1. k # m
      BY <2>1 DEF AcquireAdmit, AcquireOrder, Stamped
    <3> QED BY <2>1, <3>1, FleetAssumption DEF AcquireAdmit, TypeOK
  <2> QED BY <2>1, LeaseWriters DEF KindsTrue
<1>3. \A m \in Legacy \cup Foreign : state'[m] # "unbought"
  BY StepKeeps, FleetAssumption DEF Kept, KindsTrue
<1> QED BY <1>1, <1>2, <1>3 DEF KindsTrue

(***************************************************************************)
(* The step of somebody else leaves a sweep's own words true               *)
(***************************************************************************)

\* All five things a sweep keeps.
Untouched(t) ==
  /\ view'[t] = view[t] /\ run'[t] = run[t] /\ out'[t] = out[t]
  /\ pc'[t] = pc[t] /\ target'[t] = target[t]

LEMMA OthersUntouched ==
  ASSUME TypeOK, NEW s \in Sweepers, Sweep(s) \/ SweepCrash(s),
         NEW t \in Sweepers \ {s}
  PROVE  Untouched(t)
<1> USE DEF TypeOK
<1>1. pc'[t] = pc[t] /\ target'[t] = target[t] /\ run'[t] = run[t]
  BY SweepAlone
<1>2. view'[t] = view[t] /\ out'[t] = out[t]
  <2>1. CASE SweepStart(s) \/ SweepFinish(s) \/ SweepCrash(s)
    BY <2>1 DEF SweepStart, SweepFinish, SweepCrash
  <2>2. CASE SweepPlatformHalf(s)
    BY <2>2, ZenonT(60) DEF SweepPlatformHalf, SweepList, SweepListFails, SweepFoundLive,
       SweepFoundUnknown, SweepFoundExpired, Settle, Settled, LeftToRecord
  <2>3. CASE SweepRecordHalf(s)
    BY <2>3 DEF SweepRecordHalf, SweepRowHandled, SweepRowGone, SweepRowLive,
       SweepRowExpired, Settle, Rest
  <2>4. CASE SweepEffects(s)
    BY <2>4 DEF SweepEffects, SweepCall, SweepCallMissing, SweepCallFails,
       SweepRetire, SweepRetireFails
  <2> QED BY <2>1, <2>2, <2>3, <2>4 DEF Sweep
<1> QED BY <1>1, <1>2 DEF Untouched

\* Whatever a sweep has concluded was bought: its lease will not change.
LEMMA ConcludedBought ==
  ASSUME TypeOK, SnapshotTrue, NEW s \in Sweepers, HalvesApart(s),
         NEW m \in Machines, Concluded(s, m)
  PROVE  state[m] # "unbought"
<1>1. CASE m \in view[s].handled
  BY <1>1 DEF HalvesApart
<1>2. CASE \E r \in run[s].rows : r.id = m
  BY <1>2 DEF SnapshotTrue, Describes
<1> QED BY <1>1, <1>2 DEF Concluded

LEMMA LeaseSettled ==
  ASSUME TypeOK, AcquireOrder, KindsTrue, [Next]_vars, NEW m \in Machines,
         state[m] # "unbought"
  PROVE  lease'[m] = lease[m]
<1>1. ASSUME NEW k \in Machines, AcquireAdmit(k) PROVE lease'[m] = lease[m]
  <2>1. k # m
    BY <1>1 DEF AcquireAdmit, AcquireOrder
  <2> QED BY <1>1, <2>1 DEF AcquireAdmit, TypeOK
<1> QED BY <1>1, LeaseWriters

LEMMA UntouchedStep ==
  ASSUME SweepIInv, [Next]_vars, NEW t \in Sweepers, Untouched(t)
  PROVE  /\ HalvesApart(t)' /\ Tally(t)'
         /\ ~UnreadableRows => Enforced(t)' /\ LegacyKnown(t)'
<1> USE DEF Untouched
<1>1. TypeOK /\ AcquireOrder /\ SnapshotTrue /\ KindsTrue /\ HalvesApart(t)
  BY DEF SweepIInv, IInv
<1>2. Kept
  BY <1>1, StepKeeps
<1>3. view[t] \in Views
  BY <1>1 DEF TypeOK
<1>4. HalvesApart(t)'
  BY <1>1, <1>2, <1>3 DEF HalvesApart, Kept, Views
<1>5. Tally(t)'
  <2>1. Accounted(t)' = Accounted(t)
    BY DEF Accounted
  <2>2. \A m : Concluded(t, m)' <=> Concluded(t, m)
    BY DEF Concluded
  <2>3. Tally(t)
    BY DEF SweepIInv
  <2> QED BY <2>1, <2>2, <2>3 DEF Tally
<1>6. ASSUME ~UnreadableRows PROVE Enforced(t)'
  <2>1. SUFFICES ASSUME ~run[t].dry, NEW m \in Machines,
                        Concluded(t, m)', DueIn(t, m)'
                 PROVE  \/ Gone(m)'
                        \/ m \in out[t].refused \cup out[t].failed
                        \/ pc[t] = "call" /\ target[t] = m
    BY DEF Enforced
  <2>2. Concluded(t, m)
    BY <2>1 DEF Concluded
  <2>3. lease'[m] = lease[m]
    BY <1>1, <2>2, ConcludedBought, LeaseSettled
  <2>4. DueIn(t, m)
    BY <2>1, <2>3 DEF DueIn
  <2> QED BY <1>2, <1>6, <2>1, <2>2, <2>4 DEF SweepIInv, Enforced, Kept
<1>7. ASSUME ~UnreadableRows PROVE LegacyKnown(t)'
  BY <1>2, <1>7, FleetAssumption DEF SweepIInv, LegacyKnown, Kept
<1> QED BY <1>4, <1>5, <1>6, <1>7

(***************************************************************************)
(* What each step writes, field by field                                   *)
(***************************************************************************)

\* A new run, or none.
LEMMA ResetFields ==
  ASSUME TypeOK, NEW s \in Sweepers, SweepStart(s) \/ SweepCrash(s)
  PROVE  /\ view'[s].found = {} /\ view'[s].listed = {}
         /\ view'[s].present = {} /\ view'[s].handled = {}
         /\ view'[s].left = run'[s].rows
         /\ run'[s].rows \in {{}, Outstanding}
         /\ out'[s] = NoOutcome
         /\ pc'[s] = IF SweepStart(s) THEN "work" ELSE "idle"
         /\ SweepStart(s) => run'[s].rows = Outstanding
<1> USE DEF TypeOK
<1>1. CASE SweepStart(s)
  <2>1. PICK dry \in DryRuns, ask \in Asks :
          /\ run' = [run EXCEPT ![s] = [dry |-> dry, at |-> now,
                                        rows |-> Outstanding]]
          /\ view' = [view EXCEPT ![s] = [NoView EXCEPT !.planes = ask,
                                                        !.left = Outstanding]]
    BY <1>1 DEF SweepStart
  <2>2. /\ run'[s] = [dry |-> dry, at |-> now, rows |-> Outstanding]
        /\ view'[s] = [NoView EXCEPT !.planes = ask, !.left = Outstanding]
    BY <2>1
  <2>3. out'[s] = NoOutcome /\ pc'[s] = "work"
    BY <1>1 DEF SweepStart
  <2> QED BY <1>1, <2>2, <2>3 DEF NoView
<1>2. CASE SweepCrash(s) /\ ~SweepStart(s)
  BY <1>2 DEF SweepCrash, NoView, NoRun
<1> QED BY <1>1, <1>2

LEMMA ListFields ==
  ASSUME TypeOK, NEW s \in Sweepers, NEW p \in Providers, SweepList(s, p)
  PROVE  /\ view'[s].planes = view[s].planes \ {p}
         /\ view'[s].found \subseteq RunningOn(p)
         /\ view'[s].listed = view[s].listed \cup {p}
         /\ view'[s].present = view[s].present \cup view'[s].found
         /\ view'[s].handled = view[s].handled
         /\ view'[s].left = view[s].left
<1>1. PICK seen \in Readings(p) :
        view' = [view EXCEPT ![s].planes = @ \ {p}, ![s].found = seen,
                             ![s].listed = @ \cup {p},
                             ![s].present = @ \cup seen]
  BY DEF SweepList
<1>2. seen \subseteq RunningOn(p)
  BY DEF Readings
<1>3. view'[s] = [view[s] EXCEPT !.planes = @ \ {p}, !.found = seen,
                                 !.listed = @ \cup {p},
                                 !.present = @ \cup seen]
  BY <1>1 DEF TypeOK
<1> QED BY <1>2, <1>3 DEF TypeOK, Views

LEMMA ListFailsFields ==
  ASSUME TypeOK, NEW s \in Sweepers, NEW p \in Providers,
         SweepListFails(s, p)
  PROVE  /\ view'[s].planes = view[s].planes \ {p}
         /\ view'[s].found = view[s].found
         /\ view'[s].listed = view[s].listed
         /\ view'[s].present = view[s].present
         /\ view'[s].handled = view[s].handled
         /\ view'[s].left = view[s].left
         /\ out'[s].expired = out[s].expired
         /\ out'[s].released = out[s].released
         /\ out'[s].refused = out[s].refused
         /\ out'[s].failed = out[s].failed
<1>1. /\ view'[s] = [view[s] EXCEPT !.planes = @ \ {p}]
      /\ out'[s] = [out[s] EXCEPT !.unasked = @ \cup {p}]
  BY DEF SweepListFails, TypeOK
<1>2. view[s] \in Views /\ out[s] \in Outcomes
  BY DEF TypeOK
<1> QED BY <1>1, <1>2 DEF Views, Outcomes

LEMMA SettledFields ==
  ASSUME TypeOK, NEW s \in Sweepers, NEW m \in Machines, Settled(s, m)
  PROVE  /\ view'[s].planes = view[s].planes
         /\ view'[s].found = view[s].found \ {m}
         /\ view'[s].listed = view[s].listed
         /\ view'[s].present = view[s].present
         /\ view'[s].handled = view[s].handled \cup {m}
         /\ view'[s].left = view[s].left
<1>1. view'[s] = [view[s] EXCEPT !.found = @ \ {m}, !.handled = @ \cup {m}]
  BY DEF Settled, TypeOK
<1> QED BY <1>1 DEF TypeOK, Views

LEMMA UnknownFields ==
  ASSUME TypeOK, NEW s \in Sweepers, NEW m \in Machines,
         SweepFoundUnknown(s, m)
  PROVE  /\ view'[s].planes = view[s].planes
         /\ view'[s].found = view[s].found \ {m}
         /\ view'[s].listed = view[s].listed
         /\ view'[s].present = view[s].present
         /\ view'[s].handled = view[s].handled
         /\ view'[s].left = view[s].left
         /\ out'[s].expired = out[s].expired
         /\ out'[s].released = out[s].released
         /\ out'[s].refused = out[s].refused
         /\ out'[s].failed = out[s].failed
<1>1. /\ view'[s] = [view[s] EXCEPT !.found = @ \ {m}]
      /\ out'[s] = [out[s] EXCEPT !.unknown = @ \cup {m}]
  BY DEF SweepFoundUnknown, LeftToRecord, TypeOK
<1>2. view[s] \in Views /\ out[s] \in Outcomes
  BY DEF TypeOK
<1> QED BY <1>1, <1>2 DEF Views, Outcomes

LEMMA RestFields ==
  ASSUME TypeOK, NEW s \in Sweepers, NEW r, Rest(s, r)
  PROVE  /\ view'[s].planes = view[s].planes
         /\ view'[s].found = view[s].found
         /\ view'[s].listed = view[s].listed
         /\ view'[s].present = view[s].present
         /\ view'[s].handled = view[s].handled
         /\ view'[s].left = view[s].left \ {r}
<1>1. view'[s] = [view[s] EXCEPT !.left = @ \ {r}]
  BY DEF Rest, TypeOK
<1> QED BY <1>1 DEF TypeOK, Views

\* The verdict puts the machine in one place: a list, or the release call.
LEMMA SettleFields ==
  ASSUME TypeOK, NEW s \in Sweepers, NEW m \in Machines,
         NEW verdict \in Gate(m), NEW expired,
         Settle(s, m, verdict, expired), pc[s] = "work"
  PROVE  /\ out'[s].expired = expired
         /\ \/ /\ out'[s].released = out[s].released \cup {m}
               /\ run[s].dry
               /\ out'[s].refused = out[s].refused
               /\ out'[s].failed = out[s].failed
               /\ pc'[s] = "work"
            \/ /\ out'[s].refused = out[s].refused \cup {m}
               /\ out'[s].released = out[s].released
               /\ out'[s].failed = out[s].failed
               /\ pc'[s] = "work"
            \/ /\ out'[s].failed = out[s].failed \cup {m}
               /\ out'[s].released = out[s].released
               /\ out'[s].refused = out[s].refused
               /\ pc'[s] = "work"
            \/ /\ out'[s].released = out[s].released
               /\ out'[s].refused = out[s].refused
               /\ out'[s].failed = out[s].failed
               /\ pc'[s] = "call" /\ target'[s] = m
<1>1. out[s] \in Outcomes
  BY DEF TypeOK
<1>2. out'[s] = Judged(out[s], m, verdict, expired, run[s].dry)
  BY DEF Settle, TypeOK
<1>3. /\ out'[s].expired = expired
      /\ out'[s].released = IF verdict = "clear" /\ run[s].dry
                              THEN out[s].released \cup {m}
                              ELSE out[s].released
      /\ out'[s].refused = IF verdict = "holding"
                             THEN out[s].refused \cup {m} ELSE out[s].refused
      /\ out'[s].failed = IF verdict = "unreadable"
                            THEN out[s].failed \cup {m} ELSE out[s].failed
  BY <1>1, <1>2 DEF Judged, Outcomes
<1>4. IF verdict = "clear" /\ ~run[s].dry
        THEN pc'[s] = "call" /\ target'[s] = m
        ELSE pc'[s] = "work"
  BY DEF Settle, TypeOK
<1>5. CASE verdict = "clear"
  BY <1>3, <1>4, <1>5
<1>6. CASE verdict = "holding"
  BY <1>3, <1>4, <1>6
<1>7. CASE verdict = "unreadable"
  BY <1>3, <1>4, <1>7
<1> QED BY <1>3, <1>5, <1>6, <1>7, GateAnswers

(***************************************************************************)
(* The halves stay apart                                                   *)
(***************************************************************************)

LEMMA OutstandingStands ==
  ASSUME NEW r \in Outstanding
  PROVE  ~r.released
BY DEF Outstanding, Retired

\* Between its start and its end a sweep keeps what it read, and only its last
\* step calls it done.
LEMMA MidRun ==
  ASSUME TypeOK, NEW s \in Sweepers,
         SweepPlatformHalf(s) \/ SweepRecordHalf(s) \/ SweepEffects(s)
  PROVE  run'[s] = run[s] /\ pc'[s] # "done" /\ pc'[s] # "idle"
<1> USE DEF TypeOK
<1>1. CASE SweepPlatformHalf(s)
  BY <1>1 DEF SweepPlatformHalf, SweepList, SweepListFails, SweepFoundLive,
     SweepFoundUnknown, SweepFoundExpired, Settle
<1>2. CASE SweepRecordHalf(s)
  BY <1>2 DEF SweepRecordHalf, SweepRowHandled, SweepRowGone, SweepRowLive,
     SweepRowExpired, Settle, Rest, Correct
<1>3. CASE SweepEffects(s)
  BY <1>3 DEF SweepEffects, SweepCall, SweepCallMissing, SweepCallFails,
     SweepRetire, SweepRetireFails
<1> QED BY <1>1, <1>2, <1>3, SMTT(60)

\* The record half opens one row at a time.
LEMMA RecordHalfRests ==
  ASSUME TypeOK, NEW s \in Sweepers, SweepRecordHalf(s)
  PROVE  \E r \in view[s].left : Rest(s, r)
BY DEF SweepRecordHalf, SweepRowHandled, SweepRowGone, SweepRowLive,
   SweepRowExpired

LEMMA EffectsLeaveTheView ==
  ASSUME TypeOK, NEW s \in Sweepers, SweepEffects(s)
  PROVE  view'[s] = view[s] /\ run'[s] = run[s]
BY DEF SweepEffects, SweepCall, SweepCallMissing, SweepCallFails, SweepRetire,
   SweepRetireFails

LEMMA HalvesStep ==
  ASSUME TypeOK, Kept, NEW s \in Sweepers, HalvesApart(s), FoundBought',
         Sweep(s) \/ SweepCrash(s)
  PROVE  HalvesApart(s)'
<1> USE DEF HalvesApart
<1>0. view[s] \in Views
  BY DEF TypeOK
<1>1. \A m \in view[s].present : state'[m] # "unbought"
  BY <1>0 DEF Kept, Views
<1>2. CASE SweepStart(s) \/ SweepCrash(s)
  <2>1. \A r \in run'[s].rows : ~r.released
    BY <1>2, ResetFields, OutstandingStands
  <2> QED BY <1>2, <2>1, ResetFields
<1>3. ASSUME NEW p \in Providers, SweepList(s, p) PROVE HalvesApart(s)'
  <2>1. /\ p \in view[s].planes /\ view[s].found = {}
        /\ run'[s] = run[s] /\ pc'[s] # "done"
    BY <1>3 DEF SweepList
  <2>2. \A m \in view'[s].found : ProviderOf[m] = p /\ state'[m] # "unbought"
    BY <1>3, ListFields DEF RunningOn, FoundBought
  <2>3. view'[s].found \cap view[s].handled = {}
    BY <2>1, <2>2
  <2> QED BY <1>1, <1>3, <2>1, <2>2, <2>3, ListFields
<1>4. ASSUME NEW p \in Providers, SweepListFails(s, p) PROVE HalvesApart(s)'
  <2>1. p \in view[s].planes /\ run'[s] = run[s] /\ pc'[s] # "done"
    BY <1>4 DEF SweepListFails
  <2> QED BY <1>1, <1>4, <2>1, ListFailsFields
<1>5. ASSUME NEW m \in Machines, Settled(s, m), m \in view[s].found,
             run'[s] = run[s], pc'[s] # "done"
      PROVE  HalvesApart(s)'
  BY <1>1, <1>5, SettledFields
<1>6. ASSUME NEW m \in Machines, SweepFoundUnknown(s, m) PROVE HalvesApart(s)'
  <2>1. /\ m \in view[s].found /\ ~Stamped(m)
        /\ run'[s] = run[s] /\ pc'[s] # "done"
    BY <1>6 DEF SweepFoundUnknown
  <2> QED BY <1>1, <1>6, <2>1, UnknownFields
<1>7. CASE SweepPlatformHalf(s)
  <2>1. ASSUME NEW m \in Machines, SweepFoundLive(s, m) \/ SweepFoundExpired(s, m)
        PROVE  HalvesApart(s)'
    BY <1>5, <1>7, <2>1, MidRun DEF SweepFoundLive, SweepFoundExpired
  <2> QED BY <1>3, <1>4, <1>6, <1>7, <2>1 DEF SweepPlatformHalf
<1>8. CASE SweepRecordHalf(s)
  <2>1. PICK r \in view[s].left : Rest(s, r)
    BY <1>8, RecordHalfRests
  <2>2. view[s].planes = {} /\ view[s].found = {}
    BY <2>1 DEF Rest
  <2> QED BY <1>1, <1>8, <2>1, <2>2, RestFields, MidRun
<1>9. CASE SweepEffects(s)
  BY <1>1, <1>9, EffectsLeaveTheView, MidRun
<1>10. CASE SweepFinish(s)
  BY <1>1, <1>10 DEF SweepFinish
<1> QED BY <1>2, <1>7, <1>8, <1>9, <1>10 DEF Sweep

(***************************************************************************)
(* The tally                                                               *)
(***************************************************************************)

\* One row of the snapshot per machine: concluding a row concludes a machine
\* that was not concluded before.
LEMMA OneRowEach ==
  ASSUME TypeOK, SnapshotTrue, NEW s \in Sweepers, HalvesApart(s),
         NEW r \in run[s].rows, NEW q \in run[s].rows, r.id = q.id
  PROVE  r = q
<1>1. r \in Rows /\ q \in Rows
  BY DEF TypeOK, Runs
<1>2. ~r.released /\ ~q.released /\ r.expires = q.expires
  BY DEF HalvesApart, SnapshotTrue, Describes
<1> QED BY <1>1, <1>2 DEF Rows

LEMMA FreshMachine ==
  ASSUME TypeOK, SnapshotTrue, NEW s \in Sweepers, HalvesApart(s), Tally(s),
         NEW m \in Machines,
         \/ m \in view[s].found
         \/ \E r \in view[s].left : r.id = m /\ m \notin view[s].handled
  PROVE  ~Concluded(s, m) /\ m \notin Accounted(s)
<1>1. CASE m \in view[s].found
  BY <1>1 DEF HalvesApart, Tally, Concluded
<1>2. ASSUME NEW r \in view[s].left, r.id = m, m \notin view[s].handled
      PROVE  ~Concluded(s, m)
  BY <1>2, OneRowEach DEF Concluded, SnapshotTrue
<1> QED BY <1>1, <1>2 DEF Tally

\* What is concluded stays concluded within a run.
LEMMA ConcludedGrows ==
  ASSUME TypeOK, NEW s \in Sweepers, run'[s] = run[s],
         view[s].handled \subseteq view'[s].handled,
         view'[s].left \subseteq view[s].left,
         NEW m, Concluded(s, m)
  PROVE  Concluded(s, m)'
BY DEF Concluded

\* A step that moves nothing between the lists keeps the tally.
LEMMA TallySame ==
  ASSUME NEW s \in Sweepers, Tally(s), Accounted(s)' = Accounted(s),
         \A m : Concluded(s, m) => Concluded(s, m)',
         out'[s].expired = out[s].expired,
         out'[s].refused = out[s].refused,
         \/ /\ out'[s].released = out[s].released
            /\ out'[s].failed = out[s].failed
            /\ pc'[s] = "call" => pc[s] = "call" /\ target'[s] = target[s]
         \/ /\ out'[s].released = out[s].released \cup {target[s]}
            /\ out'[s].failed = out[s].failed
            /\ pc[s] = "call" /\ pc'[s] # "call"
         \/ /\ out'[s].failed = out[s].failed \cup {target[s]}
            /\ out'[s].released = out[s].released
            /\ pc[s] = "call" /\ pc'[s] # "call"
  PROVE  Tally(s)'
<1>1. IsFiniteSet(Accounted(s)') /\ (~LedgerFaults =>
        out'[s].expired = Cardinality(Accounted(s)'))
  BY DEF Tally
<1> QED BY <1>1 DEF Tally

\* Settling a machine nobody has concluded adds one to the tally.
LEMMA TallySettled ==
  ASSUME TypeOK, NEW s \in Sweepers, Tally(s), NEW m \in Machines,
         m \notin Accounted(s), NEW verdict \in Gate(m), NEW expired,
         Settle(s, m, verdict, expired), pc[s] = "work",
         ~LedgerFaults => expired = out[s].expired + 1,
         \A k : Concluded(s, k) => Concluded(s, k)', Concluded(s, m)'
  PROVE  Tally(s)'
<1>1. Accounted(s)' = Accounted(s) \cup {m}
  BY SettleFields DEF Accounted
<1>2. /\ out'[s].released \cap (out'[s].refused \cup out'[s].failed) = {}
      /\ out'[s].refused \cap out'[s].failed = {}
      /\ pc'[s] = "call" =>
           target'[s] \notin out'[s].released \cup out'[s].refused
                                             \cup out'[s].failed
  <2>1. m \notin out[s].released \cup out[s].refused \cup out[s].failed
    BY DEF Accounted
  <2> QED BY <2>1, SettleFields DEF Tally
<1>3. /\ IsFiniteSet(Accounted(s) \cup {m})
      /\ Cardinality(Accounted(s) \cup {m}) = Cardinality(Accounted(s)) + 1
  BY FS_AddElement DEF Tally
<1>4. ~LedgerFaults => out'[s].expired = Cardinality(Accounted(s) \cup {m})
  BY <1>3, SettleFields DEF Tally
<1>5. \A k \in Accounted(s) \cup {m} : Concluded(s, k)'
  BY DEF Tally
<1> QED BY <1>1, <1>2, <1>3, <1>4, <1>5 DEF Tally

LEMMA TallyStep ==
  ASSUME TypeOK, SnapshotTrue, NEW s \in Sweepers, HalvesApart(s), Tally(s),
         Sweep(s) \/ SweepCrash(s)
  PROVE  Tally(s)'
<1>1. CASE SweepStart(s) \/ SweepCrash(s)
  <2>1. out'[s] = NoOutcome /\ pc'[s] # "call"
    BY <1>1, ResetFields
  <2>2. Accounted(s)' = {}
    BY <2>1 DEF Accounted, NoOutcome
  <2> QED BY <2>1, <2>2, FS_EmptySet DEF Tally, NoOutcome
<1>2. ASSUME NEW p \in Providers, SweepList(s, p) \/ SweepListFails(s, p)
      PROVE  Tally(s)'
  <2>1. pc'[s] = pc[s] /\ target'[s] = target[s] /\ run'[s] = run[s]
    BY <1>2 DEF SweepList, SweepListFails
  <2>2. /\ out'[s].released = out[s].released /\ out'[s].failed = out[s].failed
        /\ out'[s].refused = out[s].refused
        /\ out'[s].expired = out[s].expired
    BY <1>2, ListFailsFields DEF SweepList
  <2>3. Accounted(s)' = Accounted(s)
    BY <2>1, <2>2 DEF Accounted
  <2>4. view'[s].handled = view[s].handled /\ view'[s].left = view[s].left
    BY <1>2, ListFields, ListFailsFields
  <2>5. \A m : Concluded(s, m) => Concluded(s, m)'
    BY <2>1, <2>4, ConcludedGrows
  <2> QED BY <2>1, <2>2, <2>3, <2>5, TallySame
<1>3. ASSUME NEW m \in Machines, SweepFoundUnknown(s, m) PROVE Tally(s)'
  <2>1. pc'[s] = pc[s] /\ target'[s] = target[s] /\ run'[s] = run[s]
    BY <1>3 DEF SweepFoundUnknown
  <2>2. Accounted(s)' = Accounted(s)
    BY <1>3, <2>1, UnknownFields DEF Accounted
  <2>3. \A k : Concluded(s, k) => Concluded(s, k)'
    BY <1>3, <2>1, UnknownFields, ConcludedGrows
  <2> QED BY <1>3, <2>1, <2>2, <2>3, UnknownFields, TallySame
<1>4. ASSUME NEW m \in Machines, SweepFoundLive(s, m) PROVE Tally(s)'
  <2>1. /\ pc'[s] = pc[s] /\ target'[s] = target[s] /\ run'[s] = run[s]
        /\ out'[s] = out[s] /\ Settled(s, m)
    BY <1>4 DEF SweepFoundLive
  <2>2. Accounted(s)' = Accounted(s)
    BY <2>1 DEF Accounted
  <2>3. \A k : Concluded(s, k) => Concluded(s, k)'
    BY <2>1, SettledFields, ConcludedGrows
  <2> QED BY <2>1, <2>2, <2>3, TallySame
<1>5. ASSUME NEW m \in Machines, SweepFoundExpired(s, m) PROVE Tally(s)'
  <2>1. /\ m \in view[s].found /\ Settled(s, m) /\ pc[s] = "work"
        /\ run'[s] = run[s]
    BY <1>5 DEF SweepFoundExpired
  <2>2. PICK verdict \in Gate(m) : Settle(s, m, verdict, out[s].expired + 1)
    BY <1>5 DEF SweepFoundExpired
  <2>3. m \notin Accounted(s)
    BY <2>1, FreshMachine
  <2>4. \A k : Concluded(s, k) => Concluded(s, k)'
    BY <2>1, SettledFields, ConcludedGrows
  <2>5. Concluded(s, m)'
    BY <2>1, SettledFields DEF Concluded
  <2> QED BY <2>1, <2>2, <2>3, <2>4, <2>5, TallySettled
<1>6. CASE SweepRecordHalf(s)
  <2>1. PICK r \in view[s].left : \/ SweepRowHandled(s, r) \/ SweepRowGone(s, r)
                                  \/ SweepRowLive(s, r) \/ SweepRowExpired(s, r)
    BY <1>6 DEF SweepRecordHalf
  <2>2. /\ Rest(s, r) /\ pc[s] = "work" /\ run'[s] = run[s]
        /\ r \in run[s].rows /\ r.id \in Machines
    <3>1. Rest(s, r) /\ pc[s] = "work" /\ run'[s] = run[s]
      BY <2>1 DEF SweepRowHandled, SweepRowGone, SweepRowLive,
         SweepRowExpired, Rest
    <3>2. r \in run[s].rows
      BY DEF SnapshotTrue
    <3> QED BY <3>1, <3>2 DEF TypeOK, Runs, Rows
  <2>3. \A k : Concluded(s, k) => Concluded(s, k)'
    BY <2>2, RestFields, ConcludedGrows
  <2>4. Concluded(s, r.id)'
    BY <2>2, RestFields DEF Concluded
  <2>5. CASE SweepRowHandled(s, r) \/ SweepRowLive(s, r) \/ SweepRowGone(s, r)
    <3>1. out'[s] = out[s] /\ pc'[s] \in {"work", "retire"}
      BY <2>2, <2>5
      DEF SweepRowHandled, SweepRowLive, SweepRowGone, Correct, TypeOK
    <3>2. Accounted(s)' = Accounted(s)
      BY <2>2, <3>1 DEF Accounted
    <3> QED BY <2>3, <3>1, <3>2, TallySame
  <2>6. CASE SweepRowExpired(s, r)
    <3>1. PICK verdict \in Gate(r.id) :
            Settle(s, r.id, verdict,
                   out[s].expired + (IF verdict = "unreadable" THEN 0 ELSE 1))
      BY <2>6 DEF SweepRowExpired
    <3>2. r.id \notin Accounted(s)
      BY <2>2, <2>6, FreshMachine DEF SweepRowExpired, Unsettled
    <3>3. ~LedgerFaults => verdict # "unreadable"
      BY DEF Gate
    <3> QED BY <2>2, <2>3, <2>4, <3>1, <3>2, <3>3, TallySettled
  <2> QED BY <2>1, <2>5, <2>6
<1>7. CASE SweepEffects(s)
  <2>1. \A k : Concluded(s, k) => Concluded(s, k)'
    BY <1>7, EffectsLeaveTheView, ConcludedGrows
  <2>2. out[s] \in Outcomes
    BY DEF TypeOK
  <2>3. CASE SweepCall(s)
    <3>1. /\ out'[s] = [out[s] EXCEPT !.released = @ \cup {target[s]}]
          /\ pc[s] = "call" /\ pc'[s] # "call"
      BY <2>3 DEF SweepCall, TypeOK
    <3>2. /\ out'[s].released = out[s].released \cup {target[s]}
          /\ out'[s].refused = out[s].refused
          /\ out'[s].failed = out[s].failed
          /\ out'[s].expired = out[s].expired
      BY <2>2, <3>1 DEF Outcomes
    <3>3. Accounted(s)' = Accounted(s)
      BY <3>1, <3>2 DEF Accounted
    <3> QED BY <2>1, <3>1, <3>2, <3>3, TallySame
  <2>4. CASE SweepCallMissing(s) \/ SweepCallFails(s)
    <3>1. /\ out'[s] = [out[s] EXCEPT !.failed = @ \cup {target[s]}]
          /\ pc[s] = "call" /\ pc'[s] # "call"
      BY <2>4, ZenonT(60) DEF SweepCallMissing, SweepCallFails, TypeOK
    <3>2. /\ out'[s].released = out[s].released
          /\ out'[s].refused = out[s].refused
          /\ out'[s].failed = out[s].failed \cup {target[s]}
          /\ out'[s].expired = out[s].expired
      BY <2>2, <3>1 DEF Outcomes
    <3>3. Accounted(s)' = Accounted(s)
      BY <3>1, <3>2 DEF Accounted
    <3> QED BY <2>1, <3>1, <3>2, <3>3, TallySame
  <2>5. CASE SweepRetire(s) \/ SweepRetireFails(s)
    <3>1. out'[s] = out[s] /\ pc[s] = "retire" /\ pc'[s] = "work"
      BY <2>5 DEF SweepRetire, SweepRetireFails, TypeOK
    <3>2. Accounted(s)' = Accounted(s)
      BY <3>1 DEF Accounted
    <3> QED BY <2>1, <3>1, <3>2, TallySame
  <2> QED BY <1>7, <2>3, <2>4, <2>5 DEF SweepEffects
<1>8. CASE SweepFinish(s)
  <2>1. /\ out'[s] = out[s] /\ pc[s] = "work" /\ pc'[s] = "done"
        /\ view'[s] = view[s] /\ run'[s] = run[s]
    BY <1>8 DEF SweepFinish, TypeOK
  <2>2. Accounted(s)' = Accounted(s)
    BY <2>1 DEF Accounted
  <2>3. \A k : Concluded(s, k) => Concluded(s, k)'
    BY <2>1 DEF Concluded
  <2> QED BY <2>1, <2>2, <2>3, TallySame
<1> QED
  BY <1>1, <1>2, <1>3, <1>4, <1>5, <1>6, <1>7, <1>8
  DEF Sweep, SweepPlatformHalf

(***************************************************************************)
(* Enforcement                                                             *)
(***************************************************************************)

\* What Enforced says of one machine.
Answered(s, m) ==
  \/ Gone(m)
  \/ m \in out[s].refused \cup out[s].failed
  \/ pc[s] = "call" /\ target[s] = m

\* A step that concludes nothing new and takes no answer back keeps Enforced.
LEMMA EnforcedSame ==
  ASSUME SweepIInv, ~UnreadableRows, [Next]_vars, NEW s \in Sweepers,
         run'[s] = run[s], \A m \in Machines : Answered(s, m) => Answered(s, m)',
         \A m \in Machines :
           Concluded(s, m)' => Concluded(s, m) \/ ~DueIn(s, m)' \/ Answered(s, m)',
         \A m \in Machines : Concluded(s, m) =>
           (m \in view'[s].present <=> m \in view[s].present)
  PROVE  Enforced(s)'
<1>1. TypeOK /\ AcquireOrder /\ SnapshotTrue /\ KindsTrue /\ HalvesApart(s)
  BY DEF SweepIInv, IInv
<1>2. ASSUME ~run[s].dry, NEW m \in Machines, Concluded(s, m), DueIn(s, m)'
      PROVE  Answered(s, m)'
  <2>1. lease'[m] = lease[m]
    BY <1>1, <1>2, ConcludedBought, LeaseSettled
  <2>2. DueIn(s, m)
    BY <1>2, <2>1 DEF DueIn
  <2>3. Answered(s, m)
    BY <1>2, <2>2 DEF SweepIInv, Enforced, Answered
  <2> QED BY <2>3
<1> QED BY <1>2 DEF Enforced, Answered

\* Settling answers the machine, and takes no other answer back.
LEMMA SettleAnswers ==
  ASSUME TypeOK, Kept, NEW s \in Sweepers, NEW m \in Machines,
         NEW verdict \in Gate(m), NEW expired,
         Settle(s, m, verdict, expired), pc[s] = "work", ~run[s].dry
  PROVE  /\ Answered(s, m)'
         /\ \A k \in Machines : Answered(s, k) => Answered(s, k)'
<1>1. Answered(s, m)'
  BY SettleFields DEF Answered
<1>2. ASSUME NEW k \in Machines, Answered(s, k) PROVE Answered(s, k)'
  BY <1>2, SettleFields DEF Answered, Kept
<1> QED BY <1>1, <1>2

LEMMA EnforcedPlatformHalf ==
  ASSUME SweepIInv, ~UnreadableRows, [Next]_vars, NEW s \in Sweepers,
         SweepPlatformHalf(s), ~run[s].dry
  PROVE  Enforced(s)'
<1>1. TypeOK /\ SnapshotTrue /\ HalvesApart(s) /\ Kept
  BY StepKeeps DEF SweepIInv, IInv
<1>2. run'[s] = run[s]
  BY <1>1, MidRun
<1>3. ASSUME out'[s].refused = out[s].refused, out'[s].failed = out[s].failed,
             pc'[s] = pc[s], target'[s] = target[s]
      PROVE  \A m \in Machines : Answered(s, m) => Answered(s, m)'
  BY <1>1, <1>3 DEF Answered, Kept
<1>4. ASSUME NEW p \in Providers, SweepList(s, p) PROVE Enforced(s)'
  <2>1. /\ p \in view[s].planes /\ out'[s] = out[s]
        /\ pc'[s] = pc[s] /\ target'[s] = target[s]
    BY <1>4 DEF SweepList
  <2>2. \A m \in view'[s].found : ProviderOf[m] = p
    BY <1>1, <1>4, ListFields DEF RunningOn
  <2>3. view[s].left = run[s].rows /\ p \notin view[s].listed
    BY <1>1, <2>1 DEF HalvesApart
  <2>4. \A m \in view[s].handled : m \notin view'[s].found
    BY <1>1, <2>2, <2>3 DEF HalvesApart
  <2>5. \A m \in Machines :
          Concluded(s, m) => (m \in view'[s].present <=> m \in view[s].present)
    BY <1>1, <1>4, <2>3, <2>4, ListFields DEF Concluded
  <2>6. \A m \in Machines : Concluded(s, m)' => Concluded(s, m)
    BY <1>1, <1>2, <1>4, ListFields DEF Concluded
  <2> QED BY <1>2, <1>3, <2>1, <2>5, <2>6, EnforcedSame
<1>5. ASSUME NEW p \in Providers, SweepListFails(s, p) PROVE Enforced(s)'
  <2>1. pc'[s] = pc[s] /\ target'[s] = target[s]
    BY <1>5 DEF SweepListFails
  <2>2. \A m \in Machines : Concluded(s, m)' => Concluded(s, m)
    BY <1>1, <1>2, <1>5, ListFailsFields DEF Concluded
  <2> QED BY <1>1, <1>2, <1>3, <1>5, <2>1, <2>2, ListFailsFields, EnforcedSame
<1>6. ASSUME NEW k \in Machines, SweepFoundUnknown(s, k) PROVE Enforced(s)'
  <2>1. pc'[s] = pc[s] /\ target'[s] = target[s]
    BY <1>6 DEF SweepFoundUnknown
  <2>2. \A m \in Machines : Concluded(s, m)' => Concluded(s, m)
    BY <1>1, <1>2, <1>6, UnknownFields DEF Concluded
  <2> QED BY <1>1, <1>2, <1>3, <1>6, <2>1, <2>2, UnknownFields, EnforcedSame
<1>7. ASSUME NEW k \in Machines, Settled(s, k)
      PROVE  \A m \in Machines : Concluded(s, m)' => Concluded(s, m) \/ m = k
  BY <1>1, <1>2, <1>7, SettledFields DEF Concluded
<1>8. ASSUME NEW k \in Machines, SweepFoundLive(s, k) PROVE Enforced(s)'
  <2>1. /\ k \in view[s].found /\ Settled(s, k)
        /\ Stamped(k) /\ ~(StampOf(lease[k]) <= run[s].at)
        /\ lease' = lease /\ out'[s] = out[s]
        /\ pc'[s] = pc[s] /\ target'[s] = target[s]
    <3>1. StampOf(lease[k]) > run[s].at /\ k \in view[s].found
      BY <1>8 DEF SweepFoundLive
    <3>2. lease[k] \in Nat
      BY <1>1, <1>8 DEF SweepFoundLive, SweepIInv, IInv, AcquireOrder,
         FoundBought, Stamped, TypeOK, Times
    <3>3. StampOf(lease[k]) \in Int /\ run[s].at \in Int
      <4>1. lease[k] % Second \in Int
        BY <3>2, FleetAssumption
      <4> QED BY <1>1, <3>2, <4>1 DEF StampOf, TypeOK, Runs, Times
    <3>4. ~(StampOf(lease[k]) <= run[s].at)
      BY <3>1, <3>3
    <3> QED BY <1>8, <3>4 DEF SweepFoundLive, platformVars
  <2>2. ~DueIn(s, k)'
    <3>1. k \in view'[s].present
      BY <1>1, <2>1, SettledFields DEF HalvesApart
    <3> QED BY <1>2, <2>1, <3>1 DEF DueIn, StampOf
  <2> QED
    BY <1>1, <1>2, <1>3, <1>7, <2>1, <2>2, SettledFields, EnforcedSame
<1>9. ASSUME NEW k \in Machines, SweepFoundExpired(s, k) PROVE Enforced(s)'
  <2>1. Settled(s, k) /\ pc[s] = "work"
    BY <1>9 DEF SweepFoundExpired
  <2>2. PICK verdict \in Gate(k) : Settle(s, k, verdict, out[s].expired + 1)
    BY <1>9 DEF SweepFoundExpired
  <2>3. /\ Answered(s, k)'
        /\ \A m \in Machines : Answered(s, m) => Answered(s, m)'
    BY <1>1, <2>1, <2>2, SettleAnswers
  <2> QED BY <1>1, <1>2, <1>7, <2>1, <2>3, SettledFields, EnforcedSame
<1> QED
  BY <1>4, <1>5, <1>6, <1>8, <1>9 DEF SweepPlatformHalf

LEMMA EnforcedRecordHalf ==
  ASSUME SweepIInv, ~UnreadableRows, [Next]_vars, NEW s \in Sweepers,
         SweepRecordHalf(s), ~run[s].dry
  PROVE  Enforced(s)'
<1>1. TypeOK /\ SnapshotTrue /\ AbsenceTrue /\ HalvesApart(s) /\ Kept
  BY StepKeeps DEF SweepIInv, IInv
<1>2. run'[s] = run[s]
  BY <1>1, MidRun
<1>3. PICK r \in view[s].left : \/ SweepRowHandled(s, r) \/ SweepRowGone(s, r)
                                \/ SweepRowLive(s, r) \/ SweepRowExpired(s, r)
  BY DEF SweepRecordHalf
<1>4. /\ Rest(s, r) /\ pc[s] = "work" /\ UNCHANGED <<state, lease>>
      /\ view[s].found = {} /\ r \in run[s].rows /\ Describes(r)
      /\ r.id \in Machines
  <2>1. Rest(s, r) /\ pc[s] = "work" /\ view[s].found = {}
    BY <1>3 DEF SweepRowHandled, SweepRowGone, SweepRowLive, SweepRowExpired,
       Rest
  <2>2. UNCHANGED <<state, lease>>
    BY <1>3 DEF SweepRowHandled, SweepRowGone, SweepRowLive, SweepRowExpired,
       platformVars
  <2>3. r \in run[s].rows /\ Describes(r)
    BY <1>1 DEF SnapshotTrue
  <2> QED BY <1>1, <2>1, <2>2, <2>3 DEF TypeOK, Runs, Rows
<1>5. \A m \in Machines : Concluded(s, m)' => Concluded(s, m) \/ m = r.id
  BY <1>1, <1>2, <1>4, RestFields DEF Concluded
<1>6. ASSUME \A m \in Machines : Answered(s, m) => Answered(s, m)',
             Concluded(s, r.id) \/ ~DueIn(s, r.id)' \/ Answered(s, r.id)'
      PROVE  Enforced(s)'
  BY <1>1, <1>2, <1>4, <1>5, <1>6, RestFields, EnforcedSame
<1>7. ASSUME out'[s] = out[s]
      PROVE  \A m \in Machines : Answered(s, m) => Answered(s, m)'
  BY <1>1, <1>4, <1>7 DEF Answered, Kept
<1>8. CASE SweepRowHandled(s, r)
  BY <1>6, <1>7, <1>8 DEF SweepRowHandled, Concluded
<1>9. CASE SweepRowGone(s, r)
  <2>1. Gone(r.id)
    BY <1>1, <1>4, <1>9 DEF SweepRowGone, Absent, AbsenceTrue, Ended
  <2>2. Answered(s, r.id)'
    BY <1>1, <1>4, <2>1 DEF Answered, Kept
  <2> QED BY <1>6, <1>7, <1>9, <2>2 DEF SweepRowGone
<1>10. CASE SweepRowLive(s, r)
  <2>1. ~(Stamped(r.id) /\ r.id \in view[s].present)
    BY <1>1, <1>4, <1>10 DEF SweepRowLive, Unsettled, HalvesApart
  <2>2. ~(lease[r.id] <= run[s].at)
    <3>1. r.expires \in Nat /\ run[s].at \in Nat
      BY <1>1, <1>4 DEF TypeOK, Runs, Rows, Times
    <3> QED BY <1>4, <1>10, <3>1 DEF SweepRowLive, Describes
  <2>3. ~DueIn(s, r.id)'
    BY <1>1, <1>2, <1>4, <2>1, <2>2, RestFields DEF DueIn
  <2> QED BY <1>6, <1>7, <1>10, <2>3 DEF SweepRowLive
<1>11. CASE SweepRowExpired(s, r)
  <2>1. PICK verdict \in Gate(r.id) :
          Settle(s, r.id, verdict,
                 out[s].expired + (IF verdict = "unreadable" THEN 0 ELSE 1))
    BY <1>11 DEF SweepRowExpired
  <2> QED BY <1>1, <1>4, <1>6, <2>1, SettleAnswers
<1> QED BY <1>3, <1>8, <1>9, <1>10, <1>11

LEMMA EnforcedEffects ==
  ASSUME SweepIInv, ~UnreadableRows, [Next]_vars, NEW s \in Sweepers,
         SweepEffects(s) \/ SweepFinish(s)
  PROVE  Enforced(s)'
<1>1. TypeOK /\ Kept
  BY StepKeeps DEF SweepIInv, IInv
<1>2. view'[s] = view[s] /\ run'[s] = run[s]
  BY <1>1, EffectsLeaveTheView DEF SweepFinish
<1>3. out[s] \in Outcomes /\ target[s] \in Machines
  BY <1>1 DEF TypeOK
<1>4. \A m \in Machines : Answered(s, m) => Answered(s, m)'
  <2>1. CASE SweepCall(s)
    <3>1. /\ out'[s] = [out[s] EXCEPT !.released = @ \cup {target[s]}]
          /\ state'[target[s]] = "swept"
      BY <1>1, <1>3, <2>1 DEF SweepCall, TypeOK
    <3>2. Gone(target[s])'
      <4>1. target'[s] = target[s]
        BY <2>1 DEF SweepCall
      <4> QED BY <3>1, <4>1 DEF Gone, SweepCall
    <3>3. /\ out'[s].refused = out[s].refused
          /\ out'[s].failed = out[s].failed
      BY <1>3, <3>1 DEF Outcomes
    <3> QED BY <1>1, <1>3, <3>1, <3>3 DEF Answered, Kept, Gone
  <2>2. CASE SweepCallMissing(s) \/ SweepCallFails(s)
    <3>1. out'[s] = [out[s] EXCEPT !.failed = @ \cup {target[s]}]
      BY <1>1, <2>2 DEF SweepCallMissing, SweepCallFails, TypeOK
    <3>2. /\ out'[s].refused = out[s].refused
          /\ out'[s].failed = out[s].failed \cup {target[s]}
      BY <1>3, <3>1 DEF Outcomes
    <3> QED BY <1>1, <3>2 DEF Answered, Kept
  <2>3. CASE SweepRetire(s) \/ SweepRetireFails(s)
    BY <1>1, <2>3 DEF SweepRetire, SweepRetireFails, Answered, Kept
  <2>4. CASE SweepFinish(s)
    BY <1>1, <2>4 DEF SweepFinish, Answered, Kept
  <2> QED BY <2>1, <2>2, <2>3, <2>4 DEF SweepEffects
<1>5. \A m \in Machines : Concluded(s, m)' => Concluded(s, m)
  BY <1>2 DEF Concluded
<1> QED BY <1>2, <1>4, <1>5, EnforcedSame

LEMMA EnforcedStep ==
  ASSUME SweepIInv, ~UnreadableRows, [Next]_vars, NEW s \in Sweepers,
         Sweep(s) \/ SweepCrash(s)
  PROVE  Enforced(s)'
<1>1. TypeOK
  BY DEF SweepIInv, IInv
<1>2. CASE SweepStart(s) \/ SweepCrash(s)
  BY <1>1, <1>2, ResetFields DEF Enforced, Concluded
<1>3. CASE ~run[s].dry /\ (SweepPlatformHalf(s) \/ SweepRecordHalf(s))
  BY <1>3, EnforcedPlatformHalf, EnforcedRecordHalf
<1>4. CASE run[s].dry /\ (SweepPlatformHalf(s) \/ SweepRecordHalf(s))
  BY <1>1, <1>4, MidRun DEF Enforced
<1> QED BY <1>2, <1>3, <1>4, EnforcedEffects DEF Sweep

\* A run starts from a record that names every machine without a stamp, but
\* for those written off, and those have ended.
LEMMA LegacyStep ==
  ASSUME SweepIInv, ~UnreadableRows, [Next]_vars, NEW s \in Sweepers,
         Sweep(s) \/ SweepCrash(s)
  PROVE  LegacyKnown(s)'
<1>1. TypeOK /\ Kept /\ RetiredTrue /\ KindsTrue
  BY StepKeeps DEF SweepIInv, IInv
<1>2. CASE SweepStart(s)
  <2>1. ASSUME NEW m \in Legacy, m \notin Retired
        PROVE  \E r \in Outstanding : r.id = m
    <3>1. PICK r \in record : r.id = m
      BY <1>1 DEF KindsTrue
    <3> QED BY <2>1, <3>1 DEF Outstanding
  <2>2. \A m \in Retired : Gone(m) /\ m \in Machines
    BY <1>1 DEF RetiredTrue, Ended, Retired, TypeOK, Rows
  <2> QED BY <1>1, <1>2, <2>1, <2>2, ResetFields DEF LegacyKnown, Kept
<1>3. CASE SweepCrash(s) /\ ~SweepStart(s)
  BY <1>1, <1>3, ResetFields DEF LegacyKnown
<1>4. CASE ~SweepCrash(s) /\ ~SweepStart(s)
  <2>1. run'[s] = run[s] /\ pc[s] # "idle"
    <3>1. CASE SweepFinish(s)
      BY <3>1, SMTT(60) DEF SweepFinish
    <3>2. CASE SweepPlatformHalf(s)
      BY <1>1, <3>2, MidRun DEF SweepPlatformHalf, SweepList, SweepListFails,
         SweepFoundLive, SweepFoundUnknown, SweepFoundExpired
    <3>3. CASE SweepRecordHalf(s)
      BY <1>1, <3>3, MidRun, RecordHalfRests DEF Rest
    <3>4. CASE SweepEffects(s)
      BY <1>1, <3>4, MidRun DEF SweepEffects, SweepCall, SweepCallMissing,
         SweepCallFails, SweepRetire, SweepRetireFails
    <3> QED BY <1>4, <3>1, <3>2, <3>3, <3>4 DEF Sweep
  <2> QED BY <1>1, <2>1, FleetAssumption DEF SweepIInv, LegacyKnown, Kept
<1> QED BY <1>2, <1>3, <1>4

(***************************************************************************)
(* The theorems                                                            *)
(***************************************************************************)

LEMMA SweepIInvStep ==
  ASSUME SweepIInv, [Next]_vars
  PROVE  SweepIInv'
<1>1. IInv /\ IInv' /\ KindsTrue' /\ Kept
  BY IInvStep, KindsStep, StepKeeps DEF SweepIInv, IInv
<1>2. ASSUME NEW s \in Sweepers, Sweep(s) \/ SweepCrash(s)
      PROVE  /\ HalvesApart(s)' /\ Tally(s)'
             /\ ~UnreadableRows => Enforced(s)' /\ LegacyKnown(s)'
  BY <1>1, <1>2, HalvesStep, TallyStep, EnforcedStep, LegacyStep
  DEF SweepIInv, IInv
<1>3. ASSUME UNCHANGED sweepVars, NEW s \in Sweepers PROVE Untouched(s)
  BY <1>3 DEF sweepVars, Untouched
<1>4. ASSUME NEW t \in Sweepers
      PROVE  /\ HalvesApart(t)' /\ Tally(t)'
             /\ ~UnreadableRows => Enforced(t)' /\ LegacyKnown(t)'
  BY <1>1, <1>2, <1>3, SweepWriters, OthersUntouched, UntouchedStep DEF IInv
<1> QED BY <1>1, <1>4 DEF SweepIInv

\* The strengthened invariant, sweeps included, holds of every reachable state.
THEOREM SweepsInductive == Spec => []SweepIInv
<1>1. Init => SweepIInv
  BY InitIInv, KindsInit, SweepInit DEF SweepIInv
<1>2. SweepIInv /\ [Next]_vars => SweepIInv'
  BY SweepIInvStep
<1> QED BY <1>1, <1>2, PTL DEF Spec

\* Where the ledger can be read, a finished sweep has counted every machine past
\* its lease once, however many halves saw it, and listed it in one place.
THEOREM MachinesAreCountedOnce ==
  ASSUME ~LedgerFaults
  PROVE  Spec => []CountedOnce
<1>1. SweepIInv => CountedOnce
  BY DEF SweepIInv, CountedOnce, Tally, Accounted
<1> QED BY <1>1, SweepsInductive, PTL

\* Where every row of a listing can be read, a real sweep that exits 0 has left
\* no machine it knew of running past its lease but those it names as refused.
THEOREM ExitZeroEnforces ==
  ASSUME ~UnreadableRows
  PROVE  Spec => []CleanSweepEnforces
<1>1. ASSUME SweepIInv, NEW s \in Sweepers,
             pc[s] = "done", ~run[s].dry, ~Failed(s),
             NEW m \in view[s].present \cup {r.id : r \in run[s].rows},
             DueIn(s, m), ~Gone(m)
      PROVE  m \in out[s].refused
  <2>1. /\ TypeOK /\ HalvesApart(s) /\ KindsTrue /\ AcquireOrder
        /\ Enforced(s) /\ LegacyKnown(s)
    BY <1>1 DEF SweepIInv, IInv
  <2>2. m \in Machines
    BY <2>1 DEF TypeOK, Views, Runs, Rows
  <2>3. view[s].found = {} /\ view[s].left = {} /\ out[s].failed = {}
    BY <1>1, <2>1 DEF HalvesApart, Failed
  <2>4. m \notin Foreign
    BY <1>1, <2>1 DEF DueIn, KindsTrue
  <2>5. Concluded(s, m)
    <3>1. CASE Stamped(m) /\ m \in view[s].present
      BY <2>1, <2>3, <3>1 DEF HalvesApart, Concluded
    <3>2. CASE \E r \in run[s].rows : r.id = m
      BY <2>3, <3>2 DEF Concluded
    <3>3. CASE m \in Legacy
      BY <1>1, <2>1, <3>2, <3>3 DEF LegacyKnown
    <3> QED BY <1>1, <2>4, <3>1, <3>2, <3>3 DEF Stamped
  <2> QED BY <1>1, <2>1, <2>2, <2>3, <2>5 DEF Enforced
<1>2. SweepIInv => CleanSweepEnforces
  BY <1>1 DEF CleanSweepEnforces
<1> QED BY <1>2, SweepsInductive, PTL
=============================================================================
