---------------------------- MODULE FleetInductive ----------------------------
(* The strengthening of Fleet's safety properties that every step preserves.  *)
EXTENDS Fleet

\* An acquire fixes the lease before it spends, and spends before it records.
AcquireOrder ==
  \A m \in Machines :
    /\ acquiring[m] # "over" => Stamped(m)
    /\ acquiring[m] = "idle" => lease[m] = NoLease
    /\ acquiring[m] # "idle" /\ m \notin Foreign => lease[m] # NoLease
    /\ acquiring[m] \in {"idle", "creating"} => state[m] = "unbought"
    /\ acquiring[m] = "recording" => state[m] # "unbought"

\* A row that stands names a machine that was bought, under its true lease.
Describes(r) == state[r.id] # "unbought" /\ r.id \notin Foreign
                                         /\ lease[r.id] = r.expires

RecordTrue ==
  \A r \in record : state[r.id] # "unbought" /\ (~r.released => Describes(r))

SnapshotTrue ==
  \A s \in Sweepers : /\ run[s].at <= now
                      /\ view[s].left \subseteq run[s].rows
                      /\ \A r \in run[s].rows : Describes(r)

FoundBought ==
  \A s \in Sweepers : \A m \in view[s].found : state[m] # "unbought"

\* Bought, and over: as far as listings can be trusted to name everything.
Ended(m) == state[m] # "unbought" /\ (~UnreadableRows => Gone(m))

\* A listing is younger than the snapshot it is held against: a machine of the
\* snapshot that a listing of its platform did not show has ended.
AbsenceTrue ==
  \A s \in Sweepers : \A r \in run[s].rows :
    ProviderOf[r.id] \in view[s].listed /\ r.id \notin view[s].present
      => Ended(r.id)

LeaseOver(m, at) ==
  m \notin Foreign /\ lease[m] # NoLease /\ lease[m] < at + Second

EffectTrue ==
  /\ \A s \in Sweepers : /\ pc[s] = "call" => LeaseOver(target[s], run[s].at)
                         /\ pc[s] = "retire" => Ended(target[s])
  /\ \A m \in Machines : releasing[m] = "correcting" => Gone(m)

\* RetiredIsGone, as far as listings can be trusted.
RetiredTrue == \A m \in Retired : Ended(m)

IInv ==
  /\ TypeOK
  /\ AcquireOrder
  /\ RecordTrue
  /\ SnapshotTrue
  /\ FoundBought
  /\ AbsenceTrue
  /\ EffectTrue
  /\ RetiredTrue
  /\ NeverSweptEarly

-----------------------------------------------------------------------------
(* What one sweep has concluded, and what that leaves to be said of it.       *)

\* A machine bought before leases were stamped has its row, and nobody leased
\* a machine somebody else created.
KindsTrue ==
  /\ \A m \in Legacy : \E r \in record : r.id = m /\ ~r.released
  /\ \A m \in Foreign : lease[m] = NoLease
  /\ \A m \in Legacy \cup Foreign : state[m] # "unbought"

\* A platform is listed once, a listed machine is set aside once, and no row is
\* opened before the last platform has spoken.
HalvesApart(s) ==
  /\ view[s].planes \cap view[s].listed = {}
  /\ view[s].found \cap view[s].handled = {}
  /\ view[s].found \cup view[s].handled \subseteq view[s].present
  /\ \A m \in view[s].present :
       /\ state[m] # "unbought"
       /\ ProviderOf[m] \in view[s].listed
       /\ Stamped(m) => m \in view[s].found \cup view[s].handled
  /\ view[s].planes # {} \/ view[s].found # {} => view[s].left = run[s].rows
  /\ \A r \in run[s].rows : ~r.released
  /\ pc[s] = "done" =>
       view[s].planes = {} /\ view[s].found = {} /\ view[s].left = {}

\* Either half has dealt with the machine.
Concluded(s, m) ==
  m \in view[s].handled \/ \E r \in run[s].rows \ view[s].left : r.id = m

\* The machines whose lease the sweep has found to be over.
Accounted(s) ==
  out[s].released \cup out[s].refused \cup out[s].failed
    \cup {m \in {target[s]} : pc[s] = "call"}

\* Each is counted when it is concluded, and stands in one place.
Tally(s) ==
  /\ \A m \in Accounted(s) : Concluded(s, m)
  /\ out[s].released \cap (out[s].refused \cup out[s].failed) = {}
  /\ out[s].refused \cap out[s].failed = {}
  /\ pc[s] = "call" =>
       target[s] \notin out[s].released \cup out[s].refused \cup out[s].failed
  /\ IsFiniteSet(Accounted(s))
  /\ ~LedgerFaults => out[s].expired = Cardinality(Accounted(s))

\* A due machine a real sweep has concluded is gone, named, or being released.
Enforced(s) ==
  ~run[s].dry =>
    \A m \in Machines :
      Concluded(s, m) /\ DueIn(s, m) =>
        \/ Gone(m)
        \/ m \in out[s].refused \cup out[s].failed
        \/ pc[s] = "call" /\ target[s] = m

\* A machine without a stamp is found again in the snapshot, or has ended.
LegacyKnown(s) ==
  pc[s] # "idle" =>
    \A m \in Legacy : Gone(m) \/ \E r \in run[s].rows : r.id = m

SweepIInv ==
  /\ IInv
  /\ KindsTrue
  /\ \A s \in Sweepers :
       /\ HalvesApart(s)
       /\ Tally(s)
       /\ ~UnreadableRows => Enforced(s) /\ LegacyKnown(s)
=============================================================================
