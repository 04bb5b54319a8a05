-------------------------------- MODULE Leases --------------------------------
(***************************************************************************)
(* What the fleet promises whoever pays for it, with no process, file or   *)
(* listing in sight: a machine is bought under a lease or is somebody      *)
(* else's; enforcement takes it only once its lease has run out, to the    *)
(* second; an operator or the platform may end it at any time; and it is   *)
(* written off only after it has ended.  Fleet implements this.            *)
(***************************************************************************)
EXTENDS Integers

CONSTANTS Machines, Second

VARIABLES
  now,      \* the clock
  state,    \* what has become of each machine
  lease,    \* when each machine's lease runs out, or NoLease
  retired   \* the machines written off

vars == <<now, state, lease, retired>>

NoLease == -1
Ended == {"swept", "released", "forced", "vanished"}

Init ==
  /\ now = 0
  /\ state \in [Machines -> {"unbought", "running"}]
  /\ lease \in [Machines -> Nat \cup {NoLease}]
  /\ retired = {}

Pass ==
  /\ now' = now + 1
  /\ UNCHANGED <<state, lease, retired>>

\* The lease is fixed before the money is spent, and never in the past.
Agree(m) ==
  /\ state[m] = "unbought" /\ lease[m] = NoLease
  /\ lease' = [lease EXCEPT ![m] = lease'[m]]
  /\ lease'[m] \in Nat /\ lease'[m] >= now
  /\ UNCHANGED <<now, state, retired>>

Buy(m) ==
  /\ state[m] = "unbought" /\ lease[m] # NoLease
  /\ state' = [state EXCEPT ![m] = "running"]
  /\ UNCHANGED <<now, lease, retired>>

Enforce(m) ==
  /\ state[m] = "running"
  /\ lease[m] # NoLease /\ lease[m] < now + Second
  /\ state' = [state EXCEPT ![m] = "swept"]
  /\ UNCHANGED <<now, lease, retired>>

End(m) ==
  /\ state[m] = "running"
  /\ \E how \in Ended \ {"swept"} : state' = [state EXCEPT ![m] = how]
  /\ UNCHANGED <<now, lease, retired>>

WriteOff(m) ==
  /\ state[m] \in Ended
  /\ retired' = retired \cup {m}
  /\ UNCHANGED <<now, state, lease>>

Next ==
  \/ Pass
  \/ \E m \in Machines : \/ Agree(m) \/ Buy(m) \/ Enforce(m) \/ End(m)
                         \/ WriteOff(m)

Spec == Init /\ [][Next]_vars
=============================================================================
