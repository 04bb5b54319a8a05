---------------------------- MODULE Requirements ----------------------------
(***************************************************************************)
(* What a profile requires of a machine (crates/lm-provision/src/          *)
(* machine.rs): the slots read into requirements, admission, and the       *)
(* judgement of what a machine turned out to be.                           *)
(***************************************************************************)
EXTENDS Integers, FiniteSets, Sequences

Targets == {"runpod", "container", "vast", "deepinfra", "deepinfra-deploy",
            "together", "hetzner"}

Exposures == {"public_http", "raw_tcp"}

\* An optional number that is not there, and a text that is no number.
Unset   == -1
Garbled == -2

-----------------------------------------------------------------------------
(* Reading the slots: a slot is a function from the keys it has             *)

Value(slot, key) == IF key \in DOMAIN slot THEN slot[key] ELSE Unset

GpuReads(slot) ==
  /\ DOMAIN slot \subseteq {"count", "min_vram_gb"}
  /\ \A key \in DOMAIN slot : slot[key] # Garbled
  /\ DOMAIN slot # {} => "count" \in DOMAIN slot

GpuOf(slot) == [asked |-> DOMAIN slot # {}, count |-> Value(slot, "count"),
                floor |-> Value(slot, "min_vram_gb")]

DiskReads(slot) ==
  /\ DOMAIN slot \subseteq {"ephemeral_gb", "persistent_gb", "persistent_at"}
  /\ \A key \in DOMAIN slot \ {"persistent_at"} : slot[key] # Garbled
  /\ "persistent_gb" \in DOMAIN slot => "persistent_at" \in DOMAIN slot

DiskOf(slot) == [asked |-> DOMAIN slot # {}, levels |-> DOMAIN slot,
                 ephemeral |-> Value(slot, "ephemeral_gb")]

PortsRead(slot) == \A port \in DOMAIN slot : port > 0 /\ slot[port] \in Exposures

\* The one service a target that runs the model itself is given.
NoServing == [asked |-> FALSE, vllm |-> FALSE, model |-> FALSE, args |-> FALSE,
              devices |-> Unset, others |-> FALSE]
ServingReads(starts) == Len(starts) <= 1
ServingOf(starts) == IF starts = <<>> THEN NoServing ELSE starts[1]

\* requirements_of: one refusal for all of them, before anything is asked.
SlotsRead(p) == /\ GpuReads(p.gpu) /\ DiskReads(p.disk) /\ PortsRead(p.ports)
                /\ ServingReads(p.starts)

Required(p) ==
  [gpu |-> GpuOf(p.gpu), disk |-> DiskOf(p.disk), ports |-> p.ports,
   serving |-> ServingOf(p.starts)]

\* Everything a requirement says, one name for each thing.
Declared(r) ==
  (IF r.gpu.asked THEN {"gpu.count"} ELSE {})
    \cup (IF r.gpu.asked /\ r.gpu.floor # Unset THEN {"gpu.min_vram_gb"} ELSE {})
    \cup r.disk.levels
    \cup (IF DOMAIN r.ports # {} THEN {"ports"} ELSE {})

-----------------------------------------------------------------------------
(* What a target can do                                                     *)

Provides(t) == CASE t = "runpod" -> Exposures
                 [] t \in {"vast", "container"} -> {"raw_tcp"}
                 [] OTHER -> {}

\* admit: nothing a profile asks of its ports is beyond the target.
Shortfall(t, r) == {port \in DOMAIN r.ports : r.ports[port] \notin Provides(t)}
Admitted(t, r) == Shortfall(t, r) = {}

-----------------------------------------------------------------------------
(* What a machine turned out to be                                          *)

\* gb * 10^9 / 2^20, rounded down; for the sizes used here u32 is wide enough.
GbToMib(gb) == (gb * 1953125) \div 2048

AtLeast(floor, got) == CASE got = Unset -> "NotChecked"
                         [] got # Unset /\ got >= floor -> "Satisfied"
                         [] OTHER -> "Unsatisfied"

\* `s` is a MachineState: the count and memory a description states, the disk
\* levels it speaks of, and the ports if it lists any.
Finding(name, r, s) ==
  CASE name = "gpu.count" -> AtLeast(r.gpu.count, s.count)
    [] name = "gpu.min_vram_gb" -> AtLeast(GbToMib(r.gpu.floor), s.mib)
    [] name = "ports" -> IF ~s.listed THEN "NotChecked"
                         ELSE IF \A port \in DOMAIN r.ports :
                                   <<port, r.ports[port]>> \in s.exposed
                           THEN "Satisfied" ELSE "Unsatisfied"
    [] OTHER -> IF name \in s.levels THEN "Satisfied" ELSE "NotChecked"

Observe(r, s) == {Finding(name, r, s) : name \in Declared(r)}

Verdict(findings) == IF "Unsatisfied" \in findings THEN "Unsatisfied"
                     ELSE IF "NotChecked" \in findings THEN "NotChecked"
                     ELSE "Satisfied"
=============================================================================
