------------------------------ MODULE Adapters ------------------------------
(***************************************************************************)
(* The targets of crates/lm-provision-driver/src/infra.rs: what each       *)
(* answers to a requirement, the request it builds, and what it reads off  *)
(* the platform's description of a machine.                                *)
(*                                                                         *)
(* A provider slot is the set of fields the profile wrote under the        *)
(* target's own namespace; of their values only "zero_replicas" is told    *)
(* apart.  A request is what it asks for (the names of Declared), what the *)
(* profile itself wrote over that, and whether it can be sent at all.      *)
(***************************************************************************)
EXTENDS Requirements

\* Mutant: only a plain "cannot" refuses.
MayAskUnlessUnmet(answer) == answer # "unmet"

\* admitted: a target that selects the machine cannot ask for what it cannot
\* decide, so anything short of "met" refuses.
MayAsk(answer) == answer = "met"

\* Some catalogued device carries the memory asked for, if any is asked for.
Clears(catalogue, g) == \E gb \in catalogue : gb >= g.floor

Keeps(d) == d.levels \cap {"persistent_gb", "persistent_at"} # {}

Met(condition) == IF condition THEN "met" ELSE "unmet"

GpuNames == {"gpu.count", "gpu.min_vram_gb"}

Refusal == [sent |-> FALSE, asks |-> {}, over |-> {}]

-----------------------------------------------------------------------------
(* The managed pods: runpod                                                 *)

RunpodCatalogue == {24, 48, 80}

RunpodGpu(g) == Met(g.count = 0 \/ Clears(RunpodCatalogue, g))

RunpodDisk(d) == "met"

\* A pod without a GPU does not consult the GPU answer, and asks for no memory.
RunpodBody(r, slot) ==
  [sent |-> /\ "imageName" \in slot
            /\ r.gpu.asked /\ r.gpu.count > 0 => MayAsk(RunpodGpu(r.gpu))
            /\ r.disk.asked => MayAsk(RunpodDisk(r.disk)),
   asks |-> Declared(r) \ (IF r.gpu.count > 0 THEN {} ELSE {"gpu.min_vram_gb"}),
   over |-> (IF "gpuCount" \in slot THEN {"gpu.count"} ELSE {})
              \cup (IF "gpuTypeIds" \in slot THEN {"gpu.min_vram_gb"} ELSE {})]

-----------------------------------------------------------------------------
(* The marketplace: vast                                                    *)

VastGpu(g) == Met(g.count # 0)

VastDisk(d) == Met(~Keeps(d))

\* The query selects the offer, the create call sizes the disk and maps ports.
VastAcquisition(r, slot) ==
  [sent |-> /\ "image" \in slot
            /\ r.gpu.asked => MayAsk(VastGpu(r.gpu))
            /\ r.disk.asked => MayAsk(VastDisk(r.disk)),
   asks |-> Declared(r) \cap (GpuNames \cup {"ephemeral_gb", "ports"}),
   over |-> {}]

-----------------------------------------------------------------------------
(* The rented containers: deepinfra                                         *)

DeepinfraCatalogue == {180}

DeepinfraGpu(g) == Met(g.count # 0 /\ Clears(DeepinfraCatalogue, g))

DeepinfraDisk(d) == CASE Keeps(d) -> "unmet"
                      [] ~Keeps(d) /\ d.ephemeral # Unset -> "unexamined"
                      [] OTHER -> "met"

\* A name the create call requires is the lease; without a key nobody could
\* enter, and without a configuration there is nothing to rent.
DeepinfraBody(r, slot) ==
  [sent |-> /\ "container_image" \in slot
            /\ r.gpu.asked => MayAsk(DeepinfraGpu(r.gpu))
            /\ r.disk.asked => MayAsk(DeepinfraDisk(r.disk))
            /\ r.gpu.asked \/ "gpu_config" \in slot
            /\ slot \cap {"cloud_init_user_data", "ssh_authorized_key"} # {},
   asks |-> Declared(r) \cap GpuNames,
   over |-> IF "gpu_config" \in slot THEN GpuNames ELSE {}]

-----------------------------------------------------------------------------
(* The managed deployments: deepinfra-deploy and together                   *)

DeployCatalogue == {80, 141, 180, 270}

MaxGpus == 8

DeployGpu(g) == Met(g.count \in 1 .. MaxGpus /\ Clears(DeployCatalogue, g))

DeployDisk(d) == "unmet"

\* What the profile declares beside one vllm service, or of its devices, and
\* this target cannot do is refused and not dropped.
DeployBody(r, slot) ==
  [sent |-> /\ r.serving.asked /\ r.serving.vllm /\ r.serving.model
            /\ ~r.serving.others
            /\ r.serving.devices # Unset /\ r.gpu.asked =>
                 r.serving.devices = r.gpu.count
            /\ r.gpu.asked => MayAsk(DeployGpu(r.gpu))
            /\ r.disk.asked => MayAsk(DeployDisk(r.disk))
            /\ r.gpu.asked \/ "gpu" \in slot,
   asks |-> Declared(r) \cap GpuNames,
   over |-> IF "num_gpus" \in slot THEN {"gpu.count"} ELSE {}]

\* The hardware is the account's configuration, judged after the fact.
TogetherGpu(g) == Met(g.count # 0)

TogetherDisk(d) == "unmet"

TogetherTakes == {"config", "min_replicas", "max_replicas", "zero_replicas",
                  "inactive_timeout", "deployment_name"}

TogetherCreate(r, slot) ==
  [sent |-> /\ r.serving.asked /\ r.serving.model
            /\ ~r.serving.others /\ ~r.serving.args
            /\ r.gpu.asked => MayAsk(TogetherGpu(r.gpu))
            /\ r.disk.asked => MayAsk(TogetherDisk(r.disk))
            /\ "zero_replicas" \notin slot
            /\ slot \subseteq TogetherTakes,
   asks |-> {},
   over |-> {}]

-----------------------------------------------------------------------------
(* The servers without a GPU: hetzner                                       *)

HetznerGpu(g) == Met(g.count = 0)

HetznerDisk(d) == CASE Keeps(d) -> "unmet"
                    [] ~Keeps(d) /\ d.ephemeral # Unset -> "unexamined"
                    [] OTHER -> "met"

HetznerTakes == {"server_type", "image", "location", "datacenter", "user_data",
                 "name", "ssh_keys", "firewalls", "labels.lmp-exp"}

HetznerBody(r, slot) ==
  [sent |-> /\ r.gpu.asked => MayAsk(HetznerGpu(r.gpu))
            /\ r.disk.asked => MayAsk(HetznerDisk(r.disk))
            /\ slot \subseteq HetznerTakes
            /\ {"server_type", "image", "ssh_keys"} \subseteq slot
            /\ ~({"location", "datacenter"} \subseteq slot),
   asks |-> {},
   over |-> {}]

\* No transport reaches a container of one's own: it renders no request.
Request(t, r, slot) ==
  CASE t = "runpod"           -> RunpodBody(r, slot)
    [] t = "vast"             -> VastAcquisition(r, slot)
    [] t = "deepinfra"        -> DeepinfraBody(r, slot)
    [] t = "deepinfra-deploy" -> DeployBody(r, slot)
    [] t = "together"         -> TogetherCreate(r, slot)
    [] t = "hetzner"          -> HetznerBody(r, slot)
    [] t = "container"        -> Refusal

\* The field each target's lease is written in.
LeaseField(t) == CASE t \in {"runpod", "deepinfra"} -> "name"
                   [] t = "deepinfra-deploy" -> "model_name"
                   [] t = "hetzner" -> "labels.lmp-exp"
                   [] OTHER -> "the driver's own"

\* The lease goes in last: the one field the profile does not decide.
Stamp(t, slot, lease) == lease

-----------------------------------------------------------------------------
(* Reading a description back.  A description is a record of fields, each   *)
(* the empty set when blank and a singleton when stated: `status` is the    *)
(* word of a read-back, `made` the word of together's create response,      *)
(* `addr` the address, `mapped` the ports answered for, `open` the list of  *)
(* exposures, and what the machine has.                                     *)

BlankDoc == [status |-> {}, made |-> {}, addr |-> {}, mapped |-> {}, open |-> {},
             count |-> {}, mib |-> {}, levels |-> {}]

\* fill_blanks: what the fresh description leaves blank, the creation-time
\* one fills; anything it states stands.
Filled(fresh, earlier) ==
  [f \in DOMAIN fresh |-> IF fresh[f] = {} THEN earlier[f] ELSE fresh[f]]

Stated(field) == IF field = {} THEN Unset ELSE CHOOSE n \in field : TRUE

Unseen == [count |-> Unset, mib |-> Unset, levels |-> {}, listed |-> FALSE,
           exposed |-> {}]

RunpodState(d) == [count |-> Stated(d.count), mib |-> Stated(d.mib),
                   levels |-> d.levels, listed |-> d.open # {},
                   exposed |-> UNION d.open]

\* Every listed port is a plain TCP one; what a machine keeps is not told.
VastState(d) == [count |-> Stated(d.count), mib |-> Stated(d.mib),
                 levels |-> d.levels \cap {"ephemeral_gb"},
                 listed |-> d.open # {}, exposed |-> UNION d.open]

DeepinfraState(d) == [Unseen EXCEPT !.count = Stated(d.count),
                                    !.mib = Stated(d.mib)]

DeployState(d) == [Unseen EXCEPT !.count = Stated(d.count), !.mib = Stated(d.mib)]

TogetherState(d) == [Unseen EXCEPT !.count = Stated(d.count),
                                   !.mib = Stated(d.mib)]

ReadState(t, d) ==
  CASE t = "runpod"           -> RunpodState(d)
    [] t = "vast"             -> VastState(d)
    [] t = "deepinfra"        -> DeepinfraState(d)
    [] t = "deepinfra-deploy" -> DeployState(d)
    [] t = "together"         -> TogetherState(d)
    [] OTHER                  -> Unseen

\* Mutant: the create response's deployment is preferred.
TogetherStateOfCreate(d) == IF d.made # {} THEN d.made ELSE d.status

\* together_view: the read-back's deployment, the create response's only when
\* no read-back lists one.
TogetherWord(d) == IF d.status # {} THEN d.status ELSE d.made

\* still_materializing: a pod says nothing of the kind.
StillMaterializing(t, d) ==
  CASE t = "runpod"   -> FALSE
    [] t = "together" -> TogetherWord(d) = {"coming"}
    [] OTHER          -> d.status = {"coming"}

\* connection: some ssh or inference endpoint.
RunpodReached(d) == d.addr # {} /\ 22 \in d.mapped

VastReached(d) == d.addr # {}

\* The address is assigned before anything answers at it.
RunningAt(d) == d.status = {"up"} /\ d.addr # {}

TogetherReached(d) == TogetherWord(d) = {"up"} /\ d.addr # {}

HasAddress(t, d) == CASE t = "runpod"   -> RunpodReached(d)
                      [] t = "vast"     -> VastReached(d)
                      [] t = "together" -> TogetherReached(d)
                      [] OTHER          -> RunningAt(d)

\* The ports a description gives an address for.
Endpoints(d) == IF d.addr # {} THEN d.mapped ELSE {}
=============================================================================
