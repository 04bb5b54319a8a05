------------------------------ MODULE MCAcquire ------------------------------
(* The invocations that tell the targets and the requirements apart.        *)
EXTENDS Acquire, TLC

Nothing == [target |-> "runpod", slot |-> {}, gpu |-> <<>>, disk |-> <<>>,
            ports |-> <<>>, starts |-> <<>>, ttl |-> 10, dry |-> FALSE,
            keys |-> TRUE]

Gpu(n) == "count" :> n
GpuOver(n, gb) == "count" :> n @@ "min_vram_gb" :> gb
Vllm(n) == [asked |-> TRUE, vllm |-> TRUE, model |-> TRUE, args |-> FALSE,
            devices |-> n, others |-> FALSE]

Pod == [Nothing EXCEPT !.slot = {"imageName"}, !.gpu = GpuOver(1, 24),
          !.ports = 22 :> "raw_tcp" @@ 8188 :> "public_http",
          !.disk = "persistent_gb" :> 80 @@ "persistent_at" :> 1]
Offer == [Nothing EXCEPT !.target = "vast", !.slot = {"image"},
            !.gpu = GpuOver(1, 24), !.disk = "ephemeral_gb" :> 60]
Container == [Nothing EXCEPT !.target = "deepinfra", !.gpu = GpuOver(1, 24),
                !.slot = {"container_image", "ssh_authorized_key"}]
Deployed == [Nothing EXCEPT !.target = "deepinfra-deploy", !.gpu = Gpu(2),
               !.starts = <<Vllm(2)>>]
Endpoint == [Nothing EXCEPT !.target = "together", !.gpu = Gpu(1),
               !.starts = <<Vllm(Unset)>>]
Server == [Nothing EXCEPT !.target = "hetzner",
             !.slot = {"server_type", "image", "ssh_keys"}]

\* Refused before anything is asked of anybody.
Misread ==
  { [Pod EXCEPT !.gpu = "min_vram_gb" :> 24], [Pod EXCEPT !.gpu = Gpu(Garbled)],
    [Pod EXCEPT !.disk = "persistent_gb" :> 80], [Pod EXCEPT !.ttl = Garbled],
    [Pod EXCEPT !.ports = 22 :> "udp"],
    [Endpoint EXCEPT !.starts = <<Vllm(1), Vllm(1)>>] }
Unfit ==
  { [Offer EXCEPT !.ports = 8188 :> "public_http"],
    [Server EXCEPT !.ports = 22 :> "raw_tcp"] }
Unmet ==
  { [Pod EXCEPT !.gpu = GpuOver(1, 512)], [Pod EXCEPT !.slot = {}],
    [Offer EXCEPT !.gpu = Gpu(0)],
    [Offer EXCEPT !.disk = "persistent_gb" :> 1 @@ "persistent_at" :> 1],
    [Container EXCEPT !.disk = "ephemeral_gb" :> 60],
    [Container EXCEPT !.slot = {"container_image"}],
    [Deployed EXCEPT !.gpu = Gpu(9), !.starts = <<Vllm(9)>>],
    [Deployed EXCEPT !.starts = <<Vllm(1)>>],
    [Deployed EXCEPT !.disk = "ephemeral_gb" :> 60],
    [Endpoint EXCEPT !.slot = {"zero_replicas"}],
    [Endpoint EXCEPT !.slot = {"hardware"}],
    [Server EXCEPT !.gpu = Gpu(1)], [Server EXCEPT !.disk = "ephemeral_gb" :> 60],
    [Server EXCEPT !.slot = @ \cup {"location", "datacenter"}],
    [Nothing EXCEPT !.target = "container"] }

\* Rendered, and asked for nothing or without a key.
Unspent == { [Pod EXCEPT !.dry = TRUE], [Endpoint EXCEPT !.keys = FALSE] }

\* Bought: plainly, without ports, over the profile's own words, and with a
\* GPU requirement nothing will speak of.
Sent ==
  { Pod, Offer, Container, Deployed, Endpoint, Server,
    [Pod EXCEPT !.slot = @ \cup {"name", "gpuCount"}, !.ports = <<>>],
    [Pod EXCEPT !.slot = @ \cup {"gpuTypeIds"}, !.gpu = GpuOver(1, 48)],
    [Offer EXCEPT !.ports = 8188 :> "raw_tcp"],
    [Endpoint EXCEPT !.gpu = GpuOver(1, 48)],
    [Server EXCEPT !.gpu = Gpu(0), !.slot = @ \cup {"labels.lmp-exp"}] }

AllJobs == Misread \cup Unfit \cup Unmet \cup Unspent \cup Sent

=============================================================================
