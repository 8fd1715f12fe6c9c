------------------------------- MODULE Options -------------------------------
(***************************************************************************)
(* How the tests read their parameters (nvmeof-ts/lib/tsapi_opts.c and     *)
(* .h, nvmeof-ts/lib/nvmeof_ts.c).  Parameters come from the package.xml   *)
(* files and are a function whose domain are those given; what is known of *)
(* an agent comes from the Configurator and is a record.                   *)
(*                                                                         *)
(* Each reader below is the SET of the values it may return: several where *)
(* it draws at random, none where it ends the test with TEST_FAIL.         *)
(***************************************************************************)
EXTENDS Naturals, Sequences

Has(params, name) == name \in DOMAIN params  \* TEST_HAS_PARAM

\* A list of REQUIRED and OPTIONAL: table[f] is the parameter field f is set from.
ReadInto(opts, params, table) ==
  [f \in DOMAIN opts |-> IF f \in DOMAIN table /\ Has(params, table[f])
                           THEN params[table[f]] ELSE opts[f]]

ByTheirNames(names) == [n \in names |-> n]

-----------------------------------------------------------------------------
(***************************************************************************)
(* fio                                                                     *)
(***************************************************************************)

FioRequired ==
  {"blocksize", "ioengine", "rwtype", "runtime_sec", "iodepth", "numjobs", "rwmixread"}
FioOptional == {"name", "filename", "user"}

Sector == 512

\* shuffled_blocksize: mult is 1 + rand() % (max_mult - 1)
Shuffled(base) == {base + Sector * mult : mult \in 1..6}

\* tsapi_read_fio_opts; a "default" is TAPI's, which is NULL for the prefix.
FioOpts(params) ==
  LET defaults == [f \in FioRequired \cup FioOptional \cup {"prefix", "rand_gen"} |-> "default"]
      opts == ReadInto(defaults, params, ByTheirNames(FioRequired \cup FioOptional))
      shuffle == Has(params, "is_shuffle_blocksize") /\ params["is_shuffle_blocksize"]
      sizes == IF shuffle THEN Shuffled(opts["blocksize"]) ELSE {opts["blocksize"]}
  IN IF FioRequired \subseteq DOMAIN params
       THEN {[opts EXCEPT !["blocksize"] = size, !["rand_gen"] = "tausworthe64"] : size \in sizes}
       ELSE {}

\* Mutant: any number of jobs is confined to one node
ThroughputPrefixAlways(opts) == "numactl"

\* tsapi_apply_fio_opts_throughput: one node for a fixed, small number of jobs.
ThroughputPrefix(opts) ==
  IF opts["numjobs"].value < 16 /\ opts["numjobs"].factor = "none"
    THEN "numactl" ELSE "default"

\* tsapi_apply_perf_profiles_fio_opts
Profiled(opts, params) ==
  IF ~Has(params, "perf_type") THEN opts
  ELSE [opts EXCEPT !["prefix"] =
          CASE params["perf_type"] = "latency" -> "taskset"
            [] params["perf_type"] = "throughput" -> ThroughputPrefix(opts)
            [] OTHER -> @]

-----------------------------------------------------------------------------
(***************************************************************************)
(* Target                                                                  *)
(***************************************************************************)

\* tsapi_get_target_ta; "unset" is a tgt_type the Configurator does not have.
TargetMethods(agent) == {agent.tgt_type} \cap {"kernel", "onvme"}

\* tsapi_agent_get_device(agent, 0)
FirstDevice(agent) == IF Len(agent.block) = 0 THEN {} ELSE {agent.block[1]}

\* tsapi_agent_get_nqn and the fallback of its caller
Nqn(agent) == IF agent.nqn \in {"unset", ""} THEN "te_testing" ELSE agent.nqn

NvmeParameters == [transport |-> "transport", subnqn |-> "nqn", nvmet_port |-> "port"]

\* tsapi_read_nvme_target_opts: the parameter "nqn" is read and overwritten.
TargetOpts(methods, params, agent) ==
  LET defaults == [f \in DOMAIN NvmeParameters |-> "default"]
      opts == ReadInto(defaults, params, NvmeParameters)
  IN {[methods |-> methods, device |-> device, subnqn |-> Nqn(agent),
       transport |-> opts["transport"], nvmet_port |-> opts["nvmet_port"]]
        : device \in FirstDevice(agent)}

\* read_onvme_target_opts.  "max_worker_conn" is looked for, "onvme_max_worker_conn"
\* is read; "numa-local" is not "default" and stays as it is.
OnvmeOpts(target, params) ==
  LET asksWorkers == /\ Has(params, "max_worker_conn")
                     /\ params["max_worker_conn"] # "default"
      asksCores == Has(params, "onvme_cores") /\ params["onvme_cores"] # "default"
  IN IF asksWorkers /\ ~Has(params, "onvme_max_worker_conn") THEN {}
     ELSE {[max_worker_conn |-> IF asksWorkers THEN params["onvme_max_worker_conn"]
                                               ELSE "default",
            cores |-> IF asksCores THEN params["onvme_cores"] ELSE "default",
            is_nullblock |-> target.device = "nullb0"]}

tsapi_is_onvme_target(target) == target.methods = "onvme"

\* tsapi_read_nvme_target_specific; <<>> is the NULL of the caller.
SpecificOpts(target, params) ==
  IF tsapi_is_onvme_target(target) THEN {<<opts>> : opts \in OnvmeOpts(target, params)}
                                   ELSE {<<>>}

-----------------------------------------------------------------------------
(***************************************************************************)
(* Connection and interfaces                                               *)
(***************************************************************************)

\* local_cfg_get_nvme_connect_opt
Digest(value) ==
  CASE value = "random" -> BOOLEAN
    [] value \in {"0", "1"} -> {value = "1"}
    [] OTHER -> {}

\* tsapi_get_nvme_connect_opts
ConnectOpts(agent) ==
  [hdr_digest : Digest(agent.hdr_digest), data_digest : Digest(agent.data_digest),
   duplicate_connection : {FALSE}]

FeatureRequired == {"mtu", "tso", "lro"}

\* tsapi_read_if_feature_opts
FeatureOpts(params) ==
  IF FeatureRequired \subseteq DOMAIN params
    THEN {[mtu |-> params["mtu"], tso |-> params["tso"], lro |-> params["lro"]]}
    ELSE {}

NetemRequired == {"if_delay_msec", "if_loss_proc", "if_corruption_prob"}

\* tsapi_read_if_netem_opts
NetemOpts(params) ==
  IF NetemRequired \subseteq DOMAIN params
    THEN {[delay |-> params["if_delay_msec"], loss |-> params["if_loss_proc"],
           corruption |-> params["if_corruption_prob"]]}
    ELSE {}

=============================================================================
