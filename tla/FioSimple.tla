------------------------------ MODULE FioSimple ------------------------------
(***************************************************************************)
(* perf/fio_simple.c as the user of the options library: which parameters  *)
(* of the run and settings of the agents end up in the target, the         *)
(* connection, the interfaces and fio, with the statistics of Sysstat      *)
(* started before all of it and stopped after.  What the test leaves in    *)
(* the kernel is the subject of TestRun.                                   *)
(***************************************************************************)
EXTENDS Sysstat, Options, Interfaces

CONSTANTS
  Asked,      \* parameters the runs of package.xml give the test
  InitAgents, \* what may be known of the initiator's agent
  TgtAgents,  \* and of the target's
  InitIf,     \* the interface of each side
  TgtIf

ASSUME FioSimpleAssumption == InitIf # TgtIf /\ Ifaces = {InitIf, TgtIf}

\* The values the runs of perf/package.xml give, where they give one
ASSUME AskedAssumption ==
  \A p \in Asked :
    /\ Has(p, "blocksize") => p["blocksize"] \in Nat /\ p["blocksize"] % Sector = 0
    /\ Has(p, "is_shuffle_blocksize") => p["is_shuffle_blocksize"] \in BOOLEAN
    /\ Has(p, "numjobs") => p["numjobs"].value \in Nat
    /\ Has(p, "perf_type") => p["perf_type"] \in {"latency", "throughput"}

VARIABLES
  params,  \* of this run
  agents,  \* of its environment
  used     \* what has been handed on: a function with a growing domain

vars == <<statVars, params, agents, used, conf>>

Body == {"target", "connect", "features", "feature_init", "feature_tgt",
         "fio", "work"}

TypeOK ==
  /\ at \in {"params"} \cup Body \cup Starting \cup Stopping \cup Ends
  /\ StatTypeOK /\ ConfTypeOK
  /\ DOMAIN used \subseteq {"methods", "target", "specific", "connect", "features", "fio"}

Init ==
  /\ at = "params" /\ StatInit /\ ConfInit
  /\ params \in Asked
  /\ agents \in [init : InitAgents, tgt : TgtAgents]
  /\ used = <<>>

Handed(what) == what \in DOMAIN used
Hand(what, value) == used' = [w \in DOMAIN used \cup {what} |->
                                IF w = what THEN value ELSE used[w]]

statistics == <<job, factory, sar, attempts>>
given == <<params, agents>>

-----------------------------------------------------------------------------

\* TEST_GET_* and tsapi_get_target_ta
GetTarget ==
  /\ at = "params"
  /\ \/ \E methods \in TargetMethods(agents.tgt) :
          Hand("methods", methods) /\ GoTo("factory")
     \/ Fails /\ UNCHANGED used
  /\ UNCHANGED <<statistics, given, conf>>

\* tsapi_read_nvme_target_opts, tsapi_read_nvme_target_specific, and the target's
\* init and setup with what they returned.
SetupTarget ==
  /\ at = "target"
  /\ \/ \E target \in TargetOpts(used["methods"], params, agents.tgt) :
          \E specific \in SpecificOpts(target, params) :
            Hand("target", [opts |-> target, specific |-> specific]) /\ GoTo("connect")
     \/ Fails /\ UNCHANGED used
  /\ UNCHANGED <<statistics, given, conf>>

\* tsapi_get_nvme_connect_opts, then the initiator's init, connect and list
Connect ==
  /\ at = "connect"
  /\ \/ \E opts \in ConnectOpts(agents.init) : Hand("connect", opts) /\ GoTo("features")
     \/ Fails /\ UNCHANGED used
  /\ UNCHANGED <<statistics, given, conf>>

ReadFeatures ==
  /\ at = "features"
  /\ \/ \E opts \in FeatureOpts(params) : Hand("features", opts) /\ GoTo("feature_init")
     \/ Fails /\ UNCHANGED used
  /\ UNCHANGED <<statistics, given, conf>>

\* Mutant: the initiator's interface is written twice
ApplyFeaturesToInit ==
  /\ at \in {"feature_init", "feature_tgt"}
  /\ LET calls == FeatureCalls(used["features"])
     IN \/ Applied(InitIf, calls) /\ GoTo(IF at = "feature_init" THEN "feature_tgt" ELSE "fio")
        \/ ApplyFails(InitIf, calls) /\ Fails
  /\ UNCHANGED <<statistics, given, used>>

\* tsapi_apply_if_feature_opts for init_if, then for tgt_if
ApplyFeatures ==
  /\ at \in {"feature_init", "feature_tgt"}
  /\ LET calls == FeatureCalls(used["features"])
     IN \/ /\ at = "feature_init" /\ Applied(InitIf, calls) /\ GoTo("feature_tgt")
        \/ /\ at = "feature_tgt" /\ Applied(TgtIf, calls) /\ GoTo("fio")
        \/ ApplyFails(IF at = "feature_init" THEN InitIf ELSE TgtIf, calls) /\ Fails
  /\ UNCHANGED <<statistics, given, used>>

\* tsapi_read_fio_opts, the performance profile, the device, the limits, the start.
StartFio ==
  /\ at = "fio"
  /\ \/ \E opts \in FioOpts(params) :
          Hand("fio", [Profiled(opts, params) EXCEPT !["filename"] = "device"])
          /\ GoTo("work")
     \/ Fails /\ UNCHANGED used
  /\ UNCHANGED <<statistics, given, conf>>

\* fio's wait, stop and report; TEST_SUCCESS goes on to the cleanup too.
Work ==
  /\ at = "work" /\ at' = "kill" /\ h' = 1 /\ verdict' \in {"pass", "fail"}
  /\ UNCHANGED <<statistics, given, used, conf>>

TestStep ==
  \/ GetTarget \/ SetupTarget \/ Connect \/ ReadFeatures \/ ApplyFeatures
  \/ StartFio \/ Work
  \/ SysstatStep /\ UNCHANGED <<given, used, conf>>

Next ==
  \/ TestStep
  \/ (\E k \in Handles : SarExits(k)) /\ UNCHANGED <<given, used, conf>>
  \/ Over /\ UNCHANGED vars

Spec == Init /\ [][Next]_vars

\* Each call returns.  Nothing is assumed of sar.
FairSpec == Spec /\ WF_vars(TestStep)

-----------------------------------------------------------------------------

\* Once fio is started, what it measures is what the run asked for: all its
\* parameters are fio's, but for a shuffled block size, which is still whole sectors
\* and never the one asked; a latency run is pinned, and a throughput run is confined
\* to a node unless that would squeeze 16 jobs or a multiple of the processors there.
MeasuresAsAsked ==
  Handed("fio") =>
    LET fio == used["fio"]
        many == params["numjobs"].value >= 16 \/ params["numjobs"].factor # "none"
        shuffled == Has(params, "is_shuffle_blocksize") /\ params["is_shuffle_blocksize"]
    IN /\ \A name \in FioRequired \ {"blocksize"} : fio[name] = params[name]
       /\ fio["blocksize"] % Sector = 0
       /\ shuffled <=> fio["blocksize"] # params["blocksize"]
       /\ Has(params, "perf_type") =>
            fio["prefix"] = IF params["perf_type"] = "latency" THEN "taskset"
                            ELSE IF many THEN "default" ELSE "numactl"

\* fio never works over a link whose ends differ in the MTU or in an offload, or whose
\* MTU or LRO is not what the run asked for, although the settings are written one by
\* one and any of them may fail.  Of TSO this says that the ends agree, and no more:
\* TsoAsAsked shows that it is not what was asked.
LinkAsAsked ==
  Handed("fio") =>
    /\ \A f, g \in Ifaces : \A name \in IfFeatureNames : conf[f][name] = conf[g][name]
    /\ \A f \in Ifaces : conf[f]["mtu"] = params["mtu"] /\ conf[f]["rx-lro"] = params["lro"]

\* tsapi_opts.h:21 of the field tso: "TCP segmentation offload enabled".  The TSO
\* features are what the run asked for.
TsoAsAsked ==
  Handed("fio") =>
    \A f \in Ifaces : \A name \in ToSet(TsoFeatures) : conf[f][name] = params["tso"]

\* The test ends even if no sar ever exits.
EventuallyOver == <>Over
=============================================================================
