------------------------------ MODULE MultiTest ------------------------------
(***************************************************************************)
(* The tests with several initiators and targets: perf/fio_multi.c and     *)
(* stability/fio_multi_stability.c.  They keep what they use in the lists  *)
(* of nvmeof_test.h, filled at the head, and everything else is a loop     *)
(* over one of these lists, in the body as in the cleanup.                 *)
(*                                                                         *)
(* An initiator object here is a host controller, one for each pair of an  *)
(* initiator host and a target, on an RPC server of its own and without a  *)
(* disconnect server.  There is one fio for each pair.                     *)
(***************************************************************************)
EXTENDS Tools, Interfaces, Options

CONSTANTS
  MaxHosts,      \* TEST_NVME_MAX_HOSTS
  Environments,  \* how many hosts of each kind there are, and when netem is applied
  Params         \* the parameters of the run

Hosts == 0..(MaxHosts - 1)

sys_opts == CHOOSE opts \in FeatureOpts(Params) : TRUE
netem_opts == CHOOSE opts \in NetemOpts(Params) : TRUE

ASSUME MultiAssumption ==
  /\ MaxHosts \in Nat \ {0}
  /\ Environments \subseteq [inits : 1..MaxHosts, tgts : 1..MaxHosts,
                             netem : {"never", "before", "after"}]
  /\ Initiators = Hosts \X Hosts
  /\ Apps = Initiators
  /\ \A p \in Apps : AppOn[p] = p /\ AppServer[p] = RootOf[p]
  /\ \A p, q \in Initiators : RootOf[p] = RootOf[q] => p = q
  /\ Ifaces = {"init", "tgt"} \X Hosts
  /\ FeatureRequired \cup NetemRequired \subseteq DOMAIN Params

VARIABLES
  env,             \* the environment, and whether netem is applied "before" or "after"
                   \* the connects, or "never" (fio_multi)
  all_initiators,  \* list of initiator hosts
  all_targets,     \* list of targets
  host_ctrls,      \* list of controllers of each initiator, by target
  all_fios,        \* list of fio instances, by pair
  tgt,             \* what runs behind each target object
  stage,           \* the loop being executed
  todo,            \* what is left of it
  verdict          \* the test's result variable

listVars == <<all_initiators, all_targets, host_ctrls, all_fios>>
flowVars == <<stage, todo, verdict>>
vars == <<niVars, job, conf, env, listVars, tgt, flowVars>>

\* The loops in program order.
Following(s) ==
  CASE s = "load"     -> IF env.netem = "before" THEN "netem" ELSE "setup"
    [] s = "netem"    -> IF env.netem = "before" THEN "setup" ELSE "features"
    [] s = "setup"    -> "connect"
    [] s = "connect"  -> IF env.netem = "after" THEN "netem" ELSE "features"
    [] s = "features" -> "create"
    [] s = "create"   -> "start"
    [] s = "start"    -> "wait"
    [] s = "wait"     -> "report"
    [] s = "report"   -> "disconnect"
    [] s = "disconnect" -> "fini"
    [] s = "fini"     -> "done"

Cleanup == {"disconnect", "fini", "done"}

Stages ==
  {"load", "setup", "connect", "features", "create", "start", "wait", "report"} \cup Cleanup
  \cup (IF env.netem = "never" THEN {} ELSE {"netem"})

EnvPairs == (0..(env.inits - 1)) \X (0..(env.tgts - 1))

TypeOK ==
  /\ NITypeOK /\ ToolTypeOK /\ ConfTypeOK
  /\ env \in Environments
  /\ all_initiators \in Seq(Hosts) /\ all_targets \in Seq(Hosts)
  /\ host_ctrls \in [Hosts -> Seq(Hosts)] /\ all_fios \in Seq(Apps)
  /\ tgt \in [Hosts -> {"typed", "inited", "serving", "finished"}]
  /\ stage \in Stages
  /\ todo \in CASE stage \in {"load", "netem", "setup", "fini"} -> Seq(Hosts)
               [] stage = "features" -> Seq(Ifaces)
               [] OTHER -> Seq(Initiators)
  /\ verdict \in {"pass", "fail"}

-----------------------------------------------------------------------------
(***************************************************************************)
(* Loops                                                                   *)
(***************************************************************************)

\* Mutant: one end point too many
EndpointsInclusive == [k \in 1..(MaxHosts + 1) |-> k - 1]

\* for (ep = 0; ep < TEST_NVME_MAX_HOSTS; ep++)
Endpoints == [k \in 1..MaxHosts |-> k - 1]

\* tsapi_for_each_initiator, tsapi_for_each_target inside it
Pairs ==
  FlattenSeq([k \in DOMAIN all_initiators |->
    [m \in DOMAIN all_targets |-> <<all_initiators[k], all_targets[m]>>]])

\* Mutant: the inner loop goes over the first initiator's controllers
HostCtrlsOfFirst ==
  FlattenSeq([k \in DOMAIN all_initiators |->
    LET i == all_initiators[1] IN
    [m \in DOMAIN host_ctrls[i] |-> <<i, host_ctrls[i][m]>>]])

\* tsapi_for_each_initiator_and_host_ctrl
HostCtrls ==
  FlattenSeq([k \in DOMAIN all_initiators |->
    LET i == all_initiators[k] IN
    [m \in DOMAIN host_ctrls[i] |-> <<i, host_ctrls[i][m]>>]])

\* tapi_env_foreach_if
EnvIfs ==
  [k \in 1..env.inits |-> <<"init", k - 1>>] \o [k \in 1..env.tgts |-> <<"tgt", k - 1>>]

Items(s) ==
  CASE s = "load" -> Endpoints
    [] s = "netem" -> all_initiators
    [] s \in {"setup", "fini"} -> all_targets
    [] s = "connect" -> Pairs
    [] s = "features" -> EnvIfs
    [] s \in {"create", "disconnect"} -> HostCtrls
    [] s \in {"start", "wait", "report"} -> all_fios
    [] s = "done" -> <<>>

At(s) == stage = s /\ todo # <<>>
Here == Head(todo)

\* The call returned, or its result is ignored.
Goes == todo' = Tail(todo) /\ UNCHANGED <<stage, verdict>>

\* CHECK_RC or TEST_FAIL in the body
Fails ==
  /\ stage' = "disconnect" /\ todo' = Items("disconnect")
  /\ UNCHANGED verdict

\* The end of a loop; behind the last one of the body there is TEST_SUCCESS.
LoopEnds ==
  /\ todo = <<>> /\ stage # "done"
  /\ stage' = Following(stage) /\ todo' = Items(stage')
  /\ verdict' = IF stage = "report" THEN "pass" ELSE verdict
  /\ UNCHANGED niVars /\ UNCHANGED <<job, conf, tgt>>
  /\ UNCHANGED env /\ UNCHANGED listVars

Init ==
  /\ env \in Environments
  /\ all_initiators = <<>> /\ all_targets = <<>>
  /\ host_ctrls = [i \in Hosts |-> <<>>] /\ all_fios = <<>>
  /\ tgt = [t \in Hosts |-> "typed"]
  /\ stage = "load" /\ todo = Items("load") /\ verdict = "fail"
  /\ rpcs = RootOf  \* NULL in fact, and not read before it is set
  /\ disc = [p \in Initiators |-> Null]
  /\ dev = [p \in Initiators |-> FALSE]
  /\ rc = [p \in Initiators |-> "none"]
  /\ alive = {}
  /\ deftimeout = [s \in Servers |-> "default"]
  /\ pending = [s \in Servers |-> Null]
  /\ ctrl = [p \in Initiators |-> "absent"]
  /\ job = [a \in Apps |-> "none"]
  /\ ConfInit

-----------------------------------------------------------------------------
(***************************************************************************)
(* The body                                                                *)
(***************************************************************************)

\* TEST_GET_INITIATOR and TEST_GET_TARGET: LIST_INSERT_HEAD what there is.  A host
\* without its RPC server fails the test before it is inserted.
LoadStep ==
  /\ At("load")
  /\ LET initiators == IF Here < env.inits THEN Cons(Here, all_initiators)
                                           ELSE all_initiators
         targets == IF Here < env.tgts THEN Cons(Here, all_targets) ELSE all_targets
     IN \/ Goes /\ all_initiators' = initiators /\ all_targets' = targets
        \/ Fails /\ all_initiators' \in {all_initiators, initiators} /\ UNCHANGED all_targets
  /\ UNCHANGED <<host_ctrls, all_fios, job, conf, tgt>>
  /\ UNCHANGED niVars /\ UNCHANGED env

NetemStep ==
  /\ At("netem")
  /\ \/ Applied(<<"init", Here>>, NetemCalls(netem_opts)) /\ Goes
     \/ ApplyFails(<<"init", Here>>, NetemCalls(netem_opts)) /\ Fails
  /\ UNCHANGED niVars /\ UNCHANGED <<job, tgt>>
  /\ UNCHANGED env /\ UNCHANGED listVars

\* tapi_nvme_target_init is not checked, options and tapi_nvme_target_setup are.
SetupStep ==
  /\ At("setup")
  /\ \/ tgt' = [tgt EXCEPT ![Here] = "serving"] /\ Goes
     \/ tgt' = [tgt EXCEPT ![Here] = "inited"] /\ Fails
     \/ UNCHANGED tgt /\ Fails
  /\ UNCHANGED niVars /\ UNCHANGED <<job, conf>>
  /\ UNCHANGED env /\ UNCHANGED listVars

\* Mutant: one server for all controllers of an initiator
ServerOfInitiator(p) == RootOf[<<p[1], 0>>]

\* "<agent of the initiator>_to_<agent of the target>"
ServerOf(p) == RootOf[p]

\* Mutant: the list of controllers is begun anew
AddHostCtrlAlone ==
  /\ At("connect") /\ Here[2] \notin ToSet(host_ctrls[Here[1]])
  /\ \/ /\ rpcs' = [rpcs EXCEPT ![Here] = ServerOf(Here)]
        /\ alive' = alive \cup {ServerOf(Here)}
        /\ host_ctrls' = [host_ctrls EXCEPT ![Here[1]] = <<Here[2]>>]
        /\ UNCHANGED flowVars
     \/ Fails /\ UNCHANGED <<rpcs, alive, host_ctrls>>
  /\ UNCHANGED <<disc, dev, rc, deftimeout, pending, ctrl>>
  /\ UNCHANGED <<all_initiators, all_targets, all_fios, job, conf, tgt>>
  /\ UNCHANGED env

\* tsapi_initiator_add_host_ctrl; the connect follows.
AddHostCtrl ==
  /\ At("connect") /\ Here[2] \notin ToSet(host_ctrls[Here[1]])
  /\ \/ /\ rpcs' = [rpcs EXCEPT ![Here] = ServerOf(Here)]
        /\ alive' = alive \cup {ServerOf(Here)}
        /\ host_ctrls' = [host_ctrls EXCEPT ![Here[1]] = Cons(Here[2], @)]
        /\ UNCHANGED flowVars
     \/ Fails /\ UNCHANGED <<rpcs, alive, host_ctrls>>
  /\ UNCHANGED <<disc, dev, rc, deftimeout, pending, ctrl>>
  /\ UNCHANGED <<all_initiators, all_targets, all_fios, job, conf, tgt>>
  /\ UNCHANGED env

ConnectStep ==
  /\ At("connect") /\ Here[2] \in ToSet(host_ctrls[Here[1]])
  /\ \/ Connected(Here) /\ Goes
     \/ \E outcome \in {"refused", "halfway", "orphan"} :
          ConnectFailed(Here, outcome) /\ Fails
  /\ UNCHANGED <<job, conf, tgt>> /\ UNCHANGED env /\ UNCHANGED listVars

\* Mutant: the callback of tapi_env_foreach_if goes on after a failure
FeaturesForgiving ==
  /\ At("features")
  /\ \/ Applied(Here, FeatureCalls(sys_opts)) /\ Goes
     \/ ApplyFails(Here, FeatureCalls(sys_opts)) /\ Goes
  /\ UNCHANGED niVars /\ UNCHANGED <<job, tgt>>
  /\ UNCHANGED env /\ UNCHANGED listVars

\* tsapi_env_apply_if_feature_opts
FeaturesStep ==
  /\ At("features")
  /\ \/ Applied(Here, FeatureCalls(sys_opts)) /\ Goes
     \/ ApplyFails(Here, FeatureCalls(sys_opts)) /\ Fails
  /\ UNCHANGED niVars /\ UNCHANGED <<job, tgt>>
  /\ UNCHANGED env /\ UNCHANGED listVars

\* tsapi_read_fio_opts, tapi_fio_create and tsapi_fio_add
CreateStep ==
  /\ At("create")
  /\ \/ /\ Goes
        /\ all_fios' = Cons(Here, all_fios)
        /\ job' = [job EXCEPT ![Here] = "idle"]
     \/ Fails /\ UNCHANGED <<all_fios, job>>
  /\ UNCHANGED <<all_initiators, all_targets, host_ctrls, conf, tgt>>
  /\ UNCHANGED niVars /\ UNCHANGED env

StartStep ==
  /\ At("start")
  /\ \/ Started(Here) /\ Goes
     \/ UNCHANGED job /\ Fails

WaitStep ==
  /\ At("wait") /\ UNCHANGED job
  /\ \/ Waited(Here) /\ Goes
     \/ WaitFails(Here) /\ Fails

\* tapi_fio_stop, then the report
ReportStep ==
  /\ At("report")
  /\ \/ Stopped(Here) /\ (Goes \/ Fails)
     \/ UNCHANGED job /\ Fails

FioStep ==
  /\ StartStep \/ WaitStep \/ ReportStep
  /\ UNCHANGED niVars /\ UNCHANGED <<conf, tgt>>
  /\ UNCHANGED env /\ UNCHANGED listVars

-----------------------------------------------------------------------------
(***************************************************************************)
(* The cleanup                                                             *)
(***************************************************************************)

\* Mutant: the first disconnect that fails ends the loop
DisconnectGivesUp ==
  /\ At("disconnect")
  /\ \E d \in Durations[Here] :
       \/ RawDisconnectOk(Here, d) /\ Goes
       \/ RawDisconnectFailed(Here, d) /\ todo' = <<>> /\ UNCHANGED <<stage, verdict>>
  /\ JobsFollow
  /\ UNCHANGED <<conf, tgt>> /\ UNCHANGED env /\ UNCHANGED listVars

\* The result of the disconnect is ignored.
DisconnectStep ==
  /\ At("disconnect") /\ Goes
  /\ \E d \in Durations[Here] : RawDisconnectOk(Here, d) \/ RawDisconnectFailed(Here, d)
  /\ JobsFollow
  /\ UNCHANGED <<conf, tgt>> /\ UNCHANGED env /\ UNCHANGED listVars

FiniStep ==
  /\ At("fini") /\ Goes
  /\ tgt' = [tgt EXCEPT ![Here] = "finished"]
  /\ UNCHANGED niVars /\ UNCHANGED <<job, conf>>
  /\ UNCHANGED env /\ UNCHANGED listVars

TestStep ==
  \/ LoadStep \/ NetemStep \/ SetupStep \/ AddHostCtrl \/ ConnectStep
  \/ FeaturesStep \/ CreateStep \/ FioStep \/ DisconnectStep \/ FiniStep \/ LoopEnds

-----------------------------------------------------------------------------
(***************************************************************************)
(* The bed moves on its own                                                *)
(***************************************************************************)

Unsteady(p) == tgt[p[2]] # "serving" \/ Impaired(<<"init", p[1]>>)

KernelStep ==
  /\ \/ \E p \in Initiators : \/ Unsteady(p) /\ CtrlLoses(p)
                              \/ tgt[p[2]] = "serving" /\ CtrlRecovers(p)
                              \/ CtrlExpires(p)
     \/ \E s \in Servers : LateAnswer(s)
  /\ JobsFollow
  /\ UNCHANGED <<conf, tgt>>
  /\ UNCHANGED env /\ UNCHANGED listVars /\ UNCHANGED flowVars

FioExits(a) ==
  /\ Exits(a, stage = "wait")
  /\ UNCHANGED niVars /\ UNCHANGED <<conf, tgt>>
  /\ UNCHANGED env /\ UNCHANGED listVars /\ UNCHANGED flowVars

Over == stage = "done"

Next ==
  \/ TestStep
  \/ KernelStep
  \/ \E a \in Apps : FioExits(a)
  \/ Over /\ UNCHANGED vars

Spec == Init /\ [][Next]_vars

\* Every call of the test ends in an answer or a time out; nothing is assumed of
\* the kernel and of fio.
FairSpec == Spec /\ WF_vars(TestStep)

-----------------------------------------------------------------------------
(***************************************************************************)
(* Properties                                                              *)
(***************************************************************************)

\* The cleanup finds every controller there may be: whatever call of the set-up
\* failed, a pair that was, or may have been, connected is in the lists.
ConnectedIsListed ==
  \A p \in Initiators :
    ctrl[p] # "absent" \/ dev[p] => p \in ToSet(HostCtrls)

\* When the targets are wiped a pair is still connected only if its own disconnect
\* was tried and failed: the loop neither skips a controller nor stops early.
LeftoverWasTried ==
  stage \in {"fini", "done"} => \A p \in Initiators : dev[p] => rc[p] = "error"

\* "Create a separate RPC server process": a disconnect that hangs blocks only its
\* own pair.  However many hang, each one finds its server ready to take the call.
HangsAlone ==
  stage = "disconnect" /\ todo # <<>> => Ready(rpcs[Here])

\* A passed test has connected every initiator to every target ("assumes all to all
\* connectivity") and has let fio work to its end on every pair.
PassedWorkedEverywhere ==
  verdict = "pass" => \A p \in EnvPairs : job[p] = "ended"

\* "Same on all interfaces": while there is fio the interfaces of the environment do
\* not differ in MTU or an offload, and have the LRO that was asked.
SameOnAllInterfaces ==
  all_fios # <<>> =>
    \A f, g \in ToSet(EnvIfs) : \A name \in IfFeatureNames :
      conf[f][name] = conf[g][name] /\ conf[f]["rx-lro"] = Params["lro"]

\* A link is never impaired by half of what was asked, and fio of the stability test
\* never works over a link that was not impaired.
NetemAllOrNothing ==
  \A i \in Hosts :
    /\ Impaired(<<"init", i>>) => AsksNetem(<<"init", i>>, netem_opts)
    /\ i < env.inits /\ all_fios # <<>> /\ env.netem # "never" => Impaired(<<"init", i>>)

\* The test ends, however long every controller and fio hangs.
EventuallyOver == <>Over

\* The contract of TestContract, with a weaker promise than that of TestRun: what a
\* passed test may leave behind are controllers whose disconnect failed.
Dirty ==
  \/ \E p \in Initiators : ctrl[p] # "absent" /\ rc[p] # "error"
  \/ \E t \in Hosts : tgt[t] \in {"inited", "serving"}
  \/ \E a \in Apps : job[a] \in Active

Phase ==
  CASE stage \in {"disconnect", "fini"} -> "cleaning"
    [] stage = "done" -> "over"
    [] OTHER -> "running"

Contract == INSTANCE TestContract WITH
  stage <- Phase, result <- verdict, dirty <- Dirty

KeepsContract == Contract!ContractSpec
=============================================================================
