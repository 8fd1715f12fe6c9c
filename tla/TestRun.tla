------------------------------ MODULE TestRun ------------------------------
(***************************************************************************)
(* One run of a test program of nvmeof-ts/{conf,data,perf,stability}.      *)
(*                                                                         *)
(* A test is a body and, after the label "cleanup", a cleanup.  A call     *)
(* wrapped in CHECK_RC that fails, or a TEST_FAIL, leaves the body for the *)
(* cleanup; a failed CLEANUP_CHECK_RC only fails the test and the cleanup  *)
(* goes on; the result of any other call is ignored.  The scripts of the   *)
(* individual tests are the constant Scripts (see TestScripts); here is    *)
(* what each call does to the test bed, what the bed does meanwhile, and   *)
(* how any call may fail.                                                  *)
(***************************************************************************)
EXTENDS Tools, Sequences

CONSTANTS
  Scripts,    \* test name -> its script
  Targets,    \* NVMe targets of a test
  TargetOf,   \* the target an initiator object connects to
  Fn          \* the function pointer nvme_disconnect of conf/connect.c

InitiatorOps == {"initiator_init", "connect", "disconnect", "raw_disconnect",
                 "fn_disconnect", "fn_disconnect_all"}
TargetOps == {"target_ta", "target_init", "target_setup", "target_kill", "target_fini"}
AppOps == {"create", "start", "wait", "stop", "destroy"}
BedOps == {"call", "commands", "netem", "if_down", "if_up", "sleep", "select"}
Handles == Apps \cup {Fn}

Steps == [op : InitiatorOps, arg : Initiators, checked : BOOLEAN]
           \cup [op : TargetOps, arg : Targets, checked : BOOLEAN]
           \cup [op : AppOps, arg : Apps, checked : BOOLEAN]
           \cup [op : BedOps, arg : {"bed"}, checked : BOOLEAN]

TargetStates == {"garbage", "typed", "inited", "serving", "killed", "finished"}

ASSUME TestAssumption ==
  /\ TargetOf \in [Initiators -> Targets]
  /\ \A t \in DOMAIN Scripts :
       /\ Scripts[t].body \in Seq(Steps)
       /\ Scripts[t].cleanup \in Seq(Steps)
       /\ Scripts[t].wild \subseteq Handles
       /\ Scripts[t].target \in {"garbage", "typed"}
  /\ Fn \notin Apps
  /\ \A a \in Apps : AppServer[a] \notin DiscServers

-----------------------------------------------------------------------------
(***************************************************************************)
(* How the tests of the suite are laid out                                 *)
(***************************************************************************)

RawDisconnects == {"raw_disconnect", "fn_disconnect", "fn_disconnect_all"}
ThroughPointer == {"fn_disconnect", "fn_disconnect_all"}

IsDisconnect(step, i) == step.arg = i /\ step.op \in {"disconnect"} \cup RawDisconnects

\* The body of test t has a step op of arg, ...
InBody(t, op, arg) ==
  \E k \in DOMAIN Scripts[t].body :
    Scripts[t].body[k].op = op /\ Scripts[t].body[k].arg = arg

\* ... and has one before its k-th step.
Before(t, k, op, arg) ==
  \E j \in DOMAIN Scripts[t].body :
    j < k /\ Scripts[t].body[j].op = op /\ Scripts[t].body[j].arg = arg

InCleanup(t, op, arg) ==
  \E k \in DOMAIN Scripts[t].cleanup :
    Scripts[t].cleanup[k].op = op /\ Scripts[t].cleanup[k].arg = arg

Connects(t, i) == InBody(t, "connect", i)

Anywhere(t, ops) ==
  \/ \E k \in DOMAIN Scripts[t].body : Scripts[t].body[k].op \in ops
  \/ \E k \in DOMAIN Scripts[t].cleanup : Scripts[t].cleanup[k].op \in ops

\* What is connected, started and initialised in the body is disconnected, destroyed
\* and wiped in the cleanup, in this order.  The cleanup builds nothing up.
ASSUME CleanupAssumption ==
  \A t \in DOMAIN Scripts :
    LET cleanup == Scripts[t].cleanup
        Destroys(k, a) == cleanup[k].op = "destroy" /\ cleanup[k].arg = a
    IN  /\ \A k \in DOMAIN cleanup :
             /\ cleanup[k].op \in {"call", "destroy", "disconnect", "target_fini"}
                                    \cup RawDisconnects
             /\ cleanup[k].op = "target_fini" => k = Len(cleanup)
        /\ \A i \in Initiators :
             Connects(t, i) => \E k \in DOMAIN cleanup : IsDisconnect(cleanup[k], i)
        /\ \A x \in Targets : InBody(t, "target_init", x) => InCleanup(t, "target_fini", x)
        /\ \A a \in Apps :
             /\ InBody(t, "start", a) => InCleanup(t, "destroy", a)
             /\ \A k, m \in DOMAIN cleanup :
                  Destroys(k, a) =>
                    /\ Destroys(m, a) => k = m
                    /\ cleanup[m].op = "disconnect" /\ cleanup[m].arg = AppOn[a] => k < m

\* The body checks its connects, the disconnects it makes without the wrapper and
\* tsapi_nvme_initiator_init, which precedes the connects of what the cleanup gives
\* to the wrapper.  It starts what it has created and destroys nothing.
ASSUME BodyAssumption ==
  \A t \in DOMAIN Scripts :
    LET body == Scripts[t].body
    IN  \A k \in DOMAIN body :
          /\ body[k].op \notin {"destroy", "disconnect"}
          /\ body[k].op \in {"connect", "initiator_init", "target_ta"} \cup RawDisconnects
               => body[k].checked
          /\ body[k].op = "connect" /\ InCleanup(t, "disconnect", body[k].arg) =>
               Before(t, k, "initiator_init", body[k].arg)
          /\ body[k].op = "start" => Before(t, k, "create", body[k].arg)

\* Without the wrapper, even a cleanup checks its disconnects.
ASSUME RawAssumption ==
  \A t \in DOMAIN Scripts : \A k \in DOMAIN Scripts[t].cleanup :
    Scripts[t].cleanup[k].op \in RawDisconnects => Scripts[t].cleanup[k].checked

ASSUME RawStepsAssumption ==
  \A t \in DOMAIN Scripts, i \in Initiators \ RawUsers :
    \A op \in RawDisconnects : ~InBody(t, op, i) /\ ~InCleanup(t, op, i)

\* A test that does not leave its pointers to chance fills in whatever it is going to
\* call through before it touches the bed.
Touching == {"target_init", "connect", "start", "target_fini"} \cup ThroughPointer

ASSUME PointerAssumption ==
  \A t \in DOMAIN Scripts : Scripts[t].wild = {} =>
    \A k \in DOMAIN Scripts[t].body : Scripts[t].body[k].op \in Touching =>
      /\ Anywhere(t, ThroughPointer) => Before(t, k, "select", "bed")
      /\ \A x \in Targets :
           /\ Scripts[t].target = "garbage"
           /\ InBody(t, "target_fini", x) \/ InCleanup(t, "target_fini", x)
           => Before(t, k, "target_ta", x)

VARIABLES
  test,     \* the test being run
  phase,    \* "body", "cleanup", "done" or "crashed"
  pc,       \* the step about to be executed
  verdict,  \* the test's result variable
  tgt,      \* state of each target object and what runs behind it
  link,     \* the initiator's interface: "up" or "down"
  netem,    \* is the netem discipline impairing the link?
  ptr       \* pointers the cleanup follows: "wild", "null" or "set"

flowVars == <<test, phase, pc, verdict>>
bedVars == <<tgt, link, netem>>
appVars == <<ptr, job>>
vars == <<niVars, flowVars, bedVars, appVars>>

Phases == {"body", "cleanup", "done", "crashed"}

TypeOK ==
  /\ NITypeOK
  /\ test \in DOMAIN Scripts
  /\ phase \in Phases
  /\ pc \in Nat \ {0}
  /\ verdict \in {"pass", "fail"}
  /\ tgt \in [Targets -> TargetStates]
  /\ link \in {"up", "down"}
  /\ netem \in BOOLEAN
  /\ ptr \in [Handles -> {"wild", "null", "set"}]
  /\ ToolTypeOK

Init ==
  /\ NIInit
  /\ test \in DOMAIN Scripts
  /\ phase = "body" /\ pc = 1 /\ verdict = "fail"
  /\ tgt = [t \in Targets |-> Scripts[test].target]
  /\ link = "up" /\ netem = FALSE
  /\ ptr = [h \in Handles |-> IF h \in Scripts[test].wild THEN "wild" ELSE "null"]
  /\ job = [a \in Apps |-> "none"]

-----------------------------------------------------------------------------
(***************************************************************************)
(* Control flow of a test program                                          *)
(***************************************************************************)

Listing == IF phase = "body" THEN Scripts[test].body ELSE Scripts[test].cleanup
InTest == phase \in {"body", "cleanup"}
Here == Listing[pc]
At(op) == InTest /\ pc \in DOMAIN Listing /\ Here.op = op

\* Mutant: CLEANUP_CHECK_RC only logs the failure
GoesForgiving(ok) ==
  /\ UNCHANGED test
  /\ \/ /\ ok \/ ~Here.checked \/ phase = "cleanup"
        /\ pc' = pc + 1 /\ UNCHANGED <<phase, verdict>>
     \/ /\ ~ok /\ Here.checked /\ phase = "body"
        /\ phase' = "cleanup" /\ pc' = 1 /\ UNCHANGED verdict

\* Mutant: the label "cleanup" is behind the first call of the cleanup
GoesSkipping(ok) ==
  /\ UNCHANGED test
  /\ \/ /\ ok \/ ~Here.checked
        /\ pc' = pc + 1 /\ UNCHANGED <<phase, verdict>>
     \/ /\ ~ok /\ Here.checked /\ phase = "body"
        /\ phase' = "cleanup" /\ pc' = 2 /\ UNCHANGED verdict
     \/ /\ ~ok /\ Here.checked /\ phase = "cleanup"
        /\ pc' = pc + 1 /\ verdict' = "fail" /\ UNCHANGED phase

\* The step returns and its result is, or is not, looked at.
Goes(ok) ==
  /\ UNCHANGED test
  /\ \/ /\ ok \/ ~Here.checked
        /\ pc' = pc + 1 /\ UNCHANGED <<phase, verdict>>
     \/ /\ ~ok /\ Here.checked /\ phase = "body"
        /\ phase' = "cleanup" /\ pc' = 1 /\ UNCHANGED verdict
     \/ /\ ~ok /\ Here.checked /\ phase = "cleanup"
        /\ pc' = pc + 1 /\ verdict' = "fail" /\ UNCHANGED phase

\* A wild or null pointer is followed, or a number divided by zero: the process dies
\* where it stands.
Crash ==
  /\ phase' = "crashed" /\ verdict' = "fail" /\ UNCHANGED <<test, pc>>
  /\ UNCHANGED niVars /\ UNCHANGED bedVars /\ UNCHANGED appVars

AtEnd == InTest /\ pc \notin DOMAIN Listing

\* TEST_SUCCESS, then the cleanup; TEST_END after it.
Success ==
  /\ AtEnd /\ phase = "body"
  /\ phase' = "cleanup" /\ pc' = 1 /\ verdict' = "pass"
  /\ UNCHANGED test /\ UNCHANGED niVars /\ UNCHANGED bedVars /\ UNCHANGED appVars

End ==
  /\ AtEnd /\ phase = "cleanup"
  /\ phase' = "done"
  /\ UNCHANGED <<test, pc, verdict>>
  /\ UNCHANGED niVars /\ UNCHANGED bedVars /\ UNCHANGED appVars

-----------------------------------------------------------------------------
(***************************************************************************)
(* Initiator calls                                                         *)
(***************************************************************************)

Reachable(i) == tgt[TargetOf[i]] = "serving" /\ link = "up"

InitRpcsStep ==
  /\ At("initiator_init")
  /\ \/ InitRpcsOk(Here.arg) /\ Goes(TRUE)
     \/ InitRpcsFailed(Here.arg) /\ Goes(FALSE)
  /\ UNCHANGED bedVars /\ UNCHANGED appVars

ConnectStep ==
  /\ At("connect")
  /\ \/ Connected(Here.arg) /\ Reachable(Here.arg) /\ Goes(TRUE)
     \/ \E outcome \in {"refused", "halfway", "orphan"} :
          /\ ConnectFailed(Here.arg, outcome)
          /\ outcome # "refused" => Reachable(Here.arg)
          /\ Goes(FALSE)
  /\ UNCHANGED bedVars /\ UNCHANGED appVars

DisconnectStep ==
  /\ At("disconnect")
  /\ \E d \in Durations[Here.arg] : \/ DisconnectOk(Here.arg, d) /\ Goes(TRUE)
                                    \/ DisconnectFailed(Here.arg, d) /\ Goes(FALSE)
  /\ JobsFollow
  /\ UNCHANGED bedVars /\ UNCHANGED ptr

RawDisconnect(i) ==
  /\ \E d \in Durations[i] : \/ RawDisconnectOk(i, d) /\ Goes(TRUE)
                             \/ RawDisconnectFailed(i, d) /\ Goes(FALSE)
  /\ JobsFollow
  /\ UNCHANGED bedVars /\ UNCHANGED ptr

RawDisconnectStep == At("raw_disconnect") /\ RawDisconnect(Here.arg)

\* Mutant: the switch over the types of connect misses one and has no fallback
SelectMisses ==
  /\ At("select") /\ Goes(TRUE)
  /\ ptr' \in {ptr, [ptr EXCEPT ![Fn] = "set"]}
  /\ UNCHANGED niVars /\ UNCHANGED bedVars /\ UNCHANGED job

\* conf/connect.c disconnects through a function pointer.
SelectStep ==
  /\ At("select") /\ Goes(TRUE)
  /\ ptr' = [ptr EXCEPT ![Fn] = "set"]
  /\ UNCHANGED niVars /\ UNCHANGED bedVars /\ UNCHANGED job

FnDisconnectStep ==
  /\ At("fn_disconnect")
  /\ \/ ptr[Fn] = "set" /\ RawDisconnect(Here.arg)
     \/ ptr[Fn] # "set" /\ Crash

\* nvme_disconnect_all: the object's own disconnect first, and "nvme
\* disconnect-all" on the same server only if that succeeded.  The object's
\* controller is the only one of the test, so the second has nothing left to
\* remove; it may fail all the same.
DisconnectAll(i) ==
  /\ \E d \in Durations[i] :
       \/ RawDisconnectOk(i, d) /\ Goes(TRUE)
       \/ RawDisconnectFailed(i, d) /\ Goes(FALSE)
       \/ /\ DeleteOk(i, rpcs[i], deftimeout[rpcs[i]], d)
          /\ rc' = [rc EXCEPT ![i] = "error"] /\ Goes(FALSE)
          /\ UNCHANGED <<rpcs, disc, alive, deftimeout>>
  /\ JobsFollow
  /\ UNCHANGED bedVars /\ UNCHANGED ptr

FnDisconnectAllStep ==
  /\ At("fn_disconnect_all")
  /\ \/ ptr[Fn] = "set" /\ DisconnectAll(Here.arg)
     \/ ptr[Fn] # "set" /\ Crash

InitiatorStep ==
  \/ InitRpcsStep \/ ConnectStep \/ DisconnectStep \/ RawDisconnectStep
  \/ SelectStep \/ FnDisconnectStep \/ FnDisconnectAllStep

-----------------------------------------------------------------------------
(***************************************************************************)
(* Target calls                                                            *)
(***************************************************************************)

TargetGoes(from, to) ==
  \/ /\ tgt[Here.arg] \in from
     /\ tgt' = [tgt EXCEPT ![Here.arg] = to]
     /\ Goes(TRUE)
  \/ UNCHANGED tgt /\ Goes(FALSE)

TargetTaStep == At("target_ta") /\ TargetGoes({"garbage"}, "typed")
TargetInitStep == At("target_init") /\ TargetGoes({"typed", "finished"}, "inited")
TargetSetupStep == At("target_setup") /\ TargetGoes({"inited"}, "serving")
TargetKillStep == At("target_kill") /\ TargetGoes({"serving"}, "killed")

\* tapi_nvme_target_fini, and tapi_nvme_onvme_target_fini behind it, are void.
TargetFiniStep ==
  /\ At("target_fini")
  /\ tgt' = [tgt EXCEPT ![Here.arg] = "finished"]
  /\ Goes(TRUE)

TargetStep ==
  /\ \/ TargetTaStep \/ TargetInitStep \/ TargetSetupStep \/ TargetKillStep
     \/ TargetFiniStep /\ tgt[Here.arg] # "garbage"
  /\ UNCHANGED niVars /\ UNCHANGED <<link, netem>> /\ UNCHANGED appVars

\* The methods of a target structure nobody has filled in are garbage: calling
\* through them kills the test, unless the stack happened to hold zeros.
GarbageFiniStep ==
  /\ At("target_fini") /\ tgt[Here.arg] = "garbage"
  /\ \/ Crash
     \/ /\ Goes(TRUE)
        /\ UNCHANGED niVars /\ UNCHANGED bedVars /\ UNCHANGED appVars

-----------------------------------------------------------------------------
(***************************************************************************)
(* Tool calls: tapi_fio and tapi_perf                                      *)
(***************************************************************************)

\* Mutant: tapi_fio_create fills in a variable of an inner scope
CreateShadowed ==
  /\ At("create") /\ Goes(TRUE)
  /\ job' = [job EXCEPT ![Here.arg] = "idle"]
  /\ UNCHANGED ptr

CreateStep ==
  /\ At("create") /\ Goes(TRUE)
  /\ ptr' = [ptr EXCEPT ![Here.arg] = "set"]
  /\ job' = [job EXCEPT ![Here.arg] = "idle"]

StartStep ==
  /\ At("start")
  /\ \/ Started(Here.arg) /\ Goes(TRUE)
     \/ UNCHANGED job /\ Goes(FALSE)
  /\ UNCHANGED ptr

WaitStep ==
  /\ At("wait")
  /\ \/ Waited(Here.arg) /\ Goes(TRUE)
     \/ WaitFails(Here.arg) /\ Goes(FALSE)
  /\ UNCHANGED appVars

StopStep ==
  /\ At("stop")
  /\ \/ Stopped(Here.arg) /\ Goes(TRUE)
     \/ UNCHANGED job /\ Goes(FALSE)
  /\ UNCHANGED ptr

\* Destroying frees the tool, and leaves the pointer.
DestroyStep ==
  /\ At("destroy") /\ Goes(TRUE)
  /\ \/ /\ ptr[Here.arg] = "set"
        /\ Destroyed(Here.arg)
        /\ ptr' = [ptr EXCEPT ![Here.arg] = "wild"]
     \/ /\ ptr[Here.arg] # "set"  \* null, or a stack slot that held zero
        /\ UNCHANGED appVars

WildDestroyStep == At("destroy") /\ ptr[Here.arg] = "wild" /\ Crash

AppStep ==
  \/ /\ CreateStep \/ StartStep \/ WaitStep \/ StopStep \/ DestroyStep
     /\ UNCHANGED niVars /\ UNCHANGED bedVars
  \/ WildDestroyStep

-----------------------------------------------------------------------------
(***************************************************************************)
(* Calls on the bed                                                        *)
(***************************************************************************)

\* Any call whose effect nothing here depends on: parameters, options, list,
\* reports, statistics, and the NVMe commands of conf/nvmecmd.c.
CallStep ==
  /\ At("call") \/ At("commands")
  /\ \E ok \in BOOLEAN : Goes(ok)
  /\ UNCHANGED niVars /\ UNCHANGED bedVars /\ UNCHANGED appVars

\* With no command selected nvmecmd takes the index of the next one modulo zero.
DivisionStep == At("commands") /\ Crash

\* tsapi_apply_if_netem_opts enables the discipline last.
NetemStep ==
  /\ At("netem")
  /\ \/ netem' = TRUE /\ Goes(TRUE)
     \/ netem' = FALSE /\ Goes(FALSE)
  /\ UNCHANGED <<tgt, link>> /\ UNCHANGED niVars /\ UNCHANGED appVars

IfStep(op, state) ==
  /\ At(op)
  /\ \/ link' = state /\ Goes(TRUE)
     \/ UNCHANGED link /\ Goes(FALSE)
  /\ UNCHANGED <<tgt, netem>> /\ UNCHANGED niVars /\ UNCHANGED appVars

IfDownStep == IfStep("if_down", "down")
IfUpStep == IfStep("if_up", "up")

\* te_motivated_sleep(runtime_sec): when it returns, tools have used up their run
\* time.
SleepStep ==
  /\ At("sleep") /\ Goes(TRUE)
  /\ job' = [a \in Apps |-> IF job[a] = "running" THEN "overdue" ELSE job[a]]
  /\ UNCHANGED ptr /\ UNCHANGED niVars /\ UNCHANGED bedVars

BedStep == CallStep \/ NetemStep \/ IfDownStep \/ IfUpStep \/ SleepStep

TestStep ==
  \/ InitiatorStep \/ TargetStep \/ GarbageFiniStep \/ AppStep \/ BedStep
  \/ DivisionStep \/ Success \/ End

-----------------------------------------------------------------------------
(***************************************************************************)
(* The bed moves on its own                                                *)
(***************************************************************************)

LoseStep(i) == (~Reachable(i) \/ netem) /\ CtrlLoses(i)
RecoverStep(i) == Reachable(i) /\ CtrlRecovers(i)

KernelStep ==
  /\ \/ \E i \in Initiators : LoseStep(i) \/ RecoverStep(i) \/ CtrlExpires(i)
     \/ \E s \in Servers : LateAnswer(s)
  /\ JobsFollow
  /\ UNCHANGED flowVars /\ UNCHANGED bedVars /\ UNCHANGED ptr

AppExits(a) ==
  /\ Exits(a, At("wait"))
  /\ UNCHANGED niVars /\ UNCHANGED flowVars /\ UNCHANGED bedVars /\ UNCHANGED ptr

Environment == KernelStep \/ \E a \in Apps : AppExits(a)

Over == phase \in {"done", "crashed"}

Next == TestStep \/ Environment \/ (Over /\ UNCHANGED vars)

Spec == Init /\ [][Next]_vars

\* A test program always takes its next step: every RPC ends in an answer or a
\* time out.  Nothing is assumed of the kernel and of the tools.
FairSpec == Spec /\ WF_vars(TestStep)

-----------------------------------------------------------------------------
(***************************************************************************)
(* Properties                                                              *)
(***************************************************************************)

\* The test calls tapi_nvme_initiator_disconnect without the wrapper.
RawTest(t) == Anywhere(t, RawDisconnects)

\* The cleanup of the test looks at the result of every disconnect.
CheckingTest(t) ==
  \A k \in DOMAIN Scripts[t].cleanup : \A i \in Initiators :
    IsDisconnect(Scripts[t].cleanup[k], i) => Scripts[t].cleanup[k].checked

Idle(i) == \A a \in Apps : AppOn[a] = i => job[a] \notin Active

\* A passed test leaves no controller on its initiators, whatever the kernel did
\* meanwhile and however late: the promise behind the CLEANUP_CHECK_RC around the
\* disconnect that ends the single-connection tests.
PassedLeavesNoController ==
  phase = "done" /\ verdict = "pass" /\ CheckingTest(test) =>
    \A i \in Initiators : ctrl[i] = "absent"

\* When the target is wiped and when the test ends, an object that is still
\* connected is one whose own disconnect returned an error: no path through the
\* error handling of any test forgets a connection.
LeftoverWasReported ==
  (phase = "cleanup" /\ At("target_fini")) \/ phase = "done" =>
    \A i \in Initiators : dev[i] => rc[i] = "error"

\* The servers tests work with are blocked only in tests that disconnect without
\* the wrapper: everywhere else disconnect_rpcs exists before there is anything to
\* disconnect.
HungOnlyByRawDisconnect ==
  (\E s \in Servers \ DiscServers : pending[s] # Null) => RawTest(test)

\* The final disconnect never races with I/O on the same controller ("Disconnect
\* the initiator" comes after tapi_fio_destroy), even after a failed wait.
QuietDisconnect ==
  At("disconnect") /\ ~Idle(Here.arg) => RawTest(test)

\* No fio and no iperf3 process survives a test that reached its end.
NoToolOutlivesTest ==
  phase = "done" /\ ~RawTest(test) => \A a \in Apps : job[a] \notin Active

\* A test that initialises its pointers dies, if at all, before it has touched the bed:
\* the garbage in "tapi_nvme_target target;" is only ever followed when
\* tsapi_get_target_ta was not reached.  The one death with fio running, a controller
\* connected and the target serving is nvmecmd's division by the number of its commands.
Untouched ==
  /\ \A i \in Initiators : ctrl[i] = "absent"
  /\ \A t \in Targets : tgt[t] \in {"garbage", "typed"}
  /\ \A a \in Apps : job[a] \notin Active

Dies == phase # "crashed" /\ phase' = "crashed"

LateCrashIsDivision ==
  [][Dies /\ Scripts[test].wild = {} => Untouched \/ At("commands")]_vars

\* Every test ends, with I/O hanging on a lost controller and RPC servers blocked.
EventuallyOver == <>Over

\* A test run implements the contract of TestContract, as far as it looks at what its
\* disconnects return.
Dirty ==
  \/ \E i \in Initiators : ctrl[i] # "absent"
  \/ \E t \in Targets : tgt[t] \in {"inited", "serving", "killed"}
  \/ \E a \in Apps : job[a] \in Active

Contract == INSTANCE TestContract WITH
  stage  <- CASE phase = "body" -> "running" [] phase = "cleanup" -> "cleaning"
              [] OTHER -> "over",
  result <- verdict,
  dirty  <- CheckingTest(test) /\ Dirty

KeepsContract == Contract!ContractSpec

-----------------------------------------------------------------------------
(***************************************************************************)
(* What the tests say of themselves and do not do                          *)
(***************************************************************************)

\* "Disconnect the initiator and wipe target config." (fio_simple.c:123): however the
\* test ends, its target no longer serves.  fio is uninitialised until line 103.
WipesTarget == Over => \A t \in Targets : tgt[t] # "serving"
=============================================================================
