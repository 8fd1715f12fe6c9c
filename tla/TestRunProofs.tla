--------------------------- MODULE TestRunProofs ---------------------------
(***************************************************************************)
(* Proofs about TestRun, for any scripts laid out like those of the suite  *)
(* (the assumptions of TestRun), any number of initiators, targets and     *)
(* tools, and any assignment of RPC servers.                               *)
(***************************************************************************)
EXTENDS TestRun, NvmeInitiatorProofs

LEMMA ScriptType ==
  ASSUME TypeOK
  PROVE  /\ Listing \in Seq(Steps)
         /\ \A k \in DOMAIN Listing : Listing[k] \in Steps
<1>1. Listing \in Seq(Steps)
  BY TestAssumption DEF TypeOK, Listing
<1>2. QED
  BY <1>1

\* The argument of a step is of the kind its operation takes.
LEMMA ArgType ==
  ASSUME TypeOK, NEW op, At(op)
  PROVE  /\ Here \in Steps
         /\ op \in InitiatorOps => Here.arg \in Initiators
         /\ op \in TargetOps => Here.arg \in Targets
         /\ op \in AppOps => Here.arg \in Apps
<1>1. Here \in Steps
  BY ScriptType DEF At, Here
<1>2. Here.op = op
  BY DEF At
<1>3. QED
  BY <1>1, <1>2 DEF Steps, InitiatorOps, TargetOps, AppOps, BedOps

FlowType ==
  /\ test \in DOMAIN Scripts
  /\ phase \in Phases
  /\ pc \in Nat \ {0}
  /\ verdict \in {"pass", "fail"}

BedType ==
  /\ tgt \in [Targets -> TargetStates]
  /\ link \in {"up", "down"}
  /\ netem \in BOOLEAN

AppType ==
  /\ ptr \in [Handles -> {"wild", "null", "set"}]
  /\ ToolTypeOK

LEMMA GoesType ==
  ASSUME TypeOK, NEW ok, Goes(ok) PROVE FlowType'
BY DEF TypeOK, FlowType, Goes, Phases

LEMMA CrashType == TypeOK /\ Crash => TypeOK'
BY DEF TypeOK, Crash, niVars, bedVars, appVars, NITypeOK, Phases, ToolTypeOK

LEMMA JobsFollowType ==
  ASSUME TypeOK, JobsFollow PROVE ToolTypeOK'
BY DEF TypeOK, ToolTypeOK, JobsFollow, JobStates, Active

LEMMA RawDisconnectType ==
  ASSUME NITypeOK, NEW i \in Initiators, NEW d,
         RawDisconnectOk(i, d) \/ RawDisconnectFailed(i, d)
  PROVE  NITypeOK'
<1>1. rpcs[i] \in Servers
  BY DEF NITypeOK
<1>2. /\ dev' \in [Initiators -> BOOLEAN]
      /\ ctrl' \in [Initiators -> CtrlStates]
      /\ pending' \in [Servers -> Initiators \cup {Null}]
  BY <1>1, DeleteType DEF RawDisconnectOk, RawDisconnectFailed
<1>3. QED
  BY <1>2 DEF NITypeOK, RawDisconnectOk, RawDisconnectFailed

-----------------------------------------------------------------------------
(***************************************************************************)
(* Type correctness, one lemma per group of steps                          *)
(***************************************************************************)

LEMMA InitType == Init => TypeOK
<1> SUFFICES ASSUME Init PROVE TypeOK
  OBVIOUS
<1>1. NITypeOK
  BY NIInitType DEF Init
<1>2. BedType
  BY TestAssumption DEF Init, BedType, TargetStates
<1>3. FlowType /\ AppType
  BY DEF Init, FlowType, AppType, ToolTypeOK, Phases, JobStates
<1>4. QED
  BY <1>1, <1>2, <1>3 DEF TypeOK, FlowType, BedType, AppType

LEMMA InitiatorStepType ==
  ASSUME TypeOK, InitiatorStep PROVE TypeOK'
<1> USE DEF InitiatorOps
<1>1. CASE InitRpcsStep
  <2>1. Here.arg \in Initiators
    BY <1>1, ArgType DEF InitRpcsStep
  <2>2. NITypeOK'
    BY <1>1, <2>1, InitRpcsType DEF InitRpcsStep, TypeOK
  <2>3. FlowType'
    BY <1>1, GoesType DEF InitRpcsStep
  <2>4. BedType' /\ AppType'
    BY <1>1 DEF InitRpcsStep, TypeOK, BedType, AppType, bedVars, appVars, ToolTypeOK
  <2>5. QED
    BY <2>2, <2>3, <2>4 DEF TypeOK, FlowType, BedType, AppType
<1>2. CASE ConnectStep
  <2>1. Here.arg \in Initiators
    BY <1>2, ArgType DEF ConnectStep
  <2>2. NITypeOK'
    BY <1>2, <2>1, ConnectType DEF ConnectStep, TypeOK
  <2>3. FlowType'
    BY <1>2, GoesType DEF ConnectStep
  <2>4. BedType' /\ AppType'
    BY <1>2 DEF ConnectStep, TypeOK, BedType, AppType, bedVars, appVars, ToolTypeOK
  <2>5. QED
    BY <2>2, <2>3, <2>4 DEF TypeOK, FlowType, BedType, AppType
<1>3. CASE DisconnectStep
  <2>1. Here.arg \in Initiators
    BY <1>3, ArgType DEF DisconnectStep
  <2>2. NITypeOK'
    BY <1>3, <2>1, DisconnectType DEF DisconnectStep, TypeOK
  <2>3. FlowType'
    BY <1>3, GoesType DEF DisconnectStep
  <2>4. BedType' /\ AppType'
    BY <1>3, JobsFollowType DEF DisconnectStep, TypeOK, BedType, AppType, bedVars
  <2>5. QED
    BY <2>2, <2>3, <2>4 DEF TypeOK, FlowType, BedType, AppType
<1>4. ASSUME NEW i \in Initiators, RawDisconnect(i) PROVE TypeOK'
  <2>1. NITypeOK'
    BY <1>4, RawDisconnectType DEF RawDisconnect, TypeOK
  <2>2. FlowType'
    BY <1>4, GoesType DEF RawDisconnect
  <2>3. BedType' /\ AppType'
    BY <1>4, JobsFollowType DEF RawDisconnect, TypeOK, BedType, AppType, bedVars
  <2>4. QED
    BY <2>1, <2>2, <2>3 DEF TypeOK, FlowType, BedType, AppType
<1>5. ASSUME NEW i \in Initiators, DisconnectAll(i) PROVE TypeOK'
  <2>1. NITypeOK'
    <3>1. CASE \E d \in Durations[i] : RawDisconnectOk(i, d) \/ RawDisconnectFailed(i, d)
      BY <3>1, RawDisconnectType DEF TypeOK
    <3>2. ASSUME NEW d \in Durations[i], DeleteOk(i, rpcs[i], deftimeout[rpcs[i]], d),
                 rc' = [rc EXCEPT ![i] = "error"], UNCHANGED <<rpcs, disc, alive, deftimeout>>
          PROVE  NITypeOK'
      <4>1. rpcs[i] \in Servers
        BY DEF TypeOK, NITypeOK
      <4>2. /\ dev' \in [Initiators -> BOOLEAN]
            /\ ctrl' \in [Initiators -> CtrlStates]
            /\ pending' \in [Servers -> Initiators \cup {Null}]
        BY <3>2, <4>1, DeleteType DEF TypeOK
      <4>3. QED
        BY <3>2, <4>2 DEF TypeOK, NITypeOK
    <3>3. QED
      BY <1>5, <3>1, <3>2 DEF DisconnectAll
  <2>2. FlowType'
    BY <1>5, GoesType DEF DisconnectAll
  <2>3. BedType' /\ AppType'
    BY <1>5, JobsFollowType DEF DisconnectAll, TypeOK, BedType, AppType, bedVars
  <2>4. QED
    BY <2>1, <2>2, <2>3 DEF TypeOK, FlowType, BedType, AppType
<1>6. CASE RawDisconnectStep
  BY <1>4, <1>6, ArgType DEF RawDisconnectStep
<1>7. CASE FnDisconnectStep
  BY <1>4, <1>7, ArgType, CrashType DEF FnDisconnectStep
<1>8. CASE FnDisconnectAllStep
  BY <1>5, <1>8, ArgType, CrashType DEF FnDisconnectAllStep
<1>9. CASE SelectStep
  <2>1. FlowType'
    BY <1>9, GoesType DEF SelectStep
  <2>2. BedType' /\ AppType' /\ NITypeOK'
    BY <1>9 DEF SelectStep, TypeOK, BedType, AppType, NITypeOK, niVars,
          bedVars, ToolTypeOK
  <2>3. QED
    BY <2>1, <2>2 DEF TypeOK, FlowType, BedType, AppType
<1>10. QED
  BY <1>1, <1>2, <1>3, <1>6, <1>7, <1>8, <1>9 DEF InitiatorStep

LEMMA TargetStepType ==
  ASSUME TypeOK, TargetStep \/ GarbageFiniStep PROVE TypeOK'
<1>1. CASE TargetStep
  <2>1. FlowType'
    BY <1>1, GoesType
       DEF TargetStep, TargetTaStep, TargetInitStep, TargetSetupStep, TargetKillStep,
           TargetFiniStep, TargetGoes
  <2>2. tgt' \in [Targets -> TargetStates]
    BY <1>1
       DEF TypeOK, TargetStep, TargetTaStep, TargetInitStep, TargetSetupStep,
           TargetKillStep, TargetFiniStep, TargetGoes, TargetStates
  <2>3. BedType' /\ AppType' /\ NITypeOK'
    BY <1>1, <2>2 DEF TargetStep, TypeOK, BedType, AppType, NITypeOK, niVars,
          appVars, ToolTypeOK
  <2>4. QED
    BY <2>1, <2>3 DEF TypeOK, FlowType, BedType, AppType
<1>2. CASE GarbageFiniStep
  <2>1. CASE Crash
    BY <2>1, CrashType
  <2>2. CASE Goes(TRUE) /\ UNCHANGED niVars /\ UNCHANGED bedVars /\ UNCHANGED appVars
    <3>1. FlowType'
      BY <2>2, GoesType
    <3>2. BedType' /\ AppType' /\ NITypeOK'
      BY <2>2 DEF TypeOK, BedType, AppType, NITypeOK, niVars, bedVars, appVars,
            ToolTypeOK
    <3>3. QED
      BY <3>1, <3>2 DEF TypeOK, FlowType, BedType, AppType
  <2>3. QED
    BY <1>2, <2>1, <2>2 DEF GarbageFiniStep
<1>3. QED
  BY <1>1, <1>2

LEMMA AppStepType ==
  ASSUME TypeOK, AppStep PROVE TypeOK'
<1>1. CASE WildDestroyStep
  BY <1>1, CrashType DEF WildDestroyStep
<1>2. CASE /\ CreateStep \/ StartStep \/ WaitStep \/ StopStep \/ DestroyStep
           /\ UNCHANGED niVars /\ UNCHANGED bedVars
  <2>1. FlowType'
    BY <1>2, GoesType DEF CreateStep, StartStep, WaitStep, StopStep, DestroyStep
  <2>2. ASSUME NEW a \in Apps PROVE Killed(a) \in JobStates
    BY DEF TypeOK, ToolTypeOK, Killed, JobStates
  <2>3. AppType'
    <3>1. CASE CreateStep
      BY <3>1 DEF TypeOK, AppType, ToolTypeOK, CreateStep, JobStates
    <3>2. CASE StartStep
      BY <3>2 DEF TypeOK, AppType, ToolTypeOK, StartStep, Started, JobStates, Active
    <3>3. CASE WaitStep
      BY <3>3 DEF TypeOK, AppType, ToolTypeOK, WaitStep, appVars
    <3>4. CASE StopStep
      <4>1. Here.arg \in Apps
        BY <3>4, ArgType DEF StopStep, AppOps
      <4>2. QED
        BY <2>2, <3>4, <4>1 DEF TypeOK, AppType, ToolTypeOK, StopStep, Stopped
    <3>5. CASE DestroyStep
      <4>1. Here.arg \in Apps
        BY <3>5, ArgType DEF DestroyStep, AppOps
      <4>2. QED
        BY <2>2, <3>5, <4>1 DEF TypeOK, AppType, ToolTypeOK, DestroyStep, Destroyed, appVars
    <3>6. QED
      BY <1>2, <3>1, <3>2, <3>3, <3>4, <3>5
  <2>4. BedType' /\ NITypeOK'
    BY <1>2 DEF TypeOK, BedType, NITypeOK, niVars, bedVars
  <2>5. QED
    BY <2>1, <2>3, <2>4 DEF TypeOK, FlowType, BedType, AppType
<1>3. QED
  BY <1>1, <1>2 DEF AppStep

LEMMA BedStepType ==
  ASSUME TypeOK, BedStep PROVE TypeOK'
<1>1. FlowType'
  BY GoesType DEF BedStep, CallStep, NetemStep, IfDownStep, IfUpStep, IfStep, SleepStep
<1>2. BedType' /\ AppType' /\ NITypeOK'
  BY DEF BedStep, CallStep, NetemStep, IfDownStep, IfUpStep, IfStep, SleepStep, TypeOK,
         BedType, AppType, ToolTypeOK, NITypeOK, niVars, bedVars, appVars, JobStates, Active
<1>3. QED
  BY <1>1, <1>2 DEF TypeOK, FlowType, BedType, AppType

LEMMA EnvironmentType ==
  ASSUME TypeOK, Environment PROVE TypeOK'
<1>1. CASE KernelStep
  <2>1. NITypeOK'
    BY <1>1, KernelType, LateAnswerType
       DEF KernelStep, LoseStep, RecoverStep, Kernel, TypeOK
  <2>2. FlowType' /\ BedType' /\ AppType'
    BY <1>1, JobsFollowType
       DEF KernelStep, TypeOK, FlowType, BedType, AppType, flowVars, bedVars
  <2>3. QED
    BY <2>1, <2>2 DEF TypeOK, FlowType, BedType, AppType
<1>2. ASSUME NEW a \in Apps, AppExits(a) PROVE TypeOK'
  BY <1>2 DEF AppExits, Exits, TypeOK, ToolTypeOK, NITypeOK, JobStates, niVars, flowVars,
              bedVars
<1>3. QED
  BY <1>1, <1>2 DEF Environment

LEMMA RunTypeStep == TypeOK /\ [Next]_vars => TypeOK'
<1> SUFFICES ASSUME TypeOK, [Next]_vars PROVE TypeOK'
  OBVIOUS
<1>1. CASE Success \/ End
  BY <1>1 DEF Success, End, TypeOK, NITypeOK, Phases, niVars, bedVars, appVars,
        ToolTypeOK
<1>2. CASE UNCHANGED vars
  BY <1>2 DEF vars, niVars, flowVars, bedVars, appVars, TypeOK, NITypeOK, ToolTypeOK
<1>3. CASE DivisionStep
  BY <1>3, CrashType DEF DivisionStep
<1>4. QED
  BY <1>1, <1>2, <1>3, InitiatorStepType, TargetStepType, AppStepType, BedStepType,
     EnvironmentType DEF Next, TestStep

\* Whatever a test of this layout does and whatever fails in it, every variable
\* keeps its type.
THEOREM TypeCorrect == Spec => []TypeOK
BY InitType, RunTypeStep, PTL DEF Spec

-----------------------------------------------------------------------------
(***************************************************************************)
(* The inductive invariant behind the two promises about connections.      *)
(* While the body runs, and after that as long as the test has not failed, *)
(* the object knows of its controller (NoOrphan): a connect that leaves    *)
(* one nobody knows of is an error, and CHECK_RC makes it fail the test.   *)
(* What the body connected has a disconnect in the cleanup (OnlyConnected  *)
(* with CleanupAssumption), and a disconnect the cleanup is past has either *)
(* released the object or returned an error (Released).                    *)
(***************************************************************************)
NoOrphan ==
  phase = "body" \/ verdict = "pass" =>
    \A i \in Initiators : ctrl[i] # "absent" => dev[i]

OnlyConnected ==
  \A i \in Initiators : dev[i] \/ ctrl[i] # "absent" => Connects(test, i)

Released ==
  phase \in {"cleanup", "done"} =>
    \A i \in Initiators : \A k \in DOMAIN Scripts[test].cleanup :
      k < pc /\ IsDisconnect(Scripts[test].cleanup[k], i) =>
        /\ dev[i] => rc[i] = "error"
        /\ verdict = "pass" /\ CheckingTest(test) => ~dev[i]

Ended == phase = "done" => pc \notin DOMAIN Scripts[test].cleanup

NotPassedYet == phase = "body" => verdict = "fail"

Promises == NoOrphan /\ OnlyConnected /\ Released /\ Ended /\ NotPassedYet

RunInv == TypeOK /\ Promises

LEMMA PromisesInit == Init => Promises
BY DEF Init, NIInit, Promises, NoOrphan, OnlyConnected, Released, Ended, NotPassedYet

LEMMA CleanupDomain ==
  ASSUME TypeOK
  PROVE  /\ Len(Scripts[test].cleanup) \in Nat
         /\ DOMAIN Scripts[test].cleanup = 1..Len(Scripts[test].cleanup)
         /\ \A k \in DOMAIN Scripts[test].cleanup : k \in Nat
BY TestAssumption DEF TypeOK

\* A step that returns, connects nothing and is no disconnect.
LEMMA QuietGoes ==
  ASSUME RunInv, NEW ok, Goes(ok), InTest, UNCHANGED <<dev, rc, ctrl>>,
         phase = "cleanup" => \A i \in Initiators : ~IsDisconnect(Here, i)
  PROVE  Promises'
<1>1. test' = test
  BY DEF Goes
<1>2. NoOrphan' /\ OnlyConnected' /\ NotPassedYet' /\ Ended'
  BY DEF RunInv, Promises, NoOrphan, OnlyConnected, NotPassedYet, Ended, Goes, InTest,
         TypeOK
<1>3. Released'
  <2>1. CASE phase = "cleanup"
    <3>1. phase' = "cleanup" /\ pc' = pc + 1 /\ verdict' \in {verdict, "fail"}
      BY <2>1 DEF Goes
    <3>2. Here = Scripts[test].cleanup[pc]
      BY <2>1 DEF Here, Listing
    <3>3. ASSUME NEW i \in Initiators, NEW k \in DOMAIN Scripts[test].cleanup, k < pc',
                 IsDisconnect(Scripts[test].cleanup[k], i)
          PROVE  k < pc
      BY <2>1, <3>1, <3>2, <3>3, CleanupDomain DEF RunInv, TypeOK
    <3>4. QED
      BY <1>1, <2>1, <3>1, <3>3 DEF RunInv, Promises, Released
  <2>2. CASE phase = "body"
    <3>1. phase' = "body" \/ pc' = 1
      BY <2>2 DEF Goes
    <3>2. QED
      BY <1>1, <3>1, CleanupDomain DEF Released, RunInv
  <2>3. QED
    BY <2>1, <2>2 DEF InTest
<1>4. QED
  BY <1>2, <1>3 DEF Promises

\* An operation other than a disconnect.
LEMMA NoDisconnect ==
  ASSUME NEW op, At(op), op \notin {"disconnect", "raw_disconnect", "fn_disconnect",
                                   "fn_disconnect_all"}
  PROVE  InTest /\ \A i \in Initiators : ~IsDisconnect(Here, i)
BY DEF At, IsDisconnect, RawDisconnects

LEMMA CrashPromises == RunInv /\ Crash => Promises'
BY DEF RunInv, Promises, NoOrphan, OnlyConnected, Released, Ended, NotPassedYet, Crash,
       niVars

LEMMA ConnectPromises ==
  ASSUME RunInv, ConnectStep PROVE Promises'
<1> DEFINE i == Here.arg
<1>1. i \in Initiators /\ Here.op = "connect" /\ InTest /\ pc \in DOMAIN Listing
  BY ArgType DEF RunInv, ConnectStep, InitiatorOps, At
<1>2. phase = "body" /\ Here.checked /\ Connects(test, i)
  <2>1. phase # "cleanup"
    BY <1>1, CleanupAssumption DEF RunInv, TypeOK, Listing, Here, RawDisconnects
  <2>2. phase = "body"
    BY <1>1, <2>1 DEF InTest
  <2>3. QED
    BY <1>1, <2>2, BodyAssumption DEF RunInv, TypeOK, Listing, Here, Connects, InBody
<1>3. CASE Connected(i) /\ Goes(TRUE)
  <2>1. phase' = "body" /\ verdict' = verdict /\ test' = test
    BY <1>2, <1>3 DEF Goes
  <2>2. QED
    BY <1>1, <1>2, <1>3, <2>1
       DEF RunInv, TypeOK, NITypeOK, Promises, NoOrphan, OnlyConnected, Released, Ended,
           NotPassedYet, Connected
<1>4. ASSUME NEW outcome, ConnectFailed(i, outcome), Goes(FALSE) PROVE Promises'
  <2>1. phase' = "cleanup" /\ pc' = 1 /\ verdict' = "fail" /\ test' = test
    BY <1>2, <1>4 DEF Goes, RunInv, Promises, NotPassedYet
  <2>2. OnlyConnected'
    BY <1>1, <1>2, <1>4, <2>1
       DEF RunInv, TypeOK, NITypeOK, Promises, OnlyConnected, ConnectFailed
  <2>3. QED
    BY <2>1, <2>2, CleanupDomain
       DEF RunInv, Promises, NoOrphan, Released, Ended, NotPassedYet
<1>5. QED
  BY <1>3, <1>4 DEF ConnectStep

\* What all disconnects have in common: they touch one object; when they return
\* success the object is released, and an object that stays connected saw an error.
Releases(i, ok) ==
  /\ \A j \in Initiators \ {i} : dev'[j] = dev[j] /\ rc'[j] = rc[j] /\ ctrl'[j] = ctrl[j]
  /\ dev'[i] => dev[i] /\ rc'[i] = "error" /\ ~ok
  /\ ctrl'[i] # "absent" => ctrl[i] # "absent"
  /\ dev[i] /\ ctrl'[i] # "absent" => dev'[i]

LEMMA DeleteReleases ==
  ASSUME NITypeOK, NEW i \in Initiators, NEW s \in Servers, NEW timeout, NEW d,
         NEW ok \in BOOLEAN,
         \/ DeleteOk(i, s, timeout, d) /\ rc' = [rc EXCEPT ![i] = "ok"] /\ ok
         \/ DeleteFails(i, s, timeout, d) /\ rc' = [rc EXCEPT ![i] = "error"] /\ ~ok
         \/ DeleteOk(i, s, timeout, d) /\ rc' = [rc EXCEPT ![i] = "error"] /\ ~ok
  PROVE  Releases(i, ok)
BY DEF NITypeOK, Releases, DeleteOk, DeleteFails, DeleteSkipped, DeleteRefused,
       DeleteDone, DeleteTimedOut

LEMMA ReleasePromises ==
  ASSUME RunInv, InTest, NEW i \in Initiators, IsDisconnect(Here, i), Here.arg = i,
         pc \in DOMAIN Listing, NEW ok \in BOOLEAN, Goes(ok), Releases(i, ok)
  PROVE  Promises'
<1>1. test' = test
  BY DEF Goes
<1>2. NoOrphan' /\ OnlyConnected' /\ NotPassedYet' /\ Ended'
  BY DEF RunInv, Promises, NoOrphan, OnlyConnected, NotPassedYet, Ended, Goes, InTest,
         TypeOK, Releases
<1>3. Released'
  <2>1. CASE phase = "cleanup"
    <3>1. /\ phase' = "cleanup" /\ pc' = pc + 1 /\ verdict' \in {verdict, "fail"}
          /\ ~ok /\ Here.checked => verdict' = "fail"
      BY <2>1 DEF Goes
    <3>2. Here = Scripts[test].cleanup[pc] /\ pc \in DOMAIN Scripts[test].cleanup
      BY <2>1 DEF Here, Listing
    <3>3. CheckingTest(test) => Here.checked
      BY <3>2 DEF CheckingTest
    <3>4. ASSUME NEW j \in Initiators, NEW k \in DOMAIN Scripts[test].cleanup, k < pc',
                 IsDisconnect(Scripts[test].cleanup[k], j)
          PROVE  /\ dev'[j] => rc'[j] = "error"
                 /\ verdict' = "pass" /\ CheckingTest(test) => ~dev'[j]
      <4>1. CASE j = i
        BY <3>1, <3>3, <4>1 DEF Releases
      <4>2. CASE j # i
        <5>1. dev'[j] = dev[j] /\ rc'[j] = rc[j]
          BY <4>2 DEF Releases
        <5>2. k # pc
          BY <3>2, <3>4, <4>2 DEF IsDisconnect
        <5>3. k < pc
          BY <3>1, <3>4, <5>2, CleanupDomain DEF RunInv, TypeOK
        <5>4. QED
          BY <2>1, <3>1, <3>4, <5>1, <5>3 DEF RunInv, TypeOK, Promises, Released
      <4>3. QED
        BY <4>1, <4>2
    <3>5. QED
      BY <1>1, <3>4 DEF Released, CheckingTest
  <2>2. CASE phase = "body"
    <3>1. phase' = "body" \/ pc' = 1
      BY <2>2 DEF Goes
    <3>2. QED
      BY <1>1, <3>1, CleanupDomain DEF Released, RunInv
  <2>3. QED
    BY <2>1, <2>2 DEF InTest
<1>4. QED
  BY <1>2, <1>3 DEF Promises

LEMMA InitiatorPromises ==
  ASSUME RunInv, InitiatorStep PROVE Promises'
<1> USE DEF InitiatorOps
<1> DEFINE i == Here.arg
<1>1. CASE InitRpcsStep
  BY <1>1, QuietGoes, NoDisconnect
     DEF InitRpcsStep, InitRpcsOk, InitRpcsFailed, niVars
<1>2. CASE ConnectStep
  BY <1>2, ConnectPromises
<1>3. CASE DisconnectStep
  <2>1. i \in Initiators /\ InTest /\ IsDisconnect(Here, i) /\ pc \in DOMAIN Listing
    BY <1>3, ArgType DEF RunInv, DisconnectStep, At, IsDisconnect, RawDisconnects
  <2>2. PICK d \in Durations[i], ok \in BOOLEAN :
          /\ Goes(ok)
          /\ \/ DisconnectOk(i, d) /\ ok
             \/ DisconnectFailed(i, d) /\ ~ok
    BY <1>3 DEF DisconnectStep
  <2>3. Releases(i, ok)
    BY <2>1, <2>2, DisconnectServerType, DeleteReleases
       DEF RunInv, TypeOK, DisconnectOk, DisconnectFailed
  <2>4. QED
    BY <2>1, <2>2, <2>3, ReleasePromises
<1>4. CASE RawDisconnect(i) \/ DisconnectAll(i)
  <2>1. CASE RawDisconnectStep \/ FnDisconnectStep \/ FnDisconnectAllStep
    <3>1. i \in Initiators /\ InTest /\ IsDisconnect(Here, i) /\ pc \in DOMAIN Listing
      BY <2>1, ArgType
         DEF RunInv, RawDisconnectStep, FnDisconnectStep, FnDisconnectAllStep, At,
             IsDisconnect, RawDisconnects
    <3>2. PICK d \in Durations[i], ok \in BOOLEAN :
            /\ Goes(ok)
            /\ \/ /\ DeleteOk(i, rpcs[i], deftimeout[rpcs[i]], d) /\ ok
                  /\ rc' = [rc EXCEPT ![i] = "ok"]
               \/ /\ DeleteFails(i, rpcs[i], deftimeout[rpcs[i]], d) /\ ~ok
                  /\ rc' = [rc EXCEPT ![i] = "error"]
               \/ /\ DeleteOk(i, rpcs[i], deftimeout[rpcs[i]], d) /\ ~ok
                  /\ rc' = [rc EXCEPT ![i] = "error"]
      BY <1>4 DEF RawDisconnect, DisconnectAll, RawDisconnectOk, RawDisconnectFailed
    <3>3. rpcs[i] \in Servers
      BY <3>1 DEF RunInv, TypeOK, NITypeOK
    <3>4. Releases(i, ok)
      BY <3>1, <3>2, <3>3, DeleteReleases DEF RunInv, TypeOK
    <3>5. QED
      BY <3>1, <3>2, <3>4, ReleasePromises
  <2>2. CASE ~(RawDisconnectStep \/ FnDisconnectStep \/ FnDisconnectAllStep)
    BY <1>1, <1>2, <1>3, <2>2, QuietGoes, NoDisconnect
       DEF InitiatorStep, SelectStep, niVars
  <2>3. QED
    BY <2>1, <2>2
<1>5. CASE SelectStep
  BY <1>5, QuietGoes, NoDisconnect DEF SelectStep, niVars
<1>6. CASE Crash
  BY <1>6, CrashPromises
<1>7. QED
  BY <1>1, <1>2, <1>3, <1>4, <1>5, <1>6
     DEF InitiatorStep, RawDisconnectStep, FnDisconnectStep, FnDisconnectAllStep

\* Steps that leave the initiators alone.
LEMMA OtherPromises ==
  ASSUME RunInv, TargetStep \/ GarbageFiniStep \/ AppStep \/ BedStep
  PROVE  Promises'
<1>1. CASE Crash
  BY <1>1, CrashPromises
<1>2. CASE ~Crash
  <2>1. UNCHANGED <<dev, rc, ctrl>>
    BY <1>2 DEF TargetStep, GarbageFiniStep, AppStep, WildDestroyStep, BedStep, CallStep,
                NetemStep, IfDownStep, IfUpStep, IfStep, SleepStep, niVars
  <2>2. InTest /\ \A i \in Initiators : ~IsDisconnect(Here, i)
    BY <1>2, NoDisconnect
       DEF TargetStep, TargetTaStep, TargetInitStep, TargetSetupStep, TargetKillStep,
           TargetFiniStep, GarbageFiniStep, AppStep, WildDestroyStep, CreateStep,
           StartStep, WaitStep, StopStep, DestroyStep, BedStep, CallStep, NetemStep,
           IfDownStep, IfUpStep, IfStep, SleepStep
  <2>3. PICK ok \in BOOLEAN : Goes(ok)
    BY <1>2
       DEF TargetStep, TargetTaStep, TargetInitStep, TargetSetupStep, TargetKillStep,
           TargetFiniStep, TargetGoes, GarbageFiniStep, AppStep, WildDestroyStep,
           CreateStep, StartStep, WaitStep, StopStep, DestroyStep, BedStep, CallStep,
           NetemStep, IfDownStep, IfUpStep, IfStep, SleepStep
  <2>4. QED
    BY <2>1, <2>2, <2>3, QuietGoes
<1>3. QED
  BY <1>1, <1>2

LEMMA EndPromises == RunInv /\ (Success \/ End) => Promises'
<1>1. ASSUME RunInv, Success PROVE Promises'
  <2>1. phase = "body" /\ phase' = "cleanup" /\ pc' = 1 /\ test' = test
        /\ UNCHANGED <<dev, rc, ctrl>>
    BY <1>1 DEF Success, niVars
  <2>2. QED
    BY <1>1, <2>1, CleanupDomain
       DEF RunInv, Promises, NoOrphan, OnlyConnected, Released, Ended, NotPassedYet
<1>2. ASSUME RunInv, End PROVE Promises'
  BY <1>2 DEF RunInv, Promises, NoOrphan, OnlyConnected, Released, Ended, NotPassedYet,
              End, AtEnd, Listing, niVars
<1>3. QED
  BY <1>1, <1>2

LEMMA EnvironmentPromises == RunInv /\ Environment => Promises'
<1>1. ASSUME RunInv, Environment
      PROVE  /\ UNCHANGED <<dev, rc, test, phase, pc, verdict>>
             /\ \A i \in Initiators : ctrl'[i] # "absent" => ctrl[i] # "absent"
  BY <1>1
     DEF RunInv, TypeOK, NITypeOK, Environment, KernelStep, LoseStep, RecoverStep,
         CtrlLoses, CtrlRecovers, CtrlExpires, CtrlMoves, LateAnswer, objVars, AppExits,
         flowVars, niVars
<1>2. QED
  BY <1>1 DEF RunInv, Promises, NoOrphan, OnlyConnected, Released, Ended, NotPassedYet,
              CheckingTest

LEMMA RunInvStep == RunInv /\ [Next]_vars => RunInv'
<1>1. ASSUME RunInv, [Next]_vars PROVE Promises'
  <2>1. CASE UNCHANGED vars
    BY <1>1, <2>1
       DEF vars, niVars, flowVars, RunInv, Promises, NoOrphan, OnlyConnected, Released,
           Ended, NotPassedYet, CheckingTest
  <2>2. CASE DivisionStep
    BY <1>1, <2>2, CrashPromises DEF DivisionStep
  <2>3. QED
    BY <1>1, <2>1, <2>2, InitiatorPromises, OtherPromises, EndPromises,
       EnvironmentPromises DEF Next, TestStep
<1>2. QED
  BY <1>1, RunTypeStep DEF RunInv

LEMMA RunInvAlways == Spec => []RunInv
BY InitType, PromisesInit, RunInvStep, PTL DEF Spec, RunInv

\* Past the end of the cleanup every disconnect in it has been executed.
LEMMA PastTheEnd ==
  ASSUME TypeOK, pc \notin DOMAIN Scripts[test].cleanup,
         NEW k \in DOMAIN Scripts[test].cleanup
  PROVE  k < pc
BY CleanupDomain DEF TypeOK

\* A test of the suite's layout that checks its disconnects and is reported as
\* passed has left no controller behind, for every script, every number of
\* connections and every failure of the calls and of the kernel.
THEOREM PassedLeavesNothing == Spec => []PassedLeavesNoController
<1>1. RunInv => PassedLeavesNoController
  <2> SUFFICES ASSUME RunInv, phase = "done", verdict = "pass", CheckingTest(test),
                      NEW i \in Initiators, ctrl[i] # "absent"
               PROVE  FALSE
    BY DEF PassedLeavesNoController
  <2>1. dev[i] /\ Connects(test, i)
    BY DEF RunInv, Promises, NoOrphan, OnlyConnected
  <2>2. PICK k \in DOMAIN Scripts[test].cleanup : IsDisconnect(Scripts[test].cleanup[k], i)
    BY <2>1, CleanupAssumption DEF RunInv, TypeOK
  <2>3. k < pc
    BY PastTheEnd DEF RunInv, Promises, Ended
  <2>4. QED
    BY <2>1, <2>2, <2>3 DEF RunInv, Promises, Released
<1>2. QED
  BY <1>1, RunInvAlways, PTL

\* No path through the error handling forgets a connection: what is still connected
\* when the target is wiped, or at the end, refused to be disconnected.
THEOREM LeftoversAreReported == Spec => []LeftoverWasReported
<1>1. RunInv => LeftoverWasReported
  <2> SUFFICES ASSUME RunInv, (phase = "cleanup" /\ At("target_fini")) \/ phase = "done",
                      NEW i \in Initiators, dev[i]
               PROVE  rc[i] = "error"
    BY DEF LeftoverWasReported
  <2>1. Connects(test, i)
    BY DEF RunInv, Promises, OnlyConnected
  <2>2. PICK k \in DOMAIN Scripts[test].cleanup : IsDisconnect(Scripts[test].cleanup[k], i)
    BY <2>1, CleanupAssumption DEF RunInv, TypeOK
  <2>3. k < pc
    <3>1. CASE phase = "done"
      BY <3>1, PastTheEnd DEF RunInv, Promises, Ended
    <3>2. CASE phase = "cleanup" /\ At("target_fini")
      <4>1. pc \in DOMAIN Scripts[test].cleanup /\ Scripts[test].cleanup[pc].op = "target_fini"
        BY <3>2 DEF At, Here, Listing
      <4>2. QED
        BY <2>2, <4>1, CleanupAssumption, CleanupDomain DEF RunInv, TypeOK, IsDisconnect,
           RawDisconnects
    <3>3. QED
      BY <3>1, <3>2
  <2>4. QED
    BY <2>2, <2>3 DEF RunInv, Promises, Released
<1>2. QED
  BY <1>1, RunInvAlways, PTL

-----------------------------------------------------------------------------
(***************************************************************************)
(* The inductive invariant behind the promises about tools, targets and    *)
(* servers.  A root server is blocked only in a test that went around the  *)
(* wrapper and has failed for it (Spoilt), for an object reaches the       *)
(* wrapper with its disconnect server (Wrapped); everywhere else the tools *)
(* can be asked to end, so that what the cleanup is past has ended         *)
(* (ToolsEnd) and been wiped (TargetsEnd).                                 *)
(***************************************************************************)

Roots == Servers \ DiscServers

Spoilt == RawTest(test) /\ phase # "body" /\ verdict = "fail"

Blocked_ ==
  /\ Roots \subseteq alive
  /\ \A s \in Roots : pending[s] # Null => Spoilt

\* The object's disconnect server is there before the first connect.
Wrapped ==
  /\ \A i \in Initiators : disc[i] \in {Null, DiscOf[i]}
  /\ phase = "body" =>
       \A i \in Initiators : Before(test, pc, "initiator_init", i) => disc[i] # Null
  /\ \A i \in Initiators :
       dev[i] /\ InCleanup(test, "disconnect", i) => disc[i] # Null

\* A tool that may be running was started by the body, and the cleanup has its pointer.
ToolsHeld ==
  /\ phase = "body" => \A a \in Apps : Before(test, pc, "create", a) => ptr[a] = "set"
  /\ \A a \in Apps :
       job[a] \in Active => InBody(test, "start", a) /\ (ptr[a] = "set" \/ Spoilt)

ToolsEnd ==
  phase \in {"cleanup", "done"} =>
    \A k \in DOMAIN Scripts[test].cleanup : \A a \in Apps :
      k < pc /\ Scripts[test].cleanup[k].op = "destroy" /\ Scripts[test].cleanup[k].arg = a
        => job[a] \notin Active \/ Spoilt

TargetsEnd ==
  /\ \A t \in Targets :
       tgt[t] \in {"inited", "serving", "killed"} => InBody(test, "target_init", t)
  /\ phase \in {"cleanup", "done"} =>
       \A k \in DOMAIN Scripts[test].cleanup : \A t \in Targets :
         k < pc /\ Scripts[test].cleanup[k].op = "target_fini"
           /\ Scripts[test].cleanup[k].arg = t => tgt[t] \in {"garbage", "finished"}

ToolInv == RunInv /\ Blocked_ /\ Wrapped /\ ToolsHeld /\ ToolsEnd /\ TargetsEnd

ToolParts == Blocked_ /\ Wrapped /\ ToolsHeld /\ ToolsEnd /\ TargetsEnd

LEMMA BodyDomain ==
  ASSUME TypeOK
  PROVE  /\ Scripts[test].body \in Seq(Steps)
         /\ DOMAIN Scripts[test].body = 1..Len(Scripts[test].body)
         /\ \A k \in DOMAIN Scripts[test].body : k \in Nat
BY TestAssumption DEF TypeOK

\* What is before the next step of the body was before this one, or is this one.
LEMMA BeforeNext ==
  ASSUME TypeOK, phase = "body", NEW op, NEW arg, Before(test, pc + 1, op, arg)
  PROVE  Before(test, pc, op, arg) \/ (Here.op = op /\ Here.arg = arg)
<1>1. PICK j \in DOMAIN Scripts[test].body :
        j < pc + 1 /\ Scripts[test].body[j].op = op /\ Scripts[test].body[j].arg = arg
  BY DEF Before
<1>2. j = pc \/ j < pc
  BY <1>1, BodyDomain DEF TypeOK
<1>3. QED
  BY <1>1, <1>2 DEF Before, Here, Listing

\* How a step of the test moves on.
LEMMA GoesFlow ==
  ASSUME RunInv, NEW ok, Goes(ok), InTest
  PROVE  /\ test' = test
         /\ phase' = "body" => phase = "body" /\ pc' = pc + 1 /\ (ok \/ ~Here.checked)
         /\ phase = "body" /\ phase' # "body" =>
              phase' = "cleanup" /\ pc' = 1 /\ verdict' = "fail"
         /\ phase = "cleanup" => phase' = "cleanup" /\ pc' = pc + 1
         /\ phase = "cleanup" /\ ~ok /\ Here.checked => verdict' = "fail"
         /\ Spoilt => Spoilt'
BY DEF Goes, InTest, RunInv, TypeOK, Promises, NotPassedYet, Spoilt

LEMMA GoesServers ==
  ASSUME ToolInv, NEW ok, Goes(ok), InTest, pc \in DOMAIN Listing,
         UNCHANGED <<disc, alive>>, Here.op # "initiator_init",
         \A i \in Initiators : dev'[i] => dev[i],
         \A s \in Roots : pending'[s] # Null => pending[s] # Null \/ Spoilt'
  PROVE  Blocked_' /\ Wrapped'
<1>1. Blocked_'
  BY GoesFlow DEF ToolInv, Blocked_
<1>2. ASSUME phase' = "body", NEW i \in Initiators, Before(test', pc', "initiator_init", i)
      PROVE  disc[i] # Null
  BY <1>2, GoesFlow, BeforeNext DEF ToolInv, RunInv, Wrapped
<1>3. Wrapped'
  BY <1>2, GoesFlow DEF ToolInv, Wrapped
<1>4. QED
  BY <1>1, <1>3

LEMMA GoesTools ==
  ASSUME ToolInv, NEW ok, Goes(ok), InTest, pc \in DOMAIN Listing,
         Here.op \notin {"create", "destroy"},
         \A a \in Apps : ptr'[a] = ptr[a],
         \A a \in Apps : job'[a] \in Active => job[a] \in Active
  PROVE  ToolsHeld' /\ ToolsEnd'
<1>1. ToolsHeld'
  <2>1. ASSUME phase' = "body", NEW a \in Apps, Before(test', pc', "create", a)
        PROVE  ptr[a] = "set"
    BY <2>1, GoesFlow, BeforeNext DEF ToolInv, RunInv, ToolsHeld
  <2>2. QED
    BY <2>1, GoesFlow DEF ToolInv, ToolsHeld
<1>2. ToolsEnd'
  <2>0. test' = test
    BY GoesFlow DEF ToolInv
  <2> SUFFICES ASSUME phase' \in {"cleanup", "done"},
                      NEW k \in DOMAIN Scripts[test].cleanup, NEW a \in Apps, k < pc',
                      Scripts[test].cleanup[k].op = "destroy",
                      Scripts[test].cleanup[k].arg = a
               PROVE  job'[a] \notin Active \/ Spoilt'
    BY <2>0 DEF ToolsEnd
  <2>1. phase = "cleanup" /\ pc' = pc + 1
    BY GoesFlow, CleanupDomain DEF ToolInv, RunInv, InTest
  <2>2. k < pc
    BY <2>1, CleanupDomain DEF ToolInv, RunInv, TypeOK, Here, Listing
  <2>3. QED
    BY <2>1, <2>2, GoesFlow DEF ToolInv, ToolsEnd
<1>3. QED
  BY <1>1, <1>2

LEMMA GoesTargets ==
  ASSUME ToolInv, NEW ok, Goes(ok), InTest, pc \in DOMAIN Listing,
         UNCHANGED tgt, Here.op # "target_fini"
  PROVE  TargetsEnd'
<1>1. ASSUME phase' \in {"cleanup", "done"},
             NEW k \in DOMAIN Scripts[test].cleanup, k < pc',
             Scripts[test].cleanup[k].op = "target_fini"
      PROVE  phase = "cleanup" /\ k < pc
  <2>1. phase = "cleanup" /\ pc' = pc + 1
    BY <1>1, GoesFlow, CleanupDomain DEF ToolInv, RunInv, InTest
  <2>2. QED
    BY <1>1, <2>1, CleanupDomain DEF ToolInv, RunInv, TypeOK, Here, Listing
<1>2. QED
  BY <1>1, GoesFlow DEF ToolInv, TargetsEnd

LEMMA CrashTools == ToolInv /\ Crash => ToolParts'
BY DEF ToolInv, ToolParts, Crash, niVars, bedVars, appVars, Blocked_, Wrapped, ToolsHeld,
       ToolsEnd, TargetsEnd, Spoilt

LEMMA JobsFollowActive ==
  ASSUME TypeOK, JobsFollow, NEW a \in Apps
  PROVE  job'[a] \in Active => job[a] \in Active
BY DEF JobsFollow, Active

LEMMA ToolInitial == Init => ToolParts
<1> SUFFICES ASSUME Init PROVE ToolParts
  OBVIOUS
<1>1. TypeOK /\ test \in DOMAIN Scripts /\ phase = "body" /\ pc = 1
  BY InitType DEF Init
<1>2. \A op, arg : ~Before(test, pc, op, arg)
  BY <1>1, BodyDomain DEF Before
<1>3. Blocked_ /\ Wrapped
  BY <1>1, <1>2, ServerAssumption DEF Init, NIInit, Blocked_, Wrapped, Roots
<1>4. ToolsHeld /\ ToolsEnd
  BY <1>1, <1>2 DEF Init, ToolsHeld, ToolsEnd, Active
<1>5. TargetsEnd
  <2>1. Scripts[test].target \in {"garbage", "typed"}
    BY <1>1, TestAssumption
  <2>2. QED
    BY <1>1, <2>1 DEF Init, TargetsEnd
<1>6. QED
  BY <1>3, <1>4, <1>5 DEF ToolParts

\* In the cleanup there is nothing left to set up.
LEMMA InTheBody ==
  ASSUME RunInv, NEW op, At(op),
         op \notin {"call", "destroy", "disconnect", "target_fini"} \cup RawDisconnects
  PROVE  phase = "body"
BY CleanupAssumption DEF RunInv, TypeOK, At, InTest, Here, Listing

LEMMA InTheCleanup ==
  ASSUME RunInv, NEW op, At(op), op \in {"destroy", "disconnect"}
  PROVE  phase = "cleanup"
BY BodyAssumption DEF RunInv, TypeOK, At, InTest, Here, Listing

LEMMA InitRpcsTools == ToolInv /\ InitRpcsStep => ToolParts'
<1> SUFFICES ASSUME ToolInv, InitRpcsStep PROVE ToolParts'
  OBVIOUS
<1> DEFINE i == Here.arg
<1>1. At("initiator_init") /\ InTest /\ pc \in DOMAIN Listing /\ Here.op = "initiator_init"
  BY DEF InitRpcsStep, At
<1>2. i \in Initiators
  BY <1>1, ArgType DEF ToolInv, RunInv, InitiatorOps
<1>3. phase = "body" /\ Here.checked
  <2>1. phase = "body"
    BY <1>1, InTheBody DEF ToolInv, RawDisconnects
  <2>2. QED
    BY <1>1, <2>1, BodyAssumption DEF ToolInv, RunInv, TypeOK, Here, Listing
<1>4. PICK ok \in BOOLEAN : Goes(ok) /\ (ok => InitRpcsOk(i)) /\ (~ok => InitRpcsFailed(i))
  BY DEF InitRpcsStep
<1>5. ToolsHeld' /\ ToolsEnd' /\ TargetsEnd'
  BY <1>1, <1>4, GoesTools, GoesTargets DEF InitRpcsStep, bedVars, appVars
<1>6. UNCHANGED <<dev, pending>> /\ alive \subseteq alive' /\ test' = test
  BY <1>1, <1>4, GoesFlow DEF ToolInv, InitRpcsOk, InitRpcsFailed, niVars
<1>7. \A j \in Initiators : disc'[j] = disc[j] \/ (ok /\ j = i /\ disc'[j] = DiscOf[j])
  BY <1>2, <1>4 DEF ToolInv, RunInv, TypeOK, NITypeOK, InitRpcsOk, InitRpcsFailed, niVars
<1>8. ok => disc'[i] = DiscOf[i]
  BY <1>2, <1>4 DEF ToolInv, RunInv, TypeOK, NITypeOK, InitRpcsOk
<1>9. Blocked_'
  BY <1>1, <1>4, <1>6, GoesFlow DEF ToolInv, Blocked_
<1>10. Wrapped'
  <2>1. \A j \in Initiators : DiscOf[j] # Null
    BY ServerAssumption
  <2>2. ASSUME phase' = "body", NEW j \in Initiators, Before(test, pc', "initiator_init", j)
        PROVE  disc'[j] # Null
    <3>1. pc' = pc + 1 /\ ok
      BY <1>1, <1>3, <1>4, <2>2, GoesFlow DEF ToolInv
    <3>2. Before(test, pc, "initiator_init", j) \/ j = i
      BY <1>3, <2>2, <3>1, BeforeNext DEF ToolInv, RunInv
    <3>3. QED
      BY <1>3, <1>7, <1>8, <2>1, <3>1, <3>2 DEF ToolInv, Wrapped
  <2>3. QED
    BY <1>6, <1>7, <2>1, <2>2 DEF ToolInv, Wrapped
<1>11. QED
  BY <1>5, <1>9, <1>10 DEF ToolParts

LEMMA ConnectTools == ToolInv /\ ConnectStep => ToolParts'
<1> SUFFICES ASSUME ToolInv, ConnectStep PROVE ToolParts'
  OBVIOUS
<1> DEFINE i == Here.arg
<1>1. At("connect") /\ InTest /\ pc \in DOMAIN Listing /\ Here.op = "connect"
  BY DEF ConnectStep, At
<1>2. i \in Initiators
  BY <1>1, ArgType DEF ToolInv, RunInv, InitiatorOps
<1>3. phase = "body" /\ (InCleanup(test, "disconnect", i) => Before(test, pc, "initiator_init", i))
  <2>1. phase = "body"
    BY <1>1, InTheBody DEF ToolInv, RawDisconnects
  <2>2. QED
    BY <1>1, <2>1, BodyAssumption DEF ToolInv, RunInv, TypeOK, Here, Listing
<1>4. PICK ok \in BOOLEAN : Goes(ok)
  BY DEF ConnectStep
<1>5. ToolsHeld' /\ ToolsEnd' /\ TargetsEnd'
  BY <1>1, <1>4, GoesTools, GoesTargets DEF ConnectStep, bedVars, appVars
<1>6. UNCHANGED <<disc, pending, alive>> /\ test' = test
  BY <1>1, <1>4, GoesFlow DEF ToolInv, ConnectStep, Connected, ConnectFailed, serverVars
<1>7. \A j \in Initiators : dev'[j] => dev[j] \/ j = i
  BY <1>2 DEF ToolInv, RunInv, TypeOK, NITypeOK, ConnectStep, Connected, ConnectFailed
<1>8. Blocked_'
  BY <1>1, <1>4, <1>6, GoesFlow DEF ToolInv, Blocked_
<1>9. Wrapped'
  <2>1. ASSUME phase' = "body", NEW j \in Initiators, Before(test, pc', "initiator_init", j)
        PROVE  disc[j] # Null
    BY <1>1, <1>3, <1>4, <2>1, GoesFlow, BeforeNext DEF ToolInv, RunInv, Wrapped
  <2>2. QED
    BY <1>3, <1>6, <1>7, <2>1 DEF ToolInv, Wrapped
<1>10. QED
  BY <1>5, <1>8, <1>9 DEF ToolParts

\* Through the wrapper, a disconnect never blocks a root server.
LEMMA DisconnectTools == ToolInv /\ DisconnectStep => ToolParts'
<1> SUFFICES ASSUME ToolInv, DisconnectStep PROVE ToolParts'
  OBVIOUS
<1> DEFINE i == Here.arg
<1>1. At("disconnect") /\ InTest /\ pc \in DOMAIN Listing /\ Here.op = "disconnect"
  BY DEF DisconnectStep, At
<1>2. i \in Initiators
  BY <1>1, ArgType DEF ToolInv, RunInv, InitiatorOps
<1>3. InCleanup(test, "disconnect", i)
  BY <1>1, InTheCleanup DEF ToolInv, InCleanup, Here, Listing
<1>4. PICK d \in Durations[i], ok \in BOOLEAN :
        /\ Goes(ok)
        /\ \/ DisconnectOk(i, d) /\ ok
           \/ DisconnectFailed(i, d) /\ ~ok
  BY DEF DisconnectStep
<1>5. Releases(i, ok)
  BY <1>2, <1>4, DisconnectServerType, DeleteReleases
     DEF ToolInv, RunInv, TypeOK, DisconnectOk, DisconnectFailed
<1>6. ToolsHeld' /\ ToolsEnd' /\ TargetsEnd'
  BY <1>1, <1>4, GoesTools, GoesTargets, JobsFollowActive
     DEF DisconnectStep, bedVars, ToolInv, RunInv
<1>7. UNCHANGED <<disc, alive>>
  BY <1>4 DEF DisconnectOk, DisconnectFailed
<1>8. \A j \in Initiators : dev'[j] => dev[j]
  BY <1>2, <1>5 DEF Releases
<1>9. \A s \in Roots : pending'[s] # Null => pending[s] # Null
  <2>1. CASE dev[i]
    <3>1. DisconnectServer(i) \in DiscServers
      BY <1>2, <1>3, <2>1 DEF ToolInv, Wrapped, DisconnectServer, DiscServers
    <3>2. QED
      BY <1>4, <3>1
         DEF Roots, ToolInv, RunInv, TypeOK, NITypeOK, DisconnectOk, DisconnectFailed,
             DeleteOk, DeleteFails, DeleteSkipped, DeleteRefused, DeleteDone, DeleteTimedOut
  <2>2. CASE ~dev[i]
    BY <1>4, <2>2
       DEF DisconnectOk, DisconnectFailed, DeleteOk, DeleteFails, DeleteSkipped,
           DeleteRefused, DeleteDone, DeleteTimedOut
  <2>3. QED
    BY <2>1, <2>2
<1>10. Blocked_' /\ Wrapped'
  BY <1>1, <1>4, <1>7, <1>8, <1>9, GoesServers
<1>11. QED
  BY <1>6, <1>10 DEF ToolParts

\* Without it, one that blocks the server fails the test.
LEMMA RawDisconnectTools ==
  ASSUME ToolInv, NEW op \in RawDisconnects, At(op),
         RawDisconnect(Here.arg) \/ DisconnectAll(Here.arg)
  PROVE  ToolParts'
<1> DEFINE i == Here.arg
<1>1. InTest /\ pc \in DOMAIN Listing /\ Here.op = op
  BY DEF At
<1>2. i \in Initiators
  BY <1>1, ArgType DEF ToolInv, RunInv, InitiatorOps, RawDisconnects
<1>3. Here.checked /\ RawTest(test)
  BY <1>1, BodyAssumption, RawAssumption
     DEF ToolInv, RunInv, TypeOK, Here, Listing, InTest, RawTest, Anywhere
<1>4. PICK d \in Durations[i], ok \in BOOLEAN :
        /\ Goes(ok)
        /\ \/ /\ DeleteOk(i, rpcs[i], deftimeout[rpcs[i]], d) /\ ok
              /\ rc' = [rc EXCEPT ![i] = "ok"]
           \/ /\ DeleteFails(i, rpcs[i], deftimeout[rpcs[i]], d) /\ ~ok
              /\ rc' = [rc EXCEPT ![i] = "error"]
           \/ /\ DeleteOk(i, rpcs[i], deftimeout[rpcs[i]], d) /\ ~ok
              /\ rc' = [rc EXCEPT ![i] = "error"]
  BY DEF RawDisconnect, DisconnectAll, RawDisconnectOk, RawDisconnectFailed
<1>5. Releases(i, ok)
  BY <1>2, <1>4, DeleteReleases DEF ToolInv, RunInv, TypeOK, NITypeOK
<1>6. JobsFollow /\ UNCHANGED <<disc, alive, tgt, ptr>>
  BY DEF RawDisconnect, DisconnectAll, RawDisconnectOk, RawDisconnectFailed, bedVars
<1>7. ToolsHeld' /\ ToolsEnd' /\ TargetsEnd'
  BY <1>1, <1>4, <1>6, GoesTools, GoesTargets, JobsFollowActive
     DEF ToolInv, RunInv, RawDisconnects
<1>8. \A j \in Initiators : dev'[j] => dev[j]
  BY <1>2, <1>5 DEF Releases
<1>9. \A s \in Roots : pending'[s] # Null => pending[s] # Null \/ Spoilt'
  <2>1. CASE ok
    BY <1>4, <2>1 DEF DeleteOk, DeleteSkipped, DeleteDone
  <2>2. CASE ~ok
    BY <1>1, <1>3, <1>4, <2>2, GoesFlow DEF ToolInv, InTest, Spoilt
  <2>3. QED
    BY <2>1, <2>2
<1>10. Blocked_' /\ Wrapped'
  BY <1>1, <1>4, <1>6, <1>8, <1>9, GoesServers DEF RawDisconnects
<1>11. QED
  BY <1>7, <1>10 DEF ToolParts

LEMMA InitiatorTools == ToolInv /\ InitiatorStep => ToolParts'
<1> SUFFICES ASSUME ToolInv, InitiatorStep PROVE ToolParts'
  OBVIOUS
<1>1. CASE SelectStep
  <2>1. InTest /\ pc \in DOMAIN Listing /\ Here.op = "select" /\ Goes(TRUE)
    BY <1>1 DEF SelectStep, At
  <2>2. \A a \in Apps : ptr'[a] = ptr[a]
    BY <1>1, TestAssumption DEF SelectStep, ToolInv, RunInv, TypeOK, Handles
  <2>3. UNCHANGED <<dev, disc, alive, pending, tgt, job>>
    BY <1>1 DEF SelectStep, niVars, bedVars
  <2>4. QED
    BY <2>1, <2>2, <2>3, GoesServers, GoesTools, GoesTargets DEF ToolParts
<1>2. CASE RawDisconnectStep \/ FnDisconnectStep \/ FnDisconnectAllStep
  BY <1>2, RawDisconnectTools, CrashTools
     DEF RawDisconnectStep, FnDisconnectStep, FnDisconnectAllStep, RawDisconnects
<1>3. QED
  BY <1>1, <1>2, InitRpcsTools, ConnectTools, DisconnectTools DEF InitiatorStep

\* A step that leaves the initiators and the tools alone.
LEMMA QuietTools ==
  ASSUME ToolInv, NEW ok, Goes(ok), InTest, pc \in DOMAIN Listing,
         Here.op \notin {"create", "destroy", "initiator_init"},
         UNCHANGED niVars, UNCHANGED ptr,
         \A a \in Apps : job'[a] \in Active => job[a] \in Active
  PROVE  Blocked_' /\ Wrapped' /\ ToolsHeld' /\ ToolsEnd'
<1>1. UNCHANGED <<dev, disc, alive, pending>>
  BY DEF niVars
<1>2. QED
  BY <1>1, GoesServers, GoesTools

\* What is set up was initialised by the body, and no cleanup sets up anything.
LEMMA SetUpTargets ==
  ASSUME ToolInv, TargetTaStep \/ TargetInitStep \/ TargetSetupStep \/ TargetKillStep
  PROVE  TargetsEnd'
<1>1. PICK ok \in BOOLEAN : Goes(ok)
  BY DEF TargetTaStep, TargetInitStep, TargetSetupStep, TargetKillStep, TargetGoes
<1>2. phase = "body" /\ pc \in DOMAIN Listing
  BY InTheBody
     DEF ToolInv, TargetTaStep, TargetInitStep, TargetSetupStep, TargetKillStep,
         RawDisconnects, At
<1>3. test' = test /\ (phase' = "body" \/ pc' = 1)
  BY <1>1, <1>2, GoesFlow DEF ToolInv, InTest
<1>4. \A t \in Targets :
        tgt'[t] \in {"inited", "serving", "killed"} =>
          tgt[t] \in {"inited", "serving", "killed"} \/ InBody(test, "target_init", t)
  <2>1. TargetInitStep => Here.op = "target_init"
    BY DEF TargetInitStep, At
  <2>2. Here = Scripts[test].body[pc] /\ pc \in DOMAIN Scripts[test].body
    BY <1>2 DEF Here, Listing
  <2>3. CASE TargetInitStep
    BY <2>1, <2>2, <2>3
       DEF ToolInv, RunInv, TypeOK, TargetInitStep, TargetGoes, InBody
  <2>4. CASE TargetTaStep \/ TargetSetupStep \/ TargetKillStep
    BY <2>4 DEF ToolInv, RunInv, TypeOK, TargetTaStep, TargetSetupStep, TargetKillStep,
                TargetGoes
  <2>5. QED
    BY <2>3, <2>4
<1>5. QED
  BY <1>3, <1>4, CleanupDomain DEF ToolInv, RunInv, TargetsEnd

LEMMA FiniTargets ==
  ASSUME ToolInv, At("target_fini"), Goes(TRUE),
         \/ tgt' = [tgt EXCEPT ![Here.arg] = "finished"]
         \/ tgt[Here.arg] = "garbage" /\ UNCHANGED tgt
  PROVE  TargetsEnd'
<1> DEFINE x == Here.arg
<1>1. InTest /\ pc \in DOMAIN Listing /\ x \in Targets
  BY ArgType DEF ToolInv, RunInv, At, TargetOps
<1>2. /\ tgt'[x] \in {"garbage", "finished"}
      /\ \A t \in Targets \ {x} : tgt'[t] = tgt[t]
  BY <1>1 DEF ToolInv, RunInv, TypeOK
<1>3. /\ test' = test
      /\ phase = "body" /\ phase' # "body" => pc' = 1
      /\ phase = "cleanup" => phase' = "cleanup" /\ pc' = pc + 1
  BY <1>1, GoesFlow DEF ToolInv
<1>4. ASSUME phase' \in {"cleanup", "done"}, NEW k \in DOMAIN Scripts[test].cleanup, k < pc',
             Scripts[test].cleanup[k].op = "target_fini"
      PROVE  Scripts[test].cleanup[k].arg = x \/ (phase = "cleanup" /\ k < pc)
  <2>1. phase = "cleanup" /\ pc' = pc + 1
    BY <1>1, <1>3, <1>4, CleanupDomain DEF ToolInv, RunInv, InTest
  <2>2. QED
    BY <1>4, <2>1, CleanupDomain DEF ToolInv, RunInv, TypeOK, Here, Listing
<1>5. QED
  BY <1>2, <1>3, <1>4 DEF ToolInv, TargetsEnd

LEMMA TargetTools == ToolInv /\ (TargetStep \/ GarbageFiniStep) => ToolParts'
<1> SUFFICES ASSUME ToolInv, TargetStep \/ GarbageFiniStep PROVE ToolParts'
  OBVIOUS
<1>1. CASE Crash
  BY <1>1, CrashTools
<1>2. CASE ~Crash
  <2>1. UNCHANGED niVars /\ UNCHANGED <<ptr, job>>
    BY <1>2 DEF TargetStep, GarbageFiniStep, appVars
  <2>2. /\ InTest /\ pc \in DOMAIN Listing
        /\ Here.op \notin {"create", "destroy", "initiator_init"}
    BY <1>2 DEF TargetStep, GarbageFiniStep, TargetTaStep, TargetInitStep,
                TargetSetupStep, TargetKillStep, TargetFiniStep, At
  <2>3. PICK ok \in BOOLEAN : Goes(ok)
    BY <1>2 DEF TargetStep, GarbageFiniStep, TargetTaStep, TargetInitStep,
                TargetSetupStep, TargetKillStep, TargetFiniStep, TargetGoes
  <2>4. TargetsEnd'
    BY <1>2, SetUpTargets, FiniTargets
       DEF TargetStep, GarbageFiniStep, TargetFiniStep, bedVars
  <2>5. QED
    BY <2>1, <2>2, <2>3, <2>4, QuietTools DEF ToolParts
<1>3. QED
  BY <1>1, <1>2

LEMMA CreateTools == ToolInv /\ CreateStep => ToolsHeld' /\ ToolsEnd'
<1> SUFFICES ASSUME ToolInv, CreateStep PROVE ToolsHeld' /\ ToolsEnd'
  OBVIOUS
<1> DEFINE x == Here.arg
<1>1. At("create") /\ InTest /\ pc \in DOMAIN Listing /\ Here.op = "create" /\ Goes(TRUE)
  BY DEF CreateStep, At
<1>2. x \in Apps /\ phase = "body"
  BY <1>1, ArgType, InTheBody DEF ToolInv, RunInv, AppOps, RawDisconnects
<1>3. /\ ptr'[x] = "set" /\ job'[x] \notin Active
      /\ \A a \in Apps \ {x} : ptr'[a] = ptr[a] /\ job'[a] = job[a]
  BY <1>2 DEF ToolInv, RunInv, TypeOK, ToolTypeOK, CreateStep, Handles, Active
<1>4. test' = test /\ (phase' = "body" => pc' = pc + 1)
      /\ (phase' # "body" => pc' = 1) /\ (Spoilt => Spoilt')
  BY <1>1, <1>2, GoesFlow DEF ToolInv
<1>5. ASSUME phase' = "body", NEW a \in Apps, Before(test, pc', "create", a)
      PROVE  ptr'[a] = "set"
  <2>1. Before(test, pc, "create", a) \/ a = x
    BY <1>2, <1>4, <1>5, BeforeNext DEF ToolInv, RunInv
  <2>2. QED
    BY <1>2, <1>3, <2>1 DEF ToolInv, ToolsHeld
<1>6. ToolsHeld'
  BY <1>3, <1>4, <1>5 DEF ToolInv, ToolsHeld
<1>7. ToolsEnd'
  BY <1>4, CleanupDomain DEF ToolInv, RunInv, ToolsEnd
<1>8. QED
  BY <1>6, <1>7

LEMMA StartTools == ToolInv /\ StartStep => ToolsHeld' /\ ToolsEnd'
<1> SUFFICES ASSUME ToolInv, StartStep PROVE ToolsHeld' /\ ToolsEnd'
  OBVIOUS
<1> DEFINE x == Here.arg
<1>1. At("start") /\ InTest /\ pc \in DOMAIN Listing /\ Here.op = "start"
  BY DEF StartStep, At
<1>2. x \in Apps /\ phase = "body"
  BY <1>1, ArgType, InTheBody DEF ToolInv, RunInv, AppOps, RawDisconnects
<1>3. Before(test, pc, "create", x) /\ InBody(test, "start", x)
  BY <1>1, <1>2, BodyAssumption DEF ToolInv, RunInv, TypeOK, Here, Listing, InBody
<1>4. ptr[x] = "set"
  BY <1>2, <1>3 DEF ToolInv, ToolsHeld
<1>5. UNCHANGED ptr /\ \A a \in Apps \ {x} : job'[a] = job[a]
  BY <1>2 DEF ToolInv, RunInv, TypeOK, ToolTypeOK, StartStep, Started
<1>6. PICK ok \in BOOLEAN : Goes(ok)
  BY DEF StartStep
<1>7. test' = test /\ (phase' = "body" => pc' = pc + 1)
      /\ (phase' # "body" => pc' = 1) /\ (Spoilt => Spoilt')
  BY <1>1, <1>2, <1>6, GoesFlow DEF ToolInv
<1>8. ASSUME phase' = "body", NEW a \in Apps, Before(test, pc', "create", a)
      PROVE  ptr[a] = "set"
  BY <1>1, <1>2, <1>7, <1>8, BeforeNext DEF ToolInv, RunInv, ToolsHeld
<1>9. ToolsHeld'
  BY <1>3, <1>4, <1>5, <1>7, <1>8 DEF ToolInv, ToolsHeld
<1>10. ToolsEnd'
  BY <1>7, CleanupDomain DEF ToolInv, RunInv, ToolsEnd
<1>11. QED
  BY <1>9, <1>10

\* A tool survives its destruction only on a server that a raw disconnect blocked.
LEMMA DestroyTools == ToolInv /\ DestroyStep => ToolsHeld' /\ ToolsEnd'
<1> SUFFICES ASSUME ToolInv, DestroyStep PROVE ToolsHeld' /\ ToolsEnd'
  OBVIOUS
<1> DEFINE x == Here.arg
<1>1. At("destroy") /\ InTest /\ pc \in DOMAIN Listing /\ Here.op = "destroy" /\ Goes(TRUE)
  BY DEF DestroyStep, At
<1>2. x \in Apps /\ phase = "cleanup"
  BY <1>1, ArgType, InTheCleanup DEF ToolInv, RunInv, AppOps
<1>3. test' = test /\ phase' = "cleanup" /\ pc' = pc + 1 /\ (Spoilt => Spoilt')
  BY <1>1, <1>2, GoesFlow DEF ToolInv
<1>4. /\ \A a \in Apps \ {x} : ptr'[a] = ptr[a] /\ job'[a] = job[a]
      /\ job'[x] \in Active => Spoilt
  <2>1. CASE ptr[x] = "set" /\ Destroyed(x) /\ ptr' = [ptr EXCEPT ![x] = "wild"]
    <3>1. \A a \in Apps \ {x} : ptr'[a] = ptr[a] /\ job'[a] = job[a]
      BY <1>2, <2>1 DEF ToolInv, RunInv, TypeOK, ToolTypeOK, Destroyed, Handles
    <3>2. AppServer[x] \in Roots
      BY <1>2, ToolAssumption, TestAssumption DEF Roots
    <3>3. job'[x] \in Active => ~Answers(x)
      BY <1>2, <2>1 DEF ToolInv, RunInv, TypeOK, ToolTypeOK, Destroyed, Killed, Active
    <3>4. ~Answers(x) => Spoilt
      BY <3>2 DEF Answers, Ready, ToolInv, Blocked_
    <3>5. QED
      BY <3>1, <3>3, <3>4
  <2>2. CASE ptr[x] # "set" /\ UNCHANGED appVars
    BY <1>2, <2>2 DEF ToolInv, ToolsHeld, appVars
  <2>3. QED
    BY <2>1, <2>2 DEF DestroyStep
<1>5. \A a \in Apps : job'[a] \in Active => job[a] \in Active
  <2>1. job'[x] \in Active => job[x] \in Active
    BY <1>2 DEF ToolInv, RunInv, TypeOK, ToolTypeOK, DestroyStep, Destroyed, Killed,
                Active, appVars
  <2>2. QED
    BY <1>4, <2>1
<1>6. ToolsHeld'
  BY <1>2, <1>3, <1>4, <1>5 DEF ToolInv, ToolsHeld
<1>7. ToolsEnd'
  <2> SUFFICES ASSUME NEW k \in DOMAIN Scripts[test].cleanup, NEW a \in Apps, k < pc',
                      Scripts[test].cleanup[k].op = "destroy",
                      Scripts[test].cleanup[k].arg = a
               PROVE  job'[a] \notin Active \/ Spoilt'
    BY <1>3 DEF ToolsEnd
  <2>1. CASE a = x
    BY <1>3, <1>4, <2>1
  <2>2. CASE a # x
    <3>1. k # pc
      BY <1>2, <2>2 DEF Here, Listing
    <3>2. k < pc
      BY <1>3, <3>1, CleanupDomain DEF ToolInv, RunInv, TypeOK
    <3>3. QED
      BY <1>2, <1>3, <1>4, <2>2, <3>2 DEF ToolInv, ToolsEnd
  <2>3. QED
    BY <2>1, <2>2
<1>8. QED
  BY <1>6, <1>7

LEMMA AppTools == ToolInv /\ AppStep => ToolParts'
<1> SUFFICES ASSUME ToolInv, AppStep PROVE ToolParts'
  OBVIOUS
<1>1. CASE WildDestroyStep
  BY <1>1, CrashTools DEF WildDestroyStep
<1>2. CASE /\ CreateStep \/ StartStep \/ WaitStep \/ StopStep \/ DestroyStep
           /\ UNCHANGED niVars /\ UNCHANGED bedVars
  <2>1. PICK ok \in BOOLEAN : Goes(ok)
    BY <1>2 DEF CreateStep, StartStep, WaitStep, StopStep, DestroyStep
  <2>2. /\ InTest /\ pc \in DOMAIN Listing
        /\ Here.op \in AppOps
        /\ WaitStep \/ StopStep => Here.op \in {"wait", "stop"}
    BY <1>2 DEF CreateStep, StartStep, WaitStep, StopStep, DestroyStep, At, AppOps
  <2>3. UNCHANGED <<dev, disc, alive, pending, tgt>>
    BY <1>2 DEF niVars, bedVars
  <2>4. Blocked_' /\ Wrapped' /\ TargetsEnd'
    BY <2>1, <2>2, <2>3, GoesServers, GoesTargets DEF AppOps
  <2>5. CASE WaitStep \/ StopStep
    <3>1. /\ UNCHANGED ptr
          /\ \A a \in Apps : job'[a] \in Active => job[a] \in Active
      BY <2>5 DEF ToolInv, RunInv, TypeOK, ToolTypeOK, WaitStep, StopStep, Stopped,
                  Killed, Active, appVars
    <3>2. QED
      BY <2>1, <2>2, <2>4, <2>5, <3>1, GoesTools DEF ToolParts
  <2>6. QED
    BY <1>2, <2>4, <2>5, CreateTools, StartTools, DestroyTools DEF ToolParts
<1>3. QED
  BY <1>1, <1>2 DEF AppStep

LEMMA BedTools == ToolInv /\ BedStep => ToolParts'
<1> SUFFICES ASSUME ToolInv, BedStep PROVE ToolParts'
  OBVIOUS
<1>1. PICK ok \in BOOLEAN : Goes(ok)
  BY DEF BedStep, CallStep, NetemStep, IfDownStep, IfUpStep, IfStep, SleepStep
<1>2. /\ InTest /\ pc \in DOMAIN Listing
      /\ Here.op \in BedOps
  BY DEF BedStep, CallStep, NetemStep, IfDownStep, IfUpStep, IfStep, SleepStep, At, BedOps
<1>3. /\ UNCHANGED niVars /\ UNCHANGED <<ptr, tgt>>
      /\ \A a \in Apps : job'[a] \in Active => job[a] \in Active
  BY DEF BedStep, CallStep, NetemStep, IfDownStep, IfUpStep, IfStep, SleepStep, bedVars,
         appVars, Active
<1>4. QED
  BY <1>1, <1>2, <1>3, QuietTools, GoesTargets DEF ToolParts, BedOps

LEMMA EndTools == ToolInv /\ (Success \/ End) => ToolParts'
<1> SUFFICES ASSUME ToolInv, Success \/ End PROVE ToolParts'
  OBVIOUS
<1>1. /\ UNCHANGED <<test, dev, disc, alive, pending, tgt, ptr, job>>
      /\ phase' # "body"
      /\ Success => pc' = 1
      /\ End => phase = "cleanup" /\ pc' = pc
      /\ Spoilt => Spoilt'
  BY DEF Success, End, niVars, bedVars, appVars, Spoilt
<1>2. Blocked_' /\ Wrapped' /\ ToolsHeld'
  BY <1>1 DEF ToolInv, Blocked_, Wrapped, ToolsHeld
<1>3. ToolsEnd' /\ TargetsEnd'
  BY <1>1, CleanupDomain DEF ToolInv, RunInv, ToolsEnd, TargetsEnd
<1>4. QED
  BY <1>2, <1>3 DEF ToolParts

LEMMA EnvironmentTools == ToolInv /\ Environment => ToolParts'
<1> SUFFICES ASSUME ToolInv, Environment PROVE ToolParts'
  OBVIOUS
<1>1. /\ UNCHANGED <<flowVars, dev, disc, alive, tgt, ptr>>
      /\ \A s \in Roots : pending'[s] # Null => pending[s] # Null
      /\ \A a \in Apps : job'[a] \in Active => job[a] \in Active
  <2>1. CASE KernelStep
    <3>1. \A a \in Apps : job'[a] \in Active => job[a] \in Active
      BY <2>1, JobsFollowActive DEF ToolInv, RunInv, KernelStep
    <3>2. UNCHANGED <<flowVars, dev, disc, alive, tgt, ptr>>
      BY <2>1
         DEF KernelStep, LoseStep, RecoverStep, CtrlLoses, CtrlRecovers, CtrlExpires,
             CtrlMoves, LateAnswer, objVars, serverVars, bedVars
    <3>3. \A s \in Roots : pending'[s] # Null => pending[s] # Null
      BY <2>1
         DEF KernelStep, LoseStep, RecoverStep, CtrlLoses, CtrlRecovers, CtrlExpires,
             CtrlMoves, LateAnswer, serverVars, Roots, ToolInv, RunInv, TypeOK, NITypeOK
    <3>4. QED
      BY <3>1, <3>2, <3>3
  <2>2. ASSUME NEW a \in Apps, AppExits(a)
        PROVE  /\ UNCHANGED <<flowVars, dev, disc, alive, tgt, ptr, pending>>
               /\ \A b \in Apps : job'[b] \in Active => job[b] \in Active
    BY <2>2 DEF AppExits, Exits, niVars, bedVars, Active, ToolInv, RunInv, TypeOK,
                ToolTypeOK
  <2>3. QED
    BY <2>1, <2>2 DEF Environment
<1>2. UNCHANGED <<test, phase, pc, verdict>>
  BY <1>1 DEF flowVars
<1>3. QED
  BY <1>1, <1>2 DEF ToolInv, ToolParts, Blocked_, Wrapped, ToolsHeld, ToolsEnd,
                    TargetsEnd, Spoilt

LEMMA ToolInvStep == ToolInv /\ [Next]_vars => ToolInv'
<1> SUFFICES ASSUME ToolInv, [Next]_vars PROVE RunInv' /\ ToolParts'
  BY DEF ToolInv, ToolParts
<1>1. RunInv'
  BY RunInvStep DEF ToolInv
<1>2. CASE UNCHANGED vars
  <2>1. UNCHANGED <<test, phase, pc, verdict, dev, disc, alive, pending, tgt, ptr, job>>
    BY <1>2 DEF vars, niVars, flowVars, bedVars, appVars
  <2>2. QED
    BY <1>1, <2>1
       DEF ToolInv, ToolParts, Blocked_, Wrapped, ToolsHeld, ToolsEnd, TargetsEnd, Spoilt
<1>3. CASE DivisionStep
  BY <1>1, <1>3, CrashTools DEF DivisionStep
<1>4. QED
  BY <1>1, <1>2, <1>3, InitiatorTools, TargetTools, AppTools, BedTools, EndTools,
     EnvironmentTools DEF Next, TestStep

LEMMA ToolInvAlways == Spec => []ToolInv
<1>1. Init => ToolInv
  BY InitType, PromisesInit, ToolInitial DEF ToolInv, ToolParts, RunInv
<1>2. QED
  BY <1>1, ToolInvStep, PTL DEF Spec

\* The servers a test works with are blocked only if it disconnects without the
\* wrapper, in whatever way any of its calls fails.
THEOREM HungServersAreRaw == Spec => []HungOnlyByRawDisconnect
<1>1. ToolInv => HungOnlyByRawDisconnect
  BY DEF ToolInv, Blocked_, Roots, Spoilt, HungOnlyByRawDisconnect
<1>2. QED
  BY <1>1, ToolInvAlways, PTL

\* When the cleanup comes to disconnect an object, the tools that work on its device
\* have ended, also after a failed start, wait or stop.
THEOREM DisconnectsAreQuiet == Spec => []QuietDisconnect
<1>1. ToolInv => QuietDisconnect
  <2> SUFFICES ASSUME ToolInv, At("disconnect"), NEW a \in Apps, AppOn[a] = Here.arg,
                      job[a] \in Active
               PROVE  RawTest(test)
    BY DEF QuietDisconnect, Idle
  <2>1. phase = "cleanup" /\ pc \in DOMAIN Scripts[test].cleanup
        /\ Scripts[test].cleanup[pc].op = "disconnect"
        /\ Scripts[test].cleanup[pc].arg = AppOn[a]
    BY InTheCleanup DEF ToolInv, At, Here, Listing
  <2>2. PICK k \in DOMAIN Scripts[test].cleanup :
          Scripts[test].cleanup[k].op = "destroy" /\ Scripts[test].cleanup[k].arg = a
    BY CleanupAssumption DEF ToolInv, ToolsHeld, RunInv, TypeOK, InCleanup
  <2>3. k < pc
    BY <2>1, <2>2, CleanupAssumption DEF ToolInv, RunInv, TypeOK
  <2>4. QED
    BY <2>1, <2>2, <2>3 DEF ToolInv, ToolsEnd, Spoilt
<1>2. QED
  BY <1>1, ToolInvAlways, PTL

\* A test that goes through the wrapper leaves no tool behind when it reaches its end.
THEOREM ToolsDoNotOutlive == Spec => []NoToolOutlivesTest
<1>1. ToolInv => NoToolOutlivesTest
  <2> SUFFICES ASSUME ToolInv, phase = "done", NEW a \in Apps, job[a] \in Active
               PROVE  RawTest(test)
    BY DEF NoToolOutlivesTest
  <2>1. PICK k \in DOMAIN Scripts[test].cleanup :
          Scripts[test].cleanup[k].op = "destroy" /\ Scripts[test].cleanup[k].arg = a
    BY CleanupAssumption DEF ToolInv, ToolsHeld, RunInv, TypeOK, InCleanup
  <2>2. k < pc
    BY PastTheEnd DEF ToolInv, RunInv, Promises, Ended
  <2>3. QED
    BY <2>1, <2>2 DEF ToolInv, ToolsEnd, Spoilt
<1>2. QED
  BY <1>1, ToolInvAlways, PTL

-----------------------------------------------------------------------------
(***************************************************************************)
(* The inductive invariant behind early crashes: as long as some pointer   *)
(* the test is going to follow was not filled in, the bed is untouched.    *)
(***************************************************************************)

Wipes(t, x) == InBody(t, "target_fini", x) \/ InCleanup(t, "target_fini", x)

\* Up to its last step, the cleanup has wiped nothing.
Ahead == phase = "cleanup" => pc \in DOMAIN Scripts[test].cleanup

CrashInv ==
  Scripts[test].wild = {} =>
    /\ phase = "body" =>
         /\ Before(test, pc, "select", "bed") => ptr[Fn] = "set"
         /\ \A x \in Targets : Before(test, pc, "target_ta", x) => tgt[x] # "garbage"
    /\ \A x \in Targets : tgt[x] = "garbage" => Scripts[test].target = "garbage"
    /\ InTest /\ Ahead =>
         /\ Anywhere(test, ThroughPointer) /\ ptr[Fn] # "set" => Untouched
         /\ \A x \in Targets : Wipes(test, x) /\ tgt[x] = "garbage" => Untouched
    /\ \A a \in Apps : ptr[a] = "wild" =>
         /\ phase # "body"
         /\ \E k \in DOMAIN Scripts[test].cleanup :
              /\ k < pc /\ Scripts[test].cleanup[k].op = "destroy"
              /\ Scripts[test].cleanup[k].arg = a

PointerInv == TypeOK /\ CrashInv

LEMMA PointerInvInit == Init => CrashInv
<1> SUFFICES ASSUME Init, Scripts[test].wild = {} PROVE CrashInv
  BY DEF CrashInv
<1>1. TypeOK /\ test \in DOMAIN Scripts /\ phase = "body" /\ pc = 1
  BY InitType DEF Init
<1>2. \A op, arg : ~Before(test, pc, op, arg)
  BY <1>1, BodyDomain DEF Before
<1>3. Scripts[test].target \in {"garbage", "typed"}
  BY <1>1, TestAssumption
<1>4. Untouched
  BY <1>1, <1>3 DEF Init, NIInit, Untouched, Active
<1>5. \A a \in Apps : ptr[a] # "wild"
  BY DEF Init, Handles
<1>6. \A x \in Targets : tgt[x] = Scripts[test].target
  BY DEF Init
<1>7. QED
  BY <1>1, <1>2, <1>4, <1>5, <1>6 DEF CrashInv

\* A step that returns, and touches the bed only if it is one that may.
LEMMA GoesPointers ==
  ASSUME PointerInv, Scripts[test].wild = {}, NEW ok, Goes(ok), InTest, pc \in DOMAIN Listing,
         \A x \in Targets : tgt'[x] = "garbage" => tgt[x] = "garbage",
         ptr[Fn] = "set" => ptr'[Fn] = "set",
         Here.op = "select" => ptr'[Fn] = "set",
         Here.op = "target_ta" /\ ok => tgt'[Here.arg] # "garbage",
         \A a \in Apps : ptr'[a] = "wild" =>
           ptr[a] = "wild" \/ (Here.op = "destroy" /\ Here.arg = a),
         Untouched /\ Here.op \notin Touching \ ThroughPointer => Untouched'
  PROVE  CrashInv'
<1>1. TypeOK /\ test' = test /\ test \in DOMAIN Scripts
  BY DEF PointerInv, TypeOK, Goes
<1>2. CASE phase = "body"
  <2>1. Here = Scripts[test].body[pc] /\ pc \in DOMAIN Scripts[test].body
    BY <1>2 DEF Here, Listing
  <2>2. \/ phase' = "body" /\ pc' = pc + 1 /\ (ok \/ ~Here.checked)
        \/ phase' = "cleanup" /\ pc' = 1
    BY <1>2 DEF Goes
  <2>3. Here.op # "destroy" /\ (Here.op = "target_ta" => Here.checked)
    BY <1>1, <2>1, BodyAssumption
  <2>4. \A a \in Apps : ptr'[a] # "wild"
    BY <1>2, <2>3 DEF PointerInv, CrashInv
  <2>5. ASSUME phase' = "body"
        PROVE  /\ Before(test, pc', "select", "bed") => ptr'[Fn] = "set"
               /\ \A x \in Targets : Before(test, pc', "target_ta", x) => tgt'[x] # "garbage"
    <3>1. pc' = pc + 1 /\ (ok \/ ~Here.checked)
      BY <2>2, <2>5
    <3>2. Before(test, pc + 1, "select", "bed") =>
            Before(test, pc, "select", "bed") \/ Here.op = "select"
      BY <1>1, <1>2, BeforeNext
    <3>3. ASSUME NEW x \in Targets, Before(test, pc + 1, "target_ta", x)
          PROVE  tgt'[x] # "garbage"
      <4>1. Before(test, pc, "target_ta", x) \/ (Here.op = "target_ta" /\ Here.arg = x)
        BY <1>1, <1>2, <3>3, BeforeNext
      <4>2. QED
        BY <1>2, <2>3, <3>1, <4>1 DEF PointerInv, CrashInv
    <3>4. QED
      BY <1>2, <3>1, <3>2, <3>3 DEF PointerInv, CrashInv
  <2>6. ASSUME \/ Anywhere(test, ThroughPointer) /\ ptr'[Fn] # "set"
               \/ \E x \in Targets : Wipes(test, x) /\ tgt'[x] = "garbage"
        PROVE  Untouched'
    <3>1. Untouched
      BY <1>2, <2>6 DEF PointerInv, CrashInv, InTest, Ahead
    <3>2. Here.op \notin Touching
      <4>1. CASE Anywhere(test, ThroughPointer) /\ ptr'[Fn] # "set"
        BY <1>1, <1>2, <2>1, <4>1, PointerAssumption DEF PointerInv, CrashInv
      <4>2. ASSUME NEW x \in Targets, Wipes(test, x), tgt'[x] = "garbage"
            PROVE  Here.op \notin Touching
        <5>1. tgt[x] = "garbage" /\ Scripts[test].target = "garbage"
          BY <4>2 DEF PointerInv, CrashInv
        <5>2. QED
          BY <1>1, <1>2, <2>1, <4>2, <5>1, PointerAssumption DEF PointerInv, CrashInv, Wipes
      <4>3. QED
        BY <2>6, <4>1, <4>2
    <3>3. QED
      BY <3>1, <3>2
  <2>7. \A x \in Targets : tgt'[x] = "garbage" => Scripts[test].target = "garbage"
    BY DEF PointerInv, CrashInv
  <2>8. QED
    BY <1>1, <2>2, <2>4, <2>5, <2>6, <2>7 DEF CrashInv
<1>3. CASE phase = "cleanup"
  <2>1. Here = Scripts[test].cleanup[pc] /\ pc \in DOMAIN Scripts[test].cleanup
    BY <1>3 DEF Here, Listing
  <2>2. phase' = "cleanup" /\ pc' = pc + 1
    BY <1>3 DEF Goes
  <2>3. ASSUME Ahead', \/ Anywhere(test, ThroughPointer) /\ ptr'[Fn] # "set"
                       \/ \E x \in Targets : Wipes(test, x) /\ tgt'[x] = "garbage"
        PROVE  Untouched'
    <3>1. Untouched
      BY <1>3, <2>1, <2>3 DEF PointerInv, CrashInv, InTest, Ahead
    <3>2. pc + 1 \in DOMAIN Scripts[test].cleanup
      BY <1>1, <2>2, <2>3 DEF Ahead
    <3>3. Here.op # "target_fini"
      BY <1>1, <2>1, <3>2, CleanupAssumption, CleanupDomain
    <3>4. Here.op \notin Touching \ ThroughPointer
      BY <1>1, <2>1, <3>3, CleanupAssumption DEF Touching, ThroughPointer, RawDisconnects
    <3>5. QED
      BY <3>1, <3>4
  <2>4. ASSUME NEW a \in Apps, ptr'[a] = "wild"
        PROVE  \E k \in DOMAIN Scripts[test].cleanup :
                 /\ k < pc' /\ Scripts[test].cleanup[k].op = "destroy"
                 /\ Scripts[test].cleanup[k].arg = a
    <3>1. CASE Here.op = "destroy" /\ Here.arg = a
      BY <1>1, <2>1, <2>2, <3>1 DEF TypeOK
    <3>2. CASE ptr[a] = "wild"
      <4>1. PICK k \in DOMAIN Scripts[test].cleanup :
              /\ k < pc /\ Scripts[test].cleanup[k].op = "destroy"
              /\ Scripts[test].cleanup[k].arg = a
        BY <3>2 DEF PointerInv, CrashInv
      <4>2. k < pc'
        BY <1>1, <2>2, <4>1, CleanupDomain DEF TypeOK
      <4>3. QED
        BY <4>1, <4>2
    <3>3. QED
      BY <2>4, <3>1, <3>2
  <2>5. \A x \in Targets : tgt'[x] = "garbage" => Scripts[test].target = "garbage"
    BY DEF PointerInv, CrashInv
  <2>6. QED
    BY <1>1, <2>2, <2>3, <2>4, <2>5 DEF CrashInv
<1>4. QED
  BY <1>2, <1>3 DEF InTest

\* A dead test follows no pointers.
LEMMA CrashPointers == PointerInv /\ Crash => CrashInv'
BY DEF PointerInv, CrashInv, Crash, niVars, bedVars, appVars, InTest, Ahead

\* The only pointers a test follows that it may not have filled in are followed before
\* it has touched the bed.
LEMMA FnCrash ==
  ASSUME PointerInv, Scripts[test].wild = {}, NEW op \in ThroughPointer, At(op), ptr[Fn] # "set"
  PROVE  Untouched
<1>1. InTest /\ pc \in DOMAIN Listing /\ Listing[pc].op \in ThroughPointer
  BY DEF At, Here
<1>2. test \in DOMAIN Scripts
  BY DEF PointerInv, TypeOK
<1>3. Anywhere(test, ThroughPointer)
  BY <1>1 DEF Listing, Anywhere, InTest
<1>4. QED
  BY <1>3 DEF PointerInv, CrashInv, InTest, Ahead, Listing, At

LEMMA GarbageCrash ==
  ASSUME PointerInv, Scripts[test].wild = {}, At("target_fini"), tgt[Here.arg] = "garbage"
  PROVE  Untouched
<1>1. InTest /\ pc \in DOMAIN Listing /\ Here.op = "target_fini" /\ Here.arg \in Targets
  BY ArgType DEF PointerInv, At, TargetOps
<1>2. Wipes(test, Here.arg)
  BY <1>1 DEF Wipes, InBody, InCleanup, Here, Listing, InTest
<1>3. Ahead
  BY <1>1 DEF Ahead, Listing
<1>4. QED
  BY <1>1, <1>2, <1>3 DEF PointerInv, CrashInv

\* A tool is destroyed once, so its pointer is not followed after that.
LEMMA NoWildDestroy ==
  ASSUME PointerInv, Scripts[test].wild = {}, At("destroy") PROVE ptr[Here.arg] # "wild"
<1> DEFINE x == Here.arg
<1> SUFFICES ASSUME ptr[x] = "wild" PROVE FALSE
  OBVIOUS
<1>1. InTest /\ pc \in DOMAIN Listing /\ Here.op = "destroy" /\ x \in Apps
  BY ArgType DEF PointerInv, At, AppOps
<1>2. PICK k \in DOMAIN Scripts[test].cleanup :
        /\ k < pc /\ Scripts[test].cleanup[k].op = "destroy"
        /\ Scripts[test].cleanup[k].arg = x
  BY <1>1 DEF PointerInv, CrashInv
<1>3. phase = "cleanup"
  BY <1>1 DEF PointerInv, CrashInv, InTest
<1>4. pc \in DOMAIN Scripts[test].cleanup /\ Scripts[test].cleanup[pc] = Here
  BY <1>1, <1>3 DEF Here, Listing
<1>5. k = pc
  BY <1>1, <1>2, <1>4, CleanupAssumption DEF PointerInv, TypeOK
<1>6. QED
  BY <1>2, <1>5, CleanupDomain DEF PointerInv, TypeOK

\* Neither a disconnect nor anything the bed does on its own dirties it.
LEMMA UntouchedStays ==
  ASSUME Untouched, TypeOK, UNCHANGED tgt,
         \A i \in Initiators : ctrl[i] = "absent" => ctrl'[i] = "absent",
         \A a \in Apps : job'[a] \in Active => job[a] \in Active
  PROVE  Untouched'
BY DEF Untouched

LEMMA AbsentStays ==
  ASSUME TypeOK, NEW i \in Initiators, NEW ok \in BOOLEAN, Releases(i, ok)
  PROVE  \A j \in Initiators : ctrl[j] = "absent" => ctrl'[j] = "absent"
BY DEF Releases

LEMMA DisconnectPointers ==
  ASSUME PointerInv, Scripts[test].wild = {}, NEW op \in {"disconnect"} \cup RawDisconnects,
         At(op),
         \/ \E d \in Durations[Here.arg] :
              \/ DisconnectOk(Here.arg, d) /\ Goes(TRUE)
              \/ DisconnectFailed(Here.arg, d) /\ Goes(FALSE)
         \/ RawDisconnect(Here.arg) \/ DisconnectAll(Here.arg),
         JobsFollow, UNCHANGED bedVars, UNCHANGED ptr
  PROVE  CrashInv'
<1> DEFINE i == Here.arg
<1>1. InTest /\ pc \in DOMAIN Listing /\ Here.op = op
  BY DEF At
<1>2. i \in Initiators
  BY <1>1, ArgType DEF PointerInv, InitiatorOps, RawDisconnects
<1>3. rpcs[i] \in Servers /\ DisconnectServer(i) \in Servers
  BY <1>2, DisconnectServerType DEF PointerInv, TypeOK, NITypeOK
<1>4. PICK ok \in BOOLEAN : Goes(ok) /\ Releases(i, ok)
  <2>1. ASSUME NEW d \in Durations[i],
               \/ DisconnectOk(i, d) /\ Goes(TRUE)
               \/ DisconnectFailed(i, d) /\ Goes(FALSE)
        PROVE  \E ok \in BOOLEAN : Goes(ok) /\ Releases(i, ok)
    BY <1>2, <1>3, <2>1, DeleteReleases
       DEF PointerInv, TypeOK, DisconnectOk, DisconnectFailed
  <2>2. CASE RawDisconnect(i) \/ DisconnectAll(i)
    BY <1>2, <1>3, <2>2, DeleteReleases
       DEF PointerInv, TypeOK, RawDisconnect, DisconnectAll, RawDisconnectOk,
           RawDisconnectFailed
  <2>3. QED
    BY <2>1, <2>2
<1>6. Untouched => Untouched'
  BY <1>2, <1>4, UntouchedStays, AbsentStays, JobsFollowActive DEF PointerInv, bedVars
<1>7. QED
  BY <1>1, <1>4, <1>6, GoesPointers DEF bedVars, RawDisconnects

LEMMA InitiatorPointers ==
  ASSUME PointerInv, Scripts[test].wild = {}, InitiatorStep PROVE CrashInv'
<1>1. CASE DisconnectStep \/ RawDisconnectStep
  BY <1>1, DisconnectPointers
     DEF DisconnectStep, RawDisconnectStep, RawDisconnect, RawDisconnects
<1>2. CASE FnDisconnectStep \/ FnDisconnectAllStep
  <2>1. CASE Crash /\ ptr[Fn] # "set"
    BY <2>1, CrashPointers
  <2>2. QED
    BY <1>2, <2>1, DisconnectPointers
       DEF FnDisconnectStep, FnDisconnectAllStep, RawDisconnect, DisconnectAll,
           RawDisconnects
<1>3. CASE InitRpcsStep \/ ConnectStep
  <2>1. PICK ok \in BOOLEAN : Goes(ok)
    BY <1>3 DEF InitRpcsStep, ConnectStep
  <2>2. /\ InTest /\ pc \in DOMAIN Listing
        /\ Here.op \in {"initiator_init", "connect"}
        /\ InitRpcsStep => Here.op = "initiator_init"
        /\ ConnectStep => Here.op = "connect"
        /\ UNCHANGED <<ptr, tgt, job>>
    BY <1>3 DEF InitRpcsStep, ConnectStep, At, bedVars, appVars
  <2>3. InitRpcsStep => UNCHANGED ctrl
    BY DEF InitRpcsStep, InitRpcsOk, InitRpcsFailed, niVars
  <2>4. QED
    BY <1>3, <2>1, <2>2, <2>3, GoesPointers DEF Touching, ThroughPointer, Untouched
<1>4. CASE SelectStep
  <2>1. InTest /\ pc \in DOMAIN Listing /\ Here.op = "select" /\ Goes(TRUE)
    BY <1>4 DEF SelectStep, At
  <2>2. /\ ptr'[Fn] = "set" /\ \A a \in Apps : ptr'[a] = ptr[a]
    BY <1>4, TestAssumption DEF SelectStep, PointerInv, TypeOK, Handles
  <2>3. UNCHANGED <<tgt, ctrl, job>>
    BY <1>4 DEF SelectStep, niVars, bedVars
  <2>4. QED
    BY <2>1, <2>2, <2>3, GoesPointers DEF Untouched
<1>5. QED
  BY <1>1, <1>2, <1>3, <1>4 DEF InitiatorStep

LEMMA TargetPointers ==
  ASSUME PointerInv, Scripts[test].wild = {}, TargetStep \/ GarbageFiniStep PROVE CrashInv'
<1>1. CASE GarbageFiniStep /\ Crash
  BY <1>1, CrashPointers
<1>2. CASE GarbageFiniStep /\ ~Crash
  <2>1. /\ InTest /\ pc \in DOMAIN Listing /\ Here.op = "target_fini" /\ Goes(TRUE)
        /\ UNCHANGED <<ptr, tgt, job, ctrl>>
    BY <1>2 DEF GarbageFiniStep, At, niVars, bedVars, appVars
  <2>2. QED
    BY <2>1, GoesPointers DEF Touching, ThroughPointer
<1>3. CASE TargetStep
  <2>1. PICK ok \in BOOLEAN :
          /\ Goes(ok)
          /\ TargetTaStep /\ ok => tgt' = [tgt EXCEPT ![Here.arg] = "typed"]
    BY <1>3 DEF TargetStep, TargetTaStep, TargetInitStep, TargetSetupStep,
                TargetKillStep, TargetFiniStep, TargetGoes
  <2>2. /\ InTest /\ pc \in DOMAIN Listing
        /\ Here.op \in TargetOps
        /\ UNCHANGED <<ptr, job, ctrl>>
        /\ TargetTaStep <=> Here.op = "target_ta"
        /\ TargetInitStep \/ TargetFiniStep <=> Here.op \in {"target_init", "target_fini"}
    BY <1>3 DEF TargetStep, TargetTaStep, TargetInitStep, TargetSetupStep,
                TargetKillStep, TargetFiniStep, TargetOps, At, niVars, appVars
  <2>3. Here.arg \in Targets
    BY <2>2, ArgType DEF PointerInv, At
  <2>4. \A x \in Targets : tgt'[x] = "garbage" => tgt[x] = "garbage"
    BY <1>3, <2>3 DEF TargetStep, TargetTaStep, TargetInitStep, TargetSetupStep,
                TargetKillStep, TargetFiniStep, TargetGoes, PointerInv, TypeOK
  <2>5. Untouched /\ Here.op \notin Touching \ ThroughPointer => Untouched'
    <3>1. SUFFICES ASSUME Untouched, Here.op \notin {"target_init", "target_fini"}
                   PROVE  \A x \in Targets : tgt'[x] \in {"garbage", "typed"}
      BY <2>2 DEF Touching, ThroughPointer, Untouched
    <3>2. TargetTaStep \/ TargetSetupStep \/ TargetKillStep
      BY <1>3, <2>2, <3>1 DEF TargetStep
    <3>3. QED
      BY <2>3, <3>1, <3>2 DEF TargetTaStep, TargetSetupStep, TargetKillStep, TargetGoes,
                              Untouched, PointerInv, TypeOK
  <2>6. Here.op = "target_ta" /\ ok => tgt'[Here.arg] # "garbage"
    BY <2>1, <2>2, <2>3 DEF PointerInv, TypeOK
  <2>7. QED
    BY <2>1, <2>2, <2>4, <2>5, <2>6, GoesPointers DEF TargetOps
<1>4. QED
  BY <1>1, <1>2, <1>3

LEMMA AppPointers ==
  ASSUME PointerInv, Scripts[test].wild = {}, AppStep PROVE CrashInv'
<1>1. CASE WildDestroyStep
  BY <1>1, NoWildDestroy DEF WildDestroyStep
<1>2. CASE /\ CreateStep \/ StartStep \/ WaitStep \/ StopStep \/ DestroyStep
           /\ UNCHANGED niVars /\ UNCHANGED bedVars
  <2>1. PICK ok \in BOOLEAN : Goes(ok)
    BY <1>2 DEF CreateStep, StartStep, WaitStep, StopStep, DestroyStep
  <2>2. /\ InTest /\ pc \in DOMAIN Listing
        /\ Here.op \in AppOps
        /\ StartStep => Here.op = "start"
        /\ DestroyStep => Here.op = "destroy"
        /\ UNCHANGED <<tgt, ctrl>>
    BY <1>2 DEF CreateStep, StartStep, WaitStep, StopStep, DestroyStep, At, AppOps, niVars,
                bedVars
  <2>3. Here.arg \in Apps
    BY <2>2, ArgType DEF PointerInv, At
  <2>4. /\ ptr'[Fn] = ptr[Fn]
        /\ \A a \in Apps : ptr'[a] = "wild" =>
             ptr[a] = "wild" \/ (Here.op = "destroy" /\ Here.arg = a)
    BY <1>2, <2>2, <2>3, TestAssumption
       DEF CreateStep, StartStep, WaitStep, StopStep, DestroyStep, appVars, PointerInv, TypeOK,
           Handles
  <2>5. ~StartStep => \A a \in Apps : job'[a] \in Active => job[a] \in Active
    BY <1>2, <2>3
       DEF CreateStep, WaitStep, StopStep, Stopped, DestroyStep, Destroyed, Killed, Active,
           appVars, PointerInv, TypeOK, ToolTypeOK
  <2>6. Untouched /\ Here.op \notin Touching \ ThroughPointer => Untouched'
    BY <2>2, <2>5 DEF Touching, ThroughPointer, Untouched
  <2>7. QED
    BY <2>1, <2>2, <2>4, <2>6, GoesPointers DEF AppOps
<1>3. QED
  BY <1>1, <1>2 DEF AppStep

LEMMA BedPointers ==
  ASSUME PointerInv, Scripts[test].wild = {}, BedStep PROVE CrashInv'
<1>1. PICK ok \in BOOLEAN : Goes(ok)
  BY DEF BedStep, CallStep, NetemStep, IfDownStep, IfUpStep, IfStep, SleepStep
<1>2. /\ InTest /\ pc \in DOMAIN Listing
      /\ Here.op \in BedOps \ {"select"}
      /\ UNCHANGED <<ctrl, ptr, tgt>>
      /\ \A a \in Apps : job'[a] \in Active => job[a] \in Active
  BY DEF BedStep, CallStep, NetemStep, IfDownStep, IfUpStep, IfStep, SleepStep, At, BedOps,
         niVars, bedVars, appVars, Active
<1>3. Untouched => Untouched'
  BY <1>2 DEF Untouched
<1>4. QED
  BY <1>1, <1>2, <1>3, GoesPointers DEF BedOps

LEMMA EndPointers ==
  ASSUME PointerInv, Scripts[test].wild = {}, Success \/ End PROVE CrashInv'
<1>1. UNCHANGED <<test, ctrl, tgt, ptr, job>>
  BY DEF Success, End, niVars, bedVars, appVars
<1>2. CASE Success
  <2>1. phase = "body" /\ phase' = "cleanup" /\ pc' = 1
    BY <1>2 DEF Success
  <2>2. QED
    BY <1>1, <2>1 DEF PointerInv, CrashInv, InTest, Ahead, Untouched
<1>3. CASE End
  <2>1. phase' = "done" /\ pc' = pc
    BY <1>3 DEF End
  <2>2. QED
    BY <1>1, <2>1 DEF PointerInv, CrashInv, InTest, Ahead, Untouched
<1>4. QED
  BY <1>2, <1>3

\* What the kernel and the tools do on their own adds nothing to the bed.
LEMMA EnvironmentAddsNothing ==
  ASSUME TypeOK, Environment
  PROVE  /\ UNCHANGED <<flowVars, tgt, ptr>>
         /\ \A i \in Initiators : ctrl[i] = "absent" => ctrl'[i] = "absent"
         /\ \A a \in Apps : job'[a] \in Active => job[a] \in Active
<1>1. CASE KernelStep
  <2>1. \A a \in Apps : job'[a] \in Active => job[a] \in Active
    BY <1>1, JobsFollowActive DEF KernelStep
  <2>2. UNCHANGED <<flowVars, tgt, ptr>>
    BY <1>1 DEF KernelStep, bedVars
  <2>3. \A i \in Initiators : ctrl[i] = "absent" => ctrl'[i] = "absent"
    BY <1>1
       DEF KernelStep, LoseStep, RecoverStep, CtrlLoses, CtrlRecovers, CtrlExpires,
           CtrlMoves, LateAnswer, TypeOK, NITypeOK
  <2>4. QED
    BY <2>1, <2>2, <2>3
<1>2. ASSUME NEW a \in Apps, AppExits(a)
      PROVE  /\ UNCHANGED <<flowVars, ctrl, tgt, ptr>>
             /\ \A b \in Apps : job'[b] \in Active => job[b] \in Active
  BY <1>2 DEF AppExits, Exits, niVars, bedVars, Active, TypeOK, ToolTypeOK
<1>3. QED
  BY <1>1, <1>2 DEF Environment

LEMMA EnvironmentPointers ==
  ASSUME PointerInv, Scripts[test].wild = {}, Environment PROVE CrashInv'
<1>1. Untouched => Untouched'
  BY EnvironmentAddsNothing, UntouchedStays DEF PointerInv
<1>2. UNCHANGED <<test, phase, pc, tgt, ptr>>
  BY EnvironmentAddsNothing DEF PointerInv, flowVars
<1>3. QED
  BY <1>1, <1>2 DEF PointerInv, CrashInv, InTest, Ahead

\* A test runs one script, and its phases follow each other.
LEMMA StepFlow ==
  ASSUME Next
  PROVE  \/ UNCHANGED flowVars /\ (Environment \/ UNCHANGED vars)
         \/ InTest /\ \E ok \in BOOLEAN : Goes(ok)
         \/ InTest /\ Crash
         \/ Success
         \/ End
BY DEF Next, TestStep, InitiatorStep, InitRpcsStep, ConnectStep, DisconnectStep,
       RawDisconnectStep, FnDisconnectStep, FnDisconnectAllStep, RawDisconnect,
       DisconnectAll, SelectStep, TargetStep, TargetTaStep, TargetInitStep,
       TargetSetupStep, TargetKillStep, TargetFiniStep, TargetGoes, GarbageFiniStep,
       AppStep, CreateStep, StartStep, WaitStep, StopStep, DestroyStep, WildDestroyStep,
       BedStep, CallStep, DivisionStep, NetemStep, IfDownStep, IfUpStep, IfStep, SleepStep,
       At, Environment, KernelStep, AppExits, flowVars, vars

LEMMA PointerInvStep == PointerInv /\ [Next]_vars => PointerInv'
<1> SUFFICES ASSUME PointerInv, [Next]_vars PROVE CrashInv'
  BY RunTypeStep DEF PointerInv
<1>1. test' = test
  BY StepFlow DEF Goes, Crash, Success, End, flowVars, vars
<1>2. CASE Scripts[test].wild # {}
  BY <1>1, <1>2 DEF CrashInv
<1>3. CASE UNCHANGED vars
  <2>1. UNCHANGED <<test, phase, pc, ctrl, tgt, ptr, job>>
    BY <1>3 DEF vars, niVars, flowVars, bedVars, appVars
  <2>2. QED
    BY <2>1 DEF PointerInv, CrashInv, InTest, Ahead, Untouched
<1>4. QED
  BY <1>2, <1>3, InitiatorPointers, TargetPointers, AppPointers, BedPointers, EndPointers,
     CrashPointers, EnvironmentPointers DEF Next, TestStep, DivisionStep

\* Whoever dies follows a pointer nobody has filled in, or divides.
LEMMA DeathsAreCrashes ==
  ASSUME TypeOK, [Next]_vars, Dies
  PROVE  \/ \E op \in ThroughPointer : At(op) /\ ptr[Fn] # "set"
         \/ GarbageFiniStep
         \/ WildDestroyStep
         \/ DivisionStep
<1>1. ASSUME NEW ok, Goes(ok), InTest PROVE FALSE
  BY <1>1 DEF Goes, Dies
<1>2. ~Success /\ ~End /\ ~UNCHANGED flowVars
  BY DEF Success, End, flowVars, Dies
<1>3. CASE InitiatorStep
  <2>1. CASE FnDisconnectStep \/ FnDisconnectAllStep
    BY <1>1, <2>1
       DEF FnDisconnectStep, FnDisconnectAllStep, RawDisconnect, DisconnectAll, At,
           ThroughPointer
  <2>2. QED
    BY <1>1, <1>3, <2>1
       DEF InitiatorStep, InitRpcsStep, ConnectStep, DisconnectStep, RawDisconnectStep,
           RawDisconnect, SelectStep, At
<1>4. CASE TargetStep \/ AppStep \/ BedStep
  BY <1>1, <1>4
     DEF TargetStep, TargetTaStep, TargetInitStep, TargetSetupStep, TargetKillStep,
         TargetFiniStep, TargetGoes, AppStep, CreateStep, StartStep, WaitStep, StopStep,
         DestroyStep, BedStep, CallStep, NetemStep, IfDownStep, IfUpStep, IfStep, SleepStep, At
<1>5. QED
  BY <1>2, <1>3, <1>4 DEF Next, TestStep, Environment, KernelStep, AppExits, flowVars, vars

\* A test that initialises its tool pointers dies, if at all, before it has connected,
\* started or set up anything, or where nvmecmd divides, for all scripts that fill in
\* their targets and function pointers as PointerAssumption says.
THEOREM LateCrashesDivide == Spec => LateCrashIsDivision
<1>1. Init => PointerInv
  BY InitType, PointerInvInit DEF PointerInv
<1>2. ASSUME PointerInv, [Next]_vars, Dies, Scripts[test].wild = {}
      PROVE  Untouched \/ At("commands")
  <2>1. ASSUME NEW op \in ThroughPointer, At(op), ptr[Fn] # "set" PROVE Untouched
    BY <1>2, <2>1, FnCrash
  <2>2. CASE GarbageFiniStep
    BY <1>2, <2>2, GarbageCrash DEF GarbageFiniStep
  <2>3. CASE WildDestroyStep
    BY <1>2, <2>3, NoWildDestroy DEF WildDestroyStep
  <2>4. CASE DivisionStep
    BY <2>4 DEF DivisionStep
  <2>5. QED
    BY <1>2, <2>1, <2>2, <2>3, <2>4, DeathsAreCrashes DEF PointerInv
<1>3. PointerInv /\ [Next]_vars =>
        [Dies /\ Scripts[test].wild = {} => Untouched \/ At("commands")]_vars
  BY <1>2
<1>4. QED
  BY <1>1, <1>3, PointerInvStep, PTL DEF Spec, LateCrashIsDivision

-----------------------------------------------------------------------------
(***************************************************************************)
(* A test run implements TestContract.  The cleanup of a test that checks  *)
(* its disconnects has, by its end, removed every controller (Promises),   *)
(* killed every tool (ToolsEnd; a passed test is not Spoilt) and wiped     *)
(* every target (TargetsEnd).                                              *)
(***************************************************************************)

LEMMA CleanAtTheEnd ==
  ASSUME ToolInv, phase = "cleanup", pc \notin DOMAIN Scripts[test].cleanup,
         verdict = "pass", CheckingTest(test)
  PROVE  ~Dirty
<1>1. \A k \in DOMAIN Scripts[test].cleanup : k < pc
  BY PastTheEnd DEF ToolInv, RunInv
<1>2. test \in DOMAIN Scripts /\ ~Spoilt
  BY DEF ToolInv, RunInv, TypeOK, Spoilt
<1>3. ASSUME NEW i \in Initiators, ctrl[i] # "absent" PROVE FALSE
  <2>1. dev[i] /\ Connects(test, i)
    BY <1>3 DEF ToolInv, RunInv, Promises, NoOrphan, OnlyConnected
  <2>2. PICK k \in DOMAIN Scripts[test].cleanup : IsDisconnect(Scripts[test].cleanup[k], i)
    BY <1>2, <2>1, CleanupAssumption
  <2>3. QED
    BY <1>1, <2>1, <2>2 DEF ToolInv, RunInv, Promises, Released
<1>4. ASSUME NEW t \in Targets, tgt[t] \in {"inited", "serving", "killed"} PROVE FALSE
  <2>1. PICK k \in DOMAIN Scripts[test].cleanup :
          Scripts[test].cleanup[k].op = "target_fini" /\ Scripts[test].cleanup[k].arg = t
    BY <1>2, <1>4, CleanupAssumption DEF ToolInv, TargetsEnd, InCleanup
  <2>2. QED
    BY <1>1, <1>4, <2>1 DEF ToolInv, TargetsEnd
<1>5. ASSUME NEW a \in Apps, job[a] \in Active PROVE FALSE
  <2>1. PICK k \in DOMAIN Scripts[test].cleanup :
          Scripts[test].cleanup[k].op = "destroy" /\ Scripts[test].cleanup[k].arg = a
    BY <1>2, <1>5, CleanupAssumption DEF ToolInv, ToolsHeld, InCleanup
  <2>2. QED
    BY <1>1, <1>2, <1>5, <2>1 DEF ToolInv, ToolsEnd
<1>6. QED
  BY <1>3, <1>4, <1>5 DEF Dirty

LEMMA ContractInitial == Init => Contract!ContractInit
<1> SUFFICES ASSUME Init PROVE Contract!ContractInit
  OBVIOUS
<1>1. phase = "body" /\ verdict = "fail" /\ Scripts[test].target \in {"garbage", "typed"}
  BY TestAssumption DEF Init
<1>2. ~Dirty
  BY <1>1 DEF Init, NIInit, Dirty, Active
<1>3. QED
  BY <1>1, <1>2 DEF Contract!ContractInit

LEMMA ContractStep ==
  ToolInv /\ [Next]_vars => [Contract!ContractNext]_(Contract!contractVars)
<1> SUFFICES ASSUME ToolInv, [Next]_vars
             PROVE  Contract!ContractNext \/ UNCHANGED Contract!contractVars
  OBVIOUS
<1> DEFINE dirt == CheckingTest(test) /\ Dirty
<1>1. CASE InTest /\ \E ok \in BOOLEAN : Goes(ok)
  <2>1. CASE phase = "body" /\ phase' = "body"
    <3>1. verdict' = verdict
      BY <1>1, <2>1 DEF Goes
    <3>2. Contract!Use
      BY <2>1, <3>1 DEF Contract!Use
    <3>3. QED
      BY <3>2 DEF Contract!ContractNext
  <2>2. CASE phase = "body" /\ phase' # "body"
    <3>1. phase' = "cleanup" /\ verdict' \in {"pass", "fail"}
      BY <1>1, <2>2 DEF Goes, ToolInv, RunInv, TypeOK
    <3>2. Contract!Leave
      BY <2>2, <3>1 DEF Contract!Leave
    <3>3. QED
      BY <3>2 DEF Contract!ContractNext
  <2>3. CASE phase = "cleanup"
    <3>1. phase' = "cleanup" /\ verdict' \in {verdict, "fail"}
      BY <1>1, <2>3 DEF Goes
    <3>2. Contract!Clean
      BY <2>3, <3>1 DEF Contract!Clean
    <3>3. QED
      BY <3>2 DEF Contract!ContractNext
  <2>4. QED
    BY <1>1, <2>1, <2>2, <2>3 DEF InTest
<1>2. CASE InTest /\ Crash
  <2>1. UNCHANGED <<test, ctrl, tgt, job>> /\ phase' = "crashed" /\ verdict' = "fail"
    BY <1>2 DEF Crash, niVars, bedVars, appVars
  <2>2. dirt' = dirt
    BY <2>1 DEF CheckingTest, Dirty
  <2>3. Contract!Abort
    BY <1>2, <2>1, <2>2 DEF Contract!Abort, InTest
  <2>4. QED
    BY <2>3 DEF Contract!ContractNext
<1>3. CASE Success
  <2>1. phase = "body" /\ phase' = "cleanup" /\ verdict' = "pass"
    BY <1>3 DEF Success
  <2>2. Contract!Leave
    BY <2>1 DEF Contract!Leave
  <2>3. QED
    BY <2>2 DEF Contract!ContractNext
<1>4. CASE End
  <2>1. /\ UNCHANGED <<test, ctrl, tgt, job, verdict>>
        /\ phase = "cleanup" /\ phase' = "done" /\ pc \notin DOMAIN Scripts[test].cleanup
    BY <1>4 DEF End, AtEnd, Listing, niVars, bedVars, appVars
  <2>2. dirt' = dirt
    BY <2>1 DEF CheckingTest, Dirty
  <2>3. verdict = "pass" => ~dirt
    BY <2>1, CleanAtTheEnd
  <2>4. Contract!Close
    BY <2>1, <2>2, <2>3 DEF Contract!Close
  <2>5. QED
    BY <2>4 DEF Contract!ContractNext
<1>5. CASE Environment
  <2>1. /\ UNCHANGED <<test, phase, verdict, tgt>>
        /\ \A i \in Initiators : ctrl[i] = "absent" => ctrl'[i] = "absent"
        /\ \A a \in Apps : job'[a] \in Active => job[a] \in Active
    BY <1>5, EnvironmentAddsNothing DEF ToolInv, RunInv, flowVars
  <2>2. dirt' => dirt
    BY <2>1 DEF CheckingTest, Dirty
  <2>3. CASE phase = "body"
    <3>1. Contract!Use
      BY <2>1, <2>3 DEF Contract!Use
    <3>2. QED
      BY <3>1 DEF Contract!ContractNext
  <2>4. CASE phase = "cleanup"
    <3>1. Contract!Clean
      BY <2>1, <2>4 DEF Contract!Clean
    <3>2. QED
      BY <3>1 DEF Contract!ContractNext
  <2>5. CASE phase \notin {"body", "cleanup"} /\ dirt /\ ~dirt'
    <3>1. Contract!Settle
      BY <2>1, <2>5 DEF Contract!Settle
    <3>2. QED
      BY <3>1 DEF Contract!ContractNext
  <2>6. CASE dirt' = dirt
    BY <2>1, <2>6 DEF Contract!contractVars
  <2>7. QED
    BY <2>2, <2>3, <2>4, <2>5, <2>6
<1>6. CASE UNCHANGED vars
  <2>1. UNCHANGED <<test, phase, verdict, ctrl, tgt, job>>
    BY <1>6 DEF vars, niVars, flowVars, bedVars, appVars
  <2>2. dirt' = dirt
    BY <2>1 DEF CheckingTest, Dirty
  <2>3. QED
    BY <2>1, <2>2 DEF Contract!contractVars
<1>7. QED
  BY <1>1, <1>2, <1>3, <1>4, <1>5, <1>6, StepFlow

\* Whatever fails, and whatever the kernel and the tools do meanwhile, a run of any
\* test of this layout is a run of TestContract: a test that looks at what its
\* disconnects return, and passes, hands over a clean bed.
THEOREM ContractKept == Spec => KeepsContract
BY ContractInitial, ContractStep, ToolInvAlways, PTL
   DEF Spec, KeepsContract, Contract!ContractSpec

=============================================================================
