------------------------ MODULE NvmeInitiatorProofs ------------------------
(***************************************************************************)
(* Proofs about NvmeInitiator.  The type lemmas are stated per call, so    *)
(* that a module which lets a test program make the calls can cite them.   *)
(***************************************************************************)
EXTENDS NvmeInitiator, TLAPS

LEMMA ServerFacts ==
  /\ Null \notin Initiators /\ Null \notin Servers
  /\ DiscServers \subseteq Servers
  /\ \A i \in Initiators : /\ RootOf[i] \in Servers
                           /\ DiscOf[i] \in Servers
                           /\ DiscOf[i] \in DiscServers
                           /\ RootOf[i] \notin DiscServers
BY ServerAssumption DEF DiscServers

LEMMA NIInitType == NIInit => NITypeOK
BY ServerAssumption DEF NIInit, NITypeOK, CtrlStates

LEMMA ConnectType ==
  ASSUME NITypeOK, NEW i \in Initiators, NEW outcome,
         Connected(i) \/ ConnectFailed(i, outcome)
  PROVE  NITypeOK'
BY DEF NITypeOK, Connected, ConnectFailed, CtrlStates, serverVars

LEMMA InitRpcsType ==
  ASSUME NITypeOK, NEW i \in Initiators, InitRpcsOk(i) \/ InitRpcsFailed(i)
  PROVE  NITypeOK'
BY ServerFacts DEF NITypeOK, InitRpcsOk, InitRpcsFailed, niVars

\* What a delete does to the device, the controller and the servers, on any server.
LEMMA DeleteType ==
  ASSUME NITypeOK, NEW i \in Initiators, NEW s \in Servers, NEW timeout, NEW d,
         DeleteOk(i, s, timeout, d) \/ DeleteFails(i, s, timeout, d)
  PROVE  /\ dev' \in [Initiators -> BOOLEAN]
         /\ ctrl' \in [Initiators -> CtrlStates]
         /\ pending' \in [Servers -> Initiators \cup {Null}]
BY DEF NITypeOK, DeleteOk, DeleteFails, DeleteSkipped, DeleteRefused, DeleteDone,
       DeleteTimedOut, CtrlStates

LEMMA DisconnectServerType ==
  ASSUME NITypeOK, NEW i \in Initiators
  PROVE  DisconnectServer(i) \in Servers
BY DEF NITypeOK, DisconnectServer

LEMMA PatientType ==
  ASSUME NITypeOK, NEW i \in Initiators
  PROVE  PatientTimeouts(i) \in [Servers -> {"default", "5min"}]
BY DEF NITypeOK, PatientTimeouts

LEMMA DisconnectType ==
  ASSUME NITypeOK, NEW i \in Initiators, NEW d,
         DisconnectOk(i, d) \/ DisconnectFailed(i, d)
  PROVE  NITypeOK'
<1>1. DisconnectServer(i) \in Servers
  BY DisconnectServerType
<1>2. deftimeout' \in [Servers -> {"default", "5min"}]
  BY PatientType DEF DisconnectOk, DisconnectFailed
<1>3. /\ dev' \in [Initiators -> BOOLEAN]
      /\ ctrl' \in [Initiators -> CtrlStates]
      /\ pending' \in [Servers -> Initiators \cup {Null}]
  BY <1>1, DeleteType DEF DisconnectOk, DisconnectFailed
<1>4. /\ rpcs' \in [Initiators -> Servers]
      /\ disc' \in [Initiators -> Servers \cup {Null}]
      /\ rc' \in [Initiators -> {"none", "ok", "error"}]
      /\ alive' \in SUBSET Servers
  BY <1>1 DEF NITypeOK, DisconnectOk, DisconnectFailed
<1>5. QED
  BY <1>2, <1>3, <1>4 DEF NITypeOK

LEMMA RawType ==
  ASSUME NITypeOK, NEW i \in Initiators, NEW d,
         RawDisconnectOk(i, d) \/ RawDisconnectFailed(i, d)
  PROVE  NITypeOK'
<1>1. /\ dev' \in [Initiators -> BOOLEAN]
      /\ ctrl' \in [Initiators -> CtrlStates]
      /\ pending' \in [Servers -> Initiators \cup {Null}]
  BY DeleteType DEF RawDisconnectOk, RawDisconnectFailed, NITypeOK
<1>2. QED
  BY <1>1 DEF NITypeOK, RawDisconnectOk, RawDisconnectFailed

LEMMA FiniType ==
  ASSUME NITypeOK, NEW i \in Initiators, FiniOk(i) \/ FiniFailed(i)
  PROVE  NITypeOK'
BY DEF NITypeOK, FiniOk, FiniFailed, niVars

LEMMA KernelType ==
  ASSUME NITypeOK, NEW i \in Initiators, Kernel(i)
  PROVE  NITypeOK'
BY DEF NITypeOK, Kernel, CtrlLoses, CtrlRecovers, CtrlExpires, CtrlMoves, CtrlStates,
       objVars, serverVars

LEMMA LateAnswerType ==
  ASSUME NITypeOK, NEW s \in Servers, LateAnswer(s)
  PROVE  NITypeOK'
BY DEF NITypeOK, LateAnswer, CtrlStates, objVars

-----------------------------------------------------------------------------
(***************************************************************************)
(* The wrapper is type correct in every order of calls.                    *)
(***************************************************************************)
LEMMA TypeStep == NITypeOK /\ [NINext]_niVars => NITypeOK'
<1> SUFFICES ASSUME NITypeOK, [NINext]_niVars
             PROVE  NITypeOK'
  OBVIOUS
<1>1. ASSUME NEW i \in Initiators, InitRpcs(i) PROVE NITypeOK'
  BY <1>1, InitRpcsType DEF InitRpcs
<1>2. ASSUME NEW i \in Initiators, Connect(i) PROVE NITypeOK'
  BY <1>2, ConnectType DEF Connect
<1>3. ASSUME NEW i \in Initiators, Disconnect(i) PROVE NITypeOK'
  BY <1>3, DisconnectType DEF Disconnect
<1>3a. ASSUME NEW i \in Initiators, DirectDisconnect(i) PROVE NITypeOK'
  BY <1>3a, RawType DEF DirectDisconnect
<1>4. ASSUME NEW i \in Initiators, Fini(i) PROVE NITypeOK'
  BY <1>4, FiniType DEF Fini
<1>5. ASSUME NEW i \in Initiators, Kernel(i) PROVE NITypeOK'
  BY <1>5, KernelType
<1>6. ASSUME NEW s \in Servers, LateAnswer(s) PROVE NITypeOK'
  BY <1>6, LateAnswerType
<1>7. CASE UNCHANGED niVars
  BY <1>7 DEF NITypeOK, niVars
<1>8. QED
  BY <1>1, <1>2, <1>3, <1>3a, <1>4, <1>5, <1>6, <1>7 DEF NINext

\* Every order of calls keeps every variable in its type.
THEOREM NITypeCorrect == NISpec => []NITypeOK
BY NIInitType, TypeStep, PTL DEF NISpec

-----------------------------------------------------------------------------
(***************************************************************************)
(* The inductive invariant.  Its heart is Blocked: a server with an        *)
(* unanswered disconnect is the one the wrapper would choose for that      *)
(* object again, or the own server of an object that a test disconnects    *)
(* itself.  Setting disconnect_rpcs could break it, but creating the       *)
(* second server takes a call to the first, which is blocked.              *)
(***************************************************************************)
Home(i) == IF disc[i] # Null THEN disc[i] ELSE RootOf[i]

Pointers ==
  \A i \in Initiators : disc[i] \in {Null, DiscOf[i]} /\ rpcs[i] \in {RootOf[i], disc[i]}

Blocked ==
  \A s \in Servers : pending[s] # Null =>
    \/ s = Home(pending[s])
    \/ pending[s] \in RawUsers /\ s = RootOf[pending[s]]

\* An object that works with a disconnect server got its patience, too.
Patience == \A i \in Initiators : rpcs[i] # RootOf[i] => deftimeout[rpcs[i]] = "5min"

NIInv ==
  /\ NITypeOK
  /\ Pointers
  /\ Blocked
  /\ Patience
  /\ DeletingInFlight
  /\ PatienceSuffices

LEMMA HomeIsDisconnectServer ==
  ASSUME NITypeOK, Pointers, NEW i \in Initiators
  PROVE  DisconnectServer(i) = Home(i)
BY ServerFacts DEF NITypeOK, Pointers, DisconnectServer, Home

LEMMA InvInit == NIInit => NIInv
BY NIInitType, ServerFacts
   DEF NIInit, NIInv, Pointers, Blocked, Patience, DeletingInFlight, PatienceSuffices, CtrlStates

LEMMA PointersStep ==
  ASSUME NIInv, NINext PROVE Pointers'
<1>1. ASSUME NEW i \in Initiators, InitRpcs(i) PROVE Pointers'
  BY <1>1, ServerFacts
     DEF NIInv, NITypeOK, Pointers, InitRpcs, InitRpcsOk, InitRpcsFailed, niVars
<1>2. ASSUME NEW i \in Initiators, Disconnect(i) PROVE Pointers'
  BY <1>2, ServerFacts
     DEF NIInv, NITypeOK, Pointers, Disconnect, DisconnectOk, DisconnectFailed,
         DisconnectServer
<1>3. QED
  BY <1>1, <1>2
     DEF NIInv, NINext, Pointers, DirectDisconnect, RawDisconnectOk, RawDisconnectFailed,
         Connect, Connected, ConnectFailed, Fini, FiniOk,
         FiniFailed, Kernel, CtrlLoses, CtrlRecovers, CtrlExpires, CtrlMoves,
         LateAnswer, objVars, niVars

\* A disconnect leaves every server alone, or times out on the home server of its
\* object, which was ready.
LEMMA DisconnectEffect ==
  ASSUME NIInv, NEW i \in Initiators, Disconnect(i)
  PROVE  \/ /\ UNCHANGED pending
            /\ \A j \in Initiators : ctrl'[j] = "deleting" => ctrl[j] = "deleting"
         \/ /\ pending' = [pending EXCEPT ![Home(i)] = i]
            /\ pending[Home(i)] = Null
            /\ ctrl' = [ctrl EXCEPT ![i] = "deleting"]
            /\ \E d \in Durations[i] : Outlives(d, PatientTimeouts(i)[Home(i)])
<1>1. DisconnectServer(i) = Home(i)
  BY HomeIsDisconnectServer DEF NIInv
<1>2. QED
  BY <1>1 DEF NIInv, NITypeOK, Disconnect, DisconnectOk, DisconnectFailed, DeleteOk,
              DeleteFails, DeleteSkipped, DeleteRefused, DeleteDone, DeleteTimedOut, Ready

\* So does one that a test makes itself, on the server the object works with.
LEMMA DirectEffect ==
  ASSUME NIInv, NEW i \in Initiators, DirectDisconnect(i)
  PROVE  \/ /\ UNCHANGED pending
            /\ \A j \in Initiators : ctrl'[j] = "deleting" => ctrl[j] = "deleting"
         \/ /\ pending' = [pending EXCEPT ![rpcs[i]] = i]
            /\ pending[rpcs[i]] = Null
            /\ ctrl' = [ctrl EXCEPT ![i] = "deleting"]
            /\ \E d \in Durations[i] : Outlives(d, deftimeout[rpcs[i]])
BY DEF NIInv, NITypeOK, DirectDisconnect, RawDisconnectOk, RawDisconnectFailed, DeleteOk,
       DeleteFails, DeleteSkipped, DeleteRefused, DeleteDone, DeleteTimedOut, Ready

LEMMA HomeType ==
  ASSUME NITypeOK, NEW i \in Initiators PROVE Home(i) \in Servers
BY ServerFacts DEF NITypeOK, Home

LEMMA BlockedStep ==
  ASSUME NIInv, NINext PROVE Blocked'
<1>1. ASSUME NEW i \in Initiators, InitRpcs(i) PROVE Blocked'
  <2>1. CASE InitRpcsOk(i)
    <3>1. disc[i] = Null /\ rpcs[i] = RootOf[i] /\ pending[RootOf[i]] = Null
      BY <1>1, <2>1, ServerFacts DEF NIInv, NITypeOK, Pointers, InitRpcs, InitRpcsOk, Ready
    <3>2. \A s \in Servers : pending[s] # i
      BY <3>1, ServerFacts DEF NIInv, Blocked, Home
    <3>3. QED
      BY <2>1, <3>2 DEF NIInv, NITypeOK, Blocked, Home, InitRpcsOk
  <2>2. CASE InitRpcsFailed(i)
    BY <2>2 DEF NIInv, Blocked, Home, InitRpcsFailed, niVars
  <2>3. QED
    BY <1>1, <2>1, <2>2 DEF InitRpcs
<1>2. ASSUME NEW i \in Initiators, Disconnect(i) PROVE Blocked'
  <2>1. disc' = disc
    BY <1>2 DEF Disconnect, DisconnectOk, DisconnectFailed
  <2>2. \A j \in Initiators : Home(j)' = Home(j)
    BY <2>1 DEF Home
  <2>3. Home(i) \in Servers
    BY HomeType DEF NIInv
  <2>4. CASE UNCHANGED pending
    BY <2>1, <2>4 DEF NIInv, Blocked, Home
  <2>5. CASE pending' = [pending EXCEPT ![Home(i)] = i]
    <3>1. ASSUME NEW s \in Servers, pending'[s] # Null
          PROVE  s = Home(pending'[s]) \/ (pending'[s] \in RawUsers /\ s = RootOf[pending'[s]])
      BY <2>3, <2>5, <3>1 DEF NIInv, NITypeOK, Blocked
    <3>2. QED
      BY <2>1, <3>1 DEF Blocked, Home
  <2>6. QED
    BY <1>2, <2>4, <2>5, DisconnectEffect
<1>2a. ASSUME NEW i \in Initiators, DirectDisconnect(i) PROVE Blocked'
  <2>1. disc' = disc /\ i \in RawUsers
    BY <1>2a DEF DirectDisconnect, RawDisconnectOk, RawDisconnectFailed
  <2>2. CASE UNCHANGED pending
    BY <2>1, <2>2 DEF NIInv, Blocked, Home
  <2>3. CASE pending' = [pending EXCEPT ![rpcs[i]] = i]
    <3>1. rpcs[i] \in Servers /\ (rpcs[i] = Home(i) \/ rpcs[i] = RootOf[i])
      BY ServerFacts DEF NIInv, NITypeOK, Pointers, Home
    <3>2. ASSUME NEW s \in Servers, pending'[s] # Null
          PROVE  s = Home(pending'[s]) \/ (pending'[s] \in RawUsers /\ s = RootOf[pending'[s]])
      BY <2>1, <2>3, <3>1, <3>2 DEF NIInv, NITypeOK, Blocked
    <3>3. QED
      BY <2>1, <3>2 DEF Blocked, Home
  <2>4. QED
    BY <1>2a, <2>2, <2>3, DirectEffect
<1>3. ASSUME NEW s \in Servers, LateAnswer(s) PROVE Blocked'
  BY <1>3 DEF NIInv, NITypeOK, Blocked, Home, LateAnswer, objVars
<1>4. QED
  BY <1>1, <1>2, <1>2a, <1>3
     DEF NIInv, NINext, Blocked, Home, Connect, Connected, ConnectFailed, Fini, FiniOk,
         FiniFailed, Kernel, CtrlLoses, CtrlRecovers, CtrlExpires, CtrlMoves,
         serverVars, objVars, niVars

\* A delete that times out on a ready server is in flight there.
LEMMA TimedOutIsInFlight ==
  ASSUME NIInv, NEW i \in Initiators, NEW s \in Servers, pending[s] = Null,
         pending' = [pending EXCEPT ![s] = i], ctrl' = [ctrl EXCEPT ![i] = "deleting"]
  PROVE  DeletingInFlight'
<1>1. ASSUME NEW j \in Initiators, ctrl'[j] = "deleting"
      PROVE  \E t \in Servers : pending'[t] = j
  <2>1. CASE j = i
    BY <2>1 DEF NIInv, NITypeOK
  <2>2. CASE j # i
    <3>1. PICK t \in Servers : pending[t] = j
      BY <1>1, <2>2 DEF NIInv, NITypeOK, DeletingInFlight
    <3>2. t # s
      BY <3>1, ServerFacts
    <3>3. QED
      BY <3>1, <3>2 DEF NIInv, NITypeOK
  <2>3. QED
    BY <2>1, <2>2
<1>2. QED
  BY <1>1 DEF DeletingInFlight

LEMMA DeletingStep ==
  ASSUME NIInv, NINext PROVE DeletingInFlight'
<1>1. ASSUME NEW i \in Initiators, Disconnect(i) \/ DirectDisconnect(i)
      PROVE  DeletingInFlight'
  <2>1. Home(i) \in Servers /\ rpcs[i] \in Servers
    BY HomeType DEF NIInv, NITypeOK
  <2>2. CASE /\ UNCHANGED pending
             /\ \A j \in Initiators : ctrl'[j] = "deleting" => ctrl[j] = "deleting"
    BY <2>2 DEF NIInv, DeletingInFlight
  <2>3. CASE \E s \in {Home(i), rpcs[i]} : /\ pending' = [pending EXCEPT ![s] = i]
                                           /\ pending[s] = Null
                                           /\ ctrl' = [ctrl EXCEPT ![i] = "deleting"]
    BY <2>1, <2>3, TimedOutIsInFlight
  <2>4. QED
    BY <1>1, <2>2, <2>3, DisconnectEffect, DirectEffect
<1>2. ASSUME NEW s \in Servers, LateAnswer(s) PROVE DeletingInFlight'
  <2>1. ASSUME NEW j \in Initiators, ctrl'[j] = "deleting"
        PROVE  \E t \in Servers : pending'[t] = j
    <3>1. ctrl[j] = "deleting"
      BY <1>2, <2>1 DEF NIInv, NITypeOK, LateAnswer
    <3>2. PICK t \in Servers \ {s} : pending[t] = j
      <4>1. CASE j = pending[s]
        BY <1>2, <2>1, <4>1 DEF NIInv, NITypeOK, LateAnswer
      <4>2. CASE j # pending[s]
        BY <3>1, <4>2 DEF NIInv, DeletingInFlight
      <4>3. QED
        BY <4>1, <4>2
    <3>3. QED
      BY <1>2, <3>2 DEF NIInv, NITypeOK, LateAnswer
  <2>2. QED
    BY <2>1 DEF DeletingInFlight
<1>3. ASSUME NEW i \in Initiators, Connect(i) PROVE DeletingInFlight'
  BY <1>3 DEF NIInv, NITypeOK, DeletingInFlight, Connect, Connected, ConnectFailed,
              serverVars
<1>4. ASSUME NEW i \in Initiators, Kernel(i) PROVE DeletingInFlight'
  BY <1>4 DEF NIInv, NITypeOK, DeletingInFlight, Kernel, CtrlLoses, CtrlRecovers,
              CtrlExpires, CtrlMoves, serverVars
<1>5. ASSUME NEW i \in Initiators, InitRpcs(i) \/ Fini(i) PROVE DeletingInFlight'
  BY <1>5 DEF NIInv, DeletingInFlight, InitRpcs, InitRpcsOk, InitRpcsFailed, Fini,
              FiniOk, FiniFailed, niVars
<1>6. QED
  BY <1>1, <1>2, <1>3, <1>4, <1>5 DEF NINext

LEMMA ServerPatienceStep ==
  ASSUME NIInv, NINext PROVE Patience'
<1>1. ASSUME NEW i \in Initiators, Disconnect(i) PROVE Patience'
  <2>1. /\ deftimeout' = PatientTimeouts(i) /\ UNCHANGED disc
        /\ rpcs' = rpcs \/ rpcs' = [rpcs EXCEPT ![i] = DisconnectServer(i)]
    BY <1>1 DEF Disconnect, DisconnectOk, DisconnectFailed
  <2>2. \A s \in Servers : deftimeout[s] = "5min" => deftimeout'[s] = "5min"
    BY <2>1 DEF NIInv, NITypeOK, PatientTimeouts
  <2>3. disc[i] # Null => deftimeout'[disc[i]] = "5min"
    BY <2>1 DEF NIInv, NITypeOK, PatientTimeouts
  <2>4. QED
    BY <2>1, <2>2, <2>3 DEF NIInv, NITypeOK, Patience, Pointers, DisconnectServer
<1>2. ASSUME NEW i \in Initiators, InitRpcs(i) \/ DirectDisconnect(i) PROVE Patience'
  BY <1>2 DEF NIInv, Patience, InitRpcs, InitRpcsOk, InitRpcsFailed, DirectDisconnect,
              RawDisconnectOk, RawDisconnectFailed, niVars
<1>3. QED
  BY <1>1, <1>2
     DEF NIInv, NINext, Patience, Connect, Connected, ConnectFailed, Fini, FiniOk,
         FiniFailed, Kernel, CtrlLoses, CtrlRecovers, CtrlExpires, CtrlMoves,
         LateAnswer, objVars, serverVars, niVars

LEMMA PatienceStep ==
  ASSUME NIInv, NINext PROVE PatienceSuffices'
<1>1. ASSUME NEW i \in Initiators, Disconnect(i) PROVE PatienceSuffices'
  <2>1. CASE UNCHANGED pending
    BY <2>1 DEF NIInv, PatienceSuffices
  <2>2. CASE /\ pending' = [pending EXCEPT ![Home(i)] = i]
             /\ \E d \in Durations[i] : Outlives(d, PatientTimeouts(i)[Home(i)])
    <3>1. CASE disc[i] = Null
      <4>1. Home(i) \notin DiscServers
        BY <3>1, ServerFacts DEF Home
      <4>2. QED
        BY <2>2, <4>1, ServerFacts DEF NIInv, NITypeOK, PatienceSuffices
    <3>2. CASE disc[i] # Null
      <4>1. PatientTimeouts(i)[Home(i)] = "5min"
        BY <3>2 DEF NIInv, NITypeOK, PatientTimeouts, Home
      <4>2. "stuck" \in Durations[i]
        BY <2>2, <4>1, DurationAssumption DEF Outlives
      <4>3. QED
        BY <2>2, <4>2, ServerFacts DEF NIInv, NITypeOK, PatienceSuffices
    <3>3. QED
      BY <3>1, <3>2
  <2>3. QED
    BY <1>1, <2>1, <2>2, DisconnectEffect
<1>1a. ASSUME NEW i \in Initiators, DirectDisconnect(i) PROVE PatienceSuffices'
  <2>1. CASE UNCHANGED pending
    BY <2>1 DEF NIInv, PatienceSuffices
  <2>2. CASE /\ pending' = [pending EXCEPT ![rpcs[i]] = i]
             /\ \E d \in Durations[i] : Outlives(d, deftimeout[rpcs[i]])
    <3>1. rpcs[i] \in DiscServers => "stuck" \in Durations[i]
      BY <2>2, ServerFacts DEF NIInv, Patience, Outlives
    <3>2. QED
      BY <2>2, <3>1, ServerFacts DEF NIInv, NITypeOK, PatienceSuffices
  <2>3. QED
    BY <1>1a, <2>1, <2>2, DirectEffect
<1>2. ASSUME NEW s \in Servers, LateAnswer(s) PROVE PatienceSuffices'
  BY <1>2, ServerFacts DEF NIInv, NITypeOK, PatienceSuffices, LateAnswer
<1>3. QED
  BY <1>1, <1>1a, <1>2
     DEF NIInv, NINext, PatienceSuffices, InitRpcs, InitRpcsOk, InitRpcsFailed, Connect,
         Connected, ConnectFailed, Fini, FiniOk, FiniFailed, Kernel, CtrlLoses,
         CtrlRecovers, CtrlExpires, CtrlMoves, serverVars, niVars

LEMMA InvStep == NIInv /\ [NINext]_niVars => NIInv'
<1>1. CASE NIInv /\ NINext
  <2>1. NITypeOK'
    BY <1>1, TypeStep DEF NIInv
  <2>2. NIInv
    BY <1>1
  <2>3. NINext
    BY <1>1
  <2>4. QED
    BY <2>1, <2>2, <2>3, PointersStep, BlockedStep, DeletingStep, ServerPatienceStep,
       PatienceStep
    DEF NIInv
<1>2. CASE NIInv /\ UNCHANGED niVars
  BY <1>2 DEF NIInv, NITypeOK, Pointers, Blocked, Home, Patience, DeletingInFlight,
              PatienceSuffices, niVars
<1>3. QED
  BY <1>1, <1>2

LEMMA InvAlways == NISpec => []NIInv
BY InvInit, InvStep, PTL DEF NISpec

\* Whatever fails, the disconnect of an object with a disconnect server that no test
\* disconnects itself never blocks a server that tests work with.
THEOREM RootIsSpared == NISpec => []RootSpared
<1>1. NIInv => RootSpared
  BY ServerFacts DEF NIInv, NITypeOK, Pointers, Blocked, Home, RootSpared
<1>2. QED
  BY <1>1, InvAlways, PTL

\* A controller is being deleted through two servers only where a test disconnects the
\* object without the wrapper, and the two are the test's own and the disconnect server.
THEOREM DeletedTwiceOnlyAfterRaw == NISpec => []TwiceOnlyAfterRaw
<1>1. ASSUME NIInv PROVE TwiceOnlyAfterRaw
  <2> SUFFICES ASSUME NEW s \in Servers, NEW t \in Servers, NEW i \in Initiators,
                      s # t, pending[s] = i, pending[t] = i
               PROVE  i \in RawUsers /\ {s, t} = {RootOf[i], DiscOf[i]}
    BY <1>1 DEF TwiceOnlyAfterRaw, NIInv, NITypeOK
  <2>1. \A u \in {s, t} : u = Home(i) \/ (i \in RawUsers /\ u = RootOf[i])
    BY <1>1, ServerFacts DEF NIInv, Blocked
  <2>2. Home(i) = RootOf[i] \/ Home(i) = DiscOf[i]
    BY <1>1 DEF NIInv, Pointers, Home
  <2>3. QED
    BY <2>1, <2>2
<1>2. QED
  BY <1>1, InvAlways, PTL

\* A controller in deletion has a server that will report its end.
THEOREM DeletingIsInFlight == NISpec => []DeletingInFlight
BY InvAlways, PTL DEF NIInv

\* Deletes of at most five minutes never block a disconnect server.
THEOREM PatienceIsEnough == NISpec => []PatienceSuffices
BY InvAlways, PTL DEF NIInv
=============================================================================
