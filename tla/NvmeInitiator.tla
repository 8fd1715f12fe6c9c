--------------------------- MODULE NvmeInitiator ---------------------------
(***************************************************************************)
(* The initiator wrapper of nvmeof-ts/lib/nvmeof_ts.c.                     *)
(*                                                                         *)
(* A tsapi_nvme_initiator pairs a TE host controller object with a second  *)
(* RPC server, "disconnect_rpcs".  A disconnect may take minutes in the    *)
(* kernel; an RPC that outlives its time out leaves its server unusable    *)
(* until the late answer arrives.  The wrapper therefore sends the         *)
(* disconnect, and nothing else, to the second server.                     *)
(*                                                                         *)
(* The calls into TE and the kernel's controllers are external: they are   *)
(* modelled by the outcomes that nvmeof_ts.c and its callers distinguish.  *)
(***************************************************************************)
EXTENDS Naturals, FiniteSets

CONSTANTS
  Initiators,  \* tsapi_nvme_initiator objects of one test
  Servers,     \* RPC servers
  RootOf,      \* the server a test stores in initiator.rpcs
  DiscOf,      \* the server named "disconnect_rpcs" of the same agent
  Durations,   \* how long the kernel may take to delete the controller of each object
  RawUsers,    \* objects a test also disconnects without the wrapper
  Null         \* the null pointer

DiscServers == {DiscOf[i] : i \in Initiators}

ASSUME ServerAssumption ==
  /\ RootOf \in [Initiators -> Servers]
  /\ DiscOf \in [Initiators -> Servers]
  /\ \A i \in Initiators : RootOf[i] \notin DiscServers
  /\ Null \notin Initiators
  /\ Null \notin Servers

\* stability/fio_disconnparallel.c uses both ways, conf/connect.c never the wrapper's.
ASSUME RawUserAssumption == RawUsers \subseteq Initiators

\* Within the default time out, within five minutes, longer than that.
ASSUME DurationAssumption == Durations \in [Initiators -> SUBSET {"quick", "slow", "stuck"}]

VARIABLES
  rpcs,        \* initiator.rpcs of each object
  disc,        \* disconnect_rpcs of each object
  dev,         \* does the object believe it is connected?
  rc,          \* what the last disconnect of the object returned
  alive,       \* RPC servers that exist
  deftimeout,  \* def_timeout of each server
  pending,     \* whose disconnect a timed out server is still executing
  ctrl         \* the kernel's controller behind each object

niVars == <<rpcs, disc, dev, rc, alive, deftimeout, pending, ctrl>>
objVars == <<rpcs, disc, dev>>
serverVars == <<alive, deftimeout, pending>>

CtrlStates == {"absent", "live", "lost", "deleting"}

NITypeOK ==
  /\ rpcs \in [Initiators -> Servers]
  /\ disc \in [Initiators -> Servers \cup {Null}]
  /\ dev \in [Initiators -> BOOLEAN]
  /\ rc \in [Initiators -> {"none", "ok", "error"}]
  /\ alive \in SUBSET Servers
  /\ deftimeout \in [Servers -> {"default", "5min"}]
  /\ pending \in [Servers -> Initiators \cup {Null}]
  /\ ctrl \in [Initiators -> CtrlStates]

NIInit ==
  /\ rpcs = RootOf
  /\ disc = [i \in Initiators |-> Null]
  /\ dev = [i \in Initiators |-> FALSE]
  /\ rc = [i \in Initiators |-> "none"]
  /\ alive = Servers \ DiscServers
  /\ deftimeout = [s \in Servers |-> "default"]
  /\ pending = [s \in Servers |-> Null]
  /\ ctrl = [i \in Initiators |-> "absent"]

\* Mutant: a timed out server takes the next call
ReadyAlways(s) == s \in alive

Ready(s) == s \in alive /\ pending[s] = Null

-----------------------------------------------------------------------------
(***************************************************************************)
(* External calls                                                          *)
(***************************************************************************)

\* nvme connect through the object's server.  On failure the controller may
\* nevertheless exist, known to the object or not.
Connected(i) ==
  /\ Ready(rpcs[i]) /\ ctrl[i] = "absent"
  /\ ctrl' = [ctrl EXCEPT ![i] = "live"]
  /\ dev' = [dev EXCEPT ![i] = TRUE]
  /\ UNCHANGED <<rpcs, disc, rc>> /\ UNCHANGED serverVars

\* Mutant: the outcome of the call is taken for the state of the controller
ConnectConfused(i, outcome) ==
  /\ ctrl' = [ctrl EXCEPT ![i] = outcome]
  /\ UNCHANGED objVars /\ UNCHANGED rc /\ UNCHANGED serverVars

ConnectFailed(i, outcome) ==
  /\ outcome \in {"refused", "halfway", "orphan"}
  /\ outcome # "refused" => Ready(rpcs[i]) /\ ctrl[i] = "absent"
  /\ ctrl' = [ctrl EXCEPT ![i] = IF outcome = "refused" THEN @ ELSE "live"]
  /\ dev' = [dev EXCEPT ![i] = IF outcome = "halfway" THEN TRUE ELSE @]
  /\ UNCHANGED <<rpcs, disc, rc>> /\ UNCHANGED serverVars

\* Does a delete of this duration outlive the def_timeout of the server?
Outlives(duration, timeout) ==
  \/ duration = "stuck"
  \/ duration = "slow" /\ timeout = "default"

\* tapi_nvme_initiator_disconnect on server s, as far as the controller, the
\* object's device and the server go.  Nothing is done when not connected.
DeleteSkipped(i) ==
  ~dev[i] /\ UNCHANGED <<dev, ctrl, pending>>

DeleteRefused(i, s) ==
  dev[i] /\ UNCHANGED <<dev, ctrl, pending>>

DeleteDone(i, s, timeout, duration) ==
  /\ dev[i] /\ Ready(s) /\ ~Outlives(duration, timeout)
  /\ ctrl' = [ctrl EXCEPT ![i] = "absent"]
  /\ dev' = [dev EXCEPT ![i] = FALSE]
  /\ UNCHANGED pending

DeleteTimedOut(i, s, timeout, duration) ==
  /\ dev[i] /\ Ready(s) /\ Outlives(duration, timeout)
  /\ ctrl[i] # "absent"
  /\ ctrl' = [ctrl EXCEPT ![i] = "deleting"]
  /\ pending' = [pending EXCEPT ![s] = i]
  /\ UNCHANGED dev

DeleteOk(i, s, timeout, duration) ==
  DeleteSkipped(i) \/ DeleteDone(i, s, timeout, duration)

DeleteFails(i, s, timeout, duration) ==
  DeleteRefused(i, s) \/ DeleteTimedOut(i, s, timeout, duration)

\* tapi_nvme_initiator_disconnect called by a test itself, on the object's server.
RawDisconnectOk(i, duration) ==
  /\ DeleteOk(i, rpcs[i], deftimeout[rpcs[i]], duration)
  /\ rc' = [rc EXCEPT ![i] = "ok"]
  /\ UNCHANGED <<rpcs, disc, alive, deftimeout>>

RawDisconnectFailed(i, duration) ==
  /\ DeleteFails(i, rpcs[i], deftimeout[rpcs[i]], duration)
  /\ rc' = [rc EXCEPT ![i] = "error"]
  /\ UNCHANGED <<rpcs, disc, alive, deftimeout>>

\* The call whose caller gave up ends: the controller is gone, or the call gives way to
\* one of another server that is deleting the same controller.
LateAnswer(s) ==
  /\ pending[s] # Null
  /\ \/ ctrl' = [ctrl EXCEPT ![pending[s]] = IF @ = "deleting" THEN "absent" ELSE @]
     \/ (\E t \in Servers \ {s} : pending[t] = pending[s]) /\ UNCHANGED ctrl
  /\ pending' = [pending EXCEPT ![s] = Null]
  /\ UNCHANGED objVars /\ UNCHANGED <<rc, alive, deftimeout>>

\* The transport drops, comes back, or stays away for ctrl_loss_tmo.
CtrlMoves(i, from, to) ==
  /\ ctrl[i] = from
  /\ ctrl' = [ctrl EXCEPT ![i] = to]
  /\ UNCHANGED objVars /\ UNCHANGED rc /\ UNCHANGED serverVars

CtrlLoses(i)    == CtrlMoves(i, "live", "lost")
CtrlRecovers(i) == CtrlMoves(i, "lost", "live")
CtrlExpires(i)  == CtrlMoves(i, "lost", "absent")

-----------------------------------------------------------------------------
(***************************************************************************)
(* The wrapper                                                             *)
(***************************************************************************)

\* Mutant: a blocked server forks another
InitRpcsBlind(i) ==
  /\ alive' = alive \cup {DiscOf[i]}
  /\ disc' = [disc EXCEPT ![i] = DiscOf[i]]
  /\ UNCHANGED <<rpcs, dev, rc, deftimeout, pending, ctrl>>

InitRpcsOk(i) ==
  /\ Ready(rpcs[i])
  /\ alive' = alive \cup {DiscOf[i]}
  /\ disc' = [disc EXCEPT ![i] = DiscOf[i]]
  /\ UNCHANGED <<rpcs, dev, rc, deftimeout, pending, ctrl>>

InitRpcsFailed(i) == UNCHANGED niVars

\* Mutants: the disconnect goes through the test's own server, or with its time out
RootServer(i) == rpcs[i]

HastyTimeouts(i) == deftimeout

\* tsapi_nvme_initiator_disconnect: lend the object the disconnect server with
\* a five minute time out, and take it back only when the delete succeeded.
DisconnectServer(i) == IF disc[i] # Null THEN disc[i] ELSE rpcs[i]

PatientTimeouts(i) ==
  IF disc[i] # Null THEN [deftimeout EXCEPT ![disc[i]] = "5min"] ELSE deftimeout

DisconnectOk(i, duration) ==
  LET s == DisconnectServer(i) IN
  /\ DeleteOk(i, s, PatientTimeouts(i)[s], duration)
  /\ deftimeout' = PatientTimeouts(i)
  /\ rc' = [rc EXCEPT ![i] = "ok"]
  /\ UNCHANGED <<rpcs, disc, alive>>

\* Mutant: the early return loses the error
DisconnectSwallowed(i, duration) ==
  LET s == DisconnectServer(i) IN
  /\ DeleteFails(i, s, PatientTimeouts(i)[s], duration)
  /\ deftimeout' = PatientTimeouts(i)
  /\ rpcs' = [rpcs EXCEPT ![i] = s]
  /\ rc' = [rc EXCEPT ![i] = "ok"]
  /\ UNCHANGED <<disc, alive>>

DisconnectFailed(i, duration) ==
  LET s == DisconnectServer(i) IN
  /\ DeleteFails(i, s, PatientTimeouts(i)[s], duration)
  /\ deftimeout' = PatientTimeouts(i)
  /\ rpcs' = [rpcs EXCEPT ![i] = s]
  /\ rc' = [rc EXCEPT ![i] = "error"]
  /\ UNCHANGED <<disc, alive>>

\* tsapi_nvme_initiator_fini keeps the pointer to the destroyed server.
FiniOk(i) ==
  /\ alive' = alive \ {disc[i]}
  /\ UNCHANGED <<rpcs, disc, dev, rc, deftimeout, pending, ctrl>>

FiniFailed(i) == UNCHANGED niVars

-----------------------------------------------------------------------------
(***************************************************************************)
(* One client per object that connects only while disconnected and calls   *)
(* init once; every other order of calls is allowed.  The client of a      *)
(* RawUser calls tapi_nvme_initiator_disconnect itself, too.               *)
(***************************************************************************)

InitRpcs(i)   == disc[i] = Null /\ (InitRpcsOk(i) \/ InitRpcsFailed(i))
Connect(i)    == ~dev[i] /\ (Connected(i) \/ \E o \in {"refused", "halfway", "orphan"} :
                                               ConnectFailed(i, o))
Disconnect(i) == \E d \in Durations[i] : DisconnectOk(i, d) \/ DisconnectFailed(i, d)
DirectDisconnect(i) ==
  i \in RawUsers /\ \E d \in Durations[i] : RawDisconnectOk(i, d) \/ RawDisconnectFailed(i, d)
Fini(i)       == FiniOk(i) \/ FiniFailed(i)

Kernel(i) == CtrlLoses(i) \/ CtrlRecovers(i) \/ CtrlExpires(i)

NINext ==
  \/ \E i \in Initiators :
       \/ InitRpcs(i) \/ Connect(i) \/ Fini(i) \/ Kernel(i)
       \/ Disconnect(i) \/ DirectDisconnect(i)
  \/ \E s \in Servers : LateAnswer(s)

NISpec == NIInit /\ [][NINext]_niVars

-----------------------------------------------------------------------------
(***************************************************************************)
(* Properties                                                              *)
(***************************************************************************)

\* The server the test works with is never blocked by the disconnect of an object that
\* has a disconnect server and is only disconnected through the wrapper, whatever failed
\* before (the reason for "Initiator with custom disconnect RPC server" in nvmeof_test.h).
RootSpared ==
  \A s \in Servers \ DiscServers :
    pending[s] # Null => disc[pending[s]] = Null \/ pending[s] \in RawUsers

\* The retries of the wrapper are turned away until the first disconnect has answered. A
\* controller is deleted through two servers at once only when a test has bypassed the
\* wrapper: its own disconnect timed out on its own server and the cleanup tried again on
\* the disconnect server (stability/fio_disconnparallel.c:79 and 88).
TwiceOnlyAfterRaw ==
  \A s, t \in Servers :
    s # t /\ pending[s] # Null /\ pending[s] = pending[t] =>
      LET i == pending[s] IN i \in RawUsers /\ {s, t} = {RootOf[i], DiscOf[i]}

\* A controller stuck in deletion always has a server that is going to report
\* the end of it, so neither a time out nor a retry strands one for good.
DeletingInFlight ==
  \A i \in Initiators : ctrl[i] = "deleting" => \E s \in Servers : pending[s] = i

\* Five minutes are enough: a disconnect server ends up with an unanswered call
\* only by a delete that takes longer than that, whoever else uses the server, and also when
\* it is lent to an object that then disconnects without the wrapper.
PatienceSuffices ==
  \A s \in DiscServers : pending[s] # Null => "stuck" \in Durations[pending[s]]

\* "Back state of initiator" (nvmeof_ts.c:181): once a disconnect has succeeded
\* the object works with its own server again.  The code breaks this: the early
\* return at line 178 keeps the disconnect server, and a retry then saves and
\* puts back that one.
InitiatorStateBack ==
  \A i \in Initiators : rc[i] = "ok" => rpcs[i] = RootOf[i]
=============================================================================
