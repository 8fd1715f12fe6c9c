----------------------------- MODULE Interfaces -----------------------------
(***************************************************************************)
(* The network interfaces the tests write the calls of Settings to         *)
(* (nvmeof-ts/lib/tsapi_opts.c).  Every call is in CHECK_RC: the first     *)
(* that fails ends the test's body and leaves the interface with what was  *)
(* written before it.                                                      *)
(***************************************************************************)
EXTENDS Settings, SequencesExt

CONSTANT Ifaces  \* interfaces of the environment

VARIABLE conf    \* the settings of each interface

NetemNames == {"delay", "loss", "corruption"}
QdiscNames == {"kind", "enabled"}

\* Before a test: settings nobody asked for, and no discipline.
Untouched ==
  [name \in IfFeatureNames \cup NetemNames \cup QdiscNames |->
     CASE name = "enabled" -> FALSE [] name = "kind" -> "none"
       [] name \in NetemNames \cup {"mtu"} -> 0 [] OTHER -> "unasked"]

ConfTypeOK ==
  /\ DOMAIN conf = Ifaces
  /\ \A f \in Ifaces : /\ DOMAIN conf[f] = DOMAIN Untouched
                       /\ conf[f]["enabled"] \in BOOLEAN
                       /\ conf[f]["kind"] \in {"none", "netem"}

ConfInit == conf = [f \in Ifaces |-> Untouched]

-----------------------------------------------------------------------------

Applied(f, calls) ==
  conf' = [conf EXCEPT ![f] = AfterCalls(@, calls)[Len(calls)]]

ApplyFails(f, calls) ==
  \E n \in 0..(Len(calls) - 1) : conf' = [conf EXCEPT ![f] = AfterCalls(@, calls)[n]]

-----------------------------------------------------------------------------

\* The netem discipline of an interface is impairing its link.
Impaired(f) == conf[f]["enabled"] /\ conf[f]["kind"] = "netem"

\* What an impaired link was asked to suffer.
AsksNetem(f, opts) ==
  /\ conf[f]["delay"] = TE_MS2US(opts.delay)
  /\ conf[f]["loss"] = opts.loss /\ conf[f]["corruption"] = opts.corruption
=============================================================================
