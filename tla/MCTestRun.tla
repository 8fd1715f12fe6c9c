----------------------------- MODULE MCTestRun -----------------------------
(* TestRun on the objects the tests declare.  All tests work on one agent, so *)
(* their objects share the root server and the server that is named           *)
(* "disconnect_rpcs".                                                         *)
EXTENDS TestRun, TestScripts

CONSTANT Selected  \* names of the scripts a run checks

AllScripts ==
  [fio_simple |-> FioSimple, fio_pattern |-> FioPattern, list |-> List,
   nvmecmd |-> Nvmecmd,
   connect |-> Connect_("fn_disconnect"), connect_all |-> Connect_("fn_disconnect_all"),
   fio_dupconn |-> FioDupconn, onvme_kill |-> OnvmeKill, fio_reconnect |-> FioReconnect,
   fio_updown |-> FioUpdown, fio_disconnparallel |-> FioDisconnparallel,
   fio_stability_before |-> FioStability(TRUE), fio_stability_after |-> FioStability(FALSE),
   fio_parallel_traffic |-> FioParallelTraffic]

MCScripts == [t \in Selected |-> AllScripts[t]]

MCInitiators == {"ctx0", "ctx1"}
MCApps == {"fio0", "fio1", "perf_server", "perf_client"}
MCServers == {"init_rpcs", "disconnect_rpcs", "iperf_init", "iperf_tgt"}

MCRootOf == [i \in MCInitiators |-> "init_rpcs"]
MCDiscOf == [i \in MCInitiators |-> "disconnect_rpcs"]
MCDurations == [i \in MCInitiators |-> {"quick", "slow", "stuck"}]
MCTargetOf == [i \in MCInitiators |-> "tgt0"]

MCAppOn == [a \in MCApps |->
              CASE a = "fio0" -> "ctx0" [] a = "fio1" -> "ctx1" [] OTHER -> Null]
MCAppServer == [a \in MCApps |->
                  CASE a = "perf_server" -> "iperf_init"
                    [] a = "perf_client" -> "iperf_tgt" [] OTHER -> "init_rpcs"]
=============================================================================
