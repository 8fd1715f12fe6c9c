---------------------------- MODULE TestScripts ----------------------------
(***************************************************************************)
(* The test programs of nvmeof-ts/{conf,data,perf,stability} that work     *)
(* with a single target (MultiTest models the others) as scripts for       *)
(* TestRun: the calls of main() in program order, those after the label    *)
(* "cleanup" apart.  Runs of calls that only read parameters or report are *)
(* one "call".  Loops are unrolled Repeat times.                           *)
(***************************************************************************)
EXTENDS Naturals, Sequences

CONSTANT Repeat  \* iterations of the loops over "repeat" and "period"

ASSUME RepeatAssumption == Repeat \in Nat \ {0}

\* CHECK_RC(...), CLEANUP_CHECK_RC(...) or a function that calls TEST_FAIL
Checked(op, arg) == [op |-> op, arg |-> arg, checked |-> TRUE]
\* A call whose result is ignored or that has none
Plain(op, arg) == [op |-> op, arg |-> arg, checked |-> FALSE]

Call == Checked("call", "bed")
Sleep == Plain("sleep", "bed")
T == "tgt0"

Times(n, seq) == [k \in 1..(n * Len(seq)) |-> seq[((k - 1) % Len(seq)) + 1]]

\* tapi_nvme_target_init, tapi_nvme_target_setup
TargetUp == <<Checked("target_init", T), Checked("target_setup", T)>>

\* tsapi_nvme_initiator_init, then a connect
Attach(i) == <<Checked("initiator_init", i), Checked("connect", i)>>

Run(a) == <<Checked("start", a), Checked("wait", a), Checked("stop", a)>>
Finish(a) == <<Checked("wait", a), Checked("stop", a)>>

\* Params, tsapi_get_target_ta, target options, target, initiator: how every
\* single-connection test begins.
Bring(i) == <<Call, Checked("target_ta", T), Call>> \o TargetUp \o Attach(i)

\* tapi_fio_destroy, tsapi_nvme_initiator_disconnect, tapi_nvme_target_fini
Wipe == <<Plain("destroy", "fio0"), Checked("disconnect", "ctx0"), Plain("target_fini", T)>>

Single(body, wild) ==
  [body |-> body, cleanup |-> Wipe, wild |-> wild, target |-> "garbage"]

-----------------------------------------------------------------------------

FioSimple ==
  [body |-> <<Call, Checked("target_ta", T), Call, Call>> \o TargetUp \o <<Call>>
            \o Attach("ctx0") \o <<Call, Call, Plain("create", "fio0")>>
            \o Run("fio0") \o <<Call>>,
   cleanup |-> <<Call>> \o Wipe,  \* tsapi_sysstat_stop_all first
   wild |-> {"fio0"}, target |-> "garbage"]

FioPattern ==
  Single(Bring("ctx0") \o <<Call, Plain("create", "fio0"), Call>>
         \o Run("fio0") \o <<Call>> \o Run("fio0") \o <<Call>>, {"fio0"})

List ==
  Single(Bring("ctx0") \o <<Call, Plain("create", "fio0"), Checked("start", "fio0")>>
         \o Times(Repeat, <<Call>>) \o Finish("fio0") \o <<Call>>, {})

\* The loop over the commands (see NvmeCmd) is one step.
Nvmecmd ==
  Single(Bring("ctx0") \o <<Call, Plain("create", "fio0"), Checked("start", "fio0"),
                            Checked("commands", "bed")>>
         \o Finish("fio0") \o <<Call>>, {})

\* The two types of connect differ in the function behind nvme_disconnect.
Connect_(disconnect) ==
  [body |-> <<Call, Plain("select", "bed"), Checked("target_ta", T), Call>>
            \o TargetUp \o <<Call>>
            \o Times(Repeat, <<Checked("connect", "ctx0"), Checked(disconnect, "ctx0")>>),
   cleanup |-> <<Checked(disconnect, "ctx0"), Plain("target_fini", T)>>,
   wild |-> {}, target |-> "garbage"]

FioDupconn ==
  [body |-> <<Call, Checked("target_ta", T), Call>> \o TargetUp
            \o Attach("ctx0") \o Attach("ctx1")
            \o <<Call, Plain("create", "fio0"), Plain("create", "fio1"), Call,
                 Plain("create", "fio0"), Checked("start", "fio0"),
                 Plain("create", "fio1"), Checked("start", "fio1"), Sleep>>
            \o Finish("fio0") \o Finish("fio1"),
   cleanup |-> <<Plain("destroy", "fio0"), Checked("disconnect", "ctx0"),
                 Plain("destroy", "fio1"), Checked("disconnect", "ctx1"),
                 Plain("target_fini", T)>>,
   wild |-> {}, target |-> "garbage"]

\* killpg_onvme runs after the sleep; the target is a local TAPI_NVME_ONVME_TARGET.
OnvmeKill ==
  [body |-> <<Call>> \o TargetUp \o Attach("ctx0")
            \o <<Call, Plain("create", "fio0"), Checked("start", "fio0"), Sleep,
                 Checked("target_kill", T), Plain("target_fini", T)>>
            \o TargetUp \o Finish("fio0"),
   cleanup |-> Wipe, wild |-> {}, target |-> "typed"]

FioReconnect ==
  Single(Bring("ctx0") \o <<Call, Plain("create", "fio0"), Checked("start", "fio0"),
                            Plain("if_down", "bed"), Plain("if_up", "bed")>>
         \o Finish("fio0") \o <<Call>>, {})

FioUpdown ==
  Single(Bring("ctx0") \o <<Call, Plain("create", "fio0"), Checked("start", "fio0")>>
         \o Times(Repeat, <<Plain("if_down", "bed"), Plain("if_up", "bed")>>)
         \o Finish("fio0") \o <<Call>>, {})

FioDisconnparallel ==
  Single(Bring("ctx0") \o <<Call, Plain("create", "fio0"), Checked("start", "fio0")>>
         \o Times(Repeat, <<Checked("raw_disconnect", "ctx0"), Checked("connect", "ctx0")>>)
         \o Finish("fio0"), {})

\* apply_netem_before_nvme_connect is random: one script for each value.
FioStability(before) ==
  LET netem == <<Checked("netem", "bed")>>
  IN  Single(<<Call>> \o (IF before THEN netem ELSE <<>>) \o Bring("ctx0")
             \o (IF before THEN <<>> ELSE netem)
             \o <<Call, Plain("create", "fio0")>> \o Run("fio0") \o <<Call>>, {})

FioParallelTraffic ==
  [body |-> <<Call, Plain("create", "perf_server"), Plain("create", "perf_client"), Call,
              Checked("start", "perf_server"), Checked("start", "perf_client"),
              Checked("target_ta", T), Call>>
            \o TargetUp \o <<Call>> \o Attach("ctx0")
            \o <<Call, Plain("create", "fio0")>> \o Run("fio0") \o <<Call>>,
   cleanup |-> <<Plain("destroy", "perf_client"), Plain("destroy", "perf_server")>> \o Wipe,
   wild |-> {"fio0", "perf_server", "perf_client"}, target |-> "garbage"]
=============================================================================
