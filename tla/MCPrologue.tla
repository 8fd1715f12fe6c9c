----------------------------- MODULE MCPrologue -----------------------------
(***************************************************************************)
(* The prologue on one initiator (iut) and one target (tst) host, listed   *)
(* as in conf/cs.conf.tools.                                               *)
(***************************************************************************)
EXTENDS Prologue

List(files, empties) ==
  [t \in Tools |-> IF t \in files THEN "file" ELSE IF t \in empties THEN "empty" ELSE "none"]

IutModules == {"nvme-core", "nvme", "nvme-fabrics", "nvme-tcp"}
TstModules == {"nvmet", "nvmet-tcp"}

\* SF_FIO may be unset; libcrc32c is listed without a file, or with one.
MCListings ==
  {[a \in {"iut", "tst"} |->
      IF a = "iut" THEN List(IutModules \cup {"nvme-cli"} \cup full, {"fio", "libcrc32c"} \ full)
                   ELSE List(TstModules \cup {"nvme-cli"}, {"libcrc32c"})] :
     full \in {{"fio"}, {"libcrc32c"}}}

\* --sf-load --sf-tools=<the modules that have a file>
MCFilterOptions ==
  {[copy |-> TRUE, only |-> IutModules \cup TstModules, load |-> TRUE]}

\* run.sh without options, with --sf-copy --sf-tools=..., and with --sf-load
MCOptions ==
  {[copy |-> FALSE, only |-> Tools, load |-> FALSE],
   [copy |-> TRUE, only |-> {"fio", "nvme-cli"}, load |-> FALSE],
   [copy |-> TRUE, only |-> Tools, load |-> TRUE]} \cup MCFilterOptions

\* The target has drives of its own, and a kernel whose nvmet may pass commands to them.
MCResidents ==
  [a \in {"iut", "tst"} |-> IF a = "iut" THEN IutModules \cup {"libcrc32c"}
                            ELSE TstModules \cup {"nvme-core"}]

MCNeeds ==
  [m \in Modules |->
     CASE m = "nvme" -> {"nvme-core"}
       [] m = "nvme-fabrics" -> {"nvme-core"}
       [] m = "nvme-tcp" -> {"nvme-core", "nvme-fabrics"}
       [] m = "nvmet" -> {"nvme-core"}
       [] m = "nvmet-tcp" -> {"nvmet", "nvme-core"}
       [] OTHER -> {}]
=============================================================================
