------------------------------ MODULE MCSession ------------------------------
(***************************************************************************)
(* Command lines that name targets twice, tags in every order and the      *)
(* report; three tests, two of which are listed by the same argument.      *)
(***************************************************************************)
EXTENDS Session

O(opt, arg) == [opt |-> opt, arg |-> arg]
Perf == O("with-perf", "")

MCCommandLines ==
  {<<>>, <<O("help", "")>>,
   <<O("target", "onvme"), Perf>>,
   <<O("target", "onvme"), O("target", "kernel"), Perf>>,
   <<O("with-aggr", "bond"), O("test-scenario", "fast"), O("target", "onvme")>>,
   <<O("use-null", ""), O("with-aggr", "team"), O("with-aggr", "bond")>>,
   <<O("high-memory", ""), O("data-digest", ""), O("cfg", "host"), O("tester-count", ""), Perf>>,
   <<O("sf-load", ""), O("sf-tools", "fio"), O("hdr-digest", ""), O("sf-copy", ""),
     O("build-noparallel", "")>>}

Arg(name, value) == [name |-> name, value |-> value]
Test(name, args, onvme) == [name |-> name, args |-> args, onvme |-> onvme]

MCTests ==
  {Test("prologue", <<>>, FALSE),
   Test("fio_simple_qd", <<Arg("iodepth", 1), Arg("numjobs", 1)>>, FALSE),
   Test("fio_simple_qd", <<Arg("iodepth", 2), Arg("numjobs", 1)>>, FALSE),
   Test("fio_simple_threads", <<Arg("iodepth", 1), Arg("numjobs", 2)>>, FALSE),
   Test("fio_simple_onvme_specific_param", <<Arg("iodepth", 1), Arg("numjobs", 1)>>, TRUE)}

MCOldLogs ==
  {<<>>, <<TestEntry(9, "fio_simple_qd", <<Arg("iodepth", 1), Arg("numjobs", 1)>>),
           FioResult(<<9>>), Control("PASSED", 9), Text>>}
=============================================================================
