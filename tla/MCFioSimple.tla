----------------------------- MODULE MCFioSimple -----------------------------
(***************************************************************************)
(* fio_simple under some of its runs in perf/package.xml, one of which has *)
(* lost a parameter, on agents of every kind.                              *)
(***************************************************************************)
EXTENDS FioSimple

CONSTANTS init_if, tgt_if

Fixed == [ioengine |-> "libaio", rwtype |-> "rand", runtime_sec |-> 10, rwmixread |-> 100,
          iodepth |-> 1, blocksize |-> 512, mtu |-> 9000, tso |-> "on", lro |-> "off",
          numjobs |-> [value |-> 1, factor |-> "none"]]

With(name, value) == [n \in {name} |-> value]

Latency == With("perf_type", "latency") @@ Fixed
Threads(value, factor) ==
  With("perf_type", "throughput")
  @@ With("numjobs", [value |-> value, factor |-> factor]) @@ Fixed
Shuffle == With("is_shuffle_blocksize", TRUE) @@ With("mtu", 1500) @@ Threads(4, "none")
Onvme(cores) == With("onvme_cores", cores) @@ With("onvme_max_worker_conn", 5) @@ Fixed
Lossy == [n \in DOMAIN Fixed \ {"numjobs"} |-> Fixed[n]]

MCAsked == {With("lro", "on") @@ Fixed, Latency, Threads(32, "none"), Threads(2, "nproc"),
            Shuffle, Onvme("numa-local"), Onvme("default"), Lossy}

MCInitAgents == {[hdr_digest |-> "random", data_digest |-> "0"],
                 [hdr_digest |-> "1", data_digest |-> ""]}

MCTgtAgents == {[tgt_type |-> "kernel", block |-> <<"nullb0">>, nqn |-> ""],
                [tgt_type |-> "onvme", block |-> <<"nvme0n1", "nullb0">>, nqn |-> "given"],
                [tgt_type |-> "kernel", block |-> <<>>, nqn |-> "unset"],
                [tgt_type |-> "unset", block |-> <<"nullb0">>, nqn |-> "unset"]}

MCIfaces == {init_if, tgt_if}
=============================================================================
