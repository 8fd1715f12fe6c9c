----------------------------- MODULE PerfReport -----------------------------
(***************************************************************************)
(* The performance report (scripts/perf.py) as a function of TE's text log. *)
(*                                                                         *)
(* A log is a sequence of entries.  Those of the Tester's control have a    *)
(* type ("PACKAGE", "TEST", a verdict), an id and, for a test, its name and  *)
(* its arguments, a sequence of names and values.  The others are text or a *)
(* result of fio, whose JSON may be cut.  The generators of the script are  *)
(* the sequences of what they yield.                                       *)
(***************************************************************************)
EXTENDS Naturals, Sequences, SequencesExt

Control(type, id) == [who |-> "TesterControl", type |-> type, id |-> id]
TestEntry(id, name, args) ==
  [who |-> "TesterControl", type |-> "TEST", id |-> id, name |-> name, args |-> args]
Text == [who |-> "other", label |-> "text"]
\* json is <<figures>>, or <<>> when it does not parse.
FioResult(json) == [who |-> "other", label |-> "fio", json |-> json]

\* The argument a test's figures are listed by
test_types ==
  [name \in {"fio_1req_latency", "fio_simple_qd", "fio_simple",
             "fio_simple_bs_iterate_throughput"} |-> "iodepth"]
  @@ [name \in {"fio_simple_base_throughput_reduced", "fio_simple_base_throughput",
                "fio_simple_threads_mixed_throughput", "fio_simple_threads"} |-> "numjobs"]

-----------------------------------------------------------------------------

\* log_entries: an entry is yielded when the next one begins.
LogEntries(log) == IF log = <<>> THEN <<>> ELSE Front(log)

\* Mutant: what was logged stays
NeverCleared(entries, type) == entries

\* test_log_entries.clear() at every message of the control
Cleared(entries, type) == <<>>

\* One turn of the loop of test_runs; test_info is <<>> before the first test.
Turn(state, entry) ==
  LET verdict == entry.type \in {"PASSED", "FAILED"}
      known == state.test_info # <<>>
  IN IF entry.who # "TesterControl"
       THEN [state EXCEPT !.entries = Append(@, entry)]
       ELSE [test_info |-> IF entry.type = "TEST" THEN <<entry>> ELSE state.test_info,
             entries |-> Append(Cleared(state.entries, entry.type), entry),
             runs |-> IF verdict /\ known /\ state.test_info[1].id = entry.id
                        THEN Append(state.runs, [info |-> state.test_info[1],
                                                 entries |-> state.entries])
                        ELSE state.runs,
             raised |-> state.raised \/ (verdict /\ ~known)]

\* test_runs after each entry; raised is the KeyError of a verdict before any test.
TestRuns(entries) ==
  LET after[n \in 0..Len(entries)] ==
        IF n = 0 THEN [test_info |-> <<>>, entries |-> <<>>, runs |-> <<>>, raised |-> FALSE]
                 ELSE Turn(after[n - 1], entries[n])
  IN after[Len(entries)]

\* get_fio_result: the first result, or <<>> when there is none that parses
FioResultOf(entries) ==
  LET results == {i \in DOMAIN entries : entries[i].who = "other" /\ entries[i].label = "fio"}
  IN IF results = {} THEN <<>>
     ELSE entries[CHOOSE i \in results : \A j \in results : i <= j].json

ArgOf(args, name) == args[CHOOSE i \in DOMAIN args : args[i].name = name].value
HasArg(args, name) == \E i \in DOMAIN args : args[i].name = name
Without(args, name) == SelectSeq(args, LAMBDA arg : arg.name # name)

\* A table is that of a type and of the values of the arguments but the listed one.
TableOf(test) ==
  LET rest == Without(test.args, test_types[test.name])
  IN <<test_types[test.name], [i \in DOMAIN rest |-> rest[i].value]>>

FieldsOf(test) ==
  LET rest == Without(test.args, test_types[test.name])
  IN [i \in DOMAIN rest |-> rest[i].name]

ReportOf(run) ==
  [value |-> ArgOf(run.info.args, test_types[run.info.name]),
   figures |-> FioResultOf(run.entries)[1]]

\* The names of the arguments are those of the report that opened the table.
Enter(perf, run) ==
  LET table == TableOf(run.info)
      opened == IF table \in DOMAIN perf THEN perf[table]
                ELSE [fields |-> FieldsOf(run.info), reports |-> <<>>]
  IN [t \in DOMAIN perf \cup {table} |->
        IF t = table THEN [opened EXCEPT !.reports = Append(@, ReportOf(run))] ELSE perf[t]]

Listed(run) ==
  /\ run.info.name \in DOMAIN test_types
  /\ HasArg(run.info.args, test_types[run.info.name])
  /\ FioResultOf(run.entries) # <<>>

\* get_performance after each run
Performance(runs) ==
  LET perf[n \in 0..Len(runs)] ==
        IF n = 0 THEN <<>>
        ELSE IF Listed(runs[n]) THEN Enter(perf[n - 1], runs[n]) ELSE perf[n - 1]
  IN perf[Len(runs)]
=============================================================================
