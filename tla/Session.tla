------------------------------ MODULE Session ------------------------------
(***************************************************************************)
(* A session of the test suite: scripts/run.sh reads its command line,     *)
(* calls TE's dispatcher, whose Tester runs the tests and logs, and makes   *)
(* the performance report of PerfReport from the log.  The dispatcher and   *)
(* the Tester are external: they may fail before anything is logged or in   *)
(* the middle of a test.                                                   *)
(***************************************************************************)
EXTENDS PerfReport, FiniteSets

CONSTANTS
  CommandLines,  \* sequences of options: records of an option and its argument
  Tests,         \* what the packages hold: names, arguments and requirements
  OldLogs,       \* what an earlier session may have left in log.txt
  MaxTests       \* tests a session runs, the prologue included

\* The words of the command lines, and those the script adds to them
Given == UNION {ToSet(line) : line \in CommandLines}
Words ==
  {o.opt : o \in Given} \cup {o.arg : o \in Given}
  \cup {"", "opts", "aggregation", "opts.matrix", "nullblock", "script", "env.nullblock",
        "tester-fake", "nvmeof-ts", "build-parallel", "hdr-digest", "data-digest"}
Options == [opt : Words, arg : Words]
Reqs == {"!(SMALL_BLOCK&NUMJOBS_GT_100)", "!ONVME_TARGET"}

\* What run.sh's usage says of targets, and what the packages promise perf.py: a test it
\* knows has the argument its figures are listed by, and tests of one table have the
\* same other arguments.
ASSUME SessionAssumption ==
  /\ MaxTests \in Nat
  /\ CommandLines \subseteq Seq(Options)
  /\ \A line \in CommandLines : \A i \in DOMAIN line :
       line[i].opt = "target" => line[i].arg \in {"kernel", "onvme"}
  /\ \A test \in Tests : test.name \in DOMAIN test_types =>
       /\ HasArg(test.args, test_types[test.name])
       /\ \A other \in Tests :
            other.name \in DOMAIN test_types /\ TableOf(other) = TableOf(test)
              => FieldsOf(other) = FieldsOf(test)

VARIABLES
  at,       \* where the script is
  asked,    \* its command line
  todo,     \* the options not read yet
  shell,    \* the variables of the script
  written,  \* this session has begun a log
  log,      \* log.txt
  ran,      \* the tests that ended: entry, verdict and fio result
  result,   \* RESULT
  saidFail, \* FAIL has been printed for the dispatcher
  report,   \* perf.txt: <<>> or <<tables>>
  exit      \* exit status: <<>> or <<status>>

vars == <<at, asked, todo, shell, written, log, ran, result, saidFail, report, exit>>

scripted == <<asked, todo, shell>>
logged == <<written, log, ran>>
outcome == <<saidFail, report, exit>>

Verdicts == {"PASSED", "FAILED", "KILLED", "FAKED"}

Shells ==
  [env : [target : {"kernel", "onvme"}, hdr_digest : {0, 1}, data_digest : {0, 1},
          bond : Words, tools_copy : BOOLEAN, tools : Words, modules_load : BOOLEAN],
   words : Seq(Seq(Words)), open : BOOLEAN, perf : BOOLEAN, fake : BOOLEAN,
   parallel : BOOLEAN, unreal : BOOLEAN, dispatch : SUBSET Options, reqs : SUBSET Reqs]

TypeOK ==
  /\ at \in {"locate", "options", "dispatcher", "tester", "test", "status", "perf", "over"}
  /\ asked \in CommandLines /\ IsSuffix(todo, asked)
  /\ shell \in Shells
  /\ Len(ran) <= MaxTests /\ \A i \in DOMAIN ran : ran[i].verdict \in Verdicts
  /\ result \in {0, 1} /\ saidFail \in BOOLEAN /\ written \in BOOLEAN
  /\ exit \in {<<>>, <<0>>, <<1>>} /\ (exit # <<>> <=> at = "over")

\* run.sh:65-68.  TRC_TAGS is a sequence of words, each the tags that touch, and open
\* when no space ends it.
\* env are the variables exported to the configuration files and the tests.
ShellInit ==
  [env |-> [target |-> "kernel", hdr_digest |-> 0, data_digest |-> 0, bond |-> "",
            tools_copy |-> FALSE, tools |-> "", modules_load |-> FALSE],
   words |-> <<>>, open |-> FALSE, perf |-> FALSE, fake |-> FALSE, parallel |-> TRUE,
   unreal |-> FALSE, dispatch |-> {}, reqs |-> {}]

Init ==
  /\ at = "locate" /\ asked \in CommandLines /\ todo = asked /\ shell = ShellInit
  /\ written = FALSE /\ log \in OldLogs /\ ran = <<>>
  /\ result = 0 /\ saidFail = FALSE /\ report = <<>> /\ exit = <<>>

Exits(status) ==
  /\ at' = "over" /\ exit' = <<status>>
  /\ UNCHANGED <<logged, result, saidFail, report>>

-----------------------------------------------------------------------------
(***************************************************************************)
(* The command line                                                        *)
(***************************************************************************)

\* TRC_TAGS+="$tag "
AddTag(sh, tag) ==
  [sh EXCEPT !.open = FALSE,
             !.words = IF sh.open THEN Append(Front(@), Append(Last(@), tag))
                                  ELSE Append(@, <<tag>>)]

\* TRC_TAGS="$TRC_TAGS $tag"
AddTagBehind(sh, tag) == [sh EXCEPT !.open = TRUE, !.words = Append(@, <<tag>>)]

\* RUN_OPTS: what the dispatcher gets
Dispatch(sh, opt, arg) ==
  [sh EXCEPT !.dispatch = @ \cup {[opt |-> opt, arg |-> arg]}]

\* Mutant: the option is not stripped of its name
ReadsUnstripped(sh, o) ==
  IF o.opt = "target" THEN AddTag([sh EXCEPT !.env.target = "--target=" \o o.arg], o.arg) ELSE sh

\* run.sh:69-130, but for --help
Reads(sh, o) ==
  CASE o.opt = "sf-copy" -> [sh EXCEPT !.env.tools_copy = TRUE]
    [] o.opt = "sf-tools" -> [sh EXCEPT !.env.tools = o.arg]
    [] o.opt = "sf-load" -> [sh EXCEPT !.env.tools_copy = TRUE, !.env.modules_load = TRUE]
    [] o.opt = "build-noparallel" -> [sh EXCEPT !.parallel = FALSE]
    [] o.opt = "with-aggr" ->
         Dispatch(AddTagBehind([sh EXCEPT !.env.bond = o.arg], o.arg), "opts", "aggregation")
    [] o.opt = "test-scenario" -> Dispatch(AddTag(sh, o.arg), "opts.matrix", o.arg)
    [] o.opt = "target" -> AddTag([sh EXCEPT !.env.target = o.arg], o.arg)
    [] o.opt = "hdr-digest" -> AddTag([sh EXCEPT !.env.hdr_digest = 1], "hdr-digest")
    [] o.opt = "data-digest" -> AddTag([sh EXCEPT !.env.data_digest = 1], "data-digest")
    [] o.opt = "use-null" -> Dispatch(AddTag(sh, "nullblock"), "script", "env.nullblock")
    [] o.opt = "with-perf" -> [sh EXCEPT !.perf = TRUE]
    [] o.opt = "tester-count" -> 
         Dispatch([sh EXCEPT !.fake = TRUE], "tester-fake", "nvmeof-ts")
    [] o.opt = "high-memory" -> [sh EXCEPT !.unreal = TRUE]
    [] OTHER -> Dispatch(sh, o.opt, o.arg)

\* TS_TOPDIR and TE_BASE are guessed, or the script gives up.
Locate ==
  /\ at = "locate"
  /\ \/ at' = "options" /\ UNCHANGED <<logged, result, outcome>>
     \/ Exits(1)
  /\ UNCHANGED scripted

ReadOption ==
  /\ at = "options" /\ todo # <<>>
  /\ todo' = Tail(todo)
  /\ \/ /\ Head(todo).opt = "help" /\ Exits(1) /\ UNCHANGED shell
     \/ /\ Head(todo).opt # "help" /\ shell' = Reads(shell, Head(todo))
        /\ UNCHANGED <<at, logged, result, outcome>>
  /\ UNCHANGED asked

\* Mutant: the requirement follows the first target named
FirstRequirements(sh) ==
  (IF sh.unreal THEN {} ELSE {"!(SMALL_BLOCK&NUMJOBS_GT_100)"})
  \cup (IF <<"onvme">> \in ToSet(sh.words) THEN {} ELSE {"!ONVME_TARGET"})

\* REQS_OPTS, run.sh:132-135
Requirements(sh) ==
  (IF sh.unreal THEN {} ELSE {"!(SMALL_BLOCK&NUMJOBS_GT_100)"})
  \cup (IF sh.env.target = "kernel" THEN {"!ONVME_TARGET"} ELSE {})

\* After the loop; the shared configuration may be missing.
OptionsEnd ==
  /\ at = "options" /\ todo = <<>>
  /\ LET sh == IF shell.parallel THEN Dispatch(shell, "build-parallel", "") ELSE shell
     IN shell' = [sh EXCEPT !.reqs = Requirements(sh)]
  /\ \/ at' = "dispatcher" /\ UNCHANGED <<logged, result, outcome>>
     \/ Exits(1)
  /\ UNCHANGED <<asked, todo>>

-----------------------------------------------------------------------------
(***************************************************************************)
(* The dispatcher and its Tester (external)                                *)
(***************************************************************************)

Logs(entries) == log' = log \o entries /\ UNCHANGED written

\* The last message of the control
Current ==
  log[CHOOSE i \in DOMAIN log :
        /\ log[i].who = "TesterControl"
        /\ \A j \in (i + 1)..Len(log) : log[j].who # "TesterControl"]

\* It does not get to the Tester: log.txt is what it was.
DispatcherFails ==
  /\ at = "dispatcher" /\ at' = "status"
  /\ result' = IF shell.fake THEN 0 ELSE 1
  /\ UNCHANGED <<scripted, logged, outcome>>

TesterStarts ==
  /\ at = "dispatcher" /\ at' = "tester"
  /\ written' = TRUE /\ log' = <<Control("PACKAGE", 0)>>
  /\ UNCHANGED <<scripted, ran, result, outcome>>

\* The prologue is first, and nothing follows one that has not passed.
StartTest(test) ==
  /\ at = "tester" /\ at' = "test" /\ Len(ran) < MaxTests
  /\ ran = <<>> <=> test.name = "prologue"
  /\ ran # <<>> => ran[1].verdict \in {"PASSED", "FAKED"}
  /\ test.onvme => "!ONVME_TARGET" \notin shell.reqs
  /\ Logs(<<TestEntry(Len(ran) + 1, test.name, test.args)>>)
  /\ UNCHANGED <<scripted, ran, result, outcome>>

\* TAPI's report of fio, the figures being those of the test that is running
FioReports ==
  /\ at = "test" /\ ~shell.fake /\ Current.name # "prologue" /\ Last(log) = Current
  /\ \E json \in {<<>>, <<Current.id>>} : Logs(<<FioResult(json)>>)
  /\ UNCHANGED <<at, scripted, ran, result, outcome>>

EndTest ==
  /\ at = "test" /\ at' = "tester"
  /\ \E verdict \in IF shell.fake THEN {"FAKED"} ELSE Verdicts \ {"FAKED"} :
       /\ Logs(<<Control(verdict, Current.id)>>)
       /\ ran' = Append(ran, [test |-> Current, verdict |-> verdict,
                              json |-> IF Last(log) = Current THEN <<>> ELSE Last(log).json])
  /\ UNCHANGED <<scripted, result, outcome>>

\* The package's verdict, and the engine's last word
TesterEnds ==
  /\ at = "tester" /\ at' = "status" /\ ran # <<>>
  /\ \E verdict \in {"PASSED", "FAILED"} : Logs(<<Control(verdict, 0), Text>>)
  /\ result' \in IF shell.fake THEN {0} ELSE {0, 1}
  /\ UNCHANGED <<scripted, ran, outcome>>

\* In the middle of anything.  With --tester-count the status is that of a pipe's end.
TesterDies ==
  /\ at \in {"tester", "test"} /\ at' = "status"
  /\ result' = IF shell.fake THEN 0 ELSE 1
  /\ UNCHANGED <<scripted, logged, outcome>>

-----------------------------------------------------------------------------
(***************************************************************************)
(* The end of the script                                                   *)
(***************************************************************************)

\* run.sh:196-201
CheckStatus ==
  /\ at = "status" /\ at' = "perf"
  /\ saidFail' = (result # 0)
  /\ UNCHANGED <<scripted, logged, result, report, exit>>

\* run.sh:203-215: RESULT is that of the "if", which is 0 when nothing was run in it.
MakeReport ==
  /\ at = "perf" /\ at' = "over"
  /\ \/ /\ ~shell.perf
        /\ result' = 0 /\ UNCHANGED report
     \/ /\ shell.perf
        /\ LET runs == TestRuns(LogEntries(log))
               raised == log = <<>> \/ runs.raised  \* no log.txt: open() raises
           IN /\ result' = IF raised THEN 1 ELSE 0
              /\ report' = IF raised THEN <<>> ELSE <<Performance(runs.runs)>>
  /\ exit' = <<result'>>
  /\ UNCHANGED <<scripted, logged, saidFail>>

ScriptStep == Locate \/ ReadOption \/ OptionsEnd \/ CheckStatus \/ MakeReport

TesterStep ==
  \/ DispatcherFails \/ TesterStarts
  \/ \E test \in Tests : StartTest(test)
  \/ FioReports \/ EndTest \/ TesterEnds \/ TesterDies

Next == ScriptStep \/ TesterStep \/ (at = "over" /\ UNCHANGED vars)

Spec == Init /\ [][Next]_vars

-----------------------------------------------------------------------------

Reportable(r) ==
  /\ r.verdict \in {"PASSED", "FAILED"} /\ r.json # <<>>
  /\ r.test.name \in DOMAIN test_types

\* The report of a test: its own figures, in the table of its own arguments.
Row(perf, test, figures) ==
  \E table \in DOMAIN perf :
    LET type == test_types[test.name]
        rest == Without(test.args, type)
    IN /\ table[1] = type /\ perf[table].fields = [i \in DOMAIN rest |-> rest[i].name]
       /\ table[2] = [i \in DOMAIN rest |-> rest[i].value]
       /\ [value |-> ArgOf(test.args, type), figures |-> figures]
            \in ToSet(perf[table].reports)

\* The Tester came to its end, so that the log did.
Complete == written /\ log # <<>> /\ Last(log) = Text

\* The performance report says what this session measured: each figure in it is of a
\* test that ended with a verdict, listed under that test's own arguments and never
\* under those of a test that logged none or was killed; and when the Tester came to
\* its end, no such test is missing.
ReportsTheSession ==
  report # <<>> /\ written =>
    LET perf == report[1]
        measured == {i \in DOMAIN ran : Reportable(ran[i])}
    IN /\ \A table \in DOMAIN perf : \A k \in DOMAIN perf[table].reports :
            \E i \in measured : /\ perf[table].reports[k].figures = ran[i].json[1]
                                /\ Row(perf, ran[i].test, ran[i].json[1])
       /\ Complete =>
            \A i \in measured : Row(perf, ran[i].test, ran[i].json[1])

LastTarget ==
  LET targets == {i \in DOMAIN asked : asked[i].opt = "target"}
  IN IF targets = {} THEN "kernel"
     ELSE asked[CHOOSE i \in targets : \A j \in targets : j <= i].arg

TagsOf(o) ==
  CASE o.opt \in {"with-aggr", "test-scenario", "target"} -> {o.arg}
    [] o.opt \in {"hdr-digest", "data-digest"} -> {o.opt}
    [] o.opt = "use-null" -> {"nullblock"}
    [] OTHER -> {}

\* Whatever the order of the options, tests for ONVMe targets run exactly when the
\* last target named is not the kernel's, and each option's tag reaches TRC: as a
\* word of its own, unless an aggregation's comes before it and the two are glued.
DispatchedAsAsked ==
  at = "tester" =>
    /\ "!ONVME_TARGET" \in shell.reqs <=> LastTarget = "kernel"
    /\ \A i \in DOMAIN asked : \A tag \in TagsOf(asked[i]) :
         \E w \in DOMAIN shell.words :
           /\ tag \in ToSet(shell.words[w])
           /\ Len(shell.words[w]) > 1 =>
                \E j \in DOMAIN asked : asked[j].opt = "with-aggr"
                                        /\ shell.words[w][1] = asked[j].arg

\* run.sh:199 prints "FAIL" for a dispatcher that failed, and run.sh:215 exits with
\* RESULT: a session that said FAIL does not exit with success.
FailIsReturned == at = "over" /\ saidFail => exit = <<1>>
=============================================================================
