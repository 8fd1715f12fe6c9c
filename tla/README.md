# TLA+ models of cns-nvmeof-ts

cns-nvmeof-ts is a test suite for NVMe-over-TCP initiators and targets, built on
OKTET Labs TE.  Its code is test programs: each brings up a target on one host,
connects an initiator on another, lets fio (or iperf3) work, disturbs something,
and cleans up.  What is hard in it is not computation but *control*: any call
may fail or outlive its time out, the cleanup is entered from anywhere, the
kernel goes on after the program has given up, and the next test inherits what
the last one left behind.  These modules model that control, check it with TLC
and prove the most important parts with TLAPS.

Paths below are relative to the repository; `lib/`, `perf/` and so on are below
`nvmeof-ts/`.

## Inventory

| part | state it keeps | operations | hard behaviour | what makes it correct |
|---|---|---|---|---|
| initiator wrapper, `lib/nvmeof_ts.c:132-193` | `initiator.rpcs`, `disconnect_rpcs`, the server's `def_timeout`; in the kernel, the controller | init, connect, disconnect, fini | a delete that outlives the RPC, retries, one server name shared by all objects of an agent, tests that also disconnect without it | no wrapped disconnect blocks the test's own server; a controller is deleted through two servers at once only where a test has bypassed the wrapper, and is never stranded in deletion |
| test programs, `conf data perf stability` | the target, the link and netem, tools and the pointers to them, the verdict | `main()` and its `cleanup:` | failure at every call, fio hanging on a lost controller, late answers, uninitialised pointers, a division by zero | a passed test leaves the bed clean, a leftover is reported, tools are gone before their device, every test ends |
| tests with many connections, `lib/nvmeof_test.h`, `perf/fio_multi.c`, `stability/fio_multi_stability.c` | lists of initiators, controllers, targets, fios | `TEST_GET_*`, `tsapi_for_each_*`, the loops of `main()` | list order, a set-up that stops half way, one of many disconnects hanging | what was connected is in the lists, each pair is disconnected on its own, a passed test worked on every pair |
| system statistics, `lib/tsapi_sysstat.c` | job and factory per handle, sar | `start_all`, `stop_all` | partial start, partial stop, null jobs, a sar that ignores SIGINT | a passed test leaves no sar, no job, no factory |
| prologue, `prologue.c` | tools tree, files, loaded modules, null block devices | copy, unload, load, nullblk | ordering against kernel dependencies, rmmod whose failure is ignored, handles of deleted instances | the session runs the modules it was asked to test |
| nvmecmd loop, `conf/nvmecmd.c` | two static counters, a vector of artifacts | one nvme-cli command per turn | independent counters over many turns, empty selection | commands and features are tried evenly, artifacts reported once |
| options, `lib/tsapi_opts.c`, `lib/nvmeof_ts.c:20-130` | parameters of a run, settings of agents; interfaces | read, apply | values copied from the wrong option (`:227`), parameters under another name (`:152`), settings written one by one | what a test measures is what its run asked for |
| session script, `scripts/run.sh` | its variables, `RESULT` | the option loop, dispatch, report | options in any order, exit status overwritten (`:207`), a log of the session before | what was asked is what is dispatched; a failed session fails |
| performance report, `scripts/perf.py` | entries of the test being read, tables | one pass over the log | tests killed, cut logs, results without a verdict | a figure is listed under the test that measured it |
| session: `package.xml`, `conf/*` | environments, order of packages | | | prologue before tests |
| expected results: `conf/trc` | data | | | |
| outside: TE, RCF, Configurator, TAPI, kernel, fio, iperf3, sar | | | | modelled by the outcomes their callers distinguish |

They interact by calls and through the bed: the test programs call the wrapper,
the target and tool APIs; the wrapper moves an object between two RPC servers;
a timed out call blocks a server, and through it the tools controlled on that
server; the kernel moves controllers, and tools lose their devices with them.
The session script and the report meet the tests only through TE: by the
requirements and tags handed to the dispatcher, and by the log.

## Modules

* `NvmeInitiator` - the wrapper.  Each `tsapi_nvme_initiator` is an element of
  `Initiators`; `rpcs`, `disc`, `dev` are its fields, `rc` the result of its
  last disconnect, `alive`, `deftimeout`, `pending` the RPC servers, `ctrl` the
  kernel's controllers.  `DisconnectOk`/`DisconnectFailed` are the two ways
  through `tsapi_nvme_initiator_disconnect`: both set the five minutes, only
  the first puts `rpcs` back.  `DirectDisconnect` is a disconnect without the
  wrapper, which only the objects in `RawUsers` see: in
  `stability/fio_disconnparallel.c:79` the test makes it on its own server, and the
  cleanup tries again with the wrapper.  When the first timed out, two servers then
  delete one controller, and `LateAnswer` is the answer of one of them: it ends
  the controller, or gives way to the other.  How long a delete takes is
  chosen from `quick` (within the default time out), `slow` (within five minutes) and
  `stuck`.
* `Tools` - fio and iperf3: the outcomes of the calls that start, wait for, stop
  and destroy them, and what their processes do meanwhile.  It extends
  `NvmeInitiator`, for a tool works on the device of an object and is reached
  through one of the servers; both kinds of tests are built on it.
* `TestRun` - one run of a test program with one connection or two.  A program is a script: a sequence of
  steps for the body and one for the cleanup, each step naming the call, its
  object and whether its result is checked.  `Goes` is the control flow of
  `CHECK_RC`, `CLEANUP_CHECK_RC` and unchecked calls; there is one action per
  kind of call, composed with the actions of `NvmeInitiator`; `KernelStep`
  and `AppExits` are what the bed does between any two of them.
* `TestScripts` - the programs, translated call by call.  Calls that only read
  parameters, apply interface options or report are one step that may fail.
  Loops over `repeat`, `period` are unrolled `Repeat` times.  The command loop of
  `conf/nvmecmd.c` is the step `commands`, which may also kill the test
  (`DivisionStep`): with no command selected it takes an index modulo zero (`:274`),
  while fio runs and the controller is connected.
* `TestContract` - the abstract specification of a test: it may dirty the bed
  while it runs, closes clean if it passes, and dirties nothing afterwards.
  `TestRun` implements it under the mapping in `Contract`.
* `MultiTest` - the tests with many connections.  `all_initiators`,
  `all_targets`, `host_ctrls` and `all_fios` are the lists, filled at the head;
  `stage` and `todo` are the loop being executed and what is left of it.  There
  is an initiator object of `NvmeInitiator` for each pair, without a disconnect
  server.  It implements `TestContract` too, with a weaker promise: what a passed
  test leaves are controllers whose disconnect failed.
* `Interfaces` - MTU, offloads and netem of the interfaces, as runs of single
  writes any of which may fail.  Used by `MultiTest` and `FioSimple`.
* `Options` - the readers of `lib/tsapi_opts.c` and `lib/nvmeof_ts.c` as
  operators on parameters and agents: each is the set of the values it may
  return, empty where it ends the test.
* `Sysstat` - `start_all` and `stop_all`, a step per call of TAPI.
* `FioSimple` - `perf/fio_simple.c` composed of `Sysstat`, `Options` and
  `Interfaces`: `used` collects what has been handed to the target, the
  connection and fio.  Each call that is one step in `TestScripts` and is said
  there to read or to apply is taken apart here; conversely what the test does to
  the kernel, and its cleanup behind `stop_all`, are in `TestRun` only.
* `Prologue` - the plan of calls of `main()`, computed from the environment
  (`SF_TOOLS_COPY`, `SF_TOOLS`, `SF_MODULES_LOAD`), each a loop over agents.
  `Residents` are the modules an earlier session or the system may have loaded on an
  agent.  `Unload` ignores what became of rmmod (`prologue.c:203`): besides the
  refusal of a module that others need, any rmmod may fail, because the module is in
  use or the call of the agent failed; the history `kept` remembers which did.
* `NvmeCmd` - the command loop; the program around it is the script `Nvmecmd`.
* `PerfReport` - `scripts/perf.py` as a function of the log: its generators are
  the sequences they yield, `Turn` is one turn of the loop of `test_runs`.
* `Session` - `scripts/run.sh`: the option loop, the dispatcher with its Tester
  (external: it writes the log, and may fail or die anywhere), the report of
  `PerfReport` and the exit status.  `TRC_TAGS` is a sequence of words, each the
  tags that touch, with a flag that says whether a space ends it.
* `Filters` and `Settings` - two loops of the code as recursive functions on
  sequences: going through a table and appending what was asked for (`Prologue`,
  `NvmeCmd`), and a row of settings written one by one, any of which may fail
  (`Interfaces`).
* `MCNvmeInitiator`, `MCTestRun`, `MCMultiTest`, `MCFioSimple`, `MCPrologue`,
  `MCNvmeCmd`, `MCSession` give the constants values for TLC.
* `NvmeInitiatorProofs`, `TestRunProofs`, `MultiTestProofs`, `FioSimpleProofs`,
  `PrologueProofs`, `NvmeCmdProofs`, `SessionProofs` hold the proofs, one module for
  each specification with a run; `CommonLemmas` what several of them need.

Some definitions are commented as mutants: wrong versions of the one below
them, used by no specification, that show that a property can fail.

### What is assumed of the outside

* An RPC server whose call timed out answers nothing until the late answer
  arrived (this is what "Initiator with custom disconnect RPC server",
  `lib/nvmeof_test.h:312`, is for).  Servers forked from it are not affected.
* Disconnecting an object that is not connected does nothing and returns 0, as
  every cleanup of the suite relies on.
* A connect that fails may have left no controller, one the object knows of, or
  one it does not.
* `tapi_fio_stop` and `tapi_fio_destroy` kill the process if its server
  answers; a destroyed pointer dangles.
* A controller is lost only while its target or link is down or netem impairs
  the link; it may recover, or be removed after `ctrl_loss_tmo`.
* fio on a removed device ends or fails; fio on a lost controller hangs.
* Following a wild or null pointer kills the process or, for memory that
  happens to hold zeros, does nothing.
* insmod needs the file and all the module depends on, and fails for a module that
  is loaded; rmmod is refused while something loaded depends on the module, and may
  fail for any other reason.
* `tapi_env_foreach_if` goes over the interfaces of the environment in some fixed
  order and does not return when its callback has ended the test.
* The Tester runs a test at a time, logs its start with the arguments and its
  verdict under the same id, and runs the prologue first; after one that failed
  it runs nothing.  A fake run (`--tester-count`) ends each test with a verdict
  of its own and runs no fio.
* TE restores the configuration (link, netem) after a test, so they are not
  part of what a test leaves behind.

## Runs

| run | question | bounds |
|---|---|---|
| `initiator_shared` | is the test's server spared, when is a delete in flight twice, is one ever stranded, and do five minutes suffice? | three objects, one root and one disconnect server shared: one that is also disconnected without the wrapper, with deletes of every duration; one that is not, with `quick` and `stuck` ones, against which the first can be told; and one with no `stuck` deletes, so that patience can be seen; calls in any order without limit |
| `initiator_back` | violated: is the object given back its server? | as the first |
| `tests_all` | programs with one connection or two: verdict and leftovers, tools before devices, where they may die, end, contract | `Repeat` = 2: the second turn of a loop starts from what the first left; two dups |
| `fio_simple_wipe` | violated: does the cleanup get to wiping the target? | one script |
| `multi` | lists, loops, interfaces, disconnects that hang, end, contract | `MaxHosts` = 2, every shape up to 2x2 for `fio_multi`, 2x1 and 1x2 with netem before and after for the stability test, so that a list has a first and a last element and a loop an inner and an outer one; deletes are `quick` or `stuck`, which `slow` is too at the default time out these tests keep |
| `fio_simple` | leftovers of sar, null jobs, end; parameters and links | two handles as in the code; eight sets of parameters, from the runs of `perf/package.xml`, one of which has lost a parameter; targets of both kinds, one without devices, one without a type; digests fixed, random and unreadable |
| `fio_simple_tso` | violated: are the TSO features what was asked? | as `fio_simple` |
| `prologue` | order and result of (un)loading | an iut and a tst agent as in `conf/cs.conf.tools`; every set of old modules closed under dependencies, nvme-core on the target's agent among them, whose nvmet needs it here; any rmmod may fail; the options `run.sh` can produce |
| `prologue_empty` | violated: is an entry without a file skipped? | `--sf-load` with `--sf-tools` |
| `nvmecmd` | evenness, artifacts | three commands, three features, eight turns: each table is gone through twice and begun again |
| `session` | what is dispatched, what is reported | eight command lines: targets named twice, tags in every order around an aggregation, a fake run, `--help`, modules loaded or copied; the prologue and two tests, of which two kinds are listed by one argument and one by another: the smallest log in which a result can be taken for its neighbour's, in its own table or another; an old log or none |
| `session_exit` | violated: does a session that said FAIL fail? | as `session` |

Unbounded counters: none but `pc`, which the scripts bound, the histories of
`NvmeCmd`, bounded by `Repeats`, and the log of `Session`, bounded by `MaxTests`.

Every pass run checks deadlock; programs that are over stutter.

### Fairness

`TestRun`, `MultiTest` and `FioSimple` assume `WF_vars(TestStep)`: the program takes its next
step, because every call of TE ends in an answer or a time out.  Nothing is
assumed of the kernel, of late answers, fio, iperf3 or sar, so `EventuallyOver`
says that a test ends however the bed hangs.

### What the violated runs show

* `initiator_back`: the early return at `lib/nvmeof_ts.c:179` skips "Back state
  of initiator" (`:181`); the object stays on the disconnect server, and a
  successful retry saves and restores that one.  Harmless in cleanups, which
  end there, and proved so: `RootIsSpared`.
* `fio_simple_wipe`: `fio` is uninitialised (`perf/fio_simple.c:50`) until line
  103, and the cleanup follows it (`:126`) before it wipes the target.
  `data/fio_pattern.c` and `stability/fio_parallel_traffic.c` share the flaw.
* `prologue_empty`: `load_module` deletes an entry without a value and goes on
  with its handle (`prologue.c:253-256`); the entry is that of libcrc32c, the
  one module that "can fail" (`:279`), as `conf/cs.conf.tools` lists it.  With
  plain `--sf-load` copying has already deleted it, with `--sf-tools` not.
* `fio_simple_tso`: the loop over the TSO features writes `opts->lro`
  (`lib/tsapi_opts.c:227`), so that a run with TSO on and LRO off, the default of
  `perf/package.xml:27`, measures without TSO.
* `session_exit`: `RESULT=$?` at `scripts/run.sh:207` takes the status of the
  `if` before it, 0 without `--with-perf`, instead of the dispatcher's.

Seen while modelling, and not a run: `onvme_max_worker_conn` and `numa-local` of
`perf/package.xml:179-187` change nothing (`lib/tsapi_opts.c:152`, `:163`), the
parameter `nqn` is overwritten (`:134`), the multi tests ignore the result of
their disconnects (`perf/fio_multi.c:153`, a weaker promise than that of the
other tests and stated as such by `MultiTest.Dirty`), the target of
`stability/onvme_kill.c:111` is killed when fio's run time is over, a tag behind
an aggregation's is glued to it (`scripts/run.sh:89`), `log.txt` is not
removed as `perf.txt` is (`:193`), and `conf/nvmecmd.c:274` divides by the number of
selected commands, which may be zero.

Two comments say something else than the code does, and the models follow the code.
`lib/tsapi_opts.h:26` calls the netem delay "Delay on interface in usec"; it is read from
`if_delay_msec` (`:92`) and converted with `TE_MS2US` (`lib/tsapi_opts.c:248`), so it
holds milliseconds, and `NetemAllOrNothing` says that what is converted reaches the link.
`lib/tsapi_opts.c:49` says that a shuffled block size "Randomizes from 512 to 512 * 7 =
4k"; the code adds 512 to 512 * 6 to the size that was asked for, and `MeasuresAsAsked`
says no more than that the result is another whole number of sectors.

## Proofs

Every safety property a run checks is a theorem, for all values of the constants
that satisfy the assumptions below; so are the two refinements of `TestContract`.
What follows is the argument of each module: the inductive invariant and why it is
needed.

* `NvmeInitiatorProofs`: the inductive invariant `NIInv` adds to the four safety
  properties *Pointers* (an object's server is its root or its disconnect server,
  and the latter only once it was created) and *Blocked*: a server with an
  unanswered disconnect is the one the wrapper would choose for that object again, or
  the own server of an object in `RawUsers`.  Creating `disconnect_rpcs` is the only
  step that changes that choice, and it needs an answer from the object's own server.
  `RootSpared` and `TwiceOnlyAfterRaw` follow from *Blocked*; `DeletingInFlight` and
  `PatienceSuffices` are part of the invariant.
* `TestRunProofs`, for *every* set of scripts laid out as the assumptions say.
  `RunInv` follows a controller through the program: one nobody knows of means a
  failed test (*NoOrphan*), the body connects only what its script says
  (*OnlyConnected*), and a disconnect the cleanup is past has released the object or
  reported an error (*Released*, *Ended*).  `ToolInv` follows tools and servers: a
  tool that runs is one whose creation the body is past and whose destruction is
  still ahead in the cleanup (*ToolsHeld*, *ToolsEnd*), and a server is blocked by
  a disconnect without the wrapper only where the script has one.  `PointerInv` says
  which pointers are filled in up to `pc`, so that no step follows a wild or null one
  once the bed has been touched, and only the division of the command loop can kill a
  test from then on.  `ContractKept` maps each step to one of `TestContract` or to a
  stutter: closing needs `RunInv` (what is left means a failure), and that nothing is
  dirtied afterwards needs that no action but `Connect` brings up a controller.
* `MultiTestProofs`, for any number of hosts and any parameters.  A loop is a walk
  through a list, `todo` being a suffix of it.  `MultiInv` is the conjunction of what
  the lists hold (*ListInv*: distinct elements, pairs of listed hosts), what is left
  of the loop under way (*TodoInv*), the servers (*ServerInv*: each pair has its own,
  blocked only behind its disconnect), the controllers (*CtrlInv*: each is listed,
  and in the cleanup is still to be tried or was tried in vain), what the loops of
  the body have done (*ProgressInv*), the settings of the interfaces (*ConfInv*:
  what a loop is past is applied completely) and the targets (*TgtInv*).
  The lemmas `...Properties` of `CommonLemmas` say what a run of writes leaves behind
  when it is cut at any of them.  `Phase` is what the contract sees of `stage`.
* `FioSimpleProofs`: the stop loop follows `job` pointers that only the start loop
  explains.  `StatInv` adds what the start loop has done of the handles
  (*StartedInOrder*), what the stop loop has (*ReleasedInOrder*), and between the two
  that a null job has no process and nothing behind it (*NullIsUnstarted*).
  `MeasuresInv` and `LinkInv` say the same of what is handed on: each thing in
  `used` is what its reader returns of the parameters of this run, and the interfaces
  the loop has been over have the MTU that was asked for and, in every offload, the LRO.
  So the two ends agree in all of them, although TSO is not what was asked.
* `PrologueProofs`: the plan is a sequence of loops computed from the environment;
  lemmas show in which part of it each kind of call may be and in which order modules
  occur.  `PlanInv` then says of every entry of the plan the program counter is
  past what it has achieved on every agent (*DutiesDone*), and that an agent's list
  never holds modules of both stacks (*Sided*).  Unloading from the top
  and loading from the bottom of the stacks follow from where the entries are: what
  needs a module is past its own rmmod when that module's comes, so that a refused
  rmmod always has one behind it that failed, or a module that the agent
  does not list.
* `NvmeCmdProofs`: `RoundInv` relates the two static indices to the histories: with
  index k in a table of n, the first k entries have been used once more than the
  rest (*CommandRounds*, *FeatureRounds*).  The step from n - 1 to 0 is the
  arithmetic of remainders in `CommonLemmas`.
* `SessionProofs`: `OptionInv` says of the options read so far that the last target
  among them is the shell's and that each tag is among the words (*TargetInv*,
  *WordsInv*: a word of two tags begins with an aggregation's).  For the report, the
  recursions of `PerfReport` are shown to take one turn more for one entry more.
  `LogInv` relates the log to what ran: the runs the script would yield of it, with or
  without its last entry, are runs of tests that ended with a verdict, carrying what
  those tests said; none is missing while the Tester runs or when its last word was
  logged; and a test that is running is the one whose entries are gathered.  The rest
  is about tables: what a report holds after n runs (*Sound*, *Whole*).

### What the proofs assume of the constants

TLC evaluates each of these on the constants of its runs.

| assumption | what it says | where the code promises it |
|---|---|---|
| `ServerAssumption` | own servers are not disconnect servers | names at `lib/nvmeof_ts.c:132-193` |
| `TestAssumption` | steps, targets and handles of scripts are of their kinds | |
| `CleanupAssumption`, `BodyAssumption`, `RawAssumption` | the cleanup undoes what the body does, a tool before its device, wipes a target last; connects are checked; raw disconnects are checked | the programs, all of which `TestScripts` holds |
| `RawUserAssumption`, `RawStepsAssumption` | `RawUsers` are objects, and the scripts disconnect no other without the wrapper | `conf/connect.c`, `stability/fio_disconnparallel.c` |
| `PointerAssumption` | a test without wild pointers fills them in before it touches the bed | the same; those that do not are named by their script's `wild` |
| `MultiAssumption` | every pair has an object, a server and a tool, every host an interface | `lib/nvmeof_test.h` |
| `CountAssumption`, `FioSimpleAssumption` | there are handles and waits; each side has an interface of its own | `lib/tsapi_sysstat.c`, `perf/fio_simple.c` |
| `AskedAssumption` | block sizes are whole sectors, jobs are numbers, and so on | the values in `perf/package.xml` |
| `PrologueAssumption`, `ListingAssumption`, `NeedsAssumption` | every module but libcrc32c is listed with a file or not at all, and an agent lists the modules of an initiator or those of a target; a module needs none but those below it in its stack, nvmet and nvmet-tcp nvme-core too (target passthrough) | `conf/cs.conf.tools`; the kernel's modules |
| `CommandAssumption` | commands are distinct and there are features | the tables of `conf/nvmecmd.c` |
| `SessionAssumption` | targets are `kernel` or `onvme`; a listed test has the argument it is listed by, and tests of one table have the same other arguments | the usage of `scripts/run.sh`; `perf/package.xml`, whose listed tests all have `iodepth` and `numjobs` from the session and differ in the number of the others |

`ListingAssumption` leaves libcrc32c out: its empty entry is what the run
`prologue_empty` is about.  So does `NeedsAssumption`, for the prologue never unloads it
(`prologue.c:221`) and lets its load fail (`:279`); a module that needs it is then
refused by insmod, which fails the prologue.

### What is not proved

* `EventuallyOver` of `TestRun`, `MultiTest` and `FioSimple` is liveness under
  fairness and stays with TLC.
* The library's induction theorems take an operator as a parameter, which the provers
  here cannot instantiate.  `SetInduction` of `CommonLemmas` takes a set instead: enough
  for what a recursive *function* returns (`Kept`, `AfterCalls`, the walks of
  `SessionProofs`), and the reason why the models use such functions rather than
  `RECURSIVE` operators.
* The properties of the violated runs are false.

## Not modelled

The spelling of names, prefixes and paths; fd limits; what fio and sar print and
the layout of `perf.txt`; the exceptions `perf.py` raises on a malformed or short fio
result (`KeyError` in `process_fio_result`, `IndexError` when the tables are printed), after
which it writes no report or a part of one; `deploy.sh` (builds tools) and the scripts that only
call TE's; the iterations of the package files but for the sets of parameters
named above; `TE_TSTx_TGT_TYPE`, which lets a host differ from the session's
target; TRC data, documentation and build files; the `#if 0` parts.

## Plan

1. Done: the models of all parts above but those listed under "Not modelled".
2. Done: every safety property of the passing runs and both refinements proved.
3. Left: shorter proofs of `MultiTestProofs` and `SessionProofs`, whose lemmas on
   sequences could move to `CommonLemmas`; that the reports in a table of `Session`
   are in the order of the tests; that the plan of `Prologue` leaves alone what it
   was not asked to load.
