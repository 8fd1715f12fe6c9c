--------------------------- MODULE FioSimpleProofs ---------------------------
(***************************************************************************)
(* What the statistics of a test leave behind, for any number of handles   *)
(* and any bound on the waits; and what of a run's parameters reaches fio  *)
(* and the link, for any parameters and agents.                            *)
(***************************************************************************)
EXTENDS FioSimple, CommonLemmas

Fresh(k) == job[k] = "null" /\ sar[k] = "none" /\ factory[k] = "null"
Released(k) == job[k] = "null" /\ sar[k] = "ended" /\ factory[k] = "freed"

Positions == {"params"} \cup Body \cup Starting \cup Stopping \cup Ends

\* Nothing is started before the first handle's turn, ...
AllFresh == at = "params" => h = 1 /\ \A k \in Handles : Fresh(k)

\* ... the handles before the one being started have their jobs, this one has its
\* own once it was created, and those behind it have nothing, ...
StartedInOrder ==
  at \in Starting =>
    /\ \A k \in Handles : k < h => job[k] = "set"
    /\ \A k \in Handles : h < k => Fresh(k)
    /\ at \in {"factory", "job"} => job[h] = "null"
    /\ at \in {"filters", "start"} => job[h] = "set"

\* ... and until a handle is stopped it has no job only if its start and all later
\* ones came to nothing.
NullIsUnstarted ==
  \A k \in Handles :
    at \notin Ends /\ (at \in Stopping => h <= k) /\ job[k] = "null" =>
      sar[k] = "none" /\ \A m \in Handles : k < m => Fresh(m)

\* The handles before the one being stopped have been released, and this one has a
\* job once it was killed.
ReleasedInOrder ==
  /\ at \in Stopping => \A k \in Handles : k < h => Released(k)
  /\ at \in {"wait", "destroy", "release"} => job[h] = "set"
  /\ at = "release" => sar[h] = "ended"

WaitsLeft == at = "wait" => attempts < MaxAttempts

StatInv ==
  /\ at \in Positions /\ StatTypeOK
  /\ AllFresh /\ StartedInOrder /\ NullIsUnstarted /\ ReleasedInOrder /\ WaitsLeft
  /\ PassedLeavesNothing /\ CrashOnlyUnstarted

-----------------------------------------------------------------------------

LEMMA StatInit_StatInv == Init => StatInv
BY CountAssumption
   DEF Init, StatInit, StatInv, Positions, StatTypeOK, AllFresh, StartedInOrder,
       NullIsUnstarted, ReleasedInOrder, WaitsLeft, PassedLeavesNothing,
       CrashOnlyUnstarted, Handles, Fresh, Starting, Stopping, Ends

USE DEF Positions, Body, Starting, Stopping, Ends, Handles, Fresh, Released

\* What the body of the test, before and after the start, leaves alone and where it
\* goes: on in the body, to the first handle's start, or to the cleanup.
LEMMA BodyStep ==
  ASSUME StatInv, UNCHANGED <<job, factory, sar, attempts>>,
         at \in {"params"} \cup Body,
         \/ at \in Body /\ at' \in Body /\ h' = h /\ verdict' = verdict
         \/ at = "params" /\ at' = "factory" /\ h' = h /\ verdict' = verdict
         \/ at' = "kill" /\ h' = 1 /\ verdict' \in {"pass", "fail"}
  PROVE  StatInv'
<1>1. at' \in Positions /\ StatTypeOK'
  BY CountAssumption DEF StatInv, StatTypeOK
<1>2. AllFresh' /\ ReleasedInOrder' /\ WaitsLeft'
  BY CountAssumption DEF StatInv, AllFresh, ReleasedInOrder, WaitsLeft
<1>3. StartedInOrder'
  BY CountAssumption DEF StatInv, AllFresh, StartedInOrder
<1>4. NullIsUnstarted'
  BY CountAssumption DEF StatInv, StatTypeOK, NullIsUnstarted
<1>5. PassedLeavesNothing' /\ CrashOnlyUnstarted'
  BY DEF PassedLeavesNothing, CrashOnlyUnstarted
<1>6. QED  BY <1>1, <1>2, <1>3, <1>4, <1>5 DEF StatInv

-----------------------------------------------------------------------------
(***************************************************************************)
(* Starting: a failure leaves the handle at hand half made, and all behind *)
(* it untouched.                                                           *)
(***************************************************************************)

LEMMA CreateFactoryStep == StatInv /\ CreateFactory => StatInv'
<1> SUFFICES ASSUME StatInv, CreateFactory PROVE StatInv'
  OBVIOUS
<1> USE CountAssumption DEF StatInv, StatTypeOK, CreateFactory, GoTo, Fails
<1>1. at' \in Positions /\ StatTypeOK'
  OBVIOUS
<1>2. AllFresh' /\ ReleasedInOrder' /\ WaitsLeft'
  BY DEF AllFresh, ReleasedInOrder, WaitsLeft
<1>3. StartedInOrder'
  BY DEF StartedInOrder
<1>4. NullIsUnstarted'
  <2>1. job[h] = "null" /\ \A k \in Handles : k < h => job[k] = "set"
    BY DEF StartedInOrder
  <2>2. QED
    BY <2>1 DEF NullIsUnstarted
<1>5. PassedLeavesNothing' /\ CrashOnlyUnstarted'
  BY DEF PassedLeavesNothing, CrashOnlyUnstarted
<1>6. QED  BY <1>1, <1>2, <1>3, <1>4, <1>5

LEMMA CreateJobStep == StatInv /\ CreateJob => StatInv'
<1> SUFFICES ASSUME StatInv, CreateJob PROVE StatInv'
  OBVIOUS
<1> USE CountAssumption DEF StatInv, StatTypeOK, CreateJob, GoTo, Fails, Crash
<1>1. at' \in Positions /\ StatTypeOK'
  OBVIOUS
<1>2. AllFresh' /\ ReleasedInOrder' /\ WaitsLeft'
  BY DEF AllFresh, ReleasedInOrder, WaitsLeft
<1>3. StartedInOrder'
  BY DEF StartedInOrder
<1>4. /\ job[h] = "null" /\ sar[h] = "none"
      /\ \A m \in Handles : h < m => Fresh(m)
  BY DEF StartedInOrder, NullIsUnstarted
<1>5. NullIsUnstarted'
  BY <1>4 DEF NullIsUnstarted, StartedInOrder
<1>6. PassedLeavesNothing' /\ CrashOnlyUnstarted'
  BY <1>4 DEF PassedLeavesNothing, CrashOnlyUnstarted
<1>7. QED  BY <1>1, <1>2, <1>3, <1>5, <1>6

LEMMA AttachFiltersStep == StatInv /\ AttachFilters => StatInv'
<1> SUFFICES ASSUME StatInv, AttachFilters PROVE StatInv'
  OBVIOUS
<1> USE CountAssumption DEF StatInv, StatTypeOK, AttachFilters, handles, GoTo, Fails
<1>1. at' \in Positions /\ StatTypeOK'
  OBVIOUS
<1>2. AllFresh' /\ ReleasedInOrder' /\ WaitsLeft'
  BY DEF AllFresh, ReleasedInOrder, WaitsLeft
<1>3. StartedInOrder' /\ NullIsUnstarted'
  BY DEF StartedInOrder, NullIsUnstarted
<1>4. PassedLeavesNothing' /\ CrashOnlyUnstarted'
  BY DEF PassedLeavesNothing, CrashOnlyUnstarted
<1>5. QED  BY <1>1, <1>2, <1>3, <1>4

LEMMA StartJobStep == StatInv /\ StartJob => StatInv'
<1> SUFFICES ASSUME StatInv, StartJob PROVE StatInv'
  OBVIOUS
<1> USE CountAssumption DEF StatInv, StatTypeOK, StartJob, GoTo, Fails
<1>1. at' \in Positions /\ StatTypeOK'
  OBVIOUS
<1>2. AllFresh' /\ ReleasedInOrder' /\ WaitsLeft'
  BY DEF AllFresh, ReleasedInOrder, WaitsLeft
<1>3. \A k \in Handles : k <= h => job[k] = "set"
  BY DEF StartedInOrder
<1>4. StartedInOrder'
  <2>1. CASE at' = "factory"
    <3>1. h + 1 \in Handles /\ Fresh(h + 1)
      BY <2>1 DEF StartedInOrder
    <3>2. /\ \A k \in Handles : k < h + 1 => k <= h
          /\ \A k \in Handles : h + 1 < k => h < k
      OBVIOUS
    <3>3. QED
      BY <1>3, <2>1, <3>1, <3>2 DEF StartedInOrder
  <2>2. CASE at' # "factory"
    BY <2>2 DEF StartedInOrder
  <2>3. QED  BY <2>1, <2>2
<1>5. NullIsUnstarted'
  BY <1>3 DEF NullIsUnstarted
<1>6. PassedLeavesNothing' /\ CrashOnlyUnstarted'
  BY DEF PassedLeavesNothing, CrashOnlyUnstarted
<1>7. QED  BY <1>1, <1>2, <1>4, <1>5, <1>6

-----------------------------------------------------------------------------
(***************************************************************************)
(* Stopping: a failure fails the test, and each turn leaves its handle     *)
(* released and goes on to the next.                                       *)
(***************************************************************************)

LEMMA KillStep == StatInv /\ Kill => StatInv'
<1> SUFFICES ASSUME StatInv, Kill PROVE StatInv'
  OBVIOUS
<1> USE CountAssumption DEF StatInv, StatTypeOK, Kill, GoTo, StopFails, Crash
<1>1. at' \in Positions /\ StatTypeOK'
  OBVIOUS
<1>2. AllFresh' /\ StartedInOrder' /\ WaitsLeft'
  BY DEF AllFresh, StartedInOrder, WaitsLeft
<1>3. ReleasedInOrder'
  BY DEF ReleasedInOrder
<1>4. NullIsUnstarted'
  BY DEF NullIsUnstarted
<1>5. PassedLeavesNothing' /\ CrashOnlyUnstarted'
  BY DEF PassedLeavesNothing, CrashOnlyUnstarted, NullIsUnstarted
<1>6. QED  BY <1>1, <1>2, <1>3, <1>4, <1>5

LEMMA WaitStep == StatInv /\ Wait => StatInv'
<1> SUFFICES ASSUME StatInv, Wait PROVE StatInv'
  OBVIOUS
<1> USE CountAssumption DEF StatInv, StatTypeOK, Wait, handles, GoTo, StopFails
<1>1. at' \in Positions /\ StatTypeOK' /\ WaitsLeft'
  BY DEF WaitsLeft
<1>2. AllFresh' /\ StartedInOrder'
  BY DEF AllFresh, StartedInOrder
<1>3. ReleasedInOrder' /\ NullIsUnstarted'
  BY DEF ReleasedInOrder, NullIsUnstarted
<1>4. PassedLeavesNothing' /\ CrashOnlyUnstarted'
  BY DEF PassedLeavesNothing, CrashOnlyUnstarted
<1>5. QED  BY <1>1, <1>2, <1>3, <1>4

LEMMA DestroyStep == StatInv /\ Destroy => StatInv'
<1> SUFFICES ASSUME StatInv, Destroy PROVE StatInv'
  OBVIOUS
<1> USE CountAssumption DEF StatInv, StatTypeOK, Destroy, GoTo, StopFails
<1>1. at' \in Positions /\ StatTypeOK' /\ WaitsLeft'
  BY DEF WaitsLeft
<1>2. AllFresh' /\ StartedInOrder'
  BY DEF AllFresh, StartedInOrder
<1>3. ReleasedInOrder'
  BY DEF ReleasedInOrder
<1>4. NullIsUnstarted'
  BY DEF NullIsUnstarted, ReleasedInOrder
<1>5. PassedLeavesNothing' /\ CrashOnlyUnstarted'
  BY DEF PassedLeavesNothing, CrashOnlyUnstarted
<1>6. QED  BY <1>1, <1>2, <1>3, <1>4, <1>5

LEMMA ReleaseStep == StatInv /\ Release => StatInv'
<1> SUFFICES ASSUME StatInv, Release PROVE StatInv'
  OBVIOUS
<1> USE CountAssumption DEF StatInv, StatTypeOK, Release
<1>1. at' \in Positions /\ StatTypeOK' /\ WaitsLeft'
  BY DEF WaitsLeft
<1>2. AllFresh' /\ StartedInOrder'
  BY DEF AllFresh, StartedInOrder
<1>3. \A k \in Handles :
        k <= h => job'[k] = "null" /\ sar'[k] = "ended" /\ factory'[k] = "freed"
  BY DEF ReleasedInOrder
<1>4. ReleasedInOrder'
  BY <1>3 DEF ReleasedInOrder
<1>5. NullIsUnstarted'
  BY DEF NullIsUnstarted
<1>6. PassedLeavesNothing' /\ CrashOnlyUnstarted'
  BY <1>3 DEF PassedLeavesNothing, CrashOnlyUnstarted
<1>7. QED  BY <1>1, <1>2, <1>4, <1>5, <1>6

\* A handle without a job has no process that could end, but for the released ones,
\* whose process has ended.
LEMMA SarExitsStep ==
  ASSUME StatInv, NEW k \in Handles, SarExits(k) PROVE StatInv'
<1> USE CountAssumption DEF StatInv, StatTypeOK, SarExits
<1>1. at' \in Positions /\ StatTypeOK' /\ WaitsLeft'
  BY DEF WaitsLeft
<1>2. AllFresh' /\ StartedInOrder'
  BY DEF AllFresh, StartedInOrder
<1>3. ReleasedInOrder'
  BY DEF ReleasedInOrder
<1>4. NullIsUnstarted'
  BY DEF NullIsUnstarted
<1>5. PassedLeavesNothing' /\ CrashOnlyUnstarted'
  BY DEF PassedLeavesNothing, CrashOnlyUnstarted
<1>6. QED  BY <1>1, <1>2, <1>3, <1>4, <1>5

-----------------------------------------------------------------------------
(***************************************************************************)
(* The test around them                                                    *)
(***************************************************************************)

LEMMA TestBodyStep ==
  /\ StatInv
  /\ \/ GetTarget \/ SetupTarget \/ Connect \/ ReadFeatures \/ ApplyFeatures
     \/ StartFio \/ Work
  => StatInv'
<1> SUFFICES ASSUME StatInv,
                    \/ GetTarget \/ SetupTarget \/ Connect \/ ReadFeatures
                    \/ ApplyFeatures \/ StartFio \/ Work
             PROVE  StatInv'
  OBVIOUS
<1>1. verdict \in {"pass", "fail"}
  BY DEF StatInv, StatTypeOK
<1>2. UNCHANGED <<job, factory, sar, attempts>>
  BY DEF GetTarget, SetupTarget, Connect, ReadFeatures, ApplyFeatures, StartFio, Work,
         statistics
<1>3. CASE GetTarget
  BY <1>1, <1>2, <1>3, BodyStep DEF GetTarget, GoTo, Fails
<1>4. CASE SetupTarget
  BY <1>1, <1>2, <1>4, BodyStep DEF SetupTarget, GoTo, Fails
<1>5. CASE Connect
  BY <1>1, <1>2, <1>5, BodyStep DEF Connect, GoTo, Fails
<1>6. CASE ReadFeatures
  BY <1>1, <1>2, <1>6, BodyStep DEF ReadFeatures, GoTo, Fails
<1>7. CASE ApplyFeatures
  BY <1>1, <1>2, <1>7, BodyStep DEF ApplyFeatures, GoTo, Fails
<1>8. CASE StartFio
  BY <1>1, <1>2, <1>8, BodyStep DEF StartFio, GoTo, Fails
<1>9. CASE Work
  BY <1>1, <1>2, <1>9, BodyStep DEF Work
<1>10. QED
  BY <1>3, <1>4, <1>5, <1>6, <1>7, <1>8, <1>9

LEMMA StatNext == StatInv /\ [Next]_vars => StatInv'
<1> SUFFICES ASSUME StatInv, [Next]_vars PROVE StatInv'
  OBVIOUS
<1>1. CASE SysstatStep
  BY <1>1, CreateFactoryStep, CreateJobStep, AttachFiltersStep, StartJobStep,
     KillStep, WaitStep, DestroyStep, ReleaseStep DEF SysstatStep
<1>2. CASE \/ GetTarget \/ SetupTarget \/ Connect \/ ReadFeatures \/ ApplyFeatures
           \/ StartFio \/ Work
  BY <1>2, TestBodyStep
<1>3. CASE \E k \in Handles : SarExits(k)
  BY <1>3, SarExitsStep
<1>4. CASE UNCHANGED vars
  BY <1>4 DEF vars, statVars, StatInv, StatTypeOK, AllFresh, StartedInOrder,
     NullIsUnstarted, ReleasedInOrder, WaitsLeft, PassedLeavesNothing,
     CrashOnlyUnstarted
<1>5. QED
  BY <1>1, <1>2, <1>3, <1>4 DEF Next, TestStep

\* Whatever the test does between the two loops, and however far each gets.
THEOREM StatSafe == Spec => []StatInv
<1>1. Init => StatInv
  BY StatInit_StatInv
<1>2. StatInv /\ [Next]_vars => StatInv'
  BY StatNext
<1>3. QED
  BY <1>1, <1>2, PTL DEF Spec

\* A test that passes leaves no sar, no job and no factory of any handle, although
\* sysstat_command_exec and sysstat_command_stop return at their first failing call
\* and undo nothing: the pass implies that the stop loop got through all handles.
THEOREM StatisticsRemoved == Spec => []PassedLeavesNothing
<1>1. StatInv => PassedLeavesNothing
  BY DEF StatInv
<1>2. QED
  BY <1>1, StatSafe, PTL

\* tsapi_sysstat_stop_all reaches a null job only where tsapi_sysstat_start_all had
\* stopped: never for a handle it has released, nor past one that was started.
THEOREM NullJobIsUnstarted == Spec => []CrashOnlyUnstarted
<1>1. StatInv => CrashOnlyUnstarted
  BY DEF StatInv
<1>2. QED
  BY <1>1, StatSafe, PTL

-----------------------------------------------------------------------------
(***************************************************************************)
(* What reaches fio                                                        *)
(***************************************************************************)

\* What tsapi_read_fio_opts returns
LEMMA FioOptsAreRead ==
  ASSUME NEW p \in Asked, NEW opts \in FioOpts(p)
  PROVE  /\ FioRequired \subseteq DOMAIN p
         /\ {"prefix", "filename"} \cup FioRequired \subseteq DOMAIN opts
         /\ opts["prefix"] = "default"
         /\ \A name \in FioRequired \ {"blocksize"} : opts[name] = p[name]
         /\ opts["blocksize"] % Sector = 0
         /\ (Has(p, "is_shuffle_blocksize") /\ p["is_shuffle_blocksize"])
              <=> opts["blocksize"] # p["blocksize"]
<1> DEFINE Names == FioRequired \cup FioOptional
           read == ReadInto([f \in Names \cup {"prefix", "rand_gen"} |-> "default"], p,
                            ByTheirNames(Names))
           shuffle == Has(p, "is_shuffle_blocksize") /\ p["is_shuffle_blocksize"]
           sizes == IF shuffle THEN Shuffled(read["blocksize"]) ELSE {read["blocksize"]}
<1>1. /\ FioRequired \subseteq DOMAIN p
      /\ opts \in {[read EXCEPT !["blocksize"] = size, !["rand_gen"] = "tausworthe64"]
                     : size \in sizes}
  BY DEF FioOpts
<1>2. /\ DOMAIN read = Names \cup {"prefix", "rand_gen"}
      /\ read["prefix"] = "default"
      /\ \A name \in FioRequired : read[name] = p[name]
  BY <1>1 DEF ReadInto, ByTheirNames, Has, FioRequired, FioOptional
<1> HIDE DEF read
<1>3. PICK size \in sizes :
        opts = [read EXCEPT !["blocksize"] = size, !["rand_gen"] = "tausworthe64"]
  BY <1>1
<1>4. /\ DOMAIN opts = DOMAIN read /\ opts["prefix"] = "default"
      /\ opts["blocksize"] = size
      /\ \A name \in FioRequired \ {"blocksize"} : opts[name] = p[name]
  BY <1>2, <1>3 DEF FioRequired, FioOptional
<1>5. p["blocksize"] \in Nat /\ p["blocksize"] % Sector = 0
  BY <1>1, AskedAssumption DEF Has, FioRequired
<1>6. read["blocksize"] = p["blocksize"]
  BY <1>2 DEF FioRequired
<1>7. size % Sector = 0 /\ (shuffle <=> size # p["blocksize"])
  <2>1. CASE shuffle
    <3>1. PICK mult \in 1..6 : size = p["blocksize"] + Sector * mult
      BY <1>3, <1>6, <2>1 DEF Shuffled
    <3>2. size # p["blocksize"] /\ size % Sector = 0
      BY <1>5, <3>1 DEF Sector
    <3>3. QED
      BY <2>1, <3>2, Zenon
  <2>2. CASE ~shuffle
    <3>1. size = p["blocksize"]
      BY <1>3, <1>6, <2>2, Zenon
    <3>2. QED
      BY <1>5, <2>2, <3>1, Zenon
  <2>3. QED
    BY <2>1, <2>2, Zenon
<1>8. {"prefix", "filename"} \cup FioRequired \subseteq DOMAIN opts
  BY <1>2, <1>4 DEF FioRequired, FioOptional
<1>9. QED
  BY <1>1, <1>4, <1>7, <1>8, Zenon

\* What the performance profile and the device change of it
LEMMA ProfileKeeps ==
  ASSUME NEW p \in Asked, NEW opts, {"prefix", "filename"} \subseteq DOMAIN opts,
         opts["numjobs"] = p["numjobs"], FioRequired \subseteq DOMAIN p
  PROVE  LET fio == [Profiled(opts, p) EXCEPT !["filename"] = "device"]
         IN  /\ \A name \in FioRequired : fio[name] = opts[name]
             /\ Has(p, "perf_type") =>
                  fio["prefix"] =
                    IF p["perf_type"] = "latency" THEN "taskset"
                    ELSE IF p["numjobs"].value >= 16 \/ p["numjobs"].factor # "none"
                         THEN "default" ELSE "numactl"
<1> DEFINE fio == [Profiled(opts, p) EXCEPT !["filename"] = "device"]
<1>1. CASE ~Has(p, "perf_type")
  <2>1. Profiled(opts, p) = opts
    BY <1>1 DEF Profiled
  <2>2. QED
    BY <1>1, <2>1 DEF FioRequired
<1>2. CASE Has(p, "perf_type")
  <2>1. p["perf_type"] \in {"latency", "throughput"} /\ p["numjobs"].value \in Nat
    BY <1>2, AskedAssumption DEF Has, FioRequired
  <2> DEFINE prefix == IF p["perf_type"] = "latency" THEN "taskset" ELSE ThroughputPrefix(opts)
  <2>2. Profiled(opts, p) = [opts EXCEPT !["prefix"] = prefix]
    BY <1>2, <2>1 DEF Profiled
  <2> DEFINE profiled == [opts EXCEPT !["prefix"] = prefix]
  <2>3. fio["prefix"] = prefix /\ \A name \in FioRequired : fio[name] = opts[name]
    <3> HIDE DEF prefix
    <3>1. fio = [profiled EXCEPT !["filename"] = "device"]
      BY <2>2
    <3>2. /\ DOMAIN profiled = DOMAIN opts /\ profiled["prefix"] = prefix
          /\ \A name \in FioRequired : profiled[name] = opts[name]
      BY DEF FioRequired
    <3> HIDE DEF profiled, fio
    <3>3. QED
      BY <3>1, <3>2 DEF FioRequired
  <2>4. QED
    BY <2>1, <2>3 DEF ThroughputPrefix
<1>3. QED
  BY <1>1, <1>2

MeasuresInv == params \in Asked /\ MeasuresAsAsked

LEMMA MeasuresStay ==
  ASSUME MeasuresInv, UNCHANGED <<params, agents>>,
         \/ UNCHANGED used
         \/ \E what, value : what # "fio" /\ Hand(what, value)
  PROVE  MeasuresInv'
<1>1. /\ Handed("fio")' <=> Handed("fio")
      /\ Handed("fio") => used'["fio"] = used["fio"]
  <2>1. CASE UNCHANGED used
    BY <2>1 DEF Handed
  <2>2. ASSUME NEW what, NEW value, what # "fio", Hand(what, value)
        PROVE  /\ "fio" \in DOMAIN used' <=> "fio" \in DOMAIN used
               /\ "fio" \in DOMAIN used => used'["fio"] = used["fio"]
    BY <2>2 DEF Hand
  <2>3. QED
    BY <2>1, <2>2, Zenon DEF Handed
<1>2. QED
  BY <1>1, Zenon DEF MeasuresInv, MeasuresAsAsked, Has

LEMMA StartFioMeasures == MeasuresInv /\ StartFio => MeasuresInv'
<1> SUFFICES ASSUME MeasuresInv, StartFio PROVE MeasuresInv'
  OBVIOUS
<1>1. UNCHANGED <<params, agents>>
  BY DEF StartFio, given
<1>2. CASE UNCHANGED used
  BY <1>1, <1>2, MeasuresStay
<1>3. CASE \E opts \in FioOpts(params) :
             Hand("fio", [Profiled(opts, params) EXCEPT !["filename"] = "device"])
  <2>1. PICK opts \in FioOpts(params) :
          Hand("fio", [Profiled(opts, params) EXCEPT !["filename"] = "device"])
    BY <1>3
  <2> DEFINE fio == [Profiled(opts, params) EXCEPT !["filename"] = "device"]
             many == params["numjobs"].value >= 16 \/ params["numjobs"].factor # "none"
             shuffled == Has(params, "is_shuffle_blocksize") /\ params["is_shuffle_blocksize"]
  <2>2. used'["fio"] = fio
    BY <2>1 DEF Hand
  <2>3. /\ FioRequired \subseteq DOMAIN params
        /\ {"prefix", "filename"} \cup FioRequired \subseteq DOMAIN opts
        /\ \A name \in FioRequired \ {"blocksize"} : opts[name] = params[name]
        /\ opts["blocksize"] % Sector = 0
        /\ shuffled <=> opts["blocksize"] # params["blocksize"]
    BY FioOptsAreRead, Zenon DEF MeasuresInv
  <2>4. opts["numjobs"] = params["numjobs"]
    BY <2>3 DEF FioRequired
  <2>5. /\ \A name \in FioRequired : fio[name] = opts[name]
        /\ Has(params, "perf_type") =>
             fio["prefix"] = IF params["perf_type"] = "latency" THEN "taskset"
                             ELSE IF many THEN "default" ELSE "numactl"
    <3>1. {"prefix", "filename"} \subseteq DOMAIN opts
      BY <2>3
    <3>2. QED
      BY <2>3, <2>4, <3>1, ProfileKeeps, Zenon DEF MeasuresInv
  <2> HIDE DEF fio, many
  <2>6. /\ \A name \in FioRequired \ {"blocksize"} : fio[name] = params[name]
        /\ fio["blocksize"] = opts["blocksize"]
    BY <2>3, <2>5 DEF FioRequired
  <2>7. /\ \A name \in FioRequired \ {"blocksize"} : fio[name] = params[name]
        /\ fio["blocksize"] % Sector = 0
        /\ shuffled <=> fio["blocksize"] # params["blocksize"]
        /\ Has(params, "perf_type") =>
             fio["prefix"] = IF params["perf_type"] = "latency" THEN "taskset"
                             ELSE IF many THEN "default" ELSE "numactl"
    BY <2>3, <2>5, <2>6, Zenon
  <2>8. params' = params /\ params \in Asked
    BY <1>1 DEF MeasuresInv
  <2>9. QED
    BY <2>2, <2>7, <2>8, Zenon DEF MeasuresInv, MeasuresAsAsked, Has, many
<1>4. QED
  BY <1>2, <1>3 DEF StartFio

LEMMA MeasuresNext == MeasuresInv /\ [Next]_vars => MeasuresInv'
<1> SUFFICES ASSUME MeasuresInv, [Next]_vars PROVE MeasuresInv'
  OBVIOUS
<1>1. CASE StartFio
  BY <1>1, StartFioMeasures
<1>2. CASE \/ GetTarget \/ SetupTarget \/ Connect \/ ReadFeatures
  <2>1. UNCHANGED <<params, agents>>
    BY <1>2 DEF GetTarget, SetupTarget, Connect, ReadFeatures, given
  <2>2. \/ UNCHANGED used
        \/ \E what, value : what # "fio" /\ Hand(what, value)
    <3>1. "methods" # "fio" /\ "target" # "fio" /\ "connect" # "fio" /\ "features" # "fio"
      OBVIOUS
    <3>2. QED
      BY <1>2, <3>1, Zenon DEF GetTarget, SetupTarget, Connect, ReadFeatures
  <2>3. QED
    BY <2>1, <2>2, MeasuresStay
<1>3. CASE \/ ApplyFeatures \/ Work
           \/ SysstatStep /\ UNCHANGED <<given, used, conf>>
           \/ (\E k \in Handles : SarExits(k)) /\ UNCHANGED <<given, used, conf>>
           \/ UNCHANGED vars
  BY <1>3, MeasuresStay DEF ApplyFeatures, Work, given, vars
<1>4. QED
  BY <1>1, <1>2, <1>3 DEF Next, TestStep

\* tsapi_read_fio_opts and the performance profile for all parameters a run may give:
\* what fio measures is what was asked.
THEOREM MeasuresWhatWasAsked == Spec => []MeasuresAsAsked
<1>1. Init => MeasuresInv
  <2>1. Init => ~Handed("fio")
    BY DEF Init, Handed
  <2>2. QED
    BY <2>1 DEF Init, MeasuresInv, MeasuresAsAsked
<1>2. MeasuresInv /\ [Next]_vars => MeasuresInv'
  BY MeasuresNext
<1>3. MeasuresInv => MeasuresAsAsked
  BY DEF MeasuresInv
<1>4. QED
  BY <1>1, <1>2, <1>3, PTL DEF Spec

-----------------------------------------------------------------------------
(***************************************************************************)
(* What reaches the link                                                   *)
(***************************************************************************)

\* Every feature but the MTU gets the LRO asked for.
LinkOf(f) ==
  \A name \in IfFeatureNames :
    conf[f][name] = IF name = "mtu" THEN params["mtu"] ELSE params["lro"]

\* The features are read before they are written, and written to both interfaces, one
\* after the other, before fio has its options; nothing is written after.
Applying ==
  at \in {"feature_init", "feature_tgt"} =>
    Handed("features") /\ used["features"] \in FeatureOpts(params)

LinkIsMade ==
  /\ at \in {"feature_tgt", "fio"} => LinkOf(InitIf)
  /\ at = "fio" => LinkOf(TgtIf)
  /\ Handed("fio") => /\ at \in {"work"} \cup Stopping \cup Ends
                      /\ LinkOf(InitIf) /\ LinkOf(TgtIf)

Things == {"methods", "target", "specific", "connect", "features", "fio"}

LinkInv ==
  /\ at \in Positions /\ DOMAIN used \subseteq Things /\ ConfTypeOK
  /\ Applying /\ LinkIsMade

LEMMA LinkInit == Init => LinkInv
<1> SUFFICES ASSUME Init PROVE LinkInv
  OBVIOUS
<1>1. at = "params" /\ DOMAIN used = {}
  BY DEF Init, StatInit
<1>2. ConfTypeOK
  <2>1. \A f \in Ifaces : conf[f] = Untouched
    BY DEF Init, ConfInit
  <2>2. /\ "enabled" \in DOMAIN Untouched /\ "kind" \in DOMAIN Untouched
        /\ Untouched["enabled"] = FALSE /\ Untouched["kind"] = "none"
    <3>1. "enabled" \in DOMAIN Untouched /\ "kind" \in DOMAIN Untouched
      BY DEF Untouched, QdiscNames
    <3>2. /\ "enabled" # "kind" /\ "kind" # "enabled"
          /\ "enabled" \notin NetemNames \cup {"mtu"} /\ "kind" \notin NetemNames \cup {"mtu"}
      BY DEF NetemNames
    <3>3. Untouched["enabled"] = FALSE
      BY <3>1, <3>2, Zenon DEF Untouched
    <3>4. Untouched["kind"] = "none"
      BY <3>1, <3>2, Zenon DEF Untouched
    <3>5. QED
      BY <3>1, <3>3, <3>4
  <2>3. DOMAIN conf = Ifaces
    BY DEF Init, ConfInit
  <2> HIDE DEF Untouched
  <2>4. QED
    BY <2>1, <2>2, <2>3 DEF ConfTypeOK
<1>3. QED
  BY <1>1, <1>2 DEF LinkInv, Applying, LinkIsMade, Handed

\* A step that hands something on and leaves the interfaces alone
LEMMA HandStep ==
  ASSUME LinkInv, UNCHANGED <<params, conf>>, at' \in Positions,
         \/ UNCHANGED used
         \/ \E what \in Things \ {"fio"} : \E value : Hand(what, value),
         at' \notin {"feature_init", "feature_tgt", "fio"},
         Handed("fio") => at' \in {"work"} \cup Stopping \cup Ends
  PROVE  LinkInv'
<1>1. /\ DOMAIN used' \subseteq Things
      /\ Handed("fio")' <=> Handed("fio")
  <2>1. CASE UNCHANGED used
    BY <2>1 DEF Handed, LinkInv
  <2>2. CASE \E what \in Things \ {"fio"} : \E value : Hand(what, value)
    <3>1. PICK what \in Things \ {"fio"} : \E value : Hand(what, value)
      BY <2>2
    <3>2. DOMAIN used' = DOMAIN used \cup {what}
      BY <3>1 DEF Hand
    <3>3. QED
      BY <3>1, <3>2 DEF Handed, LinkInv
  <2>3. QED
    BY <2>1, <2>2
<1>2. ConfTypeOK'
  BY DEF LinkInv, ConfTypeOK
<1>3. Applying' /\ LinkIsMade'
  BY <1>1 DEF LinkInv, Applying, LinkIsMade, LinkOf
<1>4. QED
  BY <1>1, <1>2, <1>3 DEF LinkInv

LEMMA ReadFeaturesStep == LinkInv /\ ReadFeatures => LinkInv'
<1> SUFFICES ASSUME LinkInv, ReadFeatures PROVE LinkInv'
  OBVIOUS
<1>1. UNCHANGED <<params, conf>>
  BY DEF ReadFeatures, given
<1>2. ~Handed("fio")
  BY DEF LinkInv, LinkIsMade, ReadFeatures
<1>3. CASE Fails /\ UNCHANGED used
  BY <1>1, <1>2, <1>3, HandStep DEF Fails
<1>4. CASE (\E opts \in FeatureOpts(params) : Hand("features", opts)) /\ GoTo("feature_init")
  <2>1. PICK opts \in FeatureOpts(params) : Hand("features", opts)
    BY <1>4
  <2>2. /\ DOMAIN used' = DOMAIN used \cup {"features"}
        /\ used'["features"] = opts /\ at' = "feature_init"
    BY <1>4, <2>1 DEF Hand, GoTo
  <2>3. Applying' /\ LinkIsMade'
    BY <1>1, <1>2, <2>1, <2>2 DEF Applying, LinkIsMade, Handed
  <2>4. ConfTypeOK' /\ DOMAIN used' \subseteq Things
    BY <1>1, <2>2 DEF LinkInv, ConfTypeOK, Things
  <2>5. QED
    BY <2>2, <2>3, <2>4 DEF LinkInv
<1>5. QED
  BY <1>3, <1>4 DEF ReadFeatures

\* What a run of the calls for one interface, complete or broken off, leaves behind
LEMMA WritesOfFeatures ==
  ASSUME LinkInv, NEW f \in Ifaces, NEW opts \in FeatureOpts(params),
         NEW n \in 0..Len(FeatureCalls(opts)),
         conf' = [conf EXCEPT ![f] = AfterCalls(@, FeatureCalls(opts))[n]]
  PROVE  /\ ConfTypeOK'
         /\ \A g \in Ifaces \ {f} : conf'[g] = conf[g]
         /\ n = Len(FeatureCalls(opts)) =>
              \A name \in IfFeatureNames :
                conf'[f][name] = IF name = "mtu" THEN params["mtu"] ELSE params["lro"]
<1> DEFINE after == AfterCalls(conf[f], FeatureCalls(opts))[n]
<1>1. DOMAIN conf = Ifaces /\ DOMAIN conf' = Ifaces
  BY DEF LinkInv, ConfTypeOK
<1>2. conf'[f] = after /\ \A g \in Ifaces \ {f} : conf'[g] = conf[g]
  BY <1>1
<1>3. /\ DOMAIN after = DOMAIN conf[f]
      /\ \A name \in DOMAIN conf[f] :
           /\ name \notin IfFeatureNames => after[name] = conf[f][name]
           /\ n = Len(FeatureCalls(opts)) /\ name \in IfFeatureNames =>
                after[name] = IF name = "mtu" THEN opts.mtu ELSE opts.lro
  BY FeaturesWritten
<1> HIDE DEF after
<1>4. /\ DOMAIN conf[f] = DOMAIN Untouched
      /\ conf[f]["enabled"] \in BOOLEAN /\ conf[f]["kind"] \in {"none", "netem"}
  BY DEF LinkInv, ConfTypeOK
<1>5. /\ IfFeatureNames \subseteq DOMAIN Untouched
      /\ "enabled" \in DOMAIN Untouched /\ "kind" \in DOMAIN Untouched
  BY DEF Untouched, QdiscNames
<1>6. "enabled" \notin IfFeatureNames /\ "kind" \notin IfFeatureNames
  <2>1. DOMAIN TsoFeatures = 1..4
    BY DEF TsoFeatures
  <2>2. \A k \in 1..4 : k = 1 \/ k = 2 \/ k = 3 \/ k = 4
    OBVIOUS
  <2>3. \A k \in 1..4 : TsoFeatures[k] # "enabled" /\ TsoFeatures[k] # "kind"
    BY <2>2 DEF TsoFeatures
  <2>4. QED
    BY <2>1, <2>3 DEF IfFeatureNames
<1>7. after["enabled"] = conf[f]["enabled"] /\ after["kind"] = conf[f]["kind"]
  BY <1>3, <1>4, <1>5, <1>6
<1>8. ConfTypeOK'
  <2>1. ASSUME NEW g \in Ifaces
        PROVE  /\ DOMAIN conf'[g] = DOMAIN Untouched
               /\ conf'[g]["enabled"] \in BOOLEAN
               /\ conf'[g]["kind"] \in {"none", "netem"}
    <3>1. CASE g = f
      BY <1>2, <1>3, <1>4, <1>7, <3>1
    <3>2. CASE g # f
      BY <1>2, <3>2 DEF LinkInv, ConfTypeOK
    <3>3. QED
      BY <3>1, <3>2
  <2>2. QED
    BY <1>1, <2>1 DEF ConfTypeOK
<1>9. opts.mtu = params["mtu"] /\ opts.lro = params["lro"]
  BY DEF FeatureOpts
<1>10. n = Len(FeatureCalls(opts)) =>
         \A name \in IfFeatureNames :
           after[name] = IF name = "mtu" THEN params["mtu"] ELSE params["lro"]
  BY <1>3, <1>4, <1>5, <1>9
<1>11. QED
  BY <1>2, <1>8, <1>10

LEMMA ApplyFeaturesStep == LinkInv /\ ApplyFeatures => LinkInv'
<1> SUFFICES ASSUME LinkInv, ApplyFeatures PROVE LinkInv'
  OBVIOUS
<1> DEFINE opts == used["features"]
           calls == FeatureCalls(opts)
<1>1. /\ opts \in FeatureOpts(params) /\ InitIf \in Ifaces /\ TgtIf \in Ifaces
      /\ at \in {"feature_init", "feature_tgt"}
      /\ UNCHANGED <<params, used>>
  BY FioSimpleAssumption DEF LinkInv, Applying, ApplyFeatures, given
<1>2. Len(calls) = 6
  BY FeatureCallsAre
<1> HIDE DEF opts
<1>3. ~Handed("fio") /\ ~Handed("fio")' /\ DOMAIN used' \subseteq Things
  BY <1>1 DEF LinkInv, LinkIsMade, Handed
<1>4. CASE at = "feature_init" /\ Applied(InitIf, calls) /\ GoTo("feature_tgt")
  <2>1. /\ ConfTypeOK'
        /\ \A name \in IfFeatureNames :
             conf'[InitIf][name] = IF name = "mtu" THEN params["mtu"] ELSE params["lro"]
    <3>1. Len(calls) \in 0..Len(calls)
      BY <1>2
    <3>2. QED
      BY <1>1, <1>4, <3>1, WritesOfFeatures DEF Applied
  <2>2. at' = "feature_tgt"
    BY <1>4 DEF GoTo
  <2>3. Applying'
    BY <1>1 DEF LinkInv, Applying, Handed
  <2>4. LinkIsMade'
    BY <1>1, <1>3, <2>1, <2>2 DEF LinkIsMade, LinkOf
  <2>5. QED
    BY <1>3, <2>1, <2>2, <2>3, <2>4 DEF LinkInv
<1>5. CASE at = "feature_tgt" /\ Applied(TgtIf, calls) /\ GoTo("fio")
  <2>1. /\ ConfTypeOK' /\ conf'[InitIf] = conf[InitIf]
        /\ \A name \in IfFeatureNames :
             conf'[TgtIf][name] = IF name = "mtu" THEN params["mtu"] ELSE params["lro"]
    <3>1. Len(calls) \in 0..Len(calls)
      BY <1>2
    <3>2. QED
      BY <1>1, <1>5, <3>1, WritesOfFeatures, FioSimpleAssumption DEF Applied
  <2>2. at' = "fio"
    BY <1>5 DEF GoTo
  <2>3. Applying'
    BY <2>2 DEF Applying
  <2>4. LinkIsMade'
    BY <1>1, <1>3, <1>5, <2>1, <2>2 DEF LinkInv, LinkIsMade, LinkOf
  <2>5. QED
    BY <1>3, <2>1, <2>2, <2>3, <2>4 DEF LinkInv
<1>6. CASE ApplyFails(IF at = "feature_init" THEN InitIf ELSE TgtIf, calls) /\ Fails
  <2> DEFINE f == IF at = "feature_init" THEN InitIf ELSE TgtIf
  <2>1. f \in Ifaces
    BY <1>1
  <2> HIDE DEF f
  <2>2. PICK n \in 0..(Len(calls) - 1) :
          conf' = [conf EXCEPT ![f] = AfterCalls(@, calls)[n]]
    BY <1>6 DEF ApplyFails, f
  <2>3. n \in 0..Len(calls)
    BY <1>2, <2>2
  <2>4. ConfTypeOK'
    BY <1>1, <2>1, <2>2, <2>3, WritesOfFeatures
  <2>5. at' = "kill"
    BY <1>6 DEF Fails
  <2>6. QED
    BY <1>3, <2>4, <2>5 DEF LinkInv, Applying, LinkIsMade
<1>7. QED
  BY <1>4, <1>5, <1>6 DEF ApplyFeatures, opts

LEMMA StartFioStep == LinkInv /\ StartFio => LinkInv'
<1> SUFFICES ASSUME LinkInv, StartFio PROVE LinkInv'
  OBVIOUS
<1>1. at = "fio" /\ UNCHANGED <<params, conf>>
  BY DEF StartFio, given
<1>2. LinkOf(InitIf) /\ LinkOf(TgtIf)
  BY <1>1 DEF LinkInv, LinkIsMade
<1>3. at' \in {"work", "kill"}
  BY DEF StartFio, GoTo, Fails
<1>4. DOMAIN used' \subseteq Things
  <2>1. DOMAIN used' \in {DOMAIN used, DOMAIN used \cup {"fio"}}
    BY DEF StartFio, Hand
  <2>2. QED
    BY <2>1 DEF LinkInv, Things
<1>5. ConfTypeOK'
  BY <1>1 DEF LinkInv, ConfTypeOK
<1>6. QED
  BY <1>1, <1>2, <1>3, <1>4, <1>5 DEF LinkInv, Applying, LinkIsMade, LinkOf

LEMMA LinkNext == LinkInv /\ [Next]_vars => LinkInv'
<1> SUFFICES ASSUME LinkInv, [Next]_vars PROVE LinkInv'
  OBVIOUS
<1>1. CASE ReadFeatures
  BY <1>1, ReadFeaturesStep
<1>2. CASE ApplyFeatures
  BY <1>2, ApplyFeaturesStep
<1>3. CASE StartFio
  BY <1>3, StartFioStep
<1>4. CASE GetTarget \/ SetupTarget \/ Connect
  <2>1. UNCHANGED <<params, conf>> /\ at \in {"params", "target", "connect"}
    BY <1>4 DEF GetTarget, SetupTarget, Connect, given
  <2>2. at' \in {"factory", "connect", "features", "kill"}
    BY <1>4 DEF GetTarget, SetupTarget, Connect, GoTo, Fails
  <2>3. ~Handed("fio")
    BY <2>1 DEF LinkInv, LinkIsMade
  <2>4. \/ UNCHANGED used
        \/ \E what \in Things \ {"fio"} : \E value : Hand(what, value)
    <3>1. "methods" \in Things \ {"fio"} /\ "target" \in Things \ {"fio"}
          /\ "connect" \in Things \ {"fio"}
      BY DEF Things
    <3>2. QED
      BY <1>4, <3>1, Zenon DEF GetTarget, SetupTarget, Connect
  <2>5. QED
    BY <2>1, <2>2, <2>3, <2>4, HandStep
<1>5. CASE Work
  BY <1>5, HandStep DEF Work, given
<1>6. CASE SysstatStep /\ UNCHANGED <<given, used, conf>>
  <2>1. UNCHANGED <<params, conf, used>>
    BY <1>6 DEF given
  <2>2. \/ at \in Starting /\ at' \in Starting \cup {"target", "kill", "crashed"}
        \/ at \in Stopping /\ at' \in Stopping \cup Ends
    BY <1>6 DEF SysstatStep, CreateFactory, CreateJob, AttachFilters, StartJob, Kill, Wait,
       Destroy, Release, GoTo, Fails, Crash, StopFails
  <2>3. Handed("fio") => at' \in {"work"} \cup Stopping \cup Ends
    BY <2>2 DEF LinkInv, LinkIsMade
  <2>4. QED
    BY <2>1, <2>2, <2>3, HandStep
<1>7. CASE \/ (\E k \in Handles : SarExits(k)) /\ UNCHANGED <<given, used, conf>>
           \/ UNCHANGED vars
  BY <1>7 DEF SarExits, given, vars, statVars, LinkInv, ConfTypeOK, Applying, LinkIsMade,
     LinkOf, Handed
<1>8. QED
  BY <1>1, <1>2, <1>3, <1>4, <1>5, <1>6, <1>7 DEF Next, TestStep

THEOREM LinkSafe == Spec => []LinkInv
<1>1. Init => LinkInv
  BY LinkInit
<1>2. LinkInv /\ [Next]_vars => LinkInv'
  BY LinkNext
<1>3. QED
  BY <1>1, <1>2, PTL DEF Spec

\* tsapi_apply_if_feature_opts, twice: fio is never started over a link one of whose
\* ends was written in part or not at all, so the ends agree in every feature.
THEOREM LinkIsAsAsked == Spec => []LinkAsAsked
<1>1. "mtu" \in IfFeatureNames /\ "rx-lro" \in IfFeatureNames /\ "rx-lro" # "mtu"
  BY DEF IfFeatureNames
<1>2. LinkInv => LinkAsAsked
  <2> SUFFICES ASSUME LinkInv, Handed("fio")
               PROVE  /\ \A f, g \in Ifaces : \A name \in IfFeatureNames :
                           conf[f][name] = conf[g][name]
                      /\ \A f \in Ifaces : /\ conf[f]["mtu"] = params["mtu"]
                                            /\ conf[f]["rx-lro"] = params["lro"]
    BY DEF LinkAsAsked
  <2>1. \A f \in Ifaces : LinkOf(f)
    BY FioSimpleAssumption DEF LinkInv, LinkIsMade
  <2>2. QED
    BY <1>1, <2>1 DEF LinkOf
<1>3. QED
  BY <1>2, LinkSafe, PTL

\* The test and its statistics are type correct for all parameters and agents.
THEOREM TypeCorrect == Spec => []TypeOK
<1>1. StatInv /\ LinkInv => TypeOK
  BY DEF StatInv, LinkInv, TypeOK, Things
<1>2. QED
  BY <1>1, StatSafe, LinkSafe, PTL
=============================================================================
