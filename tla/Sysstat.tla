------------------------------ MODULE Sysstat ------------------------------
(***************************************************************************)
(* System statistics (nvmeof-ts/lib/tsapi_sysstat.c): a sar process per    *)
(* handle, started one after another while the test is prepared and        *)
(* stopped one after another first thing in its cleanup, however far the   *)
(* preparation got.  FioSimple adds the test between the two.              *)
(*                                                                         *)
(* The RC macro returns at the first failing call and undoes nothing.  TAPI *)
(* jobs, the kernel and sar are external.                                  *)
(***************************************************************************)
EXTENDS Naturals

CONSTANTS
  Count,       \* length of the array of handles
  MaxAttempts  \* how often sysstat_command_stop waits for sar, one second each

ASSUME CountAssumption == Count \in Nat \ {0} /\ MaxAttempts \in Nat \ {0}

Handles == 1..Count

VARIABLES
  at,        \* the call about to be made
  h,         \* the handle it is made for
  attempts,  \* waits for sar so far
  job,       \* stat[h].job: "null" or "set"
  factory,   \* stat[h].factory: "null", "set" or "freed"
  sar,       \* the process: "none", "idle", "running", "interrupted", "ended"
  verdict    \* of the test

statVars == <<at, h, attempts, job, factory, sar, verdict>>

Starting == {"factory", "job", "filters", "start"}
Stopping == {"kill", "wait", "destroy", "release"}
Ends == {"over", "crashed"}

StatTypeOK ==
  /\ h \in Handles
  /\ attempts \in 0..MaxAttempts
  /\ job \in [Handles -> {"null", "set"}]
  /\ factory \in [Handles -> {"null", "set", "freed"}]
  /\ sar \in [Handles -> {"none", "idle", "running", "interrupted", "ended"}]
  /\ verdict \in {"pass", "fail"}

\* TSAPI_SYSSTAT_INIT
StatInit ==
  /\ at = "params" /\ h = 1 /\ attempts = 0
  /\ job = [k \in Handles |-> "null"]
  /\ factory = [k \in Handles |-> "null"]
  /\ sar = [k \in Handles |-> "none"]
  /\ verdict = "fail"

handles == <<job, factory, sar>>

\* A call returns, and the next is at.
GoTo(step) == at' = step /\ UNCHANGED <<h, verdict>>

\* TEST_FAIL, or CHECK_RC of a failing call: the cleanup begins with stop_all.
Fails == at' = "kill" /\ h' = 1 /\ UNCHANGED verdict
Crash == at' = "crashed" /\ verdict' = "fail" /\ UNCHANGED h

-----------------------------------------------------------------------------
(***************************************************************************)
(* tsapi_sysstat_start_all, sysstat_command_exec                           *)
(***************************************************************************)

CreateFactory ==
  /\ at = "factory"
  /\ \/ factory' = [factory EXCEPT ![h] = "set"] /\ GoTo("job")
     \/ Fails /\ UNCHANGED factory
  /\ UNCHANGED <<job, sar, attempts>>

\* command->command is a compound literal whose block has been left: reading it
\* gives sar's command line, or anything.
CreateJob ==
  /\ at = "job"
  /\ \/ /\ job' = [job EXCEPT ![h] = "set"]
        /\ sar' = [sar EXCEPT ![h] = "idle"]
        /\ GoTo("filters")
     \/ (Fails \/ Crash) /\ UNCHANGED <<job, sar>>
  /\ UNCHANGED <<factory, attempts>>

AttachFilters ==
  /\ at = "filters"
  /\ GoTo("start") \/ Fails
  /\ UNCHANGED handles /\ UNCHANGED attempts

StartJob ==
  /\ at = "start"
  /\ \/ /\ sar' = [sar EXCEPT ![h] = "running"]
        /\ IF h = Count THEN GoTo("target")
                        ELSE at' = "factory" /\ h' = h + 1 /\ UNCHANGED verdict
     \/ Fails /\ UNCHANGED sar
  /\ UNCHANGED <<job, factory, attempts>>

-----------------------------------------------------------------------------
(***************************************************************************)
(* tsapi_sysstat_stop_all, sysstat_command_stop: CLEANUP_CHECK_RC around    *)
(* the former fails the test when any call below fails.                    *)
(***************************************************************************)

\* Mutant: the result of stop_all is ignored
StopUnchecked == at' = "over" /\ UNCHANGED <<h, verdict>>

StopFails == at' = "over" /\ verdict' = "fail" /\ UNCHANGED h

\* tapi_job_kill of a null job dies or returns an error; SIGINT to a process that
\* was never started or is gone fails.
Kill ==
  /\ at = "kill"
  /\ \/ /\ job[h] = "set" /\ sar[h] = "running"
        /\ sar' = [sar EXCEPT ![h] = "interrupted"]
        /\ attempts' = 0 /\ GoTo("wait")
     \/ StopFails /\ UNCHANGED <<sar, attempts>>
     \/ job[h] = "null" /\ Crash /\ UNCHANGED <<sar, attempts>>
  /\ UNCHANGED <<job, factory>>

\* Mutants: one wait too many, and no end of waits
WaitOnceMore ==
  /\ at = "wait"
  /\ \/ sar[h] = "ended" /\ GoTo("destroy") /\ UNCHANGED attempts
     \/ /\ sar[h] # "ended" /\ attempts' = attempts + 1
        /\ GoTo(IF attempts < MaxAttempts THEN "wait" ELSE "destroy")
  /\ UNCHANGED handles

WaitForever ==
  /\ at = "wait"
  /\ \/ sar[h] = "ended" /\ GoTo("destroy") /\ UNCHANGED attempts
     \/ /\ sar[h] # "ended" /\ GoTo("wait")
        /\ attempts' = (attempts + 1) % MaxAttempts
  /\ UNCHANGED handles

\* One second per attempt; a sar still there after the last one is destroyed alive.
Wait ==
  /\ at = "wait"
  /\ \/ /\ sar[h] = "ended" /\ GoTo("destroy") /\ UNCHANGED attempts
     \/ /\ sar[h] # "ended"  \* TE_EINPROGRESS
        /\ attempts' = attempts + 1
        /\ GoTo(IF attempts' < MaxAttempts THEN "wait" ELSE "destroy")
     \/ StopFails /\ UNCHANGED attempts
  /\ UNCHANGED handles

\* tapi_job_destroy kills what still runs.
Destroy ==
  /\ at = "destroy"
  /\ \/ sar' = [sar EXCEPT ![h] = "ended"] /\ GoTo("release")
     \/ StopFails /\ UNCHANGED sar
  /\ UNCHANGED <<job, factory, attempts>>

\* Mutant: the loop does not get to the next handle
ReleaseAgain ==
  /\ at = "release"
  /\ factory' = [factory EXCEPT ![h] = "freed"]
  /\ job' = [job EXCEPT ![h] = "null"]
  /\ at' = "kill"
  /\ UNCHANGED <<h, sar, attempts, verdict>>

\* tapi_job_factory_destroy, then stat[i].job = NULL and the next handle.
Release ==
  /\ at = "release"
  /\ factory' = [factory EXCEPT ![h] = "freed"]
  /\ job' = [job EXCEPT ![h] = "null"]
  /\ IF h = Count THEN at' = "over" /\ UNCHANGED h
                  ELSE at' = "kill" /\ h' = h + 1
  /\ UNCHANGED <<sar, attempts, verdict>>

-----------------------------------------------------------------------------

\* sar exits when it has printed its summary, or dies before.
SarExits(k) ==
  /\ sar[k] \in {"running", "interrupted"}
  /\ sar' = [sar EXCEPT ![k] = "ended"]
  /\ UNCHANGED <<at, h, attempts, job, factory, verdict>>

SysstatStep ==
  \/ CreateFactory \/ CreateJob \/ AttachFilters \/ StartJob
  \/ Kill \/ Wait \/ Destroy \/ Release

Over == at \in Ends

-----------------------------------------------------------------------------

\* A passed test leaves nothing of its statistics on the initiator's agent: no sar,
\* no job and no factory of any handle, although both loops stop at the first failure
\* and undo nothing, and although sar may ignore SIGINT.
PassedLeavesNothing ==
  at = "over" /\ verdict = "pass" =>
    \A k \in Handles : sar[k] = "ended" /\ job[k] = "null" /\ factory[k] = "freed"

\* The null job that stop_all may follow is that of a handle whose start failed,
\* never one it has already stopped; everything before it has been stopped, and
\* nothing behind it had been started.
CrashOnlyUnstarted ==
  at = "crashed" =>
    /\ sar[h] = "none"
    /\ \A k \in Handles : k > h => sar[k] = "none" /\ factory[k] = "null"
=============================================================================
