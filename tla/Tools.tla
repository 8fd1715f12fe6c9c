-------------------------------- MODULE Tools --------------------------------
(***************************************************************************)
(* The tools a test runs through TAPI on the devices of its initiators:    *)
(* fio, and iperf3's server and client.  All of it is external; what is    *)
(* modelled are the outcomes of the calls the tests make (tapi_fio_start,  *)
(* wait, stop, destroy and their tapi_perf twins) and what the processes   *)
(* do between them.                                                        *)
(***************************************************************************)
EXTENDS NvmeInitiator

CONSTANTS
  Apps,      \* the tools of a test
  AppOn,     \* the initiator object whose device a tool uses, or Null
  AppServer  \* the RPC server a tool is controlled through

ASSUME ToolAssumption ==
  /\ AppOn \in [Apps -> Initiators \cup {Null}]
  /\ AppServer \in [Apps -> Servers]

VARIABLE job  \* the process behind each tool

\* A started tool runs until its run time is over ("overdue" from then on); one
\* whose device was removed is "doomed" and may exit at any moment.
Active == {"running", "overdue", "doomed"}
JobStates == {"none", "idle", "ended", "failed"} \cup Active

ToolTypeOK == job \in [Apps -> JobStates]

Answers(a) == Ready(AppServer[a])
Device(a) == IF AppOn[a] = Null THEN "live" ELSE ctrl[AppOn[a]]

Started(a) ==
  /\ Answers(a)
  /\ job' = [job EXCEPT ![a] = IF Device(a) = "absent" THEN "doomed" ELSE "running"]

\* Mutant: waiting has no time out
WaitForever(a) == job[a] = "failed" \/ ~Answers(a)

Waited(a) == job[a] = "ended" /\ Answers(a)

\* Waiting fails when the tool failed, did not finish within the time out, or
\* cannot be asked.
WaitFails(a) == ~Waited(a)

\* Mutant: a killed process keeps a state of its own
KilledApart(a) == IF job[a] \in Active THEN "killed" ELSE job[a]

Killed(a) == IF job[a] \in Active THEN "failed" ELSE job[a]

Stopped(a) == Answers(a) /\ job' = [job EXCEPT ![a] = Killed(a)]

\* Destroying a tool kills its process if its server answers.
Destroyed(a) ==
  job' = [job EXCEPT ![a] = IF Answers(a) THEN Killed(a) ELSE @]

\* Tools lose their device when its controller goes away.
JobsFollow ==
  job' = [a \in Apps |->
            IF /\ job[a] \in Active /\ AppOn[a] # Null
               /\ ctrl[AppOn[a]] # "absent" /\ ctrl'[AppOn[a]] = "absent"
            THEN "doomed" ELSE job[a]]

\* I/O to a lost controller hangs: such a tool finishes only after a recovery.
\* While the test waits for some tool, the run time of all of them passes.
Finishes(a, waiting) ==
  \/ job[a] = "doomed"
  \/ /\ Device(a) = "live"
     /\ job[a] = "overdue" \/ (job[a] = "running" /\ waiting)

Exits(a, waiting) ==
  \/ Finishes(a, waiting) /\ job' = [job EXCEPT ![a] = "ended"]
  \/ job[a] = "doomed" /\ job' = [job EXCEPT ![a] = "failed"]
=============================================================================
