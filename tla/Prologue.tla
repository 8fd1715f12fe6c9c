------------------------------ MODULE Prologue ------------------------------
(***************************************************************************)
(* The session prologue (nvmeof-ts/prologue.c): before the first test it   *)
(* copies tools and kernel modules to the agents, replaces the modules     *)
(* loaded there by the copied ones and creates null block devices.         *)
(*                                                                         *)
(* Each of these is a loop over the agents whose configuration lists the   *)
(* tool, with the handles fetched when the loop begins.  Every failure     *)
(* ends the prologue where it stands.  The Configurator, RCF and the       *)
(* kernels are external.                                                   *)
(***************************************************************************)
EXTENDS Filters

CONSTANTS
  Agents,
  Listings,   \* the possible values of /local:*/tools: : agent -> tool -> entry
  Residents,  \* modules earlier sessions or the system may have loaded on each agent
  NullAgents, \* agents with a /local/nullblk: entry
  Options,    \* SF_TOOLS_COPY, SF_TOOLS and SF_MODULES_LOAD
  Needs       \* the kernel's dependencies: module -> modules

Tools == {"nvme-cli", "fio", "libcrc32c", "nvme-core", "nvme", "nvme-fabrics",
          "nvme-tcp", "nvmet", "nvmet-tcp"}
Modules == Tools \ {"nvme-cli", "fio"}
Entries == {"none", "empty", "file"}

ASSUME PrologueAssumption ==
  /\ Listings \subseteq [Agents -> [Tools -> Entries]]
  /\ Residents \in [Agents -> SUBSET Modules]
  /\ NullAgents \subseteq Agents
  /\ Options \subseteq [copy : BOOLEAN, only : SUBSET Tools, load : BOOLEAN]
  /\ Needs \in [Modules -> SUBSET Modules]

Mandatory == Modules \ {"libcrc32c"}
TargetModules == {"nvmet", "nvmet-tcp"}

\* conf/cs.conf.tools gives every module but libcrc32c a file, and an agent the
\* modules of an initiator or those of a target.
ASSUME ListingAssumption ==
  \A l \in Listings, a \in Agents :
    /\ \A m \in Mandatory : l[a][m] # "empty"
    /\ \E others \in {TargetModules, Mandatory \ TargetModules} :
         \A m \in others : l[a][m] = "none"

\* What a module may need: the initiator's modules are stacked on nvme-core, the
\* target's on nvmet, which needs nvme-core too where it can pass commands through.
Stack(m) ==
  CASE m = "nvme"         -> {"nvme-core"}
    [] m = "nvme-fabrics" -> {"nvme-core", "nvme"}
    [] m = "nvme-tcp"     -> {"nvme-core", "nvme", "nvme-fabrics"}
    [] m = "nvmet"        -> {"nvme-core"}
    [] m = "nvmet-tcp"    -> {"nvme-core", "nvmet"}
    [] OTHER              -> {}

ASSUME NeedsAssumption == \A m \in Modules : Needs[m] \subseteq Stack(m)

VARIABLES
  opts,     \* the environment of the prologue
  pc,       \* the step of the plan
  looping,  \* is that step's loop under way?
  left,     \* agents the loop has still to visit
  inst,     \* /local:<agent>/tools:/<tool>:
  file,     \* tools stored in the agent's directory
  kmod,     \* modules of each agent: "out", or loaded before or by this prologue
  kept,     \* history: modules whose rmmod failed although nothing needed them
  nullblk,  \* agents with null_blk loaded
  outcome   \* "running", "pass" or "fail"

vars == <<opts, pc, looping, left, inst, file, kmod, kept, nullblk, outcome>>
otherVars == <<opts, kept>>

-----------------------------------------------------------------------------
(***************************************************************************)
(* The order of events                                                     *)
(***************************************************************************)

Do(op, tool) == [op |-> op, tool |-> tool, optional |-> FALSE]

CanFail(op, tool) == [op |-> op, tool |-> tool, optional |-> TRUE]

Each(op, tools) == [k \in DOMAIN tools |-> Do(op, tools[k])]

\* copy_tools; an unset SF_TOOLS selects every tool
CopyPlan(only) ==
  Each("copy", Kept(<<"nvme-cli", "fio", "libcrc32c", "nvme-core", "nvme", "nvme-tcp",
                      "nvme-fabrics", "nvmet", "nvmet-tcp">>, only))

\* Mutants of the two orders
CoreFirstUnloadPlan ==
  Each("unload", <<"nvme-core", "nvme-tcp", "nvme-fabrics", "nvme", "nvmet-tcp", "nvmet">>)
  \o <<Do("call", "cfg_synchronize")>>

TcpFirstLoadPlan ==
  <<CanFail("load", "libcrc32c")>>
  \o Each("load", <<"nvme-core", "nvme", "nvme-tcp", "nvme-fabrics", "nvmet", "nvmet-tcp">>)

\* unload_modules
UnloadPlan ==
  Each("unload", <<"nvme-tcp", "nvme-fabrics", "nvme", "nvme-core", "nvmet-tcp", "nvmet">>)
  \o <<Do("call", "cfg_synchronize")>>

\* load_modules: only libcrc32c can fail
LoadPlan ==
  <<CanFail("load", "libcrc32c")>>
  \o Each("load", <<"nvme-core", "nvme", "nvme-fabrics", "nvme-tcp", "nvmet", "nvmet-tcp">>)

\* main; the last call stands for networks, addresses and RPC servers
Plan ==
  (IF opts.copy THEN CopyPlan(opts.only) ELSE <<>>)
  \o <<Do("call", "update_agents_path")>>
  \o (IF opts.load THEN UnloadPlan \o LoadPlan ELSE <<>>)
  \o <<Do("nullblk", "null_blk"), Do("call", "networks")>>

Running == outcome = "running" /\ pc \in DOMAIN Plan
Step == Plan[pc]
At(op) == Running /\ Step.op = op

Listed(tool) == {a \in Agents : inst[a][tool] # "none"}
Loaded(a) == {m \in Modules : kmod[a][m] # "out"}

TypeOK ==
  /\ opts \in Options
  /\ pc \in 1..(Len(Plan) + 1)
  /\ looping \in BOOLEAN
  /\ left \in SUBSET Agents
  /\ inst \in [Agents -> [Tools -> Entries]]
  /\ file \in [Agents -> SUBSET Tools]
  /\ kmod \in [Agents -> [Modules -> {"out", "old", "new"}]]
  /\ kept \in [Agents -> SUBSET Modules]
  /\ nullblk \in SUBSET Agents
  /\ outcome \in {"running", "pass", "fail"}

\* Modules of earlier sessions may be loaded, with all they need.
Init ==
  /\ opts \in Options /\ inst \in Listings
  /\ pc = 1 /\ looping = FALSE /\ left = {} /\ outcome = "running"
  /\ file = [a \in Agents |-> {}]
  /\ kmod \in {k \in [Agents -> [Modules -> {"out", "old"}]] :
                 \A a \in Agents, m \in Modules : k[a][m] = "old" =>
                   m \in Residents[a] /\ \A d \in Needs[m] : k[a][d] = "old"}
  /\ kept = [a \in Agents |-> {}]
  /\ nullblk \in SUBSET NullAgents

-----------------------------------------------------------------------------
(***************************************************************************)
(* Loops over agents                                                       *)
(***************************************************************************)

Dies == outcome' = "fail" /\ UNCHANGED <<pc, looping, left>>

\* cfg_find_pattern_fmt
Begin(op, agents) ==
  /\ At(op) /\ ~looping
  /\ \/ looping' = TRUE /\ left' = agents /\ UNCHANGED <<pc, outcome>>
     \/ Dies
  /\ UNCHANGED <<inst, file, kmod, nullblk>> /\ UNCHANGED otherVars

\* One pass of the loop, in the order the Configurator returned the handles.
Visit(op, a) == At(op) /\ looping /\ a \in left
Visited(a) == left' = left \ {a} /\ UNCHANGED <<pc, looping, outcome>>

EndLoop ==
  /\ Running /\ looping /\ left = {}
  /\ pc' = pc + 1 /\ looping' = FALSE
  /\ UNCHANGED <<left, inst, file, kmod, nullblk, outcome>> /\ UNCHANGED otherVars

CallStep ==
  /\ At("call")
  /\ \/ pc' = pc + 1 /\ UNCHANGED <<looping, left, outcome>>
     \/ Dies
  /\ UNCHANGED <<inst, file, kmod, nullblk>> /\ UNCHANGED otherVars

Success ==
  /\ outcome = "running" /\ pc \notin DOMAIN Plan
  /\ outcome' = "pass"
  /\ UNCHANGED <<pc, looping, left, inst, file, kmod, nullblk>> /\ UNCHANGED otherVars

-----------------------------------------------------------------------------
(***************************************************************************)
(* copy_tool                                                               *)
(***************************************************************************)

Drop(a, tool) == inst' = [inst EXCEPT ![a][tool] = "none"]

CopyDropsEmpty(a) ==
  /\ Visit("copy", a) /\ inst[a][Step.tool] = "empty"
  /\ \/ Drop(a, Step.tool) /\ Visited(a)
     \/ UNCHANGED inst /\ Dies
  /\ UNCHANGED <<file, kmod, nullblk>> /\ UNCHANGED otherVars

\* rcf_ta_put_file, and "chmod +s" for an executable: either may fail.
CopyStores(a) ==
  /\ Visit("copy", a) /\ inst[a][Step.tool] = "file"
  /\ \/ file' = [file EXCEPT ![a] = @ \cup {Step.tool}] /\ Visited(a)
     \/ file' = [file EXCEPT ![a] = @ \cup {Step.tool}] /\ Step.tool \notin Modules /\ Dies
     \/ UNCHANGED file /\ Dies
  /\ UNCHANGED <<inst, kmod, nullblk>> /\ UNCHANGED otherVars

-----------------------------------------------------------------------------
(***************************************************************************)
(* unload_module                                                           *)
(***************************************************************************)

\* What the kernel lets go if nothing uses it
Needed(a, m) == \E d \in Loaded(a) : m \in Needs[d]

\* The loop goes on whatever became of rmmod: the kernel refuses a module that others
\* need or that is in use, and the call of the agent may fail before it gets there.
Unload(a) ==
  LET m == Step.tool IN
  /\ Visit("unload", a)
  /\ \/ /\ m \in Loaded(a) /\ ~Needed(a, m)
        /\ kmod' = [kmod EXCEPT ![a][m] = "out"] /\ UNCHANGED kept /\ Visited(a)
     \/ /\ m \in Loaded(a) /\ ~Needed(a, m)
        /\ kept' = [kept EXCEPT ![a] = @ \cup {m}] /\ UNCHANGED kmod /\ Visited(a)
     \/ /\ m \notin Loaded(a) \/ Needed(a, m)
        /\ UNCHANGED <<kmod, kept>> /\ Visited(a)
     \/ UNCHANGED <<kmod, kept>> /\ Dies
  /\ UNCHANGED <<opts, inst, file, nullblk>>

-----------------------------------------------------------------------------
(***************************************************************************)
(* load_module                                                             *)
(***************************************************************************)

\* The entry is deleted and its handle used right after: cfg_get_oid fails.
LoadDropsEmpty(a) ==
  /\ Visit("load", a) /\ inst[a][Step.tool] = "empty"
  /\ Drop(a, Step.tool) \/ UNCHANGED inst
  /\ Dies
  /\ UNCHANGED <<file, kmod, nullblk>> /\ UNCHANGED otherVars

\* What insmod needs to succeed
Insertable(a, m) == m \in file[a] /\ Needs[m] \subseteq Loaded(a) /\ m \notin Loaded(a)

\* Mutant: every module can fail
LoadForgiving(a) ==
  LET m == Step.tool IN
  /\ Visit("load", a) /\ inst[a][m] = "file"
  /\ \/ Insertable(a, m) /\ kmod' = [kmod EXCEPT ![a][m] = "new"]
     \/ UNCHANGED kmod
  /\ Visited(a)
  /\ UNCHANGED <<inst, file, nullblk>> /\ UNCHANGED otherVars

Load(a) ==
  LET m == Step.tool IN
  /\ Visit("load", a) /\ inst[a][m] = "file"
  /\ \/ /\ Insertable(a, m)
        /\ kmod' = [kmod EXCEPT ![a][m] = "new"] /\ Visited(a)
     \/ Step.optional /\ UNCHANGED kmod /\ Visited(a)
     \/ UNCHANGED kmod /\ Dies
  /\ UNCHANGED <<inst, file, nullblk>> /\ UNCHANGED otherVars

-----------------------------------------------------------------------------
(***************************************************************************)
(* apply_nullblk                                                           *)
(***************************************************************************)

\* Mutant: the module's name where the agent's belongs
NullblkSwapped(a) ==
  /\ Visit("nullblk", a)
  /\ nullblk' = nullblk \cup {Step.tool} /\ Visited(a)
  /\ UNCHANGED <<inst, file, kmod>> /\ UNCHANGED otherVars

\* The parameters of a loaded module cannot be changed: TE_EEXIST, ignored.
Nullblk(a) ==
  /\ Visit("nullblk", a)
  /\ \/ a \in nullblk /\ UNCHANGED nullblk /\ Visited(a)
     \/ a \notin nullblk /\ nullblk' = nullblk \cup {a} /\ Visited(a)
     \/ UNCHANGED nullblk /\ Dies
  /\ UNCHANGED <<inst, file, kmod>> /\ UNCHANGED otherVars

Next ==
  \/ \E op \in {"copy", "unload", "load"} : Begin(op, Listed(Step.tool))
  \/ Begin("nullblk", NullAgents)
  \/ \E a \in Agents : \/ CopyDropsEmpty(a) \/ CopyStores(a)
                       \/ Unload(a)
                       \/ LoadDropsEmpty(a) \/ Load(a)
                       \/ Nullblk(a)
  \/ EndLoop \/ CallStep \/ Success
  \/ outcome # "running" /\ UNCHANGED vars

Spec == Init /\ [][Next]_vars

-----------------------------------------------------------------------------

\* "Load modules specified in /local:<agent>/tools:/" (prologue.c:277): after a passed
\* prologue that loads modules, every module listed for an agent is the copied one,
\* never one an earlier session left behind, although the results of rmmod are
\* ignored; and every agent that asked for null block devices has them.
PassedDelivers ==
  outcome = "pass" =>
    /\ opts.load => \A a \in Agents, m \in Mandatory :
                      inst[a][m] # "none" => kmod[a][m] = "new"
    /\ NullAgents \subseteq nullblk

\* Unloading goes from the modules that need others to those they need, so that no
\* module stays because rmmod came too early: when loading begins, a listed module of an
\* earlier session is still there only if its own rmmod failed when nothing needed it
\* any more, or if something that is still there needs it.
Explained(a, m) == m \in kept[a] \/ Needed(a, m)

OldStaysExplained ==
  At("load") => \A a \in Agents, m \in Mandatory :
                  inst[a][m] # "none" /\ kmod[a][m] = "old" => Explained(a, m)

\* Loading goes the other way: insmod is only called when all the module needs and the
\* agent lists has been loaded.
LoadedAfterNeeds ==
  \A a \in Agents :
    Visit("load", a) => \A d \in Needs[Step.tool] : inst[a][d] = "file" => d \in Loaded(a)

\* A module that "can_fail" (prologue.c:279) does not fail the prologue by being listed
\* without a file, as conf/cs.conf.tools lists libcrc32c; copy_tool goes on after it has
\* deleted such an entry (prologue.c:81), load_module does not.
EmptyEntryIsSkipped ==
  [][\A a \in Agents : inst[a]["libcrc32c"] = "empty" /\ inst'[a]["libcrc32c"] = "none"
       => outcome' # "fail"]_vars
=============================================================================
