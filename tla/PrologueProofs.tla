--------------------------- MODULE PrologueProofs ---------------------------
(***************************************************************************)
(* Proofs about Prologue, for any agents, listings and options, and any    *)
(* dependencies of the modules within their stacks.                        *)
(***************************************************************************)
EXTENDS Prologue, CommonLemmas

-----------------------------------------------------------------------------
(***************************************************************************)
(* The plan: its first part only copies, its second part only unloads,     *)
(* and what is loaded after that is loaded in the order of the stacks.     *)
(***************************************************************************)

Steps == [op : {"copy", "call", "unload", "load", "nullblk"},
          tool : Tools \cup {"update_agents_path", "cfg_synchronize", "null_blk", "networks"},
          optional : BOOLEAN]

LEMMA EachSteps ==
  ASSUME NEW op \in {"copy", "unload", "load"}, NEW tools \in Seq(Tools)
  PROVE  /\ Each(op, tools) \in Seq(Steps)
         /\ Len(Each(op, tools)) = Len(tools)
         /\ \A k \in DOMAIN tools : Each(op, tools)[k] = Do(op, tools[k])
<1>1. Each(op, tools) = [k \in 1..Len(tools) |-> Do(op, tools[k])]
  BY DEF Each
<1>2. \A k \in 1..Len(tools) : Do(op, tools[k]) \in Steps
  BY DEF Do, Steps
<1>3. QED
  BY <1>1, <1>2

LEMMA UnloadSteps ==
  /\ UnloadPlan \in Seq(Steps) /\ Len(UnloadPlan) = 7
  /\ UnloadPlan[1] = Do("unload", "nvme-tcp")
  /\ UnloadPlan[2] = Do("unload", "nvme-fabrics")
  /\ UnloadPlan[3] = Do("unload", "nvme")
  /\ UnloadPlan[4] = Do("unload", "nvme-core")
  /\ UnloadPlan[5] = Do("unload", "nvmet-tcp")
  /\ UnloadPlan[6] = Do("unload", "nvmet")
  /\ UnloadPlan[7] = Do("call", "cfg_synchronize")
<1> DEFINE tools == <<"nvme-tcp", "nvme-fabrics", "nvme", "nvme-core", "nvmet-tcp", "nvmet">>
           each == Each("unload", tools)
<1>1. tools \in Seq(Tools) /\ Len(tools) = 6 /\ DOMAIN tools = 1..6
  BY DEF Tools
<1>2. /\ tools[1] = "nvme-tcp" /\ tools[2] = "nvme-fabrics" /\ tools[3] = "nvme"
      /\ tools[4] = "nvme-core" /\ tools[5] = "nvmet-tcp" /\ tools[6] = "nvmet"
  OBVIOUS
<1>3. UnloadPlan = each \o <<Do("call", "cfg_synchronize")>>
  BY DEF UnloadPlan
<1> HIDE DEF tools
<1>4. each \in Seq(Steps) /\ Len(each) = 6 /\ \A k \in 1..6 : each[k] = Do("unload", tools[k])
  BY <1>1, EachSteps
<1> DEFINE call == <<Do("call", "cfg_synchronize")>>
<1>5. call \in Seq(Steps) /\ Len(call) = 1 /\ call[1] = Do("call", "cfg_synchronize")
  BY DEF Do, Steps
<1> HIDE DEF each, call
<1>6. /\ UnloadPlan \in Seq(Steps) /\ Len(UnloadPlan) = 7
      /\ \A k \in 1..6 : UnloadPlan[k] = each[k]
      /\ UnloadPlan[7] = Do("call", "cfg_synchronize")
  <2>1. each \in Seq(Steps) /\ call \in Seq(Steps)
    BY <1>4, <1>5
  <2>2. UnloadPlan = each \o call
    BY <1>3 DEF call
  <2>3. /\ UnloadPlan \in Seq(Steps) /\ Len(UnloadPlan) = Len(each) + Len(call)
        /\ \A k \in 1..Len(each) : UnloadPlan[k] = each[k]
        /\ \A k \in (Len(each) + 1)..(Len(each) + Len(call)) :
              UnloadPlan[k] = call[k - Len(each)]
    BY <2>1, <2>2, Concatenation
  <2>4. QED
    BY <1>4, <1>5, <2>3
<1>7. QED
  BY <1>2, <1>4, <1>6

LEMMA LoadSteps ==
  /\ LoadPlan \in Seq(Steps) /\ Len(LoadPlan) = 7
  /\ LoadPlan[1] = CanFail("load", "libcrc32c")
  /\ LoadPlan[2] = Do("load", "nvme-core")
  /\ LoadPlan[3] = Do("load", "nvme")
  /\ LoadPlan[4] = Do("load", "nvme-fabrics")
  /\ LoadPlan[5] = Do("load", "nvme-tcp")
  /\ LoadPlan[6] = Do("load", "nvmet")
  /\ LoadPlan[7] = Do("load", "nvmet-tcp")
<1> DEFINE tools == <<"nvme-core", "nvme", "nvme-fabrics", "nvme-tcp", "nvmet", "nvmet-tcp">>
           each == Each("load", tools)
           first == CanFail("load", "libcrc32c")
<1>1. tools \in Seq(Tools) /\ Len(tools) = 6 /\ DOMAIN tools = 1..6
  BY DEF Tools
<1>2. /\ tools[1] = "nvme-core" /\ tools[2] = "nvme" /\ tools[3] = "nvme-fabrics"
      /\ tools[4] = "nvme-tcp" /\ tools[5] = "nvmet" /\ tools[6] = "nvmet-tcp"
  OBVIOUS
<1> DEFINE call == <<first>>
<1>4. LoadPlan = call \o each
  BY DEF LoadPlan
<1> HIDE DEF tools
<1>5. each \in Seq(Steps) /\ Len(each) = 6 /\ \A k \in 1..6 : each[k] = Do("load", tools[k])
  BY <1>1, EachSteps
<1>6. call \in Seq(Steps) /\ Len(call) = 1 /\ call[1] = first
  BY DEF Steps, Tools, CanFail
<1> HIDE DEF each, first, call
<1>7. /\ LoadPlan \in Seq(Steps) /\ Len(LoadPlan) = 7 /\ LoadPlan[1] = first
      /\ \A k \in 1..6 : LoadPlan[k + 1] = each[k]
  <2>1. each \in Seq(Steps) /\ call \in Seq(Steps)
    BY <1>5, <1>6
  <2>2. /\ LoadPlan \in Seq(Steps) /\ Len(LoadPlan) = Len(call) + Len(each)
        /\ \A k \in 1..Len(call) : LoadPlan[k] = call[k]
        /\ \A k \in (Len(call) + 1)..(Len(call) + Len(each)) :
              LoadPlan[k] = each[k - Len(call)]
    BY <1>4, <2>1, Concatenation
  <2>3. Len(call) = 1 /\ Len(each) = 6 /\ call[1] = first
    BY <1>5, <1>6
  <2>4. \A k \in 1..6 : k + 1 \in 2..7 /\ (k + 1) - 1 = k
    OBVIOUS
  <2>5. QED
    BY <2>2, <2>3, <2>4
<1>8. QED
  BY <1>2, <1>5, <1>7 DEF first

LEMMA CopySteps ==
  ASSUME NEW only
  PROVE  /\ CopyPlan(only) \in Seq(Steps)
         /\ \A k \in DOMAIN CopyPlan(only) : CopyPlan(only)[k].op = "copy"
                                           /\ CopyPlan(only)[k].tool \in Tools
<1> DEFINE tools == <<"nvme-cli", "fio", "libcrc32c", "nvme-core", "nvme", "nvme-tcp",
                      "nvme-fabrics", "nvmet", "nvmet-tcp">>
<1>1. tools \in Seq(Tools)
  BY DEF Tools
<1>2. CopyPlan(only) = Each("copy", Kept(tools, only))
  BY DEF CopyPlan
<1> HIDE DEF tools
<1>3. Kept(tools, only) \in Seq(Tools)
  BY <1>1, KeptProperties
<1> DEFINE chosen == Kept(tools, only)
<1> HIDE DEF chosen
<1>4. chosen \in Seq(Tools) /\ CopyPlan(only) = Each("copy", chosen)
  BY <1>2, <1>3 DEF chosen
<1>5. /\ Each("copy", chosen) \in Seq(Steps) /\ Len(Each("copy", chosen)) = Len(chosen)
      /\ \A k \in DOMAIN chosen : Each("copy", chosen)[k] = Do("copy", chosen[k])
  BY <1>4, EachSteps
<1>6. DOMAIN Each("copy", chosen) = DOMAIN chosen
  BY <1>4, <1>5
<1>7. ASSUME NEW k \in DOMAIN chosen
      PROVE  Each("copy", chosen)[k].op = "copy" /\ Each("copy", chosen)[k].tool \in Tools
  <2>1. Each("copy", chosen)[k] = Do("copy", chosen[k]) /\ chosen[k] \in Tools
    BY <1>4, <1>5
  <2>2. QED
    BY <2>1 DEF Do
<1>8. QED
  BY <1>4, <1>5, <1>6, <1>7

\* The three parts of the plan: the copying, the modules, and the rest
CopyPart == (IF opts.copy THEN CopyPlan(opts.only) ELSE <<>>) \o <<Do("call", "update_agents_path")>>
ModulePart == IF opts.load THEN UnloadPlan \o LoadPlan ELSE <<>>
LastPart == <<Do("nullblk", "null_blk"), Do("call", "networks")>>
Base == Len(CopyPart)

LEMMA CopyPartSteps ==
  /\ CopyPart \in Seq(Steps) /\ Base \in Nat
  /\ \A k \in 1..Base : \/ CopyPart[k].op = "copy" /\ CopyPart[k].tool \in Tools
                        \/ CopyPart[k].op = "call"
<1> DEFINE copy == IF opts.copy THEN CopyPlan(opts.only) ELSE <<>>
           call == <<Do("call", "update_agents_path")>>
<1>1. /\ copy \in Seq(Steps)
      /\ \A k \in 1..Len(copy) : copy[k].op = "copy" /\ copy[k].tool \in Tools
  <2>1. CASE opts.copy
    <3> DEFINE plan == CopyPlan(opts.only)
    <3>1. plan \in Seq(Steps) /\ \A k \in DOMAIN plan : plan[k].op = "copy" /\ plan[k].tool \in Tools
      BY CopySteps
    <3>2. copy = plan
      BY <2>1
    <3> HIDE DEF plan
    <3>3. QED
      BY <3>1, <3>2
  <2>2. CASE ~opts.copy
    <3>1. copy = <<>>
      BY <2>2
    <3> HIDE DEF copy
    <3>2. copy \in Seq(Steps) /\ Len(copy) = 0
      BY <3>1
    <3>3. QED
      BY <3>2
  <2>3. QED
    BY <2>1, <2>2
<1>2. call \in Seq(Steps) /\ Len(call) = 1 /\ call[1].op = "call"
  BY DEF Do, Steps
<1>3. CopyPart = copy \o call
  BY DEF CopyPart
<1> HIDE DEF copy, call
<1>4. /\ CopyPart \in Seq(Steps) /\ Len(CopyPart) = Len(copy) + Len(call)
      /\ \A k \in 1..Len(copy) : CopyPart[k] = copy[k]
      /\ \A k \in (Len(copy) + 1)..(Len(copy) + Len(call)) : CopyPart[k] = call[k - Len(copy)]
  <2>1. copy \in Seq(Steps) /\ call \in Seq(Steps)
    BY <1>1, <1>2
  <2>2. QED
    BY <1>3, <2>1, Concatenation
<1>5. Base \in Nat /\ Base = Len(copy) + 1 /\ Len(copy) \in Nat
  BY <1>1, <1>2, <1>4 DEF Base
<1>6. CopyPart[Base] = call[1]
  <2>1. Base \in (Len(copy) + 1)..(Len(copy) + Len(call)) /\ Base - Len(copy) = 1
    BY <1>2, <1>5
  <2>2. QED
    BY <1>4, <2>1
<1>7. \A k \in 1..Base : k \in 1..Len(copy) \/ k = Base
  BY <1>5
<1>8. QED
  BY <1>1, <1>2, <1>4, <1>5, <1>6, <1>7

LEMMA ModulePartSteps ==
  /\ ModulePart \in Seq(Steps) /\ Len(ModulePart) = (IF opts.load THEN 14 ELSE 0)
  /\ opts.load => /\ \A k \in 1..7 : ModulePart[k] = UnloadPlan[k]
                  /\ \A k \in 8..14 : ModulePart[k] = LoadPlan[k - 7]
<1>1. CASE opts.load
  <2>1. UnloadPlan \in Seq(Steps) /\ LoadPlan \in Seq(Steps) /\ ModulePart = UnloadPlan \o LoadPlan
    BY <1>1, UnloadSteps, LoadSteps DEF ModulePart
  <2>2. /\ ModulePart \in Seq(Steps) /\ Len(ModulePart) = Len(UnloadPlan) + Len(LoadPlan)
        /\ \A k \in 1..Len(UnloadPlan) : ModulePart[k] = UnloadPlan[k]
        /\ \A k \in (Len(UnloadPlan) + 1)..(Len(UnloadPlan) + Len(LoadPlan)) :
              ModulePart[k] = LoadPlan[k - Len(UnloadPlan)]
    BY <2>1, Concatenation
  <2>3. Len(UnloadPlan) = 7 /\ Len(LoadPlan) = 7
    BY UnloadSteps, LoadSteps
  <2>4. QED
    BY <1>1, <2>2, <2>3
<1>2. CASE ~opts.load
  BY <1>2 DEF ModulePart
<1>3. QED
  BY <1>1, <1>2

LEMMA PlanSteps ==
  /\ Plan \in Seq(Steps) /\ Len(Plan) = Base + Len(ModulePart) + 2
  /\ \A k \in 1..Base : Plan[k] = CopyPart[k]
  /\ \A k \in (Base + 1)..(Base + Len(ModulePart)) : Plan[k] = ModulePart[k - Base]
  /\ Plan[Base + Len(ModulePart) + 1] = Do("nullblk", "null_blk")
  /\ Plan[Base + Len(ModulePart) + 2] = Do("call", "networks")
<1> DEFINE both == CopyPart \o ModulePart
<1>1. CopyPart \in Seq(Steps) /\ ModulePart \in Seq(Steps) /\ Base \in Nat /\ Len(ModulePart) \in Nat
  BY CopyPartSteps, ModulePartSteps
<1>2. LastPart \in Seq(Steps) /\ Len(LastPart) = 2
      /\ LastPart[1] = Do("nullblk", "null_blk") /\ LastPart[2] = Do("call", "networks")
  BY DEF Do, Steps, LastPart
<1>3. Plan = both \o LastPart
  BY DEF Plan, CopyPart, ModulePart, LastPart
<1>4. /\ both \in Seq(Steps) /\ Len(both) = Len(CopyPart) + Len(ModulePart)
      /\ \A k \in 1..Len(CopyPart) : both[k] = CopyPart[k]
      /\ \A k \in (Len(CopyPart) + 1)..(Len(CopyPart) + Len(ModulePart)) : both[k] = ModulePart[k - Len(CopyPart)]
  BY <1>1, Concatenation
<1> HIDE DEF both
<1>5. /\ Plan \in Seq(Steps) /\ Len(Plan) = Len(both) + Len(LastPart)
      /\ \A k \in 1..Len(both) : Plan[k] = both[k]
      /\ \A k \in (Len(both) + 1)..(Len(both) + Len(LastPart)) : Plan[k] = LastPart[k - Len(both)]
  <2>1. both \in Seq(Steps) /\ LastPart \in Seq(Steps)
    BY <1>2, <1>4
  <2>2. QED
    BY <1>3, <2>1, Concatenation
<1> DEFINE b == Base
           n == Len(both)
<1>6. n = b + Len(ModulePart) /\ Len(CopyPart) = b /\ n \in Nat
  BY <1>1, <1>4 DEF Base
<1>7. /\ n + 1 \in (n + 1)..(n + 2) /\ (n + 1) - n = 1
      /\ n + 2 \in (n + 1)..(n + 2) /\ (n + 2) - n = 2
  BY <1>6
<1>8. Plan[n + 1] = LastPart[1] /\ Plan[n + 2] = LastPart[2] /\ Len(Plan) = n + 2
  BY <1>2, <1>5, <1>7
<1>9. /\ \A k \in 1..b : k \in 1..n
      /\ \A k \in (b + 1)..(b + Len(ModulePart)) : k \in 1..n
  BY <1>1, <1>6
<1>10. /\ \A k \in 1..b : Plan[k] = CopyPart[k]
       /\ \A k \in (b + 1)..(b + Len(ModulePart)) : Plan[k] = ModulePart[k - b]
  BY <1>4, <1>5, <1>6, <1>9
<1>11. QED
  BY <1>2, <1>5, <1>6, <1>8, <1>10
\* Where the modules are unloaded and loaded
UnloadRank(m) ==
  CASE m = "nvme-tcp" -> 1 [] m = "nvme-fabrics" -> 2 [] m = "nvme" -> 3
    [] m = "nvme-core" -> 4 [] m = "nvmet-tcp" -> 5 [] OTHER -> 6

LoadRank(m) ==
  CASE m = "libcrc32c" -> 8 [] m = "nvme-core" -> 9 [] m = "nvme" -> 10
    [] m = "nvme-fabrics" -> 11 [] m = "nvme-tcp" -> 12 [] m = "nvmet" -> 13 [] OTHER -> 14

LEMMA ModulePartRanks ==
  ASSUME opts.load
  PROVE  /\ \A i \in 1..6 : /\ ModulePart[i].op = "unload" /\ ModulePart[i].tool \in Mandatory
                            /\ i = UnloadRank(ModulePart[i].tool)
         /\ ModulePart[7].op = "call"
         /\ \A i \in 8..14 : /\ ModulePart[i].op = "load" /\ ModulePart[i].tool \in Modules
                             /\ ModulePart[i].tool # "libcrc32c" => ModulePart[i].optional = FALSE
                             /\ i = LoadRank(ModulePart[i].tool)
<1>1. ASSUME NEW i \in 1..6
      PROVE  /\ ModulePart[i].op = "unload" /\ ModulePart[i].tool \in Mandatory
             /\ i = UnloadRank(ModulePart[i].tool)
  <2>1. i \in 1..7 /\ (i = 1 \/ i = 2 \/ i = 3 \/ i = 4 \/ i = 5 \/ i = 6)
    OBVIOUS
  <2>2. ModulePart[i] = UnloadPlan[i]
    BY <2>1, ModulePartSteps
  <2>3. QED
    BY <2>1, <2>2, UnloadSteps DEF Do, UnloadRank, Mandatory, Modules, Tools
<1>2. ModulePart[7].op = "call"
  <2>1. ModulePart[7] = UnloadPlan[7]
    BY ModulePartSteps
  <2>2. QED
    BY <2>1, UnloadSteps DEF Do
<1>3. ASSUME NEW i \in 8..14
      PROVE  /\ ModulePart[i].op = "load" /\ ModulePart[i].tool \in Modules
             /\ ModulePart[i].tool # "libcrc32c" => ModulePart[i].optional = FALSE
             /\ i = LoadRank(ModulePart[i].tool)
  <2>1. i = 8 \/ i = 9 \/ i = 10 \/ i = 11 \/ i = 12 \/ i = 13 \/ i = 14
    OBVIOUS
  <2>2. ModulePart[i] = LoadPlan[i - 7]
    BY ModulePartSteps
  <2>3. QED
    BY <2>1, <2>2, LoadSteps DEF Do, CanFail, LoadRank, Modules, Tools
<1>4. QED
  BY <1>1, <1>2, <1>3

LEMMA RankedModulePart ==
  ASSUME opts.load, NEW m \in Mandatory
  PROVE  /\ UnloadRank(m) \in 1..6 /\ LoadRank(m) \in 9..14
         /\ ModulePart[UnloadRank(m)] = Do("unload", m) /\ ModulePart[LoadRank(m)] = Do("load", m)
<1>1. \/ m = "nvme-core" \/ m = "nvme" \/ m = "nvme-fabrics" \/ m = "nvme-tcp"
      \/ m = "nvmet" \/ m = "nvmet-tcp"
  BY DEF Mandatory, Modules, Tools
<1>2. /\ UnloadRank(m) \in 1..6 /\ UnloadPlan[UnloadRank(m)] = Do("unload", m)
      /\ LoadRank(m) \in 9..14 /\ LoadPlan[LoadRank(m) - 7] = Do("load", m)
  BY <1>1, UnloadSteps, LoadSteps DEF UnloadRank, LoadRank
<1> DEFINE u == UnloadRank(m)
           l == LoadRank(m)
<1>3. u \in 1..7 /\ l \in 8..14
  BY <1>2
<1> HIDE DEF u, l
<1>4. ModulePart[u] = UnloadPlan[u] /\ ModulePart[l] = LoadPlan[l - 7]
  BY <1>3, ModulePartSteps
<1>5. QED
  BY <1>2, <1>4 DEF u, l

\* What a module may need is loaded before it, and unloaded after it but for the
\* nvme-core of a target.
LEMMA StackRanks ==
  ASSUME NEW m \in Modules, NEW d \in Needs[m]
  PROVE  /\ m \in Mandatory /\ d \in Mandatory /\ LoadRank(d) < LoadRank(m)
         /\ \/ UnloadRank(m) < UnloadRank(d)
            \/ m \in TargetModules /\ d \in Mandatory \ TargetModules
<1>1. d \in Stack(m)
  BY NeedsAssumption
<1>2. QED
  BY <1>1 DEF Stack, Mandatory, Modules, Tools, TargetModules, UnloadRank, LoadRank

LEMMA PlanOps ==
  ASSUME NEW k \in DOMAIN Plan
  PROVE  /\ k \in Nat /\ Plan[k] \in Steps
         /\ Plan[k].op = "copy" => Plan[k].tool \in Tools
         /\ Plan[k].op = "unload" =>
              /\ opts.load /\ Plan[k].tool \in Mandatory
              /\ k = Base + UnloadRank(Plan[k].tool)
         /\ Plan[k].op = "load" =>
              /\ opts.load /\ Plan[k].tool \in Modules
              /\ Plan[k].tool # "libcrc32c" => Plan[k].optional = FALSE
              /\ k = Base + LoadRank(Plan[k].tool)
<1> DEFINE Fine == /\ Plan[k].op = "copy" => Plan[k].tool \in Tools
                   /\ Plan[k].op = "unload" =>
                        /\ opts.load /\ Plan[k].tool \in Mandatory
                        /\ k = Base + UnloadRank(Plan[k].tool)
                   /\ Plan[k].op = "load" =>
                        /\ opts.load /\ Plan[k].tool \in Modules
                        /\ Plan[k].tool # "libcrc32c" => Plan[k].optional = FALSE
                        /\ k = Base + LoadRank(Plan[k].tool)
           b == Base
           n == Len(ModulePart)
<1>1. b \in Nat /\ n \in Nat /\ n <= 14 /\ (n # 0 => opts.load)
  BY CopyPartSteps, ModulePartSteps
<1>2. Plan \in Seq(Steps) /\ DOMAIN Plan = 1..(b + n + 2)
  BY PlanSteps
<1>3. k \in Nat /\ Plan[k] \in Steps
  BY PlanSteps
<1>4. ASSUME k \in 1..b PROVE Fine
  <2>1. Plan[k] = CopyPart[k]
    BY <1>4, PlanSteps
  <2>2. (CopyPart[k].op = "copy" /\ CopyPart[k].tool \in Tools) \/ CopyPart[k].op = "call"
    BY <1>4, CopyPartSteps
  <2>3. QED
    BY <2>1, <2>2
<1>5. ASSUME k \in (b + 1)..(b + n) PROVE Fine
  <2> DEFINE i == k - b
  <2>1. Plan[k] = ModulePart[i]
    BY <1>5, PlanSteps
  <2> HIDE DEF b, n
  <2>2. n # 0 /\ i \in Nat /\ k = b + i /\ (i \in 1..6 \/ i = 7 \/ i \in 8..14)
    BY <1>1, <1>5
  <2> HIDE DEF i
  <2>3. opts.load
    BY <1>1, <2>2
  <2>4. CASE i \in 1..6
    <3>1. Plan[k].op = "unload" /\ Plan[k].tool \in Mandatory /\ i = UnloadRank(Plan[k].tool)
      BY <2>1, <2>3, <2>4, ModulePartRanks
    <3>2. QED
      BY <2>2, <2>3, <3>1 DEF b
  <2>5. CASE i = 7
    <3>1. Plan[k].op = "call"
      BY <2>1, <2>3, <2>5, ModulePartRanks
    <3>2. QED
      BY <3>1
  <2>6. CASE i \in 8..14
    <3>1. /\ Plan[k].op = "load" /\ Plan[k].tool \in Modules
          /\ Plan[k].tool # "libcrc32c" => Plan[k].optional = FALSE
          /\ i = LoadRank(Plan[k].tool)
      <4>1. /\ ModulePart[i].op = "load" /\ ModulePart[i].tool \in Modules
            /\ ModulePart[i].tool # "libcrc32c" => ModulePart[i].optional = FALSE
            /\ i = LoadRank(ModulePart[i].tool)
        BY <2>3, <2>6, ModulePartRanks
      <4>2. QED
        BY <2>1, <4>1, Zenon
    <3>2. QED
      BY <2>2, <2>3, <3>1 DEF b
  <2>7. QED
    BY <2>2, <2>4, <2>5, <2>6
<1>6. ASSUME k = b + n + 1 \/ k = b + n + 2 PROVE Fine
  <2>1. Plan[k].op \in {"nullblk", "call"}
    BY <1>6, PlanSteps DEF Do
  <2>2. QED
    BY <2>1
<1> HIDE DEF b, n, Fine
<1>7. k \in 1..b \/ k \in (b + 1)..(b + n) \/ k = b + n + 1 \/ k = b + n + 2
  BY <1>1, <1>2
<1>8. Fine
  BY <1>4, <1>5, <1>6, <1>7
<1>9. QED
  BY <1>3, <1>8 DEF Fine

LEMMA PlanHas ==
  ASSUME opts.load, NEW m \in Mandatory
  PROVE  /\ Base + UnloadRank(m) \in DOMAIN Plan
         /\ Plan[Base + UnloadRank(m)] = Do("unload", m)
         /\ Base + LoadRank(m) \in DOMAIN Plan
         /\ Plan[Base + LoadRank(m)] = Do("load", m)
<1> DEFINE b == Base
           u == UnloadRank(m)
           l == LoadRank(m)
<1>1. u \in 1..14 /\ l \in 1..14 /\ ModulePart[u] = Do("unload", m) /\ ModulePart[l] = Do("load", m)
  BY RankedModulePart
<1>2. b \in Nat /\ Len(ModulePart) = 14 /\ DOMAIN Plan = 1..(b + 16)
  BY CopyPartSteps, ModulePartSteps, PlanSteps
<1>3. \A k \in (b + 1)..(b + 14) : Plan[k] = ModulePart[k - b]
  BY <1>2, PlanSteps
<1> HIDE DEF b, u, l
<1>4. /\ b + u \in (b + 1)..(b + 14) /\ (b + u) - b = u /\ b + u \in 1..(b + 16)
      /\ b + l \in (b + 1)..(b + 14) /\ (b + l) - b = l /\ b + l \in 1..(b + 16)
  BY <1>1, <1>2
<1>5. Plan[b + u] = ModulePart[u] /\ Plan[b + l] = ModulePart[l]
  BY <1>3, <1>4
<1>6. QED
  BY <1>1, <1>2, <1>4, <1>5 DEF b, u, l

LEMMA NullblkIsPlanned == \E k \in DOMAIN Plan : Plan[k].op = "nullblk"
<1> DEFINE n == Base + Len(ModulePart)
<1>1. Base \in Nat /\ Len(ModulePart) \in Nat
  BY CopyPartSteps, ModulePartSteps
<1>2. n \in Nat /\ Len(Plan) = n + 2 /\ Plan[n + 1] = Do("nullblk", "null_blk")
      /\ DOMAIN Plan = 1..Len(Plan)
  BY <1>1, PlanSteps
<1> HIDE DEF n
<1>3. QED
  BY <1>2 DEF Do

\* What the plan depends on does not change.
LEMMA PlanStays == [Next]_vars => opts' = opts /\ Plan' = Plan
<1>1. [Next]_vars => opts' = opts
  BY DEF Next, Begin, CopyDropsEmpty, CopyStores, Unload, LoadDropsEmpty, Load, Nullblk,
         EndLoop, CallStep, Success, otherVars, vars
<1>2. opts' = opts => Plan' = Plan
  BY DEF Plan
<1>3. QED
  BY <1>1, <1>2

-----------------------------------------------------------------------------
(***************************************************************************)
(* Types                                                                   *)
(***************************************************************************)

LEMMA InitType == Init => TypeOK
<1> SUFFICES ASSUME Init PROVE TypeOK
  OBVIOUS
<1>1. pc \in 1..(Len(Plan) + 1)
  BY PlanSteps DEF Init
<1>2. opts \in Options /\ inst \in [Agents -> [Tools -> Entries]] /\ nullblk \in SUBSET Agents
  BY PrologueAssumption DEF Init
<1>3. kmod \in [Agents -> [Modules -> {"out", "old", "new"}]]
  <2>1. kmod \in [Agents -> [Modules -> {"out", "old"}]]
    BY DEF Init
  <2>2. QED
    BY <2>1
<1>4. kept \in [Agents -> SUBSET Modules]
  BY DEF Init
<1>5. QED
  BY <1>1, <1>2, <1>3, <1>4 DEF Init, TypeOK

\* The history of failed calls of rmmod grows with them.
LEMMA KeptMoves ==
  ASSUME TypeOK, [Next]_vars
  PROVE  /\ kept' \in [Agents -> SUBSET Modules]
         /\ \A a \in Agents : kept[a] \subseteq kept'[a]
<1>1. kept \in [Agents -> SUBSET Modules]
  BY DEF TypeOK
<1>2. CASE kept' = kept
  BY <1>1, <1>2
<1>3. ASSUME NEW a \in Agents, NEW m \in Modules, kept' = [kept EXCEPT ![a] = @ \cup {m}]
      PROVE  /\ kept' \in [Agents -> SUBSET Modules]
             /\ \A b \in Agents : kept[b] \subseteq kept'[b]
  BY <1>1, <1>3
<1>4. ASSUME NEW a \in Agents, Unload(a)
      PROVE  kept' = kept \/ \E m \in Modules : kept' = [kept EXCEPT ![a] = @ \cup {m}]
  <2>1. Step.tool \in Modules
    BY <1>4, PlanOps DEF Unload, Visit, At, Running, Step, Mandatory
  <2>2. QED
    BY <1>4, <2>1 DEF Unload
<1>5. kept' = kept \/ \E a \in Agents : Unload(a)
  BY DEF Next, Begin, CopyDropsEmpty, CopyStores, LoadDropsEmpty, Load, Nullblk, EndLoop,
         CallStep, Success, otherVars, vars
<1>6. QED
  BY <1>2, <1>3, <1>4, <1>5

LEMMA TypeStep == TypeOK /\ [Next]_vars => TypeOK'
<1> SUFFICES ASSUME TypeOK, [Next]_vars PROVE TypeOK'
  OBVIOUS
<1>1. opts' = opts /\ kept' \in [Agents -> SUBSET Modules] /\ Plan' = Plan
  BY PlanStays, KeptMoves
<1>2. Plan \in Seq(Steps) /\ Len(Plan) \in Nat /\ DOMAIN Plan = 1..Len(Plan)
  BY PlanSteps
<1>3. (pc' = pc \/ (Running /\ pc' = pc + 1)) => pc' \in 1..(Len(Plan) + 1)
  BY <1>2 DEF TypeOK, Running
<1>4. /\ opts' \in Options /\ kept' \in [Agents -> SUBSET Modules]
      /\ (pc' = pc \/ (Running /\ pc' = pc + 1)) => pc' \in 1..(Len(Plan') + 1)
  BY <1>1, <1>3 DEF TypeOK
<1>5. ASSUME pc' = pc \/ (Running /\ pc' = pc + 1), looping' \in BOOLEAN, left' \in SUBSET Agents,
             inst' \in [Agents -> [Tools -> Entries]], file' \in [Agents -> SUBSET Tools],
             kmod' \in [Agents -> [Modules -> {"out", "old", "new"}]],
             nullblk' \in SUBSET Agents, outcome' \in {"running", "pass", "fail"}
      PROVE  TypeOK'
  BY <1>4, <1>5, Zenon DEF TypeOK
<1>6. /\ looping \in BOOLEAN /\ left \in SUBSET Agents
      /\ inst \in [Agents -> [Tools -> Entries]] /\ file \in [Agents -> SUBSET Tools]
      /\ kmod \in [Agents -> [Modules -> {"out", "old", "new"}]]
      /\ nullblk \in SUBSET Agents /\ outcome \in {"running", "pass", "fail"}
  BY Zenon DEF TypeOK
<1>7. Dies => /\ pc' = pc /\ looping' \in BOOLEAN /\ left' \in SUBSET Agents
              /\ outcome' \in {"running", "pass", "fail"}
  BY <1>6, Zenon DEF Dies
<1>8. ASSUME NEW a PROVE Visited(a) => /\ pc' = pc /\ looping' \in BOOLEAN
                                        /\ left' \in SUBSET Agents
                                        /\ outcome' \in {"running", "pass", "fail"}
  <2>1. left \ {a} \in SUBSET Agents
    BY <1>6
  <2>2. QED
    BY <1>6, <2>1, Zenon DEF Visited
<1>9. ASSUME NEW op, NEW agents \in SUBSET Agents, Begin(op, agents) PROVE TypeOK'
  <2>1. /\ pc' = pc /\ looping' \in BOOLEAN /\ left' \in SUBSET Agents
        /\ outcome' \in {"running", "pass", "fail"}
    BY <1>6, <1>7, <1>9, Zenon DEF Begin
  <2>2. QED
    BY <1>5, <1>6, <1>9, <2>1, Zenon DEF Begin
<1>10. CASE \E op \in {"copy", "unload", "load"} : Begin(op, Listed(Step.tool))
  <2>1. Listed(Step.tool) \in SUBSET Agents
    BY DEF Listed
  <2>2. QED
    BY <1>9, <1>10, <2>1
<1>11. CASE Begin("nullblk", NullAgents)
  BY <1>9, <1>11, PrologueAssumption
<1>12. ASSUME NEW tool \in Tools, NEW a \in Agents, Drop(a, tool)
       PROVE  inst' \in [Agents -> [Tools -> Entries]]
  BY <1>6, <1>12 DEF Drop, Entries
<1>12a. ASSUME NEW a \in Agents, NEW m \in Modules, NEW state \in {"out", "new"}
       PROVE  [kmod EXCEPT ![a][m] = state] \in [Agents -> [Modules -> {"out", "old", "new"}]]
  BY <1>6
<1>13. ASSUME NEW a \in Agents, CopyDropsEmpty(a) PROVE TypeOK'
  <2>1. Step.tool \in Tools
    BY <1>13, PlanOps DEF CopyDropsEmpty, Visit, At, Running, Step
  <2>2. inst' \in [Agents -> [Tools -> Entries]]
    BY <1>6, <1>12, <1>13, <2>1, Zenon DEF CopyDropsEmpty
  <2>3. Visited(a) \/ Dies
    BY <1>13 DEF CopyDropsEmpty
  <2>4. QED
    BY <1>5, <1>6, <1>7, <1>8, <1>13, <2>2, <2>3, Zenon DEF CopyDropsEmpty
<1>14. ASSUME NEW a \in Agents, CopyStores(a) PROVE TypeOK'
  <2>1. Step.tool \in Tools
    BY <1>14, PlanOps DEF CopyStores, Visit, At, Running, Step
  <2>2. file' \in [Agents -> SUBSET Tools]
    BY <1>6, <1>14, <2>1 DEF CopyStores
  <2>3. Visited(a) \/ Dies
    BY <1>14 DEF CopyStores
  <2>4. QED
    BY <1>5, <1>6, <1>7, <1>8, <1>14, <2>2, <2>3, Zenon DEF CopyStores
<1>15. ASSUME NEW a \in Agents, Unload(a) PROVE TypeOK'
  <2>1. kmod' = kmod \/ kmod' = [kmod EXCEPT ![a][Step.tool] = "out"]
    BY <1>15 DEF Unload
  <2>2. Step.tool \in Modules
    BY <1>15, PlanOps DEF Unload, Visit, At, Running, Step, Mandatory
  <2>3. [kmod EXCEPT ![a][Step.tool] = "out"] \in [Agents -> [Modules -> {"out", "old", "new"}]]
    BY <1>12a, <2>2
  <2>4. kmod' \in [Agents -> [Modules -> {"out", "old", "new"}]]
    BY <1>6, <2>1, <2>3, Zenon
  <2>5. Visited(a) \/ Dies
    BY <1>15 DEF Unload
  <2>6. QED
    BY <1>5, <1>6, <1>7, <1>8, <1>15, <2>4, <2>5, Zenon DEF Unload
<1>16. ASSUME NEW a \in Agents, LoadDropsEmpty(a) PROVE TypeOK'
  <2>1. Step.tool \in Tools
    BY <1>16, PlanOps DEF LoadDropsEmpty, Visit, At, Running, Step, Modules
  <2>2. inst' \in [Agents -> [Tools -> Entries]]
    BY <1>6, <1>12, <1>16, <2>1, Zenon DEF LoadDropsEmpty
  <2>3. QED
    BY <1>5, <1>6, <1>7, <1>16, <2>2, Zenon DEF LoadDropsEmpty
<1>17. ASSUME NEW a \in Agents, Load(a) PROVE TypeOK'
  <2>1. kmod' = kmod \/ kmod' = [kmod EXCEPT ![a][Step.tool] = "new"]
    BY <1>17 DEF Load
  <2>2. Step.tool \in Modules
    BY <1>17, PlanOps DEF Load, Visit, At, Running, Step, Mandatory
  <2>3. [kmod EXCEPT ![a][Step.tool] = "new"] \in [Agents -> [Modules -> {"out", "old", "new"}]]
    BY <1>12a, <2>2
  <2>4. kmod' \in [Agents -> [Modules -> {"out", "old", "new"}]]
    BY <1>6, <2>1, <2>3, Zenon
  <2>5. Visited(a) \/ Dies
    BY <1>17 DEF Load
  <2>6. QED
    BY <1>5, <1>6, <1>7, <1>8, <1>17, <2>4, <2>5, Zenon DEF Load
<1>18. ASSUME NEW a \in Agents, Nullblk(a) PROVE TypeOK'
  <2>1. nullblk' \in SUBSET Agents
    BY <1>6, <1>18 DEF Nullblk
  <2>2. Visited(a) \/ Dies
    BY <1>18 DEF Nullblk
  <2>3. QED
    BY <1>5, <1>6, <1>7, <1>8, <1>18, <2>1, <2>2, Zenon DEF Nullblk
<1>19. CASE EndLoop
  BY <1>5, <1>6, <1>19, Zenon DEF EndLoop
<1>20. CASE CallStep
  <2>1. Running
    BY <1>20 DEF CallStep, At
  <2>2. /\ pc' = pc \/ (Running /\ pc' = pc + 1)
        /\ looping' \in BOOLEAN /\ left' \in SUBSET Agents
        /\ outcome' \in {"running", "pass", "fail"}
    BY <1>6, <1>7, <1>20, <2>1, Zenon DEF CallStep
  <2>3. QED
    BY <1>5, <1>6, <1>20, <2>2, Zenon DEF CallStep
<1>21. CASE Success
  BY <1>5, <1>6, <1>21, Zenon DEF Success
<1>22. CASE UNCHANGED vars
  BY <1>5, <1>6, <1>22, Zenon DEF vars
<1>23. QED
  BY <1>10, <1>11, <1>13, <1>14, <1>15, <1>16, <1>17, <1>18, <1>19, <1>20, <1>21, <1>22
     DEF Next

\* Every step works on a tool of the tables, and on hosts that are there.
THEOREM TypeCorrect == Spec => []TypeOK
BY InitType, TypeStep, PTL DEF Spec
-----------------------------------------------------------------------------
(***************************************************************************)
(* What the steps taken so far have achieved.  Done(k, a): step k has been *)
(* taken for host a; Duty(k, a): what it leaves behind there from then on. *)
(***************************************************************************)

Done(k, a) == k < pc \/ (k = pc /\ looping /\ a \notin left)

LoadDuty(k, a) ==
  Plan[k].op = "load" /\ Plan[k].tool \in Mandatory /\ inst[a][Plan[k].tool] # "none" =>
    kmod[a][Plan[k].tool] = "new"

NullblkDuty(k, a) == Plan[k].op = "nullblk" /\ a \in NullAgents => a \in nullblk

UnloadDuty(k, a) ==
  /\ Plan[k].op = "unload" /\ inst[a][Plan[k].tool] # "none"
  /\ kmod[a][Plan[k].tool] = "old"
  => Explained(a, Plan[k].tool)

Duty(k, a) == LoadDuty(k, a) /\ NullblkDuty(k, a) /\ UnloadDuty(k, a)

DutiesDone == \A k \in DOMAIN Plan, a \in Agents : Done(k, a) => Duty(k, a)

LoopsHaveAgents == looping => pc \in DOMAIN Plan /\ Plan[pc].op # "call"

PassedAtTheEnd == outcome = "pass" => pc \notin DOMAIN Plan

\* An agent lists an initiator's modules or a target's, each with a file.
Sided ==
  /\ \A a \in Agents, m \in Mandatory : inst[a][m] # "empty"
  /\ \A a \in Agents : \/ \A m \in TargetModules : inst[a][m] = "none"
                       \/ \A m \in Mandatory \ TargetModules : inst[a][m] = "none"

\* rmmod is only called where the module is listed.
LeftIsListed ==
  looping /\ pc \in DOMAIN Plan /\ Plan[pc].op = "unload" =>
    \A a \in left : inst[a][Plan[pc].tool] # "none"

PlanInv ==
  TypeOK /\ LoopsHaveAgents /\ PassedAtTheEnd /\ Sided /\ LeftIsListed /\ DutiesDone

LEMMA PlanInvInit == Init => PlanInv
<1> SUFFICES ASSUME Init PROVE PlanInv
  OBVIOUS
<1>1. TypeOK
  BY InitType
<1>2. LoopsHaveAgents /\ PassedAtTheEnd
  BY DEF Init, LoopsHaveAgents, PassedAtTheEnd
<1>3. Sided
  <2>1. inst \in Listings
    BY DEF Init
  <2>2. QED
    BY <2>1, ListingAssumption DEF Sided
<1>3a. LeftIsListed
  BY DEF Init, LeftIsListed
<1>4. DutiesDone
  <2>1. \A k \in DOMAIN Plan : k \in 1..Len(Plan) /\ Len(Plan) \in Nat
    BY PlanSteps
  <2>2. \A k \in DOMAIN Plan, a \in Agents : ~Done(k, a)
    BY <2>1 DEF Init, Done
  <2>3. QED
    BY <2>2 DEF DutiesDone
<1>5. QED
  BY <1>1, <1>2, <1>3, <1>3a, <1>4 DEF PlanInv

\* Entries are only dropped when they are empty.
LEMMA DropSpares ==
  ASSUME PlanInv, NEW a \in Agents, NEW tool \in Tools, inst[a][tool] = "empty", Drop(a, tool)
  PROVE  /\ \A b \in Agents, m \in Mandatory : inst'[b][m] = inst[b][m]
         /\ tool \notin Mandatory
<1>1. tool \notin Mandatory
  BY DEF PlanInv, Sided
<1>2. \A b \in Agents, m \in Tools \ {tool} : inst'[b][m] = inst[b][m]
  BY DEF PlanInv, TypeOK, Drop
<1>3. Mandatory \subseteq Tools \ {tool}
  BY <1>1 DEF Mandatory, Modules
<1>4. QED
  BY <1>1, <1>2, <1>3

LEMMA EntriesStay ==
  ASSUME PlanInv, [Next]_vars
  PROVE  \A b \in Agents, m \in Mandatory : inst'[b][m] = inst[b][m]
<1>1. ASSUME NEW a \in Agents, NEW op, Visit(op, a), inst[a][Step.tool] = "empty",
             op \in {"copy", "load"}, Drop(a, Step.tool)
      PROVE  \A b \in Agents, m \in Mandatory : inst'[b][m] = inst[b][m]
  <2>1. Step.tool \in Tools
    BY <1>1, PlanOps DEF Visit, At, Running, Step, Modules
  <2>2. QED
    BY <1>1, <2>1, DropSpares
<1>2. ASSUME NEW a \in Agents, CopyDropsEmpty(a) \/ LoadDropsEmpty(a)
      PROVE  \A b \in Agents, m \in Mandatory : inst'[b][m] = inst[b][m]
  <2>1. inst' = inst \/ Drop(a, Step.tool)
    BY <1>2 DEF CopyDropsEmpty, LoadDropsEmpty
  <2>2. inst[a][Step.tool] = "empty" /\ (Visit("copy", a) \/ Visit("load", a))
    BY <1>2 DEF CopyDropsEmpty, LoadDropsEmpty
  <2>3. QED
    BY <1>1, <2>1, <2>2
<1>3. inst' = inst \/ \E a \in Agents : CopyDropsEmpty(a) \/ LoadDropsEmpty(a)
  BY DEF Next, Begin, CopyStores, Unload, Load, Nullblk, EndLoop, CallStep, Success, vars
<1>4. QED
  BY <1>2, <1>3

\* How a step may move the flow: not at all, into a loop, out of a loop, past a call
\* or to the end.
Waits  == pc' = pc /\ looping' = looping /\ (outcome' = outcome \/ outcome' = "fail")
Enters == pc' = pc /\ Running /\ Step.op # "call" /\ outcome' = outcome
Leaves == looping' = FALSE /\ Running /\ outcome' = outcome
Passes == looping' = looping /\ At("call") /\ outcome' = outcome
Ends   == pc' = pc /\ looping' = looping /\ outcome' = "pass" /\ pc \notin DOMAIN Plan

LEMMA FlowMoves == [Next]_vars => Waits \/ Enters \/ Leaves \/ Passes \/ Ends
<1> SUFFICES ASSUME [Next]_vars PROVE Waits \/ Enters \/ Leaves \/ Passes \/ Ends
  OBVIOUS
<1>1. ASSUME NEW op \in {"copy", "unload", "load", "nullblk"}, NEW agents, Begin(op, agents)
      PROVE  Waits \/ Enters
  BY <1>1 DEF Begin, Dies, At, Waits, Enters
<1>2. ASSUME NEW a, Visited(a) \/ Dies PROVE Waits
  BY <1>2, Zenon DEF Visited, Dies, Waits
<1>3. \A a : CopyDropsEmpty(a) \/ CopyStores(a) \/ Unload(a) \/ LoadDropsEmpty(a)
            \/ Load(a) \/ Nullblk(a) => Visited(a) \/ Dies
  BY Zenon DEF CopyDropsEmpty, CopyStores, Unload, LoadDropsEmpty, Load, Nullblk
<1>4. EndLoop => Leaves
  BY DEF EndLoop, Leaves
<1>5. CallStep => Passes \/ Waits
  BY Zenon DEF CallStep, Passes, Waits, Dies
<1>6. Success => Ends
  BY Zenon DEF Success, Ends
<1>7. UNCHANGED vars => Waits
  BY Zenon DEF vars, Waits
<1>8. QED
  BY <1>1, <1>2, <1>3, <1>4, <1>5, <1>6, <1>7 DEF Next

LEMMA FlowStep ==
  ASSUME PlanInv, [Next]_vars PROVE LoopsHaveAgents' /\ PassedAtTheEnd'
<1>1. Plan' = Plan
  BY PlanStays
<1>2. LoopsHaveAgents /\ PassedAtTheEnd
  BY DEF PlanInv
<1>3. CASE Waits
  BY <1>1, <1>2, <1>3 DEF Waits, LoopsHaveAgents, PassedAtTheEnd
<1>4. CASE Enters
  BY <1>1, <1>4 DEF Enters, Running, Step, LoopsHaveAgents, PassedAtTheEnd
<1>5. CASE Leaves
  BY <1>1, <1>5 DEF Leaves, Running, LoopsHaveAgents, PassedAtTheEnd
<1>6. CASE Passes
  BY <1>1, <1>2, <1>6 DEF Passes, At, Running, Step, LoopsHaveAgents, PassedAtTheEnd
<1>7. CASE Ends
  BY <1>1, <1>2, <1>7 DEF Ends, LoopsHaveAgents, PassedAtTheEnd
<1>8. QED
  BY <1>3, <1>4, <1>5, <1>6, <1>7, FlowMoves

\* What happens to the kernels: nothing, rmmod takes a module, or insmod adds one.
Removes(b, m) ==
  /\ Unload(b) /\ m = Step.tool /\ m \in Loaded(b) /\ b \in left
  /\ kmod' = [kmod EXCEPT ![b][m] = "out"]

Inserts(b, m) ==
  /\ Load(b) /\ m = Step.tool /\ Insertable(b, m)
  /\ kmod' = [kmod EXCEPT ![b][m] = "new"]

LEMMA KernelMoves ==
  ASSUME [Next]_vars
  PROVE  kmod' = kmod \/ \E b \in Agents, m \in Modules : Removes(b, m) \/ Inserts(b, m)
<1>1. ASSUME NEW b \in Agents, Unload(b)
      PROVE  kmod' = kmod \/ \E m \in Modules : Removes(b, m)
  <2>1. b \in left
    BY <1>1 DEF Unload, Visit
  <2>2. \/ kmod' = kmod
        \/ Step.tool \in Loaded(b) /\ kmod' = [kmod EXCEPT ![b][Step.tool] = "out"]
    BY <1>1, Zenon DEF Unload
  <2>3. Loaded(b) \subseteq Modules
    BY DEF Loaded
  <2>4. QED
    BY <1>1, <2>1, <2>2, <2>3, Zenon DEF Removes
<1>2. ASSUME NEW b \in Agents, Load(b)
      PROVE  kmod' = kmod \/ \E m \in Modules : Inserts(b, m)
  <2>1. Step.tool \in Modules
    BY <1>2, PlanOps DEF Load, Visit, At, Running, Step
  <2>2. QED
    BY <1>2, <2>1 DEF Load, Inserts
<1>3. kmod' = kmod \/ \E b \in Agents : Unload(b) \/ Load(b)
  BY DEF Next, Begin, CopyDropsEmpty, CopyStores, LoadDropsEmpty, Nullblk, EndLoop, CallStep,
         Success, vars
<1>4. QED
  BY <1>1, <1>2, <1>3

LEMMA NullblkGrows == [Next]_vars => nullblk \subseteq nullblk'
BY DEF Next, Begin, CopyDropsEmpty, CopyStores, Unload, LoadDropsEmpty, Load, Nullblk, EndLoop,
       CallStep, Success, vars

\* No module of an earlier session comes back.
LEMMA OldStays ==
  ASSUME PlanInv, [Next]_vars, NEW a \in Agents, NEW m \in Modules, kmod'[a][m] = "old"
  PROVE  kmod[a][m] = "old"
<1>1. CASE kmod' = kmod
  BY <1>1
<1>2. ASSUME NEW b \in Agents, NEW n \in Modules, Removes(b, n) \/ Inserts(b, n)
      PROVE  kmod[a][m] = "old"
  <2>1. kmod' = [kmod EXCEPT ![b][n] = "out"] \/ kmod' = [kmod EXCEPT ![b][n] = "new"]
    BY <1>2, Zenon DEF Removes, Inserts
  <2>2. kmod \in [Agents -> [Modules -> {"out", "old", "new"}]]
    BY DEF PlanInv, TypeOK
  <2>3. QED
    BY <2>1, <2>2
<1>3. QED
  BY <1>1, <1>2, KernelMoves

LEMMA ListedStep == ASSUME PlanInv, [Next]_vars PROVE Sided' /\ LeftIsListed'
<1>1. \A b \in Agents, m \in Mandatory : inst'[b][m] = inst[b][m]
  BY EntriesStay
<1>2. TargetModules \subseteq Mandatory
  BY DEF TargetModules, Mandatory, Modules, Tools
<1>3. Sided'
  BY <1>1, <1>2 DEF PlanInv, Sided
<1> SUFFICES LeftIsListed'
  BY <1>3
<1> SUFFICES ASSUME looping', pc' \in DOMAIN Plan, Plan[pc'].op = "unload", NEW a \in left'
             PROVE  inst'[a][Plan[pc'].tool] # "none"
  BY PlanStays DEF LeftIsListed
<1>4. TypeOK' /\ LoopsHaveAgents
  BY TypeStep DEF PlanInv
<1>5. Plan[pc'].tool \in Mandatory /\ a \in Agents
  BY <1>4, PlanOps DEF TypeOK
<1>6. ASSUME pc' = pc, looping, a \in left PROVE inst'[a][Plan[pc'].tool] # "none"
  BY <1>1, <1>5, <1>6 DEF PlanInv, LeftIsListed
<1>7. ASSUME NEW op, NEW agents, Begin(op, agents), op = "nullblk" \/ agents = Listed(Step.tool)
      PROVE  inst'[a][Plan[pc'].tool] # "none"
  <2>1. CASE Dies
    BY <1>6, <2>1 DEF Dies
  <2>2. CASE ~Dies
    <3>1. pc' = pc /\ left' = agents /\ inst' = inst /\ Step = Plan[pc] /\ Step.op = op
      BY <1>7, <2>2, Zenon DEF Begin, At, Step
    <3>2. QED
      BY <1>7, <3>1 DEF Listed
  <2>3. QED
    BY <2>1, <2>2
<1>8. ASSUME NEW b, Visited(b) \/ Dies PROVE inst'[a][Plan[pc'].tool] # "none"
  BY <1>6, <1>8 DEF Visited, Dies
<1>9. \A b : CopyDropsEmpty(b) \/ CopyStores(b) \/ Unload(b) \/ LoadDropsEmpty(b)
            \/ Load(b) \/ Nullblk(b) => Visited(b) \/ Dies
  BY Zenon DEF CopyDropsEmpty, CopyStores, Unload, LoadDropsEmpty, Load, Nullblk
<1>10. ~EndLoop
  BY DEF EndLoop
<1>11. CASE CallStep
  <2>1. CASE Dies
    BY <1>8, <2>1
  <2>2. CASE ~Dies
    BY <1>4, <1>11, <2>2 DEF CallStep, At, Running, Step, LoopsHaveAgents
  <2>3. QED
    BY <2>1, <2>2
<1>12. CASE Success \/ UNCHANGED vars
  BY <1>6, <1>12 DEF Success, vars
<1>13. QED
  BY <1>7, <1>8, <1>9, <1>10, <1>11, <1>12 DEF Next

\* A step that is done is not ahead of the flow.
LEMMA DoneIsPast ==
  ASSUME PlanInv, NEW k \in DOMAIN Plan, NEW a, Done(k, a) PROVE k <= pc /\ pc \in Nat
<1>1. pc \in Nat /\ k \in Nat
  BY PlanSteps DEF PlanInv, TypeOK
<1>2. QED
  BY <1>1 DEF Done

\* What a step has left behind for a host stays: nothing is unloaded once loading has
\* begun, and no module is unloaded before those that need it.
LEMMA LoadDutyStays ==
  ASSUME PlanInv, [Next]_vars, NEW k \in DOMAIN Plan, NEW a \in Agents, Done(k, a),
         LoadDuty(k, a)
  PROVE  LoadDuty(k, a)'
<1> DEFINE m == Plan[k].tool
<1> SUFFICES ASSUME Plan[k].op = "load", m \in Mandatory, inst'[a][m] # "none"
             PROVE  kmod'[a][m] = "new"
  BY PlanStays DEF LoadDuty
<1>1. m \in Modules /\ inst'[a][m] = inst[a][m]
  BY EntriesStay DEF Mandatory
<1>2. kmod[a][m] = "new"
  BY <1>1 DEF LoadDuty
<1>3. kmod \in [Agents -> [Modules -> {"out", "old", "new"}]]
  BY DEF PlanInv, TypeOK
<1>4. CASE kmod' = kmod
  BY <1>2, <1>4
<1>5. ASSUME NEW b \in Agents, NEW n \in Modules, Inserts(b, n) PROVE kmod'[a][m] = "new"
  <2>1. kmod' = [kmod EXCEPT ![b][n] = "new"]
    BY <1>5 DEF Inserts
  <2> HIDE DEF m
  <2>2. QED
    BY <1>1, <1>2, <1>3, <2>1
<1>6. ASSUME NEW b \in Agents, NEW n \in Modules, Removes(b, n) PROVE FALSE
  <2>1. pc \in DOMAIN Plan /\ Plan[pc].op = "unload"
    BY <1>6 DEF Removes, Unload, Visit, At, Running, Step
  <2>2. pc = Base + UnloadRank(Plan[pc].tool) /\ Plan[pc].tool \in Mandatory /\ opts.load
    BY <2>1, PlanOps
  <2>3. k = Base + LoadRank(m)
    BY PlanOps
  <2>4. UnloadRank(Plan[pc].tool) \in 1..6 /\ LoadRank(m) \in 9..14 /\ Base \in Nat
    BY <2>2, RankedModulePart, CopyPartSteps
  <2>5. k <= pc
    BY DoneIsPast
  <2>6. QED
    BY <2>2, <2>3, <2>4, <2>5
<1>7. QED
  BY <1>4, <1>5, <1>6, KernelMoves

LEMMA UnloadDutyStays ==
  ASSUME PlanInv, [Next]_vars, NEW k \in DOMAIN Plan, NEW a \in Agents, Done(k, a),
         UnloadDuty(k, a)
  PROVE  UnloadDuty(k, a)'
<1> DEFINE m == Plan[k].tool
<1> SUFFICES ASSUME Plan[k].op = "unload", inst'[a][m] # "none", kmod'[a][m] = "old"
             PROVE  m \in kept'[a] \/ \E d \in Loaded(a)' : m \in Needs[d]
  BY PlanStays DEF UnloadDuty, Explained, Needed
<1>1. /\ m \in Mandatory /\ m \in Modules /\ opts.load /\ k = Base + UnloadRank(m)
      /\ inst[a][m] # "none" /\ inst'[a][m] = inst[a][m]
  <2>1. m \in Mandatory
    BY PlanOps
  <2>2. QED
    BY <2>1, PlanOps, EntriesStay DEF Mandatory
<1>2. m \in kept[a] \/ \E d \in Loaded(a) : m \in Needs[d]
  <2>1. kmod[a][m] = "old"
    BY <1>1, OldStays
  <2>2. QED
    BY <1>1, <2>1 DEF UnloadDuty, Explained, Needed
<1>3. /\ kmod \in [Agents -> [Modules -> {"out", "old", "new"}]]
      /\ kept[a] \subseteq kept'[a]
  BY KeptMoves DEF PlanInv, TypeOK
<1> HIDE DEF m
<1>4. CASE kmod' = kmod
  BY <1>2, <1>3, <1>4 DEF Loaded
<1>5. ASSUME NEW b \in Agents, NEW n \in Modules, Inserts(b, n)
      PROVE  Loaded(a) \subseteq Loaded(a)'
  <2>1. kmod' = [kmod EXCEPT ![b][n] = "new"]
    BY <1>5 DEF Inserts
  <2>2. \A d \in Modules : kmod[a][d] # "out" => kmod'[a][d] # "out"
    BY <1>3, <2>1
  <2>3. QED
    BY <2>2 DEF Loaded
<1>6. ASSUME NEW b \in Agents, NEW n \in Modules, Removes(b, n),
             NEW d \in Loaded(a), m \in Needs[d]
      PROVE  d \in Loaded(a)'
  <2>1. kmod' = [kmod EXCEPT ![b][n] = "out"] /\ n = Plan[pc].tool
        /\ pc \in DOMAIN Plan /\ Plan[pc].op = "unload" /\ looping /\ b \in left
    BY <1>6 DEF Removes, Unload, Visit, At, Running, Step
  <2>2. pc = Base + UnloadRank(n) /\ n \in Mandatory
    BY <2>1, PlanOps
  <2>3. d \in Modules /\ kmod[a][d] # "out"
    BY DEF Loaded
  <2>4. ~(b = a /\ d = n)
    <3>1. SUFFICES ASSUME b = a, d = n PROVE FALSE
      OBVIOUS
    <3>2. CASE UnloadRank(n) < UnloadRank(m)
      <4>1. UnloadRank(n) \in 1..6 /\ UnloadRank(m) \in 1..6 /\ Base \in Nat
        BY <1>1, <2>2, RankedModulePart, CopyPartSteps
      <4>2. k <= pc
        BY DoneIsPast
      <4>3. QED
        BY <1>1, <2>2, <3>2, <4>1, <4>2
    <3>3. CASE n \in TargetModules /\ m \in Mandatory \ TargetModules
      <4>1. inst[a][n] # "none"
        BY <2>1, <3>1 DEF PlanInv, LeftIsListed
      <4>2. QED
        BY <1>1, <3>3, <4>1 DEF PlanInv, Sided
    <3>4. QED
      BY <1>6, <2>3, <3>1, <3>2, <3>3, StackRanks
  <2>5. kmod'[a][d] # "out"
    BY <1>3, <2>1, <2>3, <2>4
  <2>6. QED
    BY <2>3, <2>5 DEF Loaded
<1>7. QED
  BY <1>2, <1>3, <1>4, <1>5, <1>6, KernelMoves

LEMMA NullblkDutyStays ==
  ASSUME PlanInv, [Next]_vars, NEW k \in DOMAIN Plan, NEW a \in Agents, NullblkDuty(k, a)
  PROVE  NullblkDuty(k, a)'
BY PlanStays, NullblkGrows DEF NullblkDuty
\* A step is done for one more host when the loop passes over it, when a loop begins
\* that does not list it, or when a call has returned.
Skips(a) ==
  \/ \E op \in {"copy", "unload", "load"} : Begin(op, Listed(Step.tool)) /\ a \notin Listed(Step.tool)
  \/ Begin("nullblk", NullAgents) /\ a \notin NullAgents

Serves(a) ==
  Visited(a) /\ (CopyDropsEmpty(a) \/ CopyStores(a) \/ Unload(a) \/ Load(a) \/ Nullblk(a))

LEMMA DoneMoves ==
  ASSUME PlanInv, [Next]_vars, NEW k \in DOMAIN Plan, NEW a \in Agents, Done(k, a)', ~Done(k, a)
  PROVE  k = pc /\ (Skips(a) \/ Serves(a) \/ At("call"))
<1>1. k \in Nat /\ pc \in Nat /\ looping \in BOOLEAN /\ LoopsHaveAgents
  BY PlanSteps DEF PlanInv, TypeOK
<1>2. ASSUME pc' = pc, looping' = looping, left' = left PROVE FALSE
  BY <1>2 DEF Done
<1>3. ASSUME NEW op, NEW agents, Begin(op, agents) PROVE k = pc /\ a \notin agents
  <2>1. pc' = pc /\ left' = agents
    BY <1>2, <1>3, Zenon DEF Begin, Dies
  <2>2. QED
    BY <2>1 DEF Done
<1>4. ASSUME NEW b, Visited(b) PROVE k = pc /\ a = b
  BY <1>4 DEF Visited, Done
<1>5. ~Dies
  BY <1>2 DEF Dies
<1>6. ASSUME NEW b \in Agents,
             CopyDropsEmpty(b) \/ CopyStores(b) \/ Unload(b) \/ Load(b) \/ Nullblk(b)
      PROVE  k = pc /\ Serves(a)
  <2>1. Visited(b)
    BY <1>5, <1>6, Zenon DEF CopyDropsEmpty, CopyStores, Unload, Load, Nullblk
  <2>2. QED
    BY <1>4, <1>6, <2>1 DEF Serves
<1>7. ~ \E b \in Agents : LoadDropsEmpty(b)
  BY <1>5 DEF LoadDropsEmpty
<1>8. ~EndLoop
  BY <1>1 DEF EndLoop, Done
<1>9. CASE CallStep
  <2>1. At("call") /\ pc' = pc + 1 /\ looping' = looping
    BY <1>5, <1>9 DEF CallStep
  <2>2. ~looping
    BY <1>1, <2>1 DEF At, Running, Step, LoopsHaveAgents
  <2>3. k = pc
    BY <1>1, <2>1, <2>2 DEF Done
  <2>4. QED
    BY <2>1, <2>3
<1>10. ~Success /\ ~UNCHANGED vars
  BY <1>2 DEF Success, vars
<1>11. QED
  BY <1>3, <1>6, <1>7, <1>8, <1>9, <1>10 DEF Next, Skips

LEMMA SkipsDuty ==
  ASSUME PlanInv, [Next]_vars, pc \in DOMAIN Plan, NEW a \in Agents, Skips(a)
  PROVE  Duty(pc, a)
<1>1. CASE \E op \in {"copy", "unload", "load"} : /\ Begin(op, Listed(Step.tool))
                                                  /\ a \notin Listed(Step.tool)
  <2> DEFINE m == Plan[pc].tool
  <2>1. inst[a][m] = "none"
    BY <1>1 DEF Listed, Step
  <2>2. Plan[pc].op # "nullblk"
    BY <1>1 DEF Begin, At, Step
  <2>3. QED
    BY <2>1, <2>2 DEF Duty, LoadDuty, NullblkDuty, UnloadDuty
<1>2. CASE Begin("nullblk", NullAgents) /\ a \notin NullAgents
  BY <1>2 DEF Begin, At, Step, Duty, LoadDuty, NullblkDuty, UnloadDuty
<1>3. QED
  BY <1>1, <1>2 DEF Skips

LEMMA ServesDuty ==
  ASSUME PlanInv, [Next]_vars, pc \in DOMAIN Plan, NEW a \in Agents, Serves(a)
  PROVE  Duty(pc, a)'
<1> DEFINE m == Plan[pc].tool
<1>1. pc' = pc /\ outcome' = outcome /\ Plan' = Plan
  BY PlanStays DEF Serves, Visited
<1>2. outcome' # "fail"
  BY <1>1 DEF Serves, CopyDropsEmpty, CopyStores, Unload, Load, Nullblk, Visit, At, Running
<1>3. ASSUME Plan[pc].op \notin {"load", "nullblk", "unload"} PROVE Duty(pc, a)'
  BY <1>1, <1>3 DEF Duty, LoadDuty, NullblkDuty, UnloadDuty
<1>4. CASE CopyDropsEmpty(a) \/ CopyStores(a)
  BY <1>3, <1>4 DEF CopyDropsEmpty, CopyStores, Visit, At, Step
<1>5. kmod \in [Agents -> [Modules -> {"out", "old", "new"}]]
  BY DEF PlanInv, TypeOK
<1>6. CASE Unload(a)
  <2>1. Plan[pc].op = "unload" /\ m \in Modules /\ m \in Mandatory
    BY <1>6, PlanOps DEF Unload, Visit, At, Step, Mandatory
  <2>2. \/ kmod' = [kmod EXCEPT ![a][m] = "out"]
        \/ kept' = [kept EXCEPT ![a] = @ \cup {m}]
        \/ (m \notin Loaded(a) \/ Needed(a, m)) /\ kmod' = kmod
    BY <1>2, <1>6 DEF Unload, Dies, Step
  <2>3. ASSUME kmod'[a][m] = "old"
        PROVE  m \in kept'[a] \/ \E d \in Loaded(a)' : m \in Needs[d]
    <3>1. m \in Loaded(a) /\ kept[a] \subseteq kept'[a] /\ kept \in [Agents -> SUBSET Modules]
      <4>1. kmod[a][m] = "old"
        BY <2>1, <2>3, OldStays
      <4>2. QED
        BY <2>1, <4>1, KeptMoves DEF Loaded, PlanInv, TypeOK
    <3> HIDE DEF m
    <3>2. CASE kmod' = [kmod EXCEPT ![a][m] = "out"]
      BY <1>5, <2>1, <2>3, <3>2
    <3>3. CASE kept' = [kept EXCEPT ![a] = @ \cup {m}]
      BY <3>1, <3>3
    <3>4. CASE Needed(a, m) /\ kmod' = kmod
      BY <3>4 DEF Needed, Loaded
    <3>5. QED
      BY <2>2, <3>1, <3>2, <3>3, <3>4
  <2>4. kmod'[a][m] = "old" => Explained(a, m)'
    <3>1. Explained(a, m)' <=> (m' \in kept'[a] \/ \E d \in Loaded(a)' : m' \in Needs[d])
      BY DEF Explained, Needed
    <3>2. m' = m
      BY <1>1
    <3>3. QED
      BY <2>3, <3>1, <3>2
  <2>5. QED
    BY <1>1, <2>1, <2>4 DEF Duty, LoadDuty, NullblkDuty, UnloadDuty
<1>7. CASE Load(a)
  <2>1. Plan[pc].op = "load" /\ m \in Modules
    BY <1>7, PlanOps DEF Load, Visit, At, Step
  <2>2. ASSUME m \in Mandatory PROVE kmod'[a][m] = "new"
    <3>1. Step.optional = FALSE
      BY <2>1, <2>2, PlanOps DEF Step, Mandatory
    <3>2. kmod' = [kmod EXCEPT ![a][m] = "new"]
      BY <1>2, <1>7, <3>1, Zenon DEF Load, Dies, Step
    <3> HIDE DEF m
    <3>3. QED
      BY <1>5, <2>1, <3>2
  <2>3. QED
    BY <1>1, <2>1, <2>2 DEF Duty, LoadDuty, NullblkDuty, UnloadDuty
<1>8. CASE Nullblk(a)
  <2>1. Plan[pc].op = "nullblk" /\ a \in nullblk'
    BY <1>2, <1>8 DEF Nullblk, Dies, Visit, At, Step
  <2>2. QED
    BY <1>1, <2>1 DEF Duty, LoadDuty, NullblkDuty, UnloadDuty
<1>9. QED
  BY <1>4, <1>6, <1>7, <1>8 DEF Serves

LEMMA DutiesStep == ASSUME PlanInv, [Next]_vars PROVE DutiesDone'
<1> SUFFICES ASSUME NEW k \in DOMAIN Plan, NEW a \in Agents, Done(k, a)' PROVE Duty(k, a)'
  BY PlanStays DEF DutiesDone
<1>2. CASE Done(k, a)
  <2>1. LoadDuty(k, a) /\ NullblkDuty(k, a) /\ UnloadDuty(k, a)
    BY <1>2 DEF PlanInv, DutiesDone, Duty
  <2>2. QED
    BY <1>2, <2>1, LoadDutyStays, NullblkDutyStays, UnloadDutyStays DEF Duty
<1>3. CASE ~Done(k, a)
  <2>1. k = pc /\ (Skips(a) \/ Serves(a) \/ At("call"))
    BY <1>3, DoneMoves
  <2>2. CASE Skips(a)
    <3>1. Duty(k, a) /\ UNCHANGED <<inst, kmod, kept, nullblk>>
      BY <2>1, <2>2, SkipsDuty DEF Skips, Begin, otherVars
    <3>2. QED
      BY <3>1, PlanStays
         DEF Duty, LoadDuty, NullblkDuty, UnloadDuty, Explained, Needed, Loaded
  <2>3. CASE Serves(a)
    <3>1. pc' = pc
      BY <2>3 DEF Serves, Visited
    <3>2. QED
      BY <2>1, <2>3, <3>1, ServesDuty, PlanStays
         DEF Duty, LoadDuty, NullblkDuty, UnloadDuty, Explained, Needed
  <2>4. CASE At("call")
    BY <2>1, <2>4, PlanStays DEF At, Step, Duty, LoadDuty, NullblkDuty, UnloadDuty
  <2>5. QED
    BY <2>1, <2>2, <2>3, <2>4
<1>4. QED
  BY <1>2, <1>3

LEMMA PlanInvStep == PlanInv /\ [Next]_vars => PlanInv'
<1> SUFFICES ASSUME PlanInv, [Next]_vars PROVE PlanInv'
  OBVIOUS
<1>1. TypeOK'
  BY TypeStep DEF PlanInv
<1>2. QED
  BY <1>1, FlowStep, ListedStep, DutiesStep DEF PlanInv

LEMMA PlanInvAlways == Spec => []PlanInv
BY PlanInvInit, PlanInvStep, PTL DEF Spec

-----------------------------------------------------------------------------

\* A passed prologue that loads modules has put the copied one in the place of every
\* listed module, on every host, and has made the null block devices asked for.
THEOREM PassedPrologueDelivers == Spec => []PassedDelivers
<1>1. ASSUME PlanInv PROVE PassedDelivers
  <2> SUFFICES ASSUME outcome = "pass"
               PROVE  /\ opts.load => \A a \in Agents, m \in Mandatory :
                                        inst[a][m] # "none" => kmod[a][m] = "new"
                      /\ NullAgents \subseteq nullblk
    BY DEF PassedDelivers
  <2>1. \A k \in DOMAIN Plan, a \in Agents : Duty(k, a)
    <3>1. pc \notin DOMAIN Plan /\ pc \in Nat /\ pc > 0
      BY <1>1, PlanSteps DEF PlanInv, PassedAtTheEnd, TypeOK
    <3>2. \A k \in DOMAIN Plan : k < pc
      BY <3>1, PlanSteps
    <3>3. QED
      BY <1>1, <3>2 DEF PlanInv, DutiesDone, Done
  <2>2. ASSUME opts.load, NEW a \in Agents, NEW m \in Mandatory, inst[a][m] # "none"
        PROVE  kmod[a][m] = "new"
    <3> DEFINE k == Base + LoadRank(m)
    <3>1. k \in DOMAIN Plan /\ Plan[k] = Do("load", m)
      BY <2>2, PlanHas
    <3> HIDE DEF k
    <3>2. LoadDuty(k, a)
      BY <2>1, <3>1 DEF Duty
    <3>3. QED
      BY <2>2, <3>1, <3>2 DEF LoadDuty, Do
  <2>3. NullAgents \subseteq nullblk
    BY <2>1, NullblkIsPlanned, PrologueAssumption DEF Duty, NullblkDuty
  <2>4. QED
    BY <2>2, <2>3
<1>2. QED
  BY <1>1, PlanInvAlways, PTL

\* When loading begins, a listed module of an earlier session is still there only if its
\* own rmmod failed when nothing needed it, or if something that is still there needs it.
THEOREM UnloadedFromTheTop == Spec => []OldStaysExplained
<1>1. ASSUME PlanInv PROVE OldStaysExplained
  <2> SUFFICES ASSUME At("load"), NEW a \in Agents, NEW m \in Mandatory,
                      inst[a][m] # "none", kmod[a][m] = "old"
               PROVE  Explained(a, m)
    BY DEF OldStaysExplained
  <2>1. pc \in DOMAIN Plan /\ Plan[pc].op = "load"
    BY DEF At, Running, Step
  <2>2. opts.load /\ pc = Base + LoadRank(Plan[pc].tool) /\ Plan[pc].tool \in Modules
    BY <2>1, PlanOps
  <2>3. LoadRank(Plan[pc].tool) >= 8 /\ LoadRank(Plan[pc].tool) \in Nat
    BY <2>2 DEF LoadRank, Modules, Tools
  <2> DEFINE k == Base + UnloadRank(m)
  <2>4. k \in DOMAIN Plan /\ Plan[k] = Do("unload", m)
    BY <2>2, PlanHas
  <2>5. k < pc
    <3>1. UnloadRank(m) \in 1..6 /\ Base \in Nat
      BY <2>2, RankedModulePart, CopyPartSteps
    <3>2. QED
      BY <2>2, <2>3, <3>1
  <2> HIDE DEF k
  <2>6. UnloadDuty(k, a)
    BY <1>1, <2>4, <2>5 DEF PlanInv, DutiesDone, Done, Duty
  <2>7. QED
    BY <2>4, <2>6 DEF UnloadDuty, Do
<1>2. QED
  BY <1>1, PlanInvAlways, PTL

\* insmod is only called when all the module needs and the host lists is loaded.
THEOREM LoadedFromTheBottom == Spec => []LoadedAfterNeeds
<1>1. ASSUME PlanInv PROVE LoadedAfterNeeds
  <2> SUFFICES ASSUME NEW a \in Agents, Visit("load", a), NEW d \in Needs[Step.tool],
                      inst[a][d] = "file"
               PROVE  d \in Loaded(a)
    BY DEF LoadedAfterNeeds
  <2>1. pc \in DOMAIN Plan /\ Plan[pc].op = "load" /\ Step = Plan[pc]
    BY DEF Visit, At, Running, Step
  <2>2. opts.load /\ pc = Base + LoadRank(Step.tool) /\ Step.tool \in Modules
    BY <2>1, PlanOps
  <2>3. Step.tool \in Mandatory /\ d \in Mandatory /\ LoadRank(d) < LoadRank(Step.tool)
    BY <2>2, StackRanks
  <2> DEFINE k == Base + LoadRank(d)
  <2>4. k \in DOMAIN Plan /\ Plan[k] = Do("load", d)
    BY <2>2, <2>3, PlanHas
  <2>5. k < pc
    <3>1. LoadRank(d) \in 9..14 /\ LoadRank(Step.tool) \in 9..14 /\ Base \in Nat
      BY <2>2, <2>3, RankedModulePart, CopyPartSteps
    <3>2. QED
      BY <2>2, <2>3, <3>1
  <2> HIDE DEF k
  <2>6. LoadDuty(k, a)
    BY <1>1, <2>4, <2>5 DEF PlanInv, DutiesDone, Done, Duty
  <2>7. kmod[a][d] = "new" /\ d \in Modules
    BY <2>3, <2>4, <2>6 DEF LoadDuty, Do, Mandatory
  <2>8. QED
    BY <2>7 DEF Loaded
<1>2. QED
  BY <1>1, PlanInvAlways, PTL
=============================================================================
