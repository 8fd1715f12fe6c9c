------------------------------ MODULE NvmeCmd ------------------------------
(***************************************************************************)
(* The command loop of nvmeof-ts/conf/nvmecmd.c: while fio works, "repeat" *)
(* nvme-cli commands are taken from the selected ones, at random or in     *)
(* turn; "get-feature" goes through the features in turn with a counter of *)
(* its own.  What a device does not support is reported once as an         *)
(* artifact; a feature every device must support fails the test.           *)
(*                                                                         *)
(* What surrounds the loop is the script Nvmecmd of TestScripts.           *)
(***************************************************************************)
EXTENDS Filters

CONSTANTS
  Commands,    \* the table of commands, a sequence of names
  Features,    \* the table of features, a sequence of [name, supported]
  Selections,  \* values of the parameter specific_commands, as sets of names
  Repeats,     \* values of the parameter repeat
  RandMax      \* rand() returns 0..RandMax

CommandNames == {Commands[k] : k \in DOMAIN Commands}
FeatureNames == {Features[k].name : k \in DOMAIN Features}
Artifacts == CommandNames \cup FeatureNames

ASSUME CommandAssumption ==
  /\ Selections \subseteq SUBSET CommandNames
  /\ Repeats \subseteq Nat
  /\ RandMax \in Nat
  /\ Commands \in Seq(CommandNames)
  /\ Features \in Seq([name : FeatureNames, supported : BOOLEAN])
  /\ Len(Features) > 0
  /\ \A j, k \in DOMAIN Commands : Commands[j] = Commands[k] => j = k
  /\ FeatureNames \cap CommandNames = {}

VARIABLES
  needed,     \* filtred_commands
  ttype,      \* traversal type: "rand" or "consistently"
  i,          \* turns left of the loop
  index,      \* static in get_command_index
  feature,    \* static feature_index of nvme_get_next_feature
  artifacts,  \* the static vector of test_artifacts
  phase,      \* "loop", "fio" (the loop is over), "failed" or "crashed"
  calls,      \* history: how often each command was run
  asked,      \* history: how often each entry of Features was asked for
  reports     \* history: how often each artifact was reported

vars == <<needed, ttype, i, index, feature, artifacts, phase, calls, asked, reports>>

TypeOK ==
  /\ needed \in Seq(CommandNames)
  /\ ttype \in {"rand", "consistently"}
  /\ i \in Nat
  /\ index \in Nat
  /\ feature \in 0..(Len(Features) - 1)
  /\ artifacts \subseteq Artifacts
  /\ phase \in {"loop", "fio", "failed", "crashed"}
  /\ calls \in [CommandNames -> Nat]
  /\ asked \in [DOMAIN Features -> Nat]
  /\ reports \in [Artifacts -> Nat]

\* is_command_needed
Filtered(selection) == Kept(Commands, selection)

Init ==
  /\ needed \in {Filtered(s) : s \in Selections}
  /\ ttype \in {"rand", "consistently"}
  /\ i \in Repeats
  /\ index = 0 /\ feature = 0 /\ artifacts = {}
  /\ phase = "loop"
  /\ calls = [c \in CommandNames |-> 0]
  /\ asked = [k \in DOMAIN Features |-> 0]
  /\ reports = [a \in Artifacts |-> 0]

\* Mutant of test_artifact: it does not remember what it reported
ArtifactUnseen(name) ==
  /\ artifacts' = artifacts
  /\ reports' = IF name \in artifacts THEN reports ELSE [reports EXCEPT ![name] = @ + 1]

\* test_artifact: report what has not been reported yet
Artifact(name) ==
  IF name \in artifacts THEN UNCHANGED <<artifacts, reports>>
  ELSE /\ artifacts' = artifacts \cup {name}
       /\ reports' = [reports EXCEPT ![name] = @ + 1]

\* Mutant of get_command_index: the counter advances only after a round
StuckIndex ==
  \/ ttype = "rand" /\ index' \in 0..RandMax
  \/ ttype = "consistently" /\ index' = IF index = 0 THEN 1 ELSE index

\* get_command_index: the first command run in turn is the second of the table
NextIndex ==
  \/ ttype = "rand" /\ index' \in 0..RandMax
  \/ ttype = "consistently" /\ index' = index + 1

Turn(command) ==
  /\ phase = "loop" /\ i > 0 /\ Len(needed) > 0
  /\ NextIndex
  /\ command = needed[(index' % Len(needed)) + 1]
  /\ i' = i - 1
  /\ calls' = [calls EXCEPT ![command] = @ + 1]
  /\ UNCHANGED <<needed, ttype>>

\* Mutants: the counter runs past the table, or starts over at its second entry
OffTheTable == feature' = (feature + 1) % (Len(Features) + 1)

SkipFirst == feature' = IF feature + 1 < Len(Features) THEN feature + 1 ELSE 1

AdvanceFeature == feature' = (feature + 1) % Len(Features)

\* nvme_get_next_feature
GetFeature ==
  LET k == feature + 1 IN
  /\ Turn("get-feature")
  /\ AdvanceFeature
  /\ asked' = [asked EXCEPT ![k] = @ + 1]
  /\ \/ UNCHANGED <<artifacts, reports, phase>>
     \/ /\ Features[k].supported
        /\ phase' = "failed" /\ UNCHANGED <<artifacts, reports>>
     \/ /\ ~Features[k].supported
        /\ Artifact(Features[k].name) /\ UNCHANGED phase

\* Any other command
Run(command) ==
  /\ command # "get-feature"
  /\ Turn(command)
  /\ UNCHANGED <<artifacts, reports>> \/ Artifact(command)
  /\ UNCHANGED <<feature, asked, phase>>

\* Nothing selected: the index is taken modulo zero.
NothingToRun ==
  /\ phase = "loop" /\ i > 0 /\ Len(needed) = 0
  /\ phase' = "crashed"
  /\ UNCHANGED <<needed, ttype, i, index, feature, artifacts, calls, asked, reports>>

LoopEnds ==
  /\ phase = "loop" /\ i = 0
  /\ phase' = "fio"
  /\ UNCHANGED <<needed, ttype, i, index, feature, artifacts, calls, asked, reports>>

Next ==
  \/ GetFeature \/ \E c \in CommandNames : Run(c)
  \/ NothingToRun \/ LoopEnds
  \/ phase # "loop" /\ UNCHANGED vars

Spec == Init /\ [][Next]_vars

-----------------------------------------------------------------------------

\* What a test reports must not depend on how often a command was tried: an artifact is
\* reported at most once, and exactly when it is remembered.
ReportedOnce ==
  \A a \in Artifacts : reports[a] = IF a \in artifacts THEN 1 ELSE 0

\* "traversal_consistently": at no moment has a selected command been run twice more
\* often than another, whichever the selection.
EvenlyRun ==
  ttype = "consistently" =>
    \A j, k \in DOMAIN needed : calls[needed[j]] <= calls[needed[k]] + 1

\* The features are asked for in turn however the commands are traversed, over as many
\* rounds as repeat allows.
EvenlyAsked ==
  \A j, k \in DOMAIN Features : asked[j] <= asked[k] + 1
=============================================================================
