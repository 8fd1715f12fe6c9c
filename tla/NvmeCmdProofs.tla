--------------------------- MODULE NvmeCmdProofs ---------------------------
(***************************************************************************)
(* Proofs about NvmeCmd, for any tables of commands and features, any      *)
(* selections and any number of turns.                                     *)
(***************************************************************************)
EXTENDS NvmeCmd, CommonLemmas

LEMMA FilteredType ==
  ASSUME NEW selection
  PROVE  /\ Filtered(selection) \in Seq(CommandNames)
         /\ \A j, k \in DOMAIN Filtered(selection) :
              Filtered(selection)[j] = Filtered(selection)[k] => j = k
<1>1. Commands \in Seq(CommandNames)
      /\ \A j, k \in DOMAIN Commands : Commands[j] = Commands[k] => j = k
  BY CommandAssumption
<1>2. QED
  BY <1>1, KeptProperties DEF Filtered

LEMMA ArtifactType ==
  ASSUME TypeOK, NEW name \in Artifacts, Artifact(name)
  PROVE  artifacts' \subseteq Artifacts /\ reports' \in [Artifacts -> Nat]
BY DEF TypeOK, Artifact

LEMMA FeatureStep ==
  ASSUME TypeOK, AdvanceFeature
  PROVE  /\ feature' \in 0..(Len(Features) - 1)
         /\ feature' = IF feature + 1 = Len(Features) THEN 0 ELSE feature + 1
         /\ feature + 1 \in DOMAIN Features
         /\ Features[feature + 1].name \in FeatureNames
<1> DEFINE n == Len(Features)
<1>1. n \in Nat /\ n > 0 /\ DOMAIN Features = 1..n
  BY CommandAssumption
<1>2. feature \in Nat /\ feature < n /\ feature' = (feature + 1) % n
  BY <1>1 DEF TypeOK, AdvanceFeature
<1>3. \A k \in DOMAIN Features : Features[k].name \in FeatureNames
  BY DEF FeatureNames
<1> HIDE DEF n
<1>4. feature % n = feature
  BY <1>1, <1>2
<1>5. (feature + 1) % n = IF (feature % n) + 1 = n THEN 0 ELSE (feature % n) + 1
  BY <1>1, <1>2, RemainderNext
<1>6. feature' = IF feature + 1 = n THEN 0 ELSE feature + 1
  BY <1>2, <1>4, <1>5
<1>7. feature' \in 0..(n - 1) /\ feature + 1 \in DOMAIN Features
  BY <1>1, <1>2, <1>6
<1>8. QED
  BY <1>3, <1>6, <1>7 DEF n

\* A turn runs one of the selected commands.
LEMMA TurnType ==
  ASSUME TypeOK, NEW command, Turn(command)
  PROVE  /\ index' \in Nat
         /\ (index' % Len(needed)) + 1 \in DOMAIN needed
         /\ command \in CommandNames
         /\ i' \in Nat
         /\ calls' \in [CommandNames -> Nat]
<1>1. Len(needed) \in Nat /\ Len(needed) > 0 /\ DOMAIN needed = 1..Len(needed)
  BY DEF TypeOK, Turn
<1>2. index' \in Nat
  BY CommandAssumption DEF TypeOK, Turn, NextIndex
<1>3. (index' % Len(needed)) + 1 \in DOMAIN needed
  BY <1>1, <1>2, DivMod
<1>4. command \in CommandNames
  BY <1>3 DEF TypeOK, Turn
<1>5. QED
  BY <1>2, <1>3, <1>4 DEF TypeOK, Turn

LEMMA InitType == Init => TypeOK
<1> SUFFICES ASSUME Init PROVE TypeOK
  OBVIOUS
<1>1. needed \in Seq(CommandNames)
  BY FilteredType DEF Init
<1>2. i \in Nat /\ 0 \in 0..(Len(Features) - 1)
  BY CommandAssumption DEF Init
<1>3. QED
  BY <1>1, <1>2 DEF Init, TypeOK

LEMMA TypeStep == TypeOK /\ [Next]_vars => TypeOK'
<1> SUFFICES ASSUME TypeOK, [Next]_vars PROVE TypeOK'
  OBVIOUS
<1>1. CASE GetFeature
  <2>1. /\ index' \in Nat /\ i' \in Nat /\ calls' \in [CommandNames -> Nat]
        /\ needed' = needed /\ ttype' = ttype /\ phase = "loop"
    BY <1>1, TurnType DEF GetFeature, Turn
  <2>2. /\ feature' \in 0..(Len(Features) - 1) /\ feature + 1 \in DOMAIN Features
        /\ Features[feature + 1].name \in Artifacts
    BY <1>1, FeatureStep DEF GetFeature, Artifacts
  <2>3. asked' \in [DOMAIN Features -> Nat]
    BY <1>1, <2>2 DEF TypeOK, GetFeature
  <2>4. artifacts' \subseteq Artifacts /\ reports' \in [Artifacts -> Nat]
    BY <1>1, <2>2, ArtifactType DEF TypeOK, GetFeature
  <2>5. phase' \in {"loop", "failed"}
    BY <1>1, <2>1 DEF GetFeature
  <2>6. QED
    BY <2>1, <2>2, <2>3, <2>4, <2>5 DEF TypeOK
<1>2. ASSUME NEW c \in CommandNames, Run(c) PROVE TypeOK'
  <2>1. /\ index' \in Nat /\ i' \in Nat /\ calls' \in [CommandNames -> Nat]
        /\ needed' = needed /\ ttype' = ttype
    BY <1>2, TurnType DEF Run, Turn
  <2>2. artifacts' \subseteq Artifacts /\ reports' \in [Artifacts -> Nat]
    BY <1>2, ArtifactType DEF TypeOK, Run, Artifacts
  <2>3. QED
    BY <1>2, <2>1, <2>2 DEF TypeOK, Run
<1>3. CASE NothingToRun \/ LoopEnds \/ UNCHANGED vars
  BY <1>3 DEF NothingToRun, LoopEnds, vars, TypeOK
<1>4. QED
  BY <1>1, <1>2, <1>3 DEF Next

\* The counters stay within the tables they index, whatever is selected.
THEOREM TypeCorrect == Spec => []TypeOK
BY InitType, TypeStep, PTL DEF Spec

-----------------------------------------------------------------------------
(***************************************************************************)
(* Artifacts                                                               *)
(***************************************************************************)

LEMMA ArtifactOnce ==
  ASSUME TypeOK, ReportedOnce, NEW name \in Artifacts, Artifact(name)
  PROVE  ReportedOnce'
BY DEF TypeOK, ReportedOnce, Artifact

LEMMA ReportedStep == TypeOK /\ ReportedOnce /\ [Next]_vars => ReportedOnce'
<1> SUFFICES ASSUME TypeOK, ReportedOnce, [Next]_vars PROVE ReportedOnce'
  OBVIOUS
<1>1. CASE UNCHANGED <<artifacts, reports>>
  BY <1>1 DEF ReportedOnce
<1>2. ASSUME GetFeature, Artifact(Features[feature + 1].name) PROVE ReportedOnce'
  <2>1. Features[feature + 1].name \in Artifacts
    BY <1>2, FeatureStep DEF GetFeature, Artifacts
  <2>2. QED
    BY <1>2, <2>1, ArtifactOnce
<1>3. ASSUME NEW c \in CommandNames, Artifact(c) PROVE ReportedOnce'
  BY <1>3, ArtifactOnce DEF Artifacts
<1>4. QED
  BY <1>1, <1>2, <1>3 DEF Next, GetFeature, Run, NothingToRun, LoopEnds, vars

\* However often a command or a feature is tried, what is not supported is reported
\* once, and what is remembered has been reported.
THEOREM ArtifactsAreReportedOnce == Spec => []ReportedOnce
<1>1. Init => ReportedOnce
  BY DEF Init, ReportedOnce
<1>2. QED
  BY <1>1, InitType, TypeStep, ReportedStep, PTL DEF Spec

-----------------------------------------------------------------------------
(***************************************************************************)
(* Rounds.  A counter that walks over a table of n entries has visited     *)
(* each of them equally often, those behind the first k once more: those   *)
(* before the counter for the features, which are asked for and then       *)
(* counted, those after the first one and up to the counter for the        *)
(* commands, which are counted and then run.                               *)
(***************************************************************************)

FeatureRounds ==
  \E q \in Nat : \A k \in DOMAIN Features :
    asked[k] = IF k <= feature THEN q + 1 ELSE q

Ahead(j) == 2 <= j /\ j <= (index % Len(needed)) + 1

CommandRounds ==
  /\ \A j, k \in DOMAIN needed : needed[j] = needed[k] => j = k
  /\ ttype = "consistently" /\ Len(needed) > 0 =>
       \E q \in Nat : \A j \in DOMAIN needed :
         calls[needed[j]] = IF Ahead(j) THEN q + 1 ELSE q

RoundInv == TypeOK /\ FeatureRounds /\ CommandRounds

LEMMA RoundsInit == Init => FeatureRounds /\ CommandRounds
<1> SUFFICES ASSUME Init PROVE FeatureRounds /\ CommandRounds
  OBVIOUS
<1>1. FeatureRounds
  <2>1. \A k \in DOMAIN Features : asked[k] = 0 /\ ~(k <= feature)
    BY CommandAssumption DEF Init
  <2>2. QED
    BY <2>1 DEF FeatureRounds
<1>2. CommandRounds
  <2>1. needed \in Seq(CommandNames) /\ \A j, k \in DOMAIN needed : needed[j] = needed[k] => j = k
    BY FilteredType DEF Init
  <2>2. ASSUME Len(needed) > 0 PROVE index % Len(needed) = 0
    BY <2>1, <2>2 DEF Init
  <2>3. ASSUME Len(needed) > 0
        PROVE  \A j \in DOMAIN needed : calls[needed[j]] = 0 /\ ~Ahead(j)
    BY <2>1, <2>2, <2>3 DEF Init, Ahead
  <2>4. QED
    BY <2>1, <2>3 DEF CommandRounds
<1>3. QED
  BY <1>1, <1>2

LEMMA FeatureRoundsStep ==
  ASSUME RoundInv, GetFeature PROVE FeatureRounds'
<1>1. Len(Features) \in Nat /\ DOMAIN Features = 1..Len(Features)
  BY CommandAssumption
<1>2. /\ feature' = IF feature + 1 = Len(Features) THEN 0 ELSE feature + 1
      /\ feature + 1 \in DOMAIN Features
      /\ feature \in Nat
  BY FeatureStep DEF RoundInv, TypeOK, GetFeature
<1>3. /\ asked'[feature + 1] = asked[feature + 1] + 1
      /\ \A k \in DOMAIN Features \ {feature + 1} : asked'[k] = asked[k]
  BY <1>2 DEF RoundInv, TypeOK, GetFeature
<1>4. PICK q \in Nat : \A k \in DOMAIN Features :
                         asked[k] = IF k <= feature THEN q + 1 ELSE q
  BY DEF RoundInv, FeatureRounds
<1>5. \A k \in DOMAIN Features : asked'[k] = IF k <= feature + 1 THEN q + 1 ELSE q
  <2> SUFFICES ASSUME NEW k \in DOMAIN Features
               PROVE  asked'[k] = IF k <= feature + 1 THEN q + 1 ELSE q
    OBVIOUS
  <2>1. k \in Nat
    BY <1>1
  <2>2. CASE k = feature + 1
    BY <1>2, <1>3, <1>4, <2>2
  <2>3. CASE k # feature + 1
    <3>1. asked'[k] = asked[k] /\ (k <= feature <=> k <= feature + 1)
      BY <1>2, <1>3, <2>1, <2>3
    <3>2. QED
      BY <1>4, <3>1
  <2>4. QED
    BY <2>2, <2>3
<1>6. CASE feature + 1 = Len(Features)
  <2>1. \A k \in DOMAIN Features : asked'[k] = IF k <= feature' THEN (q + 1) + 1 ELSE q + 1
    BY <1>1, <1>2, <1>5, <1>6
  <2>2. QED
    BY <2>1 DEF FeatureRounds
<1>7. CASE feature + 1 # Len(Features)
  BY <1>2, <1>5, <1>7 DEF FeatureRounds
<1>8. QED
  BY <1>6, <1>7

LEMMA CommandRoundsStep ==
  ASSUME RoundInv, NEW command, Turn(command) PROVE CommandRounds'
<1> DEFINE n == Len(needed)
           r == index % n
<1>1. n \in Nat /\ n > 0 /\ DOMAIN needed = 1..n
      /\ needed' = needed /\ ttype' = ttype /\ needed \in Seq(CommandNames)
  BY DEF RoundInv, TypeOK, Turn
<1>2. \A j, k \in DOMAIN needed : needed[j] = needed[k] => j = k
  BY DEF RoundInv, CommandRounds
<1>3. CASE ttype = "consistently"
  <2> DEFINE m == (index' % n) + 1
  <2>1. index' = index + 1 /\ index \in Nat
    BY <1>3 DEF RoundInv, TypeOK, Turn, NextIndex
  <2>2. index' % n = IF r + 1 = n THEN 0 ELSE r + 1
    BY <1>1, <2>1, RemainderNext
  <2>3. r \in 0..(n - 1)
    BY <1>1, <2>1, DivMod
  <2>4. m \in DOMAIN needed /\ command = needed[m] /\ command \in CommandNames
    BY TurnType DEF RoundInv, Turn
  <2>5. \A j \in DOMAIN needed :
          calls'[needed[j]] = IF j = m THEN calls[needed[j]] + 1 ELSE calls[needed[j]]
    BY <1>1, <1>2, <2>4 DEF RoundInv, TypeOK, Turn
  <2>6. PICK q \in Nat : \A j \in DOMAIN needed :
                           calls[needed[j]] = IF Ahead(j) THEN q + 1 ELSE q
    BY <1>1, <1>3 DEF RoundInv, CommandRounds
  <2> HIDE DEF n, r
  <2>7. \A j \in DOMAIN needed :
          calls[needed[j]] = IF 2 <= j /\ j <= r + 1 THEN q + 1 ELSE q
    BY <2>6 DEF Ahead, r, n
  <2>8. CASE r + 1 = n
    <3>1. m = 1 /\ index' % n = 0
      BY <2>2, <2>8
    <3>2. \A j \in DOMAIN needed : calls'[needed[j]] = q + 1
      BY <1>1, <2>3, <2>5, <2>7, <2>8, <3>1
    <3>3. \A j \in DOMAIN needed : ~Ahead(j)'
      BY <1>1, <3>1 DEF Ahead, n
    <3>4. \A j \in DOMAIN needed :
            calls'[needed[j]] = IF Ahead(j)' THEN (q + 1) + 1 ELSE q + 1
      BY <3>2, <3>3
    <3>5. q + 1 \in Nat
      OBVIOUS
    <3>6. QED
      BY <1>1, <1>2, <3>4, <3>5 DEF CommandRounds
  <2>9. CASE r + 1 # n
    <3>1. m = r + 2 /\ index' % n = r + 1
      BY <2>2, <2>3, <2>9, <1>1
    <3>2. \A j \in DOMAIN needed :
            calls'[needed[j]] = IF 2 <= j /\ j <= r + 2 THEN q + 1 ELSE q
      BY <1>1, <2>3, <2>5, <2>7, <3>1
    <3>3. \A j \in DOMAIN needed : Ahead(j)' <=> 2 <= j /\ j <= r + 2
      BY <1>1, <2>3, <3>1 DEF Ahead, n
    <3>4. \A j \in DOMAIN needed : calls'[needed[j]] = IF Ahead(j)' THEN q + 1 ELSE q
      BY <3>2, <3>3
    <3>5. QED
      BY <1>1, <1>2, <3>4 DEF CommandRounds
  <2>10. QED
    BY <2>8, <2>9
<1>4. CASE ttype # "consistently"
  BY <1>1, <1>2, <1>4 DEF CommandRounds
<1>5. QED
  BY <1>3, <1>4

LEMMA RoundInvStep == RoundInv /\ [Next]_vars => RoundInv'
<1> SUFFICES ASSUME RoundInv, [Next]_vars PROVE FeatureRounds' /\ CommandRounds'
  BY TypeStep DEF RoundInv
<1>1. CASE GetFeature
  BY <1>1, FeatureRoundsStep, CommandRoundsStep DEF GetFeature
<1>2. ASSUME NEW c \in CommandNames, Run(c) PROVE FeatureRounds' /\ CommandRounds'
  BY <1>2, CommandRoundsStep DEF Run, RoundInv, FeatureRounds
<1>3. CASE NothingToRun \/ LoopEnds \/ UNCHANGED vars
  BY <1>3 DEF NothingToRun, LoopEnds, vars, RoundInv, FeatureRounds, CommandRounds, Ahead
<1>4. QED
  BY <1>1, <1>2, <1>3 DEF Next

LEMMA RoundInvAlways == Spec => []RoundInv
BY InitType, RoundsInit, RoundInvStep, PTL DEF Spec, RoundInv

\* Traversed in turn, no selected command is run twice more often than another, for
\* every table, selection and number of turns.
THEOREM CommandsRunEvenly == Spec => []EvenlyRun
<1>1. RoundInv => EvenlyRun
  <2> SUFFICES ASSUME RoundInv, ttype = "consistently", NEW j \in DOMAIN needed,
                      NEW k \in DOMAIN needed
               PROVE  calls[needed[j]] <= calls[needed[k]] + 1
    BY DEF EvenlyRun
  <2>1. Len(needed) > 0
    BY DEF RoundInv, TypeOK
  <2>2. PICK q \in Nat : \A m \in DOMAIN needed :
                           calls[needed[m]] = IF Ahead(m) THEN q + 1 ELSE q
    BY <2>1 DEF RoundInv, CommandRounds
  <2>3. calls[needed[j]] \in {q, q + 1} /\ calls[needed[k]] \in {q, q + 1}
    BY <2>2
  <2>4. QED
    BY <2>3
<1>2. QED
  BY <1>1, RoundInvAlways, PTL

\* The features are asked for in turn, in whatever order the commands are run.
THEOREM FeaturesAskedEvenly == Spec => []EvenlyAsked
<1>1. RoundInv => EvenlyAsked
  <2> SUFFICES ASSUME RoundInv, NEW j \in DOMAIN Features, NEW k \in DOMAIN Features
               PROVE  asked[j] <= asked[k] + 1
    BY DEF EvenlyAsked
  <2>1. PICK q \in Nat : \A m \in DOMAIN Features :
                           asked[m] = IF m <= feature THEN q + 1 ELSE q
    BY DEF RoundInv, FeatureRounds
  <2>2. asked[j] \in {q, q + 1} /\ asked[k] \in {q, q + 1}
    BY <2>1
  <2>3. QED
    BY <2>2
<1>2. QED
  BY <1>1, RoundInvAlways, PTL
=============================================================================
