--------------------------- MODULE SessionProofs ---------------------------
(***************************************************************************)
(* Proofs about Session, for any set of command lines of options, any       *)
(* packages of tests, any old log and any number of tests.                  *)
(***************************************************************************)
EXTENDS Session, CommonLemmas, SequenceTheorems

Past == Len(asked) - Len(todo)

\* The options still to be read are the last ones of the command line.
LineInv ==
  /\ asked \in Seq(Options) /\ asked \in CommandLines /\ todo \in Seq(Options)
  /\ Len(todo) <= Len(asked)
  /\ \A k \in 1..Len(todo) : todo[k] = asked[Past + k]

\* Of the options that were read: the target is that of the last one that names one.
TargetInv ==
  /\ (\A i \in 1..Past : asked[i].opt # "target") => shell.env.target = "kernel"
  /\ \A i \in 1..Past :
       asked[i].opt = "target" /\ (\A j \in (i + 1)..Past : asked[j].opt # "target")
         => shell.env.target = asked[i].arg

\* The word is that of an aggregation, with or without another tag glued to it.
Aggregates(word, past) ==
  \E j \in 1..past : asked[j].opt = "with-aggr" /\ word[1] = asked[j].arg

Tagged(tag) == \E w \in DOMAIN shell.words : tag \in ToSet(shell.words[w])

WordsInv ==
  /\ \A i \in 1..Past : \A tag \in TagsOf(asked[i]) : Tagged(tag)
  /\ \A w \in DOMAIN shell.words :
       /\ Len(shell.words[w]) > 0
       /\ Len(shell.words[w]) > 1 => Aggregates(shell.words[w], Past)
  /\ shell.open => /\ Len(shell.words) > 0
                   /\ Aggregates(shell.words[Len(shell.words)], Past)

\* Behind the options: all of them were read and the requirements follow from them.
Dispatched == at \in {"dispatcher", "tester", "test", "status", "perf"}

ReadInv == Dispatched => todo = <<>> /\ shell.reqs = Requirements(shell)

ControlInv ==
  /\ at \in {"locate", "options", "dispatcher", "tester", "test", "status", "perf", "over"}
  /\ result \in {0, 1} /\ saidFail \in BOOLEAN /\ written \in BOOLEAN
  /\ exit \in {<<>>, <<0>>, <<1>>} /\ (exit # <<>> <=> at = "over")

\* What ran, as a sequence of whatever the log holds.
RanInv ==
  /\ \E T : ran \in Seq(T)
  /\ Len(ran) <= MaxTests /\ (at = "test" => Len(ran) < MaxTests)
  /\ \A i \in DOMAIN ran : ran[i].verdict \in Verdicts

OptionInv == LineInv /\ shell \in Shells /\ TargetInv /\ WordsInv /\ ReadInv

TypeInv == OptionInv /\ ControlInv /\ RanInv

-----------------------------------------------------------------------------
(***************************************************************************)
(* The command line                                                        *)
(***************************************************************************)

\* What reading an option does to the words: nothing, or one tag is added to them,
\* as a word of its own or glued to an open one.
Glued(words, tag) == Append(Front(words), Append(Last(words), tag))

LEMMA FrontIs ==
  ASSUME NEW T, NEW s \in Seq(T), Len(s) > 0
  PROVE  /\ Front(s) \in Seq(T) /\ Len(Front(s)) = Len(s) - 1
         /\ \A k \in 1..(Len(s) - 1) : Front(s)[k] = s[k]
<1>1. \A i \in 1..(Len(s) - 1) : s[i] \in T
  OBVIOUS
<1>2. /\ SubSeq(s, 1, Len(s) - 1) \in Seq(T)
      /\ Len(SubSeq(s, 1, Len(s) - 1)) = IF 1 <= Len(s) - 1 THEN Len(s) - 1 - 1 + 1 ELSE 0
      /\ \A i \in 1..(Len(s) - 1 - 1 + 1) : SubSeq(s, 1, Len(s) - 1)[i] = s[1 + i - 1]
  BY <1>1, SubSeqProperties
<1>3. PICK f : f = SubSeq(s, 1, Len(s) - 1)
  OBVIOUS
<1>4. Len(s) \in Nat /\ Len(s) - 1 - 1 + 1 = Len(s) - 1 /\ \A k \in Nat : 1 + k - 1 = k
  OBVIOUS
<1>5. f \in Seq(T) /\ Len(f) = Len(s) - 1
  BY <1>2, <1>3, <1>4
<1>6. ASSUME NEW k \in 1..(Len(s) - 1) PROVE f[k] = s[k]
  BY <1>2, <1>3, <1>4
<1>7. QED
  BY <1>3, <1>5, <1>6 DEF Front

LEMMA AppendIs ==
  ASSUME NEW T, NEW s \in Seq(T), NEW x \in T
  PROVE  /\ Append(s, x) \in Seq(T) /\ Len(Append(s, x)) = Len(s) + 1
         /\ \A k \in 1..Len(s) : Append(s, x)[k] = s[k]
         /\ Append(s, x)[Len(s) + 1] = x
  OBVIOUS

LEMMA GluedWords ==
  ASSUME NEW T, NEW words \in Seq(Seq(T)), Len(words) > 0, NEW tag \in T
  PROVE  /\ Glued(words, tag) \in Seq(Seq(T))
         /\ Len(Glued(words, tag)) = Len(words)
         /\ \A w \in 1..(Len(words) - 1) : Glued(words, tag)[w] = words[w]
         /\ Glued(words, tag)[Len(words)] = Append(words[Len(words)], tag)
<1>1. /\ Front(words) \in Seq(Seq(T)) /\ Len(Front(words)) = Len(words) - 1
      /\ \A w \in 1..(Len(words) - 1) : Front(words)[w] = words[w]
  BY FrontIs
<1>2. words[Len(words)] \in Seq(T)
  OBVIOUS
<1>3. Append(words[Len(words)], tag) \in Seq(T)
  BY <1>2, AppendIs
<1>4. PICK last \in Seq(T) : last = Append(words[Len(words)], tag)
  BY <1>3
<1>5. Glued(words, tag) = Append(Front(words), last)
  BY <1>4 DEF Glued, Last
<1>6. /\ Append(Front(words), last) \in Seq(Seq(T))
      /\ Len(Append(Front(words), last)) = Len(Front(words)) + 1
      /\ \A k \in 1..Len(Front(words)) : Append(Front(words), last)[k] = Front(words)[k]
      /\ Append(Front(words), last)[Len(Front(words)) + 1] = last
  BY <1>1, AppendIs
<1>7. QED
  BY <1>1, <1>4, <1>5, <1>6

\* A shell that differs from another in its words only.
SameBut(new, sh) ==
  /\ new \in Shells /\ new.env = sh.env /\ new.reqs = sh.reqs
  /\ new.parallel = sh.parallel /\ new.unreal = sh.unreal

Closed(sh) == sh.open => Len(sh.words) > 0

LEMMA AddTagIs ==
  ASSUME NEW sh \in Shells, Closed(sh), NEW tag \in Words
  PROVE  /\ SameBut(AddTag(sh, tag), sh)
         /\ AddTag(sh, tag).open = FALSE
         /\ AddTag(sh, tag).words = IF sh.open THEN Glued(sh.words, tag)
                                               ELSE Append(sh.words, <<tag>>)
<1> DEFINE more == IF sh.open THEN Glued(sh.words, tag) ELSE Append(sh.words, <<tag>>)
<1>1. sh.words \in Seq(Seq(Words)) /\ sh.open \in BOOLEAN /\ <<tag>> \in Seq(Words)
  BY DEF Shells
<1>2. CASE sh.open
  <2>1. more \in Seq(Seq(Words))
    BY <1>1, <1>2, GluedWords DEF Closed
  <2>2. AddTag(sh, tag) = [sh EXCEPT !.open = FALSE, !.words = more]
    BY <1>2 DEF AddTag, Glued
  <2> HIDE DEF more
  <2>3. SameBut(AddTag(sh, tag), sh) /\ AddTag(sh, tag).open = FALSE
        /\ AddTag(sh, tag).words = more
    BY <2>1, <2>2 DEF SameBut, Shells
  <2>4. QED
    BY <2>3 DEF more
<1>3. CASE ~ sh.open
  <2>1. more \in Seq(Seq(Words))
    BY <1>1, <1>3
  <2>2. AddTag(sh, tag) = [sh EXCEPT !.open = FALSE, !.words = more]
    BY <1>3 DEF AddTag
  <2> HIDE DEF more
  <2>3. SameBut(AddTag(sh, tag), sh) /\ AddTag(sh, tag).open = FALSE
        /\ AddTag(sh, tag).words = more
    BY <2>1, <2>2 DEF SameBut, Shells
  <2>4. QED
    BY <2>3 DEF more
<1>4. QED
  BY <1>2, <1>3

LEMMA DispatchIs ==
  ASSUME NEW sh \in Shells, NEW opt \in Words, NEW arg \in Words
  PROVE  /\ SameBut(Dispatch(sh, opt, arg), sh)
         /\ Dispatch(sh, opt, arg).open = sh.open
         /\ Dispatch(sh, opt, arg).words = sh.words
<1>1. sh.dispatch \cup {[opt |-> opt, arg |-> arg]} \in SUBSET Options
  BY DEF Shells, Options
<1>2. PICK more \in SUBSET Options : Dispatch(sh, opt, arg) = [sh EXCEPT !.dispatch = more]
  BY <1>1 DEF Dispatch
<1>3. QED
  BY <1>2 DEF SameBut, Shells

\* What reading an option does to the words: nothing, a word of its own that stays open,
\* or one tag, as a word or glued to the open one.
WordsGrow(sh, new, o) ==
  \/ TagsOf(o) = {} /\ new.words = sh.words /\ new.open = sh.open
  \/ /\ o.opt = "with-aggr" /\ TagsOf(o) = {o.arg} /\ new.open = TRUE
     /\ new.words = Append(sh.words, <<o.arg>>)
  \/ \E tag \in Words :
       /\ TagsOf(o) = {tag} /\ new.open = FALSE
       /\ new.words = IF sh.open THEN Glued(sh.words, tag) ELSE Append(sh.words, <<tag>>)

LEMMA TagGrows ==
  ASSUME NEW sh \in Shells, NEW mid \in Shells, NEW new, NEW o, NEW tag \in Words,
         Closed(sh), TagsOf(o) = {tag},
         mid.words = sh.words, mid.open = sh.open,
         new.words = AddTag(mid, tag).words, new.open = AddTag(mid, tag).open
  PROVE  WordsGrow(sh, new, o)
<1>1. Closed(mid)
  BY DEF Closed
<1>2. /\ new.open = FALSE
      /\ new.words = IF sh.open THEN Glued(sh.words, tag) ELSE Append(sh.words, <<tag>>)
  BY <1>1, AddTagIs
<1>3. QED
  BY <1>2 DEF WordsGrow

LEMMA DispatchKeeps ==
  ASSUME NEW sh \in Shells, NEW opt \in Words, NEW arg \in Words
  PROVE  \E new \in Shells :
           /\ new = Dispatch(sh, opt, arg)
           /\ new.env = sh.env /\ new.words = sh.words /\ new.open = sh.open
<1>1. SameBut(Dispatch(sh, opt, arg), sh) /\ Dispatch(sh, opt, arg).open = sh.open
      /\ Dispatch(sh, opt, arg).words = sh.words
  BY DispatchIs
<1>2. QED
  BY <1>1 DEF SameBut

LEMMA ReadsIs ==
  ASSUME NEW sh \in Shells, Closed(sh), NEW o \in Options,
         o.opt = "target" => o.arg \in {"kernel", "onvme"}
  PROVE  /\ Reads(sh, o) \in Shells
         /\ Reads(sh, o).env.target = IF o.opt = "target" THEN o.arg ELSE sh.env.target
         /\ WordsGrow(sh, Reads(sh, o), o)
<1>1. o.opt \in Words /\ o.arg \in Words
  BY DEF Options
<1>0. /\ "opts" \in Words /\ "aggregation" \in Words /\ "opts.matrix" \in Words
      /\ "nullblock" \in Words /\ "script" \in Words /\ "env.nullblock" \in Words
      /\ "tester-fake" \in Words /\ "nvmeof-ts" \in Words
  BY DEF Words
<1>2. CASE o.opt \in {"sf-copy", "sf-tools", "sf-load"}
  BY <1>1, <1>2 DEF Reads, Shells, WordsGrow, TagsOf
<1>3. CASE o.opt \in {"build-noparallel", "with-perf", "high-memory"}
  BY <1>1, <1>3 DEF Reads, Shells, WordsGrow, TagsOf
<1>4. CASE o.opt = "with-aggr"
  <2> DEFINE mid == [sh EXCEPT !.env.bond = o.arg]
  <2>1. mid \in Shells /\ mid.env.target = sh.env.target /\ mid.words = sh.words
    BY <1>1 DEF Shells
  <2>2. Reads(sh, o) = Dispatch(AddTagBehind(mid, o.arg), "opts", "aggregation")
        /\ TagsOf(o) = {o.arg}
    BY <1>4 DEF Reads, TagsOf
  <2> HIDE DEF mid
  <2>3. Append(mid.words, <<o.arg>>) \in Seq(Seq(Words))
    BY <1>1, <2>1 DEF Shells
  <2>4. PICK behind \in Shells :
          /\ behind = AddTagBehind(mid, o.arg)
          /\ behind.env = mid.env /\ behind.open = TRUE
          /\ behind.words = Append(mid.words, <<o.arg>>)
    <3>1. /\ AddTagBehind(mid, o.arg) \in Shells
          /\ AddTagBehind(mid, o.arg).env = mid.env
          /\ AddTagBehind(mid, o.arg).open = TRUE
          /\ AddTagBehind(mid, o.arg).words = Append(mid.words, <<o.arg>>)
      BY <2>1, <2>3 DEF AddTagBehind, Shells
    <3>2. QED
      BY <3>1
  <2>5. PICK new \in Shells :
          /\ new = Dispatch(behind, "opts", "aggregation")
          /\ new.env = behind.env /\ new.words = behind.words /\ new.open = behind.open
    BY <1>0, DispatchKeeps
  <2>6. WordsGrow(sh, new, o)
    BY <1>4, <2>1, <2>2, <2>4, <2>5 DEF WordsGrow
  <2>7. QED
    BY <1>4, <2>1, <2>2, <2>4, <2>5, <2>6
<1>5. CASE o.opt = "test-scenario"
  <2>1. Reads(sh, o) = Dispatch(AddTag(sh, o.arg), "opts.matrix", o.arg) /\ TagsOf(o) = {o.arg}
    BY <1>5 DEF Reads, TagsOf
  <2>2. SameBut(AddTag(sh, o.arg), sh)
    BY <1>1, <1>0, AddTagIs
  <2>3. PICK mid \in Shells : mid = AddTag(sh, o.arg)
    BY <2>2 DEF SameBut
  <2>4. PICK new \in Shells :
          /\ new = Dispatch(mid, "opts.matrix", o.arg)
          /\ new.env = mid.env /\ new.words = mid.words /\ new.open = mid.open
    BY <1>1, <1>0, DispatchKeeps
  <2>5. mid.env = sh.env
    BY <2>2, <2>3 DEF SameBut
  <2>6. WordsGrow(sh, new, o)
    BY <1>1, <2>1, <2>3, <2>4, TagGrows
  <2>7. QED
    BY <1>5, <2>1, <2>3, <2>4, <2>5, <2>6
<1>6. CASE o.opt = "target"
  <2> DEFINE mid == [sh EXCEPT !.env.target = o.arg]
  <2>1. /\ mid \in Shells /\ mid.env.target = o.arg
        /\ mid.words = sh.words /\ mid.open = sh.open
    BY <1>6 DEF Shells
  <2>2. Reads(sh, o) = AddTag(mid, o.arg) /\ TagsOf(o) = {o.arg}
    BY <1>6 DEF Reads, TagsOf
  <2> HIDE DEF mid
  <2>3. Closed(mid)
    BY <2>1 DEF Closed
  <2>4. SameBut(AddTag(mid, o.arg), mid)
    BY <1>1, <2>1, <2>3, AddTagIs
  <2>5. PICK new \in Shells : new = AddTag(mid, o.arg) /\ new.env = mid.env
    BY <2>4 DEF SameBut
  <2>6. WordsGrow(sh, new, o)
    BY <1>1, <2>1, <2>2, <2>5, TagGrows
  <2>7. QED
    BY <1>6, <2>1, <2>2, <2>5, <2>6
<1>7. CASE o.opt \in {"hdr-digest", "data-digest"}
  <2>1. PICK mid \in {[sh EXCEPT !.env.hdr_digest = 1], [sh EXCEPT !.env.data_digest = 1]} :
          Reads(sh, o) = AddTag(mid, o.opt) /\ TagsOf(o) = {o.opt}
    BY <1>7 DEF Reads, TagsOf
  <2>2. /\ mid \in Shells /\ mid.env.target = sh.env.target
        /\ mid.words = sh.words /\ mid.open = sh.open
    BY <2>1 DEF Shells
  <2>3. Closed(mid)
    BY <2>2 DEF Closed
  <2>4. SameBut(AddTag(mid, o.opt), mid)
    BY <1>1, <2>2, <2>3, AddTagIs
  <2>5. PICK new \in Shells : new = AddTag(mid, o.opt) /\ new.env = mid.env
    BY <2>4 DEF SameBut
  <2>6. WordsGrow(sh, new, o)
    BY <1>1, <2>1, <2>2, <2>5, TagGrows
  <2>7. QED
    BY <1>7, <2>1, <2>2, <2>5, <2>6
<1>8. CASE o.opt = "use-null"
  <2>1. Reads(sh, o) = Dispatch(AddTag(sh, "nullblock"), "script", "env.nullblock")
        /\ TagsOf(o) = {"nullblock"}
    BY <1>8 DEF Reads, TagsOf
  <2>2. SameBut(AddTag(sh, "nullblock"), sh)
    BY <1>0, AddTagIs
  <2>3. PICK mid \in Shells : mid = AddTag(sh, "nullblock")
    BY <2>2 DEF SameBut
  <2>4. PICK new \in Shells :
          /\ new = Dispatch(mid, "script", "env.nullblock")
          /\ new.env = mid.env /\ new.words = mid.words /\ new.open = mid.open
    BY <1>1, <1>0, DispatchKeeps
  <2>5. mid.env = sh.env
    BY <2>2, <2>3 DEF SameBut
  <2>6. WordsGrow(sh, new, o)
    BY <1>0, <2>1, <2>3, <2>4, TagGrows
  <2>7. QED
    BY <1>8, <2>1, <2>3, <2>4, <2>5, <2>6
<1>9. CASE o.opt = "tester-count"
  <2> DEFINE mid == [sh EXCEPT !.fake = TRUE]
  <2>1. /\ mid \in Shells /\ mid.env = sh.env /\ mid.words = sh.words /\ mid.open = sh.open
    BY DEF Shells
  <2>2. Reads(sh, o) = Dispatch(mid, "tester-fake", "nvmeof-ts") /\ TagsOf(o) = {}
    BY <1>9 DEF Reads, TagsOf
  <2> HIDE DEF mid
  <2>3. PICK new \in Shells :
          /\ new = Dispatch(mid, "tester-fake", "nvmeof-ts")
          /\ new.env = mid.env /\ new.words = mid.words /\ new.open = mid.open
    BY <1>0, <2>1, DispatchKeeps
  <2>4. WordsGrow(sh, new, o)
    BY <2>1, <2>2, <2>3 DEF WordsGrow
  <2>5. QED
    BY <1>9, <2>1, <2>2, <2>3, <2>4
<1>10. CASE o.opt \notin {"sf-copy", "sf-tools", "sf-load", "build-noparallel", "with-perf",
                          "high-memory", "with-aggr", "test-scenario", "target",
                          "hdr-digest", "data-digest", "use-null", "tester-count"}
  <2>1. Reads(sh, o) = Dispatch(sh, o.opt, o.arg) /\ TagsOf(o) = {}
    BY <1>10 DEF Reads, TagsOf
  <2>2. PICK new \in Shells :
          /\ new = Dispatch(sh, o.opt, o.arg)
          /\ new.env = sh.env /\ new.words = sh.words /\ new.open = sh.open
    BY <1>1, DispatchKeeps
  <2>3. WordsGrow(sh, new, o)
    BY <2>1, <2>2 DEF WordsGrow
  <2>4. QED
    BY <1>10, <2>1, <2>2, <2>3
<1>11. QED
  BY <1>2, <1>3, <1>4, <1>5, <1>6, <1>7, <1>8, <1>9, <1>10

-----------------------------------------------------------------------------

LEMMA OptionsInitial == Init => OptionInv
<1> SUFFICES ASSUME Init PROVE OptionInv
  OBVIOUS
<1>1. asked \in CommandLines /\ todo = asked /\ shell = ShellInit /\ at = "locate"
  BY DEF Init
<1>2. asked \in Seq(Options)
  BY <1>1, SessionAssumption
<1>3. Len(asked) \in Nat /\ Past = 0
  BY <1>1, <1>2 DEF Past
<1>4. LineInv
  BY <1>1, <1>2, <1>3 DEF LineInv
<1>5. shell \in Shells
  <2>1. "" \in Words
    BY DEF Words
  <2>2. <<>> \in Seq(Seq(Words)) /\ {} \in SUBSET Options /\ {} \in SUBSET Reqs
    OBVIOUS
  <2>3. PICK dispatch \in SUBSET Options, reqs \in SUBSET Reqs : dispatch = {} /\ reqs = {}
    BY <2>2
  <2>4. PICK words \in Seq(Seq(Words)) : words = <<>>
    BY <2>2
  <2>5. shell = [env |-> [target |-> "kernel", hdr_digest |-> 0, data_digest |-> 0,
                          bond |-> "", tools_copy |-> FALSE, tools |-> "",
                          modules_load |-> FALSE],
                 words |-> words, open |-> FALSE, perf |-> FALSE, fake |-> FALSE,
                 parallel |-> TRUE, unreal |-> FALSE, dispatch |-> dispatch, reqs |-> reqs]
    BY <1>1, <2>3, <2>4 DEF ShellInit
  <2>6. QED
    BY <2>1, <2>5 DEF Shells
<1>6. shell.env.target = "kernel" /\ shell.words = <<>> /\ ~ shell.open
  BY <1>1 DEF ShellInit
<1>7. 1..Past = {}
  BY <1>3
<1>8. TargetInv
  BY <1>6, <1>7 DEF TargetInv
<1>9. WordsInv
  BY <1>6, <1>7 DEF WordsInv
<1>10. ReadInv
  BY <1>1 DEF ReadInv, Dispatched
<1>11. QED
  BY <1>4, <1>5, <1>8, <1>9, <1>10 DEF OptionInv

\* The next option is the one behind those that were read.
LEMMA NextOption ==
  ASSUME LineInv, todo # <<>>, todo' = Tail(todo), asked' = asked
  PROVE  /\ LineInv' /\ Past \in Nat /\ Past' = Past + 1 /\ Past + 1 \in DOMAIN asked
         /\ Head(todo) = asked[Past + 1] /\ Head(todo) \in Options
<1>1. asked \in Seq(Options) /\ todo \in Seq(Options) /\ Len(todo) <= Len(asked)
  BY DEF LineInv
<1>2. Len(todo) \in Nat \ {0} /\ Len(asked) \in Nat /\ Head(todo) = todo[1]
  BY <1>1
<1>3. /\ Tail(todo) \in Seq(Options) /\ Len(Tail(todo)) = Len(todo) - 1
      /\ \A k \in 1..(Len(todo) - 1) : Tail(todo)[k] = todo[k + 1]
  BY <1>1
<1>4. Past = Len(asked) - Len(todo) /\ Past' = Len(asked) - (Len(todo) - 1)
  BY <1>3 DEF Past
<1>5. \A k \in 1..(Len(todo) - 1) : todo'[k] = asked[Past' + k]
  <2> TAKE k \in 1..(Len(todo) - 1)
  <2>1. k + 1 \in 1..Len(todo) /\ Past + (k + 1) = Past' + k
    BY <1>2, <1>4
  <2>2. todo'[k] = todo[k + 1]
    BY <1>3
  <2>3. todo[k + 1] = asked[Past + (k + 1)]
    BY <2>1 DEF LineInv
  <2>4. QED
    BY <2>1, <2>2, <2>3
<1>6. LineInv'
  <2>1. /\ asked' \in Seq(Options) /\ asked' \in CommandLines /\ todo' \in Seq(Options)
        /\ Len(todo') <= Len(asked')
    BY <1>1, <1>2, <1>3 DEF LineInv
  <2>2. \A k \in 1..Len(todo') : todo'[k] = asked'[Past' + k]
    BY <1>3, <1>5
  <2>3. QED
    BY <2>1, <2>2 DEF LineInv
<1>7. todo[1] = asked[Past + 1]
  BY <1>2 DEF LineInv
<1>8. QED
  BY <1>1, <1>2, <1>4, <1>6, <1>7

\* Every word is still there, perhaps with a tag more, and the tags of the option are.
LEMMA WordsStay ==
  ASSUME NEW sh \in Shells, NEW new \in Shells, Closed(sh), NEW o \in Options,
         WordsGrow(sh, new, o)
  PROVE  /\ \A w \in DOMAIN sh.words :
              w \in DOMAIN new.words /\ ToSet(sh.words[w]) \subseteq ToSet(new.words[w])
         /\ \A tag \in TagsOf(o) : \E w \in DOMAIN new.words : tag \in ToSet(new.words[w])
<1> DEFINE n == Len(sh.words)
<1>1. sh.words \in Seq(Seq(Words)) /\ new.words \in Seq(Seq(Words)) /\ n \in Nat
      /\ o.arg \in Words
  BY DEF Shells, Options
<1>2. ASSUME NEW tag \in Words, new.words = Append(sh.words, <<tag>>), TagsOf(o) = {tag}
      PROVE  /\ \A w \in DOMAIN sh.words :
                  w \in DOMAIN new.words /\ ToSet(sh.words[w]) \subseteq ToSet(new.words[w])
             /\ tag \in ToSet(new.words[n + 1]) /\ n + 1 \in DOMAIN new.words
  <2>1. <<tag>> \in Seq(Words)
    OBVIOUS
  <2>2. /\ Len(new.words) = n + 1 /\ new.words[n + 1] = <<tag>>
        /\ \A k \in 1..n : new.words[k] = sh.words[k]
    BY <1>1, <1>2, <2>1, AppendIs
  <2>3. tag \in ToSet(<<tag>>)
    BY DEF ToSet
  <2>4. DOMAIN sh.words = 1..n /\ DOMAIN new.words = 1..Len(new.words)
    BY <1>1
  <2> HIDE DEF n
  <2>5. QED
    BY <1>1, <2>2, <2>3, <2>4
<1>3. CASE TagsOf(o) = {} /\ new.words = sh.words
  BY <1>3
<1>4. CASE TagsOf(o) = {o.arg} /\ new.words = Append(sh.words, <<o.arg>>)
  BY <1>1, <1>2, <1>4
<1>5. ASSUME NEW tag \in Words, TagsOf(o) = {tag}, sh.open, new.words = Glued(sh.words, tag)
      PROVE  /\ \A w \in DOMAIN sh.words :
                  w \in DOMAIN new.words /\ ToSet(sh.words[w]) \subseteq ToSet(new.words[w])
             /\ tag \in ToSet(new.words[n]) /\ n \in DOMAIN new.words
  <2>1. n > 0
    BY <1>5 DEF Closed
  <2>2. /\ Len(new.words) = n
        /\ \A w \in 1..(n - 1) : new.words[w] = sh.words[w]
        /\ new.words[n] = Append(sh.words[n], tag)
    <3>1. PICK u \in Seq(Seq(Words)) : u = sh.words
      BY <1>1
    <3>2. Len(u) > 0
      BY <2>1, <3>1
    <3>3. /\ Len(Glued(u, tag)) = Len(u)
          /\ \A w \in 1..(Len(u) - 1) : Glued(u, tag)[w] = u[w]
          /\ Glued(u, tag)[Len(u)] = Append(u[Len(u)], tag)
      BY <3>2, GluedWords
    <3>4. QED
      BY <1>5, <3>1, <3>3
  <2>3. DOMAIN sh.words = 1..n /\ DOMAIN new.words = 1..n
    BY <1>1, <2>2
  <2>4. sh.words[n] \in Seq(Words)
    BY <1>1, <2>1
  <2>5. PICK s \in Seq(Words) : s = sh.words[n]
    BY <2>4
  <2>6. /\ Append(s, tag) \in Seq(Words) /\ Len(Append(s, tag)) = Len(s) + 1
        /\ \A k \in 1..Len(s) : Append(s, tag)[k] = s[k]
        /\ Append(s, tag)[Len(s) + 1] = tag
    BY AppendIs
  <2>7. ToSet(s) \subseteq ToSet(Append(s, tag)) /\ tag \in ToSet(Append(s, tag))
    BY <2>6 DEF ToSet
  <2> HIDE DEF n
  <2>8. \A w \in 1..n : w \in 1..(n - 1) \/ w = n
    BY <1>1
  <2>9. n \in 1..n /\ tag \in ToSet(new.words[n])
        /\ ToSet(sh.words[n]) \subseteq ToSet(new.words[n])
    BY <1>1, <2>1, <2>2, <2>5, <2>7
  <2>10. \A w \in 1..(n - 1) : ToSet(sh.words[w]) \subseteq ToSet(new.words[w])
    BY <2>2
  <2>11. QED
    BY <2>3, <2>8, <2>9, <2>10
<1>6. QED
  <2> HIDE DEF n
  <2>1. ASSUME NEW tag \in Words, TagsOf(o) = {tag},
               new.words = IF sh.open THEN Glued(sh.words, tag) ELSE Append(sh.words, <<tag>>)
        PROVE  /\ \A w \in DOMAIN sh.words :
                    w \in DOMAIN new.words /\ ToSet(sh.words[w]) \subseteq ToSet(new.words[w])
               /\ \A t \in TagsOf(o) : \E w \in DOMAIN new.words : t \in ToSet(new.words[w])
    <3>1. CASE sh.open
      BY <1>5, <2>1, <3>1
    <3>2. CASE ~ sh.open
      BY <1>2, <2>1, <3>2
    <3>3. QED
      BY <3>1, <3>2
  <2>2. QED
    BY <1>3, <1>4, <2>1 DEF WordsGrow

\* A word with a tag glued to it begins with an aggregation's.
LEMMA AggregatesStay ==
  ASSUME LineInv, WordsInv, shell \in Shells, shell' \in Shells, NEW o \in Options,
         WordsGrow(shell, shell', o), Past \in Nat, Past' = Past + 1, asked' = asked,
         o = asked[Past + 1]
  PROVE  /\ \A w \in DOMAIN shell'.words :
              /\ Len(shell'.words[w]) > 0
              /\ Len(shell'.words[w]) > 1 => Aggregates(shell'.words[w], Past + 1)
         /\ shell'.open => /\ Len(shell'.words) > 0
                           /\ Aggregates(shell'.words[Len(shell'.words)], Past + 1)
<1>1. PICK u \in Seq(Seq(Words)) : u = shell.words
  BY DEF Shells
<1>2. PICK v \in Seq(Seq(Words)) : v = shell'.words
  BY DEF Shells
<1>3. Len(u) \in Nat /\ DOMAIN u = 1..Len(u) /\ DOMAIN v = 1..Len(v) /\ o.arg \in Words
  BY DEF Options
<1>15. PICK n \in Nat : n = Len(u)
  BY <1>3
<1>16. /\ \A w \in 1..(n + 1) : w \in 1..n \/ w = n + 1
      /\ n > 0 => \A w \in 1..n : w \in 1..(n - 1) \/ w = n
  OBVIOUS
<1>4. /\ \A w \in 1..Len(u) : Len(u[w]) > 0 /\ (Len(u[w]) > 1 => Aggregates(u[w], Past))
      /\ shell.open => Len(u) > 0 /\ Aggregates(u[Len(u)], Past)
  BY <1>1, <1>3 DEF WordsInv
<1> DEFINE Begins(word) == Aggregates(word, Past + 1)
<1>5. \A word : Aggregates(word, Past) => Begins(word)
  <2>1. \A j \in 1..Past : j \in 1..(Past + 1)
    OBVIOUS
  <2>2. QED
    BY <2>1 DEF Aggregates
<1>6. \A word : word[1] = o.arg /\ o.opt = "with-aggr" => Begins(word)
  <2>1. Past + 1 \in 1..(Past + 1)
    OBVIOUS
  <2>2. QED
    BY <2>1 DEF Aggregates
<1>0. \A word, longer : word[1] = longer[1] /\ Begins(word) => Begins(longer)
  BY DEF Aggregates
<1> HIDE DEF Begins
<1>7. SUFFICES /\ \A w \in 1..Len(v) : Len(v[w]) > 0 /\ (Len(v[w]) > 1 => Begins(v[w]))
               /\ shell'.open => Len(v) > 0 /\ Begins(v[Len(v)])
  BY <1>2, <1>3 DEF Begins
<1>8. CASE v = u /\ shell'.open = shell.open
  BY <1>4, <1>5, <1>8
<1>9. CASE o.opt = "with-aggr" /\ v = Append(u, <<o.arg>>)
  <2>1. <<o.arg>> \in Seq(Words) /\ Len(<<o.arg>>) = 1 /\ <<o.arg>>[1] = o.arg
    BY <1>3
  <2>2. /\ Len(v) = Len(u) + 1 /\ v[Len(u) + 1] = <<o.arg>>
        /\ \A k \in 1..Len(u) : v[k] = u[k]
    BY <1>9, <2>1, AppendIs
  <2>3. Begins(<<o.arg>>)
    BY <1>6, <1>9, <2>1
  <2>4. Len(v[n + 1]) > 0 /\ ~ (Len(v[n + 1]) > 1) /\ Begins(v[n + 1])
    BY <1>15, <2>1, <2>2, <2>3
  <2>5. \A w \in 1..n : Len(v[w]) > 0 /\ (Len(v[w]) > 1 => Begins(v[w]))
    BY <1>15, <1>4, <1>5, <2>2
  <2>6. Len(v) = n + 1
    BY <1>15, <2>2
  <2>7. ASSUME NEW w \in 1..(n + 1) PROVE Len(v[w]) > 0 /\ (Len(v[w]) > 1 => Begins(v[w]))
    <3>1. w \in 1..n \/ w = n + 1
      BY <1>16
    <3>2. CASE w \in 1..n
      BY <2>5, <3>2
    <3>3. CASE w = n + 1
      BY <2>4, <3>3
    <3>4. QED
      BY <3>1, <3>2, <3>3
  <2>8. QED
    BY <2>4, <2>6, <2>7
<1>10. ASSUME NEW tag \in Words, ~ shell'.open, v = Append(u, <<tag>>)
       PROVE  \A w \in 1..Len(v) : Len(v[w]) > 0 /\ (Len(v[w]) > 1 => Begins(v[w]))
  <2>1. <<tag>> \in Seq(Words) /\ Len(<<tag>>) = 1
    OBVIOUS
  <2>2. /\ Len(v) = Len(u) + 1 /\ v[Len(u) + 1] = <<tag>>
        /\ \A k \in 1..Len(u) : v[k] = u[k]
    BY <1>10, <2>1, AppendIs
  <2>3. Len(v[n + 1]) > 0 /\ ~ (Len(v[n + 1]) > 1)
    BY <1>15, <2>1, <2>2
  <2>4. \A w \in 1..n : Len(v[w]) > 0 /\ (Len(v[w]) > 1 => Begins(v[w]))
    BY <1>15, <1>4, <1>5, <2>2
  <2>5. Len(v) = n + 1
    BY <1>15, <2>2
  <2>6. ASSUME NEW w \in 1..(n + 1) PROVE Len(v[w]) > 0 /\ (Len(v[w]) > 1 => Begins(v[w]))
    <3>1. w \in 1..n \/ w = n + 1
      BY <1>16
    <3>2. CASE w \in 1..n
      BY <2>4, <3>2
    <3>3. CASE w = n + 1
      BY <2>3, <3>3
    <3>4. QED
      BY <3>1, <3>2, <3>3
  <2>7. QED
    BY <2>5, <2>6
<1>11. ASSUME NEW tag \in Words, ~ shell'.open, shell.open, v = Glued(u, tag)
       PROVE  \A w \in 1..Len(v) : Len(v[w]) > 0 /\ (Len(v[w]) > 1 => Begins(v[w]))
  <2>1. Len(u) > 0 /\ Begins(u[Len(u)]) /\ Len(u[Len(u)]) > 0
    BY <1>3, <1>4, <1>5, <1>11
  <2>2. /\ Len(v) = Len(u) /\ \A w \in 1..(Len(u) - 1) : v[w] = u[w]
        /\ v[Len(u)] = Append(u[Len(u)], tag)
    BY <1>11, <2>1, GluedWords
  <2>3. PICK s \in Seq(Words) : s = u[Len(u)]
    BY <1>3, <2>1
  <2>4. /\ Len(Append(s, tag)) = Len(s) + 1 /\ Len(s) \in Nat
        /\ \A k \in 1..Len(s) : Append(s, tag)[k] = s[k]
    BY AppendIs
  <2>5. Append(s, tag)[1] = s[1] /\ Len(Append(s, tag)) > 0
    BY <2>1, <2>3, <2>4
  <2>6. Begins(Append(s, tag))
    BY <1>0, <2>1, <2>3, <2>5
  <2>7. \A w \in 1..Len(u) : w \in 1..(Len(u) - 1) \/ w = Len(u)
    BY <1>15, <1>16, <2>1
  <2>8. \A w \in 1..(Len(u) - 1) : Len(v[w]) > 0 /\ (Len(v[w]) > 1 => Begins(v[w]))
    BY <1>3, <1>4, <1>5, <2>2
  <2>9. QED
    BY <2>2, <2>3, <2>5, <2>6, <2>7, <2>8
<1>12. CASE v = u /\ TagsOf(o) = {} /\ shell'.open = shell.open
  BY <1>8, <1>12
<1>13. ASSUME NEW tag \in Words, ~ shell'.open,
              v = IF shell.open THEN Glued(u, tag) ELSE Append(u, <<tag>>)
       PROVE  \A w \in 1..Len(v) : Len(v[w]) > 0 /\ (Len(v[w]) > 1 => Begins(v[w]))
  BY <1>10, <1>11, <1>13
<1>14. QED
  BY <1>1, <1>2, <1>9, <1>12, <1>13 DEF WordsGrow

LEMMA ReadKeeps ==
  ASSUME OptionInv, todo # <<>>, todo' = Tail(todo), asked' = asked, shell' \in Shells,
         shell'.env.target = IF Head(todo).opt = "target" THEN Head(todo).arg
                                                         ELSE shell.env.target,
         WordsGrow(shell, shell', Head(todo))
  PROVE  LineInv' /\ TargetInv' /\ WordsInv'
<1>1. LineInv /\ shell \in Shells /\ TargetInv /\ WordsInv
  BY DEF OptionInv
<1>2. PICK o \in Options : o = Head(todo)
  BY <1>1, NextOption
<1>3. /\ LineInv' /\ Past \in Nat /\ Past' = Past + 1 /\ Past + 1 \in DOMAIN asked
      /\ o = asked[Past + 1]
  BY <1>1, <1>2, NextOption
<1>4. \A i \in 1..(Past + 1) : i \in 1..Past \/ i = Past + 1
  BY <1>3
<1>5. TargetInv'
  <2>1. ASSUME \A i \in 1..(Past + 1) : asked[i].opt # "target"
        PROVE  shell'.env.target = "kernel"
    BY <1>1, <1>2, <1>3, <2>1 DEF TargetInv
  <2>2. ASSUME NEW i \in 1..(Past + 1), asked[i].opt = "target",
               \A j \in (i + 1)..(Past + 1) : asked[j].opt # "target"
        PROVE  shell'.env.target = asked[i].arg
    <3>1. CASE i = Past + 1
      BY <1>2, <1>3, <2>2, <3>1
    <3>2. CASE i \in 1..Past
      <4>1. Past + 1 \in (i + 1)..(Past + 1) /\ \A j \in (i + 1)..Past : j \in (i + 1)..(Past + 1)
        BY <1>3, <3>2
      <4>2. o.opt # "target"
        BY <1>3, <2>2, <4>1
      <4>3. shell.env.target = asked[i].arg
        BY <1>1, <2>2, <3>2, <4>1 DEF TargetInv
      <4>4. QED
        BY <1>2, <4>2, <4>3
    <3>3. QED
      BY <1>4, <3>1, <3>2
  <2>3. QED
    BY <1>3, <2>1, <2>2 DEF TargetInv
<1>6. Closed(shell)
  BY <1>1 DEF WordsInv, Closed
<1>7. WordsInv'
  <2>1. /\ \A w \in DOMAIN shell.words :
             w \in DOMAIN shell'.words /\ ToSet(shell.words[w]) \subseteq ToSet(shell'.words[w])
        /\ \A tag \in TagsOf(o) : \E w \in DOMAIN shell'.words : tag \in ToSet(shell'.words[w])
    BY <1>1, <1>2, <1>6, WordsStay
  <2>2. ASSUME NEW i \in 1..(Past + 1), NEW tag \in TagsOf(asked[i])
        PROVE  \E w \in DOMAIN shell'.words : tag \in ToSet(shell'.words[w])
    <3>1. CASE i = Past + 1
      BY <1>3, <2>1, <3>1
    <3>2. CASE i \in 1..Past
      <4>1. PICK w \in DOMAIN shell.words : tag \in ToSet(shell.words[w])
        BY <1>1, <3>2 DEF WordsInv, Tagged
      <4>2. QED
        BY <2>1, <4>1
    <3>3. QED
      BY <1>4, <3>1, <3>2
  <2>3. /\ \A w \in DOMAIN shell'.words :
             /\ Len(shell'.words[w]) > 0
             /\ Len(shell'.words[w]) > 1 => Aggregates(shell'.words[w], Past + 1)
        /\ shell'.open => /\ Len(shell'.words) > 0
                          /\ Aggregates(shell'.words[Len(shell'.words)], Past + 1)
    BY <1>1, <1>2, <1>3, AggregatesStay
  <2>4. QED
    BY <1>3, <2>2, <2>3 DEF WordsInv, Tagged, TagsOf, Aggregates
<1>8. QED
  BY <1>3, <1>5, <1>7

-----------------------------------------------------------------------------
(***************************************************************************)
(* The steps of the script and of the Tester                               *)
(***************************************************************************)

\* A step that neither reads an option nor gets the Tester going.
LEMMA OptionsStay ==
  ASSUME OptionInv, UNCHANGED scripted, Dispatched' => Dispatched PROVE OptionInv'
<1>1. UNCHANGED <<asked, todo, shell>>
  BY DEF scripted
<1>2. LineInv' /\ TargetInv' /\ WordsInv' /\ shell' \in Shells
  BY <1>1 DEF OptionInv, LineInv, TargetInv, WordsInv, Past, Aggregates, Tagged, TagsOf
<1>3. ReadInv'
  BY <1>1 DEF OptionInv, ReadInv, Requirements
<1>4. QED
  BY <1>2, <1>3 DEF OptionInv

LEMMA ReadOptionKeeps == ASSUME OptionInv, ReadOption PROVE OptionInv'
<1>1. LineInv /\ shell \in Shells /\ WordsInv
  BY DEF OptionInv
<1>2. /\ todo # <<>> /\ todo' = Tail(todo) /\ asked' = asked /\ at = "options"
      /\ at' \in {"options", "over"}
  BY DEF ReadOption, Exits
<1>3. PICK o \in Options : o = Head(todo)
  BY <1>1, <1>2, NextOption
<1>4. ReadInv'
  BY <1>2 DEF ReadInv, Dispatched
<1>5. CASE o.opt = "help" /\ shell' = shell
  <2>1. TagsOf(o) = {}
    BY <1>5 DEF TagsOf
  <2>2. WordsGrow(shell, shell', o)
    BY <1>5, <2>1 DEF WordsGrow
  <2>3. LineInv' /\ TargetInv' /\ WordsInv'
    BY <1>1, <1>2, <1>3, <1>5, <2>2, ReadKeeps
  <2>4. QED
    BY <1>1, <1>4, <1>5, <2>3 DEF OptionInv
<1>6. CASE shell' = Reads(shell, o)
  <2>1. o.opt = "target" => o.arg \in {"kernel", "onvme"}
    <3>1. Past + 1 \in DOMAIN asked /\ o = asked[Past + 1] /\ asked \in CommandLines
      BY <1>1, <1>2, <1>3, NextOption DEF LineInv
    <3>2. QED
      BY <3>1, SessionAssumption
  <2>2. Closed(shell)
    BY <1>1 DEF WordsInv, Closed
  <2>3. /\ shell' \in Shells /\ WordsGrow(shell, shell', o)
        /\ shell'.env.target = IF o.opt = "target" THEN o.arg ELSE shell.env.target
    BY <1>1, <1>6, <2>1, <2>2, ReadsIs
  <2>4. LineInv' /\ TargetInv' /\ WordsInv'
    BY <1>2, <1>3, <2>3, ReadKeeps
  <2>5. QED
    BY <1>4, <2>3, <2>4 DEF OptionInv
<1>7. QED
  BY <1>3, <1>5, <1>6 DEF ReadOption

LEMMA OptionsEndKeeps == ASSUME OptionInv, OptionsEnd PROVE OptionInv'
<1>1. LineInv /\ shell \in Shells /\ TargetInv /\ WordsInv
  BY DEF OptionInv
<1>2. PICK sh \in Shells :
        /\ sh.env = shell.env /\ sh.words = shell.words /\ sh.open = shell.open
        /\ shell' = [sh EXCEPT !.reqs = Requirements(sh)]
  <2>1. "build-parallel" \in Words /\ "" \in Words
    BY DEF Words
  <2>2. PICK sh \in Shells :
          /\ sh = Dispatch(shell, "build-parallel", "")
          /\ sh.env = shell.env /\ sh.words = shell.words /\ sh.open = shell.open
    BY <1>1, <2>1, DispatchKeeps
  <2>3. QED
    BY <1>1, <2>2 DEF OptionsEnd
<1>3. Requirements(sh) \in SUBSET Reqs
  BY DEF Requirements, Reqs
<1>4. PICK reqs \in SUBSET Reqs : reqs = Requirements(sh)
  BY <1>3
<1>5. /\ shell' \in Shells /\ shell'.env = shell.env /\ shell'.words = shell.words
      /\ shell'.open = shell.open /\ shell'.reqs = reqs /\ shell'.unreal = sh.unreal
  BY <1>2, <1>4 DEF Shells
<1>6. Requirements(shell') = reqs
  BY <1>2, <1>4, <1>5 DEF Requirements
<1>7. todo = <<>> /\ UNCHANGED <<asked, todo>>
  BY DEF OptionsEnd
<1>8. ReadInv'
  BY <1>5, <1>6, <1>7 DEF ReadInv, Requirements
<1>9. LineInv' /\ TargetInv' /\ WordsInv'
  BY <1>1, <1>5, <1>7 DEF LineInv, TargetInv, WordsInv, Past, Aggregates, Tagged, TagsOf
<1>10. QED
  BY <1>5, <1>8, <1>9 DEF OptionInv

LEMMA OptionsStep == ASSUME OptionInv, [Next]_vars PROVE OptionInv'
<1>1. CASE ReadOption
  BY <1>1, ReadOptionKeeps
<1>2. CASE OptionsEnd
  BY <1>2, OptionsEndKeeps
<1>3. CASE Locate \/ CheckStatus \/ MakeReport
  <2>1. UNCHANGED scripted /\ (Dispatched' => Dispatched)
    BY <1>3 DEF Locate, CheckStatus, MakeReport, Exits, Dispatched
  <2>2. QED
    BY <2>1, OptionsStay
<1>4. CASE TesterStep
  <2>1. UNCHANGED scripted /\ (Dispatched' => Dispatched)
    BY <1>4 DEF TesterStep, DispatcherFails, TesterStarts, StartTest, FioReports, EndTest,
                TesterEnds, TesterDies, Dispatched
  <2>2. QED
    BY <2>1, OptionsStay
<1>5. CASE UNCHANGED vars
  <2>1. UNCHANGED scripted /\ (Dispatched' => Dispatched)
    BY <1>5 DEF vars, scripted, Dispatched
  <2>2. QED
    BY <2>1, OptionsStay
<1>6. QED
  BY <1>1, <1>2, <1>3, <1>4, <1>5 DEF Next, ScriptStep

LEMMA OptionsAlways == Spec => []OptionInv
  BY OptionsInitial, OptionsStep, PTL DEF Spec

-----------------------------------------------------------------------------

LEMMA ControlStep == ASSUME ControlInv, [Next]_vars PROVE ControlInv'
<1>1. CASE ScriptStep
  <2>1. CASE Locate \/ ReadOption \/ OptionsEnd
    <3>1. CASE Exits(1)
      <4>1. /\ at' = "over" /\ exit' = <<1>> /\ <<1>> # <<>>
            /\ UNCHANGED <<result, saidFail, written>>
        BY <3>1 DEF Exits, logged
      <4>2. QED
        BY <4>1 DEF ControlInv
    <3>2. CASE ~ Exits(1)
      <4>1. /\ at \in {"locate", "options"} /\ at' \in {"options", "dispatcher"}
            /\ UNCHANGED <<exit, result, saidFail, written>>
        BY <2>1, <3>2 DEF ControlInv, Locate, ReadOption, OptionsEnd, logged, outcome
      <4>2. QED
        BY <4>1 DEF ControlInv
    <3>3. QED
      BY <3>1, <3>2
  <2>2. CASE CheckStatus
    BY <2>2 DEF ControlInv, CheckStatus, logged
  <2>3. CASE MakeReport
    <3>1. /\ at' = "over" /\ result' \in {0, 1} /\ exit' = <<result'>>
          /\ UNCHANGED <<saidFail, written>>
      BY <2>3 DEF MakeReport, logged
    <3>2. QED
      BY <3>1 DEF ControlInv
  <2>4. QED
    BY <1>1, <2>1, <2>2, <2>3 DEF ScriptStep
<1>2. CASE TesterStep
  BY <1>2 DEF ControlInv, TesterStep, DispatcherFails, TesterStarts, StartTest, FioReports,
              EndTest, TesterEnds, TesterDies, Logs, logged, outcome
<1>3. CASE UNCHANGED vars
  BY <1>3 DEF ControlInv, vars
<1>4. QED
  BY <1>1, <1>2, <1>3 DEF Next

LEMMA RanStep == ASSUME RanInv, [Next]_vars PROVE RanInv'
<1>0. MaxTests \in Nat
  BY SessionAssumption
<1>1. PICK T : ran \in Seq(T)
  BY DEF RanInv
<1>2. ASSUME ran' = ran, at' = "test" => Len(ran) < MaxTests PROVE RanInv'
  BY <1>2 DEF RanInv
<1>3. CASE ScriptStep
  <2>1. ran' = ran /\ at' # "test"
    BY <1>3 DEF ScriptStep, Locate, ReadOption, OptionsEnd, CheckStatus, MakeReport, Exits,
                logged
  <2>2. QED
    BY <1>2, <2>1
<1>4. CASE DispatcherFails \/ TesterStarts \/ TesterEnds \/ TesterDies
  <2>1. ran' = ran /\ at' # "test"
    BY <1>4 DEF DispatcherFails, TesterStarts, TesterEnds, TesterDies, logged
  <2>2. QED
    BY <1>2, <2>1
<1>5. ASSUME NEW test \in Tests, StartTest(test) PROVE RanInv'
  BY <1>2, <1>5 DEF StartTest
<1>6. CASE FioReports
  <2>1. ran' = ran /\ at = "test"
    BY <1>6 DEF FioReports
  <2>2. QED
    BY <1>2, <2>1 DEF RanInv
<1>7. CASE EndTest
  <2>1. PICK r : ran' = Append(ran, r) /\ r.verdict \in Verdicts
    BY <1>7 DEF EndTest, Verdicts
  <2>2. ran \in Seq(T \cup {r}) /\ r \in T \cup {r}
    BY <1>1
  <2>3. /\ Append(ran, r) \in Seq(T \cup {r}) /\ Len(Append(ran, r)) = Len(ran) + 1
        /\ \A k \in 1..Len(ran) : Append(ran, r)[k] = ran[k]
        /\ Append(ran, r)[Len(ran) + 1] = r
    BY <2>2, AppendIs
  <2>4. Len(ran) < MaxTests /\ Len(ran) \in Nat /\ at' = "tester"
    BY <1>1, <1>7 DEF EndTest, RanInv
  <2>5. Len(ran') <= MaxTests /\ (at' = "test" => Len(ran') < MaxTests)
    BY <1>0, <2>1, <2>3, <2>4
  <2>6. \A i \in DOMAIN ran' : ran'[i].verdict \in Verdicts
    <3>1. \A i \in 1..(Len(ran) + 1) : i \in 1..Len(ran) \/ i = Len(ran) + 1
      BY <2>4
    <3>2. DOMAIN ran' = 1..(Len(ran) + 1) /\ DOMAIN ran = 1..Len(ran)
      BY <1>1, <2>1, <2>3
    <3>3. QED
      BY <2>1, <2>3, <3>1, <3>2 DEF RanInv
  <2>7. QED
    BY <2>1, <2>3, <2>5, <2>6 DEF RanInv
<1>8. CASE UNCHANGED vars
  <2>1. ran' = ran /\ at' = at
    BY <1>8 DEF vars
  <2>2. QED
    BY <1>2, <2>1 DEF RanInv
<1>9. QED
  BY <1>3, <1>4, <1>5, <1>6, <1>7, <1>8 DEF Next, TesterStep

LEMMA TypeAlways == Spec => [](ControlInv /\ RanInv)
<1>1. Init => ControlInv
  BY DEF Init, ControlInv
<1>2. Init => RanInv
  <2> SUFFICES ASSUME Init PROVE RanInv
    OBVIOUS
  <2>1. ran = <<>> /\ at = "locate" /\ ran \in Seq({})
    BY DEF Init
  <2>2. QED
    BY <2>1, SessionAssumption DEF RanInv
<1>3. QED
  BY <1>1, <1>2, ControlStep, RanStep, PTL DEF Spec

LEMMA ReverseIs ==
  ASSUME NEW T, NEW s \in Seq(T)
  PROVE  /\ Reverse(s) \in Seq(T) /\ Len(Reverse(s)) = Len(s)
         /\ \A k \in 1..Len(s) : Reverse(s)[k] = s[Len(s) - k + 1]
<1>1. PICK n \in Nat : n = Len(s)
  OBVIOUS
<1>2. \A k \in 1..n : n - k + 1 \in 1..n
  OBVIOUS
<1>3. Reverse(s) = [k \in 1..n |-> s[n - k + 1]]
  BY <1>1 DEF Reverse
<1>4. \A k \in 1..n : s[n - k + 1] \in T
  BY <1>1, <1>2
<1>5. QED
  BY <1>1, <1>3, <1>4

LEMMA SamePrefix ==
  ASSUME NEW T, NEW r \in Seq(T), NEW t \in Seq(T), NEW m \in Nat,
         m <= Len(r), m <= Len(t), \A k \in 1..m : r[k] = t[k]
  PROVE  SubSeq(r, 1, m) = SubSeq(t, 1, m)
<1>1. /\ \A i \in 1..m : r[i] \in T /\ t[i] \in T
      /\ m - 1 + 1 = m /\ \A i \in 1..m : 1 + i - 1 = i
  OBVIOUS
<1>2. PICK p : p = SubSeq(r, 1, m)
  OBVIOUS
<1>3. PICK q : q = SubSeq(t, 1, m)
  OBVIOUS
<1>4. p \in Seq(T) /\ Len(p) = m /\ \A i \in 1..m : p[i] = r[i]
  BY <1>1, <1>2, SubSeqProperties
<1>5. q \in Seq(T) /\ Len(q) = m /\ \A i \in 1..m : q[i] = t[i]
  BY <1>1, <1>3, SubSeqProperties
<1>6. p = q
  BY <1>4, <1>5
<1>7. QED
  BY <1>2, <1>3, <1>6

\* The options that are left are the end of the command line.
LEMMA RestIsSuffix == LineInv => IsSuffix(todo, asked)
<1> SUFFICES ASSUME LineInv PROVE IsSuffix(todo, asked)
  OBVIOUS
<1>1. /\ asked \in Seq(Options) /\ todo \in Seq(Options) /\ Len(todo) <= Len(asked)
      /\ \A k \in 1..Len(todo) : todo[k] = asked[Len(asked) - Len(todo) + k]
  BY DEF LineInv, Past
<1>2. PICK m \in Nat, n \in Nat : m = Len(todo) /\ n = Len(asked) /\ m <= n
  BY <1>1
<1>3. \A k \in 1..m : todo[m - k + 1] = asked[n - k + 1]
  <2> TAKE k \in 1..m
  <2>1. m - k + 1 \in 1..m /\ n - m + (m - k + 1) = n - k + 1
    BY <1>2
  <2>2. QED
    BY <1>1, <1>2, <2>1
<1>4. PICK r \in Seq(Options) : r = Reverse(todo)
  BY <1>1, ReverseIs
<1>5. PICK t \in Seq(Options) : t = Reverse(asked)
  BY <1>1, ReverseIs
<1>6. /\ Len(r) = m /\ \A k \in 1..m : r[k] = todo[m - k + 1]
      /\ Len(t) = n /\ \A k \in 1..n : t[k] = asked[n - k + 1]
  BY <1>1, <1>2, <1>4, <1>5, ReverseIs
<1>7. \A k \in 1..m : r[k] = t[k]
  BY <1>2, <1>3, <1>6
<1>8. SubSeq(r, 1, m) = SubSeq(t, 1, m)
  BY <1>2, <1>6, <1>7, SamePrefix
<1>9. QED
  BY <1>2, <1>4, <1>5, <1>6, <1>8 DEF IsSuffix, IsPrefix

\* Every variable keeps its type: the shell holds what was read of the command line, a
\* session runs no more tests than the packages allow, each ends with a verdict, and
\* there is an exit status exactly when the script is over.
THEOREM TypeCorrect == Spec => []TypeOK
<1>1. OptionInv /\ ControlInv /\ RanInv => TypeOK
  BY RestIsSuffix DEF OptionInv, ControlInv, RanInv, TypeOK, LineInv
<1>2. QED
  BY <1>1, OptionsAlways, TypeAlways, PTL

\* Whatever the order of the options, the requirement that keeps the tests for ONVMe
\* targets out is there exactly when the last target named is the kernel's, and each
\* option's tag is among the words handed to TRC, alone unless an aggregation's open
\* word came before it (run.sh:69-135).
THEOREM DispatchIsAsAsked == Spec => []DispatchedAsAsked
<1>1. ASSUME OptionInv, at = "tester"
      PROVE  /\ "!ONVME_TARGET" \in shell.reqs <=> LastTarget = "kernel"
             /\ \A i \in DOMAIN asked : \A tag \in TagsOf(asked[i]) :
                  \E w \in DOMAIN shell.words :
                    /\ tag \in ToSet(shell.words[w])
                    /\ Len(shell.words[w]) > 1 =>
                         \E j \in DOMAIN asked : asked[j].opt = "with-aggr"
                                                 /\ shell.words[w][1] = asked[j].arg
  <2>1. /\ LineInv /\ shell \in Shells /\ TargetInv /\ WordsInv
        /\ todo = <<>> /\ shell.reqs = Requirements(shell)
    BY <1>1 DEF OptionInv, ReadInv, Dispatched
  <2>2. Past = Len(asked) /\ Len(asked) \in Nat /\ DOMAIN asked = 1..Past
    BY <2>1 DEF LineInv, Past
  <2>3. "!ONVME_TARGET" \in shell.reqs <=> shell.env.target = "kernel"
    BY <2>1 DEF Requirements
  <2>4. shell.env.target = LastTarget
    <3> DEFINE targets == {i \in DOMAIN asked : asked[i].opt = "target"}
    <3>1. CASE targets = {}
      BY <2>1, <2>2, <3>1 DEF TargetInv, LastTarget
    <3>2. CASE targets # {}
      <4>1. \E i \in targets : \A j \in targets : j <= i
        <5> DEFINE S == {n \in Nat : (\E i \in targets : i <= n) =>
                           \E i \in targets : i <= n /\ \A j \in targets : j <= n => j <= i}
        <5>1. 0 \in S
          BY <2>2
        <5>2. ASSUME NEW n \in Nat, n \in S PROVE n + 1 \in S
          <6>1. targets \subseteq Nat
            BY <2>2
          <6> HIDE DEF targets
          <6>2. CASE n + 1 \in targets
            BY <6>1, <6>2
          <6>3. CASE n + 1 \notin targets
            <7>1. \A j \in targets : j <= n + 1 <=> j <= n
              BY <6>1, <6>3
            <7>2. QED
              BY <5>2, <6>1, <7>1
          <6>4. QED
            BY <6>2, <6>3
        <5>3. Nat \subseteq S
          <6> HIDE DEF S
          <6>1. QED
            BY <5>1, <5>2, SetInduction
        <5>4. Past \in S /\ \A i \in targets : i <= Past
          BY <2>2, <5>3
        <5>5. QED
          BY <3>2, <5>4
      <4>2. PICK i : i = CHOOSE last \in targets : \A j \in targets : j <= last
        OBVIOUS
      <4>3. i \in targets /\ \A j \in targets : j <= i
        BY <4>1, <4>2
      <4>4. LastTarget = asked[i].arg
        BY <3>2, <4>2 DEF LastTarget
      <4>5. i \in 1..Past /\ asked[i].opt = "target"
            /\ \A j \in (i + 1)..Past : asked[j].opt # "target"
        <5>1. i \in 1..Past /\ asked[i].opt = "target"
          BY <2>2, <4>3
        <5>2. ASSUME NEW j \in (i + 1)..Past PROVE asked[j].opt # "target"
          <6>1. j \in 1..Past /\ ~ (j <= i)
            BY <2>2, <5>1
          <6>2. QED
            BY <2>2, <4>3, <6>1
        <5>3. QED
          BY <5>1, <5>2
      <4>6. QED
        BY <2>1, <4>4, <4>5 DEF TargetInv
    <3>3. QED
      BY <3>1, <3>2
  <2>5. ASSUME NEW i \in DOMAIN asked, NEW tag \in TagsOf(asked[i])
        PROVE  \E w \in DOMAIN shell.words :
                 /\ tag \in ToSet(shell.words[w])
                 /\ Len(shell.words[w]) > 1 =>
                      \E j \in DOMAIN asked : asked[j].opt = "with-aggr"
                                              /\ shell.words[w][1] = asked[j].arg
    <3>1. PICK w \in DOMAIN shell.words : tag \in ToSet(shell.words[w])
      BY <2>1, <2>2 DEF WordsInv, Tagged
    <3>2. Len(shell.words[w]) > 1 => Aggregates(shell.words[w], Past)
      BY <2>1 DEF WordsInv
    <3>3. QED
      BY <2>2, <3>1, <3>2 DEF Aggregates
  <2>6. QED
    BY <2>3, <2>4, <2>5
<1>2. OptionInv => DispatchedAsAsked
  BY <1>1 DEF DispatchedAsAsked
<1>3. QED
  BY <1>2, OptionsAlways, PTL

-----------------------------------------------------------------------------
(***************************************************************************)
(* The report: what the recursions of PerfReport return for one entry, and *)
(* one run, more.                                                          *)
(***************************************************************************)
Blank == [test_info |-> <<>>, entries |-> <<>>, runs |-> <<>>, raised |-> FALSE]

\* Both recursions at once: of the log's entries, and of the runs.
Base(kind) == IF kind = "log" THEN Blank ELSE <<>>
Step(kind, x, e) ==
  IF kind = "log" THEN Turn(x, e) ELSE IF Listed(e) THEN Enter(x, e) ELSE x

Walk(kind, f, entries, n) ==
  f = [k \in 0..n |-> IF k = 0 THEN Base(kind) ELSE Step(kind, f[k - 1], entries[k])]

LEMMA WalkIs ==
  ASSUME NEW kind, NEW f, NEW entries, NEW n \in Nat, Walk(kind, f, entries, n)
  PROVE  f[0] = Base(kind) /\ \A k \in 1..n : f[k] = Step(kind, f[k - 1], entries[k])
<1>1. 0 \in 0..n /\ \A k \in 1..n : k \in 0..n /\ k # 0
  OBVIOUS
<1>2. \A k \in 0..n : f[k] = IF k = 0 THEN Base(kind) ELSE Step(kind, f[k - 1], entries[k])
  BY Zenon DEF Walk
<1>3. QED
  BY <1>1, <1>2, Zenon

LEMMA WalkExists ==
  ASSUME NEW kind, NEW entries, NEW n \in Nat PROVE \E f : Walk(kind, f, entries, n)
<1> DEFINE S == {m \in Nat : \E f : Walk(kind, f, entries, m)}
<1>1. 0 \in S
  <2> DEFINE f == [k \in 0..0 |-> Base(kind)]
  <2>1. Walk(kind, f, entries, 0)
    <3>1. \A k \in 0..0 : k = 0
      OBVIOUS
    <3>2. f = [k \in 0..0 |-> IF k = 0 THEN Base(kind) ELSE Step(kind, f[k - 1], entries[k])]
      BY <3>1, Zenon
    <3>3. QED
      BY <3>2 DEF Walk
  <2>2. QED
    BY <2>1
<1>2. ASSUME NEW m \in Nat, m \in S PROVE m + 1 \in S
  <2>1. PICK f : Walk(kind, f, entries, m)
    BY <1>2
  <2> DEFINE next == Step(kind, f[m], entries[m + 1])
             g == [k \in 0..(m + 1) |-> IF k <= m THEN f[k] ELSE next]
  <2>2. f[0] = Base(kind) /\ \A k \in 1..m : f[k] = Step(kind, f[k - 1], entries[k])
    BY <2>1, WalkIs
  <2>3. /\ g[0] = f[0] /\ g[m + 1] = next
        /\ \A k \in 1..m : g[k] = f[k] /\ g[k - 1] = f[k - 1]
        /\ g[m + 1 - 1] = f[m] /\ m + 1 # 0
    <3> HIDE DEF next
    <3>1. QED
      OBVIOUS
  <2>4. \A k \in 0..(m + 1) : k = 0 \/ k \in 1..m \/ k = m + 1
    OBVIOUS
  <2>5. \A k \in 1..m : k # 0
    OBVIOUS
  <2>6. g = [k \in 0..(m + 1) |-> g[k]]
    <3> HIDE DEF next
    <3>1. QED
      OBVIOUS
  <2> HIDE DEF g
  <2>7. ASSUME NEW k \in 0..(m + 1)
        PROVE  g[k] = IF k = 0 THEN Base(kind) ELSE Step(kind, g[k - 1], entries[k])
    <3>1. CASE k = 0
      BY <2>2, <2>3, <3>1, Zenon
    <3>2. CASE k \in 1..m
      BY <2>2, <2>3, <2>5, <3>2, Zenon
    <3>3. CASE k = m + 1
      <4>1. g[m + 1] = Step(kind, g[m + 1 - 1], entries[m + 1])
        BY <2>3, Zenon DEF next
      <4>2. m + 1 = k
        BY <3>3
      <4>3. g[k] = Step(kind, g[k - 1], entries[k])
        BY <4>1, <4>2
      <4>4. k # 0
        BY <3>3
      <4>5. QED
        BY <4>3, <4>4, Zenon
    <3>4. QED
      BY <2>4, <3>1, <3>2, <3>3
  <2>8. Walk(kind, g, entries, m + 1)
    BY <2>6, <2>7, Zenon DEF Walk
  <2>9. QED
    BY <2>8
<1>3. Nat \subseteq S
  <2> HIDE DEF S
  <2>1. QED
    BY <1>1, <1>2, SetInduction
<1>4. QED
  BY <1>3

Agree(s, t, n) == \A k \in 1..n : s[k] = t[k]

\* Two walks agree as far as their entries do.
LEMMA WalksAgree ==
  ASSUME NEW kind, NEW f, NEW g, NEW s, NEW t, NEW n \in Nat, NEW m \in Nat, n <= m,
         Walk(kind, f, s, n), Walk(kind, g, t, m), Agree(s, t, n)
  PROVE  f[n] = g[n]
<1> DEFINE S == {k \in Nat : k <= n => f[k] = g[k]}
<1>1. f[0] = Base(kind) /\ \A k \in 1..n : f[k] = Step(kind, f[k - 1], s[k])
  BY WalkIs
<1>2. g[0] = Base(kind) /\ \A k \in 1..m : g[k] = Step(kind, g[k - 1], t[k])
  BY WalkIs
<1>3. 0 \in S
  BY <1>1, <1>2
<1>4. ASSUME NEW k \in Nat, k \in S PROVE k + 1 \in S
  <2> SUFFICES ASSUME k + 1 <= n PROVE f[k + 1] = g[k + 1]
    OBVIOUS
  <2>1. k + 1 \in 1..n /\ k + 1 \in 1..m /\ k + 1 - 1 = k /\ f[k] = g[k]
    BY <1>4
  <2>2. f[k + 1] = Step(kind, f[k], s[k + 1]) /\ g[k + 1] = Step(kind, g[k], t[k + 1])
    BY <1>1, <1>2, <2>1
  <2>3. s[k + 1] = t[k + 1]
    BY <2>1 DEF Agree
  <2>4. QED
    BY <2>1, <2>2, <2>3
<1>5. Nat \subseteq S
  <2> HIDE DEF S
  <2>1. QED
    BY <1>3, <1>4, SetInduction
<1>6. QED
  BY <1>5

LEMMA TestRunsIs ==
  ASSUME NEW entries, NEW n \in Nat, n = Len(entries)
  PROVE  \E f : Walk("log", f, entries, n) /\ TestRuns(entries) = f[n]
<1> DEFINE Solves(f) == f = [k \in 0..n |-> IF k = 0 THEN Blank
                                            ELSE Turn(f[k - 1], entries[k])]
           after == CHOOSE f : Solves(f)
<1>0. Base("log") = Blank /\ \A x, e : Step("log", x, e) = Turn(x, e)
  BY DEF Base, Step
<1>1. TestRuns(entries) = after[n]
  BY DEF TestRuns, Blank
<1>2. \E f : Solves(f)
  <2>1. PICK f : Walk("log", f, entries, n)
    BY WalkExists
  <2>2. Solves(f)
    BY <1>0, <2>1, Zenon DEF Walk
  <2>3. QED
    BY <2>2
<1>3. Solves(after)
  <2> HIDE DEF Solves
  <2>1. QED
    BY <1>2
<1>4. PICK f : f = after
  OBVIOUS
<1>5. Walk("log", f, entries, n)
  <2>1. Solves(f)
    <3> HIDE DEF Solves
    <3>1. QED
      BY <1>3, <1>4
  <2> HIDE DEF after
  <2>2. QED
    BY <1>0, <2>1, Zenon DEF Walk
<1>6. TestRuns(entries) = f[n]
  <2> HIDE DEF after
  <2>1. QED
    BY <1>1, <1>4
<1>7. QED
  BY <1>5, <1>6

LEMMA NothingRuns == TestRuns(<<>>) = Blank
<1>1. PICK f : Walk("log", f, <<>>, 0) /\ TestRuns(<<>>) = f[0]
  <2>1. 0 = Len(<<>>)
    OBVIOUS
  <2>2. QED
    BY <2>1, TestRunsIs
<1>2. QED
  BY <1>1, WalkIs DEF Base

\* One entry more is one turn more.
LEMMA OneTurnMore ==
  ASSUME NEW T, NEW s \in Seq(T), NEW e \in T
  PROVE  TestRuns(Append(s, e)) = Turn(TestRuns(s), e)
<1>1. PICK n \in Nat : n = Len(s)
  OBVIOUS
<1>2. PICK t : t = Append(s, e)
  OBVIOUS
<1>3. Len(t) = n + 1 /\ t[n + 1] = e /\ \A k \in 1..n : s[k] = t[k]
  BY <1>1, <1>2, AppendIs
<1>4. PICK f : Walk("log", f, s, n) /\ TestRuns(s) = f[n]
  BY <1>1, TestRunsIs
<1>5. PICK g : Walk("log", g, t, n + 1) /\ TestRuns(t) = g[n + 1]
  BY <1>3, TestRunsIs
<1>6. g[n + 1] = Turn(g[n + 1 - 1], t[n + 1])
  <2>1. g[n + 1] = Step("log", g[n + 1 - 1], t[n + 1])
    BY <1>5, WalkIs
  <2>2. QED
    BY <2>1 DEF Step
<1>7. n + 1 - 1 = n /\ n <= n + 1 /\ n + 1 \in Nat
  OBVIOUS
<1>8. f[n] = g[n]
  <2>1. PICK m \in Nat : m = n + 1
    BY <1>7
  <2>2. PICK kind : kind = "log"
    OBVIOUS
  <2>3. Walk(kind, f, s, n) /\ Walk(kind, g, t, m) /\ n <= m
    BY <1>4, <1>5, <1>7, <2>1, <2>2
  <2>4. Agree(s, t, n)
    BY <1>3 DEF Agree
  <2>5. QED
    BY <2>3, <2>4, WalksAgree
<1>9. g[n + 1] = Turn(f[n], e)
  BY <1>3, <1>6, <1>7, <1>8
<1>10. QED
  BY <1>2, <1>4, <1>5, <1>9

LEMMA PerformanceIs ==
  ASSUME NEW runs, NEW n \in Nat, n = Len(runs)
  PROVE  \E f : Walk("runs", f, runs, n) /\ Performance(runs) = f[n]
<1> DEFINE Solves(f) == f = [k \in 0..n |-> IF k = 0 THEN <<>>
                                            ELSE IF Listed(runs[k])
                                                   THEN Enter(f[k - 1], runs[k])
                                                   ELSE f[k - 1]]
           perf == CHOOSE f : Solves(f)
<1>1. Base("runs") = <<>>
  BY DEF Base
<1>2. ASSUME NEW x, NEW e
      PROVE  Step("runs", x, e) = IF Listed(e) THEN Enter(x, e) ELSE x
  BY DEF Step
<1>3. Performance(runs) = perf[n]
  BY DEF Performance
<1>4. \E f : Solves(f)
  <2>1. PICK f : Walk("runs", f, runs, n)
    BY WalkExists
  <2>2. Solves(f)
    BY <1>1, <1>2, <2>1, Zenon DEF Walk
  <2>3. QED
    BY <2>2
<1>5. Solves(perf)
  <2> HIDE DEF Solves
  <2>1. QED
    BY <1>4
<1>6. PICK f : f = perf
  OBVIOUS
<1>7. Walk("runs", f, runs, n)
  <2>1. Solves(f)
    <3> HIDE DEF Solves
    <3>1. QED
      BY <1>5, <1>6
  <2> HIDE DEF perf
  <2>2. QED
    BY <1>1, <1>2, <2>1, Zenon DEF Walk
<1>8. Performance(runs) = f[n]
  <2> HIDE DEF perf
  <2>1. QED
    BY <1>3, <1>6
<1>9. QED
  BY <1>7, <1>8

Shaped(perf, F, R) == perf \in [DOMAIN perf -> [fields : F, reports : Seq(R)]]

Entered(p, run, table, q) ==
  /\ DOMAIN q = DOMAIN p \cup {table}
  /\ \A t \in DOMAIN p : t # table => q[t] = p[t]
  /\ q[table].fields = IF table \in DOMAIN p THEN p[table].fields ELSE FieldsOf(run.info)
  /\ q[table].reports =
       Append(IF table \in DOMAIN p THEN p[table].reports ELSE <<>>, ReportOf(run))

\* A run's report goes to the end of its table, which its arguments open.
LEMMA EnterIs ==
  ASSUME NEW F, NEW R, NEW p, NEW run,
         Shaped(p, F, R), FieldsOf(run.info) \in F, ReportOf(run) \in R,
         NEW table, table = TableOf(run.info), NEW q, q = Enter(p, run)
  PROVE  Shaped(q, F, R) /\ Entered(p, run, table, q)
<1> DEFINE opened == IF table \in DOMAIN p THEN p[table]
                     ELSE [fields |-> FieldsOf(run.info), reports |-> <<>>]
           longer == [opened EXCEPT !.reports = Append(@, ReportOf(run))]
<1>1. opened \in [fields : F, reports : Seq(R)]
  <2>1. <<>> \in Seq(R)
    OBVIOUS
  <2>2. table \in DOMAIN p => p[table] \in [fields : F, reports : Seq(R)]
    BY DEF Shaped
  <2>3. QED
    BY <2>1, <2>2
<1>2. /\ opened.fields = IF table \in DOMAIN p THEN p[table].fields ELSE FieldsOf(run.info)
      /\ opened.reports = IF table \in DOMAIN p THEN p[table].reports ELSE <<>>
  OBVIOUS
<1>3. q = [t \in DOMAIN p \cup {table} |-> IF t = table THEN longer ELSE p[t]]
  BY Zenon DEF Enter
<1> HIDE DEF opened
<1>4. /\ longer \in [fields : F, reports : Seq(R)]
      /\ longer.fields = opened.fields
      /\ longer.reports = Append(opened.reports, ReportOf(run))
  BY <1>1
<1> HIDE DEF longer
<1>5. /\ DOMAIN q = DOMAIN p \cup {table} /\ q[table] = longer
      /\ \A t \in DOMAIN p : t # table => q[t] = p[t]
      /\ Shaped(q, F, R)
  BY <1>3, <1>4 DEF Shaped
<1>6. QED
  BY <1>2, <1>4, <1>5 DEF Entered

-----------------------------------------------------------------------------
(***************************************************************************)
(* What a report holds, the first n runs entered                           *)
(***************************************************************************)
Opened(runs, n, table, fields) ==
  \E m \in 1..n : /\ Listed(runs[m]) /\ TableOf(runs[m].info) = table
                  /\ FieldsOf(runs[m].info) = fields

Reported(runs, n, table, row) ==
  \E m \in 1..n : /\ Listed(runs[m]) /\ TableOf(runs[m].info) = table
                  /\ ReportOf(runs[m]) = row

Held(perf, run) ==
  /\ TableOf(run.info) \in DOMAIN perf
  /\ \E k \in DOMAIN perf[TableOf(run.info)].reports :
       perf[TableOf(run.info)].reports[k] = ReportOf(run)

Sound(perf, runs, n) ==
  \A table \in DOMAIN perf :
    /\ Opened(runs, n, table, perf[table].fields)
    /\ \A k \in DOMAIN perf[table].reports : Reported(runs, n, table, perf[table].reports[k])

Whole(perf, runs, n) == \A m \in 1..n : Listed(runs[m]) => Held(perf, runs[m])

LEMMA StillSound ==
  ASSUME NEW runs, NEW n \in Nat, NEW table
  PROVE  /\ \A fields : Opened(runs, n, table, fields) => Opened(runs, n + 1, table, fields)
         /\ \A row : Reported(runs, n, table, row) => Reported(runs, n + 1, table, row)
<1>1. \A m \in 1..n : m \in 1..(n + 1)
  OBVIOUS
<1>2. QED
  BY <1>1, Zenon DEF Opened, Reported

LEMMA OneRunMore ==
  ASSUME NEW F, NEW R, NEW p, NEW runs, NEW n \in Nat,
         FieldsOf(runs[n + 1].info) \in F, ReportOf(runs[n + 1]) \in R,
         Shaped(p, F, R), Sound(p, runs, n), Whole(p, runs, n),
         NEW q, q = Step("runs", p, runs[n + 1])
  PROVE  Shaped(q, F, R) /\ Sound(q, runs, n + 1) /\ Whole(q, runs, n + 1)
<1>0. PICK run : run = runs[n + 1]
  OBVIOUS
<1>1. q = IF Listed(run) THEN Enter(p, run) ELSE p
  BY <1>0 DEF Step
<1>2. n + 1 \in 1..(n + 1) /\ \A m \in 1..(n + 1) : m \in 1..n \/ m = n + 1
  OBVIOUS
<1>3. CASE ~Listed(run)
  <2>1. q = p
    BY <1>1, <1>3
  <2>2. Sound(q, runs, n + 1)
    BY <2>1, StillSound DEF Sound
  <2>3. Whole(q, runs, n + 1)
    BY <1>0, <1>2, <1>3, <2>1 DEF Whole
  <2>4. QED
    BY <2>1, <2>2, <2>3
<1>4. CASE Listed(run)
  <2>1. q = Enter(p, run)
    BY <1>1, <1>4
  <2>2. PICK table : table = TableOf(run.info)
    OBVIOUS
  <2> DEFINE fields == FieldsOf(run.info)
             row == ReportOf(run)
             old == IF table \in DOMAIN p THEN p[table].reports ELSE <<>>
  <2>3. /\ DOMAIN q = DOMAIN p \cup {table}
        /\ Shaped(q, F, R)
        /\ \A t \in DOMAIN p : t # table => q[t] = p[t]
        /\ q[table].fields = IF table \in DOMAIN p THEN p[table].fields ELSE fields
        /\ q[table].reports = Append(old, row)
    <3>1. Shaped(p, F, R) /\ FieldsOf(run.info) \in F /\ ReportOf(run) \in R
      BY <1>0
    <3>2. Shaped(q, F, R) /\ Entered(p, run, table, q)
      BY <2>1, <2>2, <3>1, EnterIs
    <3>3. QED
      BY <3>2, Zenon DEF Entered
  <2>4. old \in Seq(R) /\ row \in R
    <3>1. <<>> \in Seq(R)
      OBVIOUS
    <3>2. QED
      BY <1>0, <3>1 DEF Shaped
  <2>5. PICK len \in Nat : len = Len(old)
    BY <2>4
  <2>6. /\ DOMAIN q[table].reports = 1..(len + 1) /\ q[table].reports[len + 1] = row
        /\ \A k \in 1..len : k \in DOMAIN old /\ q[table].reports[k] = old[k]
    <3> HIDE DEF old
    <3>1. QED
      BY <2>3, <2>4, <2>5, AppendIs
  <2>7. Opened(runs, n + 1, table, fields) /\ Reported(runs, n + 1, table, row)
    BY <1>0, <1>2, <1>4, <2>2 DEF Opened, Reported
  <2>8. Opened(runs, n + 1, table, q[table].fields)
    <3>1. CASE table \in DOMAIN p
      BY <2>3, <3>1, StillSound DEF Sound
    <3>2. CASE table \notin DOMAIN p
      BY <2>3, <2>7, <3>2
    <3>3. QED
      BY <3>1, <3>2
  <2>9. ASSUME NEW k \in DOMAIN q[table].reports
        PROVE  Reported(runs, n + 1, table, q[table].reports[k])
    <3>1. CASE k \in 1..len
      <4>1. k \in DOMAIN old /\ q[table].reports[k] = old[k]
        BY <2>6, <3>1
      <4>2. table \in DOMAIN p
        <5>1. DOMAIN <<>> = {}
          OBVIOUS
        <5>2. QED
          BY <4>1, <5>1
      <4>3. old = p[table].reports
        BY <4>2
      <4>4. QED
        BY <4>1, <4>2, <4>3, StillSound DEF Sound
    <3>2. CASE k = len + 1
      BY <2>6, <2>7, <3>2
    <3>3. QED
      BY <2>6, <3>1, <3>2
  <2>10. Sound(q, runs, n + 1)
    <3>1. ASSUME NEW t \in DOMAIN q, t # table
          PROVE  /\ Opened(runs, n + 1, t, q[t].fields)
                 /\ \A k \in DOMAIN q[t].reports : Reported(runs, n + 1, t, q[t].reports[k])
      BY <2>3, <3>1, StillSound DEF Sound
    <3>2. QED
      BY <2>8, <2>9, <3>1 DEF Sound
  <2>11. ASSUME NEW m \in 1..n, Listed(runs[m]) PROVE Held(q, runs[m])
    <3>1. Held(p, runs[m])
      BY <2>11 DEF Whole
    <3>2. PICK t : t = TableOf(runs[m].info)
      OBVIOUS
    <3>3. t \in DOMAIN p /\ t \in DOMAIN q
      BY <2>3, <3>1, <3>2 DEF Held
    <3>4. PICK k \in DOMAIN p[t].reports : p[t].reports[k] = ReportOf(runs[m])
      BY <3>1, <3>2 DEF Held
    <3>5. CASE t # table
      BY <2>3, <3>2, <3>3, <3>4, <3>5 DEF Held
    <3>6. CASE t = table
      <4>1. old = p[table].reports
        BY <3>3, <3>6
      <4>2. k \in 1..len
        BY <2>4, <2>5, <3>4, <3>6, <4>1
      <4>3. k \in DOMAIN q[table].reports /\ q[table].reports[k] = ReportOf(runs[m])
        BY <2>6, <3>4, <3>6, <4>1, <4>2
      <4>4. QED
        BY <3>2, <3>3, <3>6, <4>3 DEF Held
    <3>7. QED
      BY <3>5, <3>6
  <2>12. Held(q, run)
    <3>1. len + 1 \in DOMAIN q[table].reports
      <4>1. len + 1 \in 1..(len + 1)
        OBVIOUS
      <4>2. QED
        BY <2>6, <4>1, Zenon
    <3>2. table \in DOMAIN q
      BY <2>3
    <3>3. QED
      BY <2>2, <2>6, <3>1, <3>2, Zenon DEF Held
  <2>13. Whole(q, runs, n + 1)
    BY <1>0, <1>2, <2>11, <2>12 DEF Whole
  <2>14. QED
    BY <2>3, <2>10, <2>13
<1>5. QED
  BY <1>3, <1>4

\* The report holds each listed run, in the table of its own arguments, and nothing else.
LEMMA ReportHolds ==
  ASSUME NEW T, NEW runs \in Seq(T), NEW perf, perf = Performance(runs)
  PROVE  /\ Sound(perf, runs, Len(runs)) /\ Whole(perf, runs, Len(runs))
         /\ \E F, R : Shaped(perf, F, R)
<1>1. PICK n \in Nat : n = Len(runs)
  OBVIOUS
<1>2. PICK f : Walk("runs", f, runs, n) /\ perf = f[n]
  BY <1>1, PerformanceIs
<1>3. f[0] = Base("runs") /\ \A k \in 1..n : f[k] = Step("runs", f[k - 1], runs[k])
  <2>1. PICK kind : kind = "runs"
    OBVIOUS
  <2>2. Walk(kind, f, runs, n)
    BY <1>2, <2>1
  <2>3. f[0] = Base(kind) /\ \A k \in 1..n : f[k] = Step(kind, f[k - 1], runs[k])
    BY <2>2, WalkIs
  <2>4. QED
    BY <2>1, <2>3
<1> DEFINE F == {FieldsOf(runs[k].info) : k \in 1..n}
           R == {ReportOf(runs[k]) : k \in 1..n}
           S == {k \in Nat : k <= n => /\ Shaped(f[k], F, R)
                                       /\ Sound(f[k], runs, k) /\ Whole(f[k], runs, k)}
<1>4. 0 \in S
  <2>1. f[0] = <<>> /\ DOMAIN f[0] = {} /\ 1..0 = {}
    <3>1. f[0] = <<>>
      BY <1>3 DEF Base
    <3>2. DOMAIN <<>> = {} /\ 1..0 = {}
      OBVIOUS
    <3>3. QED
      BY <3>1, <3>2
  <2>2. Sound(f[0], runs, 0) /\ Whole(f[0], runs, 0)
    BY <2>1 DEF Sound, Whole
  <2>3. Shaped(f[0], F, R)
    <3>1. <<>> \in [{} -> [fields : F, reports : Seq(R)]]
      OBVIOUS
    <3>2. QED
      BY <2>1, <3>1 DEF Shaped
  <2>4. QED
    BY <2>2, <2>3
<1>5. ASSUME NEW k \in Nat, k \in S PROVE k + 1 \in S
  <2> SUFFICES ASSUME k + 1 <= n
               PROVE  /\ Shaped(f[k + 1], F, R) /\ Sound(f[k + 1], runs, k + 1)
                      /\ Whole(f[k + 1], runs, k + 1)
    BY <1>5
  <2>1. k + 1 \in 1..n /\ k + 1 - 1 = k
    OBVIOUS
  <2>2. f[k + 1] = Step("runs", f[k], runs[k + 1])
    BY <1>3, <2>1
  <2>3. FieldsOf(runs[k + 1].info) \in F /\ ReportOf(runs[k + 1]) \in R
    BY <2>1
  <2>4. Shaped(f[k], F, R) /\ Sound(f[k], runs, k) /\ Whole(f[k], runs, k)
    BY <1>5
  <2> HIDE DEF F, R, S
  <2>5. QED
    BY <2>2, <2>3, <2>4, OneRunMore
<1>6. Nat \subseteq S
  <2> HIDE DEF S
  <2>1. QED
    BY <1>4, <1>5, SetInduction
<1>7. Shaped(perf, F, R) /\ Sound(perf, runs, n) /\ Whole(perf, runs, n)
  <2> HIDE DEF F, R
  <2>1. n \in S /\ n <= n
    <3> HIDE DEF S
    <3>1. QED
      BY <1>6
  <2>2. QED
    BY <1>2, <2>1
<1>8. QED
  BY <1>1, <1>7

\* A listed run has its row.
LEMMA RowOfRun ==
  ASSUME NEW T, NEW runs \in Seq(T), NEW perf, perf = Performance(runs),
         \A a, b \in 1..Len(runs) :
           Listed(runs[a]) /\ Listed(runs[b]) /\ TableOf(runs[a].info) = TableOf(runs[b].info)
             => FieldsOf(runs[a].info) = FieldsOf(runs[b].info),
         NEW m \in 1..Len(runs), Listed(runs[m])
  PROVE  Row(perf, runs[m].info, FioResultOf(runs[m].entries)[1])
<1>1. PICK n \in Nat : n = Len(runs)
  OBVIOUS
<1>2. Sound(perf, runs, n) /\ Whole(perf, runs, n)
  BY <1>1, ReportHolds
<1>3. PICK test, table, figures :
        /\ test = runs[m].info /\ table = TableOf(test)
        /\ figures = FioResultOf(runs[m].entries)[1]
  OBVIOUS
<1>4. /\ table \in DOMAIN perf
      /\ \E k \in DOMAIN perf[table].reports : perf[table].reports[k] = ReportOf(runs[m])
  BY <1>1, <1>2, <1>3 DEF Whole, Held
<1>5. perf[table].fields = FieldsOf(test)
  <2>1. PICK a \in 1..n : /\ Listed(runs[a]) /\ TableOf(runs[a].info) = table
                          /\ FieldsOf(runs[a].info) = perf[table].fields
    BY <1>2, <1>4 DEF Sound, Opened
  <2>2. QED
    BY <1>1, <1>3, <2>1
<1> DEFINE type == test_types[test.name]
           rest == Without(test.args, type)
<1>6. /\ table[1] = type /\ table[2] = [i \in DOMAIN rest |-> rest[i].value]
  BY <1>3 DEF TableOf
<1>7. perf[table].fields = [i \in DOMAIN rest |-> rest[i].name]
  BY <1>5 DEF FieldsOf
<1>8. [value |-> ArgOf(test.args, type), figures |-> figures] \in ToSet(perf[table].reports)
  <2>1. ReportOf(runs[m]) = [value |-> ArgOf(test.args, type), figures |-> figures]
    BY <1>3 DEF ReportOf
  <2>2. QED
    BY <1>4, <2>1, Zenon DEF ToSet
<1>9. Row(perf, test, figures)
  BY <1>4, <1>6, <1>7, <1>8, Zenon DEF Row
<1>10. QED
  BY <1>3, <1>9

-----------------------------------------------------------------------------
(***************************************************************************)
(* The log                                                                 *)
(***************************************************************************)
IsSeq(s) == \E T : s \in Seq(T)

Then(s, e) == s \o <<e>>

LEMMA OneEntry ==
  ASSUME NEW s, IsSeq(s), NEW e, NEW t, t = Then(s, e)
  PROVE  /\ IsSeq(t) /\ Len(t) = Len(s) + 1 /\ Len(s) \in Nat
         /\ t[Len(t)] = e /\ \A k \in 1..Len(s) : t[k] = s[k]
         /\ Last(t) = e /\ Front(t) = s /\ t # <<>>
         /\ TestRuns(t) = Turn(TestRuns(s), e)
<1>1. PICK S : s \in Seq(S)
  BY DEF IsSeq
<1>2. PICK T : T = S \cup {e}
  OBVIOUS
<1>3. PICK n \in Nat : n = Len(s)
  BY <1>1
<1>4. s \in Seq(T) /\ e \in T /\ <<e>> \in Seq(T)
  BY <1>1, <1>2
<1>5. /\ t \in Seq(T) /\ Len(t) = n + 1 /\ t[n + 1] = e
      /\ \A k \in 1..n : t[k] = s[k]
  BY <1>3, <1>4, Concatenation DEF Then
<1>6. t = Append(s, e)
  BY <1>4 DEF Then
<1>7. Front(t) = s
  <2>1. PICK f : f = Front(t)
    OBVIOUS
  <2>2. /\ Front(t) \in Seq(T) /\ Len(Front(t)) = Len(t) - 1
        /\ \A k \in 1..(Len(t) - 1) : Front(t)[k] = t[k]
    <3>1. Len(t) > 0
      BY <1>5
    <3>2. QED
      BY <1>5, <3>1, FrontIs
  <2>3. Len(t) - 1 = n
    BY <1>5
  <2>4. f \in Seq(T) /\ Len(f) = Len(s) /\ \A k \in 1..Len(s) : f[k] = s[k]
    BY <2>1, <1>3, <1>5, <2>2, <2>3
  <2>5. f = s
    BY <1>4, <2>4, SeqEqual
  <2>6. QED
    BY <2>1, <2>5
<1>8. Last(t) = e /\ t # <<>>
  BY <1>5 DEF Last
<1>9. TestRuns(t) = Turn(TestRuns(s), e)
  BY <1>4, <1>6, OneTurnMore
<1>10. QED
  BY <1>3, <1>5, <1>7, <1>8, <1>9 DEF IsSeq

\* The test that is running is the last one of which the control spoke.
LEMMA CurrentIs ==
  ASSUME IsSeq(log), NEW i \in 1..Len(log), log[i].who = "TesterControl",
         \A j \in (i + 1)..Len(log) : log[j].who # "TesterControl"
  PROVE  Current = log[i]
<1>1. PICK n \in Nat : n = Len(log) /\ DOMAIN log = 1..n
  BY DEF IsSeq
<1> DEFINE P(k) == /\ log[k].who = "TesterControl"
                   /\ \A j \in (k + 1)..n : log[j].who # "TesterControl"
<1>2. P(i) /\ i \in DOMAIN log
  BY <1>1
<1>3. ASSUME NEW k \in DOMAIN log, P(k) PROVE k = i
  <2>1. ~(k < i) /\ ~(i < k)
    <3>1. ASSUME k < i PROVE FALSE
      <4>1. i \in (k + 1)..n
        BY <1>1, <3>1
      <4>2. QED
        BY <1>2, <1>3, <4>1
    <3>2. ASSUME i < k PROVE FALSE
      <4>1. k \in (i + 1)..n
        BY <1>1, <3>2
      <4>2. QED
        BY <1>2, <1>3, <4>1
    <3>3. QED
      BY <3>1, <3>2
  <2>2. QED
    BY <1>1, <2>1
<1>4. Current = log[CHOOSE k \in DOMAIN log : P(k)]
  BY <1>1, Zenon DEF Current
<1>5. (CHOOSE k \in DOMAIN log : P(k)) = i
  <2> HIDE DEF P
  <2>1. QED
    BY <1>2, <1>3, Zenon
<1>6. QED
  BY <1>4, <1>5, Zenon

\* What the loop of test_runs has come to
IsState(x) ==
  x = [test_info |-> x.test_info, entries |-> x.entries, runs |-> x.runs, raised |-> x.raised]

Judges(type) == type \in {"PASSED", "FAILED"}

LEMMA TurnIs ==
  ASSUME NEW x, IsState(x), ~x.raised, NEW e
  PROVE  /\ IsState(Turn(x, e))
         /\ e.who # "TesterControl" =>
              /\ Turn(x, e).test_info = x.test_info /\ Turn(x, e).runs = x.runs
              /\ Turn(x, e).entries = Append(x.entries, e) /\ ~Turn(x, e).raised
         /\ e.who = "TesterControl" =>
              /\ Turn(x, e).entries = <<e>>
              /\ Turn(x, e).test_info = IF e.type = "TEST" THEN <<e>> ELSE x.test_info
              /\ ~Judges(e.type) => Turn(x, e).runs = x.runs /\ ~Turn(x, e).raised
              /\ \A t : x.test_info = <<t>> =>
                   /\ ~Turn(x, e).raised
                   /\ Turn(x, e).runs =
                        IF Judges(e.type) /\ t.id = e.id
                          THEN Append(x.runs, [info |-> t, entries |-> x.entries])
                          ELSE x.runs
<1> DEFINE y == Turn(x, e)
<1>1. CASE e.who # "TesterControl"
  <2>1. y = [x EXCEPT !.entries = Append(@, e)]
    BY <1>1 DEF Turn
  <2>2. y = [test_info |-> x.test_info, entries |-> Append(x.entries, e),
             runs |-> x.runs, raised |-> x.raised]
    BY <2>1 DEF IsState
  <2> HIDE DEF y
  <2>3. /\ IsState(y) /\ y.test_info = x.test_info /\ y.runs = x.runs
        /\ y.entries = Append(x.entries, e) /\ y.raised = x.raised
    BY <2>2 DEF IsState
  <2>4. QED
    BY <1>1, <2>3, Zenon DEF y
<1>2. CASE e.who = "TesterControl"
  <2> DEFINE verdict == Judges(e.type)
             known == x.test_info # <<>>
             info == IF e.type = "TEST" THEN <<e>> ELSE x.test_info
             runs == IF verdict /\ known /\ x.test_info[1].id = e.id
                       THEN Append(x.runs, [info |-> x.test_info[1], entries |-> x.entries])
                       ELSE x.runs
             raised == x.raised \/ (verdict /\ ~known)
  <2>1. y = [test_info |-> info, entries |-> <<e>>, runs |-> runs, raised |-> raised]
    <3>1. Append(<<>>, e) = <<e>>
      OBVIOUS
    <3>2. QED
      BY <1>2, <3>1, Zenon DEF Turn, Judges, Cleared
  <2> HIDE DEF y, info, runs, raised
  <2>2. /\ IsState(y) /\ y.test_info = info /\ y.entries = <<e>>
        /\ y.runs = runs /\ y.raised = raised
    BY <2>1 DEF IsState
  <2>3. ~verdict => runs = x.runs /\ ~raised
    BY Zenon DEF runs, raised
  <2>4. ASSUME NEW t, x.test_info = <<t>>
        PROVE  /\ ~raised
               /\ runs = IF verdict /\ t.id = e.id
                           THEN Append(x.runs, [info |-> t, entries |-> x.entries])
                           ELSE x.runs
    <3>1. known /\ x.test_info[1] = t
      BY <2>4
    <3>2. QED
      BY <3>1, Zenon DEF runs, raised
  <2>5. y.test_info = IF e.type = "TEST" THEN <<e>> ELSE x.test_info
    BY <2>2 DEF info
  <2>6. ~verdict => y.runs = x.runs /\ ~y.raised
    BY <2>2, <2>3, Zenon
  <2>7. ASSUME NEW t, x.test_info = <<t>>
        PROVE  /\ ~y.raised
               /\ y.runs = IF verdict /\ t.id = e.id
                             THEN Append(x.runs, [info |-> t, entries |-> x.entries])
                             ELSE x.runs
    <3>1. /\ ~raised
          /\ runs = IF verdict /\ t.id = e.id
                      THEN Append(x.runs, [info |-> t, entries |-> x.entries])
                      ELSE x.runs
      BY <2>4, <2>7
    <3>2. QED
      BY <2>2, <3>1, Zenon
  <2>8. QED
    BY <1>2, <2>2, <2>5, <2>6, <2>7, Zenon DEF y
<1>3. QED
  BY <1>1, <1>2

Gathers(x, e, y) ==
  /\ y.test_info = x.test_info /\ y.runs = x.runs /\ ~y.raised
  /\ y.entries = Append(x.entries, e)

Begins(x, e, y) ==
  y.test_info = <<e>> /\ y.entries = <<e>> /\ y.runs = x.runs /\ ~y.raised

Ends(x, e, y, t) ==
  /\ y.test_info = <<t>> /\ ~y.raised
  /\ y.runs = IF Judges(e.type) /\ t.id = e.id
                THEN Append(x.runs, [info |-> t, entries |-> x.entries])
                ELSE x.runs

\* The same, one case at a time
LEMMA TurnSays ==
  ASSUME NEW x, IsState(x), ~x.raised, NEW e, NEW y, y = Turn(x, e)
  PROVE  /\ IsState(y)
         /\ e.who # "TesterControl" => Gathers(x, e, y)
         /\ e.who = "TesterControl" /\ e.type = "TEST" => Begins(x, e, y)
         /\ e.who = "TesterControl" /\ ~Judges(e.type) => y.runs = x.runs /\ ~y.raised
         /\ \A t : e.who = "TesterControl" /\ e.type # "TEST" /\ x.test_info = <<t>>
                    => Ends(x, e, y, t)
<1>1. IsState(y) /\ (e.who # "TesterControl" => Gathers(x, e, y))
  BY TurnIs, Zenon DEF Gathers
<1>2. e.who = "TesterControl" /\ ~Judges(e.type) => y.runs = x.runs /\ ~y.raised
  BY TurnIs, Zenon
<1>3. ASSUME e.who = "TesterControl", e.type = "TEST" PROVE Begins(x, e, y)
  <2>1. ~Judges(e.type)
    BY <1>3 DEF Judges
  <2>2. QED
    BY <1>3, <2>1, TurnIs, Zenon DEF Begins
<1>4. ASSUME NEW t, e.who = "TesterControl", e.type # "TEST", x.test_info = <<t>>
      PROVE  Ends(x, e, y, t)
  BY <1>4, TurnIs, Zenon DEF Ends
<1>5. QED
  BY <1>1, <1>2, <1>3, <1>4, Zenon

LEMMA PairIs ==
  ASSUME NEW a, NEW b PROVE Append(<<a>>, b) = <<a, b>> /\ <<a>> \o <<b>> = <<a, b>>
<1> DEFINE T == {a, b}
<1>1. a \in T /\ b \in T
  OBVIOUS
<1> HIDE DEF T
<1>2. <<a>> \in Seq(T) /\ <<b>> \in Seq(T) /\ <<a, b>> \in Seq(T)
  BY <1>1
<1>3. Append(<<a>>, b) = <<a>> \o <<b>>
  BY <1>1, <1>2, AppendIsConcat
<1>4. PICK s : s = <<a>> \o <<b>>
  OBVIOUS
<1>5. s \in Seq(T) /\ Len(s) = 2 /\ s[1] = a /\ s[2] = b
  BY <1>2, <1>4
<1>6. s = <<a, b>>
  BY <1>2, <1>5
<1>7. QED
  BY <1>3, <1>4, <1>6

LEMMA NothingRead == IsState(Blank) /\ ~Blank.raised /\ Blank.runs = <<>>
BY DEF IsState, Blank

\* What fio said in the log of a test
LEMMA FioSaid ==
  ASSUME NEW t, t.who = "TesterControl", NEW json
  PROVE  /\ FioResultOf(<<t>>) = <<>> /\ FioResultOf(<<t, FioResult(json)>>) = json
         /\ FioResult(json) # t /\ FioResult(json).json = json
         /\ FioResult(json).who = "other" /\ FioResult(json) # Text /\ t # Text
<1>1. /\ FioResult(json).who = "other" /\ FioResult(json).json = json
      /\ FioResult(json).label = "fio" /\ Text.who = "other" /\ Text.label = "text"
  BY DEF FioResult, Text
<1>2. FioResultOf(<<t>>) = <<>>
  <2> DEFINE results == {i \in DOMAIN <<t>> : <<t>>[i].who = "other" /\ <<t>>[i].label = "fio"}
  <2>1. results = {}
    OBVIOUS
  <2>2. QED
    BY <2>1, Zenon DEF FioResultOf
<1>3. FioResultOf(<<t, FioResult(json)>>) = json
  <2>1. PICK s : s = <<t, FioResult(json)>>
    OBVIOUS
  <2> DEFINE results == {i \in DOMAIN s : s[i].who = "other" /\ s[i].label = "fio"}
  <2>2. DOMAIN s = {1, 2} /\ s[1] = t /\ s[2] = FioResult(json)
    BY <2>1
  <2>3. results = {2}
    BY <1>1, <2>2
  <2>4. (CHOOSE i \in results : \A j \in results : i <= j) = 2
    <3> HIDE DEF results
    <3>1. 2 \in results /\ \A j \in results : 2 <= j /\ j = 2
      BY <2>3
    <3>2. QED
      BY <3>1
  <2>5. FioResultOf(s) = s[2].json
    <3>1. results # {}
      BY <2>3
    <3>2. QED
      BY <2>4, <3>1, Zenon DEF FioResultOf
  <2>6. QED
    BY <1>1, <2>1, <2>2, <2>5
<1>4. FioResult(json) # t /\ FioResult(json) # Text /\ t # Text
  BY <1>1
<1>5. QED
  BY <1>1, <1>2, <1>3, <1>4

-----------------------------------------------------------------------------
(***************************************************************************)
(* The log and what ran                                                    *)
(***************************************************************************)
IsTest(t) ==
  \E test \in Tests : \E id \in Nat \ {0} : t = TestEntry(id, test.name, test.args)

\* The run is that of a test that ended with a verdict.
IsRun(run, r) ==
  Judges(r.verdict) /\ run.info = r.test /\ FioResultOf(run.entries) = r.json

OfTests(runs, tests) ==
  IsSeq(runs) /\ \A k \in DOMAIN runs : \E i \in DOMAIN tests : IsRun(runs[k], tests[i])

EveryTest(runs, tests) ==
  \A i \in DOMAIN tests :
    Judges(tests[i].verdict) => \E k \in DOMAIN runs : IsRun(runs[k], tests[i])

\* The log s ends with a test and what it has said.
Running(s, x, t) ==
  /\ IsTest(t) /\ x.test_info = <<t>>
  /\ \/ s[Len(s)] = t /\ x.entries = <<t>>
     \/ /\ Len(s) > 1 /\ s[Len(s) - 1] = t
        /\ \E json : s[Len(s)] = FioResult(json) /\ x.entries = <<t, FioResult(json)>>

IsRunning(s) == \E t : Running(s, TestRuns(s), t)

\* What the script makes of the log, and of the log but for its last entry
Understood(x, tests) == IsState(x) /\ ~x.raised /\ OfTests(x.runs, tests)

LogIs(s, tests) ==
  /\ IsSeq(s) /\ s # <<>>
  /\ Understood(TestRuns(s), tests) /\ Understood(TestRuns(Front(s)), tests)
  /\ tests # <<>> => \E t : IsTest(t) /\ TestRuns(s).test_info = <<t>>
  /\ Last(s) = Text => EveryTest(TestRuns(Front(s)).runs, tests)

\* While the Tester runs, no run is missing.
Open(s, tests) == EveryTest(TestRuns(s).runs, tests) /\ Last(s) # Text

Ended(tests) == IsSeq(tests) /\ \A i \in DOMAIN tests : IsTest(tests[i].test)

LogInv ==
  /\ at \in {"locate", "options", "dispatcher"} => ~written /\ ran = <<>>
  /\ at \in {"tester", "test"} => written /\ Open(log, ran)
  /\ at = "test" => IsRunning(log)
  /\ written => LogIs(log, ran)
  /\ Ended(ran)

LEMMA IsTestIs ==
  ASSUME NEW t, IsTest(t) PROVE t.who = "TesterControl" /\ t.type = "TEST" /\ t.id # 0
BY DEF IsTest, TestEntry

LEMMA NothingIsSeq == IsSeq(<<>>) /\ DOMAIN <<>> = {}
<1>1. <<>> \in Seq({}) /\ DOMAIN <<>> = {}
  OBVIOUS
<1>2. QED
  BY <1>1 DEF IsSeq

LEMMA Appended ==
  ASSUME NEW s, IsSeq(s), NEW e, NEW t, t = Append(s, e)
  PROVE  /\ IsSeq(t) /\ DOMAIN t = DOMAIN s \cup {Len(t)} /\ t[Len(t)] = e
         /\ \A k \in DOMAIN s : t[k] = s[k]
<1>1. PICK S : s \in Seq(S)
  BY DEF IsSeq
<1>2. PICK T : T = S \cup {e}
  OBVIOUS
<1>3. PICK n \in Nat : n = Len(s) /\ DOMAIN s = 1..n
  BY <1>1
<1>4. s \in Seq(T) /\ e \in T
  BY <1>1, <1>2
<1>5. /\ t \in Seq(T) /\ Len(t) = n + 1 /\ t[n + 1] = e
      /\ \A k \in 1..n : t[k] = s[k]
  BY <1>3, <1>4, AppendIs
<1>6. DOMAIN t = 1..(n + 1) /\ 1..(n + 1) = (1..n) \cup {n + 1}
  BY <1>5
<1>7. QED
  BY <1>3, <1>5, <1>6 DEF IsSeq

\* One test more has ended: with a verdict there is a run of it.
LEMMA OneTestMore ==
  ASSUME NEW runs, NEW tests, IsSeq(tests), OfTests(runs, tests), NEW r, NEW more,
         more = Append(tests, r)
  PROVE  /\ OfTests(runs, more)
         /\ EveryTest(runs, tests) /\ ~Judges(r.verdict) => EveryTest(runs, more)
         /\ \A run : IsRun(run, r) =>
              /\ OfTests(Append(runs, run), more)
              /\ EveryTest(runs, tests) => EveryTest(Append(runs, run), more)
<1>1. PICK last : /\ DOMAIN more = DOMAIN tests \cup {last} /\ more[last] = r
                  /\ \A k \in DOMAIN tests : more[k] = tests[k]
  BY Appended
<1>2. OfTests(runs, more)
  BY <1>1, Zenon DEF OfTests
<1>3. EveryTest(runs, tests) /\ ~Judges(r.verdict) => EveryTest(runs, more)
  BY <1>1, Zenon DEF EveryTest
<1>4. ASSUME NEW run, IsRun(run, r)
      PROVE  /\ OfTests(Append(runs, run), more)
             /\ EveryTest(runs, tests) => EveryTest(Append(runs, run), more)
  <2>1. PICK longer : longer = Append(runs, run)
    OBVIOUS
  <2>2. IsSeq(runs)
    BY DEF OfTests
  <2>3. PICK end : /\ DOMAIN longer = DOMAIN runs \cup {end} /\ longer[end] = run
                   /\ \A k \in DOMAIN runs : longer[k] = runs[k]
    BY <2>1, <2>2, Appended
  <2>4. IsSeq(longer)
    BY <2>1, <2>2, Appended
  <2>5. \A k \in DOMAIN longer : \E i \in DOMAIN more : IsRun(longer[k], more[i])
    <3>1. ASSUME NEW k \in DOMAIN runs PROVE \E i \in DOMAIN more : IsRun(longer[k], more[i])
      BY <1>2, <2>3, Zenon DEF OfTests
    <3>2. IsRun(longer[end], more[last]) /\ last \in DOMAIN more
      BY <1>1, <1>4, <2>3
    <3>3. QED
      BY <2>3, <3>1, <3>2, Zenon
  <2>6. ASSUME EveryTest(runs, tests) PROVE EveryTest(longer, more)
    <3>1. IsRun(longer[end], more[last]) /\ end \in DOMAIN longer
      BY <1>1, <1>4, <2>3
    <3>2. ASSUME NEW i \in DOMAIN tests, Judges(tests[i].verdict)
          PROVE  \E k \in DOMAIN longer : IsRun(longer[k], more[i])
      <4>1. PICK k \in DOMAIN runs : IsRun(runs[k], tests[i])
        BY <2>6, <3>2 DEF EveryTest
      <4>2. k \in DOMAIN longer /\ IsRun(longer[k], more[i])
        BY <1>1, <2>3, <4>1
      <4>3. QED
        BY <4>2
    <3>3. QED
      BY <1>1, <3>1, <3>2, Zenon DEF EveryTest
  <2>7. QED
    BY <2>1, <2>4, <2>5, <2>6 DEF OfTests
<1>5. QED
  BY <1>2, <1>3, <1>4

\* One entry more, and what it must not break
LEMMA LogGrows ==
  ASSUME NEW s, NEW tests, LogIs(s, tests), NEW e, NEW u, u = Then(s, e), NEW more,
         OfTests(TestRuns(s).runs, more),
         NEW y, y = Turn(TestRuns(s), e), ~y.raised, OfTests(y.runs, more),
         more # <<>> => \E t : IsTest(t) /\ y.test_info = <<t>>,
         e = Text => EveryTest(TestRuns(s).runs, more)
  PROVE  LogIs(u, more)
<1>1. /\ IsSeq(u) /\ u # <<>> /\ Last(u) = e /\ Front(u) = s /\ TestRuns(u) = y
  BY OneEntry DEF LogIs
<1>2. IsState(TestRuns(s)) /\ ~TestRuns(s).raised
  BY DEF LogIs, Understood
<1>3. IsState(y)
  BY <1>2, TurnSays
<1>4. Understood(TestRuns(u), more) /\ Understood(TestRuns(Front(u)), more)
  BY <1>1, <1>2, <1>3 DEF Understood
<1>5. QED
  BY <1>1, <1>4 DEF LogIs

LEMMA LogStarts ==
  ASSUME NEW s, s = <<Control("PACKAGE", 0)>> PROVE LogIs(s, <<>>) /\ Open(s, <<>>)
<1>1. PICK e, none : e = Control("PACKAGE", 0) /\ none = <<>>
  OBVIOUS
<1>2. /\ e.who = "TesterControl" /\ e.type = "PACKAGE" /\ e.id = 0 /\ e # Text
  BY <1>1 DEF Control, Text
<1>3. IsSeq(none) /\ DOMAIN none = {} /\ s = Then(none, e)
  BY <1>1, NothingIsSeq DEF Then
<1>4. TestRuns(none) = Blank
  BY <1>1, NothingRuns
<1>5. /\ IsSeq(s) /\ s # <<>> /\ Last(s) = e /\ Front(s) = none
      /\ TestRuns(s) = Turn(Blank, e)
  BY <1>3, <1>4, OneEntry
<1>6. /\ IsState(Turn(Blank, e)) /\ Turn(Blank, e).runs = none /\ ~Turn(Blank, e).raised
  <2>1. ~Judges(e.type)
    BY <1>2 DEF Judges
  <2>2. QED
    BY <1>1, <1>2, <2>1, NothingRead, TurnSays
<1>7. OfTests(none, none)
  BY <1>3 DEF OfTests
<1>8. Understood(TestRuns(s), none) /\ Understood(TestRuns(Front(s)), none)
  BY <1>1, <1>4, <1>5, <1>6, <1>7, NothingRead DEF Understood
<1>9. \A runs : EveryTest(runs, none)
  BY <1>3 DEF EveryTest
<1>10. LogIs(s, none) /\ Open(s, none)
  BY <1>1, <1>2, <1>5, <1>8, <1>9 DEF LogIs, Open
<1>11. QED
  BY <1>1, <1>10

LEMMA TestBegins ==
  ASSUME NEW s, NEW tests, LogIs(s, tests), Open(s, tests), NEW t, IsTest(t),
         NEW u, u = Then(s, t)
  PROVE  LogIs(u, tests) /\ Open(u, tests) /\ IsRunning(u)
<1>1. t.who = "TesterControl" /\ t.type = "TEST" /\ t # Text
  BY IsTestIs, FioSaid
<1>2. PICK x, y : x = TestRuns(s) /\ y = Turn(x, t)
  OBVIOUS
<1>3. IsState(x) /\ ~x.raised /\ OfTests(x.runs, tests)
  BY <1>2 DEF LogIs, Understood
<1>4. ~Judges(t.type)
  BY <1>1 DEF Judges
<1>5. y.runs = x.runs /\ ~y.raised /\ y.test_info = <<t>> /\ y.entries = <<t>>
  BY <1>1, <1>2, <1>3, TurnSays DEF Begins
<1>6. LogIs(u, tests)
  BY <1>1, <1>2, <1>3, <1>5, LogGrows
<1>7. Last(u) = t /\ TestRuns(u) = y /\ u[Len(u)] = t
  BY <1>2, OneEntry DEF LogIs
<1>8. Open(u, tests)
  BY <1>1, <1>2, <1>5, <1>7 DEF Open
<1>9. Running(u, TestRuns(u), t)
  BY <1>5, <1>7 DEF Running
<1>10. QED
  BY <1>6, <1>8, <1>9 DEF IsRunning

LEMMA FioSays ==
  ASSUME NEW s, NEW tests, LogIs(s, tests), Open(s, tests), NEW t,
         Running(s, TestRuns(s), t), s[Len(s)] = t, NEW json,
         NEW u, u = Then(s, FioResult(json))
  PROVE  LogIs(u, tests) /\ Open(u, tests) /\ IsRunning(u)
<1>1. IsTest(t) /\ t.who = "TesterControl"
  BY IsTestIs DEF Running
<1>2. PICK x, e, y : x = TestRuns(s) /\ e = FioResult(json) /\ y = Turn(x, e)
  OBVIOUS
<1>3. e.who # "TesterControl" /\ e # Text /\ e # t
  BY <1>1, <1>2, FioSaid
<1>4. IsState(x) /\ ~x.raised /\ OfTests(x.runs, tests)
  BY <1>2 DEF LogIs, Understood
<1>5. x.test_info = <<t>> /\ x.entries = <<t>>
  <2>1. \A j : FioResult(j) # t
    BY <1>1, FioSaid
  <2>2. QED
    BY <1>2, <2>1 DEF Running
<1>6. /\ y.runs = x.runs /\ ~y.raised /\ y.test_info = <<t>>
      /\ y.entries = Append(x.entries, e)
  <2>1. Gathers(x, e, y)
    BY <1>2, <1>3, <1>4, TurnSays
  <2>2. QED
    BY <1>5, <2>1, Zenon DEF Gathers
<1>7. y.entries = <<t, FioResult(json)>>
  <2>1. Append(<<t>>, e) = <<t, e>>
    BY PairIs
  <2>2. QED
    BY <1>2, <1>5, <1>6, <2>1
<1>8. LogIs(u, tests)
  BY <1>1, <1>2, <1>3, <1>4, <1>6, LogGrows
<1>9. /\ Last(u) = e /\ TestRuns(u) = y /\ u[Len(u)] = e
      /\ Len(u) > 1 /\ u[Len(u) - 1] = t
  <2>1. IsSeq(s) /\ s # <<>>
    BY DEF LogIs
  <2>2. PICK n \in Nat : n = Len(s) /\ n > 0
    BY <2>1 DEF IsSeq
  <2>3. /\ Last(u) = e /\ TestRuns(u) = y /\ u[Len(u)] = e
        /\ Len(u) = n + 1 /\ \A k \in 1..n : u[k] = s[k]
    BY <1>2, <2>1, <2>2, OneEntry
  <2>4. n + 1 > 1 /\ n + 1 - 1 = n /\ n \in 1..n
    BY <2>2
  <2>5. QED
    BY <2>2, <2>3, <2>4
<1>10. Open(u, tests)
  BY <1>2, <1>3, <1>6, <1>9 DEF Open
<1>11. Running(u, TestRuns(u), t)
  BY <1>1, <1>2, <1>6, <1>7, <1>9 DEF Running
<1>12. QED
  BY <1>8, <1>10, <1>11 DEF IsRunning

\* The test that ends is the one whose entries the script has gathered.
LEMMA TestStops ==
  ASSUME NEW s, NEW tests, IsSeq(tests), LogIs(s, tests), Open(s, tests), NEW t,
         Running(s, TestRuns(s), t), NEW verdict \in Verdicts,
         NEW r, r.test = t, r.verdict = verdict,
         r.json = IF Last(s) = t THEN <<>> ELSE Last(s).json,
         NEW u, u = Then(s, Control(verdict, t.id)), NEW more, more = Append(tests, r)
  PROVE  LogIs(u, more) /\ Open(u, more)
<1>1. IsTest(t) /\ t.who = "TesterControl"
  BY IsTestIs DEF Running
<1>2. PICK x, e, y : x = TestRuns(s) /\ e = Control(verdict, t.id) /\ y = Turn(x, e)
  OBVIOUS
<1>3. /\ e.who = "TesterControl" /\ e.type = verdict /\ e.id = t.id
      /\ e.type # "TEST" /\ e # Text
  BY <1>2 DEF Control, Text, Verdicts
<1>4. IsState(x) /\ ~x.raised /\ OfTests(x.runs, tests) /\ EveryTest(x.runs, tests)
  BY <1>2 DEF LogIs, Understood, Open
<1>5. x.test_info = <<t>>
  BY <1>2 DEF Running
<1>6. PICK run : run = [info |-> t, entries |-> x.entries]
  OBVIOUS
<1>7. /\ ~y.raised /\ y.test_info = <<t>>
      /\ y.runs = IF Judges(verdict) THEN Append(x.runs, run) ELSE x.runs
  <2>1. /\ ~y.raised /\ y.test_info = <<t>>
        /\ y.runs = IF Judges(e.type) /\ t.id = e.id
                      THEN Append(x.runs, [info |-> t, entries |-> x.entries])
                      ELSE x.runs
    <3>1. Ends(x, e, y, t)
      BY <1>2, <1>3, <1>4, <1>5, TurnSays
    <3>2. QED
      BY <1>3, <1>5, <3>1, Zenon DEF Ends
  <2>2. QED
    BY <1>3, <1>5, <1>6, <2>1, Zenon
<1>8. FioResultOf(run.entries) = r.json
  <2>1. Last(s) = s[Len(s)]
    BY DEF Last
  <2>2. CASE s[Len(s)] = t /\ x.entries = <<t>>
    BY <1>1, <1>6, <2>1, <2>2, FioSaid
  <2>3. CASE \E json : s[Len(s)] = FioResult(json) /\ x.entries = <<t, FioResult(json)>>
    <3>1. PICK json : s[Len(s)] = FioResult(json) /\ x.entries = <<t, FioResult(json)>>
      BY <2>3
    <3>2. FioResult(json) # t /\ FioResult(json).json = json
      BY <1>1, FioSaid
    <3>3. FioResultOf(<<t, FioResult(json)>>) = json
      BY <1>1, FioSaid
    <3>4. QED
      BY <1>6, <2>1, <3>1, <3>2, <3>3
  <2>4. QED
    BY <1>2, <2>2, <2>3 DEF Running
<1>9. Judges(verdict) => IsRun(run, r)
  BY <1>6, <1>8 DEF IsRun
<1>10. /\ OfTests(x.runs, more) /\ OfTests(y.runs, more) /\ EveryTest(y.runs, more)
  <2>1. /\ OfTests(x.runs, more)
        /\ ~Judges(r.verdict) => EveryTest(x.runs, more)
        /\ IsRun(run, r) => /\ OfTests(Append(x.runs, run), more)
                            /\ EveryTest(Append(x.runs, run), more)
    BY <1>4, OneTestMore
  <2>2. QED
    BY <1>7, <1>9, <2>1, Zenon
<1>11. LogIs(u, more)
  BY <1>1, <1>2, <1>3, <1>7, <1>10, LogGrows
<1>12. Last(u) = e /\ TestRuns(u) = y
  BY <1>2, OneEntry DEF LogIs
<1>13. QED
  BY <1>2, <1>3, <1>10, <1>11, <1>12 DEF Open

LEMMA TesterStops ==
  ASSUME NEW s, NEW tests, LogIs(s, tests), Open(s, tests), tests # <<>>,
         NEW verdict \in {"PASSED", "FAILED"},
         NEW u, u = s \o <<Control(verdict, 0), Text>>
  PROVE  LogIs(u, tests)
<1>1. PICK x, e, y, v : /\ x = TestRuns(s) /\ e = Control(verdict, 0) /\ y = Turn(x, e)
                        /\ v = Then(s, e)
  OBVIOUS
<1>2. /\ e.who = "TesterControl" /\ e.type # "TEST" /\ e.id = 0 /\ e # Text
  BY <1>1 DEF Control, Text
<1>3. IsState(x) /\ ~x.raised /\ OfTests(x.runs, tests) /\ EveryTest(x.runs, tests)
  BY <1>1 DEF LogIs, Understood, Open
<1>4. PICK t : IsTest(t) /\ x.test_info = <<t>>
  BY <1>1 DEF LogIs
<1>5. t.id # e.id
  BY <1>2, <1>4, IsTestIs
<1>6. ~y.raised /\ y.runs = x.runs /\ y.test_info = <<t>>
  <2>1. Ends(x, e, y, t)
    BY <1>1, <1>2, <1>3, <1>4, TurnSays
  <2>2. QED
    BY <1>5, <2>1, Zenon DEF Ends
<1>7. LogIs(v, tests)
  BY <1>1, <1>2, <1>3, <1>4, <1>6, LogGrows
<1>8. u = Then(v, Text) /\ TestRuns(v) = y
  <2>1. PICK S : s \in Seq(S)
    BY DEF LogIs, IsSeq
  <2>2. PICK T : T = S \cup {e, Text}
    OBVIOUS
  <2>3. s \in Seq(T) /\ e \in T /\ Text \in T
    BY <2>1, <2>2
  <2>4. (s \o <<e>>) \o <<Text>> = s \o (<<e>> \o <<Text>>)
    BY <2>3, ConcatAssociative
  <2>5. <<e>> \o <<Text>> = <<e, Text>>
    BY PairIs
  <2>6. TestRuns(v) = y
    BY <1>1, OneEntry DEF LogIs
  <2>7. QED
    BY <1>1, <2>4, <2>5, <2>6 DEF Then
<1>9. PICK z : z = Turn(y, Text)
  OBVIOUS
<1>10. IsState(y) /\ Text.who # "TesterControl"
  BY <1>1, <1>3, TurnSays DEF Text
<1>11. ~z.raised /\ z.runs = y.runs /\ z.test_info = y.test_info
  BY <1>6, <1>9, <1>10, TurnSays DEF Gathers
<1>12. QED
  BY <1>3, <1>4, <1>6, <1>7, <1>8, <1>9, <1>11, LogGrows

LEMMA RunningIsCurrent ==
  ASSUME IsSeq(log), log # <<>>, NEW x, NEW t, Running(log, x, t)
  PROVE  Current = t /\ (Last(log) = t => log[Len(log)] = t)
<1>1. t.who = "TesterControl"
  BY IsTestIs DEF Running
<1>2. PICK n \in Nat : n = Len(log) /\ n > 0
  BY DEF IsSeq
<1>3. CASE log[n] = t
  <2>1. n \in 1..n /\ (n + 1)..n = {}
    BY <1>2
  <2>2. QED
    BY <1>1, <1>2, <1>3, <2>1, CurrentIs DEF Last
<1>4. CASE log[n] # t
  <2>1. n > 1 /\ log[n - 1] = t /\ \E json : log[n] = FioResult(json)
    BY <1>2, <1>4 DEF Running
  <2>2. log[n].who # "TesterControl"
    BY <2>1 DEF FioResult
  <2>3. n - 1 \in 1..n /\ \A j \in (n - 1 + 1)..n : j = n
    BY <2>1
  <2>4. QED
    BY <1>1, <1>2, <2>1, <2>2, <2>3, CurrentIs DEF Last
<1>5. QED
  BY <1>3, <1>4

-----------------------------------------------------------------------------
(***************************************************************************)
(* The steps that log                                                      *)
(***************************************************************************)
Early == {"locate", "options", "dispatcher"}

LEMMA LogStays ==
  ASSUME LogInv, ran' = ran, log' = log, written' = written,
         at' \in Early => at \in Early, at' \in {"tester", "test"} => at' = at
  PROVE  LogInv'
BY DEF LogInv, Early

LEMMA TesterStartsKeeps == ASSUME LogInv, TesterStarts PROVE LogInv'
<1>1. at = "dispatcher" /\ at' = "tester" /\ written' = TRUE /\ ran' = ran /\ ran = <<>>
  BY DEF TesterStarts, LogInv
<1>2. log' = <<Control("PACKAGE", 0)>>
  BY DEF TesterStarts
<1>3. LogIs(log', <<>>) /\ Open(log', <<>>)
  BY <1>2, LogStarts
<1>4. QED
  BY <1>1, <1>3 DEF LogInv

LEMMA StartTestKeeps ==
  ASSUME LogInv, NEW test \in Tests, StartTest(test) PROVE LogInv'
<1>1. PICK t : t = TestEntry(Len(ran) + 1, test.name, test.args)
  OBVIOUS
<1>2. IsTest(t)
  <2>1. Len(ran) + 1 \in Nat \ {0}
    <3>1. PICK T : ran \in Seq(T)
      BY DEF LogInv, Ended, IsSeq
    <3>2. QED
      BY <3>1
  <2>2. QED
    BY <1>1, <2>1, Zenon DEF IsTest
<1>3. /\ at = "tester" /\ at' = "test" /\ written' = written /\ ran' = ran
      /\ log' = Then(log, t)
  BY <1>1, Zenon DEF StartTest, Logs, scripted, Then
<1>4. LogIs(log, ran) /\ Open(log, ran) /\ written /\ Ended(ran)
  BY <1>3 DEF LogInv
<1>5. LogIs(log', ran) /\ Open(log', ran) /\ IsRunning(log')
  BY <1>2, <1>3, <1>4, TestBegins
<1>6. QED
  BY <1>3, <1>4, <1>5 DEF LogInv

LEMMA FioReportsKeeps == ASSUME LogInv, FioReports PROVE LogInv'
<1>1. PICK json : /\ at = "test" /\ at' = "test" /\ written' = written /\ ran' = ran
                  /\ log' = Then(log, FioResult(json)) /\ Last(log) = Current
  BY Zenon DEF FioReports, Logs, scripted, Then
<1>2. LogIs(log, ran) /\ Open(log, ran) /\ written /\ Ended(ran) /\ IsRunning(log)
  BY <1>1 DEF LogInv
<1>3. PICK t : Running(log, TestRuns(log), t)
  BY <1>2 DEF IsRunning
<1>4. log[Len(log)] = t
  BY <1>1, <1>2, <1>3, RunningIsCurrent DEF LogIs
<1>5. LogIs(log', ran) /\ Open(log', ran) /\ IsRunning(log')
  BY <1>1, <1>2, <1>3, <1>4, FioSays
<1>6. QED
  BY <1>1, <1>2, <1>5 DEF LogInv

LEMMA OneEnded ==
  ASSUME NEW tests, Ended(tests), NEW r, IsTest(r.test), NEW more, more = Append(tests, r)
  PROVE  Ended(more)
<1>1. IsSeq(tests) /\ \A i \in DOMAIN tests : IsTest(tests[i].test)
  BY DEF Ended
<1>2. PICK last : /\ DOMAIN more = DOMAIN tests \cup {last} /\ more[last] = r
                  /\ \A k \in DOMAIN tests : more[k] = tests[k]
  BY <1>1, Appended
<1>3. IsSeq(more)
  BY <1>1, Appended
<1>4. QED
  BY <1>1, <1>2, <1>3, Zenon DEF Ended

LEMMA EndTestKeeps == ASSUME LogInv, EndTest PROVE LogInv'
<1>1. at = "test" /\ at' = "tester"
  BY DEF EndTest
<1>2. LogIs(log, ran) /\ Open(log, ran) /\ written /\ Ended(ran) /\ IsRunning(log)
  BY <1>1 DEF LogInv
<1>3. PICK t : Running(log, TestRuns(log), t)
  BY <1>2 DEF IsRunning
<1>4. Current = t
  BY <1>2, <1>3, RunningIsCurrent DEF LogIs
<1>5. PICK verdict \in Verdicts :
        /\ Logs(<<Control(verdict, Current.id)>>)
        /\ ran' = Append(ran, [test |-> Current, verdict |-> verdict,
                               json |-> IF Last(log) = Current THEN <<>> ELSE Last(log).json])
  BY DEF EndTest, Verdicts
<1>6. PICK r : r = [test |-> t, verdict |-> verdict,
                    json |-> IF Last(log) = t THEN <<>> ELSE Last(log).json]
  OBVIOUS
<1>7. /\ log' = Then(log, Control(verdict, t.id)) /\ written' = written
      /\ ran' = Append(ran, r)
  BY <1>4, <1>5, <1>6 DEF Logs, Then
<1>8. /\ r.test = t /\ r.verdict = verdict
      /\ r.json = IF Last(log) = t THEN <<>> ELSE Last(log).json
  BY <1>6
<1>9. PICK more, longer : more = Append(ran, r) /\ longer = Then(log, Control(verdict, t.id))
  OBVIOUS
<1>10. LogIs(longer, more) /\ Open(longer, more)
  <2>1. IsSeq(ran)
    BY <1>2 DEF Ended
  <2>2. QED
    BY <1>2, <1>3, <1>8, <1>9, <2>1, TestStops
<1>11. Ended(more)
  BY <1>2, <1>3, <1>8, <1>9, OneEnded DEF Running
<1>12. ran' = more /\ log' = longer
  BY <1>7, <1>9
<1>13. QED
  BY <1>1, <1>2, <1>7, <1>10, <1>11, <1>12 DEF LogInv

LEMMA TesterEndsKeeps == ASSUME LogInv, TesterEnds PROVE LogInv'
<1>1. PICK verdict \in {"PASSED", "FAILED"} :
        /\ at = "tester" /\ at' = "status" /\ ran # <<>> /\ ran' = ran /\ written' = written
        /\ log' = log \o <<Control(verdict, 0), Text>>
  BY Zenon DEF TesterEnds, Logs, scripted
<1>2. LogIs(log, ran) /\ Open(log, ran) /\ written /\ Ended(ran)
  BY <1>1 DEF LogInv
<1>3. LogIs(log', ran)
  BY <1>1, <1>2, TesterStops
<1>4. QED
  BY <1>1, <1>2, <1>3 DEF LogInv

LEMMA LogStep == ASSUME LogInv, [Next]_vars PROVE LogInv'
<1>1. CASE Locate
  BY <1>1, LogStays, Zenon DEF Locate, Exits, logged, outcome, Early
<1>2. CASE ReadOption
  BY <1>2, LogStays, Zenon DEF ReadOption, Exits, logged, outcome, Early
<1>3. CASE OptionsEnd
  BY <1>3, LogStays, Zenon DEF OptionsEnd, Exits, logged, outcome, Early
<1>4. CASE CheckStatus
  BY <1>4, LogStays, Zenon DEF CheckStatus, logged, Early
<1>5. CASE MakeReport
  BY <1>5, LogStays, Zenon DEF MakeReport, logged, Early
<1>6. CASE DispatcherFails
  BY <1>6, LogStays, Zenon DEF DispatcherFails, logged, outcome, Early
<1>7. CASE TesterDies
  BY <1>7, LogStays, Zenon DEF TesterDies, logged, outcome, Early
<1>8. CASE \E test \in Tests : StartTest(test)
  BY <1>8, StartTestKeeps
<1>9. CASE TesterStarts \/ FioReports \/ EndTest \/ TesterEnds
  BY <1>9, TesterStartsKeeps, FioReportsKeeps, EndTestKeeps, TesterEndsKeeps
<1>10. CASE UNCHANGED vars
  BY <1>10, LogStays DEF vars, Early
<1>11. QED
  BY <1>1, <1>2, <1>3, <1>4, <1>5, <1>6, <1>7, <1>8, <1>9, <1>10
     DEF Next, ScriptStep, TesterStep

LEMMA LogAlways == Spec => []LogInv
<1>1. Init => LogInv
  <2> SUFFICES ASSUME Init PROVE LogInv
    OBVIOUS
  <2>1. at = "locate" /\ ~written /\ ran = <<>>
    BY DEF Init
  <2>2. Ended(ran)
    BY <2>1, NothingIsSeq DEF Ended
  <2>3. QED
    BY <2>1, <2>2 DEF LogInv
<1>2. LogInv /\ [Next]_vars => LogInv'
  BY LogStep
<1>3. QED
  BY <1>1, <1>2, PTL DEF Spec

-----------------------------------------------------------------------------
(***************************************************************************)
(* The report of a session                                                 *)
(***************************************************************************)
\* ReportsTheSession of a report and of what ran
Tells(perf, tests, complete) ==
  LET measured == {i \in DOMAIN tests : Reportable(tests[i])}
  IN /\ \A table \in DOMAIN perf : \A k \in DOMAIN perf[table].reports :
          \E i \in measured : /\ perf[table].reports[k].figures = tests[i].json[1]
                              /\ Row(perf, tests[i].test, tests[i].json[1])
     /\ complete => \A i \in measured : Row(perf, tests[i].test, tests[i].json[1])

\* The packages' promise, of the entries of tests
LEMMA EntriesListed ==
  ASSUME NEW t, IsTest(t), t.name \in DOMAIN test_types
  PROVE  /\ HasArg(t.args, test_types[t.name])
         /\ \A u : IsTest(u) /\ u.name \in DOMAIN test_types /\ TableOf(u) = TableOf(t)
                     => FieldsOf(u) = FieldsOf(t)
<1>1. PICK test \in Tests : t.name = test.name /\ t.args = test.args
  BY DEF IsTest, TestEntry
<1>2. HasArg(t.args, test_types[t.name])
  BY <1>1, SessionAssumption
<1>3. ASSUME NEW u, IsTest(u), u.name \in DOMAIN test_types, TableOf(u) = TableOf(t)
      PROVE  FieldsOf(u) = FieldsOf(t)
  <2>1. PICK other \in Tests : u.name = other.name /\ u.args = other.args
    BY <1>3 DEF IsTest, TestEntry
  <2>2. TableOf(u) = TableOf(other) /\ FieldsOf(u) = FieldsOf(other)
    BY <2>1, Zenon DEF TableOf, FieldsOf
  <2>3. TableOf(t) = TableOf(test) /\ FieldsOf(t) = FieldsOf(test)
    BY <1>1, Zenon DEF TableOf, FieldsOf
  <2>4. QED
    BY <1>1, <1>3, <2>1, <2>2, <2>3, SessionAssumption
<1>4. QED
  BY <1>2, <1>3

LEMMA RunsAreTold ==
  ASSUME NEW runs, NEW tests, Ended(tests), OfTests(runs, tests),
         NEW perf, perf = Performance(runs),
         NEW complete, complete => EveryTest(runs, tests)
  PROVE  Tells(perf, tests, complete)
<1>1. PICK T : runs \in Seq(T)
  BY DEF OfTests, IsSeq
<1>2. PICK n \in Nat : n = Len(runs) /\ DOMAIN runs = 1..n
  BY <1>1
<1>3. ASSUME NEW k \in 1..n PROVE IsTest(runs[k].info)
  <2>1. PICK i \in DOMAIN tests : IsRun(runs[k], tests[i])
    BY <1>2 DEF OfTests
  <2>2. QED
    BY <2>1 DEF IsRun, Ended
<1>4. ASSUME NEW a \in 1..n, NEW b \in 1..n, Listed(runs[a]), Listed(runs[b]),
             TableOf(runs[a].info) = TableOf(runs[b].info)
      PROVE  FieldsOf(runs[a].info) = FieldsOf(runs[b].info)
  BY <1>3, <1>4, EntriesListed DEF Listed
<1>5. ASSUME NEW k \in 1..n, Listed(runs[k])
      PROVE  Row(perf, runs[k].info, FioResultOf(runs[k].entries)[1])
  BY <1>1, <1>2, <1>4, <1>5, RowOfRun
<1>6. ASSUME NEW k \in 1..n, NEW i \in DOMAIN tests, IsRun(runs[k], tests[i])
      PROVE  Listed(runs[k]) <=> Reportable(tests[i])
  <2>1. /\ Judges(tests[i].verdict) /\ runs[k].info = tests[i].test
        /\ FioResultOf(runs[k].entries) = tests[i].json
    BY <1>6 DEF IsRun
  <2>2. IsTest(runs[k].info)
    BY <1>3
  <2>3. runs[k].info.name \in DOMAIN test_types
          => HasArg(runs[k].info.args, test_types[runs[k].info.name])
    BY <2>2, EntriesListed
  <2>4. QED
    BY <2>1, <2>3, Zenon DEF Listed, Reportable, Judges
<1> DEFINE measured == {i \in DOMAIN tests : Reportable(tests[i])}
<1>7. ASSUME NEW table \in DOMAIN perf, NEW k \in DOMAIN perf[table].reports
      PROVE  \E i \in measured : /\ perf[table].reports[k].figures = tests[i].json[1]
                                 /\ Row(perf, tests[i].test, tests[i].json[1])
  <2>1. Reported(runs, n, table, perf[table].reports[k])
    BY <1>1, <1>2, ReportHolds DEF Sound
  <2>2. PICK m \in 1..n : Listed(runs[m]) /\ ReportOf(runs[m]) = perf[table].reports[k]
    BY <2>1 DEF Reported
  <2>3. PICK i \in DOMAIN tests : IsRun(runs[m], tests[i])
    BY <1>2 DEF OfTests
  <2>4. i \in measured
    BY <1>6, <2>2, <2>3
  <2>5. runs[m].info = tests[i].test /\ FioResultOf(runs[m].entries) = tests[i].json
    BY <2>3 DEF IsRun
  <2>6. Row(perf, tests[i].test, tests[i].json[1])
    BY <1>5, <2>2, <2>5
  <2>7. ReportOf(runs[m]).figures = tests[i].json[1]
    BY <2>5 DEF ReportOf
  <2>8. QED
    BY <2>2, <2>4, <2>6, <2>7
<1>8. ASSUME complete, NEW i \in measured PROVE Row(perf, tests[i].test, tests[i].json[1])
  <2>1. i \in DOMAIN tests /\ Judges(tests[i].verdict) /\ Reportable(tests[i])
    BY DEF Reportable, Judges
  <2>2. PICK k \in DOMAIN runs : IsRun(runs[k], tests[i])
    BY <1>8, <2>1 DEF EveryTest
  <2>3. Listed(runs[k])
    BY <1>2, <1>6, <2>1, <2>2
  <2>4. runs[k].info = tests[i].test /\ FioResultOf(runs[k].entries) = tests[i].json
    BY <2>2 DEF IsRun
  <2>5. QED
    BY <1>2, <1>5, <2>2, <2>3, <2>4
<1>9. QED
  BY <1>7, <1>8, Zenon DEF Tells

\* perf.txt is made at the end and stays.
ReportInv == (report # <<>> => at = "over") /\ ReportsTheSession

LEMMA ReportTells ==
  ASSUME LogInv, ReportInv, MakeReport PROVE ReportsTheSession'
<1> SUFFICES ASSUME report' # <<>>, written' PROVE Tells(report'[1], ran', Complete')
  BY Zenon DEF ReportsTheSession, Tells
<1>1. ran' = ran /\ log' = log /\ written
  BY DEF MakeReport, logged
<1>2. LogIs(log, ran) /\ Ended(ran)
  BY <1>1 DEF LogInv
<1>3. LogEntries(log) = Front(log) /\ log # <<>>
  BY <1>2 DEF LogEntries, LogIs
<1>4. PICK x : x = TestRuns(Front(log))
  OBVIOUS
<1>5. ~x.raised /\ OfTests(x.runs, ran)
  BY <1>2, <1>4 DEF LogIs, Understood
<1>6. report' = <<Performance(x.runs)>>
  <2>1. at = "perf" /\ report = <<>>
    BY DEF MakeReport, ReportInv
  <2>2. shell.perf
    BY <2>1, Zenon DEF MakeReport
  <2>3. TestRuns(LogEntries(log)) = x
    BY <1>3, <1>4
  <2>4. QED
    BY <1>3, <1>5, <2>2, <2>3, Zenon DEF MakeReport
<1>7. Complete' => EveryTest(x.runs, ran)
  BY <1>1, <1>2, <1>4 DEF Complete, LogIs
<1>8. PICK perf, complete : perf = Performance(x.runs) /\ complete = Complete'
  OBVIOUS
<1>9. Tells(perf, ran, complete)
  BY <1>2, <1>5, <1>7, <1>8, RunsAreTold
<1>10. QED
  BY <1>1, <1>6, <1>8, <1>9

LEMMA ReportStep == ASSUME LogInv, ReportInv, [Next]_vars PROVE ReportInv'
<1>1. ASSUME at # "over", report' = report PROVE ReportInv'
  BY <1>1 DEF ReportInv, ReportsTheSession
<1>2. CASE MakeReport
  <2>1. at' = "over"
    BY <1>2 DEF MakeReport
  <2>2. QED
    BY <1>2, <2>1, ReportTells DEF ReportInv
<1>3. CASE Locate \/ ReadOption \/ OptionsEnd \/ CheckStatus
  BY <1>1, <1>3, Zenon DEF Locate, ReadOption, OptionsEnd, CheckStatus, Exits, outcome
<1>4. CASE TesterStep
  <2>1. ASSUME NEW test \in Tests, StartTest(test) PROVE ReportInv'
    BY <1>1, <2>1 DEF StartTest, outcome
  <2>2. CASE DispatcherFails \/ TesterStarts \/ FioReports \/ EndTest \/ TesterEnds \/ TesterDies
    <3>1. at # "over" /\ report' = report
      BY <2>2, Zenon DEF DispatcherFails, TesterStarts, FioReports, EndTest, TesterEnds,
                         TesterDies, outcome
    <3>2. QED
      BY <1>1, <3>1
  <2>3. QED
    BY <1>4, <2>1, <2>2 DEF TesterStep
<1>5. CASE UNCHANGED vars
  BY <1>5, Zenon DEF vars, ReportInv, ReportsTheSession, Complete
<1>6. QED
  BY <1>2, <1>3, <1>4, <1>5 DEF Next, ScriptStep

\* perf.txt says what this session measured (scripts/perf.py over the log of this run of
\* scripts/run.sh): each figure is of a test that ended with a verdict, in the table of
\* that test's arguments, whatever was killed, said nothing or was cut short, and none is
\* missing when the log is whole.
THEOREM ReportIsOfTheSession == Spec => []ReportsTheSession
<1>1. Init => ReportInv
  BY DEF Init, ReportInv, ReportsTheSession
<1>2. LogInv /\ ReportInv /\ [Next]_vars => ReportInv'
  BY ReportStep
<1>3. ReportInv => ReportsTheSession
  BY DEF ReportInv
<1>4. QED
  BY <1>1, <1>2, <1>3, LogAlways, PTL DEF Spec
=============================================================================
