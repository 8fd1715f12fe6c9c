--------------------------- MODULE MultiTestProofs ---------------------------
(***************************************************************************)
(* The tests with several initiators and targets keep their promises for   *)
(* any number of hosts, any environment and any parameters.                *)
(***************************************************************************)
EXTENDS MultiTest, NvmeInitiatorProofs, CommonLemmas

-----------------------------------------------------------------------------
(***************************************************************************)
(* Lists as the sets of their elements                                     *)
(***************************************************************************)

Distinct(s) == \A j, k \in DOMAIN s : s[j] = s[k] => j = k

LEMMA EmptyList == ToSet(<<>>) = {} /\ Distinct(<<>>)
BY DEF ToSet, Distinct

LEMMA ElementsAreTyped ==
  ASSUME NEW T, NEW s \in Seq(T)
  PROVE  /\ ToSet(s) \subseteq T
         /\ s = <<>> <=> ToSet(s) = {}
<1>1. DOMAIN s = 1..Len(s) /\ Len(s) \in Nat /\ \A k \in 1..Len(s) : s[k] \in T
  OBVIOUS
<1>2. ToSet(s) \subseteq T
  BY <1>1 DEF ToSet
<1>3. ASSUME s # <<>> PROVE ToSet(s) # {}
  <2>1. 1 \in DOMAIN s
    BY <1>1, <1>3
  <2>2. QED
    BY <2>1 DEF ToSet
<1>4. QED
  BY <1>2, <1>3, EmptyList

LEMMA HeadAndTail ==
  ASSUME NEW T, NEW s \in Seq(T), s # <<>>, Distinct(s)
  PROVE  /\ Head(s) \in ToSet(s) /\ Tail(s) \in Seq(T) /\ Distinct(Tail(s))
         /\ ToSet(Tail(s)) = ToSet(s) \ {Head(s)}
<1> DEFINE t == Tail(s)
<1>1. /\ t \in Seq(T) /\ Len(s) \in Nat \ {0} /\ Len(t) = Len(s) - 1
      /\ Head(s) = s[1] /\ \A k \in 1..Len(t) : t[k] = s[k + 1]
  OBVIOUS
<1>2. DOMAIN s = 1..Len(s) /\ DOMAIN t = 1..Len(t)
  BY <1>1
<1> HIDE DEF t
<1>3. \A k \in 1..Len(t) : k + 1 \in 1..Len(s) /\ k + 1 # 1
  BY <1>1
<1>4. Distinct(t)
  <2> SUFFICES ASSUME NEW j \in 1..Len(t), NEW k \in 1..Len(t), t[j] = t[k] PROVE j = k
    BY <1>2 DEF Distinct
  <2>1. s[j + 1] = s[k + 1] /\ j + 1 \in DOMAIN s /\ k + 1 \in DOMAIN s
    BY <1>1, <1>2, <1>3
  <2>2. j + 1 = k + 1
    BY <2>1 DEF Distinct
  <2>3. QED
    BY <1>1, <2>2
<1>5. \A k \in 1..Len(s) : k = 1 \/ (k - 1 \in 1..Len(t) /\ k = (k - 1) + 1)
  BY <1>1
<1>6. ToSet(t) \subseteq ToSet(s) \ {s[1]}
  BY <1>1, <1>2, <1>3 DEF ToSet, Distinct
<1>7. ToSet(s) \ {s[1]} \subseteq ToSet(t)
  <2> SUFFICES ASSUME NEW k \in 1..Len(s), s[k] # s[1] PROVE s[k] \in ToSet(t)
    BY <1>2 DEF ToSet
  <2>1. k - 1 \in 1..Len(t) /\ (k - 1) + 1 = k
    BY <1>5
  <2>2. t[k - 1] = s[k]
    BY <1>1, <2>1
  <2>3. QED
    BY <1>2, <2>1, <2>2 DEF ToSet
<1>8. s[1] \in ToSet(s)
  BY <1>1, <1>2 DEF ToSet
<1>9. QED
  BY <1>1, <1>4, <1>6, <1>7, <1>8 DEF t

LEMMA ConsElements ==
  ASSUME NEW T, NEW s \in Seq(T), NEW x \in T
  PROVE  /\ Cons(x, s) \in Seq(T) /\ ToSet(Cons(x, s)) = {x} \cup ToSet(s)
         /\ Distinct(s) /\ x \notin ToSet(s) => Distinct(Cons(x, s))
<1> DEFINE c == Cons(x, s)
<1>1. c = <<x>> \o s
  BY DEF Cons
<1>2. c \in Seq(T) /\ Len(c) = 1 + Len(s) /\ c[1] = x /\ \A k \in 1..Len(s) : c[k + 1] = s[k]
  BY <1>1
<1>3. DOMAIN s = 1..Len(s) /\ DOMAIN c = 1..(1 + Len(s)) /\ Len(s) \in Nat
  BY <1>2
<1> HIDE DEF c
<1>4. \A k \in 1..(1 + Len(s)) : k = 1 \/ (k - 1 \in 1..Len(s) /\ (k - 1) + 1 = k)
  BY <1>3
<1>5. /\ \A k \in 1..Len(s) : k + 1 \in 1..(1 + Len(s))
      /\ 1 \in 1..(1 + Len(s))
  BY <1>3
<1>6. ToSet(c) = {x} \cup ToSet(s)
  <2>1. ASSUME NEW k \in DOMAIN c PROVE c[k] \in {x} \cup ToSet(s)
    <3>1. CASE k = 1
      BY <1>2, <3>1
    <3>2. CASE k # 1
      <4>1. k - 1 \in 1..Len(s) /\ (k - 1) + 1 = k
        BY <1>3, <1>4, <3>2
      <4>2. c[k] = s[k - 1]
        BY <1>2, <4>1
      <4>3. QED
        BY <1>3, <4>1, <4>2 DEF ToSet
    <3>3. QED
      BY <3>1, <3>2
  <2>2. x \in ToSet(c) /\ \A k \in DOMAIN s : s[k] \in ToSet(c)
    BY <1>2, <1>3, <1>5 DEF ToSet
  <2>3. QED
    BY <2>1, <2>2 DEF ToSet
<1>7. ASSUME Distinct(s), x \notin ToSet(s) PROVE Distinct(c)
  <2>1. \A k \in 1..Len(s) : s[k] # x
    BY <1>3, <1>7 DEF ToSet
  <2> SUFFICES ASSUME NEW j \in 1..(1 + Len(s)), NEW k \in 1..(1 + Len(s)), c[j] = c[k]
               PROVE  j = k
    BY <1>3 DEF Distinct
  <2>2. ASSUME NEW m \in 1..(1 + Len(s)), m # 1
        PROVE  m - 1 \in 1..Len(s) /\ c[m] = s[m - 1] /\ c[m] # x
    <3>1. m - 1 \in 1..Len(s) /\ (m - 1) + 1 = m
      BY <1>4, <2>2
    <3>2. c[m] = s[m - 1]
      BY <1>2, <3>1
    <3>3. QED
      BY <2>1, <3>1, <3>2
  <2>3. CASE j = 1 \/ k = 1
    BY <1>2, <2>2, <2>3
  <2>4. CASE j # 1 /\ k # 1
    <3>1. s[j - 1] = s[k - 1] /\ j - 1 \in DOMAIN s /\ k - 1 \in DOMAIN s
      BY <1>3, <2>2, <2>4
    <3>2. j - 1 = k - 1
      BY <1>7, <3>1 DEF Distinct
    <3>3. QED
      BY <3>2
  <2>5. QED
    BY <2>3, <2>4
<1>8. QED
  BY <1>2, <1>6, <1>7 DEF c

LEMMA JoinElements ==
  ASSUME NEW T, NEW s \in Seq(T), NEW t \in Seq(T)
  PROVE  /\ s \o t \in Seq(T) /\ ToSet(s \o t) = ToSet(s) \cup ToSet(t)
         /\ Distinct(s) /\ Distinct(t) /\ ToSet(s) \cap ToSet(t) = {} => Distinct(s \o t)
<1> DEFINE u == s \o t
<1> HIDE DEF u
<1>1. /\ u \in Seq(T) /\ Len(u) = Len(s) + Len(t)
      /\ \A k \in 1..Len(s) : u[k] = s[k]
      /\ \A k \in (Len(s) + 1)..(Len(s) + Len(t)) : u[k] = t[k - Len(s)]
  BY Concatenation DEF u
<1>2. /\ DOMAIN s = 1..Len(s) /\ DOMAIN t = 1..Len(t) /\ DOMAIN u = 1..Len(u)
      /\ Len(s) \in Nat /\ Len(t) \in Nat
  BY <1>1
<1>3. ASSUME NEW k \in 1..Len(u)
      PROVE  \/ k \in 1..Len(s) /\ u[k] = s[k]
             \/ /\ k - Len(s) \in 1..Len(t) /\ u[k] = t[k - Len(s)] /\ k \notin 1..Len(s)
  BY <1>1, <1>2
<1>4. \A k \in 1..Len(t) :
        Len(s) + k \in 1..Len(u) /\ u[Len(s) + k] = t[k]
  <2> SUFFICES ASSUME NEW k \in 1..Len(t)
               PROVE  Len(s) + k \in 1..Len(u) /\ u[Len(s) + k] = t[k]
    OBVIOUS
  <2>1. /\ Len(s) + k \in (Len(s) + 1)..(Len(s) + Len(t))
        /\ Len(s) + k \in 1..Len(u) /\ (Len(s) + k) - Len(s) = k
    BY <1>1, <1>2
  <2>2. QED
    BY <1>1, <2>1
<1>5. ToSet(u) = ToSet(s) \cup ToSet(t)
  <2>1. ToSet(u) \subseteq ToSet(s) \cup ToSet(t)
    BY <1>2, <1>3 DEF ToSet
  <2>2. ToSet(s) \subseteq ToSet(u)
    <3>1. \A k \in 1..Len(s) : k \in 1..Len(u)
      BY <1>1, <1>2
    <3>2. QED
      BY <1>1, <1>2, <3>1 DEF ToSet
  <2>3. ToSet(t) \subseteq ToSet(u)
    BY <1>2, <1>4 DEF ToSet
  <2>4. QED
    BY <2>1, <2>2, <2>3
<1>6. ASSUME Distinct(s), Distinct(t), ToSet(s) \cap ToSet(t) = {} PROVE Distinct(u)
  <2> SUFFICES ASSUME NEW j \in 1..Len(u), NEW k \in 1..Len(u), u[j] = u[k] PROVE j = k
    BY <1>2 DEF Distinct
  <2>1. CASE j \in 1..Len(s) /\ k \in 1..Len(s)
    BY <1>1, <1>2, <1>6, <2>1 DEF Distinct
  <2>2. CASE j \notin 1..Len(s) /\ k \notin 1..Len(s)
    <3>1. /\ j - Len(s) \in 1..Len(t) /\ k - Len(s) \in 1..Len(t)
          /\ t[j - Len(s)] = t[k - Len(s)]
      BY <1>3, <2>2
    <3>2. j - Len(s) = k - Len(s)
      BY <1>2, <1>6, <3>1 DEF Distinct
    <3>3. QED
      BY <1>2, <3>2
  <2>3. CASE ~ (j \in 1..Len(s) <=> k \in 1..Len(s))
    <3>1. u[j] \in ToSet(s) /\ u[j] \in ToSet(t)
      BY <1>2, <1>3, <2>3 DEF ToSet
    <3>2. QED
      BY <1>6, <3>1
  <2>4. QED
    BY <2>1, <2>2, <2>3
<1>7. QED
  BY <1>1, <1>5, <1>6 DEF u

\* What it means that f records a run of FlattenSeq
Joins(f, seqs, last) ==
  /\ f[1] = seqs[1]
  /\ \A k \in 2..last : f[k] = f[k - 1] \o seqs[k]

LEMMA JoinsExist ==
  ASSUME NEW seqs, NEW last \in Nat
  PROVE  \E f : f = [k \in 1..(last + 1) |-> f[k]] /\ Joins(f, seqs, last + 1)
<1> DEFINE Joined(n) == \E f : f = [k \in 1..(n + 1) |-> f[k]] /\ Joins(f, seqs, n + 1)
           S == {n \in Nat : Joined(n)}
<1>1. 0 \in S
  <2> DEFINE f == [k \in 1..(0 + 1) |-> seqs[1]]
  <2>1. f = [k \in 1..(0 + 1) |-> f[k]] /\ Joins(f, seqs, 0 + 1)
    BY DEF Joins
  <2>2. QED
    BY <2>1
<1>2. ASSUME NEW n \in Nat, n \in S PROVE n + 1 \in S
  <2>1. PICK f : f = [k \in 1..(n + 1) |-> f[k]] /\ Joins(f, seqs, n + 1)
    BY <1>2
  <2> DEFINE next == f[n + 1] \o seqs[n + 2]
             more == [k \in 1..((n + 1) + 1) |-> IF k <= n + 1 THEN f[k] ELSE next]
  <2>2. Joins(more, seqs, (n + 1) + 1)
    <3> HIDE DEF next
    <3>1. more[1] = seqs[1]
      BY <2>1 DEF Joins
    <3>2. ASSUME NEW k \in 2..(n + 1) PROVE more[k] = more[k - 1] \o seqs[k]
      <4>1. more[k] = f[k] /\ more[k - 1] = f[k - 1]
        OBVIOUS
      <4>2. QED
        BY <2>1, <4>1 DEF Joins
    <3>3. more[n + 2] = next /\ more[n + 1] = f[n + 1]
      OBVIOUS
    <3>4. \A k \in 2..((n + 1) + 1) : k \in 2..(n + 1) \/ k = n + 2
      OBVIOUS
    <3>5. (n + 2) - 1 = n + 1
      OBVIOUS
    <3> HIDE DEF more
    <3>6. \A k \in 2..((n + 1) + 1) : more[k] = more[k - 1] \o seqs[k]
      BY <3>2, <3>3, <3>4, <3>5 DEF next
    <3>7. QED
      BY <3>1, <3>6 DEF Joins
  <2>3. more = [k \in 1..((n + 1) + 1) |-> more[k]]
    OBVIOUS
  <2>4. QED
    <3> HIDE DEF more
    <3>1. QED
      BY <2>2, <2>3
<1>3. Nat \subseteq S
  <2> HIDE DEF S
  <2>1. QED
    BY <1>1, <1>2, SetInduction
<1>4. QED
  BY <1>3

LEMMA FlattenJoins ==
  ASSUME NEW seqs, Len(seqs) \in Nat \ {0}
  PROVE  \E f : Joins(f, seqs, Len(seqs)) /\ FlattenSeq(seqs) = f[Len(seqs)]
<1> DEFINE N == Len(seqs)
           Solves(f) == f = [i \in 1..N |-> IF i = 1 THEN seqs[i] ELSE f[i - 1] \o seqs[i]]
           F == CHOOSE f : Solves(f)
<1>1. PICK f : f = [k \in 1..N |-> f[k]] /\ Joins(f, seqs, N)
  <2>1. N - 1 \in Nat /\ (N - 1) + 1 = N
    OBVIOUS
  <2> HIDE DEF N
  <2>2. \E f : f = [k \in 1..((N - 1) + 1) |-> f[k]] /\ Joins(f, seqs, (N - 1) + 1)
    BY <2>1, JoinsExist
  <2>3. QED
    BY <2>1, <2>2
<1>2. Solves(f)
  <2>1. ASSUME NEW i \in 1..N
        PROVE  f[i] = IF i = 1 THEN seqs[i] ELSE f[i - 1] \o seqs[i]
    <3>1. i = 1 \/ i \in 2..N
      OBVIOUS
    <3>2. QED
      BY <1>1, <3>1 DEF Joins
  <2>2. QED
    BY <1>1, <2>1, Zenon
<1>3. Solves(F)
  <2> HIDE DEF Solves
  <2>1. QED
    BY <1>2
<1>4. FlattenSeq(seqs) = F[Len(seqs)]
  BY DEF FlattenSeq
<1> HIDE DEF F
<1>5. \A i \in 1..N : F[i] = IF i = 1 THEN seqs[i] ELSE F[i - 1] \o seqs[i]
  BY <1>3, Zenon
<1>6. Joins(F, seqs, N)
  <2>1. 1 \in 1..N /\ \A k \in 2..N : k \in 1..N /\ k # 1
    OBVIOUS
  <2> HIDE DEF N
  <2>2. QED
    BY <1>5, <2>1 DEF Joins
<1>7. QED
  BY <1>4, <1>6

\* The elements of a flattened list are those of its lists, none of them twice if no
\* list has one twice and no two share one.
LEMMA FlattenElements ==
  ASSUME NEW T, NEW seqs \in Seq(Seq(T))
  PROVE  /\ FlattenSeq(seqs) \in Seq(T)
         /\ ToSet(FlattenSeq(seqs)) = UNION {ToSet(seqs[k]) : k \in DOMAIN seqs}
         /\ /\ \A k \in DOMAIN seqs : Distinct(seqs[k])
            /\ \A j, k \in DOMAIN seqs : j # k => ToSet(seqs[j]) \cap ToSet(seqs[k]) = {}
            => Distinct(FlattenSeq(seqs))
<1> DEFINE N == Len(seqs)
           Apart == /\ \A k \in DOMAIN seqs : Distinct(seqs[k])
                    /\ \A j, k \in DOMAIN seqs :
                         j # k => ToSet(seqs[j]) \cap ToSet(seqs[k]) = {}
<1>1. DOMAIN seqs = 1..N /\ N \in Nat /\ \A k \in 1..N : seqs[k] \in Seq(T)
  OBVIOUS
<1>2. CASE N = 0
  <2>1. seqs = <<>> /\ FlattenSeq(seqs) = seqs
    BY <1>2 DEF FlattenSeq
  <2>2. <<>> \in Seq(T) /\ DOMAIN <<>> = {}
    OBVIOUS
  <2>3. QED
    BY <2>1, <2>2, EmptyList
<1>3. CASE N # 0
  <2>1. PICK f : Joins(f, seqs, N) /\ FlattenSeq(seqs) = f[N]
    BY <1>1, <1>3, FlattenJoins
  <2> DEFINE Good(n) ==
               /\ f[n] \in Seq(T)
               /\ ToSet(f[n]) = UNION {ToSet(seqs[k]) : k \in 1..n}
               /\ Apart => Distinct(f[n])
             S == {n \in Nat : n + 1 <= N => Good(n + 1)}
  <2>2. 0 \in S
    <3>1. f[1] = seqs[1] /\ 1 \in 1..N
      BY <1>1, <1>3, <2>1 DEF Joins
    <3>2. UNION {ToSet(seqs[k]) : k \in 1..1} = ToSet(seqs[1])
      OBVIOUS
    <3>3. Good(1)
      BY <1>1, <3>1, <3>2
    <3>4. 0 + 1 = 1
      OBVIOUS
    <3> HIDE DEF Good
    <3>5. QED
      BY <3>3, <3>4
  <2>3. ASSUME NEW n \in Nat, n \in S PROVE n + 1 \in S
    <3> SUFFICES ASSUME (n + 1) + 1 <= N PROVE Good((n + 1) + 1)
      OBVIOUS
    <3> DEFINE m == n + 1
    <3>1. m \in 1..N /\ m + 1 \in 2..N /\ m + 1 \in 1..N /\ (m + 1) - 1 = m
      BY <1>1
    <3> HIDE DEF m
    <3>2. f[m + 1] = f[m] \o seqs[m + 1]
      BY <2>1, <3>1 DEF Joins
    <3>3. Good(m)
      <4>1. n + 1 <= N => Good(n + 1)
        BY <2>3
      <4>2. n + 1 <= N
        BY <1>1
      <4> HIDE DEF Good
      <4>3. QED
        BY <4>1, <4>2 DEF m
    <3>4. seqs[m + 1] \in Seq(T)
      BY <1>1, <3>1
    <3>5. /\ f[m + 1] \in Seq(T) /\ ToSet(f[m + 1]) = ToSet(f[m]) \cup ToSet(seqs[m + 1])
          /\ /\ Distinct(f[m]) /\ Distinct(seqs[m + 1])
             /\ ToSet(f[m]) \cap ToSet(seqs[m + 1]) = {}
             => Distinct(f[m + 1])
      <4> DEFINE u == f[m + 1]  v == f[m]  t == seqs[m + 1]
      <4>1. u = v \o t /\ v \in Seq(T) /\ t \in Seq(T)
        BY <3>2, <3>3, <3>4
      <4> HIDE DEF u, v, t
      <4>2. /\ u \in Seq(T) /\ ToSet(u) = ToSet(v) \cup ToSet(t)
            /\ Distinct(v) /\ Distinct(t) /\ ToSet(v) \cap ToSet(t) = {} => Distinct(u)
        BY <4>1, JoinElements
      <4>3. QED
        BY <4>2 DEF u, v, t
    <3>6. UNION {ToSet(seqs[k]) : k \in 1..(m + 1)}
            = (UNION {ToSet(seqs[k]) : k \in 1..m}) \cup ToSet(seqs[m + 1])
      <4>1. \A k \in 1..(m + 1) : k \in 1..m \/ k = m + 1
        BY <3>1
      <4>2. m + 1 \in 1..(m + 1) /\ \A k \in 1..m : k \in 1..(m + 1)
        BY <3>1
      <4>3. QED
        BY <4>1, <4>2
    <3>7. ASSUME Apart PROVE Distinct(f[m + 1])
      <4>1. Distinct(f[m]) /\ Distinct(seqs[m + 1])
        BY <1>1, <3>1, <3>3, <3>7
      <4>2. ToSet(f[m]) = UNION {ToSet(seqs[k]) : k \in 1..m}
        BY <3>3
      <4>3. \A k \in 1..m : k \in DOMAIN seqs /\ k # m + 1 /\ m + 1 \in DOMAIN seqs
        BY <1>1, <3>1
      <4>4. ToSet(f[m]) \cap ToSet(seqs[m + 1]) = {}
        BY <3>7, <4>2, <4>3
      <4>5. QED
        BY <3>5, <4>1, <4>4
    <3>8. ToSet(f[m + 1]) = UNION {ToSet(seqs[k]) : k \in 1..(m + 1)}
      <4>1. ToSet(f[m]) = UNION {ToSet(seqs[k]) : k \in 1..m}
        BY <3>3
      <4>2. QED
        BY <3>5, <3>6, <4>1
    <3>9. QED
      BY <3>5, <3>7, <3>8 DEF m
  <2>4. Nat \subseteq S
    <3> HIDE DEF S
    <3>1. QED
      BY <2>2, <2>3, SetInduction
  <2>5. Good(N)
    <3>1. N - 1 \in Nat /\ (N - 1) + 1 = N
      BY <1>1, <1>3
    <3>2. N - 1 \in S
      BY <2>4, <3>1
    <3>3. (N - 1) + 1 <= N => Good((N - 1) + 1)
      BY <3>2
    <3>4. QED
      BY <3>1, <3>3
  <2>6. QED
    BY <1>1, <2>1, <2>5
<1>4. QED
  BY <1>2, <1>3

-----------------------------------------------------------------------------
(***************************************************************************)
(* The inductive invariant.  A loop over a list is a walk through a set:   *)
(* what is left of it, and what it has been through.                       *)
(***************************************************************************)
InitHosts == 0..(env.inits - 1)
TgtHosts == 0..(env.tgts - 1)
Ifs == ({"init"} \X InitHosts) \cup ({"tgt"} \X TgtHosts)

Remaining == ToSet(todo)
Listed == {p \in Initiators : p[2] \in ToSet(host_ctrls[p[1]])}

\* The loops of the body that come after loop s
Behind(s) ==
  CASE s = "load" -> {"netem", "setup", "connect", "features", "create", "start", "wait", "report"}
    [] s = "netem" -> {"features", "create", "start", "wait", "report"}
                        \cup (IF env.netem = "before" THEN {"setup", "connect"} ELSE {})
    [] s = "connect" -> {"features", "create", "start", "wait", "report"}
                          \cup (IF env.netem = "after" THEN {"netem"} ELSE {})
    [] s = "features" -> {"create", "start", "wait", "report"}
    [] s = "create" -> {"start", "wait", "report"}
    [] s = "wait" -> {"report"}

\* The body has been through x in loop s.
Did(s, x) == stage \in Behind(s) \/ (stage = s /\ x \notin Remaining)

ListInv ==
  /\ ToSet(all_initiators) \subseteq InitHosts /\ Distinct(all_initiators)
  /\ ToSet(all_targets) \subseteq TgtHosts /\ Distinct(all_targets)
  /\ Listed \subseteq ToSet(all_initiators) \X ToSet(all_targets)
  /\ \A i \in Hosts : Distinct(host_ctrls[i])
  /\ ToSet(all_fios) \subseteq Listed /\ Distinct(all_fios)

TodoInv ==
  /\ Distinct(todo)
  /\ stage = "load" =>
       Remaining \cap (ToSet(all_initiators) \cup ToSet(all_targets)) = {}
  /\ stage = "setup" => Remaining \subseteq ToSet(all_targets)
  /\ stage = "connect" => Remaining \subseteq ToSet(all_initiators) \X ToSet(all_targets)
  /\ stage \in {"create", "disconnect"} => Remaining \subseteq Listed
  /\ stage = "create" => Remaining \cap ToSet(all_fios) = {}
  /\ stage \in {"start", "wait", "report"} => Remaining \subseteq ToSet(all_fios)

\* Every pair has a server of its own, which answers until its disconnect hangs.
ServerInv ==
  /\ rpcs = RootOf
  /\ \A p \in Listed : RootOf[p] \in alive
  /\ \A s \in Servers : pending[s] # Null =>
       /\ RootOf[pending[s]] = s /\ stage \in Cleanup
       /\ stage = "disconnect" => pending[s] \notin Remaining

CtrlInv ==
  \A p \in Initiators :
    /\ ctrl[p] # "absent" \/ dev[p] => p \in Listed
    /\ ctrl[p] # "absent" /\ ~dev[p] => stage \in Cleanup /\ verdict = "fail"
    /\ stage \in Cleanup /\ dev[p] /\ rc[p] # "error" =>
         stage = "disconnect" /\ p \in Remaining

\* What the loops of the body have achieved
ProgressInv ==
  /\ verdict = "pass" => stage \in Cleanup
  /\ \A h \in InitHosts : Did("load", h) => h \in ToSet(all_initiators)
  /\ \A h \in TgtHosts : Did("load", h) => h \in ToSet(all_targets)
  /\ \A p \in EnvPairs : Did("connect", p) => p \in Listed
  /\ \A p \in EnvPairs : Did("create", p) => p \in ToSet(all_fios)
  /\ \A p \in EnvPairs : Did("wait", p) \/ verdict = "pass" => job[p] = "ended"
  /\ \A a \in Apps : job[a] # "none" => a \in ToSet(all_fios)

\* The interface has the features that were asked.
Featured(f) ==
  \A name \in IfFeatureNames :
    conf[f][name] = IF name = "mtu" THEN Params["mtu"] ELSE Params["lro"]

ConfInv ==
  /\ all_fios # <<>> => stage \in {"create", "start", "wait", "report"} \cup Cleanup
  /\ \A f \in Ifs : Did("features", f) \/ all_fios # <<>> => Featured(f)
  /\ \A f \in Ifaces : conf[f]["enabled"] => AsksNetem(f, netem_opts)
  /\ env.netem # "never" =>
       \A i \in InitHosts : Did("netem", i) \/ all_fios # <<>> => Impaired(<<"init", i>>)

TgtInv ==
  \A t \in Hosts : tgt[t] \in {"inited", "serving"} =>
    /\ t \in ToSet(all_targets) /\ stage # "done"
    /\ stage = "fini" => t \in Remaining

MultiInv ==
  /\ TypeOK /\ ListInv /\ TodoInv /\ ServerInv /\ CtrlInv /\ ProgressInv /\ ConfInv
  /\ TgtInv

-----------------------------------------------------------------------------
(***************************************************************************)
(* What the loops go through                                               *)
(***************************************************************************)
\* The pairs of an element of s with an element of the list f gives it
PairsOf(s, f) ==
  FlattenSeq([k \in DOMAIN s |-> [m \in DOMAIN f[s[k]] |-> <<s[k], f[s[k]][m]>>]])

LEMMA PairsAre ==
  ASSUME NEW A, NEW s \in Seq(A), NEW f \in [A -> Seq(A)]
  PROVE  /\ PairsOf(s, f) \in Seq(A \X A)
         /\ ToSet(PairsOf(s, f)) = {p \in A \X A : p[1] \in ToSet(s) /\ p[2] \in ToSet(f[p[1]])}
         /\ Distinct(s) /\ (\A a \in A : Distinct(f[a])) => Distinct(PairsOf(s, f))
<1> DEFINE row(k) == [m \in DOMAIN f[s[k]] |-> <<s[k], f[s[k]][m]>>]
           rows == [k \in DOMAIN s |-> row(k)]
<1>1. DOMAIN s = 1..Len(s) /\ Len(s) \in Nat /\ \A k \in DOMAIN s : s[k] \in A
  OBVIOUS
<1>2. ASSUME NEW k \in DOMAIN s
      PROVE  /\ row(k) \in Seq(A \X A) /\ DOMAIN row(k) = DOMAIN f[s[k]]
             /\ \A m \in DOMAIN row(k) : row(k)[m] = <<s[k], f[s[k]][m]>>
             /\ ToSet(row(k)) = {p \in A \X A : p[1] = s[k] /\ p[2] \in ToSet(f[s[k]])}
  <2> DEFINE t == f[s[k]]
  <2>1. t \in Seq(A) /\ s[k] \in A
    BY <1>1
  <2> HIDE DEF t
  <2>2. DOMAIN t = 1..Len(t) /\ Len(t) \in Nat /\ \A m \in DOMAIN t : t[m] \in A
    BY <2>1
  <2>3. [m \in DOMAIN t |-> <<s[k], t[m]>>] \in Seq(A \X A)
    BY <2>1, <2>2
  <2>4. ToSet([m \in DOMAIN t |-> <<s[k], t[m]>>])
          = {p \in A \X A : p[1] = s[k] /\ p[2] \in ToSet(t)}
    <3> DEFINE u == [m \in DOMAIN t |-> <<s[k], t[m]>>]
    <3>1. DOMAIN u = DOMAIN t /\ \A m \in DOMAIN t : u[m] = <<s[k], t[m]>>
      OBVIOUS
    <3> HIDE DEF u
    <3>2. ASSUME NEW m \in DOMAIN u
          PROVE  u[m] \in {p \in A \X A : p[1] = s[k] /\ p[2] \in ToSet(t)}
      <4>1. u[m] = <<s[k], t[m]>> /\ t[m] \in ToSet(t) /\ t[m] \in A
        BY <2>2, <3>1 DEF ToSet
      <4>2. QED
        BY <2>1, <4>1
    <3>3. ASSUME NEW p \in A \X A, p[1] = s[k], p[2] \in ToSet(t)
          PROVE  \E m \in DOMAIN u : u[m] = p
      <4>1. PICK m \in DOMAIN t : t[m] = p[2]
        BY <3>3 DEF ToSet
      <4>2. u[m] = p
        <5>1. p = <<p[1], p[2]>>
          OBVIOUS
        <5>2. u[m] = <<p[1], p[2]>>
          BY <3>1, <3>3, <4>1
        <5>3. QED
          BY <5>1, <5>2
      <4>3. QED
        BY <3>1, <4>2
    <3>4. ToSet(u) = {u[m] : m \in DOMAIN u}
      BY DEF ToSet
    <3>5. ToSet(u) = {p \in A \X A : p[1] = s[k] /\ p[2] \in ToSet(t)}
      BY <3>2, <3>3, <3>4
    <3>6. QED
      BY <3>5 DEF u
  <2>5. QED
    BY <2>3, <2>4 DEF t
<1> HIDE DEF row
<1>3. rows \in Seq(Seq(A \X A)) /\ DOMAIN rows = DOMAIN s /\ \A k \in DOMAIN s : rows[k] = row(k)
  BY <1>1, <1>2
<1>4. PairsOf(s, f) = FlattenSeq(rows)
  BY DEF PairsOf, row
<1> HIDE DEF rows
<1>5. /\ FlattenSeq(rows) \in Seq(A \X A)
      /\ ToSet(FlattenSeq(rows)) = UNION {ToSet(rows[k]) : k \in DOMAIN rows}
      /\ /\ \A k \in DOMAIN rows : Distinct(rows[k])
         /\ \A j, k \in DOMAIN rows : j # k => ToSet(rows[j]) \cap ToSet(rows[k]) = {}
         => Distinct(FlattenSeq(rows))
  BY <1>3, FlattenElements
<1>6. UNION {ToSet(rows[k]) : k \in DOMAIN rows}
        = {p \in A \X A : p[1] \in ToSet(s) /\ p[2] \in ToSet(f[p[1]])}
  <2>1. ASSUME NEW k \in DOMAIN s, NEW p \in ToSet(row(k))
        PROVE  p \in A \X A /\ p[1] \in ToSet(s) /\ p[2] \in ToSet(f[p[1]])
    BY <1>2, <2>1 DEF ToSet
  <2>2. ASSUME NEW p \in A \X A, p[1] \in ToSet(s), p[2] \in ToSet(f[p[1]])
        PROVE  \E k \in DOMAIN s : p \in ToSet(row(k))
    <3>1. PICK k \in DOMAIN s : p[1] = s[k]
      BY <2>2 DEF ToSet
    <3>2. QED
      BY <1>2, <2>2, <3>1
  <2>3. QED
    BY <1>3, <2>1, <2>2
<1>7. ASSUME Distinct(s), \A a \in A : Distinct(f[a]) PROVE Distinct(FlattenSeq(rows))
  <2>1. ASSUME NEW k \in DOMAIN s PROVE Distinct(row(k))
    <3>1. Distinct(f[s[k]])
      BY <1>1, <1>7
    <3>2. QED
      BY <1>2, <3>1 DEF Distinct
  <2>2. ASSUME NEW j \in DOMAIN s, NEW k \in DOMAIN s, j # k
        PROVE  ToSet(row(j)) \cap ToSet(row(k)) = {}
    <3>1. s[j] # s[k]
      BY <1>7, <2>2 DEF Distinct
    <3>2. QED
      BY <1>2, <3>1
  <2>3. QED
    BY <1>3, <1>5, <2>1, <2>2
<1>8. QED
  BY <1>4, <1>5, <1>6, <1>7

\* The environment is one of those the package knows.
LEMMA EnvironmentIs ==
  ASSUME env \in Environments
  PROVE  /\ env.inits \in 1..MaxHosts /\ env.tgts \in 1..MaxHosts /\ MaxHosts \in Nat \ {0}
         /\ env.netem \in {"never", "before", "after"}
         /\ InitHosts \subseteq Hosts /\ TgtHosts \subseteq Hosts
         /\ EnvPairs = InitHosts \X TgtHosts /\ EnvPairs \subseteq Initiators
         /\ Ifs \subseteq Ifaces
         /\ InitHosts = {h \in Hosts : h < env.inits}
         /\ TgtHosts = {h \in Hosts : h < env.tgts}
<1>1. env.inits \in 1..MaxHosts /\ env.tgts \in 1..MaxHosts /\ MaxHosts \in Nat \ {0}
      /\ env.netem \in {"never", "before", "after"}
  BY MultiAssumption
<1>2. InitHosts \subseteq Hosts /\ TgtHosts \subseteq Hosts
      /\ InitHosts = {h \in Hosts : h < env.inits} /\ TgtHosts = {h \in Hosts : h < env.tgts}
  BY <1>1 DEF Hosts, InitHosts, TgtHosts
<1>3. EnvPairs = InitHosts \X TgtHosts
  BY DEF EnvPairs, InitHosts, TgtHosts
<1>4. QED
  BY <1>1, <1>2, <1>3, MultiAssumption DEF Ifs

LEMMA EndpointsAre ==
  Endpoints \in Seq(Hosts) /\ ToSet(Endpoints) = Hosts /\ Distinct(Endpoints)
<1>1. MaxHosts \in Nat \ {0}
  BY MultiAssumption
<1>2. DOMAIN Endpoints = 1..MaxHosts /\ \A k \in 1..MaxHosts : Endpoints[k] = k - 1
  BY DEF Endpoints
<1>3. Endpoints \in Seq(Hosts)
  BY <1>1 DEF Endpoints, Hosts
<1>4. \A k \in 1..MaxHosts : k - 1 \in Hosts
  BY <1>1 DEF Hosts
<1>5. \A h \in Hosts : h + 1 \in 1..MaxHosts /\ (h + 1) - 1 = h
  BY <1>1 DEF Hosts
<1>6. ToSet(Endpoints) \subseteq Hosts
  BY <1>2, <1>4 DEF ToSet
<1>7. Hosts \subseteq ToSet(Endpoints)
  <2> SUFFICES ASSUME NEW h \in Hosts PROVE \E k \in 1..MaxHosts : Endpoints[k] = h
    BY <1>2 DEF ToSet
  <2>1. Endpoints[h + 1] = h
    BY <1>2, <1>5
  <2>2. QED
    BY <1>5, <2>1
<1>8. Distinct(Endpoints)
  BY <1>1, <1>2 DEF Distinct
<1>9. QED
  BY <1>3, <1>6, <1>7, <1>8

LEMMA EnvIfsAre ==
  ASSUME env \in Environments
  PROVE  EnvIfs \in Seq(Ifaces) /\ ToSet(EnvIfs) = Ifs /\ Distinct(EnvIfs)
<1> DEFINE s == [k \in 1..env.inits |-> <<"init", k - 1>>]
           t == [k \in 1..env.tgts |-> <<"tgt", k - 1>>]
<1>1. /\ env.inits \in Nat \ {0} /\ env.tgts \in Nat \ {0} /\ env.inits <= MaxHosts
      /\ env.tgts <= MaxHosts /\ MaxHosts \in Nat
  BY EnvironmentIs
<1>2. ASSUME NEW kind \in {"init", "tgt"}, NEW n \in Nat, n <= MaxHosts
      PROVE  LET u == [k \in 1..n |-> <<kind, k - 1>>]
             IN  /\ u \in Seq(Ifaces) /\ ToSet(u) = {kind} \X (0..(n - 1)) /\ Distinct(u)
  <2> DEFINE u == [k \in 1..n |-> <<kind, k - 1>>]
  <2>1. DOMAIN u = 1..n /\ \A k \in 1..n : u[k] = <<kind, k - 1>>
    OBVIOUS
  <2>2. \A k \in 1..n : k - 1 \in 0..(n - 1) /\ k - 1 \in Hosts
    BY <1>1, <1>2 DEF Hosts
  <2>3. \A h \in 0..(n - 1) : h + 1 \in 1..n /\ (h + 1) - 1 = h
    OBVIOUS
  <2>4. u \in Seq(Ifaces)
    BY <2>2, MultiAssumption
  <2> HIDE DEF u
  <2>5. ToSet(u) \subseteq {kind} \X (0..(n - 1))
    <3>1. ASSUME NEW k \in 1..n PROVE u[k] \in {kind} \X (0..(n - 1))
      <4> DEFINE Y == 0..(n - 1)
      <4>1. k - 1 \in Y /\ u[k] = <<kind, k - 1>>
        BY <2>1, <2>2
      <4> HIDE DEF Y
      <4>2. u[k] \in {kind} \X Y
        BY <4>1
      <4>3. QED
        BY <4>2 DEF Y
    <3>2. QED
      BY <2>1, <3>1 DEF ToSet
  <2>6. {kind} \X (0..(n - 1)) \subseteq ToSet(u)
    <3>1. ASSUME NEW h \in 0..(n - 1) PROVE <<kind, h>> \in ToSet(u)
      <4>1. u[h + 1] = <<kind, h>> /\ h + 1 \in 1..n
        BY <2>1, <2>3
      <4>2. QED
        BY <2>1, <4>1 DEF ToSet
    <3>2. QED
      BY <3>1
  <2>7. Distinct(u)
    <3> SUFFICES ASSUME NEW j \in 1..n, NEW k \in 1..n, u[j] = u[k] PROVE j = k
      BY <2>1 DEF Distinct
    <3>1. j - 1 = k - 1
      BY <2>1
    <3>2. QED
      BY <3>1
  <2>8. QED
    BY <2>4, <2>5, <2>6, <2>7 DEF u
<1>3. s \in Seq(Ifaces) /\ ToSet(s) = {"init"} \X InitHosts /\ Distinct(s)
  BY <1>1, <1>2 DEF InitHosts
<1>4. t \in Seq(Ifaces) /\ ToSet(t) = {"tgt"} \X TgtHosts /\ Distinct(t)
  BY <1>1, <1>2 DEF TgtHosts
<1>5. EnvIfs = s \o t
  BY DEF EnvIfs
<1> HIDE DEF s, t
<1>6. ToSet(s) \cap ToSet(t) = {}
  BY <1>3, <1>4
<1>7. /\ s \o t \in Seq(Ifaces) /\ ToSet(s \o t) = ToSet(s) \cup ToSet(t)
      /\ Distinct(s) /\ Distinct(t) /\ ToSet(s) \cap ToSet(t) = {} => Distinct(s \o t)
  BY <1>3, <1>4, JoinElements
<1>8. QED
  BY <1>3, <1>4, <1>5, <1>6, <1>7 DEF Ifs

LEMMA ListsAreTyped ==
  ASSUME TypeOK
  PROVE  /\ all_initiators \in Seq(Hosts) /\ all_targets \in Seq(Hosts)
         /\ host_ctrls \in [Hosts -> Seq(Hosts)] /\ all_fios \in Seq(Initiators)
         /\ Initiators = Hosts \X Hosts /\ Apps = Initiators
         /\ env \in Environments
BY MultiAssumption DEF TypeOK

LEMMA ConnectsAre ==
  ASSUME TypeOK, ListInv
  PROVE  /\ Pairs \in Seq(Initiators) /\ Distinct(Pairs)
         /\ ToSet(Pairs) = ToSet(all_initiators) \X ToSet(all_targets)
<1> DEFINE same == [i \in Hosts |-> all_targets]
<1>1. all_initiators \in Seq(Hosts) /\ same \in [Hosts -> Seq(Hosts)]
  BY ListsAreTyped
<1>2. \A k \in DOMAIN all_initiators : same[all_initiators[k]] = all_targets
  BY <1>1
<1>3. Pairs = PairsOf(all_initiators, same)
  <2> HIDE DEF same
  <2>1. [k \in DOMAIN all_initiators |->
           [m \in DOMAIN all_targets |-> <<all_initiators[k], all_targets[m]>>]]
        = [k \in DOMAIN all_initiators |->
             [m \in DOMAIN same[all_initiators[k]] |->
                <<all_initiators[k], same[all_initiators[k]][m]>>]]
    BY <1>2
  <2>2. QED
    BY <2>1 DEF Pairs, PairsOf
<1>4. /\ PairsOf(all_initiators, same) \in Seq(Hosts \X Hosts)
      /\ ToSet(PairsOf(all_initiators, same))
           = {p \in Hosts \X Hosts : p[1] \in ToSet(all_initiators) /\ p[2] \in ToSet(same[p[1]])}
      /\ Distinct(all_initiators) /\ (\A a \in Hosts : Distinct(same[a])) =>
           Distinct(PairsOf(all_initiators, same))
  <2> HIDE DEF same
  <2>1. QED
    BY <1>1, PairsAre
<1>5. ToSet(all_initiators) \subseteq Hosts /\ ToSet(all_targets) \subseteq Hosts
  BY ListsAreTyped, ElementsAreTyped
<1>6. {p \in Hosts \X Hosts : p[1] \in ToSet(all_initiators) /\ p[2] \in ToSet(same[p[1]])}
        = ToSet(all_initiators) \X ToSet(all_targets)
  BY <1>5
<1>7. QED
  BY <1>3, <1>4, <1>6, ListsAreTyped DEF ListInv

LEMMA ControllersAre ==
  ASSUME TypeOK, ListInv
  PROVE  HostCtrls \in Seq(Initiators) /\ Distinct(HostCtrls) /\ ToSet(HostCtrls) = Listed
<1>1. all_initiators \in Seq(Hosts) /\ host_ctrls \in [Hosts -> Seq(Hosts)]
  BY ListsAreTyped
<1>2. HostCtrls = PairsOf(all_initiators, host_ctrls)
  BY DEF HostCtrls, PairsOf
<1>3. /\ PairsOf(all_initiators, host_ctrls) \in Seq(Hosts \X Hosts)
      /\ ToSet(PairsOf(all_initiators, host_ctrls))
           = {p \in Hosts \X Hosts : p[1] \in ToSet(all_initiators)
                                     /\ p[2] \in ToSet(host_ctrls[p[1]])}
      /\ Distinct(all_initiators) /\ (\A a \in Hosts : Distinct(host_ctrls[a])) =>
           Distinct(PairsOf(all_initiators, host_ctrls))
  BY <1>1, PairsAre
<1>4. {p \in Hosts \X Hosts : p[1] \in ToSet(all_initiators) /\ p[2] \in ToSet(host_ctrls[p[1]])}
        = Listed
  BY ListsAreTyped DEF ListInv, Listed
<1>5. QED
  BY <1>2, <1>3, <1>4, ListsAreTyped DEF ListInv

\* What the elements of a loop's list are
ItemType(s) ==
  CASE s \in {"load", "netem", "setup", "fini"} -> Hosts
    [] s = "features" -> Ifaces
    [] OTHER -> Initiators

FlowTypeOK ==
  stage \in Stages /\ todo \in Seq(ItemType(stage)) /\ verdict \in {"pass", "fail"}

ListTypeOK ==
  /\ env \in Environments
  /\ all_initiators \in Seq(Hosts) /\ all_targets \in Seq(Hosts)
  /\ host_ctrls \in [Hosts -> Seq(Hosts)] /\ all_fios \in Seq(Apps)

TgtTypeOK == tgt \in [Hosts -> {"typed", "inited", "serving", "finished"}]

LEMMA TypeParts ==
  TypeOK <=> /\ NITypeOK /\ ToolTypeOK /\ ConfTypeOK
             /\ ListTypeOK /\ TgtTypeOK /\ FlowTypeOK
<1>1. (todo \in CASE stage \in {"load", "netem", "setup", "fini"} -> Seq(Hosts)
                 [] stage = "features" -> Seq(Ifaces)
                 [] OTHER -> Seq(Initiators))
      <=> todo \in Seq(ItemType(stage))
  <2>1. CASE stage \in {"load", "netem", "setup", "fini"}
    BY <2>1 DEF ItemType
  <2>2. CASE stage = "features"
    BY <2>2 DEF ItemType
  <2>3. CASE stage \notin {"load", "netem", "setup", "fini"} /\ stage # "features"
    BY <2>3 DEF ItemType
  <2>4. QED
    BY <2>1, <2>2, <2>3
<1>2. QED
  BY <1>1, Zenon DEF TypeOK, ListTypeOK, TgtTypeOK, FlowTypeOK

LEMMA TypePartsNext ==
  NITypeOK' /\ ToolTypeOK' /\ ConfTypeOK' /\ ListTypeOK' /\ TgtTypeOK' /\ FlowTypeOK'
    => TypeOK'
BY TypeParts, PTL

LEMMA ItemsAre ==
  ASSUME TypeOK, ListInv, NEW s \in Stages
  PROVE  /\ Items(s) \in Seq(ItemType(s)) /\ Distinct(Items(s))
         /\ s = "load" => ToSet(Items(s)) = Hosts
         /\ s = "netem" => ToSet(Items(s)) = ToSet(all_initiators)
         /\ s \in {"setup", "fini"} => ToSet(Items(s)) = ToSet(all_targets)
         /\ s = "connect" => ToSet(Items(s)) = ToSet(all_initiators) \X ToSet(all_targets)
         /\ s = "features" => ToSet(Items(s)) = Ifs
         /\ s \in {"create", "disconnect"} => ToSet(Items(s)) = Listed
         /\ s \in {"start", "wait", "report"} => ToSet(Items(s)) = ToSet(all_fios)
         /\ s = "done" => ToSet(Items(s)) = {}
<1> USE ListsAreTyped
<1>1. CASE s = "load"
  BY <1>1, EndpointsAre DEF Items, ItemType
<1>2. CASE s = "netem"
  BY <1>2 DEF Items, ItemType, ListInv
<1>3. CASE s \in {"setup", "fini"}
  BY <1>3 DEF Items, ItemType, ListInv
<1>4. CASE s = "connect"
  BY <1>4, ConnectsAre DEF Items, ItemType
<1>5. CASE s = "features"
  BY <1>5, EnvIfsAre DEF Items, ItemType
<1>6. CASE s \in {"create", "disconnect"}
  BY <1>6, ControllersAre DEF Items, ItemType
<1>7. CASE s \in {"start", "wait", "report"}
  BY <1>7 DEF Items, ItemType, ListInv
<1>8. CASE s = "done"
  BY <1>8, EmptyList DEF Items, ItemType
<1>9. QED
  BY <1>1, <1>2, <1>3, <1>4, <1>5, <1>6, <1>7, <1>8 DEF Stages, Cleanup

-----------------------------------------------------------------------------
(***************************************************************************)
(* How the test moves on: with the next element, to the cleanup, or to the *)
(* next loop                                                               *)
(***************************************************************************)
LoopsOfInterest == {"load", "netem", "connect", "features", "create", "wait"}

LEMMA GoesOn ==
  ASSUME TypeOK, TodoInv, todo # <<>>, Goes, env' = env
  PROVE  /\ FlowTypeOK' /\ Distinct(todo') /\ stage' = stage /\ verdict' = verdict
         /\ Here \in Remaining /\ Here \in ItemType(stage)
         /\ Remaining' = Remaining \ {Here}
         /\ \A s \in LoopsOfInterest : \A x :
              Did(s, x)' => Did(s, x) \/ (stage = s /\ x = Here)
<1>1. FlowTypeOK /\ Distinct(todo)
  BY TypeParts DEF TodoInv
<1>2. /\ Here \in ToSet(todo) /\ Tail(todo) \in Seq(ItemType(stage)) /\ Distinct(Tail(todo))
      /\ ToSet(Tail(todo)) = ToSet(todo) \ {Here}
  <2> DEFINE T == ItemType(stage)
  <2>1. todo \in Seq(T)
    BY <1>1 DEF FlowTypeOK
  <2> HIDE DEF T
  <2>2. /\ Head(todo) \in ToSet(todo) /\ Tail(todo) \in Seq(T) /\ Distinct(Tail(todo))
        /\ ToSet(Tail(todo)) = ToSet(todo) \ {Head(todo)}
    BY <1>1, <2>1, HeadAndTail
  <2>3. QED
    BY <2>2 DEF T, Here
<1>3. Here \in ItemType(stage)
  <2> DEFINE T == ItemType(stage)
  <2>1. todo \in Seq(T)
    BY <1>1 DEF FlowTypeOK
  <2> HIDE DEF T
  <2>2. ToSet(todo) \subseteq T
    BY <2>1, ElementsAreTyped
  <2>3. QED
    BY <1>2, <2>2 DEF T
<1>4. todo' = Tail(todo) /\ stage' = stage /\ verdict' = verdict
  BY DEF Goes
<1>5. stage' \in Stages' /\ ItemType(stage') = ItemType(stage)
  BY <1>1, <1>4 DEF FlowTypeOK, Stages
<1>6. FlowTypeOK'
  BY <1>1, <1>2, <1>4, <1>5 DEF FlowTypeOK
<1>7. Remaining' = Remaining \ {Here}
  BY <1>2, <1>4 DEF Remaining
<1>8. ASSUME NEW s \in LoopsOfInterest, NEW x, Did(s, x)'
      PROVE  Did(s, x) \/ (stage = s /\ x = Here)
  <2>1. Behind(s)' = Behind(s)
    BY DEF Behind
  <2>2. QED
    BY <1>4, <1>7, <1>8, <2>1 DEF Did
<1>9. QED
  BY <1>2, <1>3, <1>4, <1>6, <1>7, <1>8 DEF Remaining

LEMMA GivesUp ==
  ASSUME TypeOK, ListInv, Fails, env' = env
  PROVE  /\ FlowTypeOK' /\ Distinct(todo') /\ stage' = "disconnect" /\ verdict' = verdict
         /\ Remaining' = Listed
         /\ \A s \in LoopsOfInterest : \A x : ~ Did(s, x)'
<1>1. stage' = "disconnect" /\ todo' = HostCtrls /\ verdict' = verdict
  BY DEF Fails, Items
<1>2. todo' \in Seq(Initiators) /\ Distinct(todo') /\ ToSet(todo') = Listed
  BY <1>1, ControllersAre
<1>3. FlowTypeOK'
  BY <1>1, <1>2, TypeParts DEF FlowTypeOK, Stages, Cleanup, ItemType
<1>4. \A s \in LoopsOfInterest : \A x : ~ Did(s, x)'
  BY <1>1 DEF LoopsOfInterest, Did, Behind
<1>5. QED
  BY <1>1, <1>2, <1>3, <1>4 DEF Remaining

LEMMA MovesOn ==
  ASSUME TypeOK, ListInv, LoopEnds
  PROVE  /\ FlowTypeOK' /\ Distinct(todo')
         /\ stage' = Following(stage) /\ Remaining = {}
         /\ stage' # "load"
         /\ stage' = "netem" => Remaining' = ToSet(all_initiators)
         /\ stage' \in {"setup", "fini"} => Remaining' = ToSet(all_targets)
         /\ stage' = "connect" => Remaining' = ToSet(all_initiators) \X ToSet(all_targets)
         /\ stage' = "features" => Remaining' = Ifs
         /\ stage' \in {"create", "disconnect"} => Remaining' = Listed
         /\ stage' \in {"start", "wait", "report"} => Remaining' = ToSet(all_fios)
         /\ \A s \in LoopsOfInterest : \A x :
              Did(s, x)' /\ (s = "netem" => env.netem # "never") =>
                Did(s, x) \/ (stage' = s /\ x \notin Remaining')
<1>1. /\ todo = <<>> /\ stage # "done" /\ stage' = Following(stage) /\ todo' = Items(stage')
      /\ env' = env
  BY DEF LoopEnds
<1>2. stage \in Stages /\ env.netem \in {"never", "before", "after"}
  BY EnvironmentIs DEF TypeOK
<1>3. stage' \in Stages /\ stage' # "load"
  BY <1>1, <1>2 DEF Stages, Cleanup, Following
<1>4. /\ todo' \in Seq(ItemType(stage')) /\ Distinct(todo')
      /\ stage' = "netem" => ToSet(todo') = ToSet(all_initiators)
      /\ stage' \in {"setup", "fini"} => ToSet(todo') = ToSet(all_targets)
      /\ stage' = "connect" => ToSet(todo') = ToSet(all_initiators) \X ToSet(all_targets)
      /\ stage' = "features" => ToSet(todo') = Ifs
      /\ stage' \in {"create", "disconnect"} => ToSet(todo') = Listed
      /\ stage' \in {"start", "wait", "report"} => ToSet(todo') = ToSet(all_fios)
  BY <1>1, <1>3, ItemsAre
<1>5. verdict' \in {"pass", "fail"} /\ Stages' = Stages
  BY <1>1 DEF TypeOK, LoopEnds, Stages
<1>6. FlowTypeOK'
  BY <1>3, <1>4, <1>5 DEF FlowTypeOK
<1>7. Remaining = {}
  BY <1>1, EmptyList DEF Remaining
<1>8. ASSUME NEW s \in LoopsOfInterest, NEW x, Did(s, x)', s = "netem" => env.netem # "never"
      PROVE  Did(s, x) \/ (stage' = s /\ x \notin Remaining')
  <2>1. Behind(s)' = Behind(s)
    BY <1>1 DEF Behind
  <2>2. stage' \in Behind(s) => stage \in Behind(s) \/ stage = s
    BY <1>1, <1>2, <1>8 DEF LoopsOfInterest, Behind, Following, Stages, Cleanup
  <2>3. QED
    BY <1>7, <1>8, <2>1, <2>2 DEF Did
<1>9. QED
  BY <1>1, <1>3, <1>4, <1>6, <1>7, <1>8 DEF Remaining

-----------------------------------------------------------------------------
(***************************************************************************)
(* What survives a move: each part of the invariant whose variables the    *)
(* step leaves alone                                                       *)
(***************************************************************************)
LEMMA ListsStay ==
  ASSUME UNCHANGED env, UNCHANGED listVars
  PROVE  /\ Listed' = Listed /\ Ifs' = Ifs /\ EnvPairs' = EnvPairs
         /\ InitHosts' = InitHosts /\ TgtHosts' = TgtHosts
         /\ ListInv => ListInv'
         /\ ListTypeOK => ListTypeOK'
BY DEF listVars, Listed, Ifs, EnvPairs, InitHosts, TgtHosts, ListInv, ListTypeOK

\* The loop goes on, and the lists stay as they are.
LEMMA GoesKeeps ==
  ASSUME MultiInv, todo # <<>>, Goes, UNCHANGED env, UNCHANGED listVars
  PROVE  /\ ListTypeOK' /\ FlowTypeOK' /\ ListInv' /\ TodoInv'
         /\ UNCHANGED niVars /\ stage # "disconnect" => NITypeOK' /\ ServerInv' /\ CtrlInv'
         /\ UNCHANGED job /\ stage \notin {"load", "connect", "create", "wait"} =>
              ToolTypeOK' /\ ProgressInv'
         /\ UNCHANGED conf /\ stage \notin {"netem", "features"} => ConfTypeOK' /\ ConfInv'
         /\ UNCHANGED tgt /\ stage # "fini" => TgtTypeOK' /\ TgtInv'
<1>1. /\ TypeOK /\ ListInv /\ TodoInv /\ ServerInv /\ CtrlInv /\ ProgressInv /\ ConfInv
      /\ TgtInv /\ env' = env
  BY DEF MultiInv
<1>2. /\ NITypeOK /\ ToolTypeOK /\ ConfTypeOK /\ ListTypeOK /\ TgtTypeOK /\ FlowTypeOK
  BY <1>1, TypeParts
<1>3. /\ FlowTypeOK' /\ Distinct(todo') /\ stage' = stage /\ verdict' = verdict
      /\ Here \in Remaining /\ Remaining' = Remaining \ {Here}
      /\ \A s \in LoopsOfInterest : \A x :
           Did(s, x)' => Did(s, x) \/ (stage = s /\ x = Here)
  BY <1>1, GoesOn
<1>4. /\ Listed' = Listed /\ Ifs' = Ifs /\ EnvPairs' = EnvPairs
      /\ InitHosts' = InitHosts /\ TgtHosts' = TgtHosts /\ ListInv' /\ ListTypeOK'
  BY <1>1, <1>2, ListsStay
<1>5. UNCHANGED <<all_initiators, all_targets, host_ctrls, all_fios>>
  BY DEF listVars
<1>6. TodoInv'
  BY <1>1, <1>3, <1>4, <1>5 DEF TodoInv
<1>7. ASSUME UNCHANGED niVars, stage # "disconnect" PROVE NITypeOK' /\ ServerInv' /\ CtrlInv'
  <2>1. UNCHANGED <<rpcs, disc, dev, rc, alive, deftimeout, pending, ctrl>>
    BY <1>7 DEF niVars
  <2>2. NITypeOK'
    BY <1>2, <2>1 DEF NITypeOK
  <2>3. ServerInv'
    BY <1>1, <1>3, <1>4, <1>7, <2>1 DEF ServerInv
  <2>4. CtrlInv'
    BY <1>1, <1>3, <1>4, <1>7, <2>1 DEF CtrlInv
  <2>5. QED
    BY <2>2, <2>3, <2>4
<1>8. ASSUME UNCHANGED job, stage \notin {"load", "connect", "create", "wait"}
      PROVE  ToolTypeOK' /\ ProgressInv'
  <2>1. \A s \in {"load", "connect", "create", "wait"} : \A x : Did(s, x)' => Did(s, x)
    BY <1>3, <1>8 DEF LoopsOfInterest
  <2>2. ProgressInv'
    BY <1>1, <1>3, <1>4, <1>5, <1>8, <2>1 DEF ProgressInv
  <2>3. QED
    BY <1>2, <1>8, <2>2 DEF ToolTypeOK
<1>9. ASSUME UNCHANGED conf, stage \notin {"netem", "features"} PROVE ConfTypeOK' /\ ConfInv'
  <2>1. \A s \in {"netem", "features"} : \A x : Did(s, x)' => Did(s, x)
    BY <1>3, <1>9 DEF LoopsOfInterest
  <2>2. ConfInv'
    BY <1>1, <1>3, <1>4, <1>5, <1>9, <2>1 DEF ConfInv, Featured, AsksNetem, Impaired
  <2>3. QED
    BY <1>2, <1>9, <2>2 DEF ConfTypeOK
<1>10. ASSUME UNCHANGED tgt, stage # "fini" PROVE TgtTypeOK' /\ TgtInv'
  BY <1>1, <1>2, <1>3, <1>5, <1>10 DEF TgtTypeOK, TgtInv
<1>11. QED
  BY <1>3, <1>4, <1>6, <1>7, <1>8, <1>9, <1>10

\* A call of the body fails, and the lists stay as they are.
LEMMA FailsKeeps ==
  ASSUME MultiInv, stage \notin Cleanup, Fails, UNCHANGED env, UNCHANGED listVars
  PROVE  /\ ListTypeOK' /\ FlowTypeOK' /\ ListInv' /\ TodoInv'
         /\ UNCHANGED niVars => NITypeOK' /\ ServerInv' /\ CtrlInv'
         /\ UNCHANGED job => ToolTypeOK' /\ ProgressInv'
         /\ UNCHANGED conf => ConfTypeOK' /\ ConfInv'
         /\ UNCHANGED tgt => TgtTypeOK' /\ TgtInv'
<1>1. /\ TypeOK /\ ListInv /\ TodoInv /\ ServerInv /\ CtrlInv /\ ProgressInv /\ ConfInv
      /\ TgtInv /\ env' = env
  BY DEF MultiInv
<1>2. /\ NITypeOK /\ ToolTypeOK /\ ConfTypeOK /\ ListTypeOK /\ TgtTypeOK /\ FlowTypeOK
  BY <1>1, TypeParts
<1>3. /\ FlowTypeOK' /\ Distinct(todo') /\ stage' = "disconnect" /\ verdict' = verdict
      /\ Remaining' = Listed /\ \A s \in LoopsOfInterest : \A x : ~ Did(s, x)'
  BY <1>1, GivesUp
<1>4. /\ Listed' = Listed /\ Ifs' = Ifs /\ EnvPairs' = EnvPairs
      /\ InitHosts' = InitHosts /\ TgtHosts' = TgtHosts /\ ListInv' /\ ListTypeOK'
  BY <1>1, <1>2, ListsStay
<1>5. UNCHANGED <<all_initiators, all_targets, host_ctrls, all_fios>>
  BY DEF listVars
<1>6. verdict = "fail" /\ stage' \in Cleanup
  BY <1>1, <1>2, <1>3 DEF ProgressInv, FlowTypeOK, Cleanup
<1>7. TodoInv'
  BY <1>3, <1>4 DEF TodoInv
<1>8. ASSUME UNCHANGED niVars PROVE NITypeOK' /\ ServerInv' /\ CtrlInv'
  <2>1. UNCHANGED <<rpcs, disc, dev, rc, alive, deftimeout, pending, ctrl>>
    BY <1>8 DEF niVars
  <2>2. NITypeOK'
    BY <1>2, <2>1 DEF NITypeOK
  <2>3. ServerInv'
    BY <1>1, <1>4, <1>6, <2>1 DEF ServerInv
  <2>4. CtrlInv'
    BY <1>1, <1>3, <1>4, <1>6, <2>1 DEF CtrlInv
  <2>5. QED
    BY <2>2, <2>3, <2>4
<1>9. ASSUME UNCHANGED job PROVE ToolTypeOK' /\ ProgressInv'
  <2>1. ProgressInv'
    BY <1>1, <1>3, <1>4, <1>5, <1>6, <1>9 DEF ProgressInv, LoopsOfInterest
  <2>2. QED
    BY <1>2, <1>9, <2>1 DEF ToolTypeOK
<1>10. ASSUME UNCHANGED conf PROVE ConfTypeOK' /\ ConfInv'
  <2>1. ConfInv'
    BY <1>1, <1>3, <1>4, <1>5, <1>6, <1>10
       DEF ConfInv, Featured, AsksNetem, Impaired, LoopsOfInterest
  <2>2. QED
    BY <1>2, <1>10, <2>1 DEF ConfTypeOK
<1>11. ASSUME UNCHANGED tgt PROVE TgtTypeOK' /\ TgtInv'
  BY <1>1, <1>2, <1>3, <1>5, <1>11 DEF TgtTypeOK, TgtInv
<1>12. QED
  BY <1>3, <1>4, <1>7, <1>8, <1>9, <1>10, <1>11

\* A loop ends; nothing but its place in the program changes.
LEMMA LoopEndsKeeps ==
  ASSUME MultiInv, LoopEnds PROVE MultiInv'
<1>1. /\ TypeOK /\ ListInv /\ TodoInv /\ ServerInv /\ CtrlInv /\ ProgressInv /\ ConfInv
      /\ TgtInv /\ env' = env
  BY DEF MultiInv, LoopEnds
<1>2. /\ NITypeOK /\ ToolTypeOK /\ ConfTypeOK /\ ListTypeOK /\ TgtTypeOK /\ FlowTypeOK
  BY <1>1, TypeParts
<1>3. /\ FlowTypeOK' /\ Distinct(todo') /\ stage' = Following(stage) /\ Remaining = {}
      /\ stage' # "load"
      /\ stage' = "netem" => Remaining' = ToSet(all_initiators)
      /\ stage' \in {"setup", "fini"} => Remaining' = ToSet(all_targets)
      /\ stage' = "connect" => Remaining' = ToSet(all_initiators) \X ToSet(all_targets)
      /\ stage' = "features" => Remaining' = Ifs
      /\ stage' \in {"create", "disconnect"} => Remaining' = Listed
      /\ stage' \in {"start", "wait", "report"} => Remaining' = ToSet(all_fios)
  BY <1>1, MovesOn
<1>4. \A s \in LoopsOfInterest : \A x :
        Did(s, x)' /\ (s = "netem" => env.netem # "never") =>
          Did(s, x) \/ (stage' = s /\ x \notin Remaining')
  BY <1>1, MovesOn
<1>5. /\ Listed' = Listed /\ Ifs' = Ifs /\ EnvPairs' = EnvPairs
      /\ InitHosts' = InitHosts /\ TgtHosts' = TgtHosts /\ ListInv' /\ ListTypeOK'
  BY <1>1, <1>2, ListsStay DEF LoopEnds
<1>6. UNCHANGED <<rpcs, disc, dev, rc, alive, deftimeout, pending, ctrl, job, conf, tgt,
                  all_initiators, all_targets, host_ctrls, all_fios>>
  BY DEF LoopEnds, niVars, listVars
<1>7. stage \in Stages /\ stage # "done"
  BY <1>2 DEF FlowTypeOK, LoopEnds
<1>8. /\ stage' \in Cleanup <=> stage \in {"report", "disconnect", "fini"}
      /\ stage' = "disconnect" <=> stage = "report"
      /\ stage' = "fini" <=> stage = "disconnect"
      /\ stage' = "done" <=> stage = "fini"
      /\ stage' = "create" <=> stage = "features"
      /\ stage' = "wait" => stage = "start"
      /\ stage' = "setup" => stage \in {"load", "netem"}
  BY <1>3, <1>7 DEF Stages, Cleanup, Following
<1>9. verdict' = IF stage = "report" THEN "pass" ELSE verdict
  BY DEF LoopEnds
<1>10. \A p \in EnvPairs : Did("wait", p)' => Did("wait", p) \/ (stage' = "wait" /\ p \notin Remaining')
  BY <1>4 DEF LoopsOfInterest
<1>11. TodoInv'
  <2>1. stage' = "create" => ToSet(all_fios) = {}
    BY <1>1, <1>8, EmptyList DEF ConfInv, Cleanup
  <2>2. QED
    BY <1>1, <1>3, <1>5, <1>6, <2>1 DEF TodoInv
<1>12. ServerInv'
  <2> SUFFICES ASSUME NEW s \in Servers, pending[s] # Null
               PROVE  /\ RootOf[pending[s]] = s /\ stage' \in Cleanup
                      /\ stage' = "disconnect" => pending[s] \notin Remaining'
    BY <1>1, <1>5, <1>6 DEF ServerInv
  <2>1. RootOf[pending[s]] = s /\ stage \in Cleanup
    BY <1>1 DEF ServerInv
  <2>2. QED
    BY <1>7, <1>8, <2>1 DEF Cleanup
<1>13. CtrlInv'
  <2> SUFFICES ASSUME NEW p \in Initiators
               PROVE  /\ ctrl[p] # "absent" \/ dev[p] => p \in Listed
                      /\ ctrl[p] # "absent" /\ ~dev[p] => stage' \in Cleanup /\ verdict' = "fail"
                      /\ stage' \in Cleanup /\ dev[p] /\ rc[p] # "error" =>
                           stage' = "disconnect" /\ p \in Remaining'
    BY <1>5, <1>6 DEF CtrlInv
  <2>1. ctrl[p] # "absent" \/ dev[p] => p \in Listed
    BY <1>1 DEF CtrlInv
  <2>2. ASSUME ctrl[p] # "absent", ~dev[p] PROVE stage' \in Cleanup /\ verdict' = "fail"
    <3>1. stage \in Cleanup /\ verdict = "fail"
      BY <1>1, <2>2 DEF CtrlInv
    <3>2. QED
      BY <1>7, <1>8, <1>9, <3>1 DEF Cleanup
  <2>3. ASSUME stage' \in Cleanup, dev[p], rc[p] # "error"
        PROVE  stage' = "disconnect" /\ p \in Remaining'
    <3>1. stage \notin Cleanup
      BY <1>1, <1>3, <2>3 DEF CtrlInv
    <3>2. stage = "report" /\ stage' = "disconnect"
      BY <1>8, <2>3, <3>1 DEF Cleanup
    <3>3. QED
      BY <1>3, <2>1, <2>3, <3>2
  <2>4. QED
    BY <2>1, <2>2, <2>3
<1>14. ProgressInv'
  <2>1. \A h : Did("load", h)' => Did("load", h)
    BY <1>3, <1>4 DEF LoopsOfInterest
  <2>2. \A h \in InitHosts : Did("load", h)' => h \in ToSet(all_initiators)
    BY <1>1, <2>1 DEF ProgressInv
  <2>3. \A h \in TgtHosts : Did("load", h)' => h \in ToSet(all_targets)
    BY <1>1, <2>1 DEF ProgressInv
  <2>4. ASSUME NEW p \in EnvPairs, Did("connect", p)' PROVE p \in Listed
    <3>1. CASE Did("connect", p)
      BY <1>1, <3>1 DEF ProgressInv
    <3>2. CASE stage' = "connect" /\ p \notin Remaining'
      <4>1. \A h : Did("load", h)
        BY <1>1, <2>1, <3>2 DEF Did, Behind
      <4>2. p[1] \in ToSet(all_initiators) /\ p[2] \in ToSet(all_targets)
            /\ p \in ToSet(all_initiators) \X ToSet(all_targets)
        BY <1>1, <4>1 DEF ProgressInv, EnvPairs, InitHosts, TgtHosts
      <4>3. QED
        BY <1>3, <3>2, <4>2
    <3>3. QED
      BY <1>4, <2>4, <3>1, <3>2 DEF LoopsOfInterest
  <2>5. ASSUME NEW p \in EnvPairs, Did("create", p)' PROVE p \in ToSet(all_fios)
    <3>1. CASE Did("create", p)
      BY <1>1, <3>1 DEF ProgressInv
    <3>2. CASE stage' = "create" /\ p \notin Remaining'
      <4>1. Did("connect", p)
        BY <1>8, <3>2 DEF Did, Behind
      <4>2. QED
        BY <1>1, <1>3, <3>2, <4>1 DEF ProgressInv
    <3>3. QED
      BY <1>4, <2>5, <3>1, <3>2 DEF LoopsOfInterest
  <2>6. ASSUME NEW p \in EnvPairs, Did("wait", p)' \/ verdict' = "pass" PROVE job[p] = "ended"
    <3>1. CASE Did("wait", p) \/ verdict = "pass"
      BY <1>1, <3>1 DEF ProgressInv
    <3>2. CASE stage' = "wait" /\ p \notin Remaining'
      <4>1. Did("create", p)
        BY <1>8, <3>2 DEF Did, Behind
      <4>2. QED
        BY <1>1, <1>3, <3>2, <4>1 DEF ProgressInv
    <3>3. CASE stage = "report"
      <4>1. Did("wait", p)
        BY <3>3 DEF Did, Behind
      <4>2. QED
        BY <1>1, <4>1 DEF ProgressInv
    <3>4. QED
      BY <1>9, <1>10, <2>6, <3>1, <3>2, <3>3
  <2>7. \A a \in Apps : job[a] # "none" => a \in ToSet(all_fios)
    BY <1>1 DEF ProgressInv
  <2>8. verdict' = "pass" => stage' \in Cleanup
    BY <1>1, <1>7, <1>8, <1>9 DEF ProgressInv, Cleanup
  <2>9. QED
    BY <1>5, <1>6, <2>2, <2>3, <2>4, <2>5, <2>6, <2>7, <2>8 DEF ProgressInv
<1>15. ConfInv'
  <2>1. all_fios # <<>> => stage' \in {"create", "start", "wait", "report"} \cup Cleanup
    BY <1>1, <1>3, <1>7 DEF ConfInv, Following, Stages, Cleanup
  <2>2. ASSUME NEW f \in Ifs, Did("features", f)' \/ all_fios # <<>> PROVE Featured(f)
    BY <1>1, <1>3, <1>4, <2>2 DEF ConfInv, LoopsOfInterest
  <2>3. ASSUME env.netem # "never", NEW i \in InitHosts, Did("netem", i)' \/ all_fios # <<>>
        PROVE  Impaired(<<"init", i>>)
    <3>1. CASE Did("netem", i) \/ all_fios # <<>>
      BY <1>1, <2>3, <3>1 DEF ConfInv
    <3>2. CASE stage' = "netem" /\ i \notin Remaining'
      <4>1. Did("load", i)
        BY <1>3, <1>7, <3>2 DEF Did, Behind, Following, Stages, Cleanup
      <4>2. QED
        BY <1>1, <1>3, <3>2, <4>1 DEF ProgressInv
    <3>3. QED
      BY <1>4, <2>3, <3>1, <3>2 DEF LoopsOfInterest
  <2>4. \A f : Featured(f)' <=> Featured(f)
    BY <1>6 DEF Featured
  <2>5. \A f : /\ Impaired(f)' <=> Impaired(f)
               /\ AsksNetem(f, netem_opts)' <=> AsksNetem(f, netem_opts)
    BY <1>6 DEF Impaired, AsksNetem
  <2>6. \A f \in Ifaces : conf[f]["enabled"] => AsksNetem(f, netem_opts)
    BY <1>1 DEF ConfInv
  <2>7. QED
    BY <1>1, <1>5, <1>6, <2>1, <2>2, <2>3, <2>4, <2>5, <2>6 DEF ConfInv
<1>16. TgtInv'
  BY <1>1, <1>3, <1>6, <1>8 DEF TgtInv
<1>17. NITypeOK' /\ ToolTypeOK' /\ ConfTypeOK' /\ TgtTypeOK'
  BY <1>2, <1>6 DEF NITypeOK, ToolTypeOK, ConfTypeOK, TgtTypeOK
<1>18. TypeOK'
  <2>1. /\ NITypeOK' /\ ToolTypeOK' /\ ConfTypeOK' /\ ListTypeOK' /\ TgtTypeOK' /\ FlowTypeOK'
    BY <1>3, <1>5, <1>17
  <2>2. QED
    BY <2>1, TypePartsNext
<1>19. QED
  BY <1>5, <1>11, <1>12, <1>13, <1>14, <1>15, <1>16, <1>18 DEF MultiInv

LEMMA MultiParts ==
  /\ NITypeOK' /\ ToolTypeOK' /\ ConfTypeOK' /\ ListTypeOK' /\ TgtTypeOK' /\ FlowTypeOK'
  /\ ListInv' /\ TodoInv' /\ ServerInv' /\ CtrlInv' /\ ProgressInv' /\ ConfInv' /\ TgtInv'
  => MultiInv'
BY TypePartsNext DEF MultiInv

LEMMA PartsOf ==
  MultiInv =>
    /\ NITypeOK /\ ToolTypeOK /\ ConfTypeOK /\ ListTypeOK /\ TgtTypeOK /\ FlowTypeOK /\ TypeOK
    /\ ListInv /\ TodoInv /\ ServerInv /\ CtrlInv /\ ProgressInv /\ ConfInv /\ TgtInv
BY TypeParts DEF MultiInv

-----------------------------------------------------------------------------
(***************************************************************************)
(* The interfaces                                                          *)
(***************************************************************************)
NetemSettings == {"enabled", "kind", "delay", "loss", "corruption"}

LEMMA SettingsAre ==
  /\ DOMAIN Untouched = IfFeatureNames \cup NetemSettings
  /\ IfFeatureNames \cap NetemSettings = {}
<1>1. DOMAIN Untouched = IfFeatureNames \cup NetemSettings
  BY DEF Untouched, NetemNames, QdiscNames, NetemSettings
<1>2. DOMAIN TsoFeatures = 1..4
  BY DEF TsoFeatures
<1>3. \A k \in 1..4 : k = 1 \/ k = 2 \/ k = 3 \/ k = 4
  OBVIOUS
<1>4. \A k \in 1..4 : TsoFeatures[k] \notin NetemSettings
  BY <1>3 DEF TsoFeatures, NetemSettings
<1>5. QED
  BY <1>1, <1>2, <1>4 DEF IfFeatureNames, NetemSettings

LEMMA UntouchedIs == Untouched["enabled"] = FALSE /\ Untouched["kind"] = "none"
<1>1. "enabled" \in DOMAIN Untouched /\ "kind" \in DOMAIN Untouched
  BY DEF Untouched, QdiscNames
<1>2. /\ "enabled" # "kind" /\ "kind" # "enabled"
      /\ "enabled" \notin NetemNames \cup {"mtu"} /\ "kind" \notin NetemNames \cup {"mtu"}
  BY DEF NetemNames
<1>3. Untouched["enabled"] = FALSE
  BY <1>1, <1>2, Zenon DEF Untouched
<1>4. Untouched["kind"] = "none"
  BY <1>1, <1>2, Zenon DEF Untouched
<1>5. QED
  BY <1>3, <1>4

LEMMA OptionsAre ==
  /\ sys_opts.mtu = Params["mtu"] /\ sys_opts.lro = Params["lro"]
<1>1. FeatureOpts(Params) = {[mtu |-> Params["mtu"], tso |-> Params["tso"], lro |-> Params["lro"]]}
  BY MultiAssumption DEF FeatureOpts
<1>2. sys_opts = [mtu |-> Params["mtu"], tso |-> Params["tso"], lro |-> Params["lro"]]
  BY <1>1 DEF sys_opts
<1>3. QED
  BY <1>2

\* One interface gets new settings, for the same names.
LEMMA WriteOne ==
  ASSUME ConfTypeOK, NEW f \in Ifaces, NEW settings,
         conf' = [conf EXCEPT ![f] = settings], DOMAIN settings = DOMAIN conf[f],
         settings["enabled"] \in BOOLEAN, settings["kind"] \in {"none", "netem"}
  PROVE  /\ ConfTypeOK' /\ conf'[f] = settings
         /\ \A g \in Ifaces \ {f} : conf'[g] = conf[g]
<1>1. DOMAIN conf = Ifaces /\ DOMAIN conf' = Ifaces
  BY DEF ConfTypeOK
<1>2. conf'[f] = settings /\ \A g \in Ifaces \ {f} : conf'[g] = conf[g]
  BY <1>1
<1>3. ASSUME NEW g \in Ifaces
      PROVE  /\ DOMAIN conf'[g] = DOMAIN Untouched
             /\ conf'[g]["enabled"] \in BOOLEAN
             /\ conf'[g]["kind"] \in {"none", "netem"}
  <2>1. CASE g = f
    <3>1. DOMAIN conf[f] = DOMAIN Untouched
      BY DEF ConfTypeOK
    <3>2. QED
      BY <1>2, <2>1, <3>1
  <2>2. CASE g # f
    BY <1>2, <2>2 DEF ConfTypeOK
  <2>3. QED
    BY <2>1, <2>2
<1>4. QED
  BY <1>1, <1>2, <1>3 DEF ConfTypeOK

\* Netem is applied to an interface, altogether or in part.
LEMMA NetemOnOne ==
  ASSUME ConfTypeOK, NEW f \in Ifaces, NEW n \in 0..Len(NetemCalls(netem_opts)),
         conf' = [conf EXCEPT ![f] = AfterCalls(@, NetemCalls(netem_opts))[n]],
         conf[f]["enabled"] => AsksNetem(f, netem_opts)
  PROVE  /\ ConfTypeOK'
         /\ \A g \in Ifaces \ {f} : conf'[g] = conf[g]
         /\ conf'[f]["enabled"] => AsksNetem(f, netem_opts)'
         /\ n = Len(NetemCalls(netem_opts)) => Impaired(f)'
<1> DEFINE calls == NetemCalls(netem_opts)
           after == AfterCalls(conf[f], calls)[n]
<1>1. /\ DOMAIN conf[f] = DOMAIN Untouched
      /\ conf[f]["enabled"] \in BOOLEAN /\ conf[f]["kind"] \in {"none", "netem"}
  BY DEF ConfTypeOK
<1>2. NetemSettings \subseteq DOMAIN conf[f]
  BY <1>1, SettingsAre
<1>3. /\ DOMAIN after = DOMAIN conf[f]
      /\ n = 0 => \A name \in DOMAIN conf[f] : after[name] = conf[f][name]
      /\ after["kind"] \in {conf[f]["kind"], "netem"}
      /\ n # 0 => after["enabled"] = (n = Len(calls))
      /\ n = Len(calls) =>
           /\ after["kind"] = "netem" /\ after["delay"] = TE_MS2US(netem_opts.delay)
           /\ after["loss"] = netem_opts.loss /\ after["corruption"] = netem_opts.corruption
  BY <1>2, NetemWritten DEF NetemSettings
<1>4. n = Len(calls) => n # 0
  BY DEF NetemCalls
<1> HIDE DEF after, calls
<1>5. after["enabled"] \in BOOLEAN /\ after["kind"] \in {"none", "netem"}
  <2>1. CASE n = 0
    BY <1>1, <1>2, <1>3, <2>1 DEF NetemSettings
  <2>2. CASE n # 0
    <3>1. after["kind"] \in {"none", "netem"}
      BY <1>1, <1>3
    <3>2. after["enabled"] \in BOOLEAN
      BY <1>3, <2>2, Zenon
    <3>3. QED
      BY <3>1, <3>2
  <2>3. QED
    BY <2>1, <2>2
<1>6. conf' = [conf EXCEPT ![f] = after]
  BY DEF after, calls
<1>7. /\ ConfTypeOK' /\ conf'[f] = after
      /\ \A g \in Ifaces \ {f} : conf'[g] = conf[g]
  BY <1>3, <1>5, <1>6, WriteOne
<1>8. ASSUME conf'[f]["enabled"] PROVE AsksNetem(f, netem_opts)'
  <2>1. CASE n = 0
    <3>1. conf[f]["enabled"]
      BY <1>2, <1>3, <1>7, <1>8, <2>1 DEF NetemSettings
    <3>2. QED
      BY <1>2, <1>3, <1>7, <2>1, <3>1 DEF AsksNetem, NetemSettings
  <2>2. CASE n # 0
    <3>1. n = Len(calls)
      BY <1>3, <1>7, <1>8, <2>2, Zenon
    <3>2. QED
      BY <1>3, <1>7, <3>1 DEF AsksNetem
  <2>3. QED
    BY <2>1, <2>2
<1>9. ASSUME n = Len(calls) PROVE Impaired(f)'
  <2>1. after["enabled"] = TRUE
    BY <1>3, <1>4, <1>9, Zenon
  <2>2. QED
    BY <1>3, <1>7, <1>9, <2>1 DEF Impaired
<1>10. QED
  BY <1>7, <1>8, <1>9 DEF calls

\* The features are applied to an interface, altogether or in part.
LEMMA FeaturesOnOne ==
  ASSUME ConfTypeOK, NEW f \in Ifaces, NEW n \in 0..Len(FeatureCalls(sys_opts)),
         conf' = [conf EXCEPT ![f] = AfterCalls(@, FeatureCalls(sys_opts))[n]]
  PROVE  /\ ConfTypeOK'
         /\ \A g \in Ifaces \ {f} : conf'[g] = conf[g]
         /\ \A name \in NetemSettings : conf'[f][name] = conf[f][name]
         /\ n = Len(FeatureCalls(sys_opts)) => Featured(f)'
<1> DEFINE calls == FeatureCalls(sys_opts)
           after == AfterCalls(conf[f], calls)[n]
<1>1. /\ DOMAIN conf[f] = DOMAIN Untouched
      /\ conf[f]["enabled"] \in BOOLEAN /\ conf[f]["kind"] \in {"none", "netem"}
  BY DEF ConfTypeOK
<1>2. /\ DOMAIN after = DOMAIN conf[f]
      /\ \A name \in DOMAIN conf[f] :
           /\ name \notin IfFeatureNames => after[name] = conf[f][name]
           /\ n = Len(calls) /\ name \in IfFeatureNames =>
                after[name] = IF name = "mtu" THEN sys_opts.mtu ELSE sys_opts.lro
  BY FeaturesWritten
<1>3. conf' = [conf EXCEPT ![f] = after]
  OBVIOUS
<1> HIDE DEF after, calls
<1>4. \A name \in NetemSettings : after[name] = conf[f][name]
  BY <1>1, <1>2, SettingsAre
<1>5. /\ ConfTypeOK' /\ conf'[f] = after
      /\ \A g \in Ifaces \ {f} : conf'[g] = conf[g]
  <2>1. after["enabled"] \in BOOLEAN /\ after["kind"] \in {"none", "netem"}
    BY <1>1, <1>4 DEF NetemSettings
  <2>2. QED
    BY <1>2, <1>3, <2>1, WriteOne
<1>6. n = Len(calls) => Featured(f)'
  BY <1>1, <1>2, <1>5, SettingsAre, OptionsAre DEF Featured
<1>7. QED
  BY <1>4, <1>5, <1>6 DEF calls

LEMMA HeadIsTyped ==
  ASSUME TypeOK, TodoInv, todo # <<>>
  PROVE  /\ Here \in Remaining /\ Here \in ItemType(stage)
         /\ stage \in {"load", "netem", "setup", "fini"} => Here \in Hosts
         /\ stage = "features" => Here \in Ifaces
         /\ stage \in {"connect", "create", "start", "wait", "report", "disconnect"} =>
              Here \in Initiators
<1> DEFINE T == ItemType(stage)
<1>1. todo \in Seq(T) /\ Distinct(todo)
  BY TypeParts DEF TodoInv, FlowTypeOK
<1>2. Here \in Remaining /\ Here \in T
  <2> HIDE DEF T
  <2>1. Head(todo) \in ToSet(todo) /\ ToSet(todo) \subseteq T
    BY <1>1, HeadAndTail, ElementsAreTyped
  <2>2. QED
    BY <2>1 DEF Here, Remaining
<1>3. QED
  BY <1>2 DEF ItemType

-----------------------------------------------------------------------------
(***************************************************************************)
(* The steps of the body that leave the lists alone                        *)
(***************************************************************************)
LEMMA NetemKeeps ==
  ASSUME MultiInv, NetemStep PROVE MultiInv'
<1> DEFINE calls == NetemCalls(netem_opts)
<1>0. PICK f : f = <<"init", Here>>
  OBVIOUS
<1>1. /\ stage = "netem" /\ todo # <<>> /\ stage \notin Cleanup
      /\ UNCHANGED niVars /\ UNCHANGED job /\ UNCHANGED tgt
      /\ UNCHANGED env /\ UNCHANGED listVars /\ UNCHANGED all_fios
  BY DEF NetemStep, At, Cleanup, listVars
<1>2. /\ ConfTypeOK /\ ConfInv /\ FlowTypeOK /\ TypeOK /\ TodoInv /\ ListInv /\ env \in Environments
  BY PartsOf DEF ListTypeOK
<1>3. all_fios = <<>> /\ \A x : ~ Did("features", x)
  BY <1>1, <1>2 DEF ConfInv, Did, Behind, Cleanup
<1>4. /\ Ifs' = Ifs /\ InitHosts' = InitHosts /\ InitHosts \subseteq Hosts
  BY <1>1, <1>2, ListsStay, EnvironmentIs
<1>5. \A i \in Hosts : <<"init", i>> \in Ifaces
  BY MultiAssumption
<1>6. ASSUME f \in Ifaces, NEW n \in 0..Len(calls),
             conf' = [conf EXCEPT ![f] = AfterCalls(@, calls)[n]]
      PROVE  /\ ConfTypeOK' /\ \A g \in Ifaces \ {f} : conf'[g] = conf[g]
             /\ \A g \in Ifaces : conf'[g]["enabled"] => AsksNetem(g, netem_opts)'
             /\ n = Len(calls) => Impaired(f)'
  <2>1. conf[f]["enabled"] => AsksNetem(f, netem_opts)
    BY <1>2, <1>6 DEF ConfInv
  <2>2. /\ ConfTypeOK' /\ \A g \in Ifaces \ {f} : conf'[g] = conf[g]
        /\ conf'[f]["enabled"] => AsksNetem(f, netem_opts)'
        /\ n = Len(calls) => Impaired(f)'
    BY <1>2, <1>6, <2>1, NetemOnOne
  <2>3. ASSUME NEW g \in Ifaces, conf'[g]["enabled"] PROVE AsksNetem(g, netem_opts)'
    <3>1. CASE g = f
      BY <2>2, <2>3, <3>1
    <3>2. CASE g # f
      <4>1. conf'[g] = conf[g]
        BY <2>2, <3>2
      <4>2. AsksNetem(g, netem_opts)
        BY <1>2, <2>3, <4>1 DEF ConfInv
      <4>3. QED
        BY <4>1, <4>2 DEF AsksNetem
    <3>3. QED
      BY <3>1, <3>2
  <2>4. QED
    BY <2>2, <2>3
<1>7. Len(calls) = 6
  BY DEF NetemCalls
<1>8. CASE Applied(f, calls) /\ Goes
  <2>1. /\ stage' = stage /\ Here \in Hosts
        /\ \A s \in LoopsOfInterest : \A x :
             Did(s, x)' => Did(s, x) \/ (stage = s /\ x = Here)
    <3>1. Here \in ItemType(stage) /\ stage' = stage
          /\ \A s \in LoopsOfInterest : \A x :
               Did(s, x)' => Did(s, x) \/ (stage = s /\ x = Here)
      BY <1>1, <1>2, <1>8, GoesOn
    <3>2. QED
      BY <1>1, <3>1 DEF ItemType
  <2>2. /\ ConfTypeOK' /\ \A g \in Ifaces \ {f} : conf'[g] = conf[g]
        /\ \A g \in Ifaces : conf'[g]["enabled"] => AsksNetem(g, netem_opts)'
        /\ Impaired(f)'
    <3>1. Len(calls) \in 0..Len(calls) /\ f \in Ifaces
      BY <1>0, <1>5, <1>7, <2>1
    <3>2. conf' = [conf EXCEPT ![f] = AfterCalls(@, calls)[Len(calls)]]
      BY <1>8 DEF Applied
    <3> HIDE DEF calls
    <3>3. QED
      BY <1>6, <3>1, <3>2
  <2>3. ASSUME NEW i \in InitHosts, env.netem # "never", Did("netem", i)'
        PROVE  Impaired(<<"init", i>>)'
    <3>1. CASE i = Here
      BY <1>0, <2>2, <3>1
    <3>2. CASE i # Here
      <4>1. Did("netem", i)
        BY <2>1, <2>3, <3>2 DEF LoopsOfInterest
      <4>2. Impaired(<<"init", i>>)
        BY <1>2, <2>3, <4>1 DEF ConfInv
      <4>3. <<"init", i>> \in Ifaces \ {f}
        BY <1>0, <1>4, <1>5, <3>2
      <4>4. conf'[<<"init", i>>] = conf[<<"init", i>>]
        BY <2>2, <4>3
      <4>5. QED
        BY <4>2, <4>4 DEF Impaired
    <3>3. QED
      BY <3>1, <3>2
  <2>4. \A x : ~ Did("features", x)'
    BY <1>1, <1>3, <2>1 DEF LoopsOfInterest
  <2>5. ConfInv'
    BY <1>1, <1>3, <1>4, <2>2, <2>3, <2>4 DEF ConfInv
  <2>6. QED
    BY <1>1, <1>8, <2>2, <2>5, GoesKeeps, MultiParts
<1>9. CASE ApplyFails(f, calls) /\ Fails
  <2>1. Here \in Hosts
    BY <1>1, <1>2, HeadIsTyped
  <2>2. /\ ConfTypeOK'
        /\ \A g \in Ifaces : conf'[g]["enabled"] => AsksNetem(g, netem_opts)'
    <3>1. PICK n \in 0..(Len(calls) - 1) :
            conf' = [conf EXCEPT ![f] = AfterCalls(@, calls)[n]]
      BY <1>9 DEF ApplyFails
    <3>2. n \in 0..Len(calls) /\ f \in Ifaces
      BY <1>0, <1>5, <1>7, <2>1
    <3> HIDE DEF calls
    <3>3. QED
      BY <1>6, <3>1, <3>2
  <2>3. \A s \in LoopsOfInterest : \A x : ~ Did(s, x)'
    BY <1>1, <1>2, <1>9, GivesUp
  <2>4. ConfInv'
    BY <1>1, <1>3, <1>4, <2>2, <2>3 DEF ConfInv, LoopsOfInterest
  <2>5. QED
    BY <1>1, <1>9, <2>2, <2>4, FailsKeeps, MultiParts
<1>10. QED
  BY <1>0, <1>8, <1>9 DEF NetemStep

LEMMA FeaturesKeeps ==
  ASSUME MultiInv, FeaturesStep PROVE MultiInv'
<1> DEFINE calls == FeatureCalls(sys_opts)
<1>0. PICK f : f = Here
  OBVIOUS
<1>1. /\ stage = "features" /\ todo # <<>> /\ stage \notin Cleanup
      /\ UNCHANGED niVars /\ UNCHANGED job /\ UNCHANGED tgt
      /\ UNCHANGED env /\ UNCHANGED listVars /\ UNCHANGED all_fios
  BY DEF FeaturesStep, At, Cleanup, listVars
<1>2. /\ ConfTypeOK /\ ConfInv /\ FlowTypeOK /\ TypeOK /\ TodoInv /\ ListInv /\ env \in Environments
  BY PartsOf DEF ListTypeOK
<1>3. all_fios = <<>>
  BY <1>1, <1>2 DEF ConfInv, Cleanup
<1>4. /\ Ifs' = Ifs /\ InitHosts' = InitHosts /\ InitHosts \subseteq Hosts /\ Ifs \subseteq Ifaces
  BY <1>1, <1>2, ListsStay, EnvironmentIs
<1>5. f \in Ifaces
  BY <1>0, <1>1, <1>2, HeadIsTyped
<1>6. ASSUME NEW n \in 0..Len(calls),
             conf' = [conf EXCEPT ![f] = AfterCalls(@, calls)[n]]
      PROVE  /\ ConfTypeOK' /\ \A g \in Ifaces \ {f} : conf'[g] = conf[g]
             /\ \A g \in Ifaces : \A name \in NetemSettings : conf'[g][name] = conf[g][name]
             /\ n = Len(calls) => Featured(f)'
  <2>1. /\ ConfTypeOK' /\ \A g \in Ifaces \ {f} : conf'[g] = conf[g]
        /\ \A name \in NetemSettings : conf'[f][name] = conf[f][name]
        /\ n = Len(calls) => Featured(f)'
    BY <1>2, <1>5, <1>6, FeaturesOnOne
  <2>2. QED
    BY <2>1
<1>7. ASSUME \A g \in Ifaces : \A name \in NetemSettings : conf'[g][name] = conf[g][name]
      PROVE  \A g \in Ifaces : /\ Impaired(g)' <=> Impaired(g)
                               /\ AsksNetem(g, netem_opts)' <=> AsksNetem(g, netem_opts)
                               /\ conf'[g]["enabled"] = conf[g]["enabled"]
  BY <1>7 DEF NetemSettings, Impaired, AsksNetem
<1>8. \A i \in InitHosts : <<"init", i>> \in Ifaces
  BY <1>4, MultiAssumption
<1>9. Len(calls) = 6
  BY FeatureCallsAre
<1>10. CASE Applied(f, calls) /\ Goes
  <2>1. /\ stage' = stage
        /\ \A s \in LoopsOfInterest : \A x :
             Did(s, x)' => Did(s, x) \/ (stage = s /\ x = f)
    BY <1>0, <1>1, <1>2, <1>10, GoesOn
  <2>2. /\ ConfTypeOK' /\ \A g \in Ifaces \ {f} : conf'[g] = conf[g]
        /\ \A g \in Ifaces : \A name \in NetemSettings : conf'[g][name] = conf[g][name]
        /\ Featured(f)'
    <3>1. Len(calls) \in 0..Len(calls)
      BY <1>9
    <3>2. conf' = [conf EXCEPT ![f] = AfterCalls(@, calls)[Len(calls)]]
      BY <1>10 DEF Applied
    <3> HIDE DEF calls
    <3>3. QED
      BY <1>6, <3>1, <3>2
  <2>3. ASSUME NEW g \in Ifs, Did("features", g)' PROVE Featured(g)'
    <3>1. CASE g = f
      BY <2>2, <3>1
    <3>2. CASE g # f
      <4>1. Did("features", g)
        BY <2>1, <2>3, <3>2 DEF LoopsOfInterest
      <4>2. Featured(g)
        BY <1>2, <4>1 DEF ConfInv
      <4>3. conf'[g] = conf[g]
        BY <1>4, <2>2, <3>2
      <4>4. QED
        BY <4>2, <4>3 DEF Featured
    <3>3. QED
      BY <3>1, <3>2
  <2>4. \A x : Did("netem", x)' => Did("netem", x)
    BY <1>1, <2>1 DEF LoopsOfInterest
  <2>5. ConfInv'
    BY <1>1, <1>2, <1>3, <1>4, <1>7, <1>8, <2>2, <2>3, <2>4 DEF ConfInv
  <2>6. QED
    BY <1>1, <1>10, <2>2, <2>5, GoesKeeps, MultiParts
<1>11. CASE ApplyFails(f, calls) /\ Fails
  <2>1. /\ ConfTypeOK'
        /\ \A g \in Ifaces : \A name \in NetemSettings : conf'[g][name] = conf[g][name]
    <3>1. PICK n \in 0..(Len(calls) - 1) :
            conf' = [conf EXCEPT ![f] = AfterCalls(@, calls)[n]]
      BY <1>11 DEF ApplyFails
    <3>2. n \in 0..Len(calls)
      BY <1>9
    <3> HIDE DEF calls
    <3>3. QED
      BY <1>6, <3>1, <3>2
  <2>2. \A s \in LoopsOfInterest : \A x : ~ Did(s, x)'
    BY <1>1, <1>2, <1>11, GivesUp
  <2>3. ConfInv'
    BY <1>1, <1>2, <1>3, <1>4, <1>7, <2>1, <2>2 DEF ConfInv, LoopsOfInterest
  <2>4. QED
    BY <1>1, <1>11, <2>1, <2>3, FailsKeeps, MultiParts
<1>12. QED
  BY <1>0, <1>10, <1>11 DEF FeaturesStep

LEMMA SetupKeeps ==
  ASSUME MultiInv, SetupStep PROVE MultiInv'
<1>1. /\ stage = "setup" /\ todo # <<>> /\ stage \notin Cleanup
      /\ UNCHANGED niVars /\ UNCHANGED job /\ UNCHANGED conf
      /\ UNCHANGED env /\ UNCHANGED listVars /\ UNCHANGED all_targets
  BY DEF SetupStep, At, Cleanup, listVars
<1>2. /\ TgtTypeOK /\ TgtInv /\ FlowTypeOK /\ TypeOK /\ TodoInv /\ ListInv
  BY PartsOf
<1>3. Here \in Hosts /\ Here \in Remaining /\ Here \in ToSet(all_targets)
  BY <1>1, <1>2, HeadIsTyped DEF TodoInv
<1>4. CASE tgt' = [tgt EXCEPT ![Here] = "serving"] /\ Goes
  <2>1. TgtTypeOK' /\ TgtInv'
    BY <1>1, <1>2, <1>3, <1>4 DEF Goes, TgtTypeOK, TgtInv
  <2>2. QED
    BY <1>1, <1>4, <2>1, GoesKeeps, MultiParts
<1>5. CASE tgt' \in {tgt, [tgt EXCEPT ![Here] = "inited"]} /\ Fails
  <2>1. TgtTypeOK' /\ TgtInv'
    BY <1>1, <1>2, <1>3, <1>5 DEF Fails, TgtTypeOK, TgtInv
  <2>2. QED
    BY <1>1, <1>5, <2>1, FailsKeeps, MultiParts
<1>6. QED
  BY <1>4, <1>5 DEF SetupStep

LEMMA ConnectKeeps ==
  ASSUME MultiInv, ConnectStep PROVE MultiInv'
<1>1. /\ stage = "connect" /\ todo # <<>> /\ stage \notin Cleanup
      /\ UNCHANGED job /\ UNCHANGED conf /\ UNCHANGED tgt
      /\ UNCHANGED env /\ UNCHANGED listVars /\ UNCHANGED all_fios
  BY DEF ConnectStep, At, Cleanup, listVars
<1>2. /\ NITypeOK /\ FlowTypeOK /\ TypeOK /\ ToolTypeOK /\ ServerInv /\ CtrlInv /\ ProgressInv
      /\ TodoInv /\ ListInv
  BY PartsOf
<1>3. PICK p \in Initiators : p = Here
  BY <1>1, <1>2, HeadIsTyped
<1>4. p \in Listed
  BY <1>3 DEF ConnectStep, Listed
<1>5. Listed' = Listed /\ EnvPairs' = EnvPairs /\ InitHosts' = InitHosts /\ TgtHosts' = TgtHosts
  BY <1>1, ListsStay
<1>6. /\ verdict = "fail" /\ \A s \in Servers : pending[s] = Null
      /\ \A q \in Initiators : ctrl[q] # "absent" => dev[q]
  BY <1>1, <1>2 DEF ServerInv, CtrlInv, ProgressInv, FlowTypeOK, Cleanup
<1>7. CASE Connected(p) /\ Goes
  <2>1. /\ stage' = stage /\ verdict' = verdict
        /\ \A s \in LoopsOfInterest : \A x :
             Did(s, x)' => Did(s, x) \/ (stage = s /\ x = p)
    BY <1>1, <1>2, <1>3, <1>7, GoesOn
  <2>2. NITypeOK'
    BY <1>2, <1>7, ConnectType
  <2>3. ServerInv'
    BY <1>2, <1>5, <1>6, <1>7 DEF ServerInv, Connected, serverVars
  <2>4. CtrlInv'
    BY <1>1, <1>2, <1>4, <1>5, <1>7, <2>1 DEF CtrlInv, NITypeOK, Connected
  <2>5. ProgressInv'
    <3>1. \A q \in EnvPairs : Did("connect", q)' => q \in Listed
      BY <1>2, <1>4, <2>1 DEF ProgressInv, LoopsOfInterest
    <3>2. \A s \in {"load", "create", "wait"} : \A x : Did(s, x)' => Did(s, x)
      BY <1>1, <2>1 DEF LoopsOfInterest
    <3>3. UNCHANGED <<all_initiators, all_targets>>
      BY <1>1 DEF listVars
    <3>4. QED
      BY <1>1, <1>2, <1>5, <2>1, <3>1, <3>2, <3>3 DEF ProgressInv
  <2>6. ToolTypeOK'
    BY <1>1, <1>2 DEF ToolTypeOK
  <2>7. QED
    BY <1>1, <1>7, <2>2, <2>3, <2>4, <2>5, <2>6, GoesKeeps, MultiParts
<1>8. ASSUME NEW outcome \in {"refused", "halfway", "orphan"}, ConnectFailed(p, outcome), Fails
      PROVE  MultiInv'
  <2>1. stage' = "disconnect" /\ verdict' = "fail" /\ Remaining' = Listed
    BY <1>1, <1>2, <1>6, <1>8, GivesUp
  <2>2. NITypeOK'
    BY <1>2, <1>8, ConnectType
  <2>3. ServerInv'
    BY <1>2, <1>5, <1>6, <1>8 DEF ServerInv, ConnectFailed, serverVars
  <2>4. CtrlInv'
    BY <1>2, <1>4, <1>5, <1>8, <2>1 DEF CtrlInv, NITypeOK, ConnectFailed, Cleanup
  <2>5. QED
    BY <1>1, <1>8, <2>2, <2>3, <2>4, FailsKeeps, MultiParts
<1>9. QED
  BY <1>3, <1>7, <1>8 DEF ConnectStep

\* The jobs of the test go on, but no ended one does.
LEMMA JobsChange ==
  ASSUME MultiInv, UNCHANGED env, UNCHANGED listVars, stage' = stage, verdict' = verdict,
         job' \in [Apps -> JobStates],
         \A s \in {"load", "connect", "create"} : \A x : Did(s, x)' => Did(s, x),
         \A a \in Apps : /\ job[a] = "ended" => job'[a] = "ended"
                         /\ job'[a] # "none" => a \in ToSet(all_fios),
         \A a \in EnvPairs : Did("wait", a)' /\ ~ Did("wait", a) => job[a] = "ended"
  PROVE  ToolTypeOK' /\ ProgressInv'
<1>1. ProgressInv /\ TypeOK
  BY PartsOf
<1>2. /\ Listed' = Listed /\ EnvPairs' = EnvPairs /\ InitHosts' = InitHosts
      /\ TgtHosts' = TgtHosts /\ EnvPairs \subseteq Apps
      /\ UNCHANGED <<all_initiators, all_targets, all_fios>>
  BY <1>1, ListsStay, ListsAreTyped, EnvironmentIs DEF listVars
<1>3. ProgressInv'
  BY <1>1, <1>2 DEF ProgressInv
<1>4. QED
  BY <1>3 DEF ToolTypeOK

LEMMA FioKeeps ==
  ASSUME MultiInv, FioStep PROVE MultiInv'
<1>1. /\ stage \in {"start", "wait", "report"} /\ todo # <<>> /\ stage \notin Cleanup
      /\ UNCHANGED niVars /\ UNCHANGED conf /\ UNCHANGED tgt
      /\ UNCHANGED env /\ UNCHANGED listVars /\ UNCHANGED all_fios
  BY DEF FioStep, StartStep, WaitStep, ReportStep, At, Cleanup, listVars
<1>2. /\ FlowTypeOK /\ TypeOK /\ ToolTypeOK /\ ProgressInv /\ TodoInv /\ ListInv
  BY PartsOf
<1>3. Apps = Initiators
  BY MultiAssumption
<1>4. PICK p \in Apps : p = Here
  BY <1>1, <1>2, <1>3, HeadIsTyped
<1>5. p \in ToSet(all_fios)
  BY <1>1, <1>2, <1>4, HeadIsTyped DEF TodoInv
<1>6. ASSUME Goes
      PROVE  /\ stage' = stage /\ verdict' = verdict
             /\ \A s \in {"load", "connect", "create"} : \A x : Did(s, x)' => Did(s, x)
             /\ \A x : Did("wait", x)' => Did("wait", x) \/ (stage = "wait" /\ x = p)
  <2>1. /\ stage' = stage /\ verdict' = verdict
        /\ \A s \in LoopsOfInterest : \A x :
             Did(s, x)' => Did(s, x) \/ (stage = s /\ x = p)
    BY <1>1, <1>2, <1>4, <1>6, GoesOn
  <2>2. QED
    BY <1>1, <2>1 DEF LoopsOfInterest
<1>7. \A a \in Apps : job[a] # "none" => a \in ToSet(all_fios)
  BY <1>2 DEF ProgressInv
<1>8. CASE Fails /\ UNCHANGED job
  BY <1>1, <1>8, FailsKeeps, MultiParts
<1>9. CASE At("start") /\ Started(p) /\ Goes
  <2>1. ToolTypeOK' /\ ProgressInv'
    <3>1. stage = "start" /\ \A a : ~ Did("wait", a)
      BY <1>9 DEF At, Did, Behind
    <3>2. verdict # "pass"
      BY <1>1, <1>2 DEF ProgressInv
    <3>3. job' = [job EXCEPT ![p] = job'[p]] /\ job'[p] \in {"doomed", "running"}
      BY <1>2, <1>9 DEF Started, ToolTypeOK
    <3>4. ToolTypeOK'
      BY <1>2, <3>3 DEF ToolTypeOK, JobStates, Active
    <3>5. \A a \in Apps : job'[a] # "none" => a \in ToSet(all_fios)
      BY <1>2, <1>5, <1>7, <3>3 DEF ToolTypeOK
    <3>6. /\ Listed' = Listed /\ EnvPairs' = EnvPairs /\ InitHosts' = InitHosts
          /\ TgtHosts' = TgtHosts /\ UNCHANGED <<all_initiators, all_targets, all_fios>>
      BY <1>1, ListsStay DEF listVars
    <3>7. \A a : ~ Did("wait", a)'
      BY <1>6, <1>9, <3>1
    <3>8. ProgressInv'
      BY <1>2, <1>6, <1>9, <3>2, <3>5, <3>6, <3>7 DEF ProgressInv
    <3>9. QED
      BY <3>4, <3>8
  <2>2. QED
    BY <1>1, <1>9, <2>1, GoesKeeps, MultiParts
<1>10. CASE At("wait") /\ Waited(p) /\ Goes /\ UNCHANGED job
  <2>1. ToolTypeOK' /\ ProgressInv'
    <3>1. job[p] = "ended" /\ job' \in [Apps -> JobStates]
      BY <1>2, <1>10 DEF Waited, ToolTypeOK
    <3>2. QED
      BY <1>1, <1>6, <1>7, <1>10, <3>1, JobsChange
  <2>2. QED
    BY <1>1, <1>10, <2>1, GoesKeeps, MultiParts
<1>11. CASE At("report") /\ Stopped(p) /\ (Goes \/ Fails)
  <2>1. /\ job' \in [Apps -> JobStates]
        /\ \A a \in Apps : /\ job[a] = "ended" => job'[a] = "ended"
                           /\ job'[a] # "none" => a \in ToSet(all_fios)
    BY <1>2, <1>5, <1>7, <1>11 DEF Stopped, Killed, ToolTypeOK, JobStates, Active
  <2>2. CASE Goes
    <3>1. ToolTypeOK' /\ ProgressInv'
      <4>1. stage # "wait"
        BY <1>11 DEF At
      <4>2. QED
        BY <1>1, <1>6, <2>1, <2>2, <4>1, JobsChange
    <3>2. QED
      BY <1>1, <2>2, <3>1, GoesKeeps, MultiParts
  <2>3. CASE Fails
    <3>1. ToolTypeOK' /\ ProgressInv'
      <4>1. /\ verdict' = verdict /\ verdict # "pass"
            /\ \A s \in LoopsOfInterest : \A x : ~ Did(s, x)'
        BY <1>1, <1>2, <2>3, GivesUp DEF ProgressInv
      <4>2. /\ Listed' = Listed /\ EnvPairs' = EnvPairs /\ InitHosts' = InitHosts
            /\ TgtHosts' = TgtHosts /\ UNCHANGED <<all_initiators, all_targets, all_fios>>
        BY <1>1, ListsStay DEF listVars
      <4>3. ProgressInv'
        BY <2>1, <4>1, <4>2 DEF ProgressInv, LoopsOfInterest
      <4>4. QED
        BY <2>1, <4>3 DEF ToolTypeOK
    <3>2. QED
      BY <1>1, <2>3, <3>1, FailsKeeps, MultiParts
  <2>4. QED
    BY <1>11, <2>2, <2>3
<1>12. QED
  BY <1>4, <1>8, <1>9, <1>10, <1>11 DEF FioStep, StartStep, WaitStep, ReportStep

-----------------------------------------------------------------------------
(***************************************************************************)
(* The cleanup, and the bed                                                *)
(***************************************************************************)
LEMMA JobsFollowing ==
  ASSUME ToolTypeOK, JobsFollow
  PROVE  /\ job' \in [Apps -> JobStates]
         /\ \A a \in Apps : /\ job[a] = "ended" => job'[a] = "ended"
                            /\ job'[a] # "none" => job[a] # "none"
                            /\ job'[a] \in Active => job[a] \in Active
BY DEF ToolTypeOK, JobsFollow, JobStates, Active

\* What a disconnect on the controller's own server does
LEMMA RawDisconnectIs ==
  ASSUME MultiInv, NEW p \in Initiators, NEW d \in Durations[p],
         RawDisconnectOk(p, d) \/ RawDisconnectFailed(p, d)
  PROVE  /\ NITypeOK' /\ rpcs' = rpcs /\ alive' = alive
         /\ \/ /\ UNCHANGED pending
               /\ \/ UNCHANGED <<dev, ctrl>> /\ (dev[p] => rc'[p] = "error")
                  \/ /\ dev' = [dev EXCEPT ![p] = FALSE]
                     /\ ctrl' = [ctrl EXCEPT ![p] = "absent"]
            \/ /\ pending' = [pending EXCEPT ![RootOf[p]] = p]
               /\ ctrl' = [ctrl EXCEPT ![p] = "deleting"] /\ ctrl[p] # "absent"
               /\ dev[p] /\ UNCHANGED dev /\ rc'[p] = "error"
         /\ \A q \in Initiators \ {p} : rc'[q] = rc[q]
<1>1. NITypeOK /\ rpcs[p] = RootOf[p] /\ RootOf[p] \in Servers
  BY PartsOf, ServerFacts DEF ServerInv
<1>2. /\ UNCHANGED <<rpcs, disc, alive, deftimeout>>
      /\ rc' \in {[rc EXCEPT ![p] = "ok"], [rc EXCEPT ![p] = "error"]}
  BY DEF RawDisconnectOk, RawDisconnectFailed
<1>3. /\ dev' \in [Initiators -> BOOLEAN]
      /\ ctrl' \in [Initiators -> CtrlStates]
      /\ pending' \in [Servers -> Initiators \cup {Null}]
  BY <1>1, DeleteType DEF RawDisconnectOk, RawDisconnectFailed
<1>4. NITypeOK'
  BY <1>1, <1>2, <1>3 DEF NITypeOK
<1>5. CASE RawDisconnectOk(p, d)
  BY <1>1, <1>2, <1>4, <1>5
     DEF NITypeOK, RawDisconnectOk, DeleteOk, DeleteSkipped, DeleteDone
<1>6. CASE RawDisconnectFailed(p, d)
  BY <1>1, <1>2, <1>4, <1>6
     DEF NITypeOK, RawDisconnectFailed, DeleteFails, DeleteRefused, DeleteTimedOut
<1>7. QED
  BY <1>5, <1>6

LEMMA DisconnectKeeps ==
  ASSUME MultiInv, DisconnectStep PROVE MultiInv'
<1>1. /\ stage = "disconnect" /\ todo # <<>> /\ Goes /\ JobsFollow
      /\ UNCHANGED conf /\ UNCHANGED tgt /\ UNCHANGED env /\ UNCHANGED listVars
  BY DEF DisconnectStep, At
<1>2. /\ NITypeOK /\ FlowTypeOK /\ TypeOK /\ ToolTypeOK /\ ServerInv /\ CtrlInv /\ ProgressInv
      /\ TodoInv /\ ListInv
  BY PartsOf
<1>3. PICK p \in Initiators : p = Here
  BY <1>1, <1>2, HeadIsTyped
<1>4. /\ p \in Remaining /\ stage' = stage /\ verdict' = verdict /\ Remaining' = Remaining \ {p}
      /\ \A s \in LoopsOfInterest : \A x :
           Did(s, x)' => Did(s, x) \/ (stage = s /\ x = p)
  BY <1>1, <1>2, <1>3, GoesOn
<1>5. p \in Listed /\ Listed' = Listed
  BY <1>1, <1>2, <1>4, ListsStay DEF TodoInv
<1>6. PICK d \in Durations[p] : RawDisconnectOk(p, d) \/ RawDisconnectFailed(p, d)
  BY <1>3 DEF DisconnectStep
<1>7. /\ NITypeOK' /\ rpcs' = rpcs /\ alive' = alive
      /\ \/ /\ UNCHANGED pending
            /\ \/ UNCHANGED <<dev, ctrl>> /\ (dev[p] => rc'[p] = "error")
               \/ /\ dev' = [dev EXCEPT ![p] = FALSE]
                  /\ ctrl' = [ctrl EXCEPT ![p] = "absent"]
         \/ /\ pending' = [pending EXCEPT ![RootOf[p]] = p]
            /\ ctrl' = [ctrl EXCEPT ![p] = "deleting"] /\ ctrl[p] # "absent"
            /\ dev[p] /\ UNCHANGED dev /\ rc'[p] = "error"
      /\ \A q \in Initiators \ {p} : rc'[q] = rc[q]
  BY <1>6, RawDisconnectIs
<1>8. ServerInv'
  <2>1. CASE UNCHANGED pending
    BY <1>1, <1>2, <1>4, <1>5, <1>7, <2>1 DEF ServerInv
  <2>2. CASE pending' = [pending EXCEPT ![RootOf[p]] = p]
    BY <1>1, <1>2, <1>4, <1>5, <1>7, <2>2, ServerFacts DEF ServerInv, NITypeOK, Cleanup
  <2>3. QED
    BY <1>7, <2>1, <2>2
<1>9. CtrlInv'
  <2> SUFFICES ASSUME NEW q \in Initiators
               PROVE  /\ ctrl'[q] # "absent" \/ dev'[q] => q \in Listed'
                      /\ ctrl'[q] # "absent" /\ ~dev'[q] => stage' \in Cleanup /\ verdict' = "fail"
                      /\ stage' \in Cleanup /\ dev'[q] /\ rc'[q] # "error" =>
                           stage' = "disconnect" /\ q \in Remaining'
    BY DEF CtrlInv
  <2>1. CASE q = p
    BY <1>1, <1>2, <1>4, <1>5, <1>7, <2>1 DEF CtrlInv, NITypeOK
  <2>2. CASE q # p
    <3>1. ctrl'[q] = ctrl[q] /\ (dev'[q] <=> dev[q]) /\ rc'[q] = rc[q]
      BY <1>2, <1>7, <2>2 DEF NITypeOK
    <3>2. QED
      BY <1>2, <1>4, <1>5, <2>2, <3>1 DEF CtrlInv
  <2>3. QED
    BY <2>1, <2>2
<1>10. ToolTypeOK' /\ ProgressInv'
  <2>1. /\ \A s \in {"load", "connect", "create"} : \A x : Did(s, x)' => Did(s, x)
        /\ \A x : Did("wait", x)' => Did("wait", x)
    BY <1>1, <1>4 DEF LoopsOfInterest
  <2>2. /\ job' \in [Apps -> JobStates]
        /\ \A a \in Apps : /\ job[a] = "ended" => job'[a] = "ended"
                           /\ job'[a] # "none" => a \in ToSet(all_fios)
    BY <1>1, <1>2, JobsFollowing DEF ProgressInv
  <2>3. QED
    BY <1>1, <1>4, <2>1, <2>2, JobsChange
<1>11. QED
  BY <1>1, <1>7, <1>8, <1>9, <1>10, GoesKeeps, MultiParts

LEMMA FiniKeeps ==
  ASSUME MultiInv, FiniStep PROVE MultiInv'
<1>1. /\ stage = "fini" /\ todo # <<>> /\ Goes /\ tgt' = [tgt EXCEPT ![Here] = "finished"]
      /\ UNCHANGED niVars /\ UNCHANGED job /\ UNCHANGED conf
      /\ UNCHANGED env /\ UNCHANGED listVars /\ UNCHANGED all_targets
  BY DEF FiniStep, At, listVars
<1>2. /\ TgtTypeOK /\ TgtInv /\ TypeOK /\ TodoInv /\ ListInv
  BY PartsOf
<1>3. PICK t \in Hosts : t = Here
  BY <1>1, <1>2, HeadIsTyped
<1>4. stage' = stage /\ Remaining' = Remaining \ {t}
  BY <1>1, <1>2, <1>3, GoesOn
<1>5. TgtTypeOK' /\ TgtInv'
  BY <1>1, <1>2, <1>3, <1>4 DEF TgtTypeOK, TgtInv
<1>6. QED
  BY <1>1, <1>5, GoesKeeps, MultiParts

\* The test does not move.
LEMMA StaysKeeps ==
  ASSUME MultiInv, UNCHANGED env, UNCHANGED listVars, UNCHANGED flowVars
  PROVE  /\ ListTypeOK' /\ FlowTypeOK' /\ ListInv' /\ TodoInv'
         /\ stage' = stage /\ verdict' = verdict /\ Remaining' = Remaining
         /\ \A s \in LoopsOfInterest : \A x : Did(s, x)' <=> Did(s, x)
         /\ UNCHANGED niVars => NITypeOK' /\ ServerInv' /\ CtrlInv'
         /\ UNCHANGED job => ToolTypeOK' /\ ProgressInv'
         /\ UNCHANGED conf => ConfTypeOK' /\ ConfInv'
         /\ UNCHANGED tgt => TgtTypeOK' /\ TgtInv'
<1>1. /\ NITypeOK /\ ToolTypeOK /\ ConfTypeOK /\ ListTypeOK /\ TgtTypeOK /\ FlowTypeOK
      /\ ListInv /\ TodoInv /\ ServerInv /\ CtrlInv /\ ProgressInv /\ ConfInv /\ TgtInv
  BY PartsOf
<1>2. /\ Listed' = Listed /\ Ifs' = Ifs /\ EnvPairs' = EnvPairs
      /\ InitHosts' = InitHosts /\ TgtHosts' = TgtHosts /\ ListInv' /\ ListTypeOK'
  BY <1>1, ListsStay
<1>3. /\ stage' = stage /\ verdict' = verdict /\ todo' = todo /\ Remaining' = Remaining
      /\ UNCHANGED <<all_initiators, all_targets, host_ctrls, all_fios, env>>
  BY DEF flowVars, listVars, Remaining
<1>4. FlowTypeOK' /\ TodoInv'
  BY <1>1, <1>2, <1>3 DEF FlowTypeOK, Stages, TodoInv
<1>5. \A s \in LoopsOfInterest : \A x : Did(s, x)' <=> Did(s, x)
  BY <1>3 DEF Did, Behind
<1>6. ASSUME UNCHANGED niVars PROVE NITypeOK' /\ ServerInv' /\ CtrlInv'
  <2>1. UNCHANGED <<rpcs, disc, dev, rc, alive, deftimeout, pending, ctrl>>
    BY <1>6 DEF niVars
  <2>2. QED
    BY <1>1, <1>2, <1>3, <2>1 DEF NITypeOK, ServerInv, CtrlInv
<1>7. ASSUME UNCHANGED job PROVE ToolTypeOK' /\ ProgressInv'
  BY <1>1, <1>2, <1>3, <1>5, <1>7 DEF ToolTypeOK, ProgressInv, LoopsOfInterest
<1>8. ASSUME UNCHANGED conf PROVE ConfTypeOK' /\ ConfInv'
  <2>1. ConfTypeOK'
    BY <1>1, <1>8 DEF ConfTypeOK
  <2>2. ConfInv'
    BY <1>1, <1>2, <1>3, <1>5, <1>8
       DEF ConfInv, LoopsOfInterest, Featured, AsksNetem, Impaired
  <2>3. QED
    BY <2>1, <2>2
<1>9. ASSUME UNCHANGED tgt PROVE TgtTypeOK' /\ TgtInv'
  BY <1>1, <1>3, <1>9 DEF TgtTypeOK, TgtInv
<1>10. QED
  BY <1>2, <1>3, <1>4, <1>5, <1>6, <1>7, <1>8, <1>9

LEMMA KernelKeeps ==
  ASSUME MultiInv, KernelStep PROVE MultiInv'
<1>1. /\ JobsFollow /\ UNCHANGED conf /\ UNCHANGED tgt
      /\ UNCHANGED env /\ UNCHANGED listVars /\ UNCHANGED flowVars
  BY DEF KernelStep
<1>2. /\ NITypeOK /\ ToolTypeOK /\ ServerInv /\ CtrlInv /\ ProgressInv
  BY PartsOf
<1>3. /\ stage' = stage /\ verdict' = verdict /\ Remaining' = Remaining /\ Listed' = Listed
      /\ \A s \in LoopsOfInterest : \A x : Did(s, x)' <=> Did(s, x)
  BY <1>1, ListsStay, StaysKeeps
<1>4. /\ NITypeOK' /\ rpcs' = rpcs /\ alive' = alive /\ dev' = dev /\ rc' = rc
      /\ \A q \in Initiators : ctrl'[q] # "absent" => ctrl[q] # "absent"
      /\ \A s \in Servers : pending'[s] # Null => pending'[s] = pending[s]
  <2>1. ASSUME NEW p \in Initiators, Kernel(p)
        PROVE  /\ NITypeOK' /\ rpcs' = rpcs /\ alive' = alive /\ dev' = dev /\ rc' = rc
               /\ \A q \in Initiators : ctrl'[q] # "absent" => ctrl[q] # "absent"
               /\ pending' = pending
    <3>1. NITypeOK'
      BY <1>2, <2>1, KernelType
    <3>2. QED
      BY <1>2, <2>1, <3>1
         DEF NITypeOK, Kernel, CtrlLoses, CtrlRecovers, CtrlExpires, CtrlMoves, objVars,
             serverVars
  <2>2. ASSUME NEW s \in Servers, LateAnswer(s)
        PROVE  /\ NITypeOK' /\ rpcs' = rpcs /\ alive' = alive /\ dev' = dev /\ rc' = rc
               /\ \A q \in Initiators : ctrl'[q] # "absent" => ctrl[q] # "absent"
               /\ \A t \in Servers : pending'[t] # Null => pending'[t] = pending[t]
    <3>1. NITypeOK'
      BY <1>2, <2>2, LateAnswerType
    <3>2. QED
      BY <1>2, <2>2, <3>1 DEF NITypeOK, LateAnswer, objVars
  <2>3. (\E p \in Initiators : Kernel(p)) \/ (\E s \in Servers : LateAnswer(s))
    BY DEF KernelStep, Kernel
  <2>4. QED
    BY <2>1, <2>2, <2>3
<1>5. ServerInv'
  BY <1>2, <1>3, <1>4 DEF ServerInv
<1>6. CtrlInv'
  BY <1>2, <1>3, <1>4 DEF CtrlInv
<1>7. ToolTypeOK' /\ ProgressInv'
  <2>1. /\ job' \in [Apps -> JobStates]
        /\ \A a \in Apps : /\ job[a] = "ended" => job'[a] = "ended"
                           /\ job'[a] # "none" => a \in ToSet(all_fios)
    BY <1>1, <1>2, JobsFollowing DEF ProgressInv
  <2>2. QED
    BY <1>1, <1>3, <2>1, JobsChange DEF LoopsOfInterest
<1>8. QED
  BY <1>1, <1>4, <1>5, <1>6, <1>7, StaysKeeps, MultiParts

LEMMA ExitKeeps ==
  ASSUME MultiInv, NEW a \in Apps, FioExits(a) PROVE MultiInv'
<1>1. /\ Exits(a, stage = "wait") /\ UNCHANGED niVars /\ UNCHANGED conf /\ UNCHANGED tgt
      /\ UNCHANGED env /\ UNCHANGED listVars /\ UNCHANGED flowVars
  BY DEF FioExits
<1>2. ToolTypeOK /\ ProgressInv
  BY PartsOf
<1>3. /\ stage' = stage /\ verdict' = verdict
      /\ \A s \in LoopsOfInterest : \A x : Did(s, x)' <=> Did(s, x)
  BY <1>1, StaysKeeps
<1>4. job[a] \in Active /\ job' \in {[job EXCEPT ![a] = "ended"], [job EXCEPT ![a] = "failed"]}
  BY <1>1 DEF Exits, Finishes, Active
<1>5. /\ job' \in [Apps -> JobStates]
      /\ \A b \in Apps : /\ job[b] = "ended" => job'[b] = "ended"
                         /\ job'[b] # "none" => b \in ToSet(all_fios)
  BY <1>2, <1>4 DEF ToolTypeOK, ProgressInv, JobStates, Active
<1>6. ToolTypeOK' /\ ProgressInv'
  BY <1>1, <1>3, <1>5, JobsChange DEF LoopsOfInterest
<1>7. QED
  BY <1>1, <1>6, StaysKeeps, MultiParts

-----------------------------------------------------------------------------
(***************************************************************************)
(* The steps of the body that fill the lists                               *)
(***************************************************************************)
LEMMA LoadKeeps ==
  ASSUME MultiInv, LoadStep PROVE MultiInv'
<1>1. /\ stage = "load" /\ todo # <<>> /\ stage \notin Cleanup
      /\ UNCHANGED <<host_ctrls, all_fios, job, conf, tgt>>
      /\ UNCHANGED niVars /\ UNCHANGED env
  BY DEF LoadStep, At, Cleanup
<1>2. /\ NITypeOK /\ ToolTypeOK /\ ConfTypeOK /\ ListTypeOK /\ TgtTypeOK /\ FlowTypeOK
      /\ TypeOK /\ ListInv /\ TodoInv /\ ServerInv /\ CtrlInv /\ ProgressInv /\ ConfInv /\ TgtInv
  BY PartsOf
<1>3. PICK h \in Hosts : h = Here
  BY <1>1, <1>2, HeadIsTyped
<1>4. PICK initiators :
        initiators = IF h < env.inits THEN Cons(h, all_initiators) ELSE all_initiators
  OBVIOUS
<1>5. PICK targets :
        targets = IF h < env.tgts THEN Cons(h, all_targets) ELSE all_targets
  OBVIOUS
<1>6. \/ Goes /\ all_initiators' = initiators /\ all_targets' = targets
      \/ Fails /\ all_initiators' \in {all_initiators, initiators} /\ UNCHANGED all_targets
  BY <1>3, <1>4, <1>5 DEF LoadStep
<1>7. /\ h \in Remaining /\ h \notin ToSet(all_initiators) /\ h \notin ToSet(all_targets)
  BY <1>1, <1>2, <1>3, HeadIsTyped DEF TodoInv
<1>8. /\ InitHosts' = InitHosts /\ TgtHosts' = TgtHosts /\ EnvPairs' = EnvPairs /\ Ifs' = Ifs
      /\ Listed' = Listed
      /\ InitHosts = {k \in Hosts : k < env.inits} /\ TgtHosts = {k \in Hosts : k < env.tgts}
  BY <1>1, <1>2, EnvironmentIs DEF InitHosts, TgtHosts, EnvPairs, Ifs, Listed, ListTypeOK
<1>9. /\ initiators \in Seq(Hosts) /\ Distinct(initiators)
      /\ ToSet(initiators) = ToSet(all_initiators) \cup ({h} \cap InitHosts)
  <2>1. all_initiators \in Seq(Hosts) /\ Distinct(all_initiators)
    BY <1>2 DEF ListTypeOK, ListInv
  <2>2. CASE h < env.inits
    BY <1>4, <1>7, <1>8, <2>1, <2>2, ConsElements
  <2>3. CASE ~(h < env.inits)
    BY <1>4, <1>8, <2>1, <2>3
  <2>4. QED
    BY <2>2, <2>3
<1>10. /\ targets \in Seq(Hosts) /\ Distinct(targets)
       /\ ToSet(targets) = ToSet(all_targets) \cup ({h} \cap TgtHosts)
  <2>1. all_targets \in Seq(Hosts) /\ Distinct(all_targets)
    BY <1>2 DEF ListTypeOK, ListInv
  <2>2. CASE h < env.tgts
    BY <1>5, <1>7, <1>8, <2>1, <2>2, ConsElements
  <2>3. CASE ~(h < env.tgts)
    BY <1>5, <1>8, <2>1, <2>3
  <2>4. QED
    BY <2>2, <2>3
<1>11. /\ all_initiators' \in {all_initiators, initiators}
       /\ all_targets' \in {all_targets, targets}
  BY <1>6
<1>12. ListTypeOK'
  BY <1>1, <1>2, <1>9, <1>10, <1>11 DEF ListTypeOK
<1>13. /\ ToSet(all_initiators) \subseteq ToSet(all_initiators')
       /\ ToSet(all_targets) \subseteq ToSet(all_targets')
  BY <1>9, <1>10, <1>11
<1>14. ListInv'
  BY <1>1, <1>2, <1>8, <1>9, <1>10, <1>11, <1>13 DEF ListInv
<1>15. NITypeOK' /\ ToolTypeOK' /\ ConfTypeOK' /\ TgtTypeOK'
  BY <1>1, <1>2 DEF NITypeOK, niVars, ToolTypeOK, ConfTypeOK, TgtTypeOK
<1>16. all_fios = <<>> /\ verdict = "fail" /\ \A a \in Apps : job[a] = "none"
  <2>1. all_fios = <<>> /\ verdict = "fail"
    BY <1>1, <1>2 DEF ConfInv, ProgressInv, FlowTypeOK, Cleanup
  <2>2. QED
    BY <1>2, <2>1, EmptyList DEF ProgressInv
<1>17. UNCHANGED <<rpcs, disc, dev, rc, alive, deftimeout, pending, ctrl>>
  BY <1>1 DEF niVars
<1>18. \A s \in Servers : pending[s] = Null
  BY <1>1, <1>2 DEF ServerInv
<1>19. \A t \in Hosts : tgt[t] \in {"inited", "serving"} => t \in ToSet(all_targets)
  BY <1>2 DEF TgtInv
<1>20. CASE Goes /\ all_initiators' = initiators /\ all_targets' = targets
  <2>1. /\ FlowTypeOK' /\ Distinct(todo') /\ stage' = stage /\ verdict' = verdict
        /\ Remaining' = Remaining \ {h}
        /\ \A s \in LoopsOfInterest : \A x :
             Did(s, x)' => Did(s, x) \/ (stage = s /\ x = h)
    BY <1>1, <1>2, <1>3, <1>20, GoesOn
  <2>2. TodoInv'
    BY <1>1, <1>2, <1>7, <1>9, <1>10, <1>20, <2>1 DEF TodoInv
  <2>3. ServerInv' /\ CtrlInv'
    BY <1>1, <1>2, <1>8, <1>17, <1>18, <2>1 DEF ServerInv, CtrlInv
  <2>4. ProgressInv'
    <3>1. \A s \in {"connect", "create", "wait"} : \A x : Did(s, x)' => Did(s, x)
      BY <1>1, <2>1 DEF LoopsOfInterest
    <3>2. \A k \in InitHosts : Did("load", k)' => k \in ToSet(initiators)
      BY <1>2, <1>9, <2>1 DEF ProgressInv, LoopsOfInterest
    <3>3. \A k \in TgtHosts : Did("load", k)' => k \in ToSet(targets)
      BY <1>2, <1>10, <2>1 DEF ProgressInv, LoopsOfInterest
    <3>4. QED
      BY <1>1, <1>2, <1>8, <1>20, <2>1, <3>1, <3>2, <3>3 DEF ProgressInv
  <2>5. ConfInv'
    <3>1. \A s \in {"netem", "features"} : \A x : Did(s, x)' => Did(s, x)
      BY <1>1, <2>1 DEF LoopsOfInterest
    <3>2. QED
      BY <1>1, <1>2, <1>8, <1>16, <2>1, <3>1 DEF ConfInv, Featured, AsksNetem, Impaired
  <2>6. TgtInv'
    BY <1>1, <1>13, <1>19, <2>1 DEF TgtInv
  <2>7. QED
    BY <1>12, <1>14, <1>15, <2>1, <2>2, <2>3, <2>4, <2>5, <2>6, MultiParts
<1>21. CASE Fails /\ all_initiators' \in {all_initiators, initiators} /\ UNCHANGED all_targets
  <2>1. /\ FlowTypeOK' /\ Distinct(todo') /\ stage' = "disconnect" /\ verdict' = verdict
        /\ Remaining' = Listed /\ \A s \in LoopsOfInterest : \A x : ~ Did(s, x)'
    BY <1>1, <1>2, <1>21, GivesUp
  <2>2. TodoInv'
    BY <1>8, <2>1 DEF TodoInv
  <2>3. ServerInv' /\ CtrlInv'
    BY <1>2, <1>8, <1>16, <1>17, <1>18, <2>1 DEF ServerInv, CtrlInv, Cleanup
  <2>4. ProgressInv'
    BY <1>1, <1>16, <2>1 DEF ProgressInv, LoopsOfInterest
  <2>5. ConfInv'
    BY <1>1, <1>2, <1>8, <1>16, <2>1
       DEF ConfInv, Featured, AsksNetem, Impaired, LoopsOfInterest
  <2>6. TgtInv'
    BY <1>1, <1>13, <1>19, <2>1 DEF TgtInv
  <2>7. QED
    BY <1>12, <1>14, <1>15, <2>1, <2>2, <2>3, <2>4, <2>5, <2>6, MultiParts
<1>22. QED
  BY <1>6, <1>20, <1>21

LEMMA AddKeeps ==
  ASSUME MultiInv, AddHostCtrl PROVE MultiInv'
<1>1. /\ stage = "connect" /\ todo # <<>> /\ stage \notin Cleanup
      /\ UNCHANGED <<disc, dev, rc, deftimeout, pending, ctrl>>
      /\ UNCHANGED <<all_initiators, all_targets, all_fios, job, conf, tgt>> /\ UNCHANGED env
  BY DEF AddHostCtrl, At, Cleanup
<1>2. /\ NITypeOK /\ ToolTypeOK /\ ConfTypeOK /\ ListTypeOK /\ TgtTypeOK /\ FlowTypeOK
      /\ TypeOK /\ ListInv /\ TodoInv /\ ServerInv /\ CtrlInv /\ ProgressInv /\ ConfInv /\ TgtInv
  BY PartsOf
<1>3. PICK p \in Initiators : p = Here
  BY <1>1, <1>2, HeadIsTyped
<1>4. /\ p[1] \in ToSet(all_initiators) /\ p[2] \in ToSet(all_targets)
      /\ p[1] \in Hosts /\ p[2] \in Hosts /\ p = <<p[1], p[2]>>
      /\ Initiators = Hosts \X Hosts
  <2>1. Initiators = Hosts \X Hosts
    BY MultiAssumption
  <2>2. p \in ToSet(all_initiators) \X ToSet(all_targets)
    BY <1>1, <1>2, <1>3, HeadIsTyped DEF TodoInv
  <2>3. QED
    BY <2>1, <2>2
<1>5. CASE Fails /\ UNCHANGED <<rpcs, alive, host_ctrls>>
  <2>1. UNCHANGED niVars /\ UNCHANGED listVars
    BY <1>1, <1>5 DEF niVars, listVars
  <2>2. QED
    BY <1>1, <1>5, <2>1, FailsKeeps, MultiParts
<1>6. CASE /\ rpcs' = [rpcs EXCEPT ![p] = ServerOf(p)] /\ alive' = alive \cup {ServerOf(p)}
           /\ host_ctrls' = [host_ctrls EXCEPT ![p[1]] = Cons(p[2], @)]
           /\ p[2] \notin ToSet(host_ctrls[p[1]]) /\ UNCHANGED flowVars
  <2>1. host_ctrls \in [Hosts -> Seq(Hosts)] /\ \A i \in Hosts : Distinct(host_ctrls[i])
    BY <1>2 DEF ListTypeOK, ListInv
  <2>2. /\ Cons(p[2], host_ctrls[p[1]]) \in Seq(Hosts)
        /\ ToSet(Cons(p[2], host_ctrls[p[1]])) = {p[2]} \cup ToSet(host_ctrls[p[1]])
        /\ Distinct(Cons(p[2], host_ctrls[p[1]]))
    BY <1>4, <1>6, <2>1, ConsElements
  <2>3. /\ host_ctrls' \in [Hosts -> Seq(Hosts)] /\ \A i \in Hosts : Distinct(host_ctrls'[i])
        /\ \A i \in Hosts : ToSet(host_ctrls'[i]) =
             IF i = p[1] THEN {p[2]} \cup ToSet(host_ctrls[i]) ELSE ToSet(host_ctrls[i])
    BY <1>4, <1>6, <2>1, <2>2
  <2>4. Listed' = Listed \cup {p}
    <3>1. \A q \in Initiators : q[1] \in Hosts /\ q = <<q[1], q[2]>>
      BY <1>4
    <3>2. \A q \in Initiators : q[2] \in ToSet(host_ctrls'[q[1]]) <=>
            q[2] \in ToSet(host_ctrls[q[1]]) \/ q = p
      BY <1>4, <2>3, <3>1
    <3>3. QED
      BY <3>2 DEF Listed
  <2>5. rpcs' = RootOf /\ alive' = alive \cup {RootOf[p]}
    BY <1>2, <1>6, ServerAssumption DEF ServerInv, ServerOf
  <2>6. /\ InitHosts' = InitHosts /\ TgtHosts' = TgtHosts /\ EnvPairs' = EnvPairs /\ Ifs' = Ifs
        /\ stage' = stage /\ todo' = todo /\ verdict' = verdict /\ Remaining' = Remaining
    BY <1>1, <1>6 DEF InitHosts, TgtHosts, EnvPairs, Ifs, flowVars, Remaining
  <2>7. \A s \in LoopsOfInterest : \A x : Did(s, x)' <=> Did(s, x)
    BY <1>1, <2>6 DEF Did, Behind
  <2>8. ListTypeOK' /\ FlowTypeOK'
    BY <1>1, <1>2, <2>3, <2>6 DEF ListTypeOK, FlowTypeOK, Stages
  <2>9. NITypeOK' /\ ToolTypeOK' /\ ConfTypeOK' /\ TgtTypeOK'
    <3>1. RootOf[p] \in Servers /\ RootOf \in [Initiators -> Servers]
      BY ServerAssumption
    <3>2. NITypeOK'
      BY <1>1, <1>2, <2>5, <3>1 DEF NITypeOK
    <3>3. QED
      BY <1>1, <1>2, <3>2 DEF ToolTypeOK, ConfTypeOK, TgtTypeOK
  <2>10. ListInv'
    BY <1>1, <1>2, <1>4, <2>3, <2>4, <2>6 DEF ListInv
  <2>11. TodoInv'
    BY <1>1, <1>2, <2>6 DEF TodoInv
  <2>12. ServerInv'
    BY <1>1, <1>2, <2>4, <2>5, <2>6 DEF ServerInv
  <2>13. CtrlInv'
    BY <1>1, <1>2, <2>4, <2>6 DEF CtrlInv
  <2>14. ProgressInv'
    BY <1>1, <1>2, <2>4, <2>6, <2>7 DEF ProgressInv, LoopsOfInterest
  <2>15. ConfInv'
    BY <1>1, <1>2, <2>6, <2>7 DEF ConfInv, LoopsOfInterest, Featured, AsksNetem, Impaired
  <2>16. TgtInv'
    BY <1>1, <1>2, <2>6 DEF TgtInv
  <2>17. QED
    BY <2>8, <2>9, <2>10, <2>11, <2>12, <2>13, <2>14, <2>15, <2>16, MultiParts
<1>7. QED
  BY <1>3, <1>5, <1>6 DEF AddHostCtrl

LEMMA CreateKeeps ==
  ASSUME MultiInv, CreateStep PROVE MultiInv'
<1>1. /\ stage = "create" /\ todo # <<>> /\ stage \notin Cleanup
      /\ UNCHANGED <<all_initiators, all_targets, host_ctrls, conf, tgt>>
      /\ UNCHANGED niVars /\ UNCHANGED env
  BY DEF CreateStep, At, Cleanup
<1>2. /\ NITypeOK /\ ToolTypeOK /\ ConfTypeOK /\ ListTypeOK /\ TgtTypeOK /\ FlowTypeOK
      /\ TypeOK /\ ListInv /\ TodoInv /\ ServerInv /\ CtrlInv /\ ProgressInv /\ ConfInv /\ TgtInv
  BY PartsOf
<1>3. Apps = Initiators
  BY MultiAssumption
<1>4. PICK p \in Apps : p = Here
  BY <1>1, <1>2, <1>3, HeadIsTyped
<1>5. p \in Listed /\ p \notin ToSet(all_fios) /\ p \in Remaining
  BY <1>1, <1>2, <1>4, HeadIsTyped DEF TodoInv
<1>6. CASE Fails /\ UNCHANGED <<all_fios, job>>
  <2>1. UNCHANGED listVars
    BY <1>1, <1>6 DEF listVars
  <2>2. QED
    BY <1>1, <1>6, <2>1, FailsKeeps, MultiParts
<1>7. CASE Goes /\ all_fios' = Cons(p, all_fios) /\ job' = [job EXCEPT ![p] = "idle"]
  <2>1. /\ FlowTypeOK' /\ Distinct(todo') /\ stage' = stage /\ verdict' = verdict
        /\ Remaining' = Remaining \ {p}
        /\ \A s \in LoopsOfInterest : \A x :
             Did(s, x)' => Did(s, x) \/ (stage = s /\ x = p)
    BY <1>1, <1>2, <1>4, <1>7, GoesOn
  <2>2. all_fios \in Seq(Apps) /\ Distinct(all_fios)
    BY <1>2 DEF ListTypeOK, ListInv
  <2>3. /\ all_fios' \in Seq(Apps) /\ ToSet(all_fios') = {p} \cup ToSet(all_fios)
        /\ Distinct(all_fios')
    BY <1>5, <1>7, <2>2, ConsElements
  <2>4. /\ InitHosts' = InitHosts /\ TgtHosts' = TgtHosts /\ EnvPairs' = EnvPairs /\ Ifs' = Ifs
        /\ Listed' = Listed
    BY <1>1 DEF InitHosts, TgtHosts, EnvPairs, Ifs, Listed
  <2>5. ListTypeOK' /\ NITypeOK' /\ ToolTypeOK' /\ ConfTypeOK' /\ TgtTypeOK'
    BY <1>1, <1>2, <1>7, <2>3
       DEF ListTypeOK, NITypeOK, niVars, ToolTypeOK, JobStates, ConfTypeOK, TgtTypeOK
  <2>6. ListInv'
    BY <1>1, <1>2, <1>5, <2>3, <2>4 DEF ListInv
  <2>7. TodoInv'
    BY <1>1, <1>2, <2>1, <2>3, <2>4 DEF TodoInv
  <2>8. ServerInv' /\ CtrlInv'
    BY <1>1, <1>2, <2>1, <2>4 DEF ServerInv, CtrlInv, niVars
  <2>9. ProgressInv'
    <3>1. \A s \in {"load", "connect", "wait"} : \A x : Did(s, x)' => Did(s, x)
      BY <1>1, <2>1 DEF LoopsOfInterest
    <3>2. \A q \in EnvPairs : Did("create", q)' => q \in ToSet(all_fios')
      BY <1>2, <2>1, <2>3 DEF ProgressInv, LoopsOfInterest
    <3>3. \A q \in EnvPairs : ~ (Did("wait", q)' \/ verdict' = "pass")
      <4>1. \A q : ~ Did("wait", q)
        BY <1>1 DEF Did, Behind
      <4>2. QED
        BY <1>1, <1>2, <2>1, <3>1, <4>1 DEF ProgressInv
    <3>4. \A a \in Apps : job'[a] # "none" => a \in ToSet(all_fios')
      BY <1>2, <1>7, <2>3 DEF ProgressInv, ToolTypeOK
    <3>5. QED
      BY <1>1, <1>2, <2>1, <2>4, <3>1, <3>2, <3>3, <3>4 DEF ProgressInv
  <2>10. ConfInv'
    <3>1. /\ \A f : Did("features", f)
          /\ env.netem # "never" => \A i : Did("netem", i)
      BY <1>1 DEF Did, Behind
    <3>2. QED
      BY <1>1, <1>2, <2>1, <2>4, <3>1 DEF ConfInv, Featured, AsksNetem, Impaired
  <2>11. TgtInv'
    BY <1>1, <1>2, <2>1 DEF TgtInv
  <2>12. QED
    BY <2>1, <2>5, <2>6, <2>7, <2>8, <2>9, <2>10, <2>11, MultiParts
<1>8. QED
  BY <1>4, <1>6, <1>7 DEF CreateStep

-----------------------------------------------------------------------------
(***************************************************************************)
(* The invariant holds throughout.                                         *)
(***************************************************************************)
LEMMA MultiInit == Init => MultiInv
<1> SUFFICES ASSUME Init PROVE MultiInv
  OBVIOUS
<1>1. /\ stage = "load" /\ verdict = "fail" /\ todo = Endpoints
      /\ env \in Environments /\ all_initiators = <<>> /\ all_targets = <<>> /\ all_fios = <<>>
      /\ host_ctrls = [i \in Hosts |-> <<>>]
  BY DEF Init, Items
<1>2. /\ todo \in Seq(Hosts) /\ Distinct(todo) /\ Remaining = Hosts
  BY <1>1, EndpointsAre DEF Remaining
<1>3. \A T : <<>> \in Seq(T)
  OBVIOUS
<1>4. ListTypeOK
  BY <1>1, <1>3 DEF ListTypeOK
<1>5. FlowTypeOK
  BY <1>1, <1>2 DEF FlowTypeOK, Stages, ItemType
<1>6. NITypeOK
  BY ServerAssumption DEF Init, NITypeOK, CtrlStates
<1>7. ToolTypeOK /\ TgtTypeOK
  BY DEF Init, ToolTypeOK, JobStates, TgtTypeOK
<1>8. DOMAIN conf = Ifaces /\ \A f \in Ifaces : conf[f] = Untouched
  BY DEF Init, ConfInit
<1>9. ConfTypeOK
  BY <1>8, UntouchedIs DEF ConfTypeOK
<1>10. Listed = {}
  BY <1>1, EmptyList, MultiAssumption DEF Listed
<1>11. ListInv
  BY <1>1, <1>10, EmptyList DEF ListInv
<1>12. TodoInv
  BY <1>1, <1>2, EmptyList DEF TodoInv
<1>13. ServerInv
  BY <1>10 DEF Init, ServerInv
<1>14. CtrlInv
  BY <1>1 DEF Init, CtrlInv, Cleanup
<1>15. /\ \A h \in Hosts : ~ Did("load", h)
       /\ \A s \in LoopsOfInterest \ {"load"} : \A x : ~ Did(s, x)
  BY <1>1, <1>2 DEF Did, Behind, LoopsOfInterest
<1>16. InitHosts \subseteq Hosts /\ TgtHosts \subseteq Hosts
  BY <1>1, EnvironmentIs
<1>17. ProgressInv
  BY <1>1, <1>15, <1>16 DEF Init, ProgressInv, LoopsOfInterest
<1>18. ConfInv
  BY <1>1, <1>8, <1>15, UntouchedIs DEF ConfInv, LoopsOfInterest
<1>19. TgtInv
  BY DEF Init, TgtInv
<1>20. TypeOK
  BY <1>4, <1>5, <1>6, <1>7, <1>9, TypeParts
<1>21. QED
  BY <1>11, <1>12, <1>13, <1>14, <1>17, <1>18, <1>19, <1>20 DEF MultiInv

LEMMA MultiStep == MultiInv /\ [Next]_vars => MultiInv'
<1> SUFFICES ASSUME MultiInv, [Next]_vars PROVE MultiInv'
  OBVIOUS
<1>1. CASE TestStep
  BY <1>1, LoadKeeps, NetemKeeps, SetupKeeps, AddKeeps, ConnectKeeps, FeaturesKeeps,
     CreateKeeps, FioKeeps, DisconnectKeeps, FiniKeeps, LoopEndsKeeps DEF TestStep
<1>2. CASE KernelStep
  BY <1>2, KernelKeeps
<1>3. CASE \E a \in Apps : FioExits(a)
  BY <1>3, ExitKeeps
<1>4. CASE UNCHANGED vars
  <2>1. /\ UNCHANGED niVars /\ UNCHANGED job /\ UNCHANGED conf /\ UNCHANGED tgt
        /\ UNCHANGED env /\ UNCHANGED listVars /\ UNCHANGED flowVars
    BY <1>4 DEF vars
  <2>2. QED
    BY <2>1, StaysKeeps, MultiParts
<1>5. QED
  BY <1>1, <1>2, <1>3, <1>4 DEF Next

LEMMA MultiAlways == Spec => []MultiInv
BY MultiInit, MultiStep, PTL DEF Spec

\* Every variable stays in its type, the lists of hosts and the loop's rest included.
THEOREM TypeCorrect == Spec => []TypeOK
BY MultiAlways, PTL DEF MultiInv

\* Whatever call of the set-up failed, a controller that was connected, or may have
\* been, is in the lists the cleanup goes through.
THEOREM ConnectedAreListed == Spec => []ConnectedIsListed
<1>1. MultiInv => ConnectedIsListed
  BY ControllersAre DEF MultiInv, CtrlInv, ConnectedIsListed
<1>2. QED
  BY <1>1, MultiAlways, PTL

\* The cleanup disconnects every controller of every initiator: one is left only if
\* its own disconnect failed.
THEOREM LeftoversWereTried == Spec => []LeftoverWasTried
<1>1. MultiInv => LeftoverWasTried
  BY DEF MultiInv, CtrlInv, LeftoverWasTried, Cleanup
<1>2. QED
  BY <1>1, MultiAlways, PTL

\* However many disconnects hang, the next one finds its server ready.
THEOREM HangsAreAlone == Spec => []HangsAlone
<1>1. ASSUME MultiInv, stage = "disconnect", todo # <<>> PROVE Ready(rpcs[Here])
  <2>1. TypeOK /\ TodoInv /\ ServerInv /\ NITypeOK
    BY <1>1, PartsOf
  <2>2. Here \in Initiators /\ Here \in Remaining /\ Here \in Listed
    BY <1>1, <2>1, HeadIsTyped DEF TodoInv
  <2>3. RootOf[Here] \in Servers /\ RootOf[Here] \in alive /\ rpcs[Here] = RootOf[Here]
    BY <2>1, <2>2, ServerFacts DEF ServerInv
  <2>4. pending[RootOf[Here]] = Null
    <3>1. SUFFICES ASSUME pending[RootOf[Here]] # Null PROVE FALSE
      OBVIOUS
    <3>2. PICK q : q = pending[RootOf[Here]]
      OBVIOUS
    <3>3. q \in Initiators /\ RootOf[q] = RootOf[Here] /\ q \notin Remaining
      BY <1>1, <2>1, <2>3, <3>1, <3>2 DEF ServerInv, NITypeOK
    <3>4. q = Here
      BY <2>2, <3>3, MultiAssumption
    <3>5. QED
      BY <2>2, <3>3, <3>4
  <2>5. QED
    BY <2>3, <2>4 DEF Ready
<1>2. MultiInv => HangsAlone
  BY <1>1 DEF HangsAlone
<1>3. QED
  BY <1>2, MultiAlways, PTL

\* A passed test has connected every initiator to every target and let fio work to its
\* end on each pair.
THEOREM PassedWorked == Spec => []PassedWorkedEverywhere
<1>1. MultiInv => PassedWorkedEverywhere
  BY DEF MultiInv, ProgressInv, PassedWorkedEverywhere
<1>2. QED
  BY <1>1, MultiAlways, PTL

\* While there is fio, the interfaces do not differ in their features.
THEOREM InterfacesAreSame == Spec => []SameOnAllInterfaces
<1>1. MultiInv => SameOnAllInterfaces
  <2> SUFFICES ASSUME MultiInv, all_fios # <<>>, NEW f \in ToSet(EnvIfs), NEW g \in ToSet(EnvIfs),
                      NEW name \in IfFeatureNames
               PROVE  conf[f][name] = conf[g][name] /\ conf[f]["rx-lro"] = Params["lro"]
    BY DEF SameOnAllInterfaces
  <2>1. f \in Ifs /\ g \in Ifs
    BY EnvIfsAre, PartsOf DEF ListTypeOK
  <2>2. Featured(f) /\ Featured(g)
    BY <2>1 DEF MultiInv, ConfInv
  <2>3. "rx-lro" \in IfFeatureNames
    BY DEF IfFeatureNames
  <2>4. QED
    BY <2>2, <2>3 DEF Featured
<1>2. QED
  BY <1>1, MultiAlways, PTL

\* No link is impaired by half of what was asked, and fio of the stability test never
\* works over one that is not impaired.
THEOREM NetemIsWhole == Spec => []NetemAllOrNothing
<1>1. MultiInv => NetemAllOrNothing
  <2> SUFFICES ASSUME MultiInv, NEW i \in Hosts
               PROVE  /\ Impaired(<<"init", i>>) => AsksNetem(<<"init", i>>, netem_opts)
                      /\ i < env.inits /\ all_fios # <<>> /\ env.netem # "never" =>
                           Impaired(<<"init", i>>)
    BY DEF NetemAllOrNothing
  <2>1. ConfInv /\ env \in Environments
    BY PartsOf DEF ListTypeOK
  <2>2. <<"init", i>> \in Ifaces
    BY MultiAssumption
  <2>3. i < env.inits => i \in InitHosts
    BY <2>1, EnvironmentIs
  <2>4. QED
    BY <2>1, <2>2, <2>3 DEF ConfInv, Impaired
<1>2. QED
  BY <1>1, MultiAlways, PTL

-----------------------------------------------------------------------------
(***************************************************************************)
(* The tests with many connections implement TestContract, too.            *)
(***************************************************************************)
LEMMA CleanWhenPassed ==
  ASSUME MultiInv, stage = "fini", todo = <<>>, verdict = "pass" PROVE ~ Dirty
<1>1. /\ CtrlInv /\ TgtInv /\ ProgressInv /\ ListInv /\ TypeOK /\ ToolTypeOK
  BY PartsOf
<1>2. Remaining = {}
  BY EmptyList DEF Remaining
<1>3. ASSUME NEW p \in Initiators, ctrl[p] # "absent", rc[p] # "error" PROVE FALSE
  <2>1. CASE dev[p]
    BY <1>1, <1>3, <2>1 DEF CtrlInv, Cleanup
  <2>2. CASE ~ dev[p]
    BY <1>1, <1>3, <2>2 DEF CtrlInv
  <2>3. QED
    BY <2>1, <2>2
<1>4. ASSUME NEW t \in Hosts, tgt[t] \in {"inited", "serving"} PROVE FALSE
  BY <1>1, <1>2, <1>4 DEF TgtInv
<1>5. ASSUME NEW a \in Apps, job[a] \in Active PROVE FALSE
  <2>1. a \in ToSet(all_fios)
    BY <1>1, <1>5 DEF ProgressInv, Active
  <2>2. a \in EnvPairs
    BY <1>1, <2>1 DEF ListInv, EnvPairs, InitHosts, TgtHosts
  <2>3. job[a] = "ended"
    BY <1>1, <2>2 DEF ProgressInv
  <2>4. QED
    BY <1>5, <2>3 DEF Active
<1>6. QED
  BY <1>3, <1>4, <1>5 DEF Dirty

\* Once the test is over the bed gets no dirtier.
LEMMA SettlesWhenOver ==
  ASSUME MultiInv, stage = "done", KernelStep \/ (\E a \in Apps : FioExits(a)), Dirty'
  PROVE  Dirty
<1>1. NITypeOK /\ ToolTypeOK
  BY PartsOf
<1>2. CASE KernelStep
  <2>1. tgt' = tgt /\ \A a \in Apps : job'[a] \in Active => job[a] \in Active
    BY <1>1, <1>2, JobsFollowing DEF KernelStep
  <2>2. rc' = rc /\ \A p \in Initiators : ctrl'[p] # "absent" => ctrl[p] # "absent"
    BY <1>1, <1>2
       DEF NITypeOK, KernelStep, CtrlLoses, CtrlRecovers, CtrlExpires, CtrlMoves, LateAnswer,
           objVars
  <2>3. QED
    BY <2>1, <2>2 DEF Dirty
<1>3. ASSUME NEW a \in Apps, FioExits(a) PROVE Dirty
  <2>1. /\ tgt' = tgt /\ ctrl' = ctrl /\ rc' = rc
        /\ job' \in {[job EXCEPT ![a] = "ended"], [job EXCEPT ![a] = "failed"]}
    BY <1>3 DEF FioExits, Exits, niVars
  <2>2. \A b \in Apps : job'[b] \in Active => job[b] \in Active
    BY <1>1, <2>1 DEF ToolTypeOK, Active
  <2>3. QED
    BY <2>1, <2>2 DEF Dirty
<1>4. QED
  BY <1>2, <1>3

\* Dirty is a formula, and what it says of the next state depends on four variables.
LEMMA DirtyIsBoolean == Dirty \in BOOLEAN /\ Dirty' \in BOOLEAN
  BY DEF Dirty

LEMMA DirtyStays ==
  ASSUME UNCHANGED <<ctrl, rc, tgt, job>> PROVE Dirty' = Dirty
  BY DEF Dirty

LEMMA PhaseIs ==
  /\ stage \notin Cleanup => Phase = "running"
  /\ stage \in {"disconnect", "fini"} => Phase = "cleaning"
  /\ stage = "done" => Phase = "over"
  BY DEF Phase, Cleanup

LEMMA ContractInitial == Init => Contract!ContractInit
<1> SUFFICES ASSUME Init PROVE Contract!ContractInit
  OBVIOUS
<1>1. stage = "load" /\ verdict = "fail"
  BY DEF Init
<1>2. ~ Dirty
  BY DEF Init, Dirty, Active
<1>3. Dirty = FALSE /\ Phase = "running"
  BY <1>1, <1>2, DirtyIsBoolean, PhaseIs DEF Cleanup
<1>4. QED
  BY <1>1, <1>3 DEF Contract!ContractInit

LEMMA PhaseWillBe ==
  /\ stage' \notin Cleanup => Phase' = "running"
  /\ stage' \in {"disconnect", "fini"} => Phase' = "cleaning"
  /\ stage' = "done" => Phase' = "over"
  BY DEF Phase, Cleanup

\* A step of the body, the one that leaves it, and a step of the cleanup.
LEMMA BodyUses ==
  ASSUME stage \notin Cleanup, stage' \notin Cleanup, verdict' = verdict
  PROVE  Contract!ContractNext
<1>1. Phase = "running" /\ Phase' = "running"
  BY PhaseIs, PhaseWillBe
<1>2. Contract!Use
  BY <1>1, DirtyIsBoolean DEF Contract!Use
<1>3. QED
  BY <1>2 DEF Contract!ContractNext

LEMMA BodyLeaves ==
  ASSUME stage \notin Cleanup, stage' = "disconnect", verdict' \in {"pass", "fail"}
  PROVE  Contract!ContractNext
<1>1. Phase = "running" /\ Phase' = "cleaning"
  BY PhaseIs, PhaseWillBe
<1>2. Contract!Leave
  BY <1>1, DirtyIsBoolean DEF Contract!Leave
<1>3. QED
  BY <1>2 DEF Contract!ContractNext

LEMMA CleanupCleans ==
  ASSUME stage \in {"disconnect", "fini"}, stage' \in {"disconnect", "fini"},
         verdict' = verdict
  PROVE  Contract!ContractNext
<1>1. Phase = "cleaning" /\ Phase' = "cleaning"
  BY PhaseIs, PhaseWillBe
<1>2. Contract!Clean
  BY <1>1, DirtyIsBoolean DEF Contract!Clean
<1>3. QED
  BY <1>2 DEF Contract!ContractNext

\* A step that leaves the test where it is, before the test is over.
LEMMA StaysInContract ==
  ASSUME stage # "done", stage' = stage, verdict' = verdict PROVE Contract!ContractNext
  BY BodyUses, CleanupCleans DEF Cleanup

LEMMA ContractStep ==
  MultiInv /\ [Next]_vars => [Contract!ContractNext]_(Contract!contractVars)
<1> SUFFICES ASSUME MultiInv, [Next]_vars
             PROVE  Contract!ContractNext \/ UNCHANGED Contract!contractVars
  OBVIOUS
<1>1. stage \in Stages /\ verdict \in {"pass", "fail"}
  BY PartsOf DEF FlowTypeOK
<1>2. ASSUME UNCHANGED <<stage, verdict>>, Dirty' = Dirty
      PROVE  UNCHANGED Contract!contractVars
  <2>1. Phase' = Phase
    BY <1>2 DEF Phase
  <2>2. QED
    BY <1>2, <2>1 DEF Contract!contractVars
<1>3. ASSUME Goes, stage # "done" PROVE Contract!ContractNext
  BY <1>3, StaysInContract DEF Goes
<1>4. ASSUME Fails, stage \notin Cleanup PROVE Contract!ContractNext
  BY <1>1, <1>4, BodyLeaves DEF Fails
<1>5. CASE LoadStep \/ NetemStep \/ SetupStep \/ ConnectStep \/ FeaturesStep \/ CreateStep
  <2>1. stage \in {"load", "netem", "setup", "connect", "features", "create"}
    BY <1>5 DEF LoadStep, NetemStep, SetupStep, ConnectStep, FeaturesStep, CreateStep, At
  <2>2. Goes \/ Fails
    BY <1>5 DEF LoadStep, NetemStep, SetupStep, ConnectStep, FeaturesStep, CreateStep
  <2>3. QED
    BY <1>3, <1>4, <2>1, <2>2 DEF Cleanup
<1>6. CASE AddHostCtrl
  <2>1. stage = "connect" /\ (UNCHANGED flowVars \/ Fails)
    BY <1>6 DEF AddHostCtrl, At
  <2>2. QED
    BY <1>4, <2>1, StaysInContract DEF Cleanup, flowVars
<1>7. CASE FioStep
  <2>1. stage \in {"start", "wait", "report"} /\ (Goes \/ Fails)
    BY <1>7 DEF FioStep, StartStep, WaitStep, ReportStep, At
  <2>2. QED
    BY <1>3, <1>4, <2>1 DEF Cleanup
<1>8. CASE DisconnectStep \/ FiniStep
  BY <1>3, <1>8 DEF DisconnectStep, FiniStep, At
<1>9. CASE LoopEnds
  <2>1. /\ stage # "done" /\ stage' = Following(stage)
        /\ verdict' = IF stage = "report" THEN "pass" ELSE verdict
        /\ todo = <<>> /\ UNCHANGED <<ctrl, rc, tgt, job>>
    BY <1>9 DEF LoopEnds, niVars
  <2>2. CASE stage = "report"
    BY <2>1, <2>2, BodyLeaves DEF Following, Cleanup
  <2>3. CASE stage = "disconnect"
    BY <2>1, <2>3, CleanupCleans DEF Following
  <2>4. CASE stage = "fini"
    <3>1. Phase = "cleaning" /\ Phase' = "over"
      BY <2>1, <2>4, PhaseIs, PhaseWillBe DEF Following
    <3>2. Dirty' = Dirty
      BY <2>1, DirtyStays
    <3>3. verdict = "pass" => ~ Dirty
      BY <2>1, <2>4, CleanWhenPassed
    <3>4. Contract!Close
      BY <2>1, <2>4, <3>1, <3>2, <3>3 DEF Contract!Close
    <3>5. QED
      BY <3>4 DEF Contract!ContractNext
  <2>5. CASE stage \notin Cleanup \cup {"report"}
    <3>1. stage' \notin Cleanup
      BY <1>1, <2>1, <2>5 DEF Following, Stages, Cleanup
    <3>2. QED
      BY <2>1, <2>5, <3>1, BodyUses
  <2>6. QED
    BY <2>1, <2>2, <2>3, <2>4, <2>5 DEF Cleanup
<1>10. CASE KernelStep \/ \E a \in Apps : FioExits(a)
  <2>1. stage' = stage /\ verdict' = verdict
    BY <1>10 DEF KernelStep, FioExits, flowVars
  <2>2. CASE stage # "done"
    BY <2>1, <2>2, StaysInContract
  <2>3. CASE stage = "done" /\ Dirty /\ ~ Dirty'
    <3>1. Phase = "over" /\ Phase' = "over"
      BY <2>1, <2>3, PhaseIs, PhaseWillBe
    <3>2. Contract!Settle
      BY <2>1, <2>3, <3>1 DEF Contract!Settle
    <3>3. QED
      BY <3>2 DEF Contract!ContractNext
  <2>4. CASE stage = "done" /\ ~ (Dirty /\ ~ Dirty')
    <3>1. Dirty' => Dirty
      BY <1>10, <2>4, SettlesWhenOver
    <3>2. Dirty' = Dirty
      BY <2>4, <3>1, DirtyIsBoolean
    <3>3. QED
      BY <1>2, <2>1, <3>2
  <2>5. QED
    BY <2>2, <2>3, <2>4
<1>11. CASE UNCHANGED vars
  <2>1. UNCHANGED <<stage, verdict, ctrl, rc, tgt, job>>
    BY <1>11 DEF vars, niVars, flowVars
  <2>2. Dirty' = Dirty
    BY <2>1, DirtyStays
  <2>3. QED
    BY <1>2, <2>1, <2>2
<1>12. QED
  BY <1>5, <1>6, <1>7, <1>8, <1>9, <1>10, <1>11 DEF Next, TestStep, Over

\* Both programs keep the contract of a test: whatever fails, the verdict is only ever
\* taken back, and a test that passes leaves no serving target, no running fio and no
\* controller behind that its cleanup did not try to disconnect.
THEOREM ContractKept == Spec => KeepsContract
  BY ContractInitial, ContractStep, MultiAlways, PTL
     DEF Spec, KeepsContract, Contract!ContractSpec
=============================================================================
