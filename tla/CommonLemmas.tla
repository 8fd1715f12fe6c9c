---------------------------- MODULE CommonLemmas ----------------------------
(***************************************************************************)
(* Facts the proofs of several components need: induction over the naturals *)
(* in a form that takes a set where the library's theorem takes an         *)
(* operator, how a remainder advances, and what the recursive functions of *)
(* Filters and Settings return.                                            *)
(***************************************************************************)
EXTENDS Filters, Settings, Integers, WellFoundedInduction, TLAPS

LEMMA SetInduction ==
  ASSUME NEW S, 0 \in S, \A n \in Nat : n \in S => n + 1 \in S
  PROVE  Nat \subseteq S
<1> SUFFICES ASSUME Nat \ S # {} PROVE FALSE
  OBVIOUS
<1> DEFINE R == OpToRel(<, Nat)
<1>1. IsWellFoundedOn(R, Nat)
  BY NatLessThanWellFounded
<1>2. \E x \in Nat \ S : \A y \in Nat \ S : ~ (<<y, x>> \in R)
  BY <1>1, WFMin
<1>3. \A x, y \in Nat : x < y => <<x, y>> \in R
  BY DEF OpToRel
<1> HIDE DEF R
<1>4. PICK x \in Nat \ S : \A y \in Nat \ S : ~ (y < x)
  BY <1>2, <1>3
<1>5. x # 0 /\ x - 1 \in Nat /\ x - 1 < x
  BY <1>4
<1>6. x - 1 \in S
  BY <1>4, <1>5
<1>7. QED
  BY <1>4, <1>5, <1>6

-----------------------------------------------------------------------------

LEMMA DivMod ==
  ASSUME NEW a \in Nat, NEW n \in Nat, n > 0
  PROVE  /\ a = n * (a \div n) + (a % n)
         /\ a \div n \in Int /\ a % n \in 0..(n - 1)
OBVIOUS

LEMMA MultipleAtLeast ==
  ASSUME NEW n \in Nat, NEW d \in Int, n > 0, d >= 1 PROVE n * d >= n
OBVIOUS

LEMMA RemainderUnique ==
  ASSUME NEW n \in Nat, n > 0, NEW q \in Int, NEW p \in Int,
         NEW r \in 0..(n - 1), NEW t \in 0..(n - 1), n * q + r = n * p + t
  PROVE  r = t
<1>1. n * (q - p) = t - r
  OBVIOUS
<1>2. CASE q - p >= 1
  BY <1>1, <1>2, MultipleAtLeast
<1>3. CASE p - q >= 1
  <2>1. n * (p - q) = r - t
    OBVIOUS
  <2>2. n * (p - q) >= n
    BY <1>3, MultipleAtLeast
  <2>3. QED
    BY <2>1, <2>2
<1>4. CASE q = p
  BY <1>4
<1>5. QED
  BY <1>2, <1>3, <1>4

\* A remainder counts up to the divisor and starts over.
LEMMA RemainderNext ==
  ASSUME NEW a \in Nat, NEW n \in Nat, n > 0
  PROVE  (a + 1) % n = IF (a % n) + 1 = n THEN 0 ELSE (a % n) + 1
<1> DEFINE q == a \div n
           r == a % n
           p == (a + 1) \div n
           t == (a + 1) % n
<1>1. a = n * q + r /\ q \in Int /\ r \in 0..(n - 1)
  BY DivMod
<1>2. a + 1 = n * p + t /\ p \in Int /\ t \in 0..(n - 1)
  BY DivMod
<1> HIDE DEF q, r, p, t
<1>3. CASE r + 1 < n
  <2>1. n * q + (r + 1) = n * p + t
    BY <1>1, <1>2
  <2>2. r + 1 \in 0..(n - 1)
    BY <1>1, <1>3
  <2>3. t = r + 1
    BY <1>1, <1>2, <2>1, <2>2, RemainderUnique
  <2>4. QED
    BY <1>3, <2>3 DEF r, t
<1>4. CASE r + 1 = n
  <2>1. n * (q + 1) + 0 = n * p + t
    BY <1>1, <1>2, <1>4
  <2>2. t = 0
    BY <1>1, <1>2, <2>1, RemainderUnique
  <2>3. QED
    BY <1>4, <2>2 DEF r, t
<1>5. QED
  BY <1>1, <1>3, <1>4

-----------------------------------------------------------------------------

LEMMA Concatenation ==
  ASSUME NEW T, NEW s \in Seq(T), NEW t \in Seq(T), NEW u, u = s \o t
  PROVE  /\ u \in Seq(T) /\ Len(u) = Len(s) + Len(t)
         /\ \A k \in 1..Len(s) : u[k] = s[k]
         /\ \A k \in (Len(s) + 1)..(Len(s) + Len(t)) : u[k] = t[k - Len(s)]
OBVIOUS

-----------------------------------------------------------------------------

\* One pass of the loop of Kept, and what it means that kept is its record.
Pass(table, asked, before, n) ==
  IF table[n] \in asked THEN Append(before, table[n]) ELSE before

Records(kept, table, asked, last) ==
  /\ kept[0] = << >>
  /\ \A n \in 1..last : kept[n] = Pass(table, asked, kept[n - 1], n)

\* The recursion of KeptAfter has a solution, so KeptAfter is one.
LEMMA RecordExists ==
  ASSUME NEW T, NEW table \in Seq(T), NEW asked
  PROVE  \E kept \in [0..Len(table) -> Seq(T)] : Records(kept, table, asked, Len(table))
<1> DEFINE S == {n \in Nat : n <= Len(table) =>
                   \E kept \in [0..n -> Seq(T)] : Records(kept, table, asked, n)}
<1>1. 0 \in S
  <2> DEFINE kept == [n \in 0..0 |-> << >>]
  <2>1. kept \in [0..0 -> Seq(T)] /\ Records(kept, table, asked, 0)
    BY DEF Records
  <2>2. QED
    BY <2>1
<1>2. ASSUME NEW n \in Nat, n \in S PROVE n + 1 \in S
  <2> SUFFICES ASSUME n + 1 <= Len(table)
               PROVE  \E kept \in [0..(n + 1) -> Seq(T)] : Records(kept, table, asked, n + 1)
    OBVIOUS
  <2>1. PICK kept \in [0..n -> Seq(T)] : Records(kept, table, asked, n)
    BY <1>2
  <2> DEFINE next == Pass(table, asked, kept[n], n + 1)
             more == [k \in 0..(n + 1) |-> IF k <= n THEN kept[k] ELSE next]
  <2>2. next \in Seq(T)
    BY DEF Pass
  <2>3. more \in [0..(n + 1) -> Seq(T)]
    BY <2>2
  <2>4. Records(more, table, asked, n + 1)
    <3> HIDE DEF next
    <3>1. more[0] = << >>
      BY <2>1 DEF Records
    <3>2. ASSUME NEW k \in 1..n PROVE more[k] = Pass(table, asked, more[k - 1], k)
      BY <2>1, <3>2 DEF Records
    <3>3. more[n + 1] = Pass(table, asked, more[n], n + 1)
      <4>1. more[n + 1] = next /\ more[n] = kept[n]
        OBVIOUS
      <4>2. QED
        BY <4>1 DEF next
    <3>4. \A k \in 1..(n + 1) : k \in 1..n \/ (k = n + 1 /\ k - 1 = n)
      OBVIOUS
    <3>5. QED
      BY <3>1, <3>2, <3>3, <3>4 DEF Records
  <2>5. QED
    BY <2>3, <2>4
<1>3. Nat \subseteq S
  <2> HIDE DEF S
  <2>1. QED
    BY <1>1, <1>2, SetInduction
<1>4. Len(table) \in S
  BY <1>3
<1>5. QED
  BY <1>4

LEMMA KeptAfterRecords ==
  ASSUME NEW T, NEW table \in Seq(T), NEW asked
  PROVE  Records(KeptAfter(table, asked), table, asked, Len(table))
<1> DEFINE N == Len(table)
           Solves(f) == f = [n \in 0..N |->
                               IF n = 0 THEN << >>
                               ELSE IF table[n] \in asked THEN Append(f[n - 1], table[n])
                                                         ELSE f[n - 1]]
<1>1. PICK kept \in [0..N -> Seq(T)] : Records(kept, table, asked, N)
  BY RecordExists
<1>2. Solves(kept)
  <2>1. kept = [n \in 0..N |-> kept[n]]
    OBVIOUS
  <2>2. ASSUME NEW n \in 0..N
        PROVE  kept[n] = IF n = 0 THEN << >>
                         ELSE IF table[n] \in asked THEN Append(kept[n - 1], table[n])
                                                   ELSE kept[n - 1]
    <3>1. n = 0 \/ n \in 1..N
      OBVIOUS
    <3>2. QED
      BY <1>1, <3>1 DEF Records, Pass
  <2>3. QED
    BY <2>1, <2>2, Zenon
<1>3. KeptAfter(table, asked) = CHOOSE f : Solves(f)
  BY DEF KeptAfter
<1>4. Solves(KeptAfter(table, asked))
  <2> HIDE DEF Solves
  <2>1. QED
    BY <1>2, <1>3
<1> HIDE DEF N
<1>5. \A n \in 0..N :
        KeptAfter(table, asked)[n] =
          IF n = 0 THEN << >>
          ELSE IF table[n] \in asked THEN Append(KeptAfter(table, asked)[n - 1], table[n])
                                    ELSE KeptAfter(table, asked)[n - 1]
  BY <1>4, Zenon
<1>6. N \in Nat /\ 0 \in 0..N /\ \A n \in 1..N : n \in 0..N /\ n # 0
  BY DEF N
<1>7. QED
  <2>1. KeptAfter(table, asked)[0] = << >>
    BY <1>5, <1>6, Zenon
  <2>2. ASSUME NEW n \in 1..N
        PROVE  KeptAfter(table, asked)[n] =
                 Pass(table, asked, KeptAfter(table, asked)[n - 1], n)
    BY <1>5, <1>6, <2>2, Zenon DEF Pass
  <2>3. QED
    BY <2>1, <2>2 DEF Records, N

\* Kept returns a sequence over the table's elements, with those that were asked for
\* and no others, and none of them twice if the table has none twice.
LEMMA KeptProperties ==
  ASSUME NEW T, NEW table \in Seq(T), NEW asked
  PROVE  /\ Kept(table, asked) \in Seq(T)
         /\ \A j \in DOMAIN Kept(table, asked) : Kept(table, asked)[j] \in asked
         /\ \A k \in DOMAIN table : table[k] \in asked =>
              \E j \in DOMAIN Kept(table, asked) : Kept(table, asked)[j] = table[k]
         /\ (\A j, k \in DOMAIN table : table[j] = table[k] => j = k) =>
              \A j, k \in DOMAIN Kept(table, asked) :
                Kept(table, asked)[j] = Kept(table, asked)[k] => j = k
<1> DEFINE K == KeptAfter(table, asked)
           Once == \A j, k \in DOMAIN table : table[j] = table[k] => j = k
           Good(n) ==
             /\ K[n] \in Seq(T)
             /\ \A j \in DOMAIN K[n] : K[n][j] \in asked /\ \E m \in 1..n : K[n][j] = table[m]
             /\ \A k \in 1..n : table[k] \in asked => \E j \in DOMAIN K[n] : K[n][j] = table[k]
             /\ Once => \A j, k \in DOMAIN K[n] : K[n][j] = K[n][k] => j = k
           S == {n \in Nat : n <= Len(table) => Good(n)}
<1>1. Records(K, table, asked, Len(table))
  BY KeptAfterRecords
<1> HIDE DEF K
<1>2. 0 \in S
  <2>1. K[0] = << >>
    BY <1>1 DEF Records
  <2>2. << >> \in Seq(T) /\ DOMAIN << >> = {} /\ 1..0 = {}
    OBVIOUS
  <2>3. Good(0)
    BY <2>1, <2>2
  <2>4. QED
    BY <2>3
<1>3. ASSUME NEW n \in Nat, n \in S PROVE n + 1 \in S
  <2> SUFFICES ASSUME n + 1 <= Len(table) PROVE Good(n + 1)
    OBVIOUS
  <2>1. Good(n)
    BY <1>3
  <2>2. K[n + 1] = Pass(table, asked, K[n], n + 1) /\ n + 1 \in DOMAIN table
    BY <1>1 DEF Records
  <2>3. \A k \in 1..(n + 1) : k \in 1..n \/ k = n + 1
    OBVIOUS
  <2>4. CASE table[n + 1] \notin asked
    <3>1. K[n + 1] = K[n]
      BY <2>2, <2>4 DEF Pass
    <3>2. \A m \in 1..n : m \in 1..(n + 1)
      OBVIOUS
    <3>3. QED
      BY <2>1, <2>3, <2>4, <3>1, <3>2
  <2>5. CASE table[n + 1] \in asked
    <3> DEFINE q == K[n]
               x == table[n + 1]
    <3>1. K[n + 1] = Append(q, x) /\ q \in Seq(T) /\ x \in T
      BY <2>1, <2>2, <2>5 DEF Pass
    <3> HIDE DEF q, x
    <3>2. /\ Append(q, x) \in Seq(T)
          /\ DOMAIN Append(q, x) = 1..(Len(q) + 1)
          /\ DOMAIN q = 1..Len(q) /\ Len(q) \in Nat
          /\ \A j \in 1..Len(q) : Append(q, x)[j] = q[j]
          /\ Append(q, x)[Len(q) + 1] = x
      BY <3>1
    <3>3. \A j \in 1..(Len(q) + 1) : j \in 1..Len(q) \/ j = Len(q) + 1
      BY <3>2
    <3>4. \A j \in DOMAIN q : q[j] \in asked /\ \E m \in 1..n : q[j] = table[m]
      BY <2>1 DEF q
    <3>5. x \in asked /\ x = table[n + 1]
      BY <2>5 DEF x
    <3>6. \A j \in 1..(Len(q) + 1) :
            /\ Append(q, x)[j] \in asked
            /\ \E m \in 1..(n + 1) : Append(q, x)[j] = table[m]
      BY <3>2, <3>3, <3>4, <3>5
    <3>7. \A k \in 1..(n + 1) : table[k] \in asked =>
            \E j \in 1..(Len(q) + 1) : Append(q, x)[j] = table[k]
      <4>1. \A k \in 1..n : table[k] \in asked => \E j \in DOMAIN q : q[j] = table[k]
        BY <2>1 DEF q
      <4>2. QED
        BY <2>3, <3>2, <3>5, <4>1
    <3>8. ASSUME Once, NEW j \in 1..(Len(q) + 1), NEW k \in 1..(Len(q) + 1),
                 Append(q, x)[j] = Append(q, x)[k]
          PROVE  j = k
      <4>1. \A m \in DOMAIN q : q[m] # x
        <5>1. \A m \in 1..n : m \in DOMAIN table /\ m # n + 1
          BY <2>2
        <5>2. QED
          BY <2>2, <3>4, <3>5, <3>8, <5>1
      <4>2. \A l, m \in DOMAIN q : q[l] = q[m] => l = m
        BY <2>1, <3>8 DEF q
      <4>3. QED
        BY <3>2, <3>3, <3>8, <4>1, <4>2
    <3> DEFINE r == Append(q, x)
    <3>9. /\ r \in Seq(T) /\ DOMAIN r = 1..(Len(q) + 1) /\ r = K[n + 1]
      BY <3>1, <3>2
    <3>10. \A j \in DOMAIN r : r[j] \in asked /\ \E m \in 1..(n + 1) : r[j] = table[m]
      BY <3>6, <3>9
    <3>11. \A k \in 1..(n + 1) : table[k] \in asked => \E j \in DOMAIN r : r[j] = table[k]
      BY <3>7, <3>9
    <3>12. Once => \A j, k \in DOMAIN r : r[j] = r[k] => j = k
      BY <3>8, <3>9
    <3> HIDE DEF r, Once
    <3>13. QED
      BY <3>9, <3>10, <3>11, <3>12
  <2>6. QED
    BY <2>4, <2>5
<1>4. Nat \subseteq S
  <2> HIDE DEF S
  <2>1. QED
    BY <1>2, <1>3, SetInduction
<1>5. Good(Len(table))
  BY <1>4
<1>6. Kept(table, asked) = K[Len(table)]
  BY DEF Kept, K
<1>7. QED
  BY <1>5, <1>6

-----------------------------------------------------------------------------

\* What one call of a run makes of the settings, and what it means that after is the
\* record of a run.
Write(settings, call) == [settings EXCEPT ![call.name] = call.value]

Writes(after, settings, calls, last) ==
  /\ after[0] = settings
  /\ \A n \in 1..last : after[n] = Write(after[n - 1], calls[n])

\* The recursion of AfterCalls has a solution, so AfterCalls is one.
LEMMA WritesExist ==
  ASSUME NEW settings, NEW calls, NEW last \in Nat
  PROVE  \E after : /\ after = [n \in 0..last |-> after[n]]
                    /\ Writes(after, settings, calls, last)
<1> DEFINE Recorded(n) == \E after : /\ after = [k \in 0..n |-> after[k]]
                                     /\ Writes(after, settings, calls, n)
           S == {n \in Nat : Recorded(n)}
<1>1. 0 \in S
  <2> DEFINE after == [k \in 0..0 |-> settings]
  <2>1. after = [k \in 0..0 |-> after[k]] /\ Writes(after, settings, calls, 0)
    BY DEF Writes
  <2>2. QED
    BY <2>1
<1>2. ASSUME NEW n \in Nat, n \in S PROVE n + 1 \in S
  <2>1. PICK after : /\ after = [k \in 0..n |-> after[k]]
                     /\ Writes(after, settings, calls, n)
    BY <1>2
  <2> DEFINE next == Write(after[n], calls[n + 1])
             more == [k \in 0..(n + 1) |-> IF k <= n THEN after[k] ELSE next]
  <2>2. Writes(more, settings, calls, n + 1)
    <3> HIDE DEF next
    <3>1. more[0] = settings
      BY <2>1 DEF Writes
    <3>2. ASSUME NEW k \in 1..n PROVE more[k] = Write(more[k - 1], calls[k])
      <4>1. more[k] = after[k] /\ more[k - 1] = after[k - 1]
        OBVIOUS
      <4>2. QED
        BY <2>1, <4>1 DEF Writes
    <3>3. more[n + 1] = Write(more[n], calls[n + 1])
      <4>1. more[n + 1] = next /\ more[n] = after[n]
        OBVIOUS
      <4>2. QED
        BY <4>1 DEF next
    <3>4. \A k \in 1..(n + 1) : k \in 1..n \/ k = n + 1
      OBVIOUS
    <3>5. n + 1 - 1 = n
      OBVIOUS
    <3> HIDE DEF more
    <3>6. \A k \in 1..(n + 1) : more[k] = Write(more[k - 1], calls[k])
      BY <3>2, <3>3, <3>4, <3>5
    <3>7. QED
      BY <3>1, <3>6 DEF Writes
  <2>3. more = [k \in 0..(n + 1) |-> more[k]]
    OBVIOUS
  <2>4. QED
    <3> HIDE DEF more
    <3>1. QED
      BY <2>2, <2>3
<1>3. Nat \subseteq S
  <2> HIDE DEF S
  <2>1. QED
    BY <1>1, <1>2, SetInduction
<1>4. QED
  BY <1>3

LEMMA AfterCallsWrites ==
  ASSUME NEW settings, NEW calls, Len(calls) \in Nat
  PROVE  Writes(AfterCalls(settings, calls), settings, calls, Len(calls))
<1> DEFINE N == Len(calls)
           A == AfterCalls(settings, calls)
           Solves(f) == f = [n \in 0..N |->
                               IF n = 0 THEN settings
                               ELSE [f[n - 1] EXCEPT ![calls[n].name] = calls[n].value]]
<1>1. PICK after : after = [n \in 0..N |-> after[n]] /\ Writes(after, settings, calls, N)
  BY WritesExist
<1>2. Solves(after)
  <2>1. ASSUME NEW n \in 0..N
        PROVE  after[n] = IF n = 0 THEN settings
                          ELSE [after[n - 1] EXCEPT ![calls[n].name] = calls[n].value]
    <3>1. n = 0 \/ n \in 1..N
      OBVIOUS
    <3>2. QED
      BY <1>1, <3>1 DEF Writes, Write
  <2>2. QED
    BY <1>1, <2>1, Zenon
<1>3. A = CHOOSE f : Solves(f)
  BY DEF AfterCalls
<1>4. Solves(A)
  <2> HIDE DEF Solves
  <2>1. QED
    BY <1>2, <1>3
<1> HIDE DEF N, A
<1>5. \A n \in 0..N :
        A[n] = IF n = 0 THEN settings
               ELSE [A[n - 1] EXCEPT ![calls[n].name] = calls[n].value]
  BY <1>4, Zenon
<1>6. N \in Nat /\ 0 \in 0..N /\ \A n \in 1..N : n \in 0..N /\ n # 0
  BY DEF N
<1>7. A[0] = settings
  BY <1>5, <1>6, Zenon
<1>8. ASSUME NEW n \in 1..N PROVE A[n] = Write(A[n - 1], calls[n])
  BY <1>5, <1>6, <1>8, Zenon DEF Write
<1>9. QED
  BY <1>7, <1>8 DEF Writes, N, A

\* What a setting is after the first n calls: what it was if none of them named it,
\* and otherwise what the last that did wrote.
LEMMA AfterCallsProperties ==
  ASSUME NEW settings, NEW calls, Len(calls) \in Nat, NEW n \in 0..Len(calls)
  PROVE  /\ DOMAIN AfterCalls(settings, calls)[n] = DOMAIN settings
         /\ \A name \in DOMAIN settings :
              \/ /\ AfterCalls(settings, calls)[n][name] = settings[name]
                 /\ \A k \in 1..n : calls[k].name # name
              \/ \E k \in 1..n :
                   /\ calls[k].name = name
                   /\ AfterCalls(settings, calls)[n][name] = calls[k].value
                   /\ \A m \in (k + 1)..n : calls[m].name # name
<1> DEFINE A == AfterCalls(settings, calls)
           Unnamed(name, k, m) == \A j \in k..m : calls[j].name # name
           Last(name, m) ==
             \/ A[m][name] = settings[name] /\ Unnamed(name, 1, m)
             \/ \E k \in 1..m : /\ calls[k].name = name /\ A[m][name] = calls[k].value
                                /\ Unnamed(name, k + 1, m)
           Good(m) == m <= Len(calls) =>
             DOMAIN A[m] = DOMAIN settings /\ \A name \in DOMAIN settings : Last(name, m)
           S == {m \in Nat : Good(m)}
<1>1. A[0] = settings /\ \A m \in 1..Len(calls) : A[m] = Write(A[m - 1], calls[m])
  BY AfterCallsWrites DEF Writes
<1> HIDE DEF A
<1>2. 0 \in S
  BY <1>1
<1>3. ASSUME NEW m \in Nat, m \in S PROVE m + 1 \in S
  <2> SUFFICES ASSUME m + 1 <= Len(calls)
               PROVE  /\ DOMAIN A[m + 1] = DOMAIN settings
                      /\ \A name \in DOMAIN settings : Last(name, m + 1)
    OBVIOUS
  <2>1. m + 1 \in 1..Len(calls) /\ m + 1 - 1 = m /\ m <= Len(calls)
    OBVIOUS
  <2>2. A[m + 1] = Write(A[m], calls[m + 1])
    BY <1>1, <2>1
  <2>3. DOMAIN A[m] = DOMAIN settings /\ \A name \in DOMAIN settings : Last(name, m)
    BY <1>3, <2>1
  <2>4. DOMAIN A[m + 1] = DOMAIN settings
    BY <2>2, <2>3 DEF Write
  <2>5. ASSUME NEW name \in DOMAIN settings PROVE Last(name, m + 1)
    <3>1. CASE calls[m + 1].name = name
      <4>1. A[m + 1][name] = calls[m + 1].value
        BY <2>2, <2>3, <3>1 DEF Write
      <4>2. m + 1 \in 1..(m + 1) /\ Unnamed(name, (m + 1) + 1, m + 1)
        OBVIOUS
      <4>3. QED
        BY <3>1, <4>1, <4>2
    <3>2. CASE calls[m + 1].name # name
      <4>1. A[m + 1][name] = A[m][name]
        BY <2>2, <2>3, <3>2 DEF Write
      <4>2. \A k \in Nat : Unnamed(name, k, m) => Unnamed(name, k, m + 1)
        <5>1. \A k \in Nat : \A j \in k..(m + 1) : j \in k..m \/ j = m + 1
          OBVIOUS
        <5>2. QED
          BY <3>2, <5>1
      <4>3. \A k \in 1..m : k \in 1..(m + 1) /\ k + 1 \in Nat
        OBVIOUS
      <4>4. Last(name, m)
        BY <2>3
      <4> HIDE DEF Unnamed
      <4>5. QED
        BY <4>1, <4>2, <4>3, <4>4
    <3>3. QED
      BY <3>1, <3>2
  <2>6. QED
    BY <2>4, <2>5
<1>4. Nat \subseteq S
  <2> HIDE DEF S
  <2>1. QED
    BY <1>2, <1>3, SetInduction
<1>5. Good(n)
  BY <1>4
<1>6. QED
  BY <1>5 DEF A

-----------------------------------------------------------------------------

LEMMA FeatureCallsAre ==
  ASSUME NEW opts
  PROVE  /\ Len(FeatureCalls(opts)) = 6
         /\ FeatureCalls(opts)[1] = Set("mtu", opts.mtu)
         /\ \A k \in 2..5 : FeatureCalls(opts)[k] = Set(TsoFeatures[k - 1], opts.lro)
         /\ FeatureCalls(opts)[6] = Set("rx-lro", opts.lro)
<1> DEFINE mtu == <<Set("mtu", opts.mtu)>>
           tso == [k \in DOMAIN TsoFeatures |-> Set(TsoFeatures[k], opts.lro)]
           lro == <<Set("rx-lro", opts.lro)>>
           Calls == {Set("mtu", opts.mtu), Set("rx-lro", opts.lro)}
                    \cup {Set(TsoFeatures[k], opts.lro) : k \in 1..4}
<1>1. DOMAIN TsoFeatures = 1..4
  BY DEF TsoFeatures
<1>2. /\ mtu \in Seq(Calls) /\ Len(mtu) = 1 /\ mtu[1] = Set("mtu", opts.mtu)
      /\ lro \in Seq(Calls) /\ Len(lro) = 1 /\ lro[1] = Set("rx-lro", opts.lro)
  OBVIOUS
<1>3. /\ tso \in Seq(Calls) /\ Len(tso) = 4
      /\ \A k \in 1..4 : tso[k] = Set(TsoFeatures[k], opts.lro)
  <2>1. \A k \in 1..4 : Set(TsoFeatures[k], opts.lro) \in Calls
    OBVIOUS
  <2>2. tso \in [1..4 -> Calls]
    BY <1>1, <2>1
  <2>3. tso \in Seq(Calls) /\ DOMAIN tso = 1..4
    BY <2>2
  <2>4. QED
    BY <1>1, <2>3
<1> HIDE DEF mtu, tso, lro, Calls
<1> DEFINE most == mtu \o tso
<1>4. /\ most \in Seq(Calls) /\ Len(most) = Len(mtu) + Len(tso)
      /\ \A k \in 1..Len(mtu) : most[k] = mtu[k]
      /\ \A k \in (Len(mtu) + 1)..(Len(mtu) + Len(tso)) : most[k] = tso[k - Len(mtu)]
  <2>1. mtu \in Seq(Calls) /\ tso \in Seq(Calls)
    BY <1>2, <1>3
  <2>2. QED
    BY <2>1, Concatenation
<1>5. FeatureCalls(opts) = most \o lro
  BY DEF FeatureCalls, mtu, tso, lro
<1> HIDE DEF most
<1>6. /\ Len(FeatureCalls(opts)) = Len(most) + Len(lro)
      /\ \A k \in 1..Len(most) : FeatureCalls(opts)[k] = most[k]
      /\ \A k \in (Len(most) + 1)..(Len(most) + Len(lro)) :
           FeatureCalls(opts)[k] = lro[k - Len(most)]
  <2>1. most \in Seq(Calls) /\ lro \in Seq(Calls)
    BY <1>2, <1>4
  <2>2. QED
    BY <1>5, <2>1, Concatenation
<1>7. Len(most) = 5 /\ most[1] = mtu[1] /\ \A k \in 2..5 : most[k] = tso[k - 1]
  BY <1>2, <1>3, <1>4
<1>8. /\ Len(FeatureCalls(opts)) = 6 /\ FeatureCalls(opts)[6] = lro[1]
      /\ \A k \in 1..5 : FeatureCalls(opts)[k] = most[k]
  BY <1>2, <1>6, <1>7
<1>9. \A k \in 2..5 : k \in 1..5 /\ k - 1 \in 1..4
  OBVIOUS
<1>10. QED
  BY <1>2, <1>3, <1>7, <1>8, <1>9

\* The calls of tsapi_apply_if_feature_opts write the features and nothing else; when
\* all have been made, the MTU is the one given and everything else has LRO's value.
LEMMA FeaturesWritten ==
  ASSUME NEW settings, NEW opts, NEW n \in 0..Len(FeatureCalls(opts))
  PROVE  LET after == AfterCalls(settings, FeatureCalls(opts))[n]
         IN  /\ DOMAIN after = DOMAIN settings
             /\ \A name \in DOMAIN settings :
                  /\ name \notin IfFeatureNames => after[name] = settings[name]
                  /\ n = Len(FeatureCalls(opts)) /\ name \in IfFeatureNames =>
                       after[name] = IF name = "mtu" THEN opts.mtu ELSE opts.lro
<1> DEFINE calls == FeatureCalls(opts)
           after == AfterCalls(settings, calls)[n]
<1>1. /\ Len(calls) = 6
      /\ calls[1] = Set("mtu", opts.mtu) /\ calls[6] = Set("rx-lro", opts.lro)
      /\ \A k \in 2..5 : calls[k] = Set(TsoFeatures[k - 1], opts.lro)
  BY FeatureCallsAre
<1>2. /\ DOMAIN after = DOMAIN settings
      /\ \A name \in DOMAIN settings :
           \/ /\ after[name] = settings[name]
              /\ \A k \in 1..n : calls[k].name # name
           \/ \E k \in 1..n : calls[k].name = name /\ after[name] = calls[k].value
  <2>1. Len(calls) \in Nat
    BY <1>1
  <2> HIDE DEF calls
  <2>2. n \in 0..Len(calls)
    BY DEF calls
  <2>3. QED
    BY <2>1, <2>2, AfterCallsProperties
<1> HIDE DEF calls, after
<1>3. \A k \in 1..6 : k = 1 \/ k = 6 \/ (k \in 2..5 /\ k - 1 \in 1..4)
  OBVIOUS
<1>4. DOMAIN TsoFeatures = 1..4 /\ \A k \in 1..4 : TsoFeatures[k] # "mtu"
  <2>1. \A k \in 1..4 : k = 1 \/ k = 2 \/ k = 3 \/ k = 4
    OBVIOUS
  <2>2. QED
    BY <2>1 DEF TsoFeatures
<1>5. ASSUME NEW k \in 1..6
      PROVE  /\ calls[k].name \in IfFeatureNames
             /\ calls[k].value = IF calls[k].name = "mtu" THEN opts.mtu ELSE opts.lro
  BY <1>1, <1>3, <1>4 DEF Set, IfFeatureNames
<1>6. ASSUME NEW name \in IfFeatureNames PROVE \E k \in 1..6 : calls[k].name = name
  <2>1. CASE name = "mtu"
    BY <1>1, <2>1 DEF Set
  <2>2. CASE name = "rx-lro"
    BY <1>1, <2>2 DEF Set
  <2>3. CASE \E k \in 1..4 : name = TsoFeatures[k]
    <3>1. PICK k \in 1..4 : name = TsoFeatures[k]
      BY <2>3
    <3>2. k + 1 \in 1..6 /\ k + 1 \in 2..5 /\ k + 1 - 1 = k
      OBVIOUS
    <3>3. QED
      BY <1>1, <3>1, <3>2 DEF Set
  <2>4. QED
    BY <1>4, <2>1, <2>2, <2>3 DEF IfFeatureNames
<1>7. n \in 0..6 /\ \A k \in 1..n : k \in 1..6
  BY <1>1 DEF calls
<1>8. ASSUME NEW name \in DOMAIN settings
      PROVE  /\ name \notin IfFeatureNames => after[name] = settings[name]
             /\ n = 6 /\ name \in IfFeatureNames =>
                  after[name] = IF name = "mtu" THEN opts.mtu ELSE opts.lro
  BY <1>2, <1>5, <1>6, <1>7
<1>9. QED
  BY <1>1, <1>2, <1>8 DEF after, calls

\* The calls of tsapi_apply_if_netem_opts write the discipline and nothing else.  It is
\* enabled by the last of them, when it has all its parameters, and disabled before.
LEMMA NetemWritten ==
  ASSUME NEW settings, NEW opts, NEW n \in 0..Len(NetemCalls(opts))
  PROVE  LET after == AfterCalls(settings, NetemCalls(opts))[n]
         IN  /\ DOMAIN after = DOMAIN settings
             /\ n = 0 => \A name \in DOMAIN settings : after[name] = settings[name]
             /\ \A name \in DOMAIN settings :
                  name \notin {"enabled", "kind", "delay", "loss", "corruption"} =>
                    after[name] = settings[name]
             /\ "kind" \in DOMAIN settings => after["kind"] \in {settings["kind"], "netem"}
             /\ n # 0 /\ "enabled" \in DOMAIN settings =>
                  after["enabled"] = (n = Len(NetemCalls(opts)))
             /\ n = Len(NetemCalls(opts)) =>
                  /\ "kind" \in DOMAIN settings => after["kind"] = "netem"
                  /\ "delay" \in DOMAIN settings => after["delay"] = TE_MS2US(opts.delay)
                  /\ "loss" \in DOMAIN settings => after["loss"] = opts.loss
                  /\ "corruption" \in DOMAIN settings => after["corruption"] = opts.corruption
<1> DEFINE calls == NetemCalls(opts)
           after == AfterCalls(settings, calls)[n]
<1>1. /\ Len(calls) = 6
      /\ calls[1] = Set("enabled", FALSE) /\ calls[2] = Set("kind", "netem")
      /\ calls[3] = Set("delay", TE_MS2US(opts.delay)) /\ calls[4] = Set("loss", opts.loss)
      /\ calls[5] = Set("corruption", opts.corruption) /\ calls[6] = Set("enabled", TRUE)
  BY DEF NetemCalls
<1>2. /\ DOMAIN after = DOMAIN settings
      /\ \A name \in DOMAIN settings :
           \/ after[name] = settings[name] /\ \A k \in 1..n : calls[k].name # name
           \/ \E k \in 1..n : /\ calls[k].name = name /\ after[name] = calls[k].value
                              /\ \A m \in (k + 1)..n : calls[m].name # name
  <2>1. Len(calls) \in Nat
    BY <1>1
  <2> HIDE DEF calls
  <2>2. n \in 0..Len(calls)
    BY DEF calls
  <2>3. QED
    BY <2>1, <2>2, AfterCallsProperties
<1> HIDE DEF calls, after
<1>3. n \in 0..6 /\ \A k \in 1..n : k \in 1..6
  BY <1>1 DEF calls
<1>4. /\ calls[1].name = "enabled" /\ calls[2].name = "kind" /\ calls[3].name = "delay"
      /\ calls[4].name = "loss" /\ calls[5].name = "corruption"
      /\ calls[6].name = "enabled"
  BY <1>1 DEF Set
<1>5. /\ calls[1].value = FALSE /\ calls[2].value = "netem"
      /\ calls[3].value = TE_MS2US(opts.delay) /\ calls[4].value = opts.loss
      /\ calls[5].value = opts.corruption /\ calls[6].value = TRUE
  BY <1>1 DEF Set
<1>6. \A k \in 1..6 : k = 1 \/ k = 2 \/ k = 3 \/ k = 4 \/ k = 5 \/ k = 6
  OBVIOUS
<1>7. n = 0 => \A name \in DOMAIN settings : after[name] = settings[name]
  BY <1>2
<1>8. \A name \in DOMAIN settings :
        name \notin {"enabled", "kind", "delay", "loss", "corruption"} =>
          after[name] = settings[name]
  BY <1>2, <1>3, <1>4, <1>6
<1>9. "kind" \in DOMAIN settings => after["kind"] \in {settings["kind"], "netem"}
  BY <1>2, <1>3, <1>4, <1>5, <1>6
<1>10. ASSUME n # 0, "enabled" \in DOMAIN settings
       PROVE  after["enabled"] = (n = 6)
  <2>1. 1 \in 1..n
    BY <1>3, <1>10
  <2>2. PICK k \in 1..n : /\ calls[k].name = "enabled" /\ after["enabled"] = calls[k].value
                          /\ \A m \in (k + 1)..n : calls[m].name # "enabled"
    BY <1>2, <1>4, <1>10, <2>1
  <2>3. k = 1 \/ k = 6
    <3>1. k \in 1..6
      BY <1>3
    <3>2. QED
      BY <1>4, <1>6, <2>2, <3>1
  <2>4. CASE k = 6
    <3>1. n = 6
      BY <1>3, <2>4
    <3>2. QED
      BY <1>5, <2>2, <2>4, <3>1
  <2>5. CASE k = 1
    <3>1. n # 6
      BY <1>4, <2>2, <2>5
    <3>2. QED
      BY <1>5, <2>2, <2>5, <3>1
  <2>6. QED
    BY <2>3, <2>4, <2>5
<1>11. ASSUME n = 6
       PROVE  /\ "kind" \in DOMAIN settings => after["kind"] = "netem"
              /\ "delay" \in DOMAIN settings => after["delay"] = TE_MS2US(opts.delay)
              /\ "loss" \in DOMAIN settings => after["loss"] = opts.loss
              /\ "corruption" \in DOMAIN settings => after["corruption"] = opts.corruption
  <2>1. 2 \in 1..n /\ 3 \in 1..n /\ 4 \in 1..n /\ 5 \in 1..n
    BY <1>11
  <2>2. \A name \in DOMAIN settings : \A j \in 1..n : calls[j].name = name =>
          \E k \in 1..6 : calls[k].name = name /\ after[name] = calls[k].value
    BY <1>2, <1>3
  <2>3. "kind" \in DOMAIN settings => after["kind"] = "netem"
    BY <1>4, <1>5, <1>6, <2>1, <2>2
  <2>4. "delay" \in DOMAIN settings => after["delay"] = TE_MS2US(opts.delay)
    BY <1>4, <1>5, <1>6, <2>1, <2>2
  <2>5. "loss" \in DOMAIN settings => after["loss"] = opts.loss
    BY <1>4, <1>5, <1>6, <2>1, <2>2
  <2>6. "corruption" \in DOMAIN settings => after["corruption"] = opts.corruption
    BY <1>4, <1>5, <1>6, <2>1, <2>2
  <2>7. QED
    BY <2>3, <2>4, <2>5, <2>6
<1>12. QED
  BY <1>1, <1>2, <1>7, <1>8, <1>9, <1>10, <1>11 DEF after, calls
=============================================================================
