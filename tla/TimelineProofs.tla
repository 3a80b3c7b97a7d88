--------------------------- MODULE TimelineProofs ---------------------------
(***************************************************************************)
(* What the proofs about several components share: induction over the      *)
(* natural numbers, and the listing of a set by time, which exists, is     *)
(* the only one, and grows at its end when something newer is added.       *)
(***************************************************************************)
EXTENDS Timeline, SequencesExt, Integers, WellFoundedInduction, FiniteSetTheorems, SequenceTheorems, TLAPS

\* A set with 0 and the successor of each of its numbers has them all.
LEMMA Induction ==
    ASSUME NEW S, 0 \in S, \A n \in Nat : n \in S => n + 1 \in S
    PROVE  \A n \in Nat : n \in S
<1> DEFINE T == Nat \ S
           R == {ss \in Nat \X Nat : ss[1] < ss[2]}
<1>1. SUFFICES ASSUME T # {} PROVE FALSE
  OBVIOUS
<1>2. IsWellFoundedOn(R, Nat)
  BY NatLessThanWellFounded DEF OpToRel
<1>3. PICK x \in T : \A y \in T : ~(<<y, x>> \in R)
  <2> HIDE DEF R, T
  <2>1. T \subseteq Nat BY DEF T
  <2> QED BY <1>1, <1>2, <2>1, WFMin
<1>4. x \in Nat /\ x # 0 BY <1>3 DEF T
<1>5. x - 1 \in Nat /\ x - 1 < x /\ (x - 1) + 1 = x BY <1>4
<1>6. <<x - 1, x>> \in R BY <1>4, <1>5
<1>7. x - 1 \in S BY <1>3, <1>5, <1>6 DEF T
<1>8. x \in S BY <1>5, <1>7
<1> QED BY <1>3, <1>8 DEF T

-----------------------------------------------------------------------------
\* q lists S by time.
ByTime(q, S, time) ==
    /\ q \in [1..Cardinality(S) -> S]
    /\ \A i, j \in 1..Cardinality(S) : i < j => time[q[i]] < time[q[j]]

\* No two members have the same time.
Distinct(S, time) ==
    /\ \A x \in S : time[x] \in Nat
    /\ \A x, y \in S : time[x] = time[y] => x = y

\* Such a list has every member.
LEMMA ListsAll ==
    ASSUME NEW S, NEW time, IsFiniteSet(S), \A x \in S : time[x] \in Nat,
           NEW q, ByTime(q, S, time)
    PROVE  \A x \in S : \E i \in 1..Cardinality(S) : q[i] = x
<1> DEFINE n == Cardinality(S)
<1>1. n \in Nat BY FS_CardinalityType
<1>2. ASSUME NEW i \in 1..n, NEW j \in 1..n, q[i] = q[j] PROVE i = j
  <2>1. ~(i < j) /\ ~(j < i) BY <1>2 DEF ByTime
  <2> QED BY <1>1, <2>1
<1>3. q \in Injection(1..n, S) BY <1>2 DEF ByTime, Injection, IsInjective
<1>4. Cardinality(1..n) = n BY <1>1, FS_Interval
<1>5. q \in Surjection(1..n, S) BY <1>3, <1>4, FS_Injection
<1> QED BY <1>5 DEF Surjection

\* Something newer than all of S is listed last.
LEMMA ListGrows ==
    ASSUME NEW S, NEW time, IsFiniteSet(S), NEW q, ByTime(q, S, time),
           NEW x, x \notin S, \A y \in S : time[y] < time[x]
    PROVE  ByTime(Append(q, x), S \cup {x}, time)
<1> DEFINE n == Cardinality(S)
           p == Append(q, x)
<1>1. n \in Nat /\ Cardinality(S \cup {x}) = n + 1 BY FS_CardinalityType, FS_AddElement
<1>2. q \in [1..n -> S] /\ q \in Seq(S) /\ Len(q) = n
  <2>1. q \in [1..n -> S] BY DEF ByTime
  <2> HIDE DEF n
  <2> QED BY <1>1, <2>1, SeqDef, LenProperties
<1>3. /\ p \in [1..(n + 1) -> S \cup {x}]
      /\ \A i \in 1..n : p[i] = q[i]
      /\ p[n + 1] = x
  <2> HIDE DEF n
  <2>1. q \in Seq(S \cup {x}) BY <1>1, <1>2
  <2>2. p \in Seq(S \cup {x}) /\ Len(p) = n + 1 BY <1>2, <2>1
  <2>3. \A i \in 1..n : p[i] = q[i] BY <1>2, <2>1
  <2>4. p[n + 1] = x BY <1>2, <2>1
  <2> HIDE DEF p
  <2>5. p \in [1..(n + 1) -> S \cup {x}] BY <2>2
  <2> QED BY <2>3, <2>4, <2>5
<1>4. ASSUME NEW i \in 1..(n + 1), NEW j \in 1..(n + 1), i < j
      PROVE  time[p[i]] < time[p[j]]
  <2> HIDE DEF p, n
  <2>1. i \in 1..n BY <1>1, <1>4
  <2>2. CASE j = n + 1 BY <1>2, <1>3, <2>1, <2>2
  <2>3. CASE j \in 1..n
    <3>1. time[q[i]] < time[q[j]] BY <1>4, <2>1, <2>3 DEF ByTime, n
    <3> QED BY <1>3, <2>1, <2>3, <3>1
  <2> QED BY <1>1, <2>2, <2>3
<1> HIDE DEF p, n
<1> QED BY <1>1, <1>3, <1>4 DEF ByTime, n, p

\* Times that differ and are bounded put a set in order, and it is finite.
LEMMA Orderable ==
    ASSUME NEW S, NEW time, Distinct(S, time), NEW b \in Nat, \A x \in S : time[x] <= b
    PROVE  IsFiniteSet(S) /\ \E q : ByTime(q, S, time)
<1> DEFINE F(n) == {x \in S : time[x] < n}
           N == {n \in Nat : IsFiniteSet(F(n)) /\ \E q : ByTime(q, F(n), time)}
<1>1. 0 \in N
  <2>1. F(0) = {} BY DEF Distinct
  <2>2. IsFiniteSet({}) /\ Cardinality({}) = 0 BY FS_EmptySet
  <2>3. ByTime([i \in 1..0 |-> 0], {}, time) BY <2>2 DEF ByTime
  <2> QED BY <2>1, <2>2, <2>3
<1>2. ASSUME NEW n \in Nat, n \in N PROVE n + 1 \in N
  <2>1. PICK q : ByTime(q, F(n), time) BY <1>2
  <2>2. CASE \E x \in S : time[x] = n
    <3>1. PICK x \in S : time[x] = n BY <2>2
    <3>2. F(n + 1) = F(n) \cup {x} BY <3>1 DEF Distinct
    <3>3. x \notin F(n) /\ IsFiniteSet(F(n)) /\ \A y \in F(n) : time[y] < time[x] BY <1>2, <3>1
    <3> HIDE DEF F
    <3>4. ByTime(Append(q, x), F(n) \cup {x}, time) BY <2>1, <3>3, ListGrows
    <3>5. IsFiniteSet(F(n) \cup {x}) BY <3>3, FS_AddElement
    <3> QED BY <3>2, <3>4, <3>5
  <2>3. CASE ~ \E x \in S : time[x] = n
    <3>1. F(n + 1) = F(n) BY <2>3 DEF Distinct
    <3> HIDE DEF F
    <3> QED BY <1>2, <3>1
  <2> QED BY <2>2, <2>3
<1>3. b + 1 \in N
  <2> HIDE DEF N
  <2> QED BY <1>1, <1>2, Induction
<1>4. F(b + 1) = S BY DEF Distinct
<1> HIDE DEF F
<1> QED BY <1>3, <1>4

\* There is one such list only.
LEMMA OneList ==
    ASSUME NEW S, NEW time, IsFiniteSet(S), \A x \in S : time[x] \in Nat,
           NEW p, ByTime(p, S, time), NEW q, ByTime(q, S, time)
    PROVE  p = q
<1> DEFINE n == Cardinality(S)
           Same == {k \in Nat : \A i \in 1..n : i <= k => p[i] = q[i]}
<1>1. n \in Nat BY FS_CardinalityType
<1>2. 0 \in Same BY <1>1
<1>3. ASSUME NEW f, NEW g, ByTime(f, S, time), ByTime(g, S, time),
             NEW k \in 1..n, \A i \in 1..n : i < k => f[i] = g[i]
      PROVE  time[g[k]] <= time[f[k]]
  <2>1. f[k] \in S /\ g[k] \in S BY <1>3 DEF ByTime
  <2>2. PICK j \in 1..n : g[j] = f[k] BY <1>3, <2>1, ListsAll
  <2>3. ~(j < k)
    <3> SUFFICES ASSUME j < k PROVE FALSE OBVIOUS
    <3>1. f[j] = f[k] BY <1>3, <2>2
    <3>2. time[f[j]] < time[f[k]] BY <1>3 DEF ByTime
    <3> QED BY <2>1, <3>1, <3>2
  <2>4. j = k \/ k < j BY <2>3, <1>1
  <2>5. CASE j = k BY <2>1, <2>2, <2>5
  <2>6. CASE k < j
    <3>1. time[g[k]] < time[g[j]] BY <1>3, <2>6 DEF ByTime
    <3> QED BY <2>1, <2>2, <3>1
  <2> QED BY <2>4, <2>5, <2>6
<1>4. ASSUME NEW k \in Nat, k \in Same PROVE k + 1 \in Same
  <2> SUFFICES ASSUME k + 1 \in 1..n PROVE p[k + 1] = q[k + 1]
    BY <1>1, <1>4
  <2>1. \A i \in 1..n : i < k + 1 => p[i] = q[i] BY <1>1, <1>4
  <2>2. time[q[k + 1]] <= time[p[k + 1]] BY <1>3, <2>1
  <2>3. time[p[k + 1]] <= time[q[k + 1]] BY <1>3, <2>1
  <2>4. p[k + 1] \in S /\ q[k + 1] \in S BY DEF ByTime
  <2>5. time[p[k + 1]] = time[q[k + 1]] BY <2>2, <2>3, <2>4
  <2>6. PICK j \in 1..n : q[j] = p[k + 1] BY <2>4, ListsAll
  <2>7. j = k + 1
    <3>1. ~(j < k + 1) /\ ~(k + 1 < j) BY <2>4, <2>5, <2>6 DEF ByTime
    <3> QED BY <1>1, <3>1
  <2> QED BY <2>6, <2>7
<1>5. n \in Same
  <2> HIDE DEF Same
  <2> QED BY <1>1, <1>2, <1>4, Induction
<1>6. \A i \in 1..n : p[i] = q[i] BY <1>1, <1>5
<1>7. p \in [1..n -> S] /\ q \in [1..n -> S] BY DEF ByTime
<1> HIDE DEF n, Same
<1>8. p = [i \in 1..n |-> p[i]] /\ q = [i \in 1..n |-> q[i]] BY <1>7
<1>9. [i \in 1..n |-> p[i]] = [i \in 1..n |-> q[i]] BY <1>6
<1> QED BY <1>8, <1>9

LEMMA InOrderIs ==
    ASSUME NEW S, NEW time, IsFiniteSet(S), \A x \in S : time[x] \in Nat,
           NEW q, ByTime(q, S, time)
    PROVE  ByTime(InOrder(S, time), S, time) /\ InOrder(S, time) = q
<1>1. \A p \in [1..Cardinality(S) -> S] :
         ByTime(p, S, time) <=> \A i, j \in DOMAIN p : i < j => time[p[i]] < time[p[j]]
  BY DEF ByTime
<1>2. ByTime(InOrder(S, time), S, time) BY <1>1 DEF InOrder, ByTime
<1> QED BY <1>2, OneList

-----------------------------------------------------------------------------
(* What a listing is.                                                      *)

LEMMA Listed ==
    ASSUME NEW S, NEW time, Distinct(S, time), NEW b \in Nat, \A x \in S : time[x] <= b
    PROVE  /\ IsFiniteSet(S)
           /\ InOrder(S, time) \in Seq(S)
           /\ ByTime(InOrder(S, time), S, time)
<1>1. IsFiniteSet(S) /\ \E q : ByTime(q, S, time) BY Orderable
<1>2. ByTime(InOrder(S, time), S, time) BY <1>1, InOrderIs DEF Distinct
<1>3. Cardinality(S) \in Nat BY <1>1, FS_CardinalityType
<1>4. InOrder(S, time) \in [1..Cardinality(S) -> S] BY <1>2 DEF ByTime
<1> QED BY <1>1, <1>2, <1>3, <1>4, SeqDef

\* What is newer than all of it is listed last.
LEMMA ListedLast ==
    ASSUME NEW S, NEW time, Distinct(S, time), NEW b \in Nat, \A x \in S : time[x] <= b,
           NEW new, new \notin S, time[new] \in Nat, \A y \in S : time[y] < time[new]
    PROVE  InOrder(S \cup {new}, time) = Append(InOrder(S, time), new)
<1>1. IsFiniteSet(S) /\ ByTime(InOrder(S, time), S, time) BY Listed
<1>2. ByTime(Append(InOrder(S, time), new), S \cup {new}, time) BY <1>1, ListGrows
<1>3. IsFiniteSet(S \cup {new}) BY <1>1, FS_AddElement
<1> QED BY <1>2, <1>3, InOrderIs DEF Distinct

\* The times of other things do not matter.
LEMMA ListedSame ==
    ASSUME NEW S, NEW time, NEW other, Distinct(S, time), NEW b \in Nat,
           \A x \in S : time[x] <= b, \A x \in S : other[x] = time[x]
    PROVE  InOrder(S, other) = InOrder(S, time)
<1>1. IsFiniteSet(S) /\ ByTime(InOrder(S, time), S, time) BY Listed
<1>2. ByTime(InOrder(S, time), S, other) BY <1>1 DEF ByTime
<1> QED BY <1>1, <1>2, InOrderIs DEF Distinct

-----------------------------------------------------------------------------
\* A sum over a finite set is what is added up part by part, in any order.
LEMMA SumOfParts ==
    ASSUME NEW D, IsFiniteSet(D), NEW fun \in [D -> Nat], NEW g \in [SUBSET D -> Nat],
           g[{}] = 0, \A s \in SUBSET D : \A x \in s : g[s] = fun[x] + g[s \ {x}]
    PROVE  SumFunction(fun) = g[D]
<1> DEFINE pick(s) == CHOOSE x \in s : TRUE
           Iter(f) == f = [s \in SUBSET D |-> IF s = {} THEN 0 ELSE fun[pick(s)] + f[s \ {pick(s)}]]
           iter == CHOOSE f : Iter(f)
           N == {n \in Nat : \A s \in SUBSET D : Cardinality(s) = n => iter[s] = g[s]}
<1>1. SumFunction(fun) = iter[D]
  <2>1. DOMAIN fun = D OBVIOUS
  <2> QED BY <2>1, Zenon DEF SumFunction, SumFunctionOnSet, FoldFunctionOnSet, MapThenFoldSet
<1>2. Iter(iter)
  <2>1. \A s \in SUBSET D : s # {} => pick(s) \in s OBVIOUS
  <2>2. \A s \in SUBSET D : g[s] = IF s = {} THEN 0 ELSE fun[pick(s)] + g[s \ {pick(s)}]
    BY <2>1
  <2>3. Iter(g) BY <2>2
  <2> HIDE DEF Iter
  <2> QED BY <2>3
<1>3. \A s \in SUBSET D : s # {} => pick(s) \in s OBVIOUS
<1> HIDE DEF iter, pick
<1>4. 0 \in N
  <2>1. \A s \in SUBSET D : Cardinality(s) = 0 => s = {} BY FS_EmptySet, FS_Subset
  <2> QED BY <1>2, <2>1
<1>5. ASSUME NEW n \in Nat, n \in N PROVE n + 1 \in N
  <2> SUFFICES ASSUME NEW s \in SUBSET D, Cardinality(s) = n + 1 PROVE iter[s] = g[s]
    OBVIOUS
  <2>1. s # {} /\ IsFiniteSet(s) BY FS_EmptySet, FS_Subset
  <2>2. pick(s) \in s BY <1>3, <2>1
  <2>3. Cardinality(s \ {pick(s)}) = n
    <3>1. Cardinality(s \ {pick(s)}) = Cardinality(s) - 1 BY <2>1, <2>2, FS_RemoveElement
    <3> QED BY <3>1
  <2>4. iter[s \ {pick(s)}] = g[s \ {pick(s)}] BY <1>5, <2>3
  <2>5. iter[s] = fun[pick(s)] + iter[s \ {pick(s)}] BY <1>2, <2>1
  <2>6. g[s] = fun[pick(s)] + g[s \ {pick(s)}] BY <2>2
  <2> QED BY <2>4, <2>5, <2>6
<1>6. Cardinality(D) \in N
  <2> HIDE DEF N
  <2> QED BY <1>4, <1>5, Induction, FS_CardinalityType
<1> QED BY <1>1, <1>6
=============================================================================
