--------------------------- MODULE ChunkingProofs ---------------------------
(***************************************************************************)
(* Theorems about chunking and embedding, for documents of any length,     *)
(* paragraphs of any size, and every chunk size, overlap and batch size.   *)
(* The sizes of sequences of parts come first: they are sums, and what is  *)
(* said of them rests on induction over the natural numbers.  Then what is *)
(* true of a sequence of chunks (WellCut, Covered) and is kept when        *)
(* a paragraph begins a chunk, joins the last one or is cut into its own;  *)
(* then the steps of the two loops.                                        *)
(***************************************************************************)
EXTENDS Chunking, TimelineProofs, TLAPS

-----------------------------------------------------------------------------
(* The sizes of parts.                                                     *)

PartSet ==
    {p \in [para : Nat \ {0}, from : Nat, to : Nat, torn : SUBSET Nat] : p.from < p.to}

\* A running sum of the sizes of a sequence of parts, up to the n-th.
IsSum(f, s, n) ==
    /\ f \in [0..n -> Nat] /\ f[0] = 0
    /\ \A i \in 1..n : f[i] = f[i - 1] + Size(s[i])

\* A part is not empty.
LEMMA SizeNat == \A part \in PartSet : Size(part) \in Nat
BY DEF PartSet, Size

\* Every sequence of parts has a running sum, and one only.
LEMMA SumExists ==
    ASSUME NEW s \in Seq(PartSet)
    PROVE  \E f : IsSum(f, s, Len(s))
<1> DEFINE S == {n \in Nat : n <= Len(s) => \E f : IsSum(f, s, n)}
<1>1. 0 \in S
  <2>1. IsSum([i \in 0..0 |-> 0], s, 0)
    BY DEF IsSum
  <2> QED BY <2>1
<1>2. ASSUME NEW n \in Nat, n \in S PROVE n + 1 \in S
  <2> SUFFICES ASSUME n + 1 <= Len(s) PROVE \E f : IsSum(f, s, n + 1)
    OBVIOUS
  <2>0. Len(s) \in Nat /\ n <= Len(s)
    OBVIOUS
  <2>1. PICK f : IsSum(f, s, n)
    BY <1>2, <2>0
  <2>2. s[n + 1] \in PartSet
    BY <2>0
  <2>3. Size(s[n + 1]) \in Nat
    BY <2>2, SizeNat
  <2> DEFINE g == [i \in 0..(n + 1) |-> IF i = n + 1 THEN f[n] + Size(s[n + 1]) ELSE f[i]]
  <2>4. \A i \in 0..n : g[i] = f[i] /\ g[i] \in Nat
    BY <2>1 DEF IsSum
  <2>5. g[n + 1] = g[n] + Size(s[n + 1]) /\ g[n + 1] \in Nat
    <3>1. g[n + 1] = f[n] + Size(s[n + 1])
      OBVIOUS
    <3> HIDE DEF g
    <3>2. n \in 0..n
      OBVIOUS
    <3>3. g[n] = f[n] /\ g[n] \in Nat
      BY <2>4, <3>2
    <3> QED BY <2>3, <3>1, <3>3
  <2>6. g \in [0..(n + 1) -> Nat]
    BY <2>4, <2>5
  <2>7. g[0] = 0
    BY <2>4, <2>1 DEF IsSum
  <2>8. ASSUME NEW i \in 1..(n + 1) PROVE g[i] = g[i - 1] + Size(s[i])
    <3>1. CASE i = n + 1
      BY <3>1, <2>5
    <3>2. CASE i \in 1..n
      <4> i - 1 \in 0..n /\ i \in 0..n
        BY <3>2
      <4> HIDE DEF g
      <4> QED BY <2>4, <2>1, <3>2 DEF IsSum
    <3> QED BY <3>1, <3>2
  <2>9. IsSum(g, s, n + 1)
    <3> HIDE DEF g
    <3> QED BY <2>6, <2>7, <2>8 DEF IsSum
  <2> QED BY <2>9
<1>3. Len(s) \in S
  <2> HIDE DEF S
  <2> QED BY <1>1, <1>2, Induction
<1> QED BY <1>3

LEMMA SumUnique ==
    ASSUME NEW s, NEW m \in Nat, NEW f, NEW g, NEW k \in Nat, k <= m,
           IsSum(f, s, k), IsSum(g, s, m)
    PROVE  f[k] = g[k]
<1> DEFINE S == {n \in Nat : n <= k => f[n] = g[n]}
<1>1. 0 \in S
  BY DEF IsSum
<1>2. ASSUME NEW n \in Nat, n \in S PROVE n + 1 \in S
  <2> SUFFICES ASSUME n + 1 <= k PROVE f[n + 1] = g[n + 1]
    OBVIOUS
  <2>1. n + 1 \in 1..k /\ n + 1 \in 1..m /\ (n + 1) - 1 = n /\ f[n] = g[n]
    BY <1>2
  <2> QED BY <2>1 DEF IsSum
<1>3. k \in S
  <2> HIDE DEF S
  <2> QED BY <1>1, <1>2, Induction
<1> QED BY <1>3

\* SizeOf is where it ends.
LEMMA SizeOfIsSum ==
    ASSUME NEW s \in Seq(PartSet), NEW f, IsSum(f, s, Len(s))
    PROVE  SizeOf(s) = f[Len(s)] /\ SizeOf(s) \in Nat
<1> DEFINE upTo == CHOOSE g : g = [i \in 0..Len(s) |-> IF i = 0 THEN 0 ELSE g[i - 1] + Size(s[i])]
<1>0. Len(s) \in Nat
  OBVIOUS
<1>1. f = [i \in 0..Len(s) |-> IF i = 0 THEN 0 ELSE f[i - 1] + Size(s[i])]
  BY <1>0 DEF IsSum
<1>2. upTo = [i \in 0..Len(s) |-> IF i = 0 THEN 0 ELSE upTo[i - 1] + Size(s[i])]
  BY <1>1
<1>3. SizeOf(s) = upTo[Len(s)]
  BY DEF SizeOf
<1> HIDE DEF upTo
<1> DEFINE S == {n \in Nat : n <= Len(s) => upTo[n] = f[n]}
<1>4. 0 \in S
  BY <1>0, <1>2 DEF IsSum
<1>5. ASSUME NEW n \in Nat, n \in S PROVE n + 1 \in S
  <2> SUFFICES ASSUME n + 1 <= Len(s) PROVE upTo[n + 1] = f[n + 1]
    OBVIOUS
  <2>1. n + 1 \in 1..Len(s) /\ (n + 1) - 1 = n /\ upTo[n] = f[n] /\ n + 1 \in 0..Len(s) /\ n + 1 # 0
    BY <1>5, <1>0
  <2>2. upTo[n + 1] = upTo[n] + Size(s[n + 1])
    BY <1>2, <2>1
  <2> QED BY <2>1, <2>2 DEF IsSum
<1>6. Len(s) \in S
  <2> HIDE DEF S
  <2> QED BY <1>0, <1>4, <1>5, Induction
<1> QED BY <1>0, <1>3, <1>6 DEF IsSum

LEMMA SizeOfNone == SizeOf(<<>>) = 0
<1>1. <<>> \in Seq(PartSet) /\ Len(<<>>) = 0
  OBVIOUS
<1>2. IsSum([i \in 0..0 |-> 0], <<>>, 0)
  BY DEF IsSum
<1> QED BY <1>1, <1>2, SizeOfIsSum

LEMMA SizeOfNat == \A s \in Seq(PartSet) : SizeOf(s) \in Nat
BY SumExists, SizeOfIsSum

\* A part adds its size.
LEMMA SizeOfAppend ==
    ASSUME NEW s \in Seq(PartSet), NEW part \in PartSet
    PROVE  SizeOf(Append(s, part)) = SizeOf(s) + Size(part)
<1> DEFINE t == Append(s, part)
<1>0. /\ t \in Seq(PartSet) /\ Len(t) = Len(s) + 1 /\ Len(s) \in Nat
      /\ t[Len(s) + 1] = part /\ \A i \in 1..Len(s) : t[i] = s[i]
  OBVIOUS
<1> HIDE DEF t
<1>1. PICK f : IsSum(f, t, Len(t))
  BY <1>0, SumExists
<1> DEFINE g == [i \in 0..Len(s) |-> f[i]]
<1>2. IsSum(g, s, Len(s))
  <2>1. g \in [0..Len(s) -> Nat] /\ g[0] = 0
    BY <1>0, <1>1 DEF IsSum
  <2>2. ASSUME NEW i \in 1..Len(s) PROVE g[i] = g[i - 1] + Size(s[i])
    <3>1. i \in 0..Len(s) /\ i - 1 \in 0..Len(s) /\ i \in 1..Len(t) /\ t[i] = s[i]
      BY <1>0
    <3>2. g[i] = f[i] /\ g[i - 1] = f[i - 1]
      BY <3>1
    <3> HIDE DEF g
    <3> QED BY <1>1, <3>1, <3>2 DEF IsSum
  <2> HIDE DEF g
  <2> QED BY <2>1, <2>2 DEF IsSum
<1>3. SizeOf(s) = f[Len(s)]
  BY <1>0, <1>2, SizeOfIsSum
<1>4. SizeOf(t) = f[Len(s) + 1]
  BY <1>0, <1>1, SizeOfIsSum
<1>5. f[Len(s) + 1] = f[Len(s)] + Size(part)
  <2>1. Len(s) + 1 \in 1..Len(t) /\ (Len(s) + 1) - 1 = Len(s)
    BY <1>0
  <2> QED BY <1>0, <1>1, <2>1 DEF IsSum
<1> QED BY <1>3, <1>4, <1>5 DEF t
\* Arithmetic of multiples, for the pieces of a paragraph.
LEMMA Distribute ==
  \A i \in Int, c \in Nat : (i - 1) * c = i * c - c /\ (i + 1) * c = i * c + c
OBVIOUS

LEMMA Monotone ==
  \A i, j \in Nat, c \in Nat : i <= j => i * c <= j * c
OBVIOUS

LEMMA Division ==
  \A a \in Nat, c \in Nat \ {0} :
     /\ a \div c \in Nat
     /\ (a \div c) * c <= a /\ a < (a \div c) * c + c
OBVIOUS

-----------------------------------------------------------------------------
(* What is true of a sequence of chunks after `read' paragraphs of d.      *)

Chunk == {c \in [parts : Seq(PartSet), tokens : Nat] : c.parts # <<>>}
All(d, p) == Part(p, 0, d[p], {})
PackedIn(d, chunk) == Head(chunk.parts) = All(d, Head(chunk.parts).para)
CutAt(d, p, token) ==
    \E cut \in 1..(d[p] - 1) :
        cut % ChunkSize = 0 /\ cut + 1 < token + CharTokens /\ token < cut + CharTokens
Lies(d, part, read) ==
    /\ part.para \in 1..read /\ part.to <= d[part.para] /\ Size(part) <= ChunkSize
    /\ \A token \in part.torn : CutAt(d, part.para, token)
Ordered(parts) == \A i, j \in DOMAIN parts : i < j => Before(parts[i], parts[j])

\* Chunk k begins with the last n parts of the one before it.
Carries(made, k, n) ==
    /\ n \in Nat /\ n < Len(made[k].parts)
    /\ k = 1 => n = 0
    /\ k > 1 => /\ n <= Len(made[k - 1].parts)
                /\ \A i \in 1..n :
                      made[k].parts[i] = made[k - 1].parts[Len(made[k - 1].parts) - n + i]
    /\ SizeOf(SubSeq(made[k].parts, 1, n)) <= Overlap

\* Its other parts come after everything in the chunks before it.
GoesOn(made, k, n) ==
    \A l \in 1..(k - 1) : \A i \in DOMAIN made[l].parts, j \in (n + 1)..Len(made[k].parts) :
        Before(made[l].parts[i], made[k].parts[j])

\* The count of a packed chunk is right and within the budget.
Counted(d, chunk, n) ==
    PackedIn(d, chunk) =>
        /\ chunk.tokens = SizeOf(chunk.parts)
        /\ chunk.tokens <= ChunkSize + SizeOf(SubSeq(chunk.parts, 1, n))

Follows(d, made, k, n) == Carries(made, k, n) /\ GoesOn(made, k, n) /\ Counted(d, made[k], n)

Good(d, made, k, read) ==
    /\ \A i \in DOMAIN made[k].parts : Lies(d, made[k].parts[i], read)
    /\ Ordered(made[k].parts)
    /\ \E n \in Nat : Follows(d, made, k, n)

WellCut(d, made, read) ==
    /\ made \in Seq(Chunk)
    /\ \A k \in DOMAIN made : Good(d, made, k, read)

\* Every token read so far is in a part that repeats nothing.
Covered(d, made, read) ==
    \A p \in 1..read : \A token \in 1..d[p] :
        \E k \in DOMAIN made : \E i \in Fresh(made, k) : Holds(made[k].parts[i], p, token)

LEMMA ChunkParts ==
    ASSUME NEW made \in Seq(Chunk), NEW k \in DOMAIN made
    PROVE  /\ made[k] \in Chunk /\ made[k].parts \in Seq(PartSet) /\ made[k].tokens \in Nat
           /\ Len(made[k].parts) \in Nat \ {0} /\ DOMAIN made[k].parts = 1..Len(made[k].parts)
           /\ k \in Nat \ {0} /\ k <= Len(made)
           /\ \A i \in DOMAIN made[k].parts : made[k].parts[i] \in PartSet
<1>1. made[k] \in Chunk
  OBVIOUS
<1>2. made[k].parts \in Seq(PartSet) /\ made[k].tokens \in Nat /\ made[k].parts # <<>>
  BY <1>1 DEF Chunk
<1>3. k \in Nat \ {0} /\ k <= Len(made)
  OBVIOUS
<1> QED BY <1>1, <1>2, <1>3

LEMMA BeforeIrreflexive == \A part \in PartSet : ~Before(part, part)
BY DEF PartSet, Before

\* The parts that a chunk repeats are the first n.
LEMMA RepeatsAre ==
    ASSUME NEW d, NEW made \in Seq(Chunk), NEW k \in DOMAIN made, NEW n,
           Follows(d, made, k, n)
    PROVE  /\ Repeats(made, k) = 1..n
           /\ Fresh(made, k) = (n + 1)..Len(made[k].parts)
<1>1. /\ k \in Nat \ {0} /\ Len(made[k].parts) \in Nat \ {0}
      /\ DOMAIN made[k].parts = 1..Len(made[k].parts)
      /\ \A i \in DOMAIN made[k].parts : made[k].parts[i] \in PartSet
  BY ChunkParts
<1>2. n \in Nat /\ n < Len(made[k].parts)
  BY DEF Follows, Carries
<1>3. ASSUME NEW i \in 1..n PROVE i \in Repeats(made, k)
  <2>1. k > 1 /\ k - 1 \in DOMAIN made
    BY <1>1 DEF Follows, Carries
  <2>2. DOMAIN made[k - 1].parts = 1..Len(made[k - 1].parts) /\ Len(made[k - 1].parts) \in Nat
    BY <2>1, ChunkParts
  <2>3. /\ n <= Len(made[k - 1].parts)
        /\ made[k].parts[i] = made[k - 1].parts[Len(made[k - 1].parts) - n + i]
    BY <2>1 DEF Follows, Carries
  <2>4. Len(made[k - 1].parts) - n + i \in DOMAIN made[k - 1].parts
    BY <1>2, <2>2, <2>3
  <2>5. i \in DOMAIN made[k].parts
    BY <1>1, <1>2
  <2> QED BY <2>1, <2>3, <2>4, <2>5 DEF Repeats
<1>4. ASSUME NEW i \in Repeats(made, k) PROVE i \in 1..n
  <2>1. PICK j \in DOMAIN made[k - 1].parts : k > 1 /\ made[k - 1].parts[j] = made[k].parts[i]
    BY DEF Repeats
  <2>2. i \in 1..Len(made[k].parts) /\ made[k].parts[i] \in PartSet
    BY <1>1 DEF Repeats
  <2>3. k - 1 \in 1..(k - 1)
    BY <1>1, <2>1
  <2>4. i \in (n + 1)..Len(made[k].parts) => Before(made[k - 1].parts[j], made[k].parts[i])
    BY <2>1, <2>3 DEF Follows, GoesOn
  <2> QED BY <1>2, <2>1, <2>2, <2>4, BeforeIrreflexive
<1>5. Repeats(made, k) = 1..n
  BY <1>3, <1>4
<1> QED BY <1>1, <1>2, <1>5 DEF Fresh

\* What is said of a chunk depends on it and the ones before it only.
LEMMA SameStart ==
    ASSUME NEW d, NEW made \in Seq(Chunk), NEW more \in Seq(Chunk),
           NEW k \in DOMAIN made, k \in DOMAIN more, \A l \in 1..k : more[l] = made[l],
           NEW read \in Nat, NEW upTo \in Nat, read <= upTo, Good(d, made, k, read)
    PROVE  Good(d, more, k, upTo)
<1>1. k \in Nat \ {0} /\ more[k] = made[k] /\ (k > 1 => more[k - 1] = made[k - 1])
  OBVIOUS
<1>2. PICK n \in Nat : Follows(d, made, k, n)
  BY DEF Good
<1>3. Carries(more, k, n) /\ Counted(d, more[k], n)
  BY <1>1, <1>2 DEF Follows, Carries
<1>4. GoesOn(more, k, n)
  <2>1. \A l \in 1..(k - 1) : more[l] = made[l]
    OBVIOUS
  <2>2. GoesOn(made, k, n)
    BY <1>2 DEF Follows
  <2> QED BY <1>1, <2>1, <2>2 DEF GoesOn
<1>5. \A i \in DOMAIN more[k].parts : Lies(d, more[k].parts[i], upTo)
  BY <1>1 DEF Good, Lies
<1> QED BY <1>1, <1>3, <1>4, <1>5 DEF Good, Follows

\* Chunks that only grow keep their tokens.
LEMMA CoverGrows ==
    ASSUME NEW d, NEW made \in Seq(Chunk), NEW more \in Seq(Chunk), NEW read \in Nat,
           Covered(d, made, read),
           \A k \in DOMAIN made :
               /\ k \in DOMAIN more
               /\ k > 1 => more[k - 1] = made[k - 1]
               /\ \A i \in DOMAIN made[k].parts :
                     i \in DOMAIN more[k].parts /\ more[k].parts[i] = made[k].parts[i],
           \A token \in 1..d[read + 1] : \E k \in DOMAIN more : \E i \in Fresh(more, k) :
               Holds(more[k].parts[i], read + 1, token)
    PROVE  Covered(d, more, read + 1)
<1>1. SUFFICES ASSUME NEW p \in 1..read, NEW token \in 1..d[p]
               PROVE  \E k \in DOMAIN more : \E i \in Fresh(more, k) : Holds(more[k].parts[i], p, token)
  BY DEF Covered
<1>0. PICK k \in DOMAIN made : \E i \in Fresh(made, k) : Holds(made[k].parts[i], p, token)
  BY DEF Covered
<1>2. PICK i \in Fresh(made, k) : Holds(made[k].parts[i], p, token)
  BY <1>0
<1>3. i \in DOMAIN made[k].parts
  BY DEF Fresh
<1>4. i \in Fresh(more, k)
  BY <1>3 DEF Fresh, Repeats
<1> QED BY <1>2, <1>3, <1>4

LEMMA PartsLie ==
    ASSUME NEW d, NEW made, NEW read \in Nat, WellCut(d, made, read),
           NEW k \in DOMAIN made, NEW i \in DOMAIN made[k].parts
    PROVE  /\ made[k].parts[i] \in PartSet /\ made[k].parts[i].para \in 1..read
           /\ made[k].parts[i].to <= d[made[k].parts[i].para]
           /\ Lies(d, made[k].parts[i], read)
<1>1. made \in Seq(Chunk) /\ Good(d, made, k, read)
  BY DEF WellCut
<1> QED BY <1>1, ChunkParts DEF Good, Lies

\* A paragraph begins a chunk, after the parts carried over into it.
Packing(d, kept, p) ==
    [parts |-> Append(kept, All(d, p)), tokens |-> SizeOf(kept) + d[p]]

LEMMA AddPacked ==
    ASSUME NEW d \in Seq(Nat \ {0}), NEW read \in Nat, read < Len(d), d[read + 1] <= ChunkSize,
           NEW made, WellCut(d, made, read), Covered(d, made, read),
           NEW kept \in Seq(PartSet), SizeOf(kept) <= Overlap,
           made = <<>> => kept = <<>>,
           made # <<>> =>
               /\ Len(kept) <= Len(made[Len(made)].parts)
               /\ \A i \in 1..Len(kept) : kept[i] =
                     made[Len(made)].parts[Len(made[Len(made)].parts) - Len(kept) + i]
    PROVE  /\ WellCut(d, Append(made, Packing(d, kept, read + 1)), read + 1)
           /\ Covered(d, Append(made, Packing(d, kept, read + 1)), read + 1)
<1> DEFINE new == All(d, read + 1)
           c == Packing(d, kept, read + 1)
           more == Append(made, c)
           L == Len(made) + 1
           n == Len(kept)
<1>0. /\ read + 1 \in DOMAIN d /\ d[read + 1] \in Nat \ {0} /\ ChunkSize \in Nat
      /\ made \in Seq(Chunk)
  BY ChunkingAssumption DEF WellCut
<1>1. new \in PartSet /\ Size(new) = d[read + 1] /\ new.para = read + 1 /\ new.to = d[read + 1] /\ new.from = 0
      /\ new.torn = {}
  BY <1>0 DEF All, Part, Size, PartSet
<1>2. n \in Nat /\ SizeOf(kept) \in Nat /\ SizeOf(Append(kept, new)) = SizeOf(kept) + d[read + 1]
  BY <1>1, SizeOfNat, SizeOfAppend
<1>3. /\ c.parts \in Seq(PartSet) /\ Len(c.parts) = n + 1 /\ DOMAIN c.parts = 1..(n + 1)
      /\ c.parts[n + 1] = new /\ \A i \in 1..n : c.parts[i] = kept[i]
  BY <1>1 DEF Packing
<1>4. SubSeq(c.parts, 1, n) = kept
  BY <1>1 DEF Packing
<1>5. c \in Chunk /\ c.tokens = SizeOf(c.parts) /\ c.tokens = SizeOf(kept) + d[read + 1]
  <2>1. c \in [parts : Seq(PartSet), tokens : Nat]
    BY <1>0, <1>2, <1>3 DEF Packing
  <2>2. c.parts # <<>>
    BY <1>2, <1>3
  <2>3. c.tokens = SizeOf(c.parts) /\ c.tokens = SizeOf(kept) + d[read + 1]
    BY <1>2 DEF Packing
  <2> QED BY <2>1, <2>2, <2>3 DEF Chunk
<1> HIDE DEF c, new
<1>6. /\ more \in Seq(Chunk) /\ Len(more) = L /\ more[L] = c /\ DOMAIN more = 1..L
      /\ L \in Nat \ {0} /\ Len(made) \in Nat
      /\ \A l \in 1..Len(made) : l \in DOMAIN made /\ more[l] = made[l]
  BY <1>0, <1>5
<1>17. n = Len(kept) /\ L = Len(made) + 1
  OBVIOUS
<1> HIDE DEF more, n, L
<1>7. ASSUME NEW i \in 1..n
      PROVE  /\ made # <<>> /\ Len(made) \in DOMAIN made
             /\ Len(made[Len(made)].parts) - n + i \in DOMAIN made[Len(made)].parts
             /\ kept[i] = made[Len(made)].parts[Len(made[Len(made)].parts) - n + i]
             /\ n <= Len(made[Len(made)].parts) /\ Len(made[Len(made)].parts) \in Nat
  <2>1. made # <<>> /\ Len(made) \in DOMAIN made
    BY <1>17, <1>0, <1>2
  <2>2. Len(made[Len(made)].parts) \in Nat /\ DOMAIN made[Len(made)].parts = 1..Len(made[Len(made)].parts)
    BY <1>17, <1>0, <2>1, ChunkParts
  <2> QED BY <1>17, <1>2, <2>1, <2>2
<1>8. ASSUME NEW i \in 1..n PROVE kept[i].para \in 1..read /\ Lies(d, kept[i], read)
  <2> DEFINE m == Len(made[Len(made)].parts) - n + i
  <2>1. Len(made) \in DOMAIN made /\ m \in DOMAIN made[Len(made)].parts
        /\ kept[i] = made[Len(made)].parts[m]
    BY <1>7
  <2> HIDE DEF m
  <2>2. made[Len(made)].parts[m].para \in 1..read
        /\ Lies(d, made[Len(made)].parts[m], read)
    BY <2>1, PartsLie
  <2> QED BY <2>1, <2>2
<1>9. \A i \in DOMAIN c.parts : Lies(d, c.parts[i], read + 1)
  <2>1. ASSUME NEW i \in 1..(n + 1) PROVE Lies(d, c.parts[i], read + 1)
    <3>1. CASE i = n + 1
      <4>1. c.parts[i] = new
        BY <1>3, <3>1
      <4>2. Lies(d, new, read + 1)
        BY <1>0, <1>1 DEF Lies
      <4> QED BY <4>1, <4>2
    <3>2. CASE i \in 1..n
      <4>1. c.parts[i] = kept[i]
        BY <1>3, <3>2
      <4>2. kept[i].para \in 1..read /\ Lies(d, kept[i], read)
        BY <1>8, <3>2
      <4>3. kept[i].para \in 1..(read + 1)
        BY <4>2
      <4> QED BY <4>1, <4>2, <4>3 DEF Lies
    <3> QED BY <1>2, <3>1, <3>2
  <2> QED BY <1>3, <2>1
<1>10. Ordered(c.parts)
  <2>1. SUFFICES ASSUME NEW i \in 1..(n + 1), NEW j \in 1..(n + 1), i < j PROVE Before(c.parts[i], c.parts[j])
    BY <1>17, <1>3 DEF Ordered
  <2>2. i \in 1..n
    BY <1>17, <1>2, <2>1
  <2>3. CASE j = n + 1
    <3>1. c.parts[i] = kept[i] /\ kept[i].para \in 1..read /\ c.parts[j] = new
      BY <1>3, <1>8, <2>2, <2>3
    <3> QED BY <1>1, <3>1 DEF Before
  <2>4. CASE j \in 1..n
    <3>1. Ordered(made[Len(made)].parts)
      BY <1>17, <1>7, <2>2 DEF WellCut, Good
    <3>2. Len(made[Len(made)].parts) - n + i < Len(made[Len(made)].parts) - n + j
      BY <1>17, <1>2, <1>7, <2>1, <2>2
    <3>3. Before(kept[i], kept[j])
      BY <1>17, <1>7, <2>2, <2>4, <3>1, <3>2 DEF Ordered
    <3> QED BY <1>17, <1>3, <2>2, <2>4, <3>3
  <2> QED BY <1>17, <1>2, <2>3, <2>4
<1>11. Carries(more, L, n)
  <2>1. L = 1 => n = 0
    BY <1>17, <1>6, <1>7, <1>2
  <2>2. ASSUME L > 1
        PROVE  /\ n <= Len(more[L - 1].parts)
               /\ \A i \in 1..n : more[L].parts[i] = more[L - 1].parts[Len(more[L - 1].parts) - n + i]
    <3>1. L - 1 = Len(made) /\ Len(made) \in 1..Len(made) /\ made # <<>>
      BY <1>17, <1>6, <2>2
    <3>2. more[L - 1] = made[Len(made)]
      BY <1>17, <1>6, <3>1
    <3> QED BY <1>17, <1>3, <1>6, <1>7, <3>1, <3>2
  <2>3. SubSeq(more[L].parts, 1, n) = kept /\ Len(more[L].parts) = n + 1 /\ n < n + 1
    BY <1>2, <1>3, <1>4, <1>6
  <2> QED BY <1>2, <2>1, <2>2, <2>3 DEF Carries
<1>12. GoesOn(more, L, n)
  <2>1. SUFFICES ASSUME NEW l \in 1..(L - 1), NEW i \in DOMAIN more[l].parts, NEW j \in (n + 1)..(n + 1)
                 PROVE  Before(more[l].parts[i], new)
    BY <1>17, <1>2, <1>3, <1>6 DEF GoesOn
  <2>2. l \in DOMAIN made /\ more[l] = made[l]
    BY <1>17, <1>6
  <2>3. more[l].parts[i].para \in 1..read
    BY <1>17, <2>2, PartsLie
  <2> QED BY <1>17, <1>1, <2>3 DEF Before
<1>13. Counted(d, c, n)
  <2>1. c.tokens <= ChunkSize + SizeOf(kept)
    BY <1>0, <1>2, <1>5
  <2> QED BY <1>4, <1>5, <2>1 DEF Counted
<1>14. Follows(d, more, L, n)
  BY <1>17, <1>6, <1>11, <1>12, <1>13 DEF Follows
<1>15. WellCut(d, more, read + 1)
  <2>1. SUFFICES ASSUME NEW k \in 1..L PROVE Good(d, more, k, read + 1)
    BY <1>17, <1>6 DEF WellCut
  <2>2. CASE k = L
    <3>1. \E keep \in Nat : Follows(d, more, L, keep)
      BY <1>2, <1>14
    <3>2. \A i \in DOMAIN more[L].parts : Lies(d, more[L].parts[i], read + 1)
      BY <1>6, <1>9
    <3>3. Ordered(more[L].parts)
      BY <1>6, <1>10
    <3>4. Good(d, more, L, read + 1)
      BY <3>1, <3>2, <3>3 DEF Good
    <3> QED BY <2>2, <3>4
  <2>3. CASE k \in 1..Len(made)
    <3>1. k \in DOMAIN made /\ k \in DOMAIN more /\ \A l \in 1..k : more[l] = made[l]
      BY <1>17, <1>6, <2>3
    <3>2. Good(d, made, k, read)
      BY <1>17, <3>1 DEF WellCut
    <3>3. made \in Seq(Chunk) /\ more \in Seq(Chunk) /\ read + 1 \in Nat /\ read <= read + 1
      BY <1>0, <1>6
    <3> HIDE DEF Good
    <3> QED BY <3>1, <3>2, <3>3, SameStart
  <2> QED BY <1>17, <1>6, <2>2, <2>3
<1>16. Covered(d, more, read + 1)
  <2>1. Fresh(more, L) = (n + 1)..(n + 1)
    BY <1>17, <1>3, <1>6, <1>14, RepeatsAre
  <2>2. ASSUME NEW token \in 1..d[read + 1]
        PROVE  \E k \in DOMAIN more : \E i \in Fresh(more, k) : Holds(more[k].parts[i], read + 1, token)
    <3>1. Holds(more[L].parts[n + 1], read + 1, token)
      BY <1>17, <1>0, <1>1, <1>3, <1>6 DEF Holds
    <3>2. L \in DOMAIN more /\ n + 1 \in Fresh(more, L)
      BY <1>17, <1>2, <1>6, <2>1
    <3> QED BY <1>17, <3>1, <3>2
  <2>3. ASSUME NEW k \in DOMAIN made
        PROVE  /\ k \in DOMAIN more /\ more[k] = made[k]
               /\ k > 1 => more[k - 1] = made[k - 1]
    <3>1. k \in 1..Len(made) /\ (k > 1 => k - 1 \in 1..Len(made))
      BY <1>0, <1>6
    <3>2. k \in 1..L
      BY <1>17, <1>6, <3>1
    <3> QED BY <1>6, <3>1, <3>2
  <2> QED BY <1>0, <1>6, <2>2, <2>3, CoverGrows
<1> QED BY <1>15, <1>16 DEF more, c

\* A paragraph joins the chunk being built.
LEMMA ExtendLast ==
    ASSUME NEW d \in Seq(Nat \ {0}), NEW read \in Nat, read < Len(d),
           NEW made \in Seq(Chunk), NEW parts \in Seq(PartSet), parts # <<>>,
           SizeOf(parts) + d[read + 1] <= ChunkSize,
           NEW sofar, sofar = Append(made, [parts |-> parts, tokens |-> SizeOf(parts)]),
           WellCut(d, sofar, read), Covered(d, sofar, read)
    PROVE  /\ WellCut(d, Append(made, Packing(d, parts, read + 1)), read + 1)
           /\ Covered(d, Append(made, Packing(d, parts, read + 1)), read + 1)
<1> DEFINE new == All(d, read + 1)
           c == Packing(d, parts, read + 1)
           more == Append(made, c)
           L == Len(made) + 1
           m == Len(parts)
<1>0. /\ read + 1 \in DOMAIN d /\ d[read + 1] \in Nat \ {0} /\ ChunkSize \in Nat
      /\ read + 1 \in Nat /\ read <= read + 1
  BY ChunkingAssumption
<1>1. new \in PartSet /\ Size(new) = d[read + 1] /\ new.para = read + 1 /\ new.to = d[read + 1] /\ new.from = 0
      /\ new.torn = {}
  BY <1>0 DEF All, Part, Size, PartSet
<1>2. m \in Nat \ {0} /\ SizeOf(parts) \in Nat /\ SizeOf(Append(parts, new)) = SizeOf(parts) + d[read + 1]
  BY <1>1, SizeOfNat, SizeOfAppend
<1>3. /\ c.parts \in Seq(PartSet) /\ Len(c.parts) = m + 1 /\ DOMAIN c.parts = 1..(m + 1)
      /\ c.parts[m + 1] = new /\ \A i \in 1..m : c.parts[i] = parts[i]
  BY <1>1 DEF Packing
<1>4. \A n \in Nat : n < m => SubSeq(c.parts, 1, n) = SubSeq(parts, 1, n)
  BY <1>1 DEF Packing
<1>5. c \in Chunk /\ c.tokens = SizeOf(c.parts) /\ c.tokens = SizeOf(parts) + d[read + 1]
  <2>1. c \in [parts : Seq(PartSet), tokens : Nat]
    BY <1>0, <1>2, <1>3 DEF Packing
  <2>2. c.parts # <<>>
    BY <1>2, <1>3
  <2>3. c.tokens = SizeOf(c.parts) /\ c.tokens = SizeOf(parts) + d[read + 1]
    BY <1>2 DEF Packing
  <2> QED BY <2>1, <2>2, <2>3 DEF Chunk
<1> HIDE DEF c, new
<1>6. /\ more \in Seq(Chunk) /\ Len(more) = L /\ more[L] = c /\ DOMAIN more = 1..L
      /\ L \in Nat \ {0} /\ Len(made) \in Nat
      /\ \A l \in 1..Len(made) : l \in DOMAIN made /\ more[l] = made[l]
  BY <1>0, <1>5
<1>7. /\ sofar \in Seq(Chunk) /\ Len(sofar) = L /\ sofar[L].parts = parts /\ DOMAIN sofar = 1..L
      /\ \A l \in 1..Len(made) : sofar[l] = more[l]
  <2>1. [parts |-> parts, tokens |-> SizeOf(parts)] \in Chunk
    BY <1>2 DEF Chunk
  <2> QED BY <2>1, <1>6
<1>21. m = Len(parts) /\ L = Len(made) + 1
  OBVIOUS
<1> HIDE DEF more, L, m
<1>8. \A k \in 1..L : \A i \in DOMAIN sofar[k].parts : sofar[k].parts[i].para \in 1..read
  BY <1>7, PartsLie
<1>9. Good(d, sofar, L, read)
  <2>1. L \in DOMAIN sofar
    BY <1>6, <1>7
  <2> QED BY <2>1 DEF WellCut
<1>10. PICK n \in Nat : Follows(d, sofar, L, n)
  BY <1>9 DEF Good
<1>11. n < m
  BY <1>7, <1>10, <1>21 DEF Follows, Carries
<1>12. \A i \in DOMAIN more[L].parts : Lies(d, more[L].parts[i], read + 1)
  <2>1. ASSUME NEW i \in 1..(m + 1) PROVE Lies(d, c.parts[i], read + 1)
    <3>1. CASE i = m + 1
      <4>1. c.parts[i] = new
        BY <1>3, <3>1
      <4>2. d[read + 1] <= ChunkSize
        BY <1>0, <1>2
      <4>3. Lies(d, new, read + 1)
        BY <1>0, <1>1, <4>2 DEF Lies
      <4> QED BY <4>1, <4>3
    <3>2. CASE i \in 1..m
      <4>1. c.parts[i] = parts[i] /\ i \in DOMAIN parts
        BY <1>21, <1>3, <3>2
      <4>2. Lies(d, parts[i], read)
        BY <1>7, <1>9, <4>1 DEF Good
      <4> QED BY <1>0, <4>1, <4>2 DEF Lies
    <3> QED BY <1>2, <3>1, <3>2
  <2> QED BY <1>3, <1>6, <2>1
<1>13. Ordered(more[L].parts)
  <2>1. SUFFICES ASSUME NEW i \in 1..(m + 1), NEW j \in 1..(m + 1), i < j PROVE Before(c.parts[i], c.parts[j])
    BY <1>3, <1>6 DEF Ordered
  <2>2. i \in 1..m /\ c.parts[i] = parts[i] /\ i \in DOMAIN parts
    <3>1. i \in 1..m
      BY <1>2, <2>1
    <3> QED BY <1>3, <1>21, <3>1
  <2>3. CASE j = m + 1
    <3>1. parts[i].para \in 1..read /\ L \in 1..L
      BY <1>6, <1>7, <1>8, <2>2
    <3> QED BY <1>1, <1>3, <2>2, <2>3, <3>1 DEF Before
  <2>4. CASE j \in 1..m
    <3>1. Ordered(parts) /\ j \in DOMAIN parts /\ c.parts[j] = parts[j]
      BY <1>3, <1>7, <1>9, <1>21, <2>4 DEF Good
    <3> QED BY <2>1, <2>2, <3>1 DEF Ordered
  <2> QED BY <1>2, <2>3, <2>4
<1>14. L > 1 => more[L - 1] = sofar[L - 1]
  <2>1. L > 1 => L - 1 \in 1..Len(made)
    BY <1>6, <1>21
  <2> QED BY <1>7, <2>1
<1>15. Carries(more, L, n)
  <2>1. Carries(sofar, L, n)
    BY <1>10 DEF Follows
  <2>2. SubSeq(more[L].parts, 1, n) = SubSeq(sofar[L].parts, 1, n)
    BY <1>4, <1>6, <1>7, <1>11
  <2>3. \A i \in 1..n : more[L].parts[i] = sofar[L].parts[i]
    BY <1>2, <1>3, <1>6, <1>7, <1>11
  <2>4. n < Len(more[L].parts)
    BY <1>2, <1>3, <1>6, <1>11
  <2> QED BY <1>14, <2>1, <2>2, <2>3, <2>4 DEF Carries
<1>16. GoesOn(more, L, n)
  <2>1. SUFFICES ASSUME NEW l \in 1..(L - 1), NEW i \in DOMAIN more[l].parts, NEW j \in (n + 1)..(m + 1)
                 PROVE  Before(more[l].parts[i], c.parts[j])
    BY <1>3, <1>6 DEF GoesOn
  <2>2. l \in 1..Len(made) /\ l \in 1..L /\ more[l] = sofar[l]
    BY <1>6, <1>7, <1>21
  <2>3. CASE j = m + 1
    <3>1. more[l].parts[i].para \in 1..read
      BY <1>8, <2>2
    <3>2. c.parts[j] = new
      BY <1>3, <2>3
    <3> QED BY <1>1, <3>1, <3>2 DEF Before
  <2>4. CASE j \in (n + 1)..m
    <3>1. c.parts[j] = sofar[L].parts[j] /\ j \in (n + 1)..Len(sofar[L].parts)
      BY <1>3, <1>7, <1>21, <2>4
    <3>2. GoesOn(sofar, L, n)
      BY <1>10 DEF Follows
    <3> QED BY <2>2, <3>1, <3>2 DEF GoesOn
  <2> QED BY <1>2, <2>3, <2>4
<1>17. Counted(d, more[L], n)
  <2>1. SubSeq(c.parts, 1, n) \in Seq(PartSet)
    BY <1>3, <1>11, <1>2
  <2>2. SizeOf(SubSeq(c.parts, 1, n)) \in Nat
    BY <2>1, SizeOfNat
  <2>3. c.tokens <= ChunkSize + SizeOf(SubSeq(c.parts, 1, n))
    BY <1>0, <1>2, <1>5, <2>2
  <2> QED BY <1>5, <1>6, <2>3 DEF Counted
<1>18. Follows(d, more, L, n)
  BY <1>15, <1>16, <1>17 DEF Follows
<1>19. WellCut(d, more, read + 1)
  <2>1. SUFFICES ASSUME NEW k \in 1..L PROVE Good(d, more, k, read + 1)
    BY <1>6 DEF WellCut
  <2>2. Good(d, more, L, read + 1)
    BY <1>12, <1>13, <1>18 DEF Good
  <2>3. CASE k \in 1..Len(made)
    <3>1. k \in DOMAIN sofar /\ k \in DOMAIN more /\ \A l \in 1..k : more[l] = sofar[l]
      BY <1>6, <1>7, <1>21, <2>3
    <3>2. Good(d, sofar, k, read)
      BY <3>1 DEF WellCut
    <3>3. read + 1 \in Nat /\ read <= read + 1
      BY <1>0
    <3> HIDE DEF Good
    <3> QED BY <1>6, <1>7, <3>1, <3>2, <3>3, SameStart
  <2> QED BY <1>6, <1>21, <2>2, <2>3
<1>20. Covered(d, more, read + 1)
  <2>1. Fresh(more, L) = (n + 1)..(m + 1)
    <3>1. L \in DOMAIN more /\ Len(more[L].parts) = m + 1
      BY <1>3, <1>6
    <3>0. more \in Seq(Chunk)
      BY <1>6
    <3>2. Fresh(more, L) = (n + 1)..Len(more[L].parts)
      BY <1>18, <3>1, <3>0, RepeatsAre
    <3> QED BY <3>1, <3>2
  <2>2. ASSUME NEW token \in 1..d[read + 1]
        PROVE  \E k \in DOMAIN more : \E i \in Fresh(more, k) : Holds(more[k].parts[i], read + 1, token)
    <3>1. Holds(new, read + 1, token)
      BY <1>0, <1>1 DEF Holds
    <3>2. L \in DOMAIN more /\ m + 1 \in Fresh(more, L)
      BY <1>2, <1>6, <1>11, <2>1
    <3>3. more[L].parts[m + 1] = new
      BY <1>3, <1>6
    <3> QED BY <3>1, <3>2, <3>3
  <2>3. ASSUME NEW k \in DOMAIN sofar
        PROVE  /\ k \in DOMAIN more
               /\ k > 1 => more[k - 1] = sofar[k - 1]
               /\ \A i \in DOMAIN sofar[k].parts :
                     i \in DOMAIN more[k].parts /\ more[k].parts[i] = sofar[k].parts[i]
    <3>1. k \in 1..L /\ (k > 1 => k - 1 \in 1..Len(made))
      BY <1>6, <1>7, <1>21
    <3>2. k > 1 => more[k - 1] = sofar[k - 1]
      BY <1>7, <3>1
    <3>3. k \in DOMAIN more
      BY <1>6, <3>1
    <3>4. \A i \in DOMAIN sofar[L].parts : i \in DOMAIN more[L].parts /\ more[L].parts[i] = sofar[L].parts[i]
      BY <1>2, <1>3, <1>6, <1>7, <1>21
    <3>5. k = L \/ k \in 1..Len(made)
      BY <1>6, <1>21, <3>1
    <3> QED BY <1>7, <3>2, <3>3, <3>4, <3>5
  <2> QED BY <1>6, <1>7, <2>2, <2>3, CoverGrows
<1> QED BY <1>19, <1>20 DEF more, c

-----------------------------------------------------------------------------
(* The pieces of an oversized paragraph.                                   *)

Piece(d, p, i, chars) ==
    Decode(p, (i - 1) * ChunkSize, IF i * ChunkSize < d[p] THEN i * ChunkSize ELSE d[p], chars)
Across(d, p) ==
    {char \in (1..d[p]) \X (1..d[p]) :
        /\ char[2] < char[1] + CharTokens
        /\ \E cut \in 1..(d[p] - 1) : cut % ChunkSize = 0 /\ char[1] <= cut /\ cut < char[2]}
PieceCount(d, p) == (d[p] + ChunkSize - 1) \div ChunkSize

\* There are as many as it takes.
LEMMA PieceBounds ==
    ASSUME NEW d \in Seq(Nat \ {0}), NEW p \in DOMAIN d, d[p] > ChunkSize
    PROVE  /\ PieceCount(d, p) \in Nat
           /\ PieceCount(d, p) * ChunkSize \in Nat
           /\ PieceCount(d, p) * ChunkSize <= d[p] + ChunkSize - 1
           /\ d[p] - 1 < PieceCount(d, p) * ChunkSize
<1>1. d[p] \in Nat \ {0} /\ ChunkSize \in Nat \ {0} /\ d[p] + ChunkSize - 1 \in Nat
  BY ChunkingAssumption
<1> DEFINE a == d[p] + ChunkSize - 1
<1>2. /\ a \div ChunkSize \in Nat
      /\ (a \div ChunkSize) * ChunkSize <= a /\ a < (a \div ChunkSize) * ChunkSize + ChunkSize
  <2> HIDE DEF a
  <2> QED BY <1>1, Division DEF a
<1>3. (a \div ChunkSize) * ChunkSize \in Nat
  BY <1>1, <1>2
<1>4. PieceCount(d, p) = a \div ChunkSize
  BY DEF PieceCount
<1> QED BY <1>1, <1>2, <1>3, <1>4

LEMMA PieceIsPart ==
    ASSUME NEW d \in Seq(Nat \ {0}), NEW p \in DOMAIN d, d[p] > ChunkSize,
           NEW i \in 1..PieceCount(d, p), NEW chars \in SUBSET Across(d, p)
    PROVE  /\ Piece(d, p, i, chars) \in PartSet
           /\ Piece(d, p, i, chars).para = p
           /\ Piece(d, p, i, chars).from = i * ChunkSize - ChunkSize /\ i * ChunkSize \in Nat
           /\ Piece(d, p, i, chars).to <= i * ChunkSize /\ Piece(d, p, i, chars).to <= d[p]
           /\ \A token \in Nat : token <= i * ChunkSize /\ token <= d[p] => token <= Piece(d, p, i, chars).to
           /\ Piece(d, p, i, chars) # All(d, p)
           /\ Size(Piece(d, p, i, chars)) <= ChunkSize
           /\ \A token \in Piece(d, p, i, chars).torn : CutAt(d, p, token)
<1>1. d[p] \in Nat \ {0} /\ ChunkSize \in Nat \ {0} /\ p \in Nat \ {0} /\ i \in Nat \ {0}
  BY ChunkingAssumption, PieceBounds
<1>2. i * ChunkSize <= PieceCount(d, p) * ChunkSize /\ i * ChunkSize \in Nat
  <2>1. PieceCount(d, p) \in Nat /\ i <= PieceCount(d, p)
    BY PieceBounds
  <2>2. i * ChunkSize <= PieceCount(d, p) * ChunkSize
    BY <1>1, <2>1, Monotone
  <2>3. i * ChunkSize \in Nat
    BY <1>1
  <2> QED BY <2>2, <2>3
<1>3. (i - 1) * ChunkSize = i * ChunkSize - ChunkSize
  BY <1>1, Distribute
<1>4. i * ChunkSize - ChunkSize < d[p]
  BY <1>1, <1>2, PieceBounds
<1>5. ChunkSize <= i * ChunkSize
  <2>1. 1 * ChunkSize <= i * ChunkSize
    BY <1>1, Monotone
  <2> QED BY <1>1, <2>1
<1>6. i = 1 \/ ChunkSize + ChunkSize <= i * ChunkSize
  <2>1. i # 1 => 2 * ChunkSize <= i * ChunkSize
    BY <1>1, Monotone
  <2> QED BY <1>1, <2>1
<1>7. i = 1 => i * ChunkSize = ChunkSize
  BY <1>1
<1> DEFINE m == i * ChunkSize
<1> DEFINE end == IF m < d[p] THEN m ELSE d[p]
           torn == {token \in (m - ChunkSize + 1)..end : \E char \in chars : token \in char[1]..char[2]}
<1>8. Piece(d, p, i, chars) = [para |-> p, from |-> m - ChunkSize, to |-> end, torn |-> torn]
  BY <1>3 DEF Piece, Decode, Part
<1>9. m \in Nat /\ m - ChunkSize < d[p] /\ ChunkSize <= m /\ (i = 1 => m = ChunkSize)
      /\ (i = 1 \/ ChunkSize + ChunkSize <= m)
  BY <1>2, <1>4, <1>5, <1>6, <1>7
<1> HIDE DEF m
<1>13. torn \in SUBSET Nat
  BY <1>1, <1>9
<1>14. ASSUME NEW token \in torn PROVE CutAt(d, p, token)
  <2>1. PICK char \in chars : token \in char[1]..char[2]
    OBVIOUS
  <2>2. /\ char[1] \in 1..d[p] /\ char[2] \in 1..d[p]
        /\ char[2] < char[1] + CharTokens
        /\ \E cut \in 1..(d[p] - 1) : cut % ChunkSize = 0 /\ char[1] <= cut /\ cut < char[2]
    BY DEF Across
  <2>3. PICK cut \in 1..(d[p] - 1) : cut % ChunkSize = 0 /\ char[1] <= cut /\ cut < char[2]
    BY <2>2
  <2>4. CharTokens \in Nat \ {0} /\ token \in Nat
    BY <1>13, ChunkingAssumption
  <2>5. char[1] <= token /\ token <= char[2] /\ char[1] \in Nat /\ char[2] \in Nat
    BY <1>1, <2>1, <2>2, <2>4
  <2>6. cut + 1 < token + CharTokens /\ token < cut + CharTokens
    BY <1>1, <2>2, <2>3, <2>4, <2>5
  <2> QED BY <2>3, <2>6 DEF CutAt
<1> HIDE DEF torn
<1>10. Piece(d, p, i, chars) # All(d, p)
  BY <1>1, <1>8, <1>9 DEF All, Part
<1>11. Piece(d, p, i, chars) \in PartSet
  BY <1>1, <1>8, <1>9, <1>13 DEF PartSet
<1>12. /\ Piece(d, p, i, chars).para = p /\ Piece(d, p, i, chars).from = m - ChunkSize
       /\ Piece(d, p, i, chars).to <= m /\ Piece(d, p, i, chars).to <= d[p]
       /\ \A token \in Nat : token <= m /\ token <= d[p] => token <= Piece(d, p, i, chars).to
       /\ Size(Piece(d, p, i, chars)) <= ChunkSize
  BY <1>1, <1>8, <1>9 DEF Size
<1>15. \A token \in Piece(d, p, i, chars).torn : CutAt(d, p, token)
  BY <1>8, <1>14
<1> QED BY <1>9, <1>10, <1>11, <1>12, <1>15 DEF m

LEMMA PiecesInOrder ==
    ASSUME NEW d \in Seq(Nat \ {0}), NEW p \in DOMAIN d, d[p] > ChunkSize,
           NEW i \in 1..PieceCount(d, p), NEW j \in 1..PieceCount(d, p), i < j,
           NEW chars \in SUBSET Across(d, p)
    PROVE  Before(Piece(d, p, i, chars), Piece(d, p, j, chars))
<1>1. ChunkSize \in Nat \ {0} /\ i \in Nat /\ j \in Nat
  BY ChunkingAssumption, PieceBounds
<1>2. (i + 1) * ChunkSize <= j * ChunkSize
  BY <1>1, Monotone
<1>3. (i + 1) * ChunkSize = i * ChunkSize + ChunkSize
  BY <1>1, Distribute
<1>4. /\ Piece(d, p, i, chars) \in PartSet /\ Piece(d, p, j, chars) \in PartSet
      /\ Piece(d, p, i, chars).para = p /\ Piece(d, p, j, chars).para = p
      /\ Piece(d, p, i, chars).to <= i * ChunkSize /\ i * ChunkSize \in Nat
      /\ Piece(d, p, j, chars).from = j * ChunkSize - ChunkSize /\ j * ChunkSize \in Nat
  BY PieceIsPart
<1>5. Piece(d, p, i, chars).to \in Nat
  BY <1>4 DEF PartSet
<1>6. Piece(d, p, i, chars).to <= Piece(d, p, j, chars).from
  <2> DEFINE a == i * ChunkSize
             b == j * ChunkSize
             to == Piece(d, p, i, chars).to
             from == Piece(d, p, j, chars).from
  <2>1. a \in Nat /\ b \in Nat /\ a + ChunkSize <= b
    BY <1>2, <1>3, <1>4
  <2>2. to \in Nat /\ to <= a /\ from = b - ChunkSize
    BY <1>4, <1>5
  <2> HIDE DEF a, b, to, from
  <2>3. to <= from
    BY <1>1, <2>1, <2>2
  <2> QED BY <2>3 DEF to, from
<1> QED BY <1>4, <1>6 DEF Before

LEMMA PiecesCover ==
    ASSUME NEW d \in Seq(Nat \ {0}), NEW p \in DOMAIN d, d[p] > ChunkSize,
           NEW token \in 1..d[p], NEW chars \in SUBSET Across(d, p)
    PROVE  \E i \in 1..PieceCount(d, p) : Holds(Piece(d, p, i, chars), p, token)
<1>1. d[p] \in Nat \ {0} /\ ChunkSize \in Nat \ {0} /\ token \in Nat \ {0} /\ token - 1 \in Nat /\ token <= d[p]
  BY ChunkingAssumption
<1> DEFINE q == (token - 1) \div ChunkSize
<1>2. q \in Nat /\ q * ChunkSize <= token - 1 /\ token - 1 < q * ChunkSize + ChunkSize
  BY <1>1, Division
<1> HIDE DEF q
<1>3. q * ChunkSize \in Nat
  BY <1>1, <1>2
<1>4. PieceCount(d, p) <= q => PieceCount(d, p) * ChunkSize <= q * ChunkSize
  BY <1>1, <1>2, PieceBounds, Monotone
<1>5. q < PieceCount(d, p)
  BY <1>1, <1>2, <1>3, <1>4, PieceBounds
<1>6. q + 1 \in 1..PieceCount(d, p)
  BY <1>2, <1>5, PieceBounds
<1>7. (q + 1) * ChunkSize = q * ChunkSize + ChunkSize
  BY <1>1, <1>2, Distribute
<1>8. /\ Piece(d, p, q + 1, chars).para = p
      /\ Piece(d, p, q + 1, chars).from = (q + 1) * ChunkSize - ChunkSize
      /\ token <= (q + 1) * ChunkSize => token <= Piece(d, p, q + 1, chars).to
  BY <1>1, <1>6, PieceIsPart
<1>9. Holds(Piece(d, p, q + 1, chars), p, token)
  BY <1>1, <1>2, <1>3, <1>7, <1>8 DEF Holds
<1> QED BY <1>6, <1>9

PieceChunk(d, p, i, chars) == [parts |-> <<Piece(d, p, i, chars)>>, tokens |-> 0]
ChunksOf(d, p, chars) == [i \in 1..PieceCount(d, p) |-> PieceChunk(d, p, i, chars)]

\* A paragraph is cut into chunks of its own.
LEMMA AddPieces ==
    ASSUME NEW d \in Seq(Nat \ {0}), NEW read \in Nat, read < Len(d), d[read + 1] > ChunkSize,
           NEW made, WellCut(d, made, read), Covered(d, made, read),
           NEW chars \in SUBSET Across(d, read + 1)
    PROVE  /\ WellCut(d, made \o ChunksOf(d, read + 1, chars), read + 1)
           /\ Covered(d, made \o ChunksOf(d, read + 1, chars), read + 1)
<1> DEFINE p == read + 1
           N == PieceCount(d, p)
           L == Len(made)
           c(i) == PieceChunk(d, p, i, chars)
           cut == ChunksOf(d, p, chars)
           more == made \o cut
<1>0. /\ p \in DOMAIN d /\ d[p] \in Nat \ {0} /\ p \in Nat /\ read <= p /\ p = read + 1
      /\ made \in Seq(Chunk) /\ L \in Nat /\ N \in Nat /\ d[p] > ChunkSize
      /\ chars \in SUBSET Across(d, p)
  BY PieceBounds DEF WellCut
<1> HIDE DEF p, N
<1>1. ASSUME NEW i \in 1..N
      PROVE  /\ c(i) \in Chunk /\ c(i).parts = <<Piece(d, p, i, chars)>>
             /\ Piece(d, p, i, chars) \in PartSet /\ Piece(d, p, i, chars).para = p
             /\ Piece(d, p, i, chars).to <= d[p] /\ Piece(d, p, i, chars) # All(d, p)
             /\ Size(Piece(d, p, i, chars)) <= ChunkSize
             /\ \A token \in Piece(d, p, i, chars).torn : CutAt(d, p, token)
  <2>1. /\ Piece(d, p, i, chars) \in PartSet /\ Piece(d, p, i, chars).para = p
        /\ Piece(d, p, i, chars).to <= d[p] /\ Piece(d, p, i, chars) # All(d, p)
        /\ Size(Piece(d, p, i, chars)) <= ChunkSize
        /\ \A token \in Piece(d, p, i, chars).torn : CutAt(d, p, token)
    BY <1>0, PieceIsPart DEF N
  <2>3. c(i).parts = <<Piece(d, p, i, chars)>> /\ c(i).tokens \in Nat /\ c(i) \in [parts : Seq(PartSet), tokens : Nat]
    BY <2>1 DEF PieceChunk
  <2>4. c(i) \in Chunk
    <3>1. c(i).parts # <<>>
      BY <2>3
    <3> QED BY <2>3, <3>1 DEF Chunk
  <2> QED BY <2>1, <2>3, <2>4
<1>2. cut \in Seq(Chunk) /\ Len(cut) = N /\ \A i \in 1..N : cut[i] = c(i)
  BY <1>0, <1>1 DEF ChunksOf, N
<1>3. more = made \o cut /\ L = Len(made)
  OBVIOUS
<1> HIDE DEF c, cut, L, more
<1>4. /\ more \in Seq(Chunk) /\ Len(more) = L + N /\ DOMAIN more = 1..(L + N)
      /\ \A l \in 1..L : l \in DOMAIN made /\ more[l] = made[l]
      /\ \A i \in 1..N : L + i \in DOMAIN more /\ more[L + i] = c(i)
  <2>1. more \in Seq(Chunk) /\ Len(more) = L + N /\ DOMAIN more = 1..(L + N)
    <3>1. more \in Seq(Chunk) /\ Len(more) = L + N
      BY <1>0, <1>2, <1>3, ConcatProperties
    <3> QED BY <3>1
  <2>2. \A l \in 1..(L + N) : more[l] = IF l <= L THEN made[l] ELSE cut[l - L]
    BY <1>0, <1>2, <1>3, ConcatProperties
  <2>3. \A l \in 1..L : l \in DOMAIN made /\ more[l] = made[l]
    BY <1>0, <2>2 DEF L
  <2>4. ASSUME NEW i \in 1..N PROVE L + i \in 1..(L + N) /\ ~(L + i <= L) /\ (L + i) - L = i
    BY <1>0
  <2>5. \A i \in 1..N : L + i \in DOMAIN more /\ more[L + i] = c(i)
    BY <1>2, <2>1, <2>2, <2>4
  <2> QED BY <2>1, <2>3, <2>5
<1>5. ASSUME NEW i \in 1..N PROVE Follows(d, more, L + i, 0)
  <2> DEFINE k == L + i
  <2>1. /\ k \in Nat \ {0} /\ more[k] = c(i) /\ more[k].parts = <<Piece(d, p, i, chars)>>
        /\ Len(more[k].parts) = 1 /\ more[k].parts[1] = Piece(d, p, i, chars)
    <3>1. k \in Nat \ {0}
      BY <1>0
    <3>2. more[k] = c(i) /\ more[k].parts = <<Piece(d, p, i, chars)>>
      BY <1>1, <1>4
    <3> QED BY <3>1, <3>2
  <2>2. k > 1 => Len(more[k - 1].parts) \in Nat
    <3>1. k > 1 => k - 1 \in DOMAIN more
      BY <1>0, <1>4
    <3> QED BY <1>4, <3>1, ChunkParts
  <2>3. k = L + i
    OBVIOUS
  <2> HIDE DEF k
  <2>4. Carries(more, k, 0)
    <3>1. SubSeq(more[k].parts, 1, 0) = <<>>
      BY <2>1
    <3>0. 0 <= Overlap
      BY ChunkingAssumption
    <3>2. SizeOf(SubSeq(more[k].parts, 1, 0)) <= Overlap
      BY <3>1, <3>0, SizeOfNone
    <3> QED BY <2>1, <2>2, <3>2 DEF Carries
  <2>5. GoesOn(more, k, 0)
    <3>1. SUFFICES ASSUME NEW l \in 1..(k - 1), NEW x \in DOMAIN more[l].parts
                   PROVE  Before(more[l].parts[x], Piece(d, p, i, chars))
      BY <2>1 DEF GoesOn
    <3>2. CASE l \in 1..L
      <4>1. l \in DOMAIN made /\ more[l] = made[l]
        BY <1>4, <3>2
      <4>2. more[l].parts[x].para \in 1..read
        BY <4>1, PartsLie
      <4> QED BY <1>0, <1>1, <4>2 DEF Before
    <3>3. CASE l > L
      <4>1. l - L \in 1..N /\ l - L < i /\ L + (l - L) = l
        BY <1>0, <2>3, <3>3
      <4>2. more[l] = c(l - L)
        BY <1>4, <4>1
      <4>3. more[l].parts = <<Piece(d, p, l - L, chars)>>
        BY <1>1, <4>1, <4>2
      <4>4. more[l].parts[x] = Piece(d, p, l - L, chars)
        BY <4>3
      <4>5. Before(Piece(d, p, l - L, chars), Piece(d, p, i, chars))
        BY <1>0, <4>1, PiecesInOrder DEF N
      <4> QED BY <4>4, <4>5
    <3> QED BY <1>0, <2>3, <3>2, <3>3
  <2>6. ~PackedIn(d, more[k])
    <3>1. Head(more[k].parts) = Piece(d, p, i, chars)
      BY <2>1
    <3> QED BY <1>1, <3>1 DEF PackedIn
  <2>7. Follows(d, more, k, 0)
    BY <2>4, <2>5, <2>6 DEF Follows, Counted
  <2> QED BY <2>3, <2>7
<1>6. ASSUME NEW i \in 1..N PROVE Good(d, more, L + i, p)
  <2>1. more[L + i].parts = <<Piece(d, p, i, chars)>>
    BY <1>1, <1>4
  <2>2. \A x \in DOMAIN more[L + i].parts : Lies(d, more[L + i].parts[x], p)
    <3>1. Lies(d, Piece(d, p, i, chars), p)
      BY <1>0, <1>1 DEF Lies
    <3> QED BY <2>1, <3>1
  <2>3. Ordered(more[L + i].parts)
    BY <2>1 DEF Ordered
  <2>4. \E n \in Nat : Follows(d, more, L + i, n)
    BY <1>5
  <2> QED BY <2>2, <2>3, <2>4 DEF Good
<1>7. WellCut(d, more, p)
  <2>1. SUFFICES ASSUME NEW k \in 1..(L + N) PROVE Good(d, more, k, p)
    BY <1>4 DEF WellCut
  <2>2. CASE k \in 1..L
    <3>1. k \in DOMAIN made /\ k \in DOMAIN more /\ \A l \in 1..k : more[l] = made[l]
      BY <1>0, <1>4, <2>2
    <3>2. Good(d, made, k, read)
      BY <3>1 DEF WellCut
    <3> QED BY <1>0, <1>4, <3>1, <3>2, SameStart
  <2>3. CASE k > L
    <3>1. k - L \in 1..N /\ L + (k - L) = k
      BY <1>0, <2>3
    <3> QED BY <1>6, <3>1
  <2> QED BY <1>0, <2>2, <2>3
<1>8. Covered(d, more, read + 1)
  <2>1. ASSUME NEW token \in 1..d[read + 1]
        PROVE  \E k \in DOMAIN more : \E i \in Fresh(more, k) : Holds(more[k].parts[i], read + 1, token)
    <3>1. PICK i \in 1..N : Holds(Piece(d, p, i, chars), p, token)
      BY <1>0, PiecesCover DEF N
    <3>0. L + i \in DOMAIN more /\ more[L + i].parts = <<Piece(d, p, i, chars)>>
      BY <1>1, <1>4
    <3>2. L + i \in DOMAIN more /\ Len(more[L + i].parts) = 1 /\ more[L + i].parts[1] = Piece(d, p, i, chars)
      BY <3>0
    <3>6. more \in Seq(Chunk) /\ Follows(d, more, L + i, 0)
      BY <1>4, <1>5
    <3>7. L + i \in DOMAIN more
      BY <3>2
    <3>3. Fresh(more, L + i) = (0 + 1)..Len(more[L + i].parts)
      BY <3>7, <3>6, RepeatsAre
    <3>4. 1 \in Fresh(more, L + i)
      BY <3>2, <3>3
    <3>5. Holds(more[L + i].parts[1], read + 1, token)
      BY <1>0, <3>1, <3>2
    <3> QED BY <3>2, <3>4, <3>5
  <2>2. ASSUME NEW k \in DOMAIN made
        PROVE  /\ k \in DOMAIN more /\ more[k] = made[k]
               /\ k > 1 => more[k - 1] = made[k - 1]
    <3>1. k \in 1..L /\ (k > 1 => k - 1 \in 1..L)
      BY <1>0 DEF L
    <3> QED BY <1>0, <1>4, <3>1
  <2> QED BY <1>0, <1>4, <2>1, <2>2, CoverGrows
<1> QED BY <1>0, <1>7, <1>8 DEF more, cut

-----------------------------------------------------------------------------
(* The packing loop.                                                       *)

\* A set of numbers has a least one.
LEMMA LeastExists ==
    ASSUME NEW S \in SUBSET Nat, S # {}
    PROVE  \E m \in S : \A n \in S : m <= n
<1> DEFINE R == {ss \in Nat \X Nat : ss[1] < ss[2]}
<1>1. IsWellFoundedOn(R, Nat)
  BY NatLessThanWellFounded DEF OpToRel
<1>2. PICK m \in S : \A n \in S : ~(<<n, m>> \in R)
  <2> HIDE DEF R
  <2> QED BY <1>1, WFMin
<1>3. ASSUME NEW n \in S PROVE m <= n
  <2>1. m \in Nat /\ n \in Nat
    OBVIOUS
  <2>2. <<n, m>> \in R <=> n < m
    BY <2>1
  <2>3. ~(<<n, m>> \in R)
    BY <1>2
  <2> HIDE DEF R
  <2> QED BY <2>1, <2>2, <2>3
<1> QED BY <1>3

\* What is carried over is an end of the window, within the overlap.
LEMMA CarriedFits ==
    ASSUME window \in Seq(PartSet)
    PROVE  \E m \in 1..(Len(window) + 1) :
              /\ CarryOverlap = SubSeq(window, m, Len(window))
              /\ SizeOf(SubSeq(window, m, Len(window))) <= Overlap
<1>1. Len(window) \in Nat /\ Fits \in SUBSET Nat
  BY DEF Fits
<1>2. Len(window) + 1 \in Fits
  <2>1. SubSeq(window, Len(window) + 1, Len(window)) = <<>>
    BY <1>1
  <2>2. SizeOf(SubSeq(window, Len(window) + 1, Len(window))) <= Overlap
    <3>1. 0 <= Overlap
      BY ChunkingAssumption
    <3> QED BY <2>1, <3>1, SizeOfNone
  <2> QED BY <1>1, <2>2 DEF Fits
<1>3. Min(Fits) \in Fits
  <2>1. \E m \in Fits : \A n \in Fits : m <= n
    BY <1>1, <1>2, LeastExists
  <2> QED BY <2>1 DEF Min
<1> QED BY <1>3 DEF Fits, CarryOverlap

\* The packing loop's invariant.
PackingInv ==
    /\ doc \in Seq(Nat \ {0}) /\ next \in 1..(Len(doc) + 1)
    /\ window \in Seq(PartSet) /\ tokens \in Nat /\ chunks \in Seq(Chunk)
    /\ phase = "packing" => tokens = SizeOf(window)
    /\ phase # "packing" => window = <<>>
    /\ WellCut(doc, Cut, next - 1) /\ Covered(doc, Cut, next - 1)

LEMMA PackingInit == Init => PackingInv
<1> SUFFICES ASSUME Init PROVE PackingInv
  OBVIOUS
<1>1. doc \in Seq(Nat \ {0}) /\ next = 1 /\ window = <<>> /\ tokens = 0 /\ chunks = <<>> /\ phase = "packing"
  BY ChunkingAssumption DEF Init
<1>2. Cut = <<>>
  BY <1>1 DEF Cut
<1>3. WellCut(doc, <<>>, 0) /\ Covered(doc, <<>>, 0)
  BY DEF WellCut, Covered
<1>4. <<>> \in Seq(PartSet) /\ <<>> \in Seq(Chunk) /\ next \in 1..(Len(doc) + 1) /\ next - 1 = 0
  BY <1>1
<1> QED BY <1>1, <1>2, <1>3, <1>4, SizeOfNone DEF PackingInv

\* A paragraph that is read.
LEMMA ParagraphRead ==
    ASSUME PackingInv, next <= Len(doc)
    PROVE  /\ next - 1 \in Nat /\ next - 1 < Len(doc) /\ (next - 1) + 1 = next
           /\ next \in DOMAIN doc /\ doc[next] \in Nat \ {0}
           /\ doc \in Seq(Nat \ {0}) /\ next + 1 \in 1..(Len(doc) + 1) /\ (next + 1) - 1 = next
           /\ ChunkSize \in Nat \ {0}
BY ChunkingAssumption DEF PackingInv

\* An oversized paragraph.
LEMMA PackingSplit == PackingInv /\ SplitParagraph => PackingInv'
<1> SUFFICES ASSUME PackingInv, SplitParagraph PROVE PackingInv'
  OBVIOUS
<1>0. phase = "packing" /\ next <= Len(doc) /\ doc[next] > ChunkSize
  BY DEF SplitParagraph
<1>1. /\ next - 1 \in Nat /\ next - 1 < Len(doc) /\ (next - 1) + 1 = next
      /\ next \in DOMAIN doc /\ doc[next] \in Nat \ {0}
      /\ doc \in Seq(Nat \ {0}) /\ next + 1 \in 1..(Len(doc) + 1) /\ (next + 1) - 1 = next
  BY <1>0, ParagraphRead
<1>2. PICK chars \in SUBSET Straddling(next) : chunks' = Cut \o PieceChunks(next, chars)
  BY DEF SplitParagraph
<1>3. chars \in SUBSET Across(doc, (next - 1) + 1)
  BY <1>1 DEF Straddling, Across, Cuts
<1>4. Pieces(next, chars) = [i \in 1..PieceCount(doc, next) |-> Piece(doc, next, i, chars)]
  BY DEF Pieces, PieceCount, Piece
<1>5. PieceChunks(next, chars) = ChunksOf(doc, next, chars)
  BY <1>4 DEF PieceChunks, ChunksOf, PieceChunk
<1>6. chunks' = Cut \o ChunksOf(doc, next, chars)
  BY <1>2, <1>5
<1>7. WellCut(doc, chunks', next) /\ Covered(doc, chunks', next)
  <2>1. WellCut(doc, Cut, next - 1) /\ Covered(doc, Cut, next - 1)
    BY DEF PackingInv
  <2>2. doc[(next - 1) + 1] > ChunkSize
    BY <1>0, <1>1
  <2>3. /\ WellCut(doc, Cut \o ChunksOf(doc, (next - 1) + 1, chars), (next - 1) + 1)
        /\ Covered(doc, Cut \o ChunksOf(doc, (next - 1) + 1, chars), (next - 1) + 1)
    BY <1>1, <1>3, <2>1, <2>2, AddPieces
  <2> QED BY <1>1, <1>6, <2>3
<1>8. window' = <<>> /\ tokens' = 0 /\ next' = next + 1 /\ doc' = doc /\ phase' = phase
  BY DEF SplitParagraph
<1>9. Cut' = chunks'
  BY <1>8 DEF Cut
<1>10. chunks' \in Seq(Chunk) /\ window' \in Seq(PartSet)
  BY <1>7, <1>8 DEF WellCut
<1>11. WellCut(doc', Cut', next' - 1) /\ Covered(doc', Cut', next' - 1)
  BY <1>1, <1>7, <1>8, <1>9
<1> QED BY <1>0, <1>1, <1>8, <1>10, <1>11, SizeOfNone DEF PackingInv

\* Any other: it begins a chunk, with or without an overlap, or joins one.
LEMMA PackingPack == PackingInv /\ PackParagraph => PackingInv'
<1> SUFFICES ASSUME PackingInv, PackParagraph PROVE PackingInv'
  OBVIOUS
<1>0. phase = "packing" /\ next <= Len(doc) /\ doc[next] <= ChunkSize
  BY DEF PackParagraph
<1>1. /\ next - 1 \in Nat /\ next - 1 < Len(doc) /\ (next - 1) + 1 = next
      /\ next \in DOMAIN doc /\ doc[next] \in Nat \ {0}
      /\ doc \in Seq(Nat \ {0}) /\ next + 1 \in 1..(Len(doc) + 1) /\ (next + 1) - 1 = next
      /\ ChunkSize \in Nat \ {0}
  BY <1>0, ParagraphRead
<1>2. /\ window \in Seq(PartSet) /\ chunks \in Seq(Chunk) /\ tokens = SizeOf(window)
      /\ WellCut(doc, Cut, next - 1) /\ Covered(doc, Cut, next - 1) /\ Cut \in Seq(Chunk)
  BY <1>0 DEF PackingInv, WellCut
<1> DEFINE full == window # <<>> /\ tokens + doc[next] > ChunkSize
           kept == IF full THEN CarryOverlap ELSE window
           made == IF full THEN Cut ELSE chunks
<1>3. /\ chunks' = made /\ window' = Append(kept, Whole(next))
      /\ tokens' = (IF full THEN SizeOf(kept) ELSE tokens) + doc[next]
      /\ next' = next + 1 /\ doc' = doc /\ phase' = phase
  BY DEF PackParagraph
<1>4. Whole(next) = All(doc, next) /\ Whole(next) \in PartSet /\ Size(Whole(next)) = doc[next]
  BY <1>1 DEF Whole, All, Part, PartSet, Size
<1>5. kept \in Seq(PartSet) /\ made \in Seq(Chunk)
  <2>1. full => CarryOverlap \in Seq(PartSet)
    <3>1. PICK m \in 1..(Len(window) + 1) : CarryOverlap = SubSeq(window, m, Len(window))
      BY <1>2, CarriedFits
    <3>2. SubSeq(window, m, Len(window)) \in Seq(PartSet)
      BY <1>2
    <3> QED BY <3>1, <3>2
  <2> QED BY <1>2, <2>1
<1>6. tokens' = SizeOf(kept) + doc[next]
  BY <1>2, <1>3
<1> HIDE DEF full, kept, made
<1>7. window' \in Seq(PartSet) /\ window' # <<>> /\ tokens' = SizeOf(window') /\ tokens' \in Nat
  <2>1. SizeOf(kept) \in Nat
    BY <1>5, SizeOfNat
  <2>2. Append(kept, Whole(next)) \in Seq(PartSet) /\ Append(kept, Whole(next)) # <<>>
    BY <1>4, <1>5
  <2>3. SizeOf(Append(kept, Whole(next))) = SizeOf(kept) + doc[next]
    BY <1>4, <1>5, SizeOfAppend
  <2> QED BY <1>1, <1>3, <1>6, <2>1, <2>2, <2>3
<1>8. Cut' = Append(made, Packing(doc, kept, next))
  BY <1>3, <1>4, <1>6, <1>7 DEF Cut, Packing
<1>9. /\ WellCut(doc, Append(made, Packing(doc, kept, next)), next)
      /\ Covered(doc, Append(made, Packing(doc, kept, next)), next)
  <2>0. doc[(next - 1) + 1] <= ChunkSize
    BY <1>0, <1>1
  <2>1. CASE full
    <3>1. PICK m \in 1..(Len(window) + 1) :
            /\ CarryOverlap = SubSeq(window, m, Len(window))
            /\ SizeOf(SubSeq(window, m, Len(window))) <= Overlap
      BY <1>2, CarriedFits
    <3>2. kept = SubSeq(window, m, Len(window)) /\ SizeOf(kept) <= Overlap /\ made = Cut
      BY <2>1, <3>1 DEF kept, made
    <3>3. Len(window) \in Nat /\ Len(kept) = Len(window) - m + 1 /\ \A i \in 1..Len(kept) : kept[i] = window[m + i - 1]
      BY <1>2, <3>2
    <3>4. Cut # <<>> /\ Cut[Len(Cut)].parts = window
      <4>1. Cut = Append(chunks, [parts |-> window, tokens |-> tokens])
        BY <2>1 DEF Cut, full
      <4> QED BY <1>2, <4>1
    <3>5. Len(kept) <= Len(Cut[Len(Cut)].parts)
      BY <3>3, <3>4
    <3>6. \A i \in 1..Len(kept) : kept[i] = Cut[Len(Cut)].parts[Len(Cut[Len(Cut)].parts) - Len(kept) + i]
      <4>1. ASSUME NEW i \in 1..Len(kept) PROVE Len(window) - Len(kept) + i = m + i - 1
        BY <3>3
      <4> QED BY <3>3, <3>4, <4>1
    <3>7. /\ WellCut(doc, Append(Cut, Packing(doc, kept, (next - 1) + 1)), (next - 1) + 1)
          /\ Covered(doc, Append(Cut, Packing(doc, kept, (next - 1) + 1)), (next - 1) + 1)
      BY <1>1, <1>2, <1>5, <2>0, <3>2, <3>4, <3>5, <3>6, AddPacked
    <3> QED BY <1>1, <3>2, <3>7
  <2>2. CASE window = <<>>
    <3>1. kept = <<>> /\ made = chunks /\ Cut = chunks /\ Len(kept) = 0
      BY <2>2 DEF kept, made, full, Cut
    <3>2. SizeOf(kept) <= Overlap
      BY <3>1, SizeOfNone, ChunkingAssumption
    <3>3. made # <<>> => Len(kept) <= Len(made[Len(made)].parts)
      <4>1. made # <<>> => Len(made) \in DOMAIN made
        BY <1>5
      <4>2. made # <<>> => Len(made[Len(made)].parts) \in Nat
        BY <1>5, <4>1, ChunkParts
      <4> QED BY <3>1, <4>2
    <3>4. \A i \in 1..Len(kept) : kept[i] = made[Len(made)].parts[Len(made[Len(made)].parts) - Len(kept) + i]
      BY <3>1
    <3>5. WellCut(doc, made, next - 1) /\ Covered(doc, made, next - 1)
      BY <1>2, <3>1
    <3>6. /\ WellCut(doc, Append(made, Packing(doc, kept, (next - 1) + 1)), (next - 1) + 1)
          /\ Covered(doc, Append(made, Packing(doc, kept, (next - 1) + 1)), (next - 1) + 1)
      BY <1>1, <1>5, <2>0, <3>1, <3>2, <3>3, <3>4, <3>5, AddPacked
    <3> QED BY <1>1, <3>6
  <2>3. CASE window # <<>> /\ ~full
    <3>1. kept = window /\ made = chunks
      BY <2>3 DEF kept, made
    <3>2. SizeOf(window) \in Nat /\ SizeOf(window) + doc[(next - 1) + 1] <= ChunkSize
      <4>1. SizeOf(window) \in Nat
        BY <1>2, SizeOfNat
      <4> QED BY <1>1, <1>2, <2>3, <4>1 DEF full
    <3>3. Cut = Append(chunks, [parts |-> window, tokens |-> SizeOf(window)])
      BY <1>2, <2>3 DEF Cut
    <3>4. /\ WellCut(doc, Append(chunks, Packing(doc, window, (next - 1) + 1)), (next - 1) + 1)
          /\ Covered(doc, Append(chunks, Packing(doc, window, (next - 1) + 1)), (next - 1) + 1)
      BY <1>1, <1>2, <2>3, <3>2, <3>3, ExtendLast
    <3> QED BY <1>1, <3>1, <3>4
  <2> QED BY <2>1, <2>2, <2>3
<1>10. WellCut(doc', Cut', next' - 1) /\ Covered(doc', Cut', next' - 1)
  BY <1>1, <1>3, <1>8, <1>9
<1> QED BY <1>0, <1>1, <1>3, <1>5, <1>7, <1>10 DEF PackingInv

LEMMA PackingEnd == PackingInv /\ EndPacking => PackingInv'
<1> SUFFICES ASSUME PackingInv, EndPacking PROVE PackingInv'
  OBVIOUS
<1>1. /\ chunks' = Cut /\ window' = <<>> /\ phase' # "packing"
      /\ doc' = doc /\ next' = next /\ tokens' = tokens
  BY DEF EndPacking
<1>2. Cut' = Cut /\ Cut \in Seq(Chunk) /\ <<>> \in Seq(PartSet)
  BY <1>1 DEF Cut, PackingInv, WellCut
<1> QED BY <1>1, <1>2 DEF PackingInv

LEMMA PackingKept ==
    PackingInv /\ (phase' = "packing" <=> phase = "packing")
    /\ UNCHANGED <<doc, next, window, tokens, chunks>> => PackingInv'
<1> SUFFICES ASSUME PackingInv, phase' = "packing" <=> phase = "packing",
                    doc' = doc, next' = next, window' = window, tokens' = tokens, chunks' = chunks
             PROVE  PackingInv'
  OBVIOUS
<1>1. Cut' = Cut
  BY DEF Cut
<1> QED BY <1>1 DEF PackingInv

LEMMA PackingStep == PackingInv /\ [Next]_vars => PackingInv'
<1> SUFFICES ASSUME PackingInv, [Next]_vars PROVE PackingInv'
  OBVIOUS
<1>1. CASE SplitParagraph
  BY <1>1, PackingSplit
<1>2. CASE PackParagraph
  BY <1>2, PackingPack
<1>3. CASE EndPacking
  BY <1>3, PackingEnd
<1>4. CASE EmbedBatch
  BY <1>4, PackingKept DEF EmbedBatch, Accept
<1>5. CASE EmbedFails
  BY <1>5, PackingKept DEF EmbedFails
<1>6. CASE MakeRows
  BY <1>6, PackingKept DEF MakeRows
<1>7. CASE UNCHANGED vars
  BY <1>7, PackingKept DEF vars
<1> QED BY <1>1, <1>2, <1>3, <1>4, <1>5, <1>6, <1>7 DEF Next

\* Whatever is uploaded, the packing loop keeps the invariant.
LEMMA PackingHolds == Spec => []PackingInv
<1>1. Init => PackingInv
  BY PackingInit
<1>2. PackingInv /\ [Next]_vars => PackingInv'
  BY PackingStep
<1> QED BY <1>1, <1>2, PTL DEF Spec

\* What is known of one of the chunks.
LEMMA CutFollows ==
    ASSUME PackingInv, NEW k \in DOMAIN Cut
    PROVE  \E n \in Nat : /\ Follows(doc, Cut, k, n) /\ n < Len(Cut[k].parts)
                          /\ Repeats(Cut, k) = 1..n /\ Shared(Cut, k) = SubSeq(Cut[k].parts, 1, n)
                          /\ Fresh(Cut, k) = (n + 1)..Len(Cut[k].parts)
                          /\ Len(Shared(Cut, k)) = n
<1>1. Cut \in Seq(Chunk) /\ Good(doc, Cut, k, next - 1)
  BY DEF PackingInv, WellCut
<1>2. PICK n \in Nat : Follows(doc, Cut, k, n)
  BY <1>1 DEF Good
<1>3. Repeats(Cut, k) = 1..n /\ Fresh(Cut, k) = (n + 1)..Len(Cut[k].parts)
  BY <1>1, <1>2, RepeatsAre
<1>4. Cardinality(1..n) = n
  <2>1. Cardinality(1..n) = IF 1 > n THEN 0 ELSE n - 1 + 1
    BY FS_Interval
  <2> QED BY <2>1
<1>5. Shared(Cut, k) = SubSeq(Cut[k].parts, 1, n)
  BY <1>3, <1>4 DEF Shared
<1>6. n < Len(Cut[k].parts)
  BY <1>2 DEF Follows, Carries
<1>7. Len(SubSeq(Cut[k].parts, 1, n)) = n
  <2>1. Cut[k].parts \in Seq(PartSet)
    BY <1>1, ChunkParts
  <2> QED BY <1>6, <2>1
<1> QED BY <1>2, <1>3, <1>5, <1>6, <1>7

\* For every document: no token is left out, repeated or moved by the packing and
\* cutting of paragraphs (chunk_pages), and only next to a cut within a paragraph,
\* by less than the tokens of a character, may one be unreadable (_hard_split).
THEOREM NothingLost == Spec => []Stitched
<1>1. PackingInv => Stitched
  <2> SUFFICES ASSUME PackingInv PROVE Stitched
    OBVIOUS
  <2>0. Cut \in Seq(Chunk) /\ WellCut(doc, Cut, next - 1) /\ next - 1 \in Nat
    BY DEF PackingInv, WellCut
  <2>1. ASSUME NEW p \in 1..(next - 1), NEW token \in 1..doc[p]
        PROVE  \E k \in DOMAIN Cut : \E i \in Fresh(Cut, k) : Holds(Cut[k].parts[i], p, token)
    BY DEF PackingInv, Covered
  <2>2. ASSUME NEW k \in DOMAIN Cut, NEW l \in DOMAIN Cut,
               NEW i \in Fresh(Cut, k), NEW j \in Fresh(Cut, l), k < l \/ (k = l /\ i < j)
        PROVE  Before(Cut[k].parts[i], Cut[l].parts[j])
    <3>1. PICK n \in Nat : Follows(doc, Cut, l, n) /\ Fresh(Cut, l) = (n + 1)..Len(Cut[l].parts)
      BY CutFollows
    <3>2. i \in DOMAIN Cut[k].parts /\ j \in DOMAIN Cut[l].parts /\ j \in (n + 1)..Len(Cut[l].parts)
      BY <3>1 DEF Fresh
    <3>3. CASE k < l
      <4>1. k \in 1..(l - 1)
        BY <2>0, <3>3
      <4> QED BY <3>1, <3>2, <4>1 DEF Follows, GoesOn
    <3>4. CASE k = l /\ i < j
      <4>1. Ordered(Cut[l].parts)
        BY <2>0 DEF WellCut, Good
      <4> QED BY <3>2, <3>4, <4>1 DEF Ordered
    <3> QED BY <2>2, <3>3, <3>4
  <2>3. ASSUME NEW k \in DOMAIN Cut, NEW i \in DOMAIN Cut[k].parts
        PROVE  /\ Within(Cut[k].parts[i], next - 1)
               /\ \A token \in Cut[k].parts[i].torn : AtCut(Cut[k].parts[i].para, token)
    <3>1. Cut[k].parts[i] \in PartSet /\ Lies(doc, Cut[k].parts[i], next - 1)
      BY <2>0, PartsLie
    <3>2. Within(Cut[k].parts[i], next - 1)
      BY <3>1 DEF Lies, Within, PartSet
    <3>3. \A token \in Cut[k].parts[i].torn : AtCut(Cut[k].parts[i].para, token)
      BY <3>1 DEF Lies, CutAt, AtCut, Cuts
    <3> QED BY <3>2, <3>3
  <2> QED BY <2>1, <2>2, <2>3 DEF Stitched
<1> QED BY <1>1, PackingHolds, PTL

\* For every document and overlap: a chunk repeats the end of the one before it
\* and no more than the overlap (carry_overlap).
THEOREM OverlapStaysBounded == Spec => []OverlapIsBounded
<1>1. PackingInv => OverlapIsBounded
  <2> SUFFICES ASSUME PackingInv, NEW k \in DOMAIN Cut
               PROVE  /\ Repeats(Cut, k) = 1..Len(Shared(Cut, k))
                      /\ Len(Shared(Cut, k)) < Len(Cut[k].parts)
                      /\ SizeOf(Shared(Cut, k)) <= Overlap
                      /\ k > 1 => Shared(Cut, k) =
                            SubSeq(Cut[k - 1].parts,
                                   Len(Cut[k - 1].parts) - Len(Shared(Cut, k)) + 1,
                                   Len(Cut[k - 1].parts))
    BY DEF OverlapIsBounded
  <2>0. Cut \in Seq(Chunk)
    BY DEF PackingInv, WellCut
  <2>1. PICK n \in Nat : /\ Follows(doc, Cut, k, n) /\ n < Len(Cut[k].parts)
                         /\ Repeats(Cut, k) = 1..n /\ Shared(Cut, k) = SubSeq(Cut[k].parts, 1, n)
                         /\ Len(Shared(Cut, k)) = n
    BY CutFollows
  <2>2. Carries(Cut, k, n)
    BY <2>1 DEF Follows
  <2>3. ASSUME k > 1
        PROVE  SubSeq(Cut[k].parts, 1, n) =
               SubSeq(Cut[k - 1].parts, Len(Cut[k - 1].parts) - n + 1, Len(Cut[k - 1].parts))
    <3> DEFINE a == Cut[k - 1].parts
               b == Cut[k].parts
    <3>1. k - 1 \in DOMAIN Cut
      BY <2>0, <2>3
    <3>2. a \in Seq(PartSet) /\ b \in Seq(PartSet)
      BY <2>0, <3>1, ChunkParts
    <3>3. n <= Len(a) /\ n < Len(b) /\ \A i \in 1..n : b[i] = a[Len(a) - n + i]
      BY <2>1, <2>2, <2>3 DEF Carries
    <3> HIDE DEF a, b
    <3> DEFINE s == SubSeq(b, 1, n)
               t == SubSeq(a, Len(a) - n + 1, Len(a))
    <3>4. s \in Seq(PartSet) /\ Len(s) = n /\ \A i \in 1..n : s[i] = b[i]
      BY <3>2, <3>3
    <3>5. t \in Seq(PartSet) /\ Len(t) = n /\ \A i \in 1..n : t[i] = a[Len(a) - n + i]
      <4>1. Len(a) \in Nat /\ Len(a) - n + 1 \in Nat \ {0} /\ Len(a) - (Len(a) - n + 1) + 1 = n
        BY <3>2, <3>3
      <4>2. t \in Seq(PartSet) /\ Len(t) = n
        BY <3>2, <3>3, <4>1
      <4>3. ASSUME NEW i \in 1..n PROVE t[i] = a[Len(a) - n + i]
        <5>1. (Len(a) - n + 1) + i - 1 = Len(a) - n + i
          BY <4>1
        <5>2. t[i] = a[(Len(a) - n + 1) + i - 1]
          BY <3>2, <3>3, <4>1, <4>2
        <5> QED BY <5>1, <5>2
      <4> QED BY <4>2, <4>3
    <3>6. s = t
      <4> HIDE DEF s, t
      <4> QED BY <3>3, <3>4, <3>5, SeqEqual
    <3> QED BY <3>6 DEF a, b
  <2>4. SizeOf(SubSeq(Cut[k].parts, 1, n)) <= Overlap
    BY <2>2 DEF Carries
  <2> QED BY <2>1, <2>3, <2>4
<1> QED BY <1>1, PackingHolds, PTL

\* For every document: the running count of a packed chunk is the size of its
\* paragraphs, and over the chunk size by the overlap at most (window_tokens).
THEOREM CountsStayRight == Spec => []WithinBudget
<1>1. PackingInv => WithinBudget
  <2> SUFFICES ASSUME PackingInv, NEW k \in DOMAIN Cut
               PROVE  /\ \A i \in DOMAIN Cut[k].parts : Size(Cut[k].parts[i]) <= ChunkSize
                      /\ Packed(Cut[k]) =>
                            /\ Cut[k].tokens = SizeOf(Cut[k].parts)
                            /\ Cut[k].tokens <= ChunkSize + SizeOf(Shared(Cut, k))
    BY DEF WithinBudget
  <2>1. PICK n \in Nat : Follows(doc, Cut, k, n) /\ Shared(Cut, k) = SubSeq(Cut[k].parts, 1, n)
    BY CutFollows
  <2>2. Packed(Cut[k]) => PackedIn(doc, Cut[k])
    BY DEF Packed, PackedIn, All, Whole
  <2>3. \A i \in DOMAIN Cut[k].parts : Size(Cut[k].parts[i]) <= ChunkSize
    BY PartsLie DEF PackingInv, Lies
  <2> QED BY <2>1, <2>2, <2>3 DEF Follows, Counted
<1> QED BY <1>1, PackingHolds, PTL

-----------------------------------------------------------------------------
(* The batches of embeddings.                                              *)

\* The chunks of the batches received so far.
Received == IF start < Len(chunks) THEN start ELSE Len(chunks)

EmbeddingInv ==
    /\ chunks \in Seq(Chunk) /\ start \in Nat
    /\ phase = "packing" => start = 0 /\ vectors = <<>>
    /\ phase = "embedding" => vectors = [i \in 1..Received |-> i]
    /\ EmbeddingsMatch

\* A response of the right length is that of the batch.
LEMMA AcceptsItsBatch ==
    ASSUME chunks \in Seq(Chunk), start \in Nat, start < Len(chunks), BatchSize \in Nat \ {0},
           NEW response \in Responses, Len(response) = Len(Batch)
    PROVE  /\ response = Batch
           /\ \E size \in Nat : /\ Batch = [i \in 1..size |-> start + i]
                                /\ start + size <= Len(chunks)
                                /\ size = BatchSize \/ (size < BatchSize /\ start + size = Len(chunks))
<1> DEFINE size == IF Len(chunks) - start < BatchSize THEN Len(chunks) - start ELSE BatchSize
<1>1. size \in Nat \ {0} /\ Len(chunks) \in Nat
  OBVIOUS
<1>2. Batch = [i \in 1..size |-> start + i]
  BY DEF Batch
<1>3. start + size <= Len(chunks) /\ (size = BatchSize \/ (size < BatchSize /\ start + size = Len(chunks)))
  OBVIOUS
<1> HIDE DEF size
<1>4. Batch \in Seq(Nat) /\ Len(Batch) = size
  BY <1>1, <1>2
<1>5. Len(Front(Batch)) = size - 1 /\ Len(Append(Batch, 0)) = size + 1
  BY <1>1, <1>4 DEF Front
<1>6. response = Batch
  BY <1>1, <1>4, <1>5 DEF Responses
<1> QED BY <1>1, <1>2, <1>3, <1>6

LEMMA EmbeddingBatch == EmbeddingInv /\ EmbedBatch => EmbeddingInv'
<1> SUFFICES ASSUME EmbeddingInv, EmbedBatch PROVE EmbeddingInv'
  OBVIOUS
<1>1. /\ phase = "embedding" /\ start < Len(chunks) /\ chunks' = chunks
      /\ chunks \in Seq(Chunk) /\ start \in Nat /\ Len(chunks) \in Nat
      /\ vectors = [i \in 1..Received |-> i] /\ BatchSize \in Nat \ {0}
  BY ChunkingAssumption DEF EmbedBatch, EmbeddingInv
<1>2. PICK response \in Responses : Accept(response)
  BY DEF EmbedBatch
<1>3. CASE Len(response) # Len(Batch)
  <2>1. phase' = "failed" /\ start' = start
    BY <1>2, <1>3 DEF Accept
  <2> QED BY <1>1, <2>1 DEF EmbeddingInv, EmbeddingsMatch
<1>4. CASE Len(response) = Len(Batch)
  <2>1. vectors' = vectors \o Batch /\ start' = start + BatchSize /\ phase' = phase
    BY <1>1, <1>2, <1>4, AcceptsItsBatch DEF Accept
  <2>2. PICK size \in Nat : /\ Batch = [i \in 1..size |-> start + i]
                            /\ start + size <= Len(chunks)
                            /\ size = BatchSize \/ (size < BatchSize /\ start + size = Len(chunks))
    BY <1>1, <1>2, <1>4, AcceptsItsBatch
  <2>3. Received = start /\ Received' = start + size
    <3>1. Received = start
      BY <1>1 DEF Received
    <3>2. Received' = IF start + BatchSize < Len(chunks) THEN start + BatchSize ELSE Len(chunks)
      BY <1>1, <2>1 DEF Received
    <3>3. CASE size = BatchSize
      <4>1. start + size <= Len(chunks) /\ start \in Nat /\ Len(chunks) \in Nat
        BY <1>1, <2>2
      <4> QED BY <3>1, <3>2, <3>3, <4>1
    <3>4. CASE size < BatchSize /\ start + size = Len(chunks)
      <4>1. ~(start + BatchSize < Len(chunks))
        BY <1>1, <3>4
      <4> QED BY <3>1, <3>2, <3>4, <4>1
    <3> QED BY <2>2, <3>3, <3>4
  <2>4. vectors = [i \in 1..start |-> i]
    BY <1>1, <2>3
  <2>5. vectors \o Batch = [i \in 1..(start + size) |-> i]
    <3> DEFINE a == [i \in 1..start |-> i]
               b == [i \in 1..size |-> start + i]
               c == [i \in 1..(start + size) |-> i]
    <3>1. a \in Seq(Nat) /\ b \in Seq(Nat) /\ c \in Seq(Nat)
          /\ Len(a) = start /\ Len(b) = size /\ Len(c) = start + size
      BY <1>1, <2>2
    <3>2. /\ \A i \in 1..start : a[i] = i
          /\ \A i \in 1..size : b[i] = start + i
          /\ \A i \in 1..(start + size) : c[i] = i
      OBVIOUS
    <3> HIDE DEF a, b, c
    <3>3. a \o b \in Seq(Nat) /\ Len(a \o b) = start + size
          /\ \A i \in 1..(start + size) : (a \o b)[i] = IF i <= start THEN a[i] ELSE b[i - start]
      BY <1>1, <3>1, ConcatProperties
    <3>4. ASSUME NEW i \in 1..(start + size) PROVE (a \o b)[i] = c[i]
      <4>1. CASE i <= start
        BY <1>1, <3>2, <3>3, <4>1
      <4>2. CASE ~(i <= start)
        <5>1. i - start \in 1..size /\ start + (i - start) = i
          BY <1>1, <4>2
        <5> QED BY <3>2, <3>3, <4>2, <5>1
      <4> QED BY <4>1, <4>2
    <3>5. a \o b = c
      BY <3>1, <3>3, <3>4, SeqEqual
    <3> QED BY <2>2, <2>4, <3>5 DEF a, b, c
  <2>6. vectors' = [i \in 1..Received' |-> i]
    BY <2>1, <2>3, <2>5
  <2>7. start' \in Nat /\ chunks' \in Seq(Chunk) /\ phase' = "embedding"
    BY <1>1, <2>1
  <2> QED BY <2>6, <2>7 DEF EmbeddingInv, EmbeddingsMatch
<1> QED BY <1>3, <1>4

LEMMA EmbeddingStep ==
    PackingInv /\ PackingInv' /\ EmbeddingInv /\ [Next]_vars => EmbeddingInv'
<1> SUFFICES ASSUME PackingInv, PackingInv', EmbeddingInv, [Next]_vars PROVE EmbeddingInv'
  OBVIOUS
<1>0. chunks' \in Seq(Chunk)
  BY DEF PackingInv
<1>1. CASE SplitParagraph
  BY <1>0, <1>1 DEF SplitParagraph, EmbeddingInv, EmbeddingsMatch
<1>2. CASE PackParagraph
  BY <1>0, <1>2 DEF PackParagraph, EmbeddingInv, EmbeddingsMatch
<1>3. CASE EndPacking
  <2>1. start = 0 /\ vectors = <<>> /\ start' = start /\ vectors' = vectors
        /\ phase' \in {"failed", "embedding"}
    BY <1>3 DEF EndPacking, EmbeddingInv
  <2>2. Received' = 0
    BY <1>0, <2>1 DEF Received
  <2>3. vectors' = [i \in 1..Received' |-> i]
    BY <2>1, <2>2
  <2> QED BY <1>0, <2>1, <2>3 DEF EmbeddingInv, EmbeddingsMatch
<1>4. CASE EmbedBatch
  BY <1>4, EmbeddingBatch
<1>5. CASE EmbedFails
  BY <1>5 DEF EmbedFails, EmbeddingInv, EmbeddingsMatch
<1>6. CASE MakeRows
  <2>1. /\ chunks' = chunks /\ start' = start /\ vectors' = vectors /\ start >= Len(chunks)
        /\ vectors = [i \in 1..Received |-> i] /\ phase' \in {"indexed", "failed"}
        /\ chunks \in Seq(Chunk) /\ start \in Nat /\ Len(chunks) \in Nat
    BY <1>6 DEF MakeRows, EmbeddingInv
  <2>2. Received = Len(chunks)
    BY <2>1 DEF Received
  <2>3. vectors' = [k \in DOMAIN chunks' |-> k]
    BY <2>1, <2>2
  <2> QED BY <2>1, <2>3 DEF EmbeddingInv, EmbeddingsMatch
<1>7. CASE UNCHANGED vars
  BY <1>7 DEF vars, EmbeddingInv, EmbeddingsMatch, Received
<1> QED BY <1>1, <1>2, <1>3, <1>4, <1>5, <1>6, <1>7 DEF Next

\* Whatever the batches are and the service returns, every row has the embedding
\* of its own chunk (generate_embeddings, process_document).
THEOREM EmbeddingsOfTheirChunks == Spec => []EmbeddingsMatch
<1>1. Init => EmbeddingInv
  BY DEF Init, EmbeddingInv, EmbeddingsMatch
<1>2. PackingInv /\ PackingInv' /\ EmbeddingInv /\ [Next]_vars => EmbeddingInv'
  BY EmbeddingStep
<1>3. EmbeddingInv => EmbeddingsMatch
  BY DEF EmbeddingInv
<1> QED BY <1>1, <1>2, <1>3, PackingHolds, PTL DEF Spec
=============================================================================
