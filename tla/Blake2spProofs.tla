---------------------------- MODULE Blake2spProofs ----------------------------
(***************************************************************************)
(* Proofs about Blake2sp, for any number of leaves and any block size. The *)
(* state a streaming hasher is in depends on the bytes written so far and  *)
(* on nothing else: HashOf says which state, a Write of p leads from that  *)
(* of c to that of c \o p, and the digest drawn from it is the one         *)
(* Blake2spOf defines of the whole input at once. Two inputs of one length *)
(* have one digest only if they are the same.                              *)
(*                                                                         *)
(* The dealing of blocks is a recursive function; what it computes is      *)
(* shown of a least counterexample, since the library's induction theorem  *)
(* takes an operator.                                                      *)
(***************************************************************************)
EXTENDS Blake2sp, FiniteSetsExt, SequenceTheorems, WellFoundedInduction, TLAPS

-----------------------------------------------------------------------------
(* Numbers: quotients, and induction as a least counterexample. *)

LEMMA QuotientOf ==
  ASSUME NEW d \in Nat \ {0}, NEW a \in Nat, NEW r \in 0 .. d - 1
  PROVE  (a * d + r) \div d = a /\ (a * d + r) % d = r
  <1> DEFINE x == a * d + r
             q == x \div d
             m == x % d
  <1>1. a * d \in Nat /\ r \in Nat /\ r < d
      OBVIOUS
  <1>2. x \in Nat
      BY <1>1
  <1>3. x = a * d + r
      OBVIOUS
  <1> HIDE DEF x
  <1>4. q \in Nat /\ m \in 0 .. d - 1 /\ x = q * d + m
      BY <1>2
  <1> HIDE DEF q, m
  <1>5. q * d \in Nat
      BY <1>4
  <1>6. ~(q < a)
      <2> SUFFICES ASSUME q < a PROVE FALSE
          OBVIOUS
      <2>1. (q + 1) * d <= a * d
          BY <1>4
      <2>2. (q + 1) * d = q * d + d
          BY <1>4
      <2> QED BY <1>1, <1>3, <1>4, <1>5, <2>1, <2>2
  <1>7. ~(a < q)
      <2> SUFFICES ASSUME a < q PROVE FALSE
          OBVIOUS
      <2>1. (a + 1) * d <= q * d
          BY <1>4
      <2>2. (a + 1) * d = a * d + d
          OBVIOUS
      <2> QED BY <1>1, <1>3, <1>4, <1>5, <2>1, <2>2
  <1>8. q = a
      BY <1>4, <1>6, <1>7
  <1>9. m = r
      BY <1>1, <1>3, <1>4, <1>8
  <1> QED BY <1>8, <1>9 DEF q, m, x

LEMMA LeastOf ==
  ASSUME NEW Q, IsWellFoundedOn(Q, Nat), \A x, y \in Nat : y < x => <<y, x>> \in Q,
         NEW T \in SUBSET Nat, T # {}
  PROVE  \E x \in T : \A y \in T : x <= y
  <1>1. PICK x \in T : \A y \in T : ~(<<y, x>> \in Q)
      BY WFMin
  <1>2. \A y \in T : ~(y < x)
      BY <1>1
  <1>3. \A y \in T : x <= y
      BY <1>2
  <1> QED BY <1>3

LEMMA Least ==
  ASSUME NEW T \in SUBSET Nat, T # {}
  PROVE  \E x \in T : \A y \in T : x <= y
  <1>1. \A x, y \in Nat : y < x => <<y, x>> \in OpToRel(<, Nat)
      BY DEF OpToRel
  <1> QED BY <1>1, NatLessThanWellFounded, LeastOf, Zenon

-----------------------------------------------------------------------------
(* BLAKE2sp. Block b of c, and what a leaf and the tree hold once the first *)
(* n blocks of c have been dealt.                                           *)

Part(c, b) == SubSeq(c, b * HBlock + 1, (b + 1) * HBlock)
Full(c, i, m) == [j \in 1 .. m |-> [block |-> Part(c, i + (j - 1) * Leaves), t |-> j * HBlock,
                                    last |-> FALSE]]
LeafAt(c, i, m) ==
  IF m = 0 THEN Leaf(i)
  ELSE [node |-> i, h |-> Full(c, i, m - 1), t |-> (m - 1) * HBlock,
        buf |-> Part(c, i + (m - 1) * Leaves)]
Dealt(c, n, rest) ==
  [leaf |-> [i \in LeafId |-> LeafAt(c, i, Share(n, i))], buf |-> rest, cur |-> n % Leaves]
HashOf(c) ==
  LET n == Len(c) \div HBlock
  IN Dealt(c, n, SubSeq(c, n * HBlock + 1, Len(c)))

LEMMA Sizes == HBlock \in Nat /\ HBlock >= 1 /\ Leaves \in Nat /\ Leaves >= 1
  BY HashAssumption

LEMMA ShareNext ==
  ASSUME NEW n \in Nat
  PROVE  /\ n % Leaves \in LeafId /\ (n + 1) % Leaves = ((n % Leaves) + 1) % Leaves
         /\ \A i \in LeafId :
              /\ Share(n, i) \in Nat
              /\ Share(n + 1, i) = Share(n, i) + (IF i = n % Leaves THEN 1 ELSE 0)
              /\ i = n % Leaves => i + Share(n, i) * Leaves = n
              /\ \A j \in 1 .. Share(n, i) : i + (j - 1) * Leaves \in 0 .. n - 1
  <1> DEFINE a == n \div Leaves
             r == n % Leaves
  <1> USE Sizes
  <1>1. a \in Nat /\ r \in 0 .. Leaves - 1 /\ n = a * Leaves + r
      OBVIOUS
  <1>2. r + 1 < Leaves => (n + 1) \div Leaves = a /\ (n + 1) % Leaves = r + 1 /\ (r + 1) % Leaves = r + 1
      <2> HAVE r + 1 < Leaves
      <2> HIDE DEF a, r
      <2>1. r + 1 \in 0 .. Leaves - 1 /\ Leaves \in Nat \ {0}
          BY <1>1
      <2>2. (a * Leaves + (r + 1)) \div Leaves = a /\ (a * Leaves + (r + 1)) % Leaves = r + 1
          BY <1>1, <2>1, QuotientOf
      <2>3. n + 1 = a * Leaves + (r + 1)
          BY <1>1
      <2>4. (r + 1) % Leaves = r + 1
          BY <2>1
      <2> QED BY <2>2, <2>3, <2>4
  <1>3. r + 1 = Leaves => (n + 1) \div Leaves = a + 1 /\ (n + 1) % Leaves = 0 /\ (r + 1) % Leaves = 0
      <2> HAVE r + 1 = Leaves
      <2> HIDE DEF a, r
      <2>1. 0 \in 0 .. Leaves - 1 /\ Leaves \in Nat \ {0} /\ a + 1 \in Nat
          BY <1>1
      <2>2. ((a + 1) * Leaves + 0) \div Leaves = a + 1 /\ ((a + 1) * Leaves + 0) % Leaves = 0
          BY <2>1, QuotientOf
      <2>3. n + 1 = (a + 1) * Leaves + 0
          BY <1>1
      <2>4. Leaves % Leaves = 0
          OBVIOUS
      <2> QED BY <2>2, <2>3, <2>4
  <1> HIDE DEF a, r
  <1>4. \A i \in LeafId : /\ Share(n, i) = a + (IF i < r THEN 1 ELSE 0)
                          /\ Share(n + 1, i) = Share(n, i) + (IF i = r THEN 1 ELSE 0)
      BY <1>1, <1>2, <1>3 DEF Share, LeafId, a, r
  <1>5. \A i \in LeafId : i = r => i + Share(n, i) * Leaves = n
      BY <1>1, <1>4 DEF LeafId
  <1>6. ASSUME NEW i \in LeafId, NEW j \in 1 .. Share(n, i)
        PROVE  i + (j - 1) * Leaves \in 0 .. n - 1
      <2>1. i \in Nat /\ i < Leaves /\ Share(n, i) \in Nat /\ j - 1 \in Nat
            /\ j - 1 <= Share(n, i) - 1
          BY <1>1, <1>4, <1>6 DEF LeafId
      <2>2. (j - 1) * Leaves \in Nat
          BY <2>1
      <2>3. CASE i < r
          <3>1. j - 1 <= a
              BY <1>1, <1>4, <2>1, <2>3
          <3>2. (j - 1) * Leaves <= a * Leaves
              BY <1>1, <2>1, <3>1
          <3> QED BY <1>1, <2>1, <2>2, <2>3, <3>2
      <2>4. CASE ~(i < r)
          <3>1. j <= a
              BY <1>1, <1>4, <2>1, <2>4
          <3>2. j * Leaves <= a * Leaves
              BY <1>1, <2>1, <3>1
          <3>3. j * Leaves = (j - 1) * Leaves + Leaves
              BY <2>1
          <3> QED BY <1>1, <2>1, <2>2, <3>2, <3>3
      <2> QED BY <2>3, <2>4
  <1>7. r \in LeafId /\ (n + 1) % Leaves = (r + 1) % Leaves
      BY <1>1, <1>2, <1>3 DEF LeafId
  <1>8. \A i \in LeafId : Share(n, i) \in Nat
      BY <1>1, <1>4
  <1> QED BY <1>4, <1>5, <1>6, <1>7, <1>8 DEF r

-----------------------------------------------------------------------------
(* Slices: bytes x + 1 to y of a sequence. *)

LEMMA Slice ==
  ASSUME NEW c \in Seq(Int), NEW x \in Nat, NEW y \in x .. Len(c)
  PROVE  /\ SubSeq(c, x + 1, y) \in Seq(Int) /\ Len(SubSeq(c, x + 1, y)) = y - x
         /\ \A i \in 1 .. y - x : SubSeq(c, x + 1, y)[i] = c[x + i]
  <1>0. Len(c) \in Nat
      OBVIOUS
  <1>1. \A i \in x + 1 .. y : c[i] \in Int
      BY <1>0
  <1>2. /\ SubSeq(c, x + 1, y) \in Seq(Int)
        /\ Len(SubSeq(c, x + 1, y)) = IF x + 1 <= y THEN y - (x + 1) + 1 ELSE 0
        /\ \A i \in 1 .. y - (x + 1) + 1 : SubSeq(c, x + 1, y)[i] = c[x + 1 + i - 1]
      BY <1>0, <1>1, SubSeqProperties
  <1>3. \A i \in 1 .. y - x : i \in 1 .. y - (x + 1) + 1 /\ x + 1 + i - 1 = x + i
      BY <1>0
  <1>4. Len(SubSeq(c, x + 1, y)) = y - x
      BY <1>0, <1>2
  <1> QED BY <1>2, <1>3, <1>4

LEMMA SliceOfSlice ==
  ASSUME NEW c \in Seq(Int), NEW x \in Nat, NEW y \in x .. Len(c),
         NEW u \in Nat, NEW v \in u .. y - x
  PROVE  SubSeq(SubSeq(c, x + 1, y), u + 1, v) = SubSeq(c, x + u + 1, x + v)
  <1> DEFINE s == SubSeq(c, x + 1, y)
             l == SubSeq(s, u + 1, v)
             r == SubSeq(c, (x + u) + 1, x + v)
  <1>0. Len(c) \in Nat
      OBVIOUS
  <1>1. s \in Seq(Int) /\ Len(s) = y - x /\ \A i \in 1 .. y - x : s[i] = c[x + i]
      BY Slice
  <1> HIDE DEF s
  <1>2. l \in Seq(Int) /\ Len(l) = v - u /\ \A i \in 1 .. v - u : l[i] = s[u + i]
      <2>1. v \in u .. Len(s)
          BY <1>1
      <2> QED BY <1>1, <2>1, Slice
  <1>3. /\ r \in Seq(Int) /\ Len(r) = (x + v) - (x + u)
        /\ \A i \in 1 .. (x + v) - (x + u) : r[i] = c[(x + u) + i]
      <2>1. x + u \in Nat /\ x + v \in (x + u) .. Len(c)
          BY <1>0
      <2> QED BY <2>1, Slice
  <1> HIDE DEF l, r
  <1>4. \A i \in 1 .. v - u : /\ u + i \in 1 .. y - x /\ x + (u + i) = (x + u) + i
                             /\ i \in 1 .. (x + v) - (x + u)
      BY <1>0
  <1>5. \A i \in 1 .. v - u : l[i] = r[i]
      BY <1>1, <1>2, <1>3, <1>4
  <1>6. Len(r) = v - u
      BY <1>0, <1>3
  <1>7. l = r
      BY <1>2, <1>3, <1>5, <1>6, SeqEqual
  <1> QED BY <1>7 DEF l, r, s

LEMMA SlicesJoin ==
  ASSUME NEW c \in Seq(Int), NEW x \in Nat, NEW y \in x .. Len(c), NEW z \in y .. Len(c)
  PROVE  SubSeq(c, x + 1, y) \o SubSeq(c, y + 1, z) = SubSeq(c, x + 1, z)
  <1>0. Len(c) \in Nat
      OBVIOUS
  <1>1. x + 1 \in 1 .. Len(c) + 1 /\ y \in (x + 1) - 1 .. Len(c)
      BY <1>0
  <1> QED BY <1>1, ConcatAdjacentSubSeq

LEMMA SliceOfLonger ==
  ASSUME NEW c \in Seq(Int), NEW p \in Seq(Int)
  PROVE  /\ c \o p \in Seq(Int) /\ Len(c \o p) = Len(c) + Len(p)
         /\ \A x \in Nat : \A y \in x .. Len(c) : SubSeq(c \o p, x + 1, y) = SubSeq(c, x + 1, y)
         /\ \A x \in Nat : \A y \in x .. Len(p) :
              SubSeq(c \o p, (Len(c) + x) + 1, Len(c) + y) = SubSeq(p, x + 1, y)
  <1> DEFINE d == c \o p
  <1>0. Len(c) \in Nat /\ Len(p) \in Nat
      OBVIOUS
  <1>1. /\ d \in Seq(Int) /\ Len(d) = Len(c) + Len(p)
        /\ \A i \in 1 .. Len(c) : d[i] = c[i]
        /\ \A i \in 1 .. Len(p) : d[Len(c) + i] = p[i]
      OBVIOUS
  <1> HIDE DEF d
  <1>2. ASSUME NEW x \in Nat, NEW y \in x .. Len(c)
        PROVE  SubSeq(d, x + 1, y) = SubSeq(c, x + 1, y)
      <2> DEFINE l == SubSeq(d, x + 1, y)
                 r == SubSeq(c, x + 1, y)
      <2>1. y \in x .. Len(d)
          BY <1>0, <1>1
      <2>2. l \in Seq(Int) /\ Len(l) = y - x /\ \A i \in 1 .. y - x : l[i] = d[x + i]
          BY <1>1, <2>1, Slice
      <2>3. r \in Seq(Int) /\ Len(r) = y - x /\ \A i \in 1 .. y - x : r[i] = c[x + i]
          BY Slice
      <2> HIDE DEF l, r
      <2>4. \A i \in 1 .. y - x : x + i \in 1 .. Len(c)
          BY <1>0
      <2>5. l = r
          BY <1>1, <2>2, <2>3, <2>4, SeqEqual
      <2> QED BY <2>5 DEF l, r
  <1>3. ASSUME NEW x \in Nat, NEW y \in x .. Len(p)
        PROVE  SubSeq(d, (Len(c) + x) + 1, Len(c) + y) = SubSeq(p, x + 1, y)
      <2> DEFINE l == SubSeq(d, (Len(c) + x) + 1, Len(c) + y)
                 r == SubSeq(p, x + 1, y)
                 u == Len(c) + x
                 v == Len(c) + y
      <2>1. u \in Nat /\ v \in u .. Len(d)
          BY <1>0, <1>1
      <2>2. l \in Seq(Int) /\ Len(l) = v - u /\ \A i \in 1 .. v - u : l[i] = d[u + i]
          BY <1>1, <2>1, Slice
      <2>3. r \in Seq(Int) /\ Len(r) = y - x /\ \A i \in 1 .. y - x : r[i] = p[x + i]
          BY Slice
      <2> HIDE DEF l, r
      <2>4. \A i \in 1 .. y - x : /\ x + i \in 1 .. Len(p) /\ u + i = Len(c) + (x + i)
                                 /\ i \in 1 .. v - u
          BY <1>0
      <2>5. v - u = y - x
          BY <1>0
      <2> HIDE DEF u, v
      <2>6. \A i \in 1 .. y - x : l[i] = r[i]
          BY <1>1, <2>2, <2>3, <2>4
      <2>7. l = r
          BY <2>2, <2>3, <2>5, <2>6, SeqEqual
      <2> QED BY <2>7 DEF l, r
  <1> QED BY <1>1, <1>2, <1>3 DEF d

-----------------------------------------------------------------------------
(* Parts and leaves. *)

LEMMA MultipleFits ==
  ASSUME NEW a \in Nat, NEW b \in Nat, a <= b
  PROVE  a * HBlock \in Nat /\ b * HBlock \in Nat /\ a * HBlock <= b * HBlock
         /\ (a + 1) * HBlock = a * HBlock + HBlock
  BY Sizes

LEMMA PartIs ==
  ASSUME NEW c \in Seq(Int), NEW b \in Nat, (b + 1) * HBlock <= Len(c)
  PROVE  /\ Part(c, b) \in Seq(Int) /\ Len(Part(c, b)) = HBlock
         /\ \A i \in 1 .. HBlock : Part(c, b)[i] = c[b * HBlock + i]
  <1>1. /\ b * HBlock \in Nat /\ (b + 1) * HBlock = b * HBlock + HBlock
        /\ HBlock \in Nat /\ Len(c) \in Nat
      BY Sizes
  <1> DEFINE x == b * HBlock
             y == (b + 1) * HBlock
  <1>2. x \in Nat /\ y \in x .. Len(c) /\ y - x = HBlock
      BY <1>1
  <1> HIDE DEF x, y
  <1>3. /\ SubSeq(c, x + 1, y) \in Seq(Int) /\ Len(SubSeq(c, x + 1, y)) = y - x
        /\ \A i \in 1 .. y - x : SubSeq(c, x + 1, y)[i] = c[x + i]
      BY <1>2, Slice
  <1> QED BY <1>2, <1>3 DEF x, y, Part

LEMMA PartOfLonger ==
  ASSUME NEW c \in Seq(Int), NEW p \in Seq(Int), NEW b \in Nat, (b + 1) * HBlock <= Len(c)
  PROVE  Part(c \o p, b) = Part(c, b)
  <1>1. /\ b * HBlock \in Nat /\ (b + 1) * HBlock = b * HBlock + HBlock
        /\ HBlock \in Nat /\ Len(c) \in Nat
      BY Sizes
  <1>2. (b + 1) * HBlock \in b * HBlock .. Len(c)
      BY <1>1
  <1> QED BY <1>1, <1>2, SliceOfLonger DEF Part

LEMMA PartOfSlice ==
  ASSUME NEW c \in Seq(Int), NEW n \in Nat, NEW k \in Nat, (n + k) * HBlock <= Len(c),
         NEW b \in 0 .. k - 1
  PROVE  Part(SubSeq(c, n * HBlock + 1, (n + k) * HBlock), b) = Part(c, n + b)
  <1> DEFINE x == n * HBlock
             y == (n + k) * HBlock
             u == b * HBlock
             v == (b + 1) * HBlock
  <1>0. HBlock \in Nat /\ Len(c) \in Nat
      BY Sizes
  <1>1. /\ x \in Nat /\ y = x + k * HBlock /\ u \in Nat /\ v = u + HBlock
        /\ x + u = (n + b) * HBlock /\ x + v = (n + b + 1) * HBlock
      BY <1>0
  <1>2. v <= k * HBlock /\ k * HBlock \in Nat
      <2>1. b + 1 \in Nat /\ b + 1 <= k
          OBVIOUS
      <2> QED BY <1>0, <2>1
  <1>3. y \in x .. Len(c) /\ v \in u .. y - x
      BY <1>0, <1>1, <1>2
  <1> HIDE DEF x, y, u, v
  <1>4. SubSeq(SubSeq(c, x + 1, y), u + 1, v) = SubSeq(c, x + u + 1, x + v)
      BY <1>1, <1>3, SliceOfSlice
  <1> QED BY <1>1, <1>4 DEF x, y, u, v, Part

Steps(c) == [block: {Part(c, b) : b \in Nat}, t: Nat, last: BOOLEAN]

LEMMA FullIs ==
  ASSUME NEW c, NEW i \in Nat, NEW m \in Nat
  PROVE  /\ Full(c, i, m) \in Seq(Steps(c)) /\ Len(Full(c, i, m)) = m
         /\ \A j \in 1 .. m : Full(c, i, m)[j] =
              [block |-> Part(c, i + (j - 1) * Leaves), t |-> j * HBlock, last |-> FALSE]
  <1>1. \A j \in 1 .. m : i + (j - 1) * Leaves \in Nat /\ j * HBlock \in Nat
      BY Sizes
  <1>2. \A j \in 1 .. m : [block |-> Part(c, i + (j - 1) * Leaves), t |-> j * HBlock,
                           last |-> FALSE] \in Steps(c)
      BY <1>1 DEF Steps
  <1> QED BY <1>2 DEF Full

(* blocks are the next ones of leaf i, which has compressed m. *)
NextOf(blocks, c, i, m) ==
  /\ Len(blocks) \in Nat
  /\ \A j \in 1 .. Len(blocks) : blocks[j] = Part(c, i + (m + j - 1) * Leaves)

Joins(blocks, c, i, m) ==
  Full(c, i, m) \o Compressed(blocks, m * HBlock) = Full(c, i, m + Len(blocks))

LEMMA CompressedJoins ==
  ASSUME NEW c, NEW i \in Nat, NEW m \in Nat, NEW blocks, NextOf(blocks, c, i, m)
  PROVE  Joins(blocks, c, i, m)
  <1> DEFINE g == Compressed(blocks, m * HBlock)
             f == Full(c, i, m)
             k == Len(blocks)
             r == Full(c, i, m + k)
             Cell(j) == [block |-> Part(c, i + (j - 1) * Leaves), t |-> j * HBlock, last |-> FALSE]
  <1>0. k \in Nat /\ Len(blocks) = k /\ \A j \in 1 .. k : blocks[j] = Part(c, i + (m + j - 1) * Leaves)
      BY DEF NextOf
  <1> HIDE DEF k
  <1>1. f \in Seq(Steps(c)) /\ Len(f) = m /\ \A j \in 1 .. m : f[j] = Cell(j)
      BY FullIs
  <1>2. r \in Seq(Steps(c)) /\ Len(r) = m + k /\ \A j \in 1 .. m + k : r[j] = Cell(j)
      <2> DEFINE n == m + k
      <2>1. n \in Nat
          BY <1>0
      <2> HIDE DEF n, Cell, r
      <2>2. /\ Full(c, i, n) \in Seq(Steps(c)) /\ Len(Full(c, i, n)) = n
            /\ \A j \in 1 .. n : Full(c, i, n)[j] = Cell(j)
          BY <2>1, FullIs DEF Cell
      <2> QED BY <2>2, Zenon DEF n, r
  <1>3. \A j \in 1 .. k : m * HBlock + j * HBlock = (m + j) * HBlock
      BY <1>0, Sizes
  <1>4. g = [j \in 1 .. k |-> Cell(m + j)]
      <2>1. ASSUME NEW j \in 1 .. k
            PROVE  [block |-> blocks[j], t |-> m * HBlock + j * HBlock, last |-> FALSE]
                     = Cell(m + j)
          <3>1. m + j - 1 = (m + j) - 1
              BY <1>0
          <3>2. blocks[j] = Part(c, i + ((m + j) - 1) * Leaves)
              BY <1>0, <3>1
          <3> QED BY <1>3, <3>2, Zenon
      <2> HIDE DEF Cell
      <2> QED BY <1>0, <2>1 DEF Compressed
  <1>5. \A j \in 1 .. k : Cell(m + j) \in Steps(c)
      <2> SUFFICES ASSUME NEW j \in 1 .. k PROVE Cell(m + j) \in Steps(c)
          OBVIOUS
      <2>1. m + j - 1 \in Nat /\ m + j \in Nat
          BY <1>0
      <2>2. i + (m + j - 1) * Leaves \in Nat /\ (m + j) * HBlock \in Nat
          BY <2>1, Sizes
      <2> QED BY <2>2 DEF Steps
  <1> HIDE DEF f, r, g, Cell
  <1>6. g \in Seq(Steps(c)) /\ Len(g) = k /\ \A j \in 1 .. k : g[j] = Cell(m + j)
      BY <1>0, <1>4, <1>5
  <1>7. /\ f \o g \in Seq(Steps(c)) /\ Len(f \o g) = m + k
        /\ \A j \in 1 .. m : (f \o g)[j] = f[j]
        /\ \A j \in 1 .. k : (f \o g)[m + j] = g[j]
      <2>1. /\ f \o g \in Seq(Steps(c)) /\ Len(f \o g) = m + k
            /\ \A j \in 1 .. m + k : (f \o g)[j] = IF j <= m THEN f[j] ELSE g[j - m]
          <3>1. /\ f \o g \in Seq(Steps(c)) /\ Len(f \o g) = Len(f) + Len(g)
                /\ \A j \in 1 .. Len(f) + Len(g) :
                     (f \o g)[j] = IF j <= Len(f) THEN f[j] ELSE g[j - Len(f)]
              BY <1>1, <1>6, ConcatProperties
          <3> QED BY <1>1, <1>6, <3>1
      <2>2. \A j \in 1 .. m : j \in 1 .. m + k /\ j <= m
          BY <1>0
      <2>3. \A j \in 1 .. k : m + j \in 1 .. m + k /\ ~(m + j <= m) /\ (m + j) - m = j
          BY <1>0
      <2> QED BY <2>1, <2>2, <2>3
  <1>8. ASSUME NEW j \in 1 .. m + k
        PROVE  (f \o g)[j] = r[j]
      <2>1. CASE j <= m
          BY <1>1, <1>2, <1>7, <2>1
      <2>2. CASE ~(j <= m)
          <3>1. j - m \in 1 .. k /\ m + (j - m) = j
              BY <1>0, <2>2
          <3> QED BY <1>2, <1>6, <1>7, <3>1
      <2> QED BY <2>1, <2>2
  <1>9. f \o g = r
      BY <1>2, <1>7, <1>8, SeqEqual
  <1> QED BY <1>9 DEF f, g, r, k, Joins

LEMMA NothingFull ==
  ASSUME NEW c, NEW i \in Nat
  PROVE  Full(c, i, 0) = <<>>
  <1>1. Full(c, i, 0) \in Seq(Steps(c)) /\ Len(Full(c, i, 0)) = 0
      BY FullIs
  <1> QED BY <1>1, EmptySeq

(* The bytes a leaf is handed complete the last block it was given: that    *)
(* block is compressed, and they are held.                                  *)
LEMMA LeafTakes ==
  ASSUME NEW c \in Seq(Int), NEW i \in Nat, NEW m \in Nat,
         m >= 1 => (i + (m - 1) * Leaves + 1) * HBlock <= Len(c),
         NEW x \in Seq(Int), x # <<>>, Len(x) <= HBlock
  PROVE  LeafWrite(LeafAt(c, i, m), x)
           = [node |-> i, h |-> Full(c, i, m), t |-> m * HBlock, buf |-> x]
  <1>0. HBlock \in Nat \ {0} /\ Len(x) \in 1 .. HBlock /\ Len(x) - 1 \in 0 .. HBlock - 1
        /\ Leaves \in Nat \ {0}
      BY Sizes, EmptySeq
  <1>1. CASE m = 0
      <2> DEFINE l == Leaf(i)
                 k == (Len(x) - 1) \div HBlock
      <2>1. k = 0
          <3>1. (0 * HBlock + (Len(x) - 1)) \div HBlock = 0
              BY <1>0, QuotientOf
          <3>2. 0 * HBlock + (Len(x) - 1) = Len(x) - 1
              BY <1>0
          <3> QED BY <3>1, <3>2
      <2>2. l.buf \o x = x /\ l.h = <<>> /\ l.t = 0 /\ l.node = i
          BY DEF Leaf
      <2> HIDE DEF k
      <2>3. k * HBlock = 0
          BY <1>0, <2>1
      <2>4. SubSeq(x, 1, 0) = <<>> /\ SubSeq(x, 0 + 1, Len(x)) = x
          BY SubSeqEmpty, SubSeqFull
      <2>5. Len(<<>>) \div HBlock = 0
          BY <1>0
      <2>6. Compressed(Blocks(<<>>), 0) = <<>>
          BY <2>5 DEF Blocks, Compressed
      <2>7. LeafWrite(l, x) = [l EXCEPT !.h = <<>>, !.t = 0, !.buf = x]
          <3> HIDE DEF l
          <3>1. LeafWrite(l, x) = [l EXCEPT !.h = l.h \o Compressed(Blocks(SubSeq(x, 1, k * HBlock)), l.t),
                                            !.t = l.t + k * HBlock,
                                            !.buf = SubSeq(x, k * HBlock + 1, Len(x))]
              BY <2>2 DEF LeafWrite, k
          <3>2. l.h \o Compressed(Blocks(SubSeq(x, 1, k * HBlock)), l.t) = <<>>
              <4>1. Compressed(Blocks(SubSeq(x, 1, k * HBlock)), l.t) = <<>>
                  BY <2>2, <2>3, <2>4, <2>6, Zenon
              <4>2. <<>> \o <<>> = <<>>
                  OBVIOUS
              <4> QED BY <2>2, <4>1, <4>2, Zenon
          <3>3. l.t + k * HBlock = 0 /\ SubSeq(x, k * HBlock + 1, Len(x)) = x
              BY <2>2, <2>3, <2>4
          <3> QED BY <3>1, <3>2, <3>3
      <2>8. LeafWrite(l, x) = [node |-> i, h |-> <<>>, t |-> 0, buf |-> x]
          BY <2>7 DEF Leaf
      <2>9. m * HBlock = 0 /\ LeafAt(c, i, m) = l /\ Full(c, i, m) = <<>>
          BY <1>0, <1>1, NothingFull DEF LeafAt
      <2> QED BY <2>8, <2>9
  <1>2. CASE m # 0
      <2> DEFINE l == LeafAt(c, i, m)
                 b == i + (m - 1) * Leaves
                 P == Part(c, b)
                 all == P \o x
                 k == (Len(all) - 1) \div HBlock
      <2>1. m - 1 \in Nat /\ (m - 1) * Leaves \in Nat
          BY <1>0, <1>2
      <2>2. b \in Nat /\ (b + 1) * HBlock <= Len(c)
          <3>1. m >= 1
              BY <1>2
          <3>2. (b + 1) * HBlock <= Len(c)
              BY <3>1, Zenon
          <3> QED BY <2>1, <3>2
      <2>3. l = [node |-> i, h |-> Full(c, i, m - 1), t |-> (m - 1) * HBlock, buf |-> P]
          BY <1>2 DEF LeafAt
      <2> HIDE DEF b, l
      <2>4. P \in Seq(Int) /\ Len(P) = HBlock
          BY <2>2, PartIs
      <2> HIDE DEF P
      <2>5. all \in Seq(Int) /\ Len(all) = HBlock + Len(x)
          BY <2>4, ConcatProperties
      <2>6. k = 1
          <3>1. (1 * HBlock + (Len(x) - 1)) \div HBlock = 1
              BY <1>0, QuotientOf
          <3>2. 1 * HBlock + (Len(x) - 1) = Len(all) - 1
              BY <1>0, <2>5
          <3> HIDE DEF all
          <3> QED BY <3>1, <3>2
      <2>7. SubSeq(all, 1, HBlock) = P
          <3>1. SubSeq(all, 0 + 1, HBlock) = SubSeq(P, 0 + 1, HBlock)
              BY <1>0, <2>4, SliceOfLonger
          <3> HIDE DEF all
          <3> QED BY <2>4, <3>1, SubSeqFull
      <2>8. SubSeq(all, HBlock + 1, Len(all)) = x
          <3>1. SubSeq(all, (Len(P) + 0) + 1, Len(P) + Len(x)) = SubSeq(x, 0 + 1, Len(x))
              BY <1>0, <2>4, SliceOfLonger
          <3> HIDE DEF all
          <3>2. SubSeq(x, 0 + 1, Len(x)) = x
              BY SubSeqFull
          <3>3. (Len(P) + 0) + 1 = HBlock + 1 /\ Len(P) + Len(x) = Len(all)
              BY <1>0, <2>4, <2>5
          <3> QED BY <3>1, <3>2, <3>3
      <2> HIDE DEF all
      <2>9. 1 * HBlock = HBlock /\ k * HBlock = HBlock
          BY <1>0, <2>6
      <2> DEFINE B == Blocks(P)
      <2>10. Len(B) = 1 /\ B[1] = P
          <3>1. (1 * HBlock + 0) \div HBlock = 1
              BY <1>0, QuotientOf
          <3>2. Len(P) \div HBlock = 1
              BY <1>0, <2>4, <3>1
          <3>3. (1 - 1) * HBlock + 1 = 1 /\ 1 * HBlock = HBlock
              BY <1>0
          <3>4. SubSeq(P, 1, HBlock) = P
              BY <2>4, SubSeqFull
          <3>5. B = [j \in 1 .. 1 |-> SubSeq(P, (j - 1) * HBlock + 1, j * HBlock)]
              BY <3>2 DEF Blocks
          <3>6. \A j \in 1 .. 1 : SubSeq(P, (j - 1) * HBlock + 1, j * HBlock) = P
              BY <3>3, <3>4
          <3> HIDE DEF B
          <3>7. B = [j \in 1 .. 1 |-> P]
              BY <3>5, <3>6
          <3>8. [j \in 1 .. 1 |-> P] \in Seq(Seq(Int))
              BY <2>4
          <3> QED BY <2>4, <3>7, <3>8
      <2> HIDE DEF B
      <2>11. Full(c, i, m - 1) \o Compressed(B, (m - 1) * HBlock) = Full(c, i, (m - 1) + 1)
          <3> DEFINE n == m - 1
          <3>1. n \in Nat /\ B[1] = Part(c, i + n * Leaves)
              BY <2>1, <2>10 DEF P, b
          <3> HIDE DEF n
          <3>2. \A j \in 1 .. 1 : j = 1 /\ n + j - 1 = n
              BY <3>1
          <3>3. \A j \in 1 .. 1 : B[j] = Part(c, i + (n + j - 1) * Leaves)
              BY <3>1, <3>2
          <3>4. Full(c, i, n) \o Compressed(B, n * HBlock) = Full(c, i, n + 1)
              <4>1. NextOf(B, c, i, n)
                  BY <2>10, <3>3 DEF NextOf
              <4>2. Full(c, i, n) \o Compressed(B, n * HBlock) = Full(c, i, n + Len(B))
                  <5>1. Joins(B, c, i, n)
                      BY <3>1, <4>1, CompressedJoins
                  <5> QED BY <5>1, Zenon DEF Joins
              <4> QED BY <2>10, <4>2, Zenon
          <3> QED BY <3>4 DEF n
      <2>12. (m - 1) * HBlock + HBlock = m * HBlock /\ (m - 1) + 1 = m
          BY <1>0, <2>1
      <2>13. x # <<>> /\ l.buf = P /\ l.h = Full(c, i, m - 1) /\ l.t = (m - 1) * HBlock
          BY <2>3
      <2> DEFINE w == [l EXCEPT !.h = @ \o Compressed(Blocks(SubSeq(all, 1, k * HBlock)), l.t),
                                !.t = @ + k * HBlock,
                                !.buf = SubSeq(all, k * HBlock + 1, Len(all))]
      <2>14. LeafWrite(l, x) = w
          BY <2>13 DEF LeafWrite, all, k
      <2> HIDE DEF k
      <2>15. w = [l EXCEPT !.h = l.h \o Compressed(B, l.t), !.t = l.t + HBlock, !.buf = x]
          BY <2>7, <2>8, <2>9 DEF B
      <2>16. l.h \o Compressed(B, l.t) = Full(c, i, m) /\ l.t + HBlock = m * HBlock
          BY <2>11, <2>12, <2>13
      <2> HIDE DEF w
      <2>17. w = [l EXCEPT !.h = Full(c, i, m), !.t = m * HBlock, !.buf = x]
          BY <2>15, <2>16
      <2>18. w = [node |-> i, h |-> Full(c, i, m), t |-> m * HBlock, buf |-> x]
          BY <2>3, <2>17
      <2> QED BY <2>14, <2>18 DEF l
  <1> QED BY <1>1, <1>2

-----------------------------------------------------------------------------
(* Dealing. *)

(* What leaf i holds once it has been handed x behind n whole blocks of c. *)
Handed(c, n, i, x) ==
  [node |-> i, h |-> Full(c, i, Share(n, i)), t |-> Share(n, i) * HBlock, buf |-> x]

(* The tree then. *)
HandedTo(c, n, rest, x) ==
  [leaf |-> [i \in LeafId |-> IF i = n % Leaves THEN Handed(c, n, i, x)
                              ELSE LeafAt(c, i, Share(n, i))],
   buf |-> rest, cur |-> (n + 1) % Leaves]

LEMMA LeafFits ==
  ASSUME NEW c \in Seq(Int), NEW n \in Nat, n * HBlock <= Len(c), NEW i \in LeafId
  PROVE  /\ i \in Nat /\ Share(n, i) \in Nat
         /\ \A j \in 1 .. Share(n, i) : /\ i + (j - 1) * Leaves \in 0 .. n - 1
                                        /\ (i + (j - 1) * Leaves + 1) * HBlock <= Len(c)
  <1>1. /\ i \in Nat /\ Share(n, i) \in Nat
        /\ \A j \in 1 .. Share(n, i) : i + (j - 1) * Leaves \in 0 .. n - 1
      BY ShareNext DEF LeafId
  <1>2. ASSUME NEW j \in 1 .. Share(n, i)
        PROVE  (i + (j - 1) * Leaves + 1) * HBlock <= Len(c)
      <2> DEFINE b == i + (j - 1) * Leaves
      <2>1. b \in 0 .. n - 1
          BY <1>1
      <2> HIDE DEF b
      <2>2. (b + 1) * HBlock <= n * HBlock
          <3>1. b + 1 \in Nat /\ b + 1 <= n
              BY <2>1
          <3> QED BY <3>1, MultipleFits
      <2>3. (b + 1) * HBlock \in Nat /\ n * HBlock \in Nat /\ Len(c) \in Nat
          BY <2>1, Sizes
      <2>4. (b + 1) * HBlock <= Len(c)
          BY <2>2, <2>3
      <2> QED BY <2>4 DEF b
  <1> QED BY <1>1, <1>2

LEMMA LeafHanded ==
  ASSUME NEW c \in Seq(Int), NEW n \in Nat, n * HBlock <= Len(c), NEW i \in LeafId,
         NEW x \in Seq(Int), x # <<>>, Len(x) <= HBlock
  PROVE  LeafWrite(LeafAt(c, i, Share(n, i)), x) = Handed(c, n, i, x)
  <1> DEFINE m == Share(n, i)
  <1>1. /\ i \in Nat /\ m \in Nat
        /\ \A j \in 1 .. m : (i + (j - 1) * Leaves + 1) * HBlock <= Len(c)
      BY LeafFits
  <1> HIDE DEF m
  <1>2. m >= 1 => (i + (m - 1) * Leaves + 1) * HBlock <= Len(c)
      BY <1>1
  <1>3. LeafWrite(LeafAt(c, i, m), x)
          = [node |-> i, h |-> Full(c, i, m), t |-> m * HBlock, buf |-> x]
      BY <1>1, <1>2, LeafTakes
  <1> QED BY <1>3 DEF m, Handed

LEMMA DealTakes ==
  ASSUME NEW c \in Seq(Int), NEW n \in Nat, n * HBlock <= Len(c), NEW rest,
         NEW x \in Seq(Int), x # <<>>, Len(x) <= HBlock
  PROVE  Deal(Dealt(c, n, rest), x) = HandedTo(c, n, rest, x)
  <1> DEFINE f == [i \in LeafId |-> LeafAt(c, i, Share(n, i))]
             w == n % Leaves
             s == [leaf |-> f, buf |-> rest, cur |-> w]
             g == [i \in LeafId |-> IF i = w THEN Handed(c, n, i, x)
                                    ELSE LeafAt(c, i, Share(n, i))]
  <1>1. w \in LeafId /\ (n + 1) % Leaves = (w + 1) % Leaves
      BY ShareNext
  <1> HIDE DEF w
  <1>2. LeafWrite(f[w], x) = Handed(c, n, w, x)
      BY <1>1, LeafHanded
  <1>3. [f EXCEPT ![w] = LeafWrite(@, x)] = g
      BY <1>1, <1>2
  <1>4. Deal(s, x) = [s EXCEPT !.leaf = [f EXCEPT ![w] = LeafWrite(@, x)],
                               !.cur = (w + 1) % Leaves]
      <2> HIDE DEF f
      <2> QED BY DEF Deal
  <1>5. Deal(s, x) = [leaf |-> g, buf |-> rest, cur |-> (w + 1) % Leaves]
      BY <1>3, <1>4
  <1>6. Dealt(c, n, rest) = s
      BY DEF Dealt, w
  <1> HIDE DEF s, g
  <1>7. Deal(Dealt(c, n, rest), x) = [leaf |-> g, buf |-> rest, cur |-> (n + 1) % Leaves]
      BY <1>1, <1>5, <1>6
  <1> QED BY <1>7 DEF g, w, HandedTo

LEMMA DealNext ==
  ASSUME NEW c \in Seq(Int), NEW n \in Nat, (n + 1) * HBlock <= Len(c), NEW rest
  PROVE  Deal(Dealt(c, n, rest), Part(c, n)) = Dealt(c, n + 1, rest)
  <1> DEFINE x == Part(c, n)
             w == n % Leaves
  <1>0. n * HBlock <= Len(c) /\ HBlock \in Nat \ {0} /\ Leaves \in Nat \ {0}
      <2>1. n * HBlock \in Nat /\ (n + 1) * HBlock = n * HBlock + HBlock /\ HBlock \in Nat \ {0}
            /\ Leaves \in Nat \ {0}
          BY Sizes
      <2>2. Len(c) \in Nat
          OBVIOUS
      <2> QED BY <2>1, <2>2
  <1>1. x \in Seq(Int) /\ Len(x) = HBlock
      BY PartIs
  <1> HIDE DEF x
  <1>2. x # <<>> /\ Len(x) <= HBlock
      BY <1>0, <1>1
  <1>3. Deal(Dealt(c, n, rest), x) =
           [leaf |-> [i \in LeafId |-> IF i = n % Leaves THEN Handed(c, n, i, x)
                                       ELSE LeafAt(c, i, Share(n, i))],
            buf |-> rest, cur |-> (n + 1) % Leaves]
      <2>1. Deal(Dealt(c, n, rest), x) = HandedTo(c, n, rest, x)
          BY <1>0, <1>1, <1>2, DealTakes
      <2> QED BY <2>1, Zenon DEF HandedTo
  <1>4. ASSUME NEW i \in LeafId
        PROVE  (IF i = n % Leaves THEN Handed(c, n, i, x) ELSE LeafAt(c, i, Share(n, i)))
                 = LeafAt(c, i, Share(n + 1, i))
      <2> DEFINE m == Share(n, i)
      <2>1. /\ m \in Nat /\ (i = n % Leaves => i + m * Leaves = n)
            /\ Share(n + 1, i) = m + (IF i = n % Leaves THEN 1 ELSE 0)
          BY ShareNext
      <2> HIDE DEF m
      <2>2. CASE i = n % Leaves
          <3>1. Share(n + 1, i) = m + 1 /\ m + 1 # 0 /\ (m + 1) - 1 = m
              BY <2>1, <2>2
          <3>2. LeafAt(c, i, m + 1) = [node |-> i, h |-> Full(c, i, m), t |-> m * HBlock,
                                       buf |-> Part(c, i + m * Leaves)]
              BY <3>1, Zenon DEF LeafAt
          <3>3. Handed(c, n, i, x) = [node |-> i, h |-> Full(c, i, m), t |-> m * HBlock, buf |-> x]
              BY DEF Handed, m
          <3>4. Part(c, i + m * Leaves) = x
              BY <2>1, <2>2, Zenon DEF x
          <3> QED BY <2>2, <3>1, <3>2, <3>3, <3>4, Zenon
      <2>3. CASE i # n % Leaves
          <3>1. Share(n + 1, i) = m
              BY <2>1, <2>3
          <3> QED BY <2>3, <3>1 DEF m
      <2> QED BY <2>2, <2>3
  <1>5. [i \in LeafId |-> IF i = n % Leaves THEN Handed(c, n, i, x) ELSE LeafAt(c, i, Share(n, i))]
          = [i \in LeafId |-> LeafAt(c, i, Share(n + 1, i))]
      BY <1>4
  <1>6. Deal(Dealt(c, n, rest), x) =
          [leaf |-> [i \in LeafId |-> LeafAt(c, i, Share(n + 1, i))], buf |-> rest,
           cur |-> (n + 1) % Leaves]
      BY <1>3, <1>5, Zenon
  <1> QED BY <1>6, Zenon DEF Dealt, x

LEMMA WholeBlocksOf ==
  ASSUME NEW c \in Seq(Int), NEW n \in Nat, NEW k \in Nat, (n + k) * HBlock <= Len(c)
  PROVE  LET p == SubSeq(c, n * HBlock + 1, (n + k) * HBlock)
         IN /\ p \in Seq(Int) /\ Len(p) = k * HBlock /\ Len(p) \div HBlock = k
            /\ \A m \in 1 .. k : Blocks(p)[m] = Part(c, n + m - 1)
  <1> DEFINE x == n * HBlock
             y == (n + k) * HBlock
             p == SubSeq(c, x + 1, y)
  <1>0. HBlock \in Nat \ {0} /\ Len(c) \in Nat
      BY Sizes
  <1>1. x \in Nat /\ y = x + k * HBlock /\ k * HBlock \in Nat
      BY <1>0
  <1>2. y \in x .. Len(c) /\ y - x = k * HBlock
      BY <1>0, <1>1
  <1> HIDE DEF x, y
  <1>3. p \in Seq(Int) /\ Len(p) = k * HBlock
      BY <1>1, <1>2, Slice
  <1> HIDE DEF p
  <1>4. Len(p) \div HBlock = k
      <2>1. (k * HBlock + 0) \div HBlock = k
          BY <1>0, QuotientOf
      <2>2. k * HBlock + 0 = Len(p)
          BY <1>1, <1>3
      <2> QED BY <2>1, <2>2
  <1>5. ASSUME NEW m \in 1 .. k
        PROVE  Blocks(p)[m] = Part(c, n + m - 1)
      <2>1. m - 1 \in 0 .. k - 1 /\ (m - 1) + 1 = m /\ n + m - 1 = n + (m - 1)
          OBVIOUS
      <2>2. Part(p, m - 1) = Part(c, n + (m - 1))
          BY <2>1, PartOfSlice DEF p, x, y
      <2>3. Blocks(p)[m] = SubSeq(p, (m - 1) * HBlock + 1, m * HBlock)
          <3>1. m \in 1 .. Len(p) \div HBlock
              BY <1>4
          <3> QED BY <3>1 DEF Blocks
      <2>4. Part(p, m - 1) = SubSeq(p, (m - 1) * HBlock + 1, m * HBlock)
          BY <2>1 DEF Part
      <2> QED BY <2>1, <2>2, <2>3, <2>4
  <1> QED BY <1>3, <1>4, <1>5 DEF p, x, y

(* Dealing block by block: the recursion has the solution that Dealt names, *)
(* and no other, for there would be a first block where they differ.        *)
LEMMA DealBlocksNext ==
  ASSUME NEW c \in Seq(Int), NEW n \in Nat, NEW k \in Nat, (n + k) * HBlock <= Len(c), NEW rest
  PROVE  DealBlocks(Dealt(c, n, rest), SubSeq(c, n * HBlock + 1, (n + k) * HBlock))
           = Dealt(c, n + k, rest)
  <1> DEFINE p == SubSeq(c, n * HBlock + 1, (n + k) * HBlock)
             B == Blocks(p)
             s == Dealt(c, n, rest)
             Step(f, m) == IF m = 0 THEN s ELSE Deal(f[m - 1], B[m])
             D == CHOOSE f : f = [m \in 0 .. k |-> Step(f, m)]
             g == [m \in 0 .. k |-> Dealt(c, n + m, rest)]
  <1>1. Len(p) \div HBlock = k /\ \A m \in 1 .. k : B[m] = Part(c, n + m - 1)
      BY WholeBlocksOf
  <1>2. DealBlocks(s, p) = D[k]
      <2> HIDE DEF p, s
      <2> QED BY <1>1 DEF DealBlocks
  <1>3. \A m \in 1 .. k : Deal(Dealt(c, n + (m - 1), rest), B[m]) = Dealt(c, n + m, rest)
      <2> SUFFICES ASSUME NEW m \in 1 .. k
                   PROVE  Deal(Dealt(c, n + (m - 1), rest), B[m]) = Dealt(c, n + m, rest)
          OBVIOUS
      <2> DEFINE b == n + (m - 1)
      <2>1. b \in Nat /\ b + 1 = n + m /\ b = n + m - 1
          OBVIOUS
      <2> HIDE DEF b, B
      <2>2. (b + 1) * HBlock <= Len(c)
          <3>1. b + 1 \in Nat /\ n + k \in Nat /\ b + 1 <= n + k
              BY <2>1
          <3>2. (b + 1) * HBlock <= (n + k) * HBlock /\ (b + 1) * HBlock \in Nat
                /\ (n + k) * HBlock \in Nat
              BY <3>1, MultipleFits
          <3>3. Len(c) \in Nat
              OBVIOUS
          <3> QED BY <3>2, <3>3
      <2>3. Deal(Dealt(c, b, rest), Part(c, b)) = Dealt(c, b + 1, rest)
          BY <2>1, <2>2, DealNext
      <2>4. B[m] = Part(c, b)
          BY <1>1, <2>1
      <2> QED BY <2>1, <2>3, <2>4 DEF b
  <1> HIDE DEF B, p
  <1>4. g = [m \in 0 .. k |-> Step(g, m)]
      <2>1. ASSUME NEW m \in 0 .. k
            PROVE  Dealt(c, n + m, rest) = Step(g, m)
          <3>1. CASE m = 0
              BY <3>1
          <3>2. CASE m # 0
              <4>1. m - 1 \in 0 .. k /\ m \in 1 .. k
                  BY <3>2
              <4>2. g[m - 1] = Dealt(c, n + (m - 1), rest)
                  BY <4>1
              <4> HIDE DEF g, s
              <4> QED BY <1>3, <3>2, <4>1, <4>2
          <3> QED BY <3>1, <3>2
      <2> HIDE DEF Step
      <2> QED BY <2>1
  <1>5. D = [m \in 0 .. k |-> Step(D, m)]
      <2> HIDE DEF g, Step
      <2> QED BY <1>4, Zenon
  <1> HIDE DEF D
  <1>6. \A m \in 0 .. k : D[m] = Step(D, m) /\ g[m] = Step(g, m)
      <2> HIDE DEF Step, g
      <2> QED BY <1>4, <1>5
  <1> DEFINE T == {m \in 0 .. k : D[m] # g[m]}
  <1>7. T = {}
      <2> SUFFICES ASSUME T # {} PROVE FALSE
          OBVIOUS
      <2>1. T \in SUBSET Nat
          OBVIOUS
      <2> HIDE DEF T
      <2>2. PICK m \in T : \A j \in T : m <= j
          BY <2>1, Least
      <2>3. m \in 0 .. k /\ D[m] # g[m]
          BY <2>2 DEF T
      <2> HIDE DEF g
      <2>4. m # 0
          BY <1>6, <2>3 DEF Step
      <2>5. m - 1 \in 0 .. k /\ ~(m <= m - 1)
          BY <2>3, <2>4
      <2>6. D[m - 1] = g[m - 1]
          BY <2>2, <2>5 DEF T
      <2>7. Step(D, m) = Step(g, m)
          BY <2>4, <2>6 DEF Step
      <2> QED BY <1>6, <2>3, <2>7
  <1>8. D[k] = g[k]
      <2>1. k \in 0 .. k
          OBVIOUS
      <2> QED BY <1>7, <2>1
  <1>9. g[k] = Dealt(c, n + k, rest)
      OBVIOUS
  <1> HIDE DEF g
  <1> QED BY <1>2, <1>8, <1>9 DEF p, s

-----------------------------------------------------------------------------
(* Whole strides. *)

LEMMA ShareOfStrides ==
  ASSUME NEW a \in Nat, NEW i \in LeafId
  PROVE  Share(a * Leaves, i) = a /\ (a * Leaves) % Leaves = 0
  <1>1. Leaves \in Nat \ {0} /\ 0 \in 0 .. Leaves - 1 /\ a * Leaves \in Nat /\ i \in Nat
      BY Sizes DEF LeafId
  <1>2. (a * Leaves + 0) \div Leaves = a /\ (a * Leaves + 0) % Leaves = 0
      BY <1>1, QuotientOf
  <1>3. a * Leaves + 0 = a * Leaves
      BY <1>1
  <1>4. (a * Leaves) \div Leaves = a /\ (a * Leaves) % Leaves = 0
      BY <1>2, <1>3
  <1> QED BY <1>1, <1>4 DEF Share

(* The blocks of whole strides that leaf i takes. *)
LEMMA LaneOf ==
  ASSUME NEW c \in Seq(Int), NEW a \in Nat, NEW k \in Nat, (a * Leaves + k * Leaves) * HBlock <= Len(c),
         NEW i \in LeafId
  PROVE  LET p == SubSeq(c, (a * Leaves) * HBlock + 1, (a * Leaves + k * Leaves) * HBlock)
         IN /\ LaneBlocks(p, i) \in Seq(Seq(Int)) /\ Len(LaneBlocks(p, i)) = k
            /\ \A j \in 1 .. k : LaneBlocks(p, i)[j] = Part(c, i + (a + j - 1) * Leaves)
  <1> DEFINE n == a * Leaves
             w == k * Leaves
             p == SubSeq(c, n * HBlock + 1, (n + w) * HBlock)
             lane == LaneBlocks(p, i)
  <1>0. HBlock \in Nat \ {0} /\ Leaves \in Nat \ {0} /\ Len(c) \in Nat /\ i \in Nat /\ i < Leaves
      BY Sizes DEF LeafId
  <1>1. n \in Nat /\ w \in Nat
      BY <1>0
  <1>2. (n + w) * HBlock <= Len(c)
      OBVIOUS
  <1>3. Stride \in Nat \ {0} /\ w * HBlock = k * Stride /\ k * Stride \in Nat
      BY <1>0 DEF Stride
  <1>4. Len(p) \div Stride = k
      <2> HIDE DEF n, w
      <2>1. Len(p) = w * HBlock
          BY <1>1, <1>2, WholeBlocksOf
      <2> HIDE DEF p
      <2>2. (k * Stride + 0) \div Stride = k
          BY <1>3, QuotientOf
      <2>3. k * Stride + 0 = Len(p)
          BY <1>3, <2>1
      <2> QED BY <2>2, <2>3
  <1>5. ASSUME NEW j \in 1 .. k
        PROVE  /\ SubSeq(p, (j - 1) * Stride + i * HBlock + 1, (j - 1) * Stride + (i + 1) * HBlock)
                    = Part(c, i + (a + j - 1) * Leaves)
               /\ Part(c, i + (a + j - 1) * Leaves) \in Seq(Int)
      <2> DEFINE b == (j - 1) * Leaves + i
      <2>0. j - 1 \in Nat /\ j \in Nat /\ (j - 1) * Leaves \in Nat
          BY <1>0
      <2>1. b \in 0 .. w - 1
          <3>1. j * Leaves <= k * Leaves /\ j * Leaves = (j - 1) * Leaves + Leaves
              BY <1>0, <2>0
          <3> QED BY <1>0, <1>1, <2>0, <3>1
      <2>2. n + b = i + (a + j - 1) * Leaves
          <3>1. (a + j - 1) * Leaves = a * Leaves + (j - 1) * Leaves
              BY <1>0, <2>0
          <3> QED BY <1>0, <1>1, <2>0, <3>1
      <2>3. (j - 1) * Stride + i * HBlock = b * HBlock
            /\ (j - 1) * Stride + (i + 1) * HBlock = (b + 1) * HBlock
          BY <1>0, <2>0 DEF Stride
      <2> HIDE DEF b, n, w
      <2>4. Part(p, b) = Part(c, n + b)
          BY <1>1, <1>2, <2>1, PartOfSlice DEF p
      <2> HIDE DEF p
      <2>5. SubSeq(p, (j - 1) * Stride + i * HBlock + 1, (j - 1) * Stride + (i + 1) * HBlock)
              = Part(p, b)
          BY <2>3 DEF Part
      <2>6. Part(c, n + b) \in Seq(Int)
          <3> DEFINE u == n + b
          <3>1. u \in Nat /\ u + 1 \in Nat /\ u + 1 <= n + w /\ n + w \in Nat
              BY <1>1, <2>1
          <3> HIDE DEF u
          <3>2. (u + 1) * HBlock <= (n + w) * HBlock /\ (u + 1) * HBlock \in Nat
                /\ (n + w) * HBlock \in Nat
              BY <3>1, MultipleFits
          <3>3. (u + 1) * HBlock <= Len(c)
              BY <1>0, <1>2, <3>2
          <3>4. Part(c, u) \in Seq(Int)
              BY <3>1, <3>3, PartIs
          <3> QED BY <3>4 DEF u
      <2> QED BY <2>2, <2>4, <2>5, <2>6
  <1> HIDE DEF n, w, p
  <1> DEFINE cell(j) == Part(c, i + (a + j - 1) * Leaves)
  <1>6. LaneBlocks(p, i) = [j \in 1 .. k |-> cell(j)]
      BY <1>4, <1>5 DEF LaneBlocks
  <1>7. \A j \in 1 .. k : cell(j) \in Seq(Int)
      BY <1>5
  <1> HIDE DEF cell
  <1>8. /\ LaneBlocks(p, i) \in Seq(Seq(Int)) /\ Len(LaneBlocks(p, i)) = k
        /\ \A j \in 1 .. k : LaneBlocks(p, i)[j] = cell(j)
      BY <1>6, <1>7
  <1> QED BY <1>8 DEF p, n, w, cell

(* What dealStrides makes of a leaf that was handed a blocks. *)
Striding(l, a, lane) ==
  LET t == IF a = 0 THEN 0 ELSE (a - 1) * HBlock
      ready == (IF a = 0 THEN <<>> ELSE <<l.buf>>) \o Front(lane)
  IN [l EXCEPT !.h = @ \o Compressed(ready, t), !.t = t + Len(ready) * HBlock, !.buf = Last(lane)]

LEMMA LeafStrides ==
  ASSUME NEW c \in Seq(Int), NEW a \in Nat, NEW k \in Nat \ {0}, NEW i \in LeafId,
         a >= 1 => (i + (a - 1) * Leaves + 1) * HBlock <= Len(c),
         NEW lane \in Seq(Seq(Int)), Len(lane) = k,
         \A j \in 1 .. k : lane[j] = Part(c, i + (a + j - 1) * Leaves)
  PROVE  Striding(LeafAt(c, i, a), a, lane) = LeafAt(c, i, a + k)
  <1> DEFINE m == IF a = 0 THEN 0 ELSE a - 1
             l == LeafAt(c, i, a)
             t == IF a = 0 THEN 0 ELSE (a - 1) * HBlock
             F == Front(lane)
             kept == IF a = 0 THEN <<>> ELSE <<l.buf>>
             ready == kept \o F
             top == Part(c, i + (a + k - 1) * Leaves)
  <1>0. HBlock \in Nat \ {0} /\ Leaves \in Nat \ {0} /\ i \in Nat
      BY Sizes DEF LeafId
  <1>1. F \in Seq(Seq(Int)) /\ Len(F) = k - 1 /\ \A j \in 1 .. k - 1 : F[j] = lane[j]
      <2>1. \A j \in 1 .. k - 1 : lane[j] \in Seq(Int)
          OBVIOUS
      <2>2. k - 1 \in Nat
          OBVIOUS
      <2>3. /\ SubSeq(lane, 1, k - 1) \in Seq(Seq(Int))
            /\ Len(SubSeq(lane, 1, k - 1)) = IF 1 <= k - 1 THEN (k - 1) - 1 + 1 ELSE 0
            /\ \A j \in 1 .. (k - 1) - 1 + 1 : SubSeq(lane, 1, k - 1)[j] = lane[1 + j - 1]
          BY <2>1, <2>2, SubSeqProperties
      <2>4. F = SubSeq(lane, 1, k - 1)
          BY DEF Front
      <2> QED BY <2>2, <2>3, <2>4
  <1>2. Last(lane) = top
      BY DEF Last
  <1>3. m \in Nat /\ t = m * HBlock /\ l.h = Full(c, i, m)
      <2>1. CASE a = 0
          BY <1>0, <2>1, NothingFull DEF LeafAt, Leaf
      <2>2. CASE a # 0
          BY <2>2 DEF LeafAt
      <2> QED BY <2>1, <2>2
  <1>4. /\ Len(ready) \in Nat /\ m + Len(ready) = a + k - 1 /\ NextOf(ready, c, i, m)
      <2>1. CASE a = 0
          <3>1. ready = F
              BY <1>1, <2>1
          <3>2. \A j \in 1 .. k - 1 : F[j] = Part(c, i + (m + j - 1) * Leaves)
              <4>1. \A j \in 1 .. k - 1 : j \in 1 .. k
                  OBVIOUS
              <4> QED BY <1>1, <2>1, <4>1
          <3> QED BY <1>1, <2>1, <3>1, <3>2 DEF NextOf
      <2>2. CASE a # 0
          <3> DEFINE b == Part(c, i + (a - 1) * Leaves)
          <3>1. b \in Seq(Int)
              <4> DEFINE u == i + (a - 1) * Leaves
              <4>1. a - 1 \in Nat /\ a >= 1
                  BY <2>2
              <4>2. u \in Nat
                  <5> DEFINE v == (a - 1) * Leaves
                  <5>1. v \in Nat
                      BY <1>0, <4>1
                  <5> HIDE DEF v
                  <5>2. i + v \in Nat
                      BY <1>0, <5>1
                  <5> QED BY <5>2 DEF v
              <4>3. (u + 1) * HBlock <= Len(c)
                  BY <4>1, Zenon
              <4> HIDE DEF u
              <4>4. Part(c, u) \in Seq(Int)
                  BY <4>2, <4>3, PartIs
              <4> QED BY <4>4 DEF u
          <3>2. l.buf = b
              BY <2>2 DEF LeafAt
          <3> HIDE DEF b, l
          <3>3. kept = <<b>>
              BY <2>2, <3>2
          <3> HIDE DEF kept, F
          <3>4. <<b>> \in Seq(Seq(Int)) /\ Len(<<b>>) = 1 /\ <<b>>[1] = b
              BY <3>1
          <3> DEFINE one == <<b>>
          <3> HIDE DEF one
          <3>5. /\ <<b>> \o F \in Seq(Seq(Int)) /\ Len(<<b>> \o F) = Len(<<b>>) + Len(F)
                /\ \A j \in 1 .. Len(<<b>>) + Len(F) :
                     (<<b>> \o F)[j] = IF j <= Len(<<b>>) THEN <<b>>[j] ELSE F[j - Len(<<b>>)]
              <4>1. one \in Seq(Seq(Int))
                  BY <3>4 DEF one
              <4>2. /\ one \o F \in Seq(Seq(Int)) /\ Len(one \o F) = Len(one) + Len(F)
                    /\ \A j \in 1 .. Len(one) + Len(F) :
                         (one \o F)[j] = IF j <= Len(one) THEN one[j] ELSE F[j - Len(one)]
                  BY <1>1, <4>1, ConcatProperties
              <4> QED BY <4>2, Zenon DEF one
          <3>6. Len(ready) = k /\ \A j \in 1 .. k : ready[j] = IF j <= 1 THEN <<b>>[j] ELSE F[j - 1]
              BY <1>1, <3>3, <3>4, <3>5
          <3> HIDE DEF ready
          <3>7. ASSUME NEW j \in 1 .. k
                PROVE  ready[j] = Part(c, i + (m + j - 1) * Leaves)
              <4>1. m = a - 1
                  BY <2>2
              <4>2. CASE j <= 1
                  <5>1. j = 1 /\ m + j - 1 = a - 1
                      BY <2>2, <4>2
                  <5> QED BY <3>4, <3>6, <5>1 DEF b
              <4>3. CASE ~(j <= 1)
                  <5>1. j - 1 \in 1 .. k - 1 /\ j - 1 \in 1 .. k
                      BY <4>3
                  <5>2. a + (j - 1) - 1 = m + j - 1
                      BY <2>2
                  <5>3. F[j - 1] = Part(c, i + (a + (j - 1) - 1) * Leaves)
                      BY <1>1, <5>1
                  <5> QED BY <3>6, <4>3, <5>2, <5>3
              <4> QED BY <4>2, <4>3
          <3>8. m + k = a + k - 1
              BY <2>2
          <3> QED BY <3>6, <3>7, <3>8 DEF NextOf
      <2> QED BY <2>1, <2>2
  <1> DEFINE r == a + k - 1
  <1>5. r \in Nat /\ a + k # 0 /\ (a + k) - 1 = r
      OBVIOUS
  <1>6. t + Len(ready) * HBlock = r * HBlock
      <2> DEFINE d == Len(ready)
      <2>1. d \in Nat /\ m + d = r /\ t = m * HBlock /\ m \in Nat
          BY <1>3, <1>4
      <2> HIDE DEF d, t, m, r
      <2>2. m * HBlock + d * HBlock = (m + d) * HBlock
          BY <1>0, <2>1
      <2> QED BY <2>1, <2>2 DEF d
  <1>7. Full(c, i, m) \o Compressed(ready, t) = Full(c, i, r)
      <2> HIDE DEF m, t, ready
      <2>1. Full(c, i, m) \o Compressed(ready, m * HBlock) = Full(c, i, m + Len(ready))
          <3>1. i \in Nat /\ m \in Nat /\ NextOf(ready, c, i, m)
              BY <1>0, <1>3, <1>4
          <3>2. Joins(ready, c, i, m)
              BY <3>1, CompressedJoins
          <3> QED BY <3>2, Zenon DEF Joins
      <2> QED BY <1>3, <1>4, <2>1, Zenon
  <1>8. LeafAt(c, i, a + k) = [node |-> i, h |-> Full(c, i, r), t |-> r * HBlock, buf |-> top]
      BY <1>5, Zenon DEF LeafAt
  <1>9. l = [node |-> i, h |-> l.h, t |-> l.t, buf |-> l.buf]
      <2>1. CASE a = 0
          BY <2>1 DEF LeafAt, Leaf
      <2>2. CASE a # 0
          BY <2>2 DEF LeafAt
      <2> QED BY <2>1, <2>2
  <1> HIDE DEF l, t, ready, r, top, m
  <1>10. [l EXCEPT !.h = @ \o Compressed(ready, t), !.t = t + Len(ready) * HBlock, !.buf = Last(lane)]
           = [node |-> i, h |-> Full(c, i, r), t |-> r * HBlock, buf |-> top]
      <2> DEFINE h == Full(c, i, m) \o Compressed(ready, t)
                 n == t + Len(ready) * HBlock
      <2>1. [l EXCEPT !.h = @ \o Compressed(ready, t), !.t = t + Len(ready) * HBlock,
                      !.buf = Last(lane)] = [l EXCEPT !.h = h, !.t = n, !.buf = top]
          BY <1>2, <1>3
      <2>2. h = Full(c, i, r) /\ n = r * HBlock
          BY <1>6, <1>7
      <2> HIDE DEF h, n
      <2>3. [l EXCEPT !.h = h, !.t = n, !.buf = top] = [node |-> i, h |-> h, t |-> n, buf |-> top]
          <3> DEFINE lh == l.h
                     lt == l.t
                     lb == l.buf
          <3>1. l = [node |-> i, h |-> lh, t |-> lt, buf |-> lb]
              BY <1>9
          <3> HIDE DEF lh, lt, lb
          <3> HIDE DEF l
          <3> DEFINE l1 == [l EXCEPT !.h = h]
                     l2 == [l1 EXCEPT !.t = n]
                     l3 == [l2 EXCEPT !.buf = top]
          <3>2. l1 = [node |-> i, h |-> h, t |-> lt, buf |-> lb]
              BY <3>1
          <3>3. [l EXCEPT !.h = h, !.t = n, !.buf = top] = l3
              BY Zenon
          <3> HIDE DEF l1
          <3>4. l2 = [node |-> i, h |-> h, t |-> n, buf |-> lb]
              BY <3>2
          <3> HIDE DEF l2
          <3>5. l3 = [node |-> i, h |-> h, t |-> n, buf |-> top]
              BY <3>4
          <3> QED BY <3>3, <3>5, Zenon DEF l3, l2, l1
      <2> QED BY <2>1, <2>2, <2>3, Zenon
  <1>11. Striding(l, a, lane) = [l EXCEPT !.h = @ \o Compressed(ready, t),
                                         !.t = t + Len(ready) * HBlock, !.buf = Last(lane)]
      BY Zenon DEF Striding, t, ready
  <1> QED BY <1>8, <1>10, <1>11 DEF l

LEMMA DealStridesNext ==
  ASSUME NEW c \in Seq(Int), NEW a \in Nat, NEW k \in Nat \ {0},
         (a * Leaves + k * Leaves) * HBlock <= Len(c), NEW rest
  PROVE  DealStrides(Dealt(c, a * Leaves, rest),
                     SubSeq(c, (a * Leaves) * HBlock + 1, (a * Leaves + k * Leaves) * HBlock))
           = Dealt(c, a * Leaves + k * Leaves, rest)
  <1> DEFINE n == a * Leaves
             w == k * Leaves
             p == SubSeq(c, n * HBlock + 1, (n + w) * HBlock)
             f == [i \in LeafId |-> LeafAt(c, i, a)]
             s == [leaf |-> f, buf |-> rest, cur |-> 0]
             t == IF a = 0 THEN 0 ELSE (a - 1) * HBlock
  <1>0. HBlock \in Nat \ {0} /\ Leaves \in Nat \ {0} /\ 0 \in LeafId
      BY Sizes DEF LeafId
  <1>1. n \in Nat /\ w \in Nat /\ n + w = (a + k) * Leaves /\ a + k \in Nat
      BY <1>0
  <1>2. (\A i \in LeafId : Share(n, i) = a) /\ n % Leaves = 0
      BY <1>0, ShareOfStrides
  <1>3. (\A i \in LeafId : Share(n + w, i) = a + k) /\ (n + w) % Leaves = 0
      <2> DEFINE d == a + k
      <2>1. d \in Nat
          OBVIOUS
      <2> HIDE DEF d
      <2>2. (\A i \in LeafId : Share(d * Leaves, i) = d) /\ (d * Leaves) % Leaves = 0
          BY <1>0, <2>1, ShareOfStrides
      <2>3. n + w = d * Leaves
          BY <1>1 DEF d
      <2> HIDE DEF n, w
      <2> QED BY <2>2, <2>3 DEF d
  <1>4. Dealt(c, n, rest) = s
      BY <1>2 DEF Dealt
  <1>5. Dealt(c, n + w, rest) = [leaf |-> [i \in LeafId |-> LeafAt(c, i, a + k)], buf |-> rest,
                                 cur |-> 0]
      BY <1>3 DEF Dealt
  <1>6. a >= 1 => n <= n + w /\ \A i \in LeafId : (i + (a - 1) * Leaves + 1) * HBlock <= Len(c)
      <2> SUFFICES ASSUME a >= 1, NEW i \in LeafId
                   PROVE  (i + (a - 1) * Leaves + 1) * HBlock <= Len(c)
          BY <1>1
      <2>1. n * HBlock <= Len(c)
          <3>1. n * HBlock <= (n + w) * HBlock /\ n * HBlock \in Nat /\ (n + w) * HBlock \in Nat
              <4>1. n \in Nat /\ n + w \in Nat /\ n <= n + w
                  BY <1>1
              <4> HIDE DEF n, w
              <4> QED BY <4>1, MultipleFits
          <3>2. Len(c) \in Nat /\ (n + w) * HBlock <= Len(c)
              OBVIOUS
          <3> HIDE DEF n, w
          <3> QED BY <3>1, <3>2
      <2>2. a \in 1 .. Share(n, i)
          BY <1>2
      <2> HIDE DEF n
      <2> QED BY <1>1, <2>1, <2>2, LeafFits
  <1>7. (Len(f[0].buf) = HBlock <=> a # 0) /\ f[0].t = t
      <2>1. f[0] = LeafAt(c, 0, a)
          BY <1>0
      <2>2. CASE a = 0
          <3>1. f[0].buf = <<>> /\ f[0].t = 0
              BY <2>1, <2>2 DEF LeafAt, Leaf
          <3> HIDE DEF f
          <3> QED BY <1>0, <2>2, <3>1
      <2>3. CASE a # 0
          <3> DEFINE b == 0 + (a - 1) * Leaves
          <3>1. a >= 1 /\ (a - 1) * Leaves \in Nat
              BY <1>0, <2>3
          <3>2. (0 + (a - 1) * Leaves + 1) * HBlock <= Len(c)
              BY <1>0, <1>6, <3>1
          <3>3. f[0].buf = Part(c, b) /\ f[0].t = t
              BY <2>1, <2>3 DEF LeafAt
          <3>4. b \in Nat /\ (b + 1) * HBlock <= Len(c)
              BY <3>1, <3>2
          <3> HIDE DEF f, b, t
          <3>5. Len(Part(c, b)) = HBlock
              BY <3>4, PartIs
          <3> QED BY <2>3, <3>3, <3>5
      <2> QED BY <2>2, <2>3
  <1>8. \A i \in LeafId : Striding(f[i], a, LaneBlocks(p, i)) = LeafAt(c, i, a + k)
      <2> SUFFICES ASSUME NEW i \in LeafId
                   PROVE  Striding(LeafAt(c, i, a), a, LaneBlocks(p, i)) = LeafAt(c, i, a + k)
          OBVIOUS
      <2> DEFINE lane == LaneBlocks(p, i)
      <2>1. /\ lane \in Seq(Seq(Int)) /\ Len(lane) = k
            /\ \A j \in 1 .. k : lane[j] = Part(c, i + (a + j - 1) * Leaves)
          BY LaneOf
      <2> HIDE DEF lane
      <2> QED BY <1>6, <2>1, LeafStrides DEF lane
  <1> DEFINE g == [i \in LeafId |-> Striding(f[i], a, LaneBlocks(p, i))]
  <1>9. DealStrides(s, p) = [s EXCEPT !.leaf = g]
      <2> DEFINE h1(i) == IF Len(s.leaf[0].buf) = HBlock THEN <<s.leaf[i].buf>> ELSE <<>>
                 h2(i) == IF a = 0 THEN <<>> ELSE <<f[i].buf>>
                 Made(l, h, u, lane) == [l EXCEPT !.h = l.h \o Compressed(h \o Front(lane), u),
                                                  !.t = u + Len(h \o Front(lane)) * HBlock,
                                                  !.buf = Last(lane)]
      <2>1. s.leaf = f
          OBVIOUS
      <2> HIDE DEF f, s, p
      <2>2. DealStrides(s, p) = [s EXCEPT !.leaf =
              [i \in LeafId |-> Made(s.leaf[i], h1(i), s.leaf[0].t, LaneBlocks(p, i))]]
          BY Zenon DEF DealStrides
      <2>3. \A i \in LeafId : h1(i) = h2(i)
          BY <1>7, <2>1
      <2>4. \A i \in LeafId : Striding(f[i], a, LaneBlocks(p, i)) = Made(f[i], h2(i), t, LaneBlocks(p, i))
          BY Zenon DEF Striding
      <2>5. s.leaf[0].t = t
          BY <1>7, <2>1
      <2> HIDE DEF h1, h2, Made, t, g
      <2>6. \A i \in LeafId : Made(s.leaf[i], h1(i), s.leaf[0].t, LaneBlocks(p, i))
                             = Striding(f[i], a, LaneBlocks(p, i))
          BY <2>1, <2>3, <2>4, <2>5, Zenon
      <2>7. [i \in LeafId |-> Made(s.leaf[i], h1(i), s.leaf[0].t, LaneBlocks(p, i))] = g
          BY <2>6, Zenon DEF g
      <2> QED BY <2>2, <2>7, Zenon
  <1>10. g = [i \in LeafId |-> LeafAt(c, i, a + k)]
      <2> HIDE DEF f, p
      <2> QED BY <1>8
  <1> HIDE DEF f, g
  <1>11. [s EXCEPT !.leaf = g] = [leaf |-> g, buf |-> rest, cur |-> 0]
      OBVIOUS
  <1> HIDE DEF s
  <1>12. DealStrides(s, p) = Dealt(c, n + w, rest)
      BY <1>5, <1>9, <1>10, <1>11, Zenon
  <1> QED BY <1>4, <1>12, Zenon DEF p, n, w

-----------------------------------------------------------------------------
(* A Write. *)

LEMMA BlocksAndRest ==
  ASSUME NEW z \in Nat
  PROVE  /\ z \div HBlock \in Nat /\ z % HBlock \in 0 .. HBlock - 1
         /\ z = (z \div HBlock) * HBlock + (z % HBlock)
  BY Sizes

(* The blocks up to leaf 0 and the whole strides behind them, where n are   *)
(* dealt and all are at hand.                                               *)
Lead(n, all) ==
  LET first == (Leaves - (n % Leaves)) % Leaves
  IN IF first < all THEN first ELSE all
Strides(n, all) == (all - Lead(n, all)) \div Leaves

LEMMA StrideSplit ==
  ASSUME NEW n \in Nat, NEW all \in Nat
  PROVE  LET a == Lead(n, all)
             k == Strides(n, all)
         IN /\ a \in 0 .. all /\ k \in Nat /\ k * Leaves \in Nat /\ a + k * Leaves <= all
            /\ k # 0 => \E e \in Nat : n + a = e * Leaves
  <1> DEFINE r == n % Leaves
             e == n \div Leaves
             first == (Leaves - r) % Leaves
             a == Lead(n, all)
             k == Strides(n, all)
  <1> USE Sizes
  <1>1. e \in Nat /\ r \in 0 .. Leaves - 1 /\ n = e * Leaves + r
      OBVIOUS
  <1> HIDE DEF e, r
  <1>2. first \in 0 .. Leaves - 1 /\ (r = 0 => first = 0) /\ (r # 0 => first = Leaves - r)
      <2>1. CASE r = 0
          BY <2>1
      <2>2. CASE r # 0
          <3>1. Leaves - r \in 0 .. Leaves - 1 /\ Leaves \in Nat \ {0}
              BY <1>1, <2>2
          <3>2. (Leaves - r) % Leaves = Leaves - r
              BY <3>1
          <3> QED BY <2>2, <3>1, <3>2
      <2> QED BY <2>1, <2>2
  <1> HIDE DEF first
  <1>3. a \in 0 .. all /\ (a = first \/ a = all)
      <2>1. a = IF first < all THEN first ELSE all
          BY Zenon DEF Lead, first, r
      <2> HIDE DEF a
      <2> QED BY <1>2, <2>1
  <1> HIDE DEF a
  <1> DEFINE m == (all - a) % Leaves
  <1>4. all - a \in Nat
      BY <1>3
  <1>5. k \in Nat /\ m \in 0 .. Leaves - 1 /\ all - a = k * Leaves + m
      <2>1. k = (all - a) \div Leaves
          BY Zenon DEF Strides, a
      <2> DEFINE z == all - a
      <2> HIDE DEF k, z
      <2>2. z \in Nat /\ k = z \div Leaves /\ m = z % Leaves
          BY <1>4, <2>1 DEF z
      <2> HIDE DEF m
      <2>3. k \in Nat /\ m \in 0 .. Leaves - 1 /\ z = k * Leaves + m
          BY <2>2
      <2> QED BY <2>3 DEF z
  <1> HIDE DEF k, m
  <1>6. k * Leaves \in Nat /\ a + k * Leaves <= all
      <2>1. k * Leaves \in Nat
          BY <1>5
      <2> QED BY <1>3, <1>5, <2>1
  <1>7. ASSUME k # 0
        PROVE  \E e2 \in Nat : n + a = e2 * Leaves
      <2>1. k * Leaves >= Leaves
          BY <1>5, <1>7
      <2>2. a = first
          BY <1>3, <1>6, <2>1
      <2>3. CASE r = 0
          <3>1. n + a = e * Leaves
              BY <1>1, <1>2, <2>2, <2>3
          <3> QED BY <1>1, <3>1
      <2>4. CASE r # 0
          <3>1. (e + 1) * Leaves = e * Leaves + Leaves /\ e * Leaves \in Nat /\ e + 1 \in Nat
              BY <1>1
          <3>2. n + a = (e + 1) * Leaves
              BY <1>1, <1>2, <2>2, <2>4, <3>1
          <3> QED BY <3>1, <3>2
      <2> QED BY <2>3, <2>4
  <1> QED BY <1>3, <1>5, <1>6, <1>7 DEF k, a

(* What Write does with q once no block is incomplete. *)
Dispensed(s, q) ==
  LET all == Len(q) \div HBlock
      toLeaf0 == (Leaves - s.cur) % Leaves
      a == IF toLeaf0 < all THEN toLeaf0 ELSE all
      k == (all - a) \div Leaves
      mid == a * HBlock + k * Stride
      s1 == DealBlocks(s, SubSeq(q, 1, a * HBlock))
      s2 == IF k = 0 THEN s1 ELSE DealStrides(s1, SubSeq(q, a * HBlock + 1, mid))
      s3 == DealBlocks(s2, SubSeq(q, mid + 1, all * HBlock))
  IN [s3 EXCEPT !.buf = SubSeq(q, all * HBlock + 1, Len(q))]

(* A slice of q that starts and ends on a block. *)
LEMMA SliceOfRest ==
  ASSUME NEW d \in Seq(Int), NEW n \in Nat, NEW all \in Nat, (n + all) * HBlock <= Len(d),
         NEW u \in Nat, NEW v \in u .. all
  PROVE  /\ SubSeq(SubSeq(d, n * HBlock + 1, Len(d)), u * HBlock + 1, v * HBlock)
              = SubSeq(d, (n + u) * HBlock + 1, (n + v) * HBlock)
         /\ (n + v) * HBlock <= Len(d)
  <1> DEFINE x == n * HBlock
             y == Len(d)
             uu == u * HBlock
             vv == v * HBlock
  <1>0. HBlock \in Nat \ {0} /\ y \in Nat
      BY Sizes
  <1>1. /\ x \in Nat /\ uu \in Nat /\ vv \in Nat /\ uu <= vv /\ vv <= all * HBlock
        /\ (n + all) * HBlock = x + all * HBlock /\ all * HBlock \in Nat
        /\ (n + u) * HBlock = x + uu /\ (n + v) * HBlock = x + vv
      <2>0. v \in Nat /\ u <= v /\ v <= all
          OBVIOUS
      <2>1. u * HBlock <= v * HBlock /\ u * HBlock \in Nat /\ v * HBlock \in Nat
          BY <2>0, MultipleFits
      <2>2. v * HBlock <= all * HBlock /\ all * HBlock \in Nat
          BY <2>0, MultipleFits
      <2>3. /\ n * HBlock \in Nat /\ (n + all) * HBlock = n * HBlock + all * HBlock
            /\ (n + u) * HBlock = n * HBlock + u * HBlock
            /\ (n + v) * HBlock = n * HBlock + v * HBlock
          BY <1>0, <2>0
      <2> QED BY <2>1, <2>2, <2>3, Zenon DEF x, uu, vv
  <1>2. x + all * HBlock <= y
      BY <1>1
  <1> HIDE DEF x, y, uu, vv
  <1>3. y \in x .. y /\ vv \in uu .. y - x /\ x + vv <= y
      BY <1>0, <1>1, <1>2
  <1>4. SubSeq(SubSeq(d, x + 1, y), uu + 1, vv) = SubSeq(d, x + uu + 1, x + vv)
      <2>1. y \in x .. Len(d)
          BY <1>3 DEF y
      <2> QED BY <1>1, <1>3, <2>1, SliceOfSlice
  <1> QED BY <1>1, <1>3, <1>4 DEF x, y, uu, vv

LEMMA DispensedIs ==
  ASSUME NEW d \in Seq(Int), NEW n \in Nat, n * HBlock <= Len(d)
  PROVE  Dispensed(Dealt(d, n, <<>>), SubSeq(d, n * HBlock + 1, Len(d))) = HashOf(d)
  <1> DEFINE s == Dealt(d, n, <<>>)
             q == SubSeq(d, n * HBlock + 1, Len(d))
             all == Len(q) \div HBlock
             N == n + all
             toLeaf0 == (Leaves - s.cur) % Leaves
             a == IF toLeaf0 < all THEN toLeaf0 ELSE all
             k == (all - a) \div Leaves
             w == k * Leaves
             mid == a * HBlock + k * Stride
             s1 == DealBlocks(s, SubSeq(q, 1, a * HBlock))
             s2 == IF k = 0 THEN s1 ELSE DealStrides(s1, SubSeq(q, a * HBlock + 1, mid))
             s3 == DealBlocks(s2, SubSeq(q, mid + 1, all * HBlock))
  <1>0. HBlock \in Nat \ {0} /\ Leaves \in Nat \ {0} /\ Len(d) \in Nat /\ n * HBlock \in Nat
      BY Sizes
  <1>1. q \in Seq(Int) /\ Len(q) = Len(d) - n * HBlock
      <2> DEFINE x == n * HBlock
      <2>1. x \in Nat /\ Len(d) \in x .. Len(d)
          BY <1>0
      <2> HIDE DEF x
      <2>2. SubSeq(d, x + 1, Len(d)) \in Seq(Int) /\ Len(SubSeq(d, x + 1, Len(d))) = Len(d) - x
          BY <2>1, Slice
      <2> QED BY <2>2 DEF x
  <1>2. s.cur = n % Leaves
      BY DEF Dealt
  <1>3. Dispensed(s, q) = [s3 EXCEPT !.buf = SubSeq(q, all * HBlock + 1, Len(q))]
      <2> HIDE DEF s, q
      <2> QED BY Zenon DEF Dispensed
  <1>4. /\ all \in Nat /\ N = Len(d) \div HBlock /\ N \in Nat /\ N * HBlock <= Len(d)
        /\ N * HBlock = n * HBlock + all * HBlock /\ all * HBlock \in Nat
        /\ all * HBlock <= Len(q)
      <2> DEFINE m == Len(q) % HBlock
      <2>1. Len(q) \in Nat
          BY <1>1
      <2>2. all \in Nat /\ m \in 0 .. HBlock - 1 /\ Len(q) = all * HBlock + m
          <3> DEFINE z == Len(q)
          <3> HIDE DEF z
          <3>1. z \in Nat
              BY <2>1 DEF z
          <3>2. z \div HBlock \in Nat /\ z % HBlock \in 0 .. HBlock - 1
                /\ z = (z \div HBlock) * HBlock + (z % HBlock)
              BY <3>1, BlocksAndRest
          <3> QED BY <3>2 DEF z, all, m
      <2> HIDE DEF q, all, m
      <2>3. N \in Nat /\ N * HBlock = n * HBlock + all * HBlock /\ all * HBlock \in Nat
          BY <1>0, <2>2
      <2> HIDE DEF N
      <2>4. Len(d) = N * HBlock + m
          <3> DEFINE u == all * HBlock
                     x == n * HBlock
                     y == N * HBlock
          <3>1. u \in Nat /\ x \in Nat /\ y = x + u /\ Len(q) = u + m /\ Len(q) = Len(d) - x
                /\ m \in Nat
              BY <1>0, <1>1, <2>2, <2>3
          <3> HIDE DEF u, x, y
          <3>2. Len(d) = y + m
              BY <1>0, <3>1
          <3> QED BY <3>2 DEF y
      <2>5. (N * HBlock + m) \div HBlock = N
          BY <1>0, <2>2, <2>3, QuotientOf
      <2> QED BY <1>0, <2>2, <2>3, <2>4, <2>5
  <1> HIDE DEF all
  <1>5. /\ a \in 0 .. all /\ k \in Nat /\ w \in Nat /\ a + w <= all
        /\ k # 0 => \E e \in Nat : n + a = e * Leaves
      <2>1. a = Lead(n, all) /\ k = Strides(n, all)
          <3> HIDE DEF s
          <3> QED BY <1>2, Zenon DEF Lead, Strides
      <2> HIDE DEF a, k
      <2>2. LET aa == Lead(n, all)
                kk == Strides(n, all)
            IN /\ aa \in 0 .. all /\ kk \in Nat /\ kk * Leaves \in Nat /\ aa + kk * Leaves <= all
               /\ kk # 0 => \E e \in Nat : n + aa = e * Leaves
          BY <1>4, StrideSplit
      <2> QED BY <2>1, <2>2, Zenon
  <1> HIDE DEF toLeaf0, a, k
  <1>6. mid = (a + w) * HBlock
      BY <1>0, <1>5 DEF Stride
  <1> DEFINE t == a + w
  <1>7. t \in a .. all /\ t \in Nat /\ mid = t * HBlock
      BY <1>4, <1>5, <1>6
  <1> HIDE DEF mid, w, q, N
  <1>8. s1 = Dealt(d, n + a, <<>>)
      <2>1. SubSeq(q, 1, a * HBlock) = SubSeq(d, n * HBlock + 1, (n + a) * HBlock)
            /\ (n + a) * HBlock <= Len(d)
          <3>1. 0 * HBlock + 1 = 1 /\ n + 0 = n /\ 0 \in Nat /\ a \in 0 .. all
              BY <1>0, <1>5
          <3>2. /\ SubSeq(q, 0 * HBlock + 1, a * HBlock)
                     = SubSeq(d, (n + 0) * HBlock + 1, (n + a) * HBlock)
                /\ (n + a) * HBlock <= Len(d)
              BY <1>4, <3>1, SliceOfRest DEF q, N
          <3> QED BY <3>1, <3>2
      <2>2. a \in Nat
          BY <1>5
      <2>3. DealBlocks(Dealt(d, n, <<>>), SubSeq(d, n * HBlock + 1, (n + a) * HBlock))
              = Dealt(d, n + a, <<>>)
          BY <2>1, <2>2, DealBlocksNext
      <2> QED BY <2>1, <2>3, Zenon
  <1> HIDE DEF s, s1
  <1>9. s2 = Dealt(d, n + t, <<>>)
      <2>1. CASE k = 0
          <3>1. w = 0
              BY <1>0, <2>1 DEF w
          <3>2. n + t = n + a
              BY <1>5, <3>1
          <3> QED BY <1>8, <2>1, <3>2
      <2>2. CASE k # 0
          <3>1. PICK e \in Nat : n + a = e * Leaves
              BY <1>5, <2>2
          <3>2. n + t = e * Leaves + k * Leaves
              BY <1>5, <3>1 DEF w
          <3>3. SubSeq(q, a * HBlock + 1, t * HBlock)
                  = SubSeq(d, (n + a) * HBlock + 1, (n + t) * HBlock)
                /\ (n + t) * HBlock <= Len(d)
              <4>1. a \in Nat /\ t \in a .. all
                  BY <1>5, <1>7
              <4> HIDE DEF t
              <4> QED BY <1>4, <4>1, SliceOfRest DEF q, N
          <3> HIDE DEF t
          <3>4. /\ SubSeq(q, a * HBlock + 1, t * HBlock)
                     = SubSeq(d, (e * Leaves) * HBlock + 1, (e * Leaves + k * Leaves) * HBlock)
                /\ (e * Leaves + k * Leaves) * HBlock <= Len(d)
              BY <3>1, <3>2, <3>3, Zenon
          <3>5. s1 = Dealt(d, e * Leaves, <<>>)
              BY <1>8, <3>1, Zenon
          <3>6. DealStrides(s1, SubSeq(q, a * HBlock + 1, t * HBlock))
                  = Dealt(d, e * Leaves + k * Leaves, <<>>)
              <4>1. k \in Nat \ {0}
                  BY <1>5, <2>2
              <4>2. DealStrides(Dealt(d, e * Leaves, <<>>),
                                SubSeq(d, (e * Leaves) * HBlock + 1, (e * Leaves + k * Leaves) * HBlock))
                      = Dealt(d, e * Leaves + k * Leaves, <<>>)
                  BY <3>1, <3>4, <4>1, DealStridesNext
              <4> QED BY <3>4, <3>5, <4>2, Zenon
          <3> QED BY <1>7, <2>2, <3>2, <3>6, Zenon
      <2> QED BY <2>1, <2>2
  <1> HIDE DEF s2
  <1>10. s3 = Dealt(d, N, <<>>)
      <2> DEFINE b == n + t
                 z == all - t
      <2>1. b \in Nat /\ z \in Nat /\ b + z = N
          BY <1>4, <1>7 DEF N
      <2>2. SubSeq(q, t * HBlock + 1, all * HBlock) = SubSeq(d, (n + t) * HBlock + 1, (n + all) * HBlock)
            /\ (n + all) * HBlock <= Len(d)
          <3>1. t \in Nat /\ all \in t .. all
              BY <1>4, <1>7
          <3>2. (n + all) * HBlock <= Len(d)
              BY <1>4 DEF N
          <3> DEFINE v == all
          <3>3. v \in t .. all
              BY <3>1
          <3> HIDE DEF t, v
          <3>4. /\ SubSeq(q, t * HBlock + 1, v * HBlock) = SubSeq(d, (n + t) * HBlock + 1, (n + v) * HBlock)
                /\ (n + v) * HBlock <= Len(d)
              BY <1>4, <3>1, <3>2, <3>3, SliceOfRest DEF q
          <3> QED BY <3>4 DEF v
      <2> HIDE DEF b, z, t
      <2>3. SubSeq(q, mid + 1, all * HBlock) = SubSeq(d, b * HBlock + 1, (b + z) * HBlock)
            /\ (b + z) * HBlock <= Len(d)
          BY <1>7, <2>1, <2>2, Zenon DEF b, N
      <2>4. DealBlocks(Dealt(d, b, <<>>), SubSeq(d, b * HBlock + 1, (b + z) * HBlock))
              = Dealt(d, b + z, <<>>)
          BY <2>1, <2>3, DealBlocksNext
      <2> QED BY <1>9, <2>1, <2>3, <2>4, Zenon DEF b
  <1>11. SubSeq(q, all * HBlock + 1, Len(q)) = SubSeq(d, N * HBlock + 1, Len(d))
      <2> DEFINE x == n * HBlock
                 u == all * HBlock
      <2>1. x \in Nat /\ Len(d) \in x .. Len(d) /\ u \in Nat /\ Len(q) \in u .. Len(d) - x
            /\ N * HBlock = x + u /\ x + Len(q) = Len(d)
          BY <1>0, <1>1, <1>4
      <2>2. q = SubSeq(d, x + 1, Len(d))
          BY DEF q
      <2> HIDE DEF x, u
      <2>3. SubSeq(SubSeq(d, x + 1, Len(d)), u + 1, Len(q)) = SubSeq(d, x + u + 1, x + Len(q))
          BY <2>1, SliceOfSlice
      <2> QED BY <2>1, <2>2, <2>3 DEF u
  <1> HIDE DEF s3
  <1>12. [s3 EXCEPT !.buf = SubSeq(d, N * HBlock + 1, Len(d))]
           = Dealt(d, N, SubSeq(d, N * HBlock + 1, Len(d)))
      <2> DEFINE f == [i \in LeafId |-> LeafAt(d, i, Share(N, i))]
                 r == SubSeq(d, N * HBlock + 1, Len(d))
      <2>1. s3 = [leaf |-> f, buf |-> <<>>, cur |-> N % Leaves]
          BY <1>10 DEF Dealt
      <2>2. Dealt(d, N, r) = [leaf |-> f, buf |-> r, cur |-> N % Leaves]
          BY DEF Dealt
      <2> HIDE DEF f, r
      <2>3. [s3 EXCEPT !.buf = r] = [leaf |-> f, buf |-> r, cur |-> N % Leaves]
          BY <2>1
      <2> QED BY <2>2, <2>3 DEF r
  <1>13. HashOf(d) = Dealt(d, N, SubSeq(d, N * HBlock + 1, Len(d)))
      BY <1>4, Zenon DEF HashOf
  <1> QED BY <1>3, <1>11, <1>12, <1>13, Zenon DEF s, q

(* What is dealt of c is dealt of any longer input. *)
LEMMA DealtOfLonger ==
  ASSUME NEW c \in Seq(Int), NEW p \in Seq(Int), NEW n \in Nat, n * HBlock <= Len(c), NEW rest
  PROVE  Dealt(c \o p, n, rest) = Dealt(c, n, rest)
  <1> DEFINE d == c \o p
  <1>1. ASSUME NEW i \in LeafId
        PROVE  LeafAt(d, i, Share(n, i)) = LeafAt(c, i, Share(n, i))
      <2> DEFINE m == Share(n, i)
                 cell(e, j) == [block |-> Part(e, i + (j - 1) * Leaves), t |-> j * HBlock,
                                last |-> FALSE]
      <2>1. /\ i \in Nat /\ m \in Nat
            /\ \A j \in 1 .. m : /\ i + (j - 1) * Leaves \in Nat
                                 /\ (i + (j - 1) * Leaves + 1) * HBlock <= Len(c)
          BY LeafFits
      <2> HIDE DEF m
      <2>2. \A j \in 1 .. m : Part(d, i + (j - 1) * Leaves) = Part(c, i + (j - 1) * Leaves)
          <3> SUFFICES ASSUME NEW j \in 1 .. m
                       PROVE  Part(d, i + (j - 1) * Leaves) = Part(c, i + (j - 1) * Leaves)
              OBVIOUS
          <3> DEFINE b == i + (j - 1) * Leaves
          <3>1. b \in Nat /\ (b + 1) * HBlock <= Len(c)
              BY <2>1
          <3> HIDE DEF b
          <3>2. Part(d, b) = Part(c, b)
              BY <3>1, PartOfLonger
          <3> QED BY <3>2 DEF b
      <2>3. CASE m = 0
          BY <2>3, Zenon DEF LeafAt, m
      <2>4. CASE m # 0
          <3>1. m - 1 \in Nat /\ m \in 1 .. m /\ \A j \in 1 .. m - 1 : j \in 1 .. m
              BY <2>1, <2>4
          <3>2. \A j \in 1 .. m - 1 : cell(d, j) = cell(c, j)
              BY <2>2, <3>1, Zenon
          <3>3. Part(d, i + (m - 1) * Leaves) = Part(c, i + (m - 1) * Leaves)
              BY <2>2, <3>1, Zenon
          <3>4. Full(d, i, m - 1) = [j \in 1 .. m - 1 |-> cell(d, j)]
                /\ Full(c, i, m - 1) = [j \in 1 .. m - 1 |-> cell(c, j)]
              BY Zenon DEF Full
          <3> HIDE DEF cell
          <3>5. Full(d, i, m - 1) = Full(c, i, m - 1)
              BY <3>2, <3>4, Zenon
          <3> HIDE DEF d
          <3>6. LeafAt(d, i, m) = LeafAt(c, i, m)
              BY <2>4, <3>3, <3>5, Zenon DEF LeafAt
          <3> QED BY <3>6 DEF m, d
      <2> QED BY <2>3, <2>4
  <1> HIDE DEF d
  <1>2. Dealt(d, n, rest) = Dealt(c, n, rest)
      BY <1>1, Zenon DEF Dealt
  <1> QED BY <1>2 DEF d

(* Write's first step: the incomplete block, completed if p has the bytes. *)
Fill(s, p) ==
  IF s.buf = <<>> THEN 0 ELSE IF Len(p) < HBlock - Len(s.buf) THEN Len(p) ELSE HBlock - Len(s.buf)
Completed(s, p) ==
  LET head == s.buf \o SubSeq(p, 1, Fill(s, p))
  IN IF Len(head) = HBlock THEN Deal([s EXCEPT !.buf = <<>>], head) ELSE [s EXCEPT !.buf = head]

LEMMA WriteIs ==
  ASSUME NEW s, NEW p
  PROVE  HashWrite(s, p) =
           LET q == SubSeq(p, Fill(s, p) + 1, Len(p))
               s0 == Completed(s, p)
           IN IF s0.buf # <<>> THEN s0 ELSE Dispensed(s0, q)
  BY Zenon DEF HashWrite, Fill, Completed, Dispensed

LEMMA DealtFields ==
  ASSUME NEW c, NEW n, NEW rest
  PROVE  /\ Dealt(c, n, rest).buf = rest
         /\ \A r : [Dealt(c, n, rest) EXCEPT !.buf = r] = Dealt(c, n, r)
  <1> DEFINE f == [i \in LeafId |-> LeafAt(c, i, Share(n, i))]
  <1>1. \A r : Dealt(c, n, r) = [leaf |-> f, buf |-> r, cur |-> n % Leaves]
      BY DEF Dealt
  <1> HIDE DEF f
  <1>2. Dealt(c, n, rest).buf = rest
      BY <1>1
  <1>3. \A r : [[leaf |-> f, buf |-> rest, cur |-> n % Leaves] EXCEPT !.buf = r]
                 = [leaf |-> f, buf |-> r, cur |-> n % Leaves]
      OBVIOUS
  <1>4. \A r : [Dealt(c, n, rest) EXCEPT !.buf = r] = Dealt(c, n, r)
      BY <1>1, <1>3, Zenon
  <1> QED BY <1>2, <1>4

LEMMA HashFields ==
  ASSUME NEW c \in Seq(Int)
  PROVE  LET n == Len(c) \div HBlock
             m == Len(c) % HBlock
             r == SubSeq(c, n * HBlock + 1, Len(c))
         IN /\ n \in Nat /\ n * HBlock \in Nat /\ n * HBlock <= Len(c)
            /\ m \in 0 .. HBlock - 1 /\ Len(c) = n * HBlock + m /\ Len(c) \in Nat
            /\ r \in Seq(Int) /\ Len(r) = m /\ HashOf(c) = Dealt(c, n, r)
  <1> DEFINE z == Len(c)
             n == z \div HBlock
             m == z % HBlock
             x == n * HBlock
             r == SubSeq(c, x + 1, z)
  <1>1. z \in Nat
      OBVIOUS
  <1>2. n \in Nat /\ m \in 0 .. HBlock - 1 /\ z = x + m
      <2> HIDE DEF z
      <2> QED BY <1>1, BlocksAndRest
  <1>3. x \in Nat /\ HBlock \in Nat
      <2> HIDE DEF n
      <2> QED BY <1>2, Sizes
  <1>4. HashOf(c) = Dealt(c, n, r)
      BY DEF HashOf
  <1> HIDE DEF n, m, x
  <1>5. z \in x .. Len(c) /\ x <= z /\ z - x = m
      BY <1>1, <1>2, <1>3
  <1> HIDE DEF z
  <1>6. r \in Seq(Int) /\ Len(r) = m
      <2>1. r \in Seq(Int) /\ Len(r) = z - x
          BY <1>3, <1>5, Slice
      <2> QED BY <1>5, <2>1
  <1>7. /\ n \in Nat /\ x \in Nat /\ x <= z
        /\ m \in 0 .. HBlock - 1 /\ z = x + m /\ z \in Nat
        /\ r \in Seq(Int) /\ Len(r) = m /\ HashOf(c) = Dealt(c, n, r)
      BY <1>1, <1>2, <1>3, <1>4, <1>5, <1>6
  <1> QED BY <1>7, Zenon DEF z, n, m, x

LEMMA HashWriteIs ==
  ASSUME NEW c \in Seq(Int), NEW p \in Seq(Int)
  PROVE  HashWrite(HashOf(c), p) = HashOf(c \o p)
  <1> DEFINE n == Len(c) \div HBlock
             m == Len(c) % HBlock
             x == n * HBlock
             r == SubSeq(c, x + 1, Len(c))
             d == c \o p
             s == HashOf(c)
             F == Fill(s, p)
             e == Len(c) + F
             head == s.buf \o SubSeq(p, 1, F)
             q == SubSeq(p, F + 1, Len(p))
             s0 == Completed(s, p)
  <1>0. HBlock \in Nat \ {0} /\ Len(p) \in Nat
      BY Sizes
  <1>1. /\ n \in Nat /\ x \in Nat /\ x <= Len(c)
        /\ m \in 0 .. HBlock - 1 /\ Len(c) = x + m /\ Len(c) \in Nat
        /\ r \in Seq(Int) /\ Len(r) = m /\ s = Dealt(c, n, r)
      BY HashFields
  <1> HIDE DEF n, m, s
  <1>2. /\ d \in Seq(Int) /\ Len(d) = Len(c) + Len(p)
        /\ \A u \in Nat : \A v \in u .. Len(c) : SubSeq(d, u + 1, v) = SubSeq(c, u + 1, v)
        /\ \A u \in Nat : \A v \in u .. Len(p) :
             SubSeq(d, (Len(c) + u) + 1, Len(c) + v) = SubSeq(p, u + 1, v)
      BY SliceOfLonger
  <1>3. \A y : Dealt(d, n, y) = Dealt(c, n, y)
      BY <1>1, DealtOfLonger
  <1>4. s.buf = r /\ \A y : [s EXCEPT !.buf = y] = Dealt(d, n, y)
      <2>1. Dealt(c, n, r).buf = r /\ \A y : [Dealt(c, n, r) EXCEPT !.buf = y] = Dealt(c, n, y)
          BY DealtFields
      <2> HIDE DEF d, r
      <2> QED BY <1>1, <1>3, <2>1, Zenon
  <1> HIDE DEF x, d, r
  <1>5. (r = <<>>) <=> (m = 0)
      BY <1>1, EmptySeq
  <1>6. F = IF m = 0 THEN 0 ELSE IF Len(p) < HBlock - m THEN Len(p) ELSE HBlock - m
      <2>1. CASE m = 0
          BY <1>4, <1>5, <2>1 DEF Fill
      <2>2. CASE m # 0
          <3>1. r # <<>> /\ Len(s.buf) = m
              BY <1>1, <1>4, <1>5, <2>2
          <3> QED BY <1>4, <2>2, <3>1 DEF Fill
      <2> QED BY <2>1, <2>2
  <1> HIDE DEF F
  <1>7. F \in 0 .. Len(p)
      BY <1>0, <1>1, <1>6
  <1>8. e \in Nat /\ e \in Len(c) .. Len(d) /\ e - x = m + F /\ e \in x .. Len(d)
        /\ Len(c) \in x .. Len(d) /\ Len(d) \in Nat
      BY <1>0, <1>1, <1>2, <1>7
  <1>9. SubSeq(p, 1, F) = SubSeq(d, Len(c) + 1, e)
      <2>1. SubSeq(d, (Len(c) + 0) + 1, Len(c) + F) = SubSeq(p, 0 + 1, F)
          BY <1>2, <1>7
      <2>2. (Len(c) + 0) + 1 = Len(c) + 1 /\ 0 + 1 = 1
          BY <1>1
      <2> QED BY <2>1, <2>2
  <1>10. head = SubSeq(d, x + 1, e) /\ head \in Seq(Int) /\ Len(head) = m + F
      <2>1. r = SubSeq(d, x + 1, Len(c))
          <3>1. Len(c) \in x .. Len(c)
              BY <1>1
          <3> QED BY <1>1, <1>2, <3>1 DEF r
      <2>2. head = r \o SubSeq(p, 1, F)
          BY <1>4
      <2> HIDE DEF head
      <2>3. SubSeq(d, x + 1, Len(c)) \o SubSeq(d, Len(c) + 1, e) = SubSeq(d, x + 1, e)
          <3> HIDE DEF e
          <3> QED BY <1>1, <1>2, <1>8, SlicesJoin
      <2>4. head = SubSeq(d, x + 1, e)
          BY <1>9, <2>1, <2>2, <2>3
      <2>5. SubSeq(d, x + 1, e) \in Seq(Int) /\ Len(SubSeq(d, x + 1, e)) = e - x
          <3> HIDE DEF e
          <3> QED BY <1>1, <1>2, <1>8, Slice
      <2> QED BY <1>8, <2>4, <2>5
  <1>11. q = SubSeq(d, e + 1, Len(d))
      <2>1. Len(p) \in F .. Len(p) /\ F \in Nat
          BY <1>0, <1>7
      <2>2. SubSeq(d, (Len(c) + F) + 1, Len(c) + Len(p)) = SubSeq(p, F + 1, Len(p))
          BY <1>2, <2>1
      <2> QED BY <1>2, <2>2
  <1>12. HashWrite(s, p) = IF s0.buf # <<>> THEN s0 ELSE Dispensed(s0, q)
      BY WriteIs, Zenon DEF F
  <1>13. s0 = IF Len(head) = HBlock THEN Deal([s EXCEPT !.buf = <<>>], head)
              ELSE [s EXCEPT !.buf = head]
      BY Zenon DEF Completed, F
  <1> HIDE DEF head, q, s0
  <1>14. CASE m = 0
      <2>1. F = 0 /\ head = <<>> /\ e = Len(c)
          BY <1>1, <1>6, <1>10, <1>14, EmptySeq
      <2>2. s0 = Dealt(d, n, <<>>)
          <3>1. Len(head) # HBlock
              BY <1>0, <1>10, <1>14, <2>1
          <3> QED BY <1>4, <1>13, <2>1, <3>1, Zenon
      <2>3. s0.buf = <<>>
          BY <2>2, DealtFields
      <2>4. e = x /\ x <= Len(d)
          BY <1>1, <1>8, <1>14, <2>1
      <2>5. q = SubSeq(d, n * HBlock + 1, Len(d)) /\ n * HBlock <= Len(d)
          BY <1>11, <2>4, Zenon DEF x
      <2>6. Dispensed(Dealt(d, n, <<>>), SubSeq(d, n * HBlock + 1, Len(d))) = HashOf(d)
          BY <1>1, <1>2, <2>5, DispensedIs
      <2> QED BY <1>12, <2>2, <2>3, <2>5, <2>6, Zenon DEF s, d
  <1>15. CASE m # 0 /\ Len(p) < HBlock - m
      <2>1. F = Len(p) /\ Len(head) # HBlock /\ Len(head) # 0 /\ m + F \in 0 .. HBlock - 1
          BY <1>0, <1>1, <1>6, <1>10, <1>15
      <2>2. s0 = Dealt(d, n, head)
          BY <1>4, <1>13, <2>1, Zenon
      <2>3. s0.buf # <<>>
          <3>1. s0.buf = head
              BY <2>2, DealtFields
          <3>2. head # <<>>
              BY <2>1, EmptySeq
          <3> QED BY <3>1, <3>2
      <2>4. e = Len(d)
          BY <1>2, <2>1
      <2>5. Len(d) \div HBlock = n
          <3>1. (n * HBlock + (m + F)) \div HBlock = n
              <4> DEFINE f == m + F
              <4>1. f \in 0 .. HBlock - 1
                  BY <2>1
              <4> HIDE DEF f
              <4>2. (n * HBlock + f) \div HBlock = n
                  BY <1>0, <1>1, <4>1, QuotientOf
              <4> QED BY <4>2 DEF f
          <3>2. n * HBlock + (m + F) = Len(d)
              BY <1>1, <1>8, <2>4 DEF x
          <3> QED BY <3>1, <3>2
      <2>6. HashOf(d) = Dealt(d, n, head)
          <3>1. HashOf(d) = Dealt(d, n, SubSeq(d, n * HBlock + 1, Len(d)))
              BY <2>5, Zenon DEF HashOf
          <3> QED BY <1>10, <2>4, <3>1, Zenon DEF x
      <2> QED BY <1>12, <2>2, <2>3, <2>6, Zenon DEF s, d
  <1>16. CASE m # 0 /\ ~(Len(p) < HBlock - m)
      <2>1. F = HBlock - m /\ Len(head) = HBlock
          BY <1>0, <1>1, <1>6, <1>10, <1>16
      <2>2. e = (n + 1) * HBlock
          <3>1. (n + 1) * HBlock = x + HBlock
              BY <1>0, <1>1 DEF x
          <3> QED BY <1>0, <1>1, <2>1, <3>1
      <2>3. head = Part(d, n)
          BY <1>10, <2>2, Zenon DEF Part, x
      <2>4. (n + 1) * HBlock <= Len(d) /\ n + 1 \in Nat
          BY <1>1, <1>8, <2>2
      <2>5. Deal(Dealt(d, n, <<>>), Part(d, n)) = Dealt(d, n + 1, <<>>)
          BY <1>1, <1>2, <2>4, DealNext
      <2>6. s0 = Dealt(d, n + 1, <<>>)
          BY <1>4, <1>13, <2>1, <2>3, <2>5, Zenon
      <2>7. s0.buf = <<>>
          BY <2>6, DealtFields
      <2>8. q = SubSeq(d, (n + 1) * HBlock + 1, Len(d))
          BY <1>11, <2>2, Zenon
      <2> DEFINE n1 == n + 1
      <2> HIDE DEF n1
      <2>9. Dispensed(Dealt(d, n1, <<>>), SubSeq(d, n1 * HBlock + 1, Len(d))) = HashOf(d)
          BY <1>2, <2>4, DispensedIs DEF n1
      <2> QED BY <1>12, <2>6, <2>7, <2>8, <2>9, Zenon DEF s, d, n1
  <1> QED BY <1>14, <1>15, <1>16

-----------------------------------------------------------------------------
(* The digest. *)

LEMMA InitIs == HashInit = HashOf(<<>>)
  <1>0. HBlock \in Nat \ {0} /\ Leaves \in Nat \ {0} /\ Len(<<>>) = 0
      BY Sizes
  <1>1. Len(<<>>) \div HBlock = 0 /\ 0 * HBlock + 1 = 1
      BY <1>0
  <1>2. SubSeq(<<>>, 1, 0) = <<>>
      BY SubSeqEmpty
  <1>3. 0 % Leaves = 0 /\ 0 \div Leaves = 0
      BY <1>0
  <1>4. \A i \in LeafId : Share(0, i) = 0
      BY <1>0, <1>3 DEF Share, LeafId
  <1>5. \A i \in LeafId : LeafAt(<<>>, i, Share(0, i)) = Leaf(i)
      BY <1>4 DEF LeafAt
  <1>6. HashOf(<<>>) = Dealt(<<>>, 0, <<>>)
      BY <1>0, <1>1, <1>2, Zenon DEF HashOf
  <1>7. Dealt(<<>>, 0, <<>>) = HashInit
      BY <1>3, <1>5 DEF Dealt, HashInit
  <1> QED BY <1>6, <1>7

LEMMA PaddedIs ==
  ASSUME NEW x \in Seq(Int), Len(x) <= HBlock
  PROVE  /\ Padded(x) \in Seq(Int \cup {Pad})
         /\ \A j \in 1 .. Len(x) : Padded(x)[j] = x[j]
         /\ Len(x) = HBlock => Padded(x) = x
  <1> DEFINE k == HBlock - Len(x)
             g == [j \in 1 .. k |-> Pad]
             S == Int \cup {Pad}
  <1>1. k \in Nat
      BY Sizes
  <1> HIDE DEF k
  <1>2. g \in Seq(S) /\ Len(g) = k
      BY <1>1
  <1>3. x \in Seq(S)
      <2>1. Int \subseteq S
          OBVIOUS
      <2> HIDE DEF S
      <2> QED BY <2>1, SeqMonotonic
  <1>4. Padded(x) = x \o g
      BY Zenon DEF Padded, k
  <1> HIDE DEF g, S
  <1>5. /\ x \o g \in Seq(S) /\ Len(x \o g) = Len(x) + Len(g)
        /\ \A j \in 1 .. Len(x) + Len(g) : (x \o g)[j] = IF j <= Len(x) THEN x[j] ELSE g[j - Len(x)]
      BY <1>2, <1>3, ConcatProperties
  <1>6. \A j \in 1 .. Len(x) : j \in 1 .. Len(x) + Len(g) /\ j <= Len(x)
      BY <1>1, <1>2
  <1>7. Len(x) = HBlock => x \o g = x
      <2>1. Len(x) = HBlock => k = 0
          BY Sizes DEF k
      <2>2. k = 0 => g = <<>>
          BY <1>2, EmptySeq
      <2>3. x \o <<>> = x
          OBVIOUS
      <2> QED BY <2>1, <2>2, <2>3
  <1> QED BY <1>4, <1>5, <1>6, <1>7 DEF S

LEMMA InputBlockIs ==
  ASSUME NEW c \in Seq(Int), NEW b \in Nat, b * HBlock <= Len(c)
  PROVE  /\ InputBlock(c, b) \in Seq(Int) /\ Len(InputBlock(c, b)) <= HBlock
         /\ (b + 1) * HBlock <= Len(c) => InputBlock(c, b) = Part(c, b)
         /\ Len(c) <= (b + 1) * HBlock => InputBlock(c, b) = SubSeq(c, b * HBlock + 1, Len(c))
         /\ \A i \in 1 .. Len(InputBlock(c, b)) : InputBlock(c, b)[i] = c[b * HBlock + i]
         /\ Len(InputBlock(c, b)) = IF (b + 1) * HBlock < Len(c) THEN HBlock ELSE Len(c) - b * HBlock
  <1> DEFINE x == b * HBlock
             y == (b + 1) * HBlock
             z == Len(c)
             e == IF y < z THEN y ELSE z
  <1>1. x \in Nat /\ y = x + HBlock /\ z \in Nat /\ HBlock \in Nat /\ x <= z
      BY Sizes
  <1>2. InputBlock(c, b) = SubSeq(c, x + 1, e)
      BY Zenon DEF InputBlock
  <1>3. Part(c, b) = SubSeq(c, x + 1, y)
      BY Zenon DEF Part
  <1> HIDE DEF x, y
  <1>4. e \in x .. Len(c) /\ e - x <= HBlock /\ (y <= z => e = y) /\ (z <= y => e = z)
        /\ (y < z => e - x = HBlock) /\ (~(y < z) => e - x = z - x)
      BY <1>1
  <1> HIDE DEF e
  <1>5. /\ SubSeq(c, x + 1, e) \in Seq(Int) /\ Len(SubSeq(c, x + 1, e)) = e - x
        /\ \A i \in 1 .. e - x : SubSeq(c, x + 1, e)[i] = c[x + i]
      BY <1>1, <1>4, Slice
  <1>6. /\ InputBlock(c, b) \in Seq(Int) /\ Len(InputBlock(c, b)) <= HBlock
        /\ y <= z => InputBlock(c, b) = Part(c, b)
      BY <1>2, <1>3, <1>4, <1>5
  <1>7. z <= y => InputBlock(c, b) = SubSeq(c, x + 1, z)
      BY <1>2, <1>4
  <1>8. \A i \in 1 .. Len(InputBlock(c, b)) : InputBlock(c, b)[i] = c[x + i]
      BY <1>2, <1>5
  <1>9. Len(InputBlock(c, b)) = IF y < z THEN HBlock ELSE z - x
      BY <1>2, <1>4, <1>5
  <1> QED BY <1>6, <1>7, <1>8, <1>9 DEF x, y, z

(* What leaf i compresses of c as its j-th block of own. *)
Entry(c, i, j, own) ==
  LET x == InputBlock(c, i + (j - 1) * Leaves)
  IN [block |-> Padded(x), t |-> (j - 1) * HBlock + Len(x), last |-> j = own]

LEMMA WholeEntry ==
  ASSUME NEW c \in Seq(Int), NEW i \in Nat, NEW j \in Nat \ {0}, NEW own, j # own,
         (i + (j - 1) * Leaves + 1) * HBlock <= Len(c)
  PROVE  Entry(c, i, j, own) =
           [block |-> Part(c, i + (j - 1) * Leaves), t |-> j * HBlock, last |-> FALSE]
  <1> DEFINE b == i + (j - 1) * Leaves
             x == InputBlock(c, b)
  <1>0. HBlock \in Nat /\ Leaves \in Nat /\ j - 1 \in Nat
      BY Sizes
  <1>1. b \in Nat
      <2>1. (j - 1) * Leaves \in Nat
          BY <1>0
      <2> QED BY <2>1
  <1>2. (b + 1) * HBlock <= Len(c)
      BY Zenon
  <1> HIDE DEF b
  <1>3. Part(c, b) \in Seq(Int) /\ Len(Part(c, b)) = HBlock
      BY <1>1, <1>2, PartIs
  <1>4. x = Part(c, b)
      <2>1. b * HBlock <= Len(c)
          <3>1. b * HBlock <= (b + 1) * HBlock /\ b * HBlock \in Nat /\ (b + 1) * HBlock \in Nat
              <4>1. b + 1 \in Nat /\ b <= b + 1
                  BY <1>1
              <4> QED BY <1>1, <4>1, MultipleFits
          <3>2. Len(c) \in Nat
              OBVIOUS
          <3> QED BY <1>2, <3>1, <3>2
      <2> QED BY <1>1, <1>2, <2>1, InputBlockIs
  <1>5. Padded(Part(c, b)) = Part(c, b)
      BY <1>0, <1>3, PaddedIs
  <1>6. (j - 1) * HBlock + HBlock = j * HBlock
      BY <1>0
  <1>7. Entry(c, i, j, own) = [block |-> Padded(x), t |-> (j - 1) * HBlock + Len(x), last |-> j = own]
      BY Zenon DEF Entry, b
  <1> HIDE DEF x
  <1>8. (j = own) = FALSE
      OBVIOUS
  <1> QED BY <1>3, <1>4, <1>5, <1>6, <1>7, <1>8, Zenon DEF b

(* A leaf that holds its last block sums to the digest of its blocks. *)
LEMMA LeafSumIs ==
  ASSUME NEW c \in Seq(Int), NEW i \in Nat, NEW own \in Nat \ {0},
         \A j \in 1 .. own - 1 : (i + (j - 1) * Leaves + 1) * HBlock <= Len(c),
         (i + (own - 1) * Leaves) * HBlock <= Len(c), NEW l,
         l = [node |-> i, h |-> Full(c, i, own - 1), t |-> (own - 1) * HBlock,
              buf |-> InputBlock(c, i + (own - 1) * Leaves)]
  PROVE  LeafSum(l) = [node |-> i, h |-> LeafDigest(c, i, own)]
  <1> DEFINE f == Full(c, i, own - 1)
             x == InputBlock(c, i + (own - 1) * Leaves)
             e == [block |-> Padded(x), t |-> (own - 1) * HBlock + Len(x), last |-> TRUE]
             S == Steps(c) \cup {e}
             g == [j \in 1 .. own |-> Entry(c, i, j, own)]
  <1>0. own - 1 \in Nat /\ own # 0 /\ (own - 1) + 1 = own
      OBVIOUS
  <1>1. LeafSum(l) = [node |-> i, h |-> Append(f, e)]
      BY DEF LeafSum
  <1>2. LeafDigest(c, i, own) = g
      BY <1>0, Zenon DEF LeafDigest, Entry
  <1>3. e = Entry(c, i, own, own)
      <2>1. (own = own) = TRUE
          OBVIOUS
      <2> QED BY <2>1, Zenon DEF Entry
  <1>4. /\ f \in Seq(Steps(c)) /\ Len(f) = own - 1
        /\ \A j \in 1 .. own - 1 : f[j] =
             [block |-> Part(c, i + (j - 1) * Leaves), t |-> j * HBlock, last |-> FALSE]
      <2> DEFINE m == own - 1
      <2>1. m \in Nat
          OBVIOUS
      <2> HIDE DEF m
      <2>2. /\ Full(c, i, m) \in Seq(Steps(c)) /\ Len(Full(c, i, m)) = m
            /\ \A j \in 1 .. m : Full(c, i, m)[j] =
                 [block |-> Part(c, i + (j - 1) * Leaves), t |-> j * HBlock, last |-> FALSE]
          BY <2>1, FullIs
      <2> QED BY <2>2, Zenon DEF m
  <1>5. \A j \in 1 .. own - 1 : f[j] = Entry(c, i, j, own)
      <2> SUFFICES ASSUME NEW j \in 1 .. own - 1 PROVE f[j] = Entry(c, i, j, own)
          OBVIOUS
      <2>1. j \in Nat \ {0} /\ j # own
          OBVIOUS
      <2>2. (i + (j - 1) * Leaves + 1) * HBlock <= Len(c)
          BY Zenon
      <2>3. Entry(c, i, j, own) =
              [block |-> Part(c, i + (j - 1) * Leaves), t |-> j * HBlock, last |-> FALSE]
          BY <2>1, <2>2, WholeEntry
      <2> HIDE DEF f
      <2> QED BY <1>4, <2>3, Zenon
  <1> HIDE DEF f, x, e
  <1>6. f \in Seq(S) /\ e \in S
      <2>1. Steps(c) \subseteq S /\ e \in S
          OBVIOUS
      <2> HIDE DEF S
      <2> QED BY <1>4, <2>1, SeqMonotonic
  <1> HIDE DEF S
  <1>7. /\ Append(f, e) \in Seq(S) /\ Len(Append(f, e)) = own
        /\ \A j \in 1 .. own - 1 : Append(f, e)[j] = f[j]
        /\ Append(f, e)[own] = e
      <2>1. /\ Append(f, e) \in Seq(S) /\ Len(Append(f, e)) = Len(f) + 1
            /\ \A j \in 1 .. Len(f) : Append(f, e)[j] = f[j]
            /\ Append(f, e)[Len(f) + 1] = e
          BY <1>6, AppendProperties
      <2>2. Len(f) = own - 1 /\ Len(f) + 1 = own
          BY <1>0, <1>4
      <2> QED BY <2>1, <2>2
  <1>8. \A j \in 1 .. own : Append(f, e)[j] = Entry(c, i, j, own)
      <2> SUFFICES ASSUME NEW j \in 1 .. own PROVE Append(f, e)[j] = Entry(c, i, j, own)
          OBVIOUS
      <2>1. CASE j = own
          BY <1>3, <1>7, <2>1, Zenon
      <2>2. CASE j # own
          <3>1. j \in 1 .. own - 1
              BY <2>2
          <3> QED BY <1>5, <1>7, <3>1, Zenon
      <2> QED BY <2>1, <2>2
  <1>9. Append(f, e) = [j \in 1 .. own |-> Append(f, e)[j]]
      <2>1. DOMAIN Append(f, e) = 1 .. own /\ Append(f, e) \in [1 .. own -> S]
          BY <1>7, LenProperties
      <2> QED BY <2>1
  <1>10. Append(f, e) = g
      BY <1>8, <1>9, Zenon
  <1> QED BY <1>1, <1>2, <1>10, Zenon

(* The tree once its incomplete block is dealt too. *)
Final(s) == IF s.buf = <<>> THEN s ELSE Deal(s, s.buf)

LEMMA FinalIs ==
  ASSUME NEW c \in Seq(Int), NEW i \in LeafId
  PROVE  LET own == Share((Len(c) + HBlock - 1) \div HBlock, i)
             l == Final(HashOf(c)).leaf[i]
         IN /\ own \in Nat
            /\ own = 0 => l = Leaf(i)
            /\ own # 0 =>
                 /\ \A j \in 1 .. own - 1 : (i + (j - 1) * Leaves + 1) * HBlock <= Len(c)
                 /\ (i + (own - 1) * Leaves) * HBlock <= Len(c)
                 /\ l = [node |-> i, h |-> Full(c, i, own - 1), t |-> (own - 1) * HBlock,
                         buf |-> InputBlock(c, i + (own - 1) * Leaves)]
  <1> DEFINE n == Len(c) \div HBlock
             m == Len(c) % HBlock
             x == n * HBlock
             r == SubSeq(c, x + 1, Len(c))
             s == HashOf(c)
             count == (Len(c) + HBlock - 1) \div HBlock
             own == Share(count, i)
             sh == Share(n, i)
             l == Final(s).leaf[i]
             Fit(b) == (b + 1) * HBlock <= Len(c)
  <1>0. HBlock \in Nat \ {0} /\ Leaves \in Nat \ {0} /\ i \in Nat
      BY Sizes DEF LeafId
  <1>1. /\ n \in Nat /\ x \in Nat /\ x <= Len(c)
        /\ m \in 0 .. HBlock - 1 /\ Len(c) = x + m /\ Len(c) \in Nat
        /\ r \in Seq(Int) /\ Len(r) = m /\ s = Dealt(c, n, r)
      BY HashFields
  <1> HIDE DEF n, m, s
  <1>2. count = IF m = 0 THEN n ELSE n + 1
      <2>1. CASE m = 0
          <3>1. (n * HBlock + (HBlock - 1)) \div HBlock = n
              <4>1. HBlock - 1 \in 0 .. HBlock - 1
                  BY <1>0
              <4> QED BY <1>0, <1>1, <4>1, QuotientOf
          <3>2. n * HBlock + (HBlock - 1) = Len(c) + HBlock - 1
              BY <1>0, <1>1, <2>1
          <3> QED BY <2>1, <3>1, <3>2
      <2>2. CASE m # 0
          <3> DEFINE k == m - 1
                     n1 == n + 1
          <3>1. k \in 0 .. HBlock - 1 /\ n1 \in Nat
              BY <1>0, <1>1, <2>2
          <3> HIDE DEF k, n1
          <3>2. (n1 * HBlock + k) \div HBlock = n1
              BY <1>0, <3>1, QuotientOf
          <3>3. n1 * HBlock = x + HBlock
              BY <1>0, <1>1 DEF n1
          <3>4. n1 * HBlock + k = Len(c) + HBlock - 1
              BY <1>0, <1>1, <3>3 DEF k
          <3> QED BY <2>2, <3>2, <3>4 DEF n1
      <2> QED BY <2>1, <2>2
  <1>3. /\ sh \in Nat /\ \A j \in 1 .. sh : Fit(i + (j - 1) * Leaves)
      BY <1>0, <1>1, LeafFits
  <1>4. Share(n + 1, i) = sh + (IF i = n % Leaves THEN 1 ELSE 0)
        /\ (i = n % Leaves => i + sh * Leaves = n)
      BY <1>1, ShareNext
  <1>5. s.buf = r
      <2> HIDE DEF r
      <2>1. Dealt(c, n, r).buf = r
          BY DealtFields
      <2> QED BY <1>1, <2>1
  <1>6. r = <<>> <=> m = 0
      BY <1>1, EmptySeq
  <1>7. ASSUME NEW k \in Nat, k # 0, k = sh
        PROVE  /\ \A j \in 1 .. k - 1 : Fit(i + (j - 1) * Leaves)
               /\ (i + (k - 1) * Leaves) * HBlock <= Len(c)
               /\ LeafAt(c, i, k) = [node |-> i, h |-> Full(c, i, k - 1), t |-> (k - 1) * HBlock,
                                     buf |-> InputBlock(c, i + (k - 1) * Leaves)]
      <2> DEFINE b == i + (k - 1) * Leaves
      <2>0. k - 1 \in Nat /\ k \in 1 .. k /\ \A j \in 1 .. k - 1 : j \in 1 .. k
          BY <1>7
      <2>1. b \in Nat
          <3>1. (k - 1) * Leaves \in Nat
              BY <1>0, <2>0
          <3> QED BY <1>0, <3>1
      <2>2. (b + 1) * HBlock <= Len(c)
          BY <1>3, <1>7, <2>0, Zenon
      <2>3. \A j \in 1 .. k - 1 : Fit(i + (j - 1) * Leaves)
          <3> HIDE DEF Fit
          <3> QED BY <1>3, <1>7, <2>0, Zenon
      <2>4. LeafAt(c, i, k) = [node |-> i, h |-> Full(c, i, k - 1), t |-> (k - 1) * HBlock,
                               buf |-> Part(c, b)]
          BY <1>7, Zenon DEF LeafAt
      <2> HIDE DEF b
      <2>5. b * HBlock <= Len(c)
          <3>1. b * HBlock \in Nat /\ (b + 1) * HBlock = b * HBlock + HBlock
              BY <1>0, <2>1
          <3> QED BY <1>0, <1>1, <2>2, <3>1
      <2>6. InputBlock(c, b) = Part(c, b)
          BY <2>1, <2>2, <2>5, InputBlockIs
      <2> QED BY <2>3, <2>4, <2>5, <2>6, Zenon DEF b
  <1>8. CASE m = 0
      <2>1. own = sh
          BY <1>2, <1>8
      <2>2. l = LeafAt(c, i, sh)
          <3>1. Final(s) = s
              BY <1>5, <1>6, <1>8, Zenon DEF Final
          <3>2. s.leaf[i] = LeafAt(c, i, sh)
              BY <1>1 DEF Dealt
          <3> QED BY <3>1, <3>2
      <2> HIDE DEF own, l
      <2>3. own = 0 => l = Leaf(i)
          BY <2>1, <2>2, Zenon DEF LeafAt
      <2> QED BY <1>3, <1>7, <2>1, <2>2, <2>3, Zenon DEF own, l, s
  <1>9. CASE m # 0
      <2>1. own = sh + (IF i = n % Leaves THEN 1 ELSE 0)
          BY <1>2, <1>4, <1>9
      <2>2. l = IF i = n % Leaves THEN Handed(c, n, i, r) ELSE LeafAt(c, i, sh)
          <3>1. Final(s) = Deal(s, r)
              BY <1>5, <1>6, <1>9, Zenon DEF Final
          <3>2. Deal(Dealt(c, n, r), r) = HandedTo(c, n, r, r)
              <4>1. r # <<>> /\ Len(r) <= HBlock
                  BY <1>0, <1>1, <1>6, <1>9
              <4> HIDE DEF r
              <4> QED BY <1>1, <4>1, DealTakes
          <3>3. HandedTo(c, n, r, r).leaf[i]
                  = IF i = n % Leaves THEN Handed(c, n, i, r) ELSE LeafAt(c, i, sh)
              BY DEF HandedTo
          <3> QED BY <1>1, <3>1, <3>2, <3>3, Zenon
      <2> HIDE DEF own, l
      <2>3. CASE i # n % Leaves
          <3>1. own = sh /\ l = LeafAt(c, i, sh)
              BY <1>3, <2>1, <2>2, <2>3
          <3>2. own = 0 => l = Leaf(i)
              BY <3>1, Zenon DEF LeafAt
          <3> QED BY <1>3, <1>7, <3>1, <3>2, Zenon DEF own, l, s
      <2>4. CASE i = n % Leaves
          <3>1. own = sh + 1 /\ own - 1 = sh /\ own \in Nat /\ own # 0 /\ i + sh * Leaves = n
              BY <1>3, <1>4, <2>1, <2>4
          <3>2. l = [node |-> i, h |-> Full(c, i, sh), t |-> sh * HBlock, buf |-> r]
              BY <2>2, <2>4, Zenon DEF Handed
          <3>3. InputBlock(c, n) = r
              <4>1. (n + 1) * HBlock = x + HBlock
                  BY <1>0, <1>1
              <4>2. Len(c) <= (n + 1) * HBlock
                  BY <1>0, <1>1, <4>1
              <4> QED BY <1>1, <4>2, InputBlockIs
          <3>4. \A j \in 1 .. own - 1 : Fit(i + (j - 1) * Leaves)
              BY <1>3, <3>1, Zenon
          <3>5. (i + (own - 1) * Leaves) * HBlock <= Len(c)
              BY <1>1, <3>1, Zenon DEF x
          <3>6. l = [node |-> i, h |-> Full(c, i, own - 1), t |-> (own - 1) * HBlock,
                     buf |-> InputBlock(c, i + (own - 1) * Leaves)]
              BY <3>1, <3>2, <3>3, Zenon
          <3> QED BY <3>1, <3>4, <3>5, <3>6, Zenon DEF own, l, s
      <2> QED BY <2>3, <2>4
  <1> QED BY <1>8, <1>9

(* However the input was cut into Writes, the digest is that of the whole.  *)
LEMMA HashSumIs ==
  ASSUME NEW c \in Seq(Int)
  PROVE  HashSum(HashOf(c)) = Blake2spOf(c)
  <1> DEFINE s == HashOf(c)
             count == (Len(c) + HBlock - 1) \div HBlock
             d == Final(s)
  <1>1. HashSum(s) = [i \in LeafId |-> LeafSum(d.leaf[i])]
      BY Zenon DEF HashSum, Final
  <1>2. ASSUME NEW i \in LeafId
        PROVE  LeafSum(d.leaf[i]) = [node |-> i, h |-> LeafDigest(c, i, Share(count, i))]
      <2> DEFINE own == Share(count, i)
                 l == d.leaf[i]
      <2>1. /\ own \in Nat
            /\ own = 0 => l = Leaf(i)
            /\ own # 0 =>
                 /\ \A j \in 1 .. own - 1 : (i + (j - 1) * Leaves + 1) * HBlock <= Len(c)
                 /\ (i + (own - 1) * Leaves) * HBlock <= Len(c)
                 /\ l = [node |-> i, h |-> Full(c, i, own - 1), t |-> (own - 1) * HBlock,
                         buf |-> InputBlock(c, i + (own - 1) * Leaves)]
          BY FinalIs
      <2> HIDE DEF own, l
      <2>2. CASE own = 0
          <3>1. l = [node |-> i, h |-> <<>>, t |-> 0, buf |-> <<>>]
              BY <2>1, <2>2 DEF Leaf
          <3>2. LeafSum(l) = [node |-> i, h |-> Append(<<>>, [block |-> Padded(<<>>), t |-> 0 + 0,
                                                            last |-> TRUE])]
              BY <3>1 DEF LeafSum
          <3> DEFINE e == [block |-> Padded(<<>>), t |-> 0, last |-> TRUE]
          <3>3. 0 + 0 = 0
              OBVIOUS
          <3>4. LeafDigest(c, i, own) = <<e>>
              BY <2>2, Zenon DEF LeafDigest
          <3>5. LeafSum(l) = [node |-> i, h |-> Append(<<>>, e)]
              BY <3>2, <3>3, Zenon
          <3> HIDE DEF e
          <3>6. Append(<<>>, e) = <<e>>
              OBVIOUS
          <3> QED BY <3>4, <3>5, <3>6, Zenon DEF own, l
      <2>3. CASE own # 0
          <3>1. i \in Nat /\ own \in Nat \ {0}
              BY <2>1, <2>3 DEF LeafId
          <3>2. LeafSum(l) = [node |-> i, h |-> LeafDigest(c, i, own)]
              BY <2>1, <2>3, <3>1, LeafSumIs
          <3> QED BY <3>2, Zenon DEF own, l
      <2> QED BY <2>2, <2>3
  <1>3. Blake2spOf(c) = [i \in LeafId |-> [node |-> i, h |-> LeafDigest(c, i, Share(count, i))]]
      BY Zenon DEF Blake2spOf
  <1> HIDE DEF s, d, count
  <1>4. HashSum(s) = Blake2spOf(c)
      BY <1>1, <1>2, <1>3, Zenon
  <1> QED BY <1>4 DEF s

(* The block a byte is in, and the leaf that hashes it. *)
LEMMA ByteAt ==
  ASSUME NEW z \in Nat, NEW x \in 1 .. z
  PROVE  LET b == (x - 1) \div HBlock
             k == x - b * HBlock
             i == b % Leaves
             j == b \div Leaves + 1
         IN /\ b \in Nat /\ b * HBlock < z /\ k \in 1 .. HBlock /\ b * HBlock + k = x
            /\ i \in LeafId /\ j \in 1 .. Share((z + HBlock - 1) \div HBlock, i)
            /\ b = i + (j - 1) * Leaves
  <1> DEFINE y == x - 1
             b == y \div HBlock
             m == y % HBlock
             e == b * HBlock
             i == b % Leaves
             a == b \div Leaves
             count == (z + HBlock - 1) \div HBlock
  <1>0. HBlock \in Nat \ {0} /\ Leaves \in Nat \ {0}
      BY Sizes
  <1>1. y \in Nat /\ y < z /\ y + 1 = x
      OBVIOUS
  <1> HIDE DEF y
  <1>2. b \in Nat /\ m \in 0 .. HBlock - 1 /\ y = e + m
      BY <1>1, BlocksAndRest
  <1> HIDE DEF b, m
  <1>3. e \in Nat
      BY <1>0, <1>2
  <1>4. i \in 0 .. Leaves - 1 /\ a \in Nat /\ b = a * Leaves + i
      BY <1>2, Sizes
  <1>5. count \in Nat /\ z <= count * HBlock
      <2> DEFINE u == z + HBlock - 1
                 v == u % HBlock
      <2>1. u \in Nat
          BY <1>0
      <2> HIDE DEF u
      <2>2. u \div HBlock \in Nat /\ v \in 0 .. HBlock - 1 /\ u = (u \div HBlock) * HBlock + v
          BY <2>1, BlocksAndRest
      <2>3. count = u \div HBlock
          BY DEF u
      <2> HIDE DEF v, count
      <2>4. count \in Nat /\ u = count * HBlock + v
          BY <2>2, <2>3
      <2>5. count * HBlock \in Nat
          BY <1>0, <2>4
      <2> QED BY <1>0, <2>2, <2>4, <2>5 DEF u
  <1> HIDE DEF count
  <1>6. b + 1 <= count
      <2> SUFFICES ASSUME ~(b + 1 <= count) PROVE FALSE
          OBVIOUS
      <2>1. count <= b
          BY <1>2, <1>5
      <2>2. count * HBlock <= e /\ count * HBlock \in Nat
          BY <1>2, <1>5, <2>1, MultipleFits
      <2> HIDE DEF e
      <2> QED BY <1>1, <1>2, <1>3, <1>5, <2>2
  <1> HIDE DEF i, a
  <1>7. a + 1 <= Share(count, i)
      <2> DEFINE ca == count \div Leaves
                 cr == count % Leaves
      <2>1. ca \in Nat /\ cr \in 0 .. Leaves - 1 /\ count = ca * Leaves + cr
          BY <1>5, Sizes
      <2>2. Share(count, i) = ca + (IF i < cr THEN 1 ELSE 0)
          BY DEF Share
      <2> HIDE DEF ca, cr
      <2>3. CASE a < ca
          BY <1>4, <2>1, <2>2, <2>3
      <2>4. CASE ~(a < ca)
          <3>1. ca * Leaves <= a * Leaves /\ ca * Leaves \in Nat /\ a * Leaves \in Nat
              <4>1. ca <= a
                  BY <1>4, <2>1, <2>4
              <4> QED BY <1>0, <1>4, <2>1, <4>1
          <3>2. ca = a
              <4> SUFFICES ASSUME ca < a PROVE FALSE
                  BY <1>4, <2>1, <2>4
              <4>1. (ca + 1) * Leaves <= a * Leaves /\ (ca + 1) * Leaves = ca * Leaves + Leaves
                  BY <1>0, <1>4, <2>1
              <4> QED BY <1>0, <1>2, <1>4, <1>6, <2>1, <3>1, <4>1
          <3>3. i < cr
              BY <1>2, <1>4, <1>6, <2>1, <3>1, <3>2
          <3> QED BY <1>4, <2>2, <3>2, <3>3
      <2> QED BY <2>3, <2>4
  <1>8. a + 1 \in 1 .. Share(count, i)
      <2>1. Share(count, i) \in Nat
          <3>1. i \in LeafId
              BY <1>4 DEF LeafId
          <3> QED BY <1>5, <3>1, ShareNext
      <2> QED BY <1>4, <1>7, <2>1
  <1>9. x - e \in 1 .. HBlock /\ e + (x - e) = x /\ e < z
      <2> HIDE DEF e
      <2> QED BY <1>0, <1>1, <1>2, <1>3
  <1>10. (a + 1) - 1 = a /\ i \in LeafId /\ b = i + a * Leaves
      <2>1. a * Leaves \in Nat
          BY <1>0, <1>4
      <2> QED BY <1>4, <2>1 DEF LeafId
  <1>11. b = i + ((a + 1) - 1) * Leaves
      BY <1>10
  <1> QED BY <1>2, <1>8, <1>9, <1>10, <1>11 DEF y, b, e, i, a, count

(* What verifyChecksum compares digests for: inputs of one length have one  *)
(* digest only if they are the same, compressions being collision-free.     *)
THEOREM DigestTells ==
  ASSUME NEW c \in Seq(Int), NEW d \in Seq(Int), Len(c) = Len(d), Blake2spOf(c) = Blake2spOf(d)
  PROVE  c = d
  <1> DEFINE z == Len(c)
             count == (z + HBlock - 1) \div HBlock
  <1>0. z \in Nat /\ HBlock \in Nat
      BY Sizes
  <1>1. Blake2spOf(c) = [i \in LeafId |-> [node |-> i, h |-> LeafDigest(c, i, Share(count, i))]]
      BY Zenon DEF Blake2spOf
  <1>2. Blake2spOf(d) = [i \in LeafId |-> [node |-> i, h |-> LeafDigest(d, i, Share(count, i))]]
      <2>1. Blake2spOf(d) = [i \in LeafId |-> [node |-> i, h |->
              LeafDigest(d, i, Share((Len(d) + HBlock - 1) \div HBlock, i))]]
          BY Zenon DEF Blake2spOf
      <2> QED BY <2>1, Zenon
  <1> HIDE DEF count
  <1>3. \A i \in LeafId : LeafDigest(c, i, Share(count, i)) = LeafDigest(d, i, Share(count, i))
      <2> SUFFICES ASSUME NEW i \in LeafId
                   PROVE  LeafDigest(c, i, Share(count, i)) = LeafDigest(d, i, Share(count, i))
          OBVIOUS
      <2>1. [node |-> i, h |-> LeafDigest(c, i, Share(count, i))]
              = [node |-> i, h |-> LeafDigest(d, i, Share(count, i))]
          <3>1. Blake2spOf(c)[i] = Blake2spOf(d)[i]
              BY Zenon
          <3>2. Blake2spOf(c)[i] = [node |-> i, h |-> LeafDigest(c, i, Share(count, i))]
              BY <1>1
          <3>3. Blake2spOf(d)[i] = [node |-> i, h |-> LeafDigest(d, i, Share(count, i))]
              BY <1>2
          <3> QED BY <3>1, <3>2, <3>3, Zenon
      <2> QED BY <2>1
  <1>4. ASSUME NEW x \in 1 .. z
        PROVE  c[x] = d[x]
      <2> DEFINE b == (x - 1) \div HBlock
                 k == x - b * HBlock
                 i == b % Leaves
                 j == b \div Leaves + 1
                 own == Share(count, i)
                 C == InputBlock(c, b)
                 D == InputBlock(d, b)
      <2>1. /\ b \in Nat /\ b * HBlock < z /\ k \in 1 .. HBlock /\ b * HBlock + k = x
            /\ i \in LeafId /\ j \in 1 .. own /\ b = i + (j - 1) * Leaves
          <3> HIDE DEF z
          <3> QED BY <1>0, ByteAt DEF count
      <2> HIDE DEF b, k, i, j, own
      <2>2. \A e : own # 0 => LeafDigest(e, i, own)[j] = Entry(e, i, j, own)
          <3> TAKE e
          <3>1. own # 0 => LeafDigest(e, i, own) = [v \in 1 .. own |-> Entry(e, i, v, own)]
              BY Zenon DEF LeafDigest, Entry
          <3> QED BY <2>1, <3>1
      <2>3. own # 0
          BY <2>1
      <2>4. LeafDigest(c, i, own) = LeafDigest(d, i, own)
          BY <1>3, <2>1, Zenon DEF own
      <2>5. Entry(c, i, j, own) = Entry(d, i, j, own)
          BY <2>2, <2>3, <2>4, Zenon
      <2>6. Entry(c, i, j, own).block = Padded(C) /\ Entry(d, i, j, own).block = Padded(D)
          <3>1. InputBlock(c, i + (j - 1) * Leaves) = C /\ InputBlock(d, i + (j - 1) * Leaves) = D
              BY <2>1, Zenon
          <3> HIDE DEF C, D
          <3> QED BY <3>1 DEF Entry
      <2> HIDE DEF C, D
      <2>7. Padded(C) = Padded(D)
          BY <2>5, <2>6
      <2>8. b * HBlock <= Len(c) /\ b * HBlock <= Len(d) /\ b * HBlock \in Nat
          BY <1>0, <2>1
      <2>9. /\ C \in Seq(Int) /\ Len(C) <= HBlock
            /\ \A v \in 1 .. Len(C) : C[v] = c[b * HBlock + v]
            /\ Len(C) = IF (b + 1) * HBlock < Len(c) THEN HBlock ELSE Len(c) - b * HBlock
          BY <2>1, <2>8, InputBlockIs DEF C
      <2>10. /\ D \in Seq(Int) /\ Len(D) <= HBlock
             /\ \A v \in 1 .. Len(D) : D[v] = d[b * HBlock + v]
             /\ Len(D) = IF (b + 1) * HBlock < Len(d) THEN HBlock ELSE Len(d) - b * HBlock
          BY <2>1, <2>8, InputBlockIs DEF D
      <2>11. Len(C) = Len(D)
          BY <2>9, <2>10
      <2>12. k \in 1 .. Len(C)
          <3> DEFINE u == b * HBlock
          <3>1. u + k = x /\ k \in 1 .. HBlock /\ x <= Len(c) /\ u \in Nat
                /\ (Len(C) = HBlock \/ Len(C) = Len(c) - u)
              BY <2>1, <2>8, <2>9
          <3> HIDE DEF u
          <3> QED BY <1>0, <3>1
      <2>13. Padded(C)[k] = C[k] /\ Padded(D)[k] = D[k]
          BY <2>9, <2>10, <2>11, <2>12, PaddedIs
      <2>14. C[k] = D[k]
          BY <2>7, <2>13
      <2>15. C[k] = c[x] /\ D[k] = d[x]
          BY <2>1, <2>9, <2>10, <2>11, <2>12
      <2> QED BY <2>14, <2>15
  <1> QED BY <1>4, SeqEqual

-----------------------------------------------------------------------------
(* blake2sp.Write and blake2sp.sum: however an input is cut into Writes,    *)
(* through the one-block path, the striding path or the held buffer, the    *)
(* digest is that of the input as a whole.                                  *)
THEOREM AnyWritesOneDigest ==
  ASSUME NEW n \in Nat, NEW p \in [1 .. n -> Seq(Int)], NEW input, NEW state,
         input[0] = <<>>, state[0] = HashInit,
         \A k \in 1 .. n : /\ input[k] = input[k - 1] \o p[k]
                           /\ state[k] = HashWrite(state[k - 1], p[k])
  PROVE  HashSum(state[n]) = Blake2spOf(input[n])
  <1> DEFINE Good(k) == input[k] \in Seq(Int) /\ state[k] = HashOf(input[k])
             Bad == {k \in 0 .. n : ~Good(k)}
  <1>1. Good(0)
      BY InitIs
  <1>2. \A k \in 1 .. n : Good(k - 1) => Good(k)
      <2> SUFFICES ASSUME NEW k \in 1 .. n, Good(k - 1) PROVE Good(k)
          OBVIOUS
      <2> DEFINE c == input[k - 1]
      <2>1. c \in Seq(Int) /\ p[k] \in Seq(Int) /\ state[k - 1] = HashOf(c)
          OBVIOUS
      <2>2. input[k] = c \o p[k] /\ state[k] = HashWrite(state[k - 1], p[k])
          OBVIOUS
      <2> HIDE DEF c
      <2>3. c \o p[k] \in Seq(Int)
          BY <2>1, ConcatProperties
      <2>4. HashWrite(HashOf(c), p[k]) = HashOf(c \o p[k])
          BY <2>1, HashWriteIs
      <2> QED BY <2>1, <2>2, <2>3, <2>4, Zenon
  <1> HIDE DEF Good
  <1>3. Bad = {}
      <2> SUFFICES ASSUME Bad # {} PROVE FALSE
          OBVIOUS
      <2>1. Bad \subseteq Nat
          OBVIOUS
      <2>2. PICK k \in Bad : \A y \in Bad : k <= y
          BY <2>1, Least, Zenon
      <2>3. k \in 1 .. n /\ k - 1 \in 0 .. n /\ ~Good(k)
          BY <1>1, <2>2
      <2>4. k - 1 \notin Bad
          BY <2>2, <2>3
      <2>5. Good(k - 1)
          BY <2>3, <2>4
      <2> QED BY <1>2, <2>3, <2>5
  <1>4. Good(n)
      BY <1>3
  <1> QED BY <1>4, HashSumIs, Zenon DEF Good

=============================================================================
