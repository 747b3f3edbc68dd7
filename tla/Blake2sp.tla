------------------------------ MODULE Blake2sp ------------------------------
(***************************************************************************)
(* BLAKE2sp as blake2sp.go computes it while a member streams through: the *)
(* input arrives in Writes of any length, is dealt to the leaves in blocks *)
(* round-robin, and each leaf holds its last block back because only the   *)
(* end of the input tells which block is the last. Whole strides take a    *)
(* second path, the vector kernel's.                                       *)
(*                                                                         *)
(* The compression function is left uninterpreted and collision-free: a    *)
(* hash is the list of what was compressed into it, each block with its    *)
(* byte counter and flags. Two inputs then have one digest only if the     *)
(* code compressed the same blocks the same way.                           *)
(***************************************************************************)
EXTENDS Naturals, Sequences, SequencesExt

CONSTANTS
  Leaves,   (* blake2spLeaves, 8 in the code *)
  HBlock    (* blake2sBlockSize, 64 in the code *)

ASSUME HashAssumption == Leaves \in Nat \ {0} /\ HBlock \in Nat \ {0}

Stride == Leaves * HBlock
LeafId == 0 .. Leaves - 1
Pad == "pad"

-----------------------------------------------------------------------------
(* One BLAKE2s hasher: what it compressed, its counter, the bytes it holds. *)

Leaf(i) == [node |-> i, h |-> <<>>, t |-> 0, buf |-> <<>>]

(* The blocks of p, and their compression, none of them the last: the       *)
(* counter t advances by a block each.                                      *)
Blocks(p) == [j \in 1 .. Len(p) \div HBlock |-> SubSeq(p, (j - 1) * HBlock + 1, j * HBlock)]
Compressed(blocks, t) ==
  [j \in 1 .. Len(blocks) |-> [block |-> blocks[j], t |-> t + j * HBlock, last |-> FALSE]]

(* blake2s.write: a full buffer is compressed only when more input comes. *)
LeafWrite(l, p) ==
  LET all == l.buf \o p
      k == IF p = <<>> THEN 0 ELSE (Len(all) - 1) \div HBlock
  IN [l EXCEPT !.h = @ \o Compressed(Blocks(SubSeq(all, 1, k * HBlock)), l.t),
               !.t = @ + k * HBlock,
               !.buf = SubSeq(all, k * HBlock + 1, Len(all))]

(* blake2s.sum: the held bytes, padded, with the finalisation flags. *)
Padded(x) == x \o [j \in 1 .. HBlock - Len(x) |-> Pad]
LeafSum(l) ==
  [node |-> l.node,
   h |-> Append(l.h, [block |-> Padded(l.buf), t |-> l.t + Len(l.buf), last |-> TRUE])]

-----------------------------------------------------------------------------
(* The tree: the leaves, a block not yet dealt, and whose block it is. *)

HashInit == [leaf |-> [i \in LeafId |-> Leaf(i)], buf |-> <<>>, cur |-> 0]

Deal(s, block) ==
  [s EXCEPT !.leaf[s.cur] = LeafWrite(@, block), !.cur = (@ + 1) % Leaves]

(* dealStrides: p is whole strides and leaf 0 is next. Leaf i takes its     *)
(* block of every stride and keeps the last; the blocks held back before    *)
(* are compressed first. Leaf 0 speaks for all of them: its counter and     *)
(* whether there is a held block are taken for every leaf.                  *)
LaneBlocks(p, i) ==
  [j \in 1 .. Len(p) \div Stride |->
     SubSeq(p, (j - 1) * Stride + i * HBlock + 1, (j - 1) * Stride + (i + 1) * HBlock)]

DropsHeldBlocks(s, p) ==
  LET t == s.leaf[0].t
      given(i) ==
        LET l == s.leaf[i]
            done == Front(LaneBlocks(p, i))
        IN [l EXCEPT !.h = l.h \o Compressed(done, t), !.t = t + Len(done) * HBlock,
                     !.buf = Last(LaneBlocks(p, i))]
  IN [s EXCEPT !.leaf = [i \in LeafId |-> given(i)]]
DealStrides(s, p) ==
  LET held == Len(s.leaf[0].buf) = HBlock
      t == s.leaf[0].t
      given(i) ==
        LET l == s.leaf[i]
            done == (IF held THEN <<l.buf>> ELSE <<>>) \o Front(LaneBlocks(p, i))
        IN [l EXCEPT !.h = l.h \o Compressed(done, t), !.t = t + Len(done) * HBlock,
                     !.buf = Last(LaneBlocks(p, i))]
  IN [s EXCEPT !.leaf = [i \in LeafId |-> given(i)]]

(* The whole blocks of p, dealt one by one. *)
DealBlocks(s, p) ==
  LET count == Len(p) \div HBlock
      dealt[n \in 0 .. count] == IF n = 0 THEN s ELSE Deal(dealt[n - 1], Blocks(p)[n])
  IN dealt[count]

(* blake2sp.Write: complete the block in the buffer; then deal, by strides  *)
(* as soon as leaf 0 is next and a whole stride is there; keep the rest.    *)
HashWrite(s, p) ==
  LET fill == IF s.buf = <<>> THEN 0 ELSE IF Len(p) < HBlock - Len(s.buf)
                                     THEN Len(p) ELSE HBlock - Len(s.buf)
      head == s.buf \o SubSeq(p, 1, fill)
      q == SubSeq(p, fill + 1, Len(p))
      s0 == IF Len(head) = HBlock THEN Deal([s EXCEPT !.buf = <<>>], head)
                                  ELSE [s EXCEPT !.buf = head]
      all == Len(q) \div HBlock
      toLeaf0 == (Leaves - s0.cur) % Leaves
      a == IF toLeaf0 < all THEN toLeaf0 ELSE all
      k == (all - a) \div Leaves
      mid == a * HBlock + k * Stride
      s1 == DealBlocks(s0, SubSeq(q, 1, a * HBlock))
      s2 == IF k = 0 THEN s1 ELSE DealStrides(s1, SubSeq(q, a * HBlock + 1, mid))
      s3 == DealBlocks(s2, SubSeq(q, mid + 1, all * HBlock))
  IN IF s0.buf # <<>> THEN s0
     ELSE [s3 EXCEPT !.buf = SubSeq(q, all * HBlock + 1, Len(q))]

(* blake2sp.sum: the root hashes the leaves' digests, in order. *)
HashSum(s) ==
  LET d == IF s.buf = <<>> THEN s ELSE Deal(s, s.buf)
  IN [i \in LeafId |-> LeafSum(d.leaf[i])]

-----------------------------------------------------------------------------
(* What BLAKE2sp is, of a whole input at once: leaf i hashes blocks i,      *)
(* i + Leaves, i + 2 * Leaves, ... of the input. Share is how many of count *)
(* blocks that makes, LeafDigest what it compresses of own blocks.          *)
Share(count, i) == count \div Leaves + (IF i < count % Leaves THEN 1 ELSE 0)

InputBlock(c, b) ==
  SubSeq(c, b * HBlock + 1, IF (b + 1) * HBlock < Len(c) THEN (b + 1) * HBlock ELSE Len(c))
LeafDigest(c, i, own) ==
  IF own = 0 THEN <<[block |-> Padded(<<>>), t |-> 0, last |-> TRUE]>>
  ELSE [j \in 1 .. own |->
         LET x == InputBlock(c, i + (j - 1) * Leaves)
         IN [block |-> Padded(x), t |-> (j - 1) * HBlock + Len(x), last |-> j = own]]

Blake2spOf(c) ==
  LET count == (Len(c) + HBlock - 1) \div HBlock
  IN [i \in LeafId |-> [node |-> i, h |-> LeafDigest(c, i, Share(count, i))]]
=============================================================================
