---------------------------- MODULE SerialDecode ----------------------------
(***************************************************************************)
(* What the RAR5 decoder promises, whichever way it is run: the symbols of *)
(* a member's blocks reach the window one block at a time, in stream       *)
(* order, each exactly once, decoded from that block's own payload and     *)
(* with the Huffman tables in force there; an error or the end of the      *)
(* member is reported only after everything before it was written.         *)
(*                                                                         *)
(* This is decoder50.fill's serial loop, without its bit reader.           *)
(***************************************************************************)
EXTENDS Naturals

CONSTANT MaxBlock  (* bound: blocks read from all the member streams *)

(* A block is good, is cut inside a symbol, or holds an invalid one. *)
BlockKind == {"ok", "cut", "bad"}

(* Every good block has two symbols; a damaged one has one before the fault. *)
Symbols(kind) == IF kind = "ok" THEN 2 ELSE 1

VARIABLES
  out,      (* the last symbol written: its block's payload, its index,     *)
            (* the block's header facts, and the tables it was read with    *)
  verdict   (* what fill last reported; "none" while it makes progress      *)

Symbol == [pay: 0 .. MaxBlock, sym: 0 .. 2, kind: BlockKind,
           last: {"yes", "no"}, tabs: {"yes", "no"}, ver: 0 .. MaxBlock]

(* Every symbol of the block in progress has been written. *)
BlockWritten == out.sym >= Symbols(out.kind)

SInit ==
  /\ out = [pay |-> 0, sym |-> 2, kind |-> "ok", last |-> "no",
            tabs |-> "no", ver |-> 0]
  /\ verdict = "severed"

(* A new member: its first block comes after everything read so far. The    *)
(* tables a cleanly finished member leaves are the ones its successor       *)
(* starts with; after any other ending they are unspecified.                *)
SStart ==
  /\ verdict' = "none"
  /\ \E b \in out.pay .. MaxBlock, v \in 0 .. MaxBlock :
       /\ verdict = "eof" => v = out.ver
       /\ out' = [pay |-> b, sym |-> 2, kind |-> "ok", last |-> "no",
                  tabs |-> "no", ver |-> v]

SContinueBlock ==
  /\ verdict = "none" /\ ~BlockWritten
  /\ out' = [out EXCEPT !.sym = @ + 1]
  /\ UNCHANGED verdict

SNextBlock ==
  /\ verdict = "none" /\ BlockWritten /\ out.last = "no" /\ out.kind # "bad"
  /\ out.pay < MaxBlock
  /\ \E k \in BlockKind, l, t \in {"yes", "no"} :
       out' = [pay |-> out.pay + 1, sym |-> 1, kind |-> k, last |-> l, tabs |-> t,
               ver |-> IF t = "yes" THEN out.pay + 1 ELSE out.ver]
  /\ UNCHANGED verdict

(* fill returned something other than nil. *)
SReport ==
  /\ verdict = "none"
  /\ \/ verdict' = "eof" /\ BlockWritten /\ out.last = "yes" /\ out.kind # "bad"
     \/ verdict' = "cut" /\ BlockWritten /\ out.kind = "cut"
     \/ verdict' = "bad" /\ BlockWritten /\ out.kind = "bad"
     \/ verdict' = "read" /\ BlockWritten /\ out.last = "no" /\ out.kind # "bad"
     \/ verdict' = "closed"
  /\ UNCHANGED out

(* The caller reads on: decoder50.Read hides the end and a cut symbol while *)
(* the window still has bytes.                                              *)
SReadOn ==
  /\ verdict \in {"eof", "cut"} /\ verdict' = "none"
  /\ UNCHANGED out

(* The member is abandoned. *)
SSever == verdict' = "severed" /\ UNCHANGED out

SNext == SStart \/ SContinueBlock \/ SNextBlock \/ SReport \/ SReadOn \/ SSever

SSpec == SInit /\ [][SNext]_<<out, verdict>>
=============================================================================
