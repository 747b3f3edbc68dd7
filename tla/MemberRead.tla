----------------------------- MODULE MemberRead -----------------------------
(***************************************************************************)
(* One member being read: Entry.Read and Entry.Close over the chain        *)
(* buildChain assembles for a stored member, the optional BLAKE2sp hasher, *)
(* the optional CBC decryption, and the splice over the member's parts.    *)
(*                                                                         *)
(* The streams below answer as io.Reader lets them: in pieces of any size, *)
(* with an error beside bytes, ending early. Another goroutine may close   *)
(* the Reader at any moment. The header in force changes under the member  *)
(* at every volume boundary, and the one in force at the end decides what  *)
(* is compared.                                                            *)
(*                                                                         *)
(* A byte is its position in the member; Garbage is a byte that is not     *)
(* what was archived. Digests are collision-free.                          *)
(***************************************************************************)
EXTENDS Blake2sp, FiniteSetsExt

CONSTANTS
  CBlock,     (* the cipher's block, 16 bytes in the code *)
  InCap,      (* len(inBuf), 4096 in the code *)
  PlainSizes, (* bound: UnpackedSize of members that are not encrypted *)
  CryptSizes, (* bound: UnpackedSize of encrypted members *)
  Payloads,   (* bound: packed sizes of one part *)
  MaxParts,   (* bound: parts of the member *)
  Requests,   (* bound: lengths of the buffer a Read is given *)
  CopyBuf,    (* bound: the length of io.Copy's buffer *)
  Damaged     (* bound: packed positions that may be damaged *)

ASSUME ReadAssumption ==
  /\ CBlock \in Nat \ {0} /\ InCap \in Nat \ {0} /\ InCap % CBlock = 0
  /\ PlainSizes \subseteq Nat /\ CryptSizes \subseteq Nat
  /\ Payloads \subseteq Nat /\ MaxParts \in Nat \ {0}
  /\ Requests \subseteq Nat /\ CopyBuf \in Nat \ {0} /\ Damaged \subseteq Nat \ {0}

VARIABLES
  member,    (* what does not change: kind, size, encrypted, right password *)
  cur,       (* e.cur, the header in force *)
  part,      (* the part being read: its number, payload bytes left *)
  pos,       (* packed bytes the streams have answered with *)
  bad,       (* the packed position that is damaged, 0 while none is *)
  cbc,       (* the cbcDecryptReader *)
  hash,      (* hashedSource's hasher; HashInit where there is none *)
  crc,       (* e.crc: the bytes it has run over *)
  remaining, (* e.remaining *)
  done,      (* e.done *)
  pc,        (* the reading goroutine: idle, enter, src or ret *)
  req,       (* len(p) *)
  answer,    (* what e.src.Read returned: bytes and error *)
  draining,  (* Entry.Close's io.Copy is reading *)
  cancelled, (* the archive's done channel is closed *)
  out,       (* what the caller, or io.Copy, has received *)
  ghost      (* history variables, read by no action *)

vars == <<member, cur, part, pos, bad, cbc, hash, crc, remaining, done, pc,
          req, answer, draining, cancelled, out, ghost>>

Garbage == 0
Plain == [i \in 1 .. member.size |-> i]

(* What a header records of a digest: nothing, a value over the whole       *)
(* member, a value that is not that, the value over one part's packed bytes *)
(* that parts before the last carry, or a key-derived MAC (UseMac).         *)
Headers(enc) ==
  {h \in [last: BOOLEAN, mac: BOOLEAN, crc: {"none", "whole", "wrong", "packed", "mac"},
          blake: {"none", "whole", "wrong", "packed", "mac"}] :
     /\ h.mac => enc
     /\ \A d \in {h.crc, h.blake} \ {"none"} :
          d \in IF h.mac THEN {"mac"} ELSE IF h.last THEN {"whole", "wrong"} ELSE {"packed"}}

(* setSource: the FIRST header decides whether the bytes are hashed. *)
Hashed(fh, enc) == fh.blake # "none" /\ ~enc /\ ~fh.mac

(* io.EOF is success. "cut" is io.ErrUnexpectedEOF, "io" whatever a stream  *)
(* failed with, "archive" what the search for the next part failed with.    *)
Verdict == {"eof", "truncated", "corrupt", "unsupported", "mismatch", "closed",
            "io", "cut", "archive", "refused"}
Error == {"nil", "eof", "closed", "io", "cut", "archive"}
NoAnswer == [b |-> <<>>, err |-> "nil"]

(* newEntry, linkEntry, terminalEntry. *)
Init ==
  /\ \/ \E enc \in BOOLEAN :
          /\ member \in [kind: {"file"}, size: IF enc THEN CryptSizes ELSE PlainSizes,
                         enc: {enc}, key: IF enc THEN BOOLEAN ELSE {TRUE},
                         hashed: BOOLEAN]
          /\ cur \in Headers(enc) /\ member.hashed = Hashed(cur, enc)
     \/ /\ member \in [kind: {"link", "refused"}, size: {0}, enc: {FALSE}, key: {TRUE},
                       hashed: {FALSE}]
        /\ cur \in [last: BOOLEAN, mac: {FALSE}, crc: {"none"}, blake: {"none"}]
  /\ part \in [n: {1}, left: Payloads]
  /\ remaining = member.size
  /\ done = IF member.kind = "refused" THEN "refused" ELSE "none"
  /\ pos = 0 /\ bad = 0
  /\ cbc = [in |-> <<>>, out |-> <<>>, iv |-> [i \in 1 .. CBlock |-> i - CBlock], err |-> "nil"]
  /\ hash = HashInit /\ crc = <<>> /\ out = <<>>
  /\ pc = "idle" /\ req = 0 /\ answer = NoAnswer /\ draining = FALSE
  /\ cancelled = FALSE
  /\ ghost = [limit |-> 0, fault |-> "nil"]

-----------------------------------------------------------------------------
(* The verdict. *)

short(rem) == rem > 0

(* verifyChecksum, of the header in force. *)
Uncheckable ==
  \/ cur.mac
  \/ cur.blake # "none" /\ ~member.hashed
  \/ cur.crc = "none" /\ cur.blake = "none"

Mismatch(sum, hs) ==
  \/ cur.crc # "none" /\ ~(cur.crc = "whole" /\ sum = Plain)
  \/ cur.blake # "none" /\ ~(cur.blake = "whole" /\ HashSum(hs) = Blake2spOf(Plain))

verifyChecksum(rem, sum, hs) ==
  IF short(rem) THEN "truncated"
  ELSE IF ~cur.last THEN "corrupt"
  ELSE IF member.size = 0 THEN "nil"
  ELSE IF Uncheckable THEN "unsupported"
  ELSE IF Mismatch(sum, hs) THEN "mismatch"
  ELSE "nil"

(* finish: the first verdict stays; an error of a short member of a closed  *)
(* Reader is the closing's; no error means the checksum decides. The        *)
(* mutant calls a whole member cancelled too.                               *)
finishAsClosed(err, rem, sum, hs) ==
  LET e == IF err # "nil" /\ cancelled THEN "closed" ELSE err
      v == IF e = "nil" THEN verifyChecksum(rem, sum, hs) ELSE e
  IN IF done # "none" THEN done ELSE IF v = "nil" THEN "eof" ELSE v
finish(err, rem, sum, hs) ==
  LET e == IF err # "nil" /\ short(rem) /\ cancelled THEN "closed" ELSE err
      v == IF e = "nil" THEN verifyChecksum(rem, sum, hs) ELSE e
  IN IF done # "none" THEN done ELSE IF v = "nil" THEN "eof" ELSE v

(* Read returns. io.Copy reads again until it is given an error. *)
CopyNeverStops == pc' = IF draining THEN "enter" ELSE "idle"
Returns == pc' = IF draining /\ done' = "none" THEN "enter" ELSE "idle"

-----------------------------------------------------------------------------
(* The caller's calls, and the other goroutine's. *)

Read ==
  /\ pc = "idle"
  /\ \E n \in Requests : req' = n
  /\ pc' = "enter" /\ draining' = FALSE /\ answer' = NoAnswer
  /\ UNCHANGED <<member, cur, part, pos, bad, cbc, hash, crc, remaining, done,
                 cancelled, out, ghost>>

(* Entry.Close: what is left is read, and discarded, for the verdict. A     *)
(* link has no source to read.                                              *)
Close ==
  /\ pc = "idle"
  /\ IF done # "none" \/ member.kind = "link"
     THEN /\ done' = finish("nil", remaining, crc, hash)
          /\ UNCHANGED <<pc, req, draining, answer>>
     ELSE /\ pc' = "enter" /\ req' = CopyBuf /\ draining' = TRUE /\ answer' = NoAnswer
          /\ UNCHANGED done
  /\ UNCHANGED <<member, cur, part, pos, bad, cbc, hash, crc, remaining,
                 cancelled, out, ghost>>

(* Reader.Close, as far as a member sees it. A Read already past its        *)
(* entrance may still deliver.                                              *)
ReaderClose ==
  /\ ~cancelled /\ cancelled' = TRUE
  /\ ghost' = [ghost EXCEPT !.limit =
       Len(out) + CASE pc = "src" -> req
                    [] pc = "ret" -> Len(answer.b)
                    [] OTHER -> 0]
  /\ UNCHANGED <<member, cur, part, pos, bad, cbc, hash, crc, remaining, done,
                 pc, req, answer, draining, out>>

-----------------------------------------------------------------------------
(* Entry.Read, before and after e.src.Read. *)

(* Read's entrance, in its order: a verdict, a link, nothing left to        *)
(* produce, a closed Reader, an empty buffer. "go" is none of them.         *)
NoCancelGuard ==
  IF done # "none" THEN done
  ELSE IF member.kind = "link" THEN "link"
  ELSE IF remaining = 0 THEN finish("nil", remaining, crc, hash)
  ELSE IF req = 0 THEN "nil" ELSE "go"
EntranceGuard ==
  IF done # "none" THEN done
  ELSE IF member.kind = "link" THEN "link"
  ELSE IF remaining = 0 THEN finish("nil", remaining, crc, hash)
  ELSE IF cancelled THEN finish("closed", remaining, crc, hash)
  ELSE IF req = 0 THEN "nil" ELSE "go"

(* The buffer never takes more than is owed. *)
Clamp(n) == Min({n, remaining})

Entrance ==
  /\ pc = "enter"
  /\ LET g == EntranceGuard
     IN IF g = "go" THEN pc' = "src" /\ req' = Clamp(req) /\ UNCHANGED done
        ELSE done' = (IF g \in Verdict THEN g ELSE done) /\ Returns /\ UNCHANGED req
  /\ UNCHANGED <<member, cur, part, pos, bad, cbc, hash, crc, remaining,
                 answer, draining, cancelled, out, ghost>>

(* The checksum and the budget, then the switch on what came back. *)
Exit ==
  /\ pc = "ret"
  /\ LET rem == remaining - Len(answer.b)
         sum == crc \o answer.b
         hs == IF member.hashed THEN HashWrite(hash, answer.b) ELSE hash
         err == CASE answer.err = "eof" /\ short(rem) -> "truncated"
                  [] answer.err = "eof" /\ ~short(rem) -> "nil"
                  [] OTHER -> answer.err
     IN /\ remaining' = rem /\ crc' = sum /\ hash' = hs
        /\ done' = IF answer.err = "nil" /\ short(rem) THEN done
                   ELSE finish(err, rem, sum, hs)
  /\ out' = out \o answer.b
  /\ answer' = NoAnswer /\ req' = IF draining THEN CopyBuf ELSE 0
  /\ Returns
  /\ UNCHANGED <<member, cur, part, pos, bad, cbc, draining, cancelled, ghost>>

-----------------------------------------------------------------------------
(* cbcDecryptReader.Read. *)

AnswerIs(b, e) == pc' = "ret" /\ answer' = [b |-> b, err |-> e]

(* CryptBlocks: a byte comes out right if its block is one of the member's, *)
(* whole and on its boundary, and the byte a block earlier is the one that  *)
(* was there when the block was made.                                       *)
CryptBlocks(iv, c) ==
  [i \in 1 .. Len(c) |->
     LET start == ((i - 1) \div CBlock) * CBlock + 1
         whole == c[start] % CBlock = 1 % CBlock /\ c[start] # Garbage
                  /\ \A o \in 0 .. CBlock - 1 : c[start + o] = c[start] + o
         prev == IF i <= CBlock THEN iv[i] ELSE c[i - CBlock]
     IN IF member.key /\ whole /\ prev = c[i] - CBlock THEN c[i] ELSE Garbage]

Take(s, n) == SubSeq(s, 1, Min({n, Len(s)}))
Rest(s, n) == SubSeq(s, Min({n, Len(s)}) + 1, Len(s))

CBCServe ==
  /\ pc = "src" /\ member.enc /\ cbc.out # <<>>
  /\ AnswerIs(Take(cbc.out, req), "nil")
  /\ cbc' = [cbc EXCEPT !.out = Rest(@, req)]
  /\ UNCHANGED <<member, cur, part, pos, bad, hash, crc, remaining, done, req,
                 draining, cancelled, out, ghost>>

(* Whole blocks are decrypted, the tail is carried into the next call. *)
TailDropped(whole) == <<>>
Carried(whole) == Rest(cbc.in, whole)

CBCDecrypt ==
  /\ pc = "src" /\ member.enc /\ cbc.out = <<>> /\ Len(cbc.in) >= CBlock
  /\ LET whole == (Len(cbc.in) \div CBlock) * CBlock
         plain == CryptBlocks(cbc.iv, Take(cbc.in, whole))
     IN /\ cbc' = [cbc EXCEPT !.in = Carried(whole), !.out = Rest(plain, req),
                              !.iv = SubSeq(cbc.in, whole - CBlock + 1, whole)]
        /\ AnswerIs(Take(plain, req), "nil")
  /\ UNCHANGED <<member, cur, part, pos, bad, hash, crc, remaining, done, req,
                 draining, cancelled, out, ghost>>

(* The stream is over: with part of a block in hand it was cut. *)
CBCEnds ==
  /\ pc = "src" /\ member.enc /\ cbc.out = <<>> /\ Len(cbc.in) < CBlock
  /\ cbc.err # "nil"
  /\ cbc' = [cbc EXCEPT !.in = <<>>, !.err = IF cbc.in = <<>> THEN @ ELSE "cut"]
  /\ AnswerIs(<<>>, cbc'.err)
  /\ UNCHANGED <<member, cur, part, pos, bad, hash, crc, remaining, done, req,
                 draining, cancelled, out, ghost>>

-----------------------------------------------------------------------------
(* multiVolumePayloadReader.Read, over the streams. *)

(* Who reads it: the decryption, filling its buffer, or Entry.Read itself.  *)
AtSource ==
  /\ pc = "src"
  /\ member.enc => cbc.out = <<>> /\ Len(cbc.in) < CBlock /\ cbc.err = "nil"
Room == IF member.enc THEN InCap - Len(cbc.in) ELSE req

(* What the reader above makes of b and e. The decryption goes on filling,  *)
(* remembers an end, and gives a failure up with whatever it held.          *)
Gives(b, e) ==
  \/ ~member.enc /\ AnswerIs(b, e) /\ UNCHANGED cbc
  \/ /\ member.enc /\ e \in {"nil", "eof"}
     /\ cbc' = [cbc EXCEPT !.in = @ \o b, !.err = e]
     /\ UNCHANGED <<pc, answer>>
  \/ /\ member.enc /\ e \notin {"nil", "eof"}
     /\ cbc' = [cbc EXCEPT !.in = <<>>, !.err = e]
     /\ AnswerIs(<<>>, e)

(* Some bytes, perhaps with a failure beside them. *)
Piece ==
  /\ AtSource
  /\ \E n \in 1 .. Min({Room, part.left}), e \in {"nil", "io"} :
       /\ bad' \in IF bad # 0 THEN {bad}
                   ELSE {0} \cup (Damaged \cap (pos + 1 .. pos + n))
       /\ Gives([i \in 1 .. n |-> IF pos + i = bad' THEN Garbage ELSE pos + i], e)
       /\ pos' = pos + n
       /\ part' = [part EXCEPT !.left = @ - n]
       /\ ghost' = [ghost EXCEPT !.fault = IF e = "io" THEN e ELSE @]
  /\ UNCHANGED <<member, cur, hash, crc, remaining, done, req, draining,
                 cancelled, out>>

Fault ==
  /\ AtSource /\ Gives(<<>>, "io")
  /\ ghost' = [ghost EXCEPT !.fault = "io"]
  /\ UNCHANGED <<member, cur, part, pos, bad, hash, crc, remaining, done, req,
                 draining, cancelled, out>>

(* io.EOF, because the part's payload is read or because the volume ended   *)
(* inside it: the member's end, or a cut. Behind a part that is not the     *)
(* last and is whole there is another one (NextPart).                       *)
bodyShort == part.left > 0
SourceEnds ==
  /\ AtSource
  /\ \/ cur.last /\ Gives(<<>>, "eof") /\ UNCHANGED ghost
     \/ /\ ~cur.last /\ bodyShort /\ Gives(<<>>, "cut")
        /\ ghost' = [ghost EXCEPT !.fault = "cut"]
  /\ UNCHANGED <<member, cur, part, pos, bad, hash, crc, remaining, done, req,
                 draining, cancelled, out>>

(* nextVolumePayload: the next part and its header, or why there is none.   *)
(* A closed Reader opens no volume.                                         *)
NextPart ==
  /\ AtSource /\ ~cur.last /\ ~bodyShort
  /\ \/ /\ ~cancelled /\ part.n < MaxParts
        /\ \E fh \in Headers(member.enc), n \in Payloads :
             cur' = fh /\ part' = [n |-> part.n + 1, left |-> n]
        /\ UNCHANGED <<cbc, pc, answer, ghost>>
     \/ /\ \E e \in IF cancelled THEN {"closed", "archive"} ELSE {"archive"} :
             Gives(<<>>, e) /\ ghost' = [ghost EXCEPT !.fault = e]
        /\ UNCHANGED <<cur, part>>
  /\ UNCHANGED <<member, pos, bad, hash, crc, remaining, done, req, draining,
                 cancelled, out>>

-----------------------------------------------------------------------------
Chain == CBCServe \/ CBCDecrypt \/ CBCEnds \/ Piece \/ Fault \/ SourceEnds \/ NextPart
Next == Read \/ Close \/ ReaderClose \/ Entrance \/ Exit \/ Chain

Spec == Init /\ [][Next]_vars
(* A Read in progress goes on: the goroutine is scheduled, and the streams  *)
(* answer with something in the end.                                        *)
FairSpec == Spec /\ WF_vars(Entrance \/ Exit \/ Chain)

-----------------------------------------------------------------------------
(* What reaches the caller is the member's content, in order, never more    *)
(* than its header declares, none of it lost or repeated where a read ended *)
(* inside a cipher block or a volume inside the member, and damage to one   *)
(* packed byte stays where the cipher puts it: that byte's block, and one   *)
(* byte of the next.                                                        *)
DamagedBy(i) ==
  IF ~member.enc THEN i = bad
  ELSE ~member.key \/ (bad # 0 /\ (\/ (i - 1) \div CBlock = (bad - 1) \div CBlock
                                   \/ i = bad + CBlock))
DeliversContent ==
  /\ Len(out) <= member.size /\ Len(out) = member.size - remaining
  /\ \A i \in 1 .. Len(out) : out[i] = IF DamagedBy(i) THEN Garbage ELSE i

(* A clean end means that every declared byte was delivered, is what was    *)
(* archived, and was compared with all that the last header records. A      *)
(* checksum mismatch means the content or the recorded digest is wrong,     *)
(* whatever pieces the hash was fed in and whatever digest an earlier part  *)
(* carried.                                                                 *)
CleanVerdictIsTrue ==
  /\ done = "eof" => remaining = 0 /\ out = Plain /\ cur.last
  /\ done = "mismatch" => out # Plain \/ cur.crc = "wrong" \/ cur.blake = "wrong"

(* A failure of a stream, a volume cut inside a part and a missing part are *)
(* reported as that, unless the caller closed the Reader while bytes were   *)
(* owed; a member is only called cancelled, or truncated, while it is       *)
(* short, and truncated only where its last part ended.                     *)
FailureIsNamed ==
  /\ ghost.fault # "nil" /\ done # "none" => done \in {ghost.fault, "closed"}
  /\ done = "closed" => cancelled /\ short(remaining)
  /\ done = "truncated" => short(remaining) /\ cur.last

(* Once the Reader is closed, only the Read that was under way delivers. *)
NothingAfterClose == cancelled => Len(out) <= ghost.limit

(* Every Read, and the draining Close, returns. *)
ReadReturns == pc # "idle" ~> pc = "idle"
=============================================================================
