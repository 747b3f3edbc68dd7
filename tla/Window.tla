------------------------------- MODULE Window -------------------------------
(***************************************************************************)
(* The sliding window of a Reader (window.go): the ring LZ77 symbols are   *)
(* written into and the caller reads from, driven as the Reader drives it: *)
(* a member is admitted (Reader.sizeWindow, BeginFile), its symbols are    *)
(* decoded up to the fill target (decoder50.fill, copyMatch), the output   *)
(* is read, and the next member starts on the same history when it is      *)
(* solid. One action is one call, or one iteration of a copy loop.         *)
(*                                                                         *)
(* The reference is hist: the bytes a plain LZ77 decoder with unlimited    *)
(* memory has produced since the history was last discarded.               *)
(*                                                                         *)
(* Abstracted: where symbols come from (any literal or match may come),    *)
(* filters (they take bytes through window.Read like any caller), and why  *)
(* a member ends damaged. A decision a bug would get wrong is an operator  *)
(* of its own, preceded by a mutant of it that no action uses.             *)
(***************************************************************************)
EXTENDS Integers

CONSTANTS
  MinSize,    (* minWindowSize                                            *)
  MaxFill,    (* maxFillTarget                                            *)
  Decommits,  (* decommitThreshold                                        *)
  MaxMatch,   (* the longest match slotToLength and its bonuses can give  *)
  Dicts,      (* dictionary sizes file headers declare; 0 is undeclared   *)
  Caps,       (* values of SetMaxWindow                                   *)
  Bytes,      (* byte values                                              *)
  Zero,       (* the byte of a fresh or decommitted page                  *)
  Requests,   (* lengths of the buffers the caller reads into             *)
  MaxHistory  (* bound: bytes written between two discards of the history *)

ASSUME WindowAssumption ==
  /\ MinSize \in Nat /\ MaxFill \in Nat /\ Decommits \in Nat
  /\ MaxMatch \in Nat /\ MaxHistory \in Nat
  /\ 2 <= MinSize /\ 0 < MaxFill
  /\ 2 * MaxMatch <= MinSize
  /\ Dicts \subseteq Nat /\ Caps \subseteq Int /\ Requests \subseteq Nat
  /\ Zero \in Bytes

Flag  == {"no", "yes"}
Phase == {"between", "open", "fill", "copy", "read", "failed", "over"}

VARIABLES
  buf, size, r, w, full, wrapped, (* the window's fields                   *)
  incomplete,                     (* window.incomplete                     *)
  maxWindow, archiveMax,          (* the Reader's cap, and the latched one *)
  capLatched,
  phase,        (* what the traversal goroutine is doing with the window   *)
  dict, method, (* FileHeader.DictSize and Method of the member in force   *)
  solid,        (* its FileHeader.Solid                                    *)
  distance, srcIdx, remaining,    (* CopyBytes' locals                     *)
  left, wasFull,                  (* Read's locals: n - copied, wasFull    *)
  verdict,      (* how the last refused match was classified               *)
  hist,         (* reference: every byte since the last discard            *)
  written,      (* how many bytes of hist have been written to the ring    *)
  taken         (* how many of them have been read or dropped unread       *)

ring   == <<buf, size, r, w, full, wrapped>>
caps   == <<maxWindow, archiveMax, capLatched>>
member == <<dict, method, solid>>
copy   == <<distance, srcIdx, remaining>>
read   == <<left, wasFull>>
ghost  == <<hist, written, taken>>
vars   == <<ring, incomplete, caps, phase, member, copy, read, verdict, ghost>>

Least(a, b) == IF a <= b THEN a ELSE b

historyLen == IF wrapped = "yes" THEN size ELSE w

Available ==
  IF full = "yes" THEN size
  ELSE IF w >= r THEN w - r
  ELSE size - r + w

FillsWhole == size

(* How much decoded output fill stages before the caller drains it. *)
fillTarget == Least(size \div 2, MaxFill)

(* The cell n bytes behind the write index. *)
Back(n) == IF w - n < 0 THEN w - n + size ELSE w - n

Init ==
  /\ size = MinSize
  /\ buf = [i \in 0 .. MinSize - 1 |-> Zero]
  /\ r = 0 /\ w = 0 /\ full = "no" /\ wrapped = "no" /\ incomplete = "no"
  /\ maxWindow \in Caps /\ archiveMax = 0 /\ capLatched = "no"
  /\ phase = "between"
  /\ dict = 0 /\ method = "stored" /\ solid = "no"
  /\ distance = 0 /\ srcIdx = 0 /\ remaining = 0
  /\ left = 0 /\ wasFull = "no" /\ verdict = "none"
  /\ hist = [i \in 0 .. -1 |-> Zero] /\ written = 0 /\ taken = 0

-----------------------------------------------------------------------------
(* Resets of the indexes. buf is never cleared. *)

(* Reset(false), reached through BeginFile(false) and grow. *)
Discard ==
  /\ w' = 0 /\ r' = 0 /\ full' = "no" /\ wrapped' = "no"
  /\ hist' = [i \in 0 .. -1 |-> Zero] /\ written' = 0 /\ taken' = 0

(* Reset(true). *)
KeepHistory ==
  /\ r' = w /\ full' = "no" /\ taken' = written
  /\ UNCHANGED <<w, wrapped, hist, written>>

(* Pages above the threshold go back to the kernel and read as zero.        *)
(* Elsewhere than on Linux the buffer is a heap slice and keeps its bytes.  *)
Decommit ==
  \/ size > MinSize /\ size > Decommits /\ buf' = [i \in DOMAIN buf |-> Zero]
  \/ UNCHANGED buf

-----------------------------------------------------------------------------
(* Between members. *)

SetMaxWindow(n) ==
  /\ maxWindow' = n
  /\ UNCHANGED <<ring, incomplete, archiveMax, capLatched, phase, member,
                 copy, read, verdict, ghost>>

(* dispatch refuses a member before it touches the window. *)
RefuseMember ==
  /\ phase = "between"
  /\ incomplete' = "yes"
  /\ UNCHANGED <<ring, caps, phase, member, copy, read, verdict, ghost>>

Cap == IF capLatched = "yes" THEN archiveMax ELSE maxWindow

Latch(m, d) ==
  IF d > 0 /\ m # "stored"
    THEN archiveMax' = Cap /\ capLatched' = "yes"
    ELSE UNCHANGED <<archiveMax, capLatched>>

NeedsMore(m, d) == d > 0 /\ m # "stored" /\ Least(d, Cap) > size

NeverRefuses(m, d, s) == FALSE

(* sizeWindow refuses: a solid member that would have to grow the window,   *)
(* unless the window is damaged and BeginFile is about to refuse it.        *)
SizeRefuses(m, d, s) == NeedsMore(m, d) /\ s = "yes" /\ incomplete = "no"

(* Otherwise it grows the window, and standing aside leaves it as it is. *)
Grows(m, d, s) == NeedsMore(m, d) /\ ~(s = "yes" /\ incomplete = "yes")

IgnoresDamage(s) == FALSE

(* BeginFile refuses a solid member on a damaged history. *)
BeginRefuses(s) == s = "yes" /\ incomplete = "yes"

(* sizeWindow, then BeginFile: the window side of dispatch for a RAR5       *)
(* member that is admitted. Growing discards the history.                   *)
Admit(m, d, s) ==
  /\ phase = "between"
  /\ Latch(m, d)
  /\ ~SizeRefuses(m, d, s) /\ ~BeginRefuses(s)
  /\ IF Grows(m, d, s)
       THEN /\ size' = Least(d, Cap)
            /\ buf' = [i \in 0 .. Least(d, Cap) - 1 |-> Zero]
       ELSE UNCHANGED <<buf, size>>
  /\ IF s = "yes" /\ ~Grows(m, d, s) THEN KeepHistory ELSE Discard
  /\ incomplete' = IF s = "yes" THEN incomplete ELSE "no"
  /\ dict' = d /\ method' = m /\ solid' = s
  /\ phase' = "open" /\ verdict' = "none"
  /\ UNCHANGED <<maxWindow, copy, read>>

(* sizeWindow or BeginFile refuses it, or the larger window cannot be       *)
(* reserved: dispatch marks the window.                                     *)
AdmitFails(m, d, s) ==
  /\ phase = "between"
  /\ Latch(m, d)
  /\ SizeRefuses(m, d, s) \/ BeginRefuses(s) \/ NeedsMore(m, d)
  /\ incomplete' = "yes"
  /\ UNCHANGED <<ring, maxWindow, phase, member, copy, read, verdict, ghost>>

(* The member is finished, abandoned or severed, possibly with output still *)
(* staged; a damaged one, or one whose chain buildChain could not build,    *)
(* marks the window.                                                        *)
FinishMember ==
  /\ \/ phase = "open" /\ incomplete' \in {incomplete, "yes"}
     \/ phase = "failed" /\ incomplete' = "yes"
  /\ phase' = "between"
  /\ UNCHANGED <<ring, caps, member, copy, read, verdict, ghost>>

(* NextEntry finds no further volume. *)
EndOfArchive ==
  /\ phase = "between" /\ phase' = "over"
  /\ Decommit
  /\ UNCHANGED <<size, r, w, full, wrapped, incomplete, caps, member, copy,
                 read, verdict, ghost>>

(* Reader.Reset. A member in progress is severed first. *)
ReaderReset ==
  /\ phase \in {"between", "open", "failed", "over"}
  /\ phase' = "between"
  /\ capLatched' = "no" /\ incomplete' = "no" /\ verdict' = "none"
  /\ Discard /\ Decommit
  /\ UNCHANGED <<size, maxWindow, archiveMax, member, copy, read>>

-----------------------------------------------------------------------------
(* Decoding. decoder50.Read calls fill only when nothing is available. *)

FillStart ==
  /\ phase = "open" /\ method = "packed" /\ Available = 0
  /\ phase' = "fill"
  /\ UNCHANGED <<ring, incomplete, caps, member, copy, read, verdict, ghost>>

(* The target is staged, or the stream ended or ran dry. *)
FillEnd ==
  /\ phase = "fill" /\ phase' = "open"
  /\ UNCHANGED <<ring, incomplete, caps, member, copy, read, verdict, ghost>>

AdvanceLate(n) ==
  /\ w' = IF w + n > size THEN 0 ELSE w + n
  /\ wrapped' = IF w + n > size THEN "yes" ELSE wrapped
  /\ full' = IF w' = r THEN "yes" ELSE full

(* The write index after n more bytes, and the marks it leaves. *)
Advance(n) ==
  /\ w' = IF w + n >= size THEN 0 ELSE w + n
  /\ wrapped' = IF w + n >= size THEN "yes" ELSE wrapped
  /\ full' = IF w' = r THEN "yes" ELSE full

Literal(c) ==
  /\ phase = "fill" /\ Available < fillTarget
  /\ written < MaxHistory
  /\ buf' = [buf EXCEPT ![w] = c]
  /\ Advance(1)
  /\ hist' = [k \in 0 .. written |-> IF k = written THEN c ELSE hist[k]]
  /\ written' = written + 1
  /\ UNCHANGED <<size, r, incomplete, caps, phase, member, copy, read, verdict,
                 taken>>

(* CopyBytes' bound on the distance. *)
InHistory(d) == 0 < d /\ d <= historyLen

(* CopyBytes accepts: the reference gains the match, each byte the one d    *)
(* before it, so a match longer than its distance repeats a pattern.        *)
MatchStart(length, d) ==
  /\ phase = "fill" /\ Available < fillTarget
  /\ written + length <= MaxHistory
  /\ InHistory(d)
  /\ distance' = d /\ srcIdx' = Back(d) /\ remaining' = length
  /\ hist' = [k \in 0 .. written + length - 1 |->
                IF k < written THEN hist[k]
                ELSE hist[written - d + ((k - written) % d)]]
  /\ phase' = "copy"
  /\ UNCHANGED <<ring, incomplete, caps, member, read, verdict, written, taken>>

ChunkUncapped == Least(remaining, Least(size - srcIdx, size - w))

(* One memmove of CopyBytes may not cross the source into the destination.  *)
Chunk == Least(Least(remaining, distance), Least(size - srcIdx, size - w))

CopyChunk ==
  /\ phase = "copy" /\ remaining > 0
  /\ buf' = [i \in DOMAIN buf |->
               IF w <= i /\ i < w + Chunk THEN buf[srcIdx + (i - w)] ELSE buf[i]]
  /\ srcIdx' = IF srcIdx + Chunk >= size THEN 0 ELSE srcIdx + Chunk
  /\ Advance(Chunk)
  /\ remaining' = remaining - Chunk
  /\ written' = written + Chunk
  /\ UNCHANGED <<size, r, incomplete, caps, phase, member, distance, read,
                 verdict, hist, taken>>

CopyEnd ==
  /\ phase = "copy" /\ remaining = 0 /\ phase' = "fill"
  /\ distance' = 0 /\ srcIdx' = 0
  /\ UNCHANGED <<ring, incomplete, caps, member, remaining, read, verdict,
                 ghost>>

FarIsCapacity(d) == historyLen = size /\ d > size

(* copyMatch: a refusal the window's capacity caused, and not the stream. *)
IsCapacity(d) ==
  historyLen = size /\ d > size /\ dict > size /\ d <= dict

MatchRefused(d) ==
  /\ phase = "fill" /\ Available < fillTarget
  /\ ~InHistory(d)
  /\ verdict' = IF IsCapacity(d) THEN "capacity" ELSE "corrupt"
  /\ phase' = "failed"
  /\ UNCHANGED <<ring, incomplete, caps, member, copy, read, ghost>>

-----------------------------------------------------------------------------
(* Reading. *)

ReadStart(p) ==
  /\ phase = "open" /\ Available > 0
  /\ left' = Least(p, Available)
  /\ wasFull' = full
  /\ full' = IF Least(p, Available) > 0 THEN "no" ELSE full
  /\ phase' = "read"
  /\ UNCHANGED <<buf, size, r, w, wrapped, incomplete, caps, member, copy,
                 verdict, ghost>>

RunsToWrite == w

(* The end of the run of unread bytes that starts at r. *)
RunEnd == IF w < r \/ wasFull = "yes" THEN size ELSE w

ReadChunk ==
  /\ phase = "read" /\ left > 0 /\ RunEnd > r
  /\ LET n == Least(left, RunEnd - r) IN
     /\ r' = IF r + n >= size THEN 0 ELSE r + n
     /\ left' = left - n
     /\ taken' = taken + n
  /\ wasFull' = "no"
  /\ UNCHANGED <<buf, size, w, full, wrapped, incomplete, caps, phase, member,
                 copy, verdict, hist, written>>

(* Everything asked for has moved, or the ring has nothing more at r. *)
ReadEnd ==
  /\ phase = "read" /\ (left = 0 \/ RunEnd <= r)
  /\ phase' = "open"
  /\ UNCHANGED <<ring, incomplete, caps, member, copy, read, verdict, ghost>>

-----------------------------------------------------------------------------
Next ==
  \/ \E n \in Caps : SetMaxWindow(n)
  \/ RefuseMember \/ FinishMember \/ EndOfArchive \/ ReaderReset
  \/ \E m \in {"stored", "packed"}, d \in Dicts, s \in Flag :
       Admit(m, d, s) \/ AdmitFails(m, d, s)
  \/ FillStart \/ FillEnd
  \/ \E c \in Bytes : Literal(c)
  \/ \E length \in 1 .. MaxMatch, d \in 1 .. MaxHistory :
       MatchStart(length, d)
  \/ \E d \in 0 .. MaxHistory + 1 : MatchRefused(d)
  \/ CopyChunk \/ CopyEnd
  \/ \E p \in Requests : ReadStart(p)
  \/ ReadChunk \/ ReadEnd

Spec == Init /\ [][Next]_vars

-----------------------------------------------------------------------------
(* The types, and the fields' ranges. *)
TypeOK ==
  /\ size \in Nat /\ MinSize <= size
  /\ buf \in [0 .. size - 1 -> Bytes]
  /\ r \in Nat /\ r < size /\ w \in Nat /\ w < size
  /\ full \in Flag /\ wrapped \in Flag /\ incomplete \in Flag
  /\ maxWindow \in Caps /\ archiveMax \in Int /\ capLatched \in Flag
  /\ phase \in Phase
  /\ dict \in Dicts \cup {0} /\ method \in {"stored", "packed"} /\ solid \in Flag
  /\ distance \in Nat /\ srcIdx \in Nat /\ remaining \in Nat
  /\ left \in Nat /\ wasFull \in Flag
  /\ verdict \in {"none", "capacity", "corrupt"}
  /\ written \in Nat /\ taken \in Nat
  /\ hist \in [0 .. written + remaining - 1 -> Bytes]

(* Everything CopyBytes lets a match reach (historyLen bytes behind w) is   *)
(* the member's own history: the ring holds there, byte for byte, what a    *)
(* decoder with unlimited memory produced since the history was discarded.  *)
(* buf is never cleared, so a bound too wide reaches another file's bytes,  *)
(* and a chunk of CopyBytes too long breaks the repetition of a pattern.    *)
HistoryMatches ==
  phase # "over" =>
    /\ historyLen <= written
    /\ \A n \in 1 .. historyLen : buf[Back(n)] = hist[written - n]

(* What the caller is still to read is what was decoded and not yet read:   *)
(* Available counts it, and the bytes from r on are those, in order. A      *)
(* write that overran the read index, a full ring taken for an empty one or *)
(* a solid member serving its predecessor's tail would break it.            *)
ServesInOrder ==
  phase \notin {"read", "over"} =>
    /\ Available = written - taken
    /\ \A k \in 0 .. Available - 1 :
         buf[IF r + k >= size THEN r + k - size ELSE r + k] = hist[taken + k]

(* Read moves as many bytes as Available promised: the break on an empty    *)
(* run, a backstop by its comment, is never what ends the loop.             *)
ReadKeepsPromise == phase # "read" => left = 0

(* A compressed member decodes in a window at least as large as the         *)
(* dictionary it declares, up to the cap latched for the archive, although  *)
(* sizeWindow stands aside for a solid member on a damaged window.          *)
WindowFitsMember ==
  phase \in {"open", "fill", "copy", "read", "failed"} /\ method = "packed" =>
    dict <= size \/ archiveMax <= size

(* A match refused as ErrDictionaryTooLarge is one the cap caused: the      *)
(* header declared more than SetMaxWindow allowed, so a larger cap could    *)
(* have served it. Corruption is never reported as a capacity limit.        *)
CapacityMeansCapped ==
  verdict = "capacity" => archiveMax <= size /\ size < dict

(* A solid member starts on the whole history its predecessors left, in     *)
(* the same ring: neither growing the window nor BeginFile may drop it.     *)
SolidKeepsHistory ==
  [][phase = "between" /\ phase' = "open" /\ solid' = "yes" =>
       hist' = hist /\ size' = size]_vars
=============================================================================
