---------------------------- MODULE WindowProofs ----------------------------
(***************************************************************************)
(* Proofs about Window, for every window size, match length, dictionary,   *)
(* cap and set of byte values that WindowAssumption admits.                *)
(*                                                                         *)
(* IInv is inductive. Ring says where the indexes stand in terms of how    *)
(* many bytes were written and read, and that a match always fits between  *)
(* the write and the read index; Copying is the loop invariant of          *)
(* CopyBytes; History is what the ring holds; Sizing relates the window's  *)
(* size, the latched cap and the member's dictionary.                      *)
(***************************************************************************)
EXTENDS Window, TLAPS

Unread == written - taken

Active == {"open", "fill", "copy", "read", "failed"}

Ring ==
  /\ full = "no" /\ wasFull = "no"
  /\ taken <= written
  /\ wrapped = "no" => written = w
  /\ wrapped = "yes" => size <= written
  /\ Unread + remaining < size
  /\ r = Back(Unread)
  /\ phase # "copy" => remaining = 0
  /\ phase # "read" => left = 0
  /\ left <= Unread

Copying ==
  phase = "copy" =>
    /\ 0 < distance /\ distance <= historyLen
    /\ srcIdx = Back(distance)
    /\ \A k \in written .. written + remaining - 1 : hist[k] = hist[k - distance]

History ==
  phase # "over" => \A n \in 1 .. historyLen : buf[Back(n)] = hist[written - n]

Sizing ==
  /\ WindowFitsMember
  /\ phase = "fill" \/ phase = "copy" => method = "packed"
  /\ phase \in Active /\ method = "packed" /\ 0 < dict => capLatched = "yes"
  /\ CapacityMeansCapped
  /\ verdict = "capacity" => capLatched = "yes"

IInv == TypeOK /\ Ring /\ Copying /\ History /\ Sizing

-----------------------------------------------------------------------------
(* Division with remainder, as far as the repetition of a match needs it. *)

(* A remainder lies below its divisor. *)
LEMMA ModRange ==
  ASSUME NEW x \in Nat, NEW d \in Nat, 0 < d
  PROVE  x % d \in 0 .. d - 1
  OBVIOUS

(* A number below the divisor is its own remainder. *)
LEMMA ModSmall ==
  ASSUME NEW x \in Nat, NEW d \in Nat, x < d
  PROVE  x % d = x
  OBVIOUS

(* Quotient and remainder make up the number. *)
LEMMA DivMod ==
  ASSUME NEW x \in Nat, NEW d \in Nat, 0 < d
  PROVE  x \div d \in Int /\ x = d * (x \div d) + (x % d)
  OBVIOUS

(* A multiple below d has a factor below one. *)
LEMMA MultipleBelow ==
  ASSUME NEW d \in Int, 0 < d, NEW z \in Int
  PROVE  d * z < d => z < 1
  OBVIOUS

(* A multiple above -d has a factor above minus one. *)
LEMMA MultipleAbove ==
  ASSUME NEW d \in Int, 0 < d, NEW z \in Int
  PROVE  0 - d < d * z => 0 - 1 < z
  OBVIOUS

(* The product that compares two quotients. *)
LEMMA Distribute ==
  ASSUME NEW d \in Int, NEW a \in Int, NEW b \in Int
  PROVE  d * (a - b - 1) = d * a - d * b - d
  OBVIOUS

(* The remainder repeats with period d. *)
LEMMA ModStep ==
  ASSUME NEW x \in Nat, NEW d \in Nat, 0 < d, d <= x
  PROVE  x % d = (x - d) % d
  <1> DEFINE y == x - d
             a == x \div d   b == y \div d
             m == x % d      n == y % d
             p == d * a      q == d * b
             z == a - b - 1
  <1>1. y \in Nat /\ y = x - d
      OBVIOUS
  <1>2. a \in Int /\ b \in Int /\ x = p + m /\ y = q + n
      BY <1>1, DivMod
  <1>3. m \in 0 .. d - 1 /\ n \in 0 .. d - 1
      BY <1>1, ModRange
  <1>4. d * z = p - q - d
      BY <1>2, Distribute
  <1>5. p \in Int /\ q \in Int /\ z \in Int
      BY <1>2
  <1> HIDE DEF y, a, b, m, n, p, q, z
  <1>6. p - q - d = n - m
      BY <1>1, <1>2, <1>3, <1>5
  <1>7. d * z < d /\ 0 - d < d * z
      BY <1>3, <1>4, <1>6
  <1>8. z = 0
    <2>1. z < 1 /\ 0 - 1 < z
        BY <1>5, <1>7, MultipleBelow, MultipleAbove
    <2> QED BY <1>5, <2>1
  <1>9. d * z = 0
      BY <1>8
  <1>10. m = n
      BY <1>3, <1>4, <1>6, <1>9
  <1> QED BY <1>10 DEF m, n, y

-----------------------------------------------------------------------------
(* Available counts the unread bytes exactly. *)
LEMMA AvailableIsUnread ==
  ASSUME TypeOK, Ring
  PROVE  Available = Unread /\ Unread \in Nat /\ Unread < size
  BY DEF TypeOK, Ring, Available, Unread, Back

(* The valid history is no deeper than the ring or than what was written. *)
LEMMA HistoryBound ==
  ASSUME TypeOK, Ring
  PROVE  historyLen \in Nat /\ historyLen <= written /\ historyLen <= size
  BY DEF TypeOK, Ring, historyLen, Flag

(* Below the fill target there is room for the longest match. *)
LEMMA MatchFits ==
  ASSUME TypeOK, Ring, Available < fillTarget, NEW n \in Nat, n <= MaxMatch \/ n = 1
  PROVE  Unread + n < size
  <1>1. Unread < size \div 2
      BY AvailableIsUnread, WindowAssumption DEF fillTarget, Least, TypeOK
  <1>2. 2 * MaxMatch <= size /\ size \in Nat /\ 2 <= size /\ MaxMatch \in Nat
      BY WindowAssumption DEF TypeOK
  <1>3. 2 * (size \div 2) <= size
      BY <1>2
  <1>4. Unread \in Nat /\ size \div 2 \in Nat
      BY <1>2, AvailableIsUnread
  <1> QED BY <1>1, <1>2, <1>3, <1>4

(* A chunk of CopyBytes is non-empty and stays inside both runs. *)
LEMMA ChunkRange ==
  ASSUME TypeOK, Ring, Copying, phase = "copy", remaining > 0
  PROVE  /\ Chunk \in Nat /\ 0 < Chunk
         /\ Chunk <= remaining /\ Chunk <= distance
         /\ srcIdx + Chunk <= size /\ w + Chunk <= size
  BY DEF TypeOK, Ring, Copying, Chunk, Least, Back, historyLen

-----------------------------------------------------------------------------
(* A new Reader's window satisfies the invariant. *)
LEMMA InitIInv == Init => IInv
  <1> USE WindowAssumption DEF Init
  <1>1. Init => TypeOK
      BY DEF TypeOK, Flag, Phase
  <1>2. Init => Ring
      BY DEF Ring, Unread, Back
  <1>3. Init => Copying
      BY DEF Copying
  <1>4. Init => History
      BY DEF History, historyLen
  <1>5. Init => Sizing
      BY DEF Sizing, Active, WindowFitsMember, CapacityMeansCapped
  <1> QED BY <1>1, <1>2, <1>3, <1>4, <1>5 DEF IInv

-----------------------------------------------------------------------------
(* The steps that leave the ring, the reference and the copy alone. *)
Quiet ==
  /\ UNCHANGED <<ring, hist, written, taken, remaining, left, wasFull>>
  /\ phase' \in Phase /\ phase' # "copy"
  /\ phase = "copy" => remaining = 0
  /\ phase = "read" => left = 0
  /\ phase # "over" /\ phase' # "over" /\ phase' # "read"

(* A step that leaves the ring and its history alone keeps what is known of them. *)
LEMMA QuietStep ==
  ASSUME IInv, Quiet
  PROVE  Ring' /\ Copying' /\ History'
  <1>1. Ring'
      BY DEF IInv, Quiet, Ring, Unread, Back, ring
  <1>2. Copying'
      BY DEF Quiet, Copying
  <1>3. History'
      BY DEF IInv, Quiet, History, historyLen, Back, ring
  <1> QED BY <1>1, <1>2, <1>3

(* SetMaxWindow changes only the cap that is not yet latched. *)
LEMMA SetMaxWindowStep ==
  ASSUME IInv, NEW n \in Caps, SetMaxWindow(n)
  PROVE  IInv'
  <1> USE DEF SetMaxWindow, ring, member, copy, read, ghost
  <1>1. TypeOK'
      BY DEF IInv, TypeOK
  <1>2. Ring'
      BY DEF IInv, Ring, Unread, Back
  <1>3. Copying'
      BY DEF IInv, Copying, historyLen, Back
  <1>4. History'
      BY DEF IInv, History, historyLen, Back
  <1>5. Sizing'
      BY DEF IInv, Sizing, Active, WindowFitsMember, CapacityMeansCapped
  <1> QED BY <1>1, <1>2, <1>3, <1>4, <1>5 DEF IInv

(* A refusal before sizeWindow marks the window and touches nothing else. *)
LEMMA RefuseMemberStep ==
  ASSUME IInv, RefuseMember
  PROVE  IInv'
  <1> USE DEF RefuseMember, ring, caps, member, copy, read, ghost
  <1>1. TypeOK'
      BY DEF IInv, TypeOK, Flag, Phase
  <1>2. Quiet
      BY DEF IInv, Ring, Quiet, Phase
  <1>3. Sizing'
      BY WindowAssumption DEF IInv, TypeOK, Sizing, Active, WindowFitsMember, CapacityMeansCapped
  <1> QED BY <1>1, <1>2, <1>3, QuietStep DEF IInv

(* finishActive may mark the window incomplete. *)
LEMMA FinishMemberStep ==
  ASSUME IInv, FinishMember
  PROVE  IInv'
  <1> USE DEF FinishMember, ring, caps, member, copy, read, ghost
  <1>1. TypeOK'
      BY DEF IInv, TypeOK, Flag, Phase
  <1>2. Quiet
      BY DEF IInv, Ring, Quiet, Phase
  <1>3. Sizing'
      BY WindowAssumption DEF IInv, TypeOK, Sizing, Active, WindowFitsMember, CapacityMeansCapped
  <1> QED BY <1>1, <1>2, <1>3, QuietStep DEF IInv

(* decoder50.Read calls fill on an empty window. *)
LEMMA FillStartStep ==
  ASSUME IInv, FillStart
  PROVE  IInv'
  <1> USE DEF FillStart, ring, caps, member, copy, read, ghost
  <1>1. TypeOK'
      BY DEF IInv, TypeOK, Flag, Phase
  <1>2. Quiet
      BY DEF IInv, Ring, Quiet, Phase
  <1>3. Sizing'
      BY WindowAssumption DEF IInv, TypeOK, Sizing, Active, WindowFitsMember, CapacityMeansCapped
  <1> QED BY <1>1, <1>2, <1>3, QuietStep DEF IInv

(* fill returns; the ring stays as it is. *)
LEMMA FillEndStep ==
  ASSUME IInv, FillEnd
  PROVE  IInv'
  <1> USE DEF FillEnd, ring, caps, member, copy, read, ghost
  <1>1. TypeOK'
      BY DEF IInv, TypeOK, Flag, Phase
  <1>2. Quiet
      BY DEF IInv, Ring, Quiet, Phase
  <1>3. Sizing'
      BY WindowAssumption DEF IInv, TypeOK, Sizing, Active, WindowFitsMember, CapacityMeansCapped
  <1> QED BY <1>1, <1>2, <1>3, QuietStep DEF IInv

(* A refused match moves nothing and is classified soundly. *)
LEMMA MatchRefusedStep ==
  ASSUME IInv, NEW d \in Nat, MatchRefused(d)
  PROVE  IInv'
  <1> USE DEF MatchRefused, ring, caps, member, copy, read, ghost
  <1>1. TypeOK'
      BY DEF IInv, TypeOK, IsCapacity, Flag, Phase
  <1>2. Quiet
      BY DEF IInv, Ring, Quiet, Phase
  <1>3. Sizing'
      BY WindowAssumption DEF IInv, TypeOK, Sizing, IsCapacity, Active, WindowFitsMember, CapacityMeansCapped
  <1> QED BY <1>1, <1>2, <1>3, QuietStep DEF IInv

(* A member that sizeWindow or BeginFile refuses leaves ring and history alone. *)
LEMMA AdmitFailsStep ==
  ASSUME IInv, NEW m, NEW d, NEW s, AdmitFails(m, d, s)
  PROVE  IInv'
  <1> USE DEF AdmitFails, ring, caps, member, copy, read, ghost
  <1>1. TypeOK'
      BY WindowAssumption DEF IInv, TypeOK, Latch, Cap, Flag, Phase
  <1>2. Quiet
      BY DEF IInv, Ring, Quiet, Phase
  <1>3. Sizing'
      BY WindowAssumption DEF IInv, TypeOK, Sizing, Latch, Cap, Active, WindowFitsMember, CapacityMeansCapped
  <1> QED BY <1>1, <1>2, <1>3, QuietStep DEF IInv

(* CopyBytes is done when nothing remains. *)
LEMMA CopyEndStep ==
  ASSUME IInv, CopyEnd
  PROVE  IInv'
  <1> USE DEF CopyEnd, ring, caps, member, copy, read, ghost
  <1>1. TypeOK'
      BY DEF IInv, TypeOK, Flag, Phase
  <1>2. Quiet
      BY DEF IInv, Ring, Quiet, Phase
  <1>3. Sizing'
      BY WindowAssumption DEF IInv, TypeOK, Sizing, Active, WindowFitsMember, CapacityMeansCapped
  <1> QED BY <1>1, <1>2, <1>3, QuietStep DEF IInv

(* window.Read returns only once it has delivered what it promised. *)
LEMMA ReadEndStep ==
  ASSUME IInv, ReadEnd
  PROVE  IInv'
  <1> USE DEF ReadEnd, ring, caps, member, copy, read, ghost
  <1>0. left = 0
      BY DEF IInv, TypeOK, Ring, RunEnd, Unread, Back
  <1>1. TypeOK'
      BY DEF IInv, TypeOK, Flag, Phase
  <1>2. Quiet
      BY <1>0 DEF IInv, Ring, Quiet, Phase
  <1>3. Sizing'
      BY WindowAssumption DEF IInv, TypeOK, Sizing, Active, WindowFitsMember, CapacityMeansCapped
  <1> QED BY <1>1, <1>2, <1>3, QuietStep DEF IInv

-----------------------------------------------------------------------------
(* The steps that move the ring. *)

(* The window goes out of use at the end of the archive. *)
LEMMA EndOfArchiveStep ==
  ASSUME IInv, EndOfArchive
  PROVE  IInv'
  <1> USE DEF EndOfArchive, caps, member, copy, read, ghost
  <1>1. TypeOK'
      BY WindowAssumption DEF IInv, TypeOK, Decommit, Phase
  <1>2. Ring'
      BY DEF IInv, Ring, Unread, Back
  <1>3. Copying'
      BY DEF Copying
  <1>4. History'
      BY DEF History
  <1>5. Sizing'
      BY DEF IInv, Sizing, Active, WindowFitsMember, CapacityMeansCapped
  <1> QED BY <1>1, <1>2, <1>3, <1>4, <1>5 DEF IInv

(* Reader.Reset discards the history and the latch. *)
LEMMA ReaderResetStep ==
  ASSUME IInv, ReaderReset
  PROVE  IInv'
  <1> USE DEF ReaderReset, Discard, member, copy, read
  <1>0. remaining = 0 /\ left = 0 /\ 0 < size
      BY WindowAssumption DEF IInv, TypeOK, Ring
  <1>1. TypeOK'
      BY <1>0, WindowAssumption DEF IInv, TypeOK, Decommit, Phase, Flag
  <1>2. Ring'
      BY <1>0 DEF IInv, TypeOK, Ring, Unread, Back
  <1>3. Copying'
      BY DEF Copying
  <1>4. History'
      BY DEF History, historyLen
  <1>5. Sizing'
      BY DEF Sizing, Active, WindowFitsMember, CapacityMeansCapped
  <1> QED BY <1>1, <1>2, <1>3, <1>4, <1>5 DEF IInv

(* Admission discards the history, or keeps all of it for a solid member, and fits the window. *)
LEMMA AdmitStep ==
  ASSUME IInv, NEW m \in {"stored", "packed"}, NEW d \in Dicts, NEW s \in Flag,
         Admit(m, d, s)
  PROVE  IInv'
  <1> USE DEF Admit, copy, read
  <1>0. remaining = 0 /\ left = 0 /\ 0 < size /\ size \in Nat /\ d \in Nat /\ Cap \in Int
      BY WindowAssumption DEF IInv, TypeOK, Ring, Cap
  <1>1. size' \in Nat /\ size <= size' /\ buf' \in [0 .. size' - 1 -> Bytes]
      BY <1>0, WindowAssumption DEF IInv, TypeOK, Grows, NeedsMore, Least
  <1>2. TypeOK'
    <2>1. /\ w' \in Nat /\ w' < size' /\ r' \in Nat /\ r' < size' /\ full' \in Flag
          /\ wrapped' \in Flag /\ written' \in Nat /\ taken' \in Nat
          /\ hist' \in [0 .. written' + remaining - 1 -> Bytes]
      <3>1. CASE s = "yes" /\ ~Grows(m, d, s)
          BY <3>1, <1>0, <1>1 DEF IInv, TypeOK, KeepHistory, Flag
      <3>2. CASE ~(s = "yes" /\ ~Grows(m, d, s))
        <4>1. Discard
            BY <3>2
        <4>2. [i \in 0 .. -1 |-> Zero] \in [0 .. 0 + remaining - 1 -> Bytes]
            BY <1>0, WindowAssumption
        <4>3. 0 < size'
            BY <1>0, <1>1
        <4> QED BY <4>1, <4>2, <4>3 DEF Discard, Flag
      <3> QED BY <3>1, <3>2
    <2>2. archiveMax' \in Int /\ capLatched' \in Flag
        BY <1>0 DEF IInv, TypeOK, Latch, Flag
    <2>3. incomplete' \in Flag
        BY DEF IInv, TypeOK, Flag
    <2>4. MinSize <= size'
        BY <1>1, WindowAssumption DEF IInv, TypeOK
    <2> QED BY <1>0, <1>1, <2>1, <2>2, <2>3, <2>4 DEF IInv, TypeOK, Phase, Flag
  <1>3. Ring'
      BY <1>0, <1>1 DEF IInv, TypeOK, Ring, Unread, Back, KeepHistory, Discard
  <1>4. Copying'
      BY DEF Copying
  <1>5. History'
    <2>1. CASE s = "yes" /\ ~Grows(m, d, s)
        BY <2>1 DEF IInv, History, historyLen, Back, KeepHistory
    <2>2. CASE ~(s = "yes" /\ ~Grows(m, d, s))
        BY <2>2 DEF History, historyLen, Discard
    <2> QED BY <2>1, <2>2
  <1>6. Sizing'
      BY <1>0, <1>1 DEF IInv, TypeOK, Sizing, Active, WindowFitsMember, CapacityMeansCapped,
         Latch, Grows, NeedsMore, BeginRefuses, Least, Flag
  <1> QED BY <1>2, <1>3, <1>4, <1>5, <1>6 DEF IInv

(* window.Read promises no more than is unread. *)
LEMMA ReadStartStep ==
  ASSUME IInv, NEW p \in Requests, ReadStart(p)
  PROVE  IInv'
  <1> USE DEF ReadStart, caps, member, copy, ghost
  <1>0. /\ Available = Unread /\ Unread \in Nat /\ p \in Nat
        /\ Least(p, Available) \in Nat /\ Least(p, Available) <= Unread
      BY AvailableIsUnread, WindowAssumption DEF IInv, Least
  <1>1. TypeOK'
      BY <1>0 DEF IInv, TypeOK, Phase, Flag
  <1>2. Ring'
      BY <1>0 DEF IInv, TypeOK, Ring, Unread, Back
  <1>3. Copying'
      BY DEF Copying
  <1>4. History'
      BY DEF IInv, History, historyLen, Back
  <1>5. Sizing'
      BY DEF IInv, Sizing, Active, WindowFitsMember, CapacityMeansCapped
  <1> QED BY <1>1, <1>2, <1>3, <1>4, <1>5 DEF IInv

(* A run of window.Read moves r over bytes that were unread. *)
LEMMA ReadChunkStep ==
  ASSUME IInv, ReadChunk
  PROVE  IInv'
  <1> DEFINE n == Least(left, RunEnd - r)
  <1> USE DEF ReadChunk, caps, member, copy
  <1>0. n \in Nat /\ n <= left /\ r + n <= size /\ (r <= w => r + n <= w)
    <2>1. RunEnd \in Nat /\ r < RunEnd /\ RunEnd <= size /\ (r <= w => RunEnd = w)
        BY DEF IInv, TypeOK, Ring, RunEnd
    <2>2. r \in Nat /\ left \in Nat /\ size \in Nat /\ w \in Nat
        BY DEF IInv, TypeOK
    <2>3. n = IF left <= RunEnd - r THEN left ELSE RunEnd - r
        BY DEF Least
    <2> HIDE DEF n
    <2> QED BY <2>1, <2>2, <2>3
  <1>1. /\ r' = IF r + n >= size THEN 0 ELSE r + n
        /\ left' = left - n /\ taken' = taken + n
      OBVIOUS
  <1> HIDE DEF n
  <1>2. TypeOK'
      BY <1>0, <1>1, WindowAssumption DEF IInv, TypeOK, Phase, Flag
  <1>3. Ring'
    <2>1. /\ r \in Nat /\ r < size /\ w \in Nat /\ w < size /\ size \in Nat /\ left \in Nat
          /\ written \in Nat /\ taken \in Nat /\ remaining \in Nat
        BY DEF IInv, TypeOK
    <2>2. Ring
        BY DEF IInv
    <2>3. /\ phase = "read" /\ wasFull' = "no"
          /\ UNCHANGED <<size, w, full, wrapped, phase, remaining, written>>
        OBVIOUS
    <2>4. Unread' = Unread - n /\ Unread \in Nat /\ n <= Unread
        BY <1>0, <1>1, <2>1, <2>2, <2>3 DEF Ring, Unread
    <2>5. r' = Back(Unread)'
      <3>1. r = IF w - Unread < 0 THEN w - Unread + size ELSE w - Unread
          BY <2>2 DEF Ring, Back
      <3>2. Back(Unread)' = IF w - (Unread - n) < 0 THEN w - (Unread - n) + size ELSE w - (Unread - n)
          BY <2>3, <2>4 DEF Back
      <3> HIDE DEF ReadChunk, Unread
      <3> QED BY <1>0, <1>1, <2>1, <2>4, <3>1, <3>2
    <2> HIDE DEF ReadChunk
    <2>6. taken' <= written' /\ left' <= Unread' /\ Unread' + remaining' < size'
        BY <1>0, <1>1, <2>1, <2>2, <2>3, <2>4 DEF Ring, Unread
    <2> QED BY <2>2, <2>3, <2>5, <2>6 DEF Ring
  <1>4. Copying'
      BY DEF Copying
  <1>5. History'
      BY DEF IInv, History, historyLen, Back
  <1>6. Sizing'
      BY DEF IInv, Sizing, Active, WindowFitsMember, CapacityMeansCapped
  <1> QED BY <1>2, <1>3, <1>4, <1>5, <1>6 DEF IInv

(* One byte more, or one chunk more, moves the write index away from the    *)
(* read index and never onto it: the ring is never full.                    *)
LEMMA AdvanceRing ==
  ASSUME TypeOK, Ring, NEW n \in Nat, 0 < n, w + n <= size,
         Unread + n < size, Advance(n),
         written' = written + n, UNCHANGED <<size, r, taken>>
  PROVE  /\ w' \in Nat /\ w' < size' /\ wrapped' \in Flag
         /\ full' = "no"
         /\ wrapped' = "no" => written' = w'
         /\ wrapped' = "yes" => size' <= written'
         /\ r' = Back(Unread)'
         /\ taken' <= written'
         /\ historyLen' <= historyLen + n /\ historyLen <= historyLen'
         /\ historyLen' <= size /\ historyLen' \in Nat
  BY DEF TypeOK, Ring, Advance, Unread, Back, historyLen, Flag

(* After n more bytes, what was n bytes nearer is where it was. *)
LEMMA BackShifts ==
  ASSUME TypeOK, NEW n \in Nat, 0 < n, w + n <= size, Advance(n),
         size' = size, NEW m \in Nat, m <= size
  PROVE  /\ n < m => Back(m)' = Back(m - n)
                     /\ (Back(m - n) < w \/ w + n <= Back(m - n))
                     /\ Back(m - n) \in 0 .. size - 1
         /\ 0 < m /\ m <= n => Back(m)' = w + (n - m)
  BY DEF TypeOK, Advance, Back

(* A literal is written where the fill target left room. *)
LEMMA LiteralStep ==
  ASSUME IInv, NEW c \in Bytes, Literal(c)
  PROVE  IInv'
  <1> USE DEF Literal, caps, member, copy, read
  <1>0. TypeOK /\ Ring /\ History /\ remaining = 0 /\ w + 1 <= size /\ Unread + 1 < size
      BY MatchFits DEF IInv, Ring, TypeOK
  <1>1. TypeOK'
      BY <1>0, AdvanceRing DEF TypeOK, Ring, Phase, Flag
  <1>2. Ring'
      BY <1>0, AdvanceRing DEF TypeOK, Ring, Unread
  <1>3. Copying'
      BY DEF Copying
  <1>4. History'
    <2> SUFFICES ASSUME NEW m \in 1 .. historyLen'
                 PROVE  buf'[Back(m)'] = hist'[written' - m]
        BY DEF History
    <2>1. m \in Nat /\ 0 < m /\ m <= size /\ m - 1 <= historyLen /\ m - 1 <= written
      <3>1. historyLen \in Nat /\ historyLen <= written /\ written \in Nat /\ size \in Nat
          BY <1>0, HistoryBound DEF TypeOK
      <3>2. historyLen' <= historyLen + 1 /\ historyLen' <= size /\ historyLen' \in Nat
          BY <1>0, AdvanceRing
      <3> QED BY <3>1, <3>2
    <2>2. CASE m = 1
      <3>1. Back(m)' = w
          BY <1>0, <2>1, <2>2, BackShifts DEF TypeOK
      <3> QED BY <1>0, <2>2, <3>1 DEF TypeOK
    <2>3. CASE 1 < m
      <3>1. Back(m)' = Back(m - 1) /\ Back(m - 1) # w
        <4>1. /\ Back(m)' = Back(m - 1)
              /\ Back(m - 1) < w \/ w + 1 <= Back(m - 1)
              /\ Back(m - 1) \in 0 .. size - 1
            BY <1>0, <2>1, <2>3, BackShifts
        <4> QED BY <1>0, <4>1 DEF TypeOK
      <3>2. buf[Back(m - 1)] = hist[written - (m - 1)]
        <4>1. m - 1 \in 1 .. historyLen
            BY <1>0, <2>1, <2>3 DEF TypeOK, historyLen
        <4> QED BY <1>0, <4>1 DEF History
      <3>3. buf'[Back(m)'] = buf[Back(m - 1)]
          BY <1>0, <3>1 DEF TypeOK
      <3>4. hist'[written' - m] = hist[written - (m - 1)]
          BY <1>0, <2>1, <2>3 DEF TypeOK
      <3> QED BY <3>2, <3>3, <3>4
    <2> QED BY <2>1, <2>2, <2>3
  <1>5. Sizing'
      BY DEF IInv, Sizing, Active, WindowFitsMember, CapacityMeansCapped
  <1> QED BY <1>1, <1>2, <1>3, <1>4, <1>5 DEF IInv

(* The reference gains a match whose every byte repeats the one d before. *)
LEMMA MatchStartStep ==
  ASSUME IInv, NEW length \in 1 .. MaxMatch, NEW d \in 1 .. MaxHistory,
         MatchStart(length, d)
  PROVE  IInv'
  <1> USE DEF MatchStart, caps, member, read
  <1>0. /\ TypeOK /\ Ring /\ History /\ remaining = 0
        /\ length \in Nat /\ 0 < length /\ d \in Nat /\ 0 < d /\ length <= MaxMatch
      BY WindowAssumption DEF IInv, Ring
  <1>1. Unread + length < size
      BY <1>0, MatchFits
  <1>2. d <= historyLen /\ d <= written /\ d <= size
      BY <1>0, HistoryBound DEF TypeOK, InHistory
  <1>3. /\ written \in Nat /\ hist \in [0 .. written - 1 -> Bytes]
        /\ size \in Nat /\ w \in Nat /\ w < size
      BY <1>0 DEF TypeOK
  <1>4. hist' = [k \in 0 .. written + length - 1 |->
                   IF k < written THEN hist[k]
                   ELSE hist[written - d + ((k - written) % d)]]
      OBVIOUS
  <1>5. ASSUME NEW k \in Nat, written <= k
        PROVE  written - d + ((k - written) % d) \in 0 .. written - 1
    <2>1. (k - written) \in Nat
        BY <1>3, <1>5
    <2>2. (k - written) % d \in 0 .. d - 1
        BY <1>0, <2>1, ModRange
    <2> QED BY <1>0, <1>2, <1>3, <2>2
  <1>6. hist' \in [0 .. written + length - 1 -> Bytes]
    <2>1. ASSUME NEW k \in 0 .. written + length - 1
          PROVE  (IF k < written THEN hist[k]
                  ELSE hist[written - d + ((k - written) % d)]) \in Bytes
      <3>1. k \in Nat /\ (k < written \/ written <= k) /\ (k < written => k \in 0 .. written - 1)
          BY <1>0, <1>3
      <3> QED BY <1>3, <1>5, <3>1
    <2> QED BY <1>4, <2>1
  <1>7. TypeOK'
    <2>1. Back(d) \in Nat
        BY <1>0, <1>2, <1>3 DEF Back
    <2> QED BY <1>0, <1>6, <2>1 DEF TypeOK, Phase, ring
  <1>8. Ring'
      BY <1>0, <1>1 DEF TypeOK, Ring, Unread, Back, ring
  <1>9. Copying'
    <2> SUFFICES ASSUME NEW k \in written .. written + length - 1
                 PROVE  hist'[k] = hist'[k - d]
        BY <1>0, <1>2 DEF Copying, historyLen, Back, ring
    <2>1. k \in Nat /\ written <= k /\ k < written + length
        BY <1>0, <1>3
    <2> DEFINE x == k - written
    <2>2. x \in Nat
        BY <1>3, <2>1
    <2>3. hist'[k] = hist[written - d + (x % d)]
        BY <1>0, <1>3, <1>4, <2>1
    <2>4. CASE x < d
      <3>1. x % d = x
          BY <1>0, <2>2, <2>4, ModSmall
      <3>2. k - d \in 0 .. written - 1 /\ written - d + x = k - d
          BY <1>0, <1>2, <1>3, <2>1, <2>4
      <3>3. hist'[k - d] = hist[k - d]
          BY <1>0, <1>3, <1>4, <3>2
      <3> QED BY <2>3, <3>1, <3>2, <3>3
    <2>5. CASE d <= x
      <3>1. x % d = (x - d) % d
          BY <1>0, <2>2, <2>5, ModStep
      <3>2. k - d \in written .. written + length - 1 /\ (k - d) - written = x - d
          BY <1>0, <1>3, <2>1, <2>5
      <3>3. hist'[k - d] = hist[written - d + ((k - d - written) % d)]
          BY <1>0, <1>3, <1>4, <3>2
      <3> QED BY <2>3, <3>1, <3>2, <3>3
    <2> QED BY <1>0, <2>2, <2>4, <2>5
  <1>10. History'
    <2> SUFFICES ASSUME NEW n \in 1 .. historyLen
                 PROVE  buf[Back(n)] = hist'[written - n]
        BY DEF History, historyLen, Back, ring
    <2>1. buf[Back(n)] = hist[written - n]
        BY <1>0 DEF History
    <2>2. written - n \in 0 .. written - 1
        BY <1>0, <1>3, HistoryBound
    <2> QED BY <1>0, <1>3, <1>4, <2>1, <2>2
  <1>11. Sizing'
      BY DEF IInv, Sizing, Active, WindowFitsMember, CapacityMeansCapped, ring
  <1> QED BY <1>7, <1>8, <1>9, <1>10, <1>11 DEF IInv

(* A chunk writes what the reference has next: it reads only bytes written  *)
(* before it began, because it is no longer than the distance.              *)
LEMMA CopyChunkStep ==
  ASSUME IInv, CopyChunk
  PROVE  IInv'
  <1> DEFINE n == Chunk
  <1> USE DEF CopyChunk, caps, member, read
  <1>0. TypeOK /\ Ring /\ Copying /\ History
      BY DEF IInv
  <1>1. /\ n \in Nat /\ 0 < n /\ n <= remaining /\ n <= distance
        /\ srcIdx + n <= size /\ w + n <= size
      BY <1>0, ChunkRange
  <1>2. /\ phase = "copy" /\ Advance(n)
        /\ written' = written + n /\ remaining' = remaining - n
        /\ srcIdx' = IF srcIdx + n >= size THEN 0 ELSE srcIdx + n
        /\ buf' = [i \in DOMAIN buf |->
                     IF w <= i /\ i < w + n THEN buf[srcIdx + (i - w)] ELSE buf[i]]
        /\ UNCHANGED <<size, r, taken, hist, distance, phase, left, wasFull>>
        /\ UNCHANGED <<incomplete, maxWindow, archiveMax, capLatched, dict, method, solid, verdict>>
      OBVIOUS
  <1> HIDE DEF n, CopyChunk
  <1>3. Unread + n < size
      BY <1>0, <1>1 DEF TypeOK, Ring, Unread
  <1>4. /\ 0 < distance /\ distance <= historyLen /\ srcIdx = Back(distance)
        /\ \A k \in written .. written + remaining - 1 : hist[k] = hist[k - distance]
      BY <1>0, <1>2 DEF Copying
  <1>5. /\ size \in Nat /\ w \in Nat /\ w < size /\ written \in Nat /\ distance \in Nat
        /\ srcIdx \in Nat /\ remaining \in Nat
        /\ historyLen \in Nat /\ historyLen <= written /\ historyLen <= size
        /\ buf \in [0 .. size - 1 -> Bytes]
      BY <1>0, HistoryBound DEF TypeOK
  <1>6. /\ w' \in Nat /\ w' < size' /\ wrapped' \in Flag /\ full' = "no"
        /\ wrapped' = "no" => written' = w'
        /\ wrapped' = "yes" => size' <= written'
        /\ r' = Back(Unread)' /\ taken' <= written'
        /\ historyLen' <= historyLen + n /\ historyLen <= historyLen'
        /\ historyLen' <= size /\ historyLen' \in Nat
      BY <1>0, <1>1, <1>2, <1>3, AdvanceRing
  <1>7. buf' \in [0 .. size - 1 -> Bytes]
    <2> SUFFICES ASSUME NEW i \in 0 .. size - 1, w <= i, i < w + n
                 PROVE  srcIdx + (i - w) \in 0 .. size - 1
        BY <1>2, <1>5
    <2> QED BY <1>1, <1>5
  <1>8. TypeOK'
    <2>1. written' \in Nat /\ remaining' \in Nat /\ srcIdx' \in Nat
        BY <1>1, <1>2, <1>5
    <2>2. full' \in Flag
        BY <1>6 DEF Flag
    <2>3. hist' \in [0 .. written' + remaining' - 1 -> Bytes]
      <3>1. hist \in [0 .. written + remaining - 1 -> Bytes]
          BY <1>0 DEF TypeOK
      <3>2. hist' = hist
          BY <1>2
      <3>3. written' + remaining' - 1 = written + remaining - 1
          BY <1>1, <1>2, <1>5
      <3> QED BY <3>1, <3>2, <3>3, Zenon
    <2>4. /\ size' \in Nat /\ MinSize <= size' /\ r' \in Nat /\ r' < size'
          /\ buf' \in [0 .. size' - 1 -> Bytes]
        BY <1>0, <1>2, <1>7 DEF TypeOK
    <2> QED BY <1>0, <1>2, <1>6, <2>1, <2>2, <2>3, <2>4 DEF TypeOK
  <1>9. Ring'
    <2>1. Unread' + remaining' < size'
        BY <1>0, <1>1, <1>2, <1>5 DEF TypeOK, Ring, Unread
    <2>2. left' <= Unread'
        BY <1>0, <1>1, <1>2, <1>5 DEF TypeOK, Ring, Unread
    <2> QED BY <1>0, <1>2, <1>6, <2>1, <2>2 DEF Ring
  <1>10. Copying'
    <2>1. srcIdx' = Back(distance)'
      <3>1. CASE w - distance < 0
          BY <3>1, <1>1, <1>2, <1>4, <1>5 DEF Advance, Back
      <3>2. CASE 0 <= w - distance
          BY <3>2, <1>1, <1>2, <1>4, <1>5 DEF Advance, Back
      <3> QED BY <3>1, <3>2, <1>5
    <2>2. 0 < distance' /\ distance' <= historyLen'
        BY <1>2, <1>4, <1>5, <1>6
    <2>3. \A k \in written' .. written' + remaining' - 1 : hist'[k] = hist'[k - distance']
        BY <1>1, <1>2, <1>4, <1>5
    <2> QED BY <2>1, <2>2, <2>3 DEF Copying
  <1>11. History'
    <2> SUFFICES ASSUME NEW m \in 1 .. historyLen'
                 PROVE  buf'[Back(m)'] = hist'[written' - m]
        BY DEF History
    <2>1. m \in Nat /\ 0 < m /\ m <= size /\ m <= historyLen + n
        BY <1>1, <1>5, <1>6
    <2>2. CASE n < m
      <3>1. /\ Back(m)' = Back(m - n)
            /\ Back(m - n) < w \/ w + n <= Back(m - n)
            /\ Back(m - n) \in 0 .. size - 1
          BY <1>0, <1>1, <1>2, <2>1, <2>2, BackShifts
      <3>2. m - n \in 1 .. historyLen
          BY <1>1, <1>5, <2>1, <2>2
      <3>3. buf[Back(m - n)] = hist[written - (m - n)]
          BY <1>0, <1>2, <3>2 DEF History
      <3>4. buf'[Back(m - n)] = buf[Back(m - n)]
          BY <1>1, <1>2, <1>5, <3>1
      <3>5. written' - m = written - (m - n)
          BY <1>1, <1>2, <1>5, <2>1
      <3> QED BY <1>2, <3>1, <3>3, <3>4, <3>5
    <2>3. CASE m <= n
      <3> DEFINE i == n - m
      <3>1. Back(m)' = w + i
          BY <1>0, <1>1, <1>2, <2>1, <2>3, BackShifts
      <3>2. i \in Nat /\ i < n
          BY <1>1, <2>1, <2>3
      <3>3. buf'[w + i] = buf[srcIdx + i]
          BY <1>1, <1>2, <1>5, <3>2
      <3>4. distance - i \in 1 .. historyLen /\ Back(distance - i) = srcIdx + i
          BY <1>1, <1>4, <1>5, <3>2 DEF Back
      <3>5. buf[srcIdx + i] = hist[written - (distance - i)]
          BY <1>0, <1>2, <3>4 DEF History
      <3>6. hist[written + i] = hist[(written + i) - distance]
          BY <1>1, <1>4, <1>5, <3>2
      <3>7. written' - m = written + i /\ written - (distance - i) = (written + i) - distance
          BY <1>1, <1>2, <1>5, <2>1, <3>2
      <3> QED BY <1>2, <3>1, <3>3, <3>5, <3>6, <3>7
    <2> QED BY <1>1, <2>1, <2>2, <2>3
  <1>12. Sizing'
      BY <1>2 DEF IInv, Sizing, Active, WindowFitsMember, CapacityMeansCapped
  <1> QED BY <1>8, <1>9, <1>10, <1>11, <1>12 DEF IInv

-----------------------------------------------------------------------------
(* Every step keeps the invariant. *)
LEMMA NextIInv == IInv /\ [Next]_vars => IInv'
  <1> SUFFICES ASSUME IInv, [Next]_vars
               PROVE  IInv'
      OBVIOUS
  <1>1. ASSUME NEW n \in Caps, SetMaxWindow(n)
        PROVE  IInv'
      BY <1>1, SetMaxWindowStep
  <1>2. CASE RefuseMember
      BY <1>2, RefuseMemberStep
  <1>3. CASE FinishMember
      BY <1>3, FinishMemberStep
  <1>4. CASE EndOfArchive
      BY <1>4, EndOfArchiveStep
  <1>5. CASE ReaderReset
      BY <1>5, ReaderResetStep
  <1>6. ASSUME NEW m \in {"stored", "packed"}, NEW d \in Dicts, NEW s \in Flag,
               Admit(m, d, s) \/ AdmitFails(m, d, s)
        PROVE  IInv'
      BY <1>6, AdmitStep, AdmitFailsStep
  <1>7. CASE FillStart
      BY <1>7, FillStartStep
  <1>8. CASE FillEnd
      BY <1>8, FillEndStep
  <1>9. ASSUME NEW c \in Bytes, Literal(c)
        PROVE  IInv'
      BY <1>9, LiteralStep
  <1>10. ASSUME NEW length \in 1 .. MaxMatch, NEW d \in 1 .. MaxHistory,
                MatchStart(length, d)
         PROVE  IInv'
      BY <1>10, MatchStartStep
  <1>11. ASSUME NEW d \in 0 .. MaxHistory + 1, MatchRefused(d)
         PROVE  IInv'
    <2>1. d \in Nat
        BY WindowAssumption
    <2> QED BY <1>11, <2>1, MatchRefusedStep
  <1>12. CASE CopyChunk
      BY <1>12, CopyChunkStep
  <1>13. CASE CopyEnd
      BY <1>13, CopyEndStep
  <1>14. ASSUME NEW p \in Requests, ReadStart(p)
         PROVE  IInv'
      BY <1>14, ReadStartStep
  <1>15. CASE ReadChunk
      BY <1>15, ReadChunkStep
  <1>16. CASE ReadEnd
      BY <1>16, ReadEndStep
  <1>17. CASE UNCHANGED vars
      BY <1>17 DEF vars, ring, caps, member, copy, read, ghost, IInv, TypeOK,
         Ring, Copying, History, Sizing, Unread, Back, historyLen, Active,
         WindowFitsMember, CapacityMeansCapped
  <1> QED BY <1>1, <1>2, <1>3, <1>4, <1>5, <1>6, <1>7, <1>8, <1>9, <1>10,
             <1>11, <1>12, <1>13, <1>14, <1>15, <1>16, <1>17 DEF Next

(* The inductive invariant holds in every reachable state of the window. *)
THEOREM WindowInvariant == Spec => []IInv
  BY InitIInv, NextIInv, PTL DEF Spec

(* The window's fields keep their ranges: no index ever leaves the ring. *)
THEOREM TypeCorrect == Spec => []TypeOK
  <1>1. IInv => TypeOK
      BY DEF IInv
  <1> QED BY <1>1, WindowInvariant, PTL

(* For every window size, whatever CopyBytes allows a match to reach is     *)
(* byte for byte what unlimited LZ77 decoding produced since the history    *)
(* was discarded: never another file's bytes, never a broken repetition.    *)
THEOREM WindowIsHistory == Spec => []HistoryMatches
  <1>1. IInv => HistoryMatches
      BY HistoryBound DEF IInv, History, HistoryMatches
  <1> QED BY <1>1, WindowInvariant, PTL

(* For every window size, the caller is served each decoded byte once and   *)
(* in order, because below the fill target a match cannot overrun the read  *)
(* index.                                                                   *)
THEOREM OutputInOrder == Spec => []ServesInOrder
  <1>1. IInv => ServesInOrder
    <2> SUFFICES ASSUME IInv, phase # "over" PROVE ServesInOrder
        BY DEF ServesInOrder
    <2>1. /\ TypeOK /\ Ring /\ History
          /\ Available = Unread /\ Unread \in Nat /\ Unread < size
        BY AvailableIsUnread DEF IInv
    <2>2. ASSUME NEW k \in 0 .. Available - 1
          PROVE  buf[IF r + k >= size THEN r + k - size ELSE r + k] = hist[taken + k]
      <3> DEFINE n == Unread - k
      <3>1. /\ n \in 1 .. historyLen
            /\ Back(n) = IF r + k >= size THEN r + k - size ELSE r + k
            /\ written - n = taken + k
          BY <2>1 DEF TypeOK, Ring, Unread, Back, historyLen, Flag
      <3> HIDE DEF n
      <3>2. buf[Back(n)] = hist[written - n]
          BY <2>1, <3>1 DEF History
      <3> QED BY <3>1, <3>2
    <2> QED BY <2>1, <2>2 DEF ServesInOrder, Unread
  <1> QED BY <1>1, WindowInvariant, PTL

(* Read always moves as many bytes as Available promised: its break on an   *)
(* empty run is never taken.                                                *)
THEOREM ReadsInFull == Spec => []ReadKeepsPromise
  <1>1. IInv => ReadKeepsPromise
      BY DEF IInv, Ring, ReadKeepsPromise
  <1> QED BY <1>1, WindowInvariant, PTL

(* A match is refused as a capacity limit only when the cap in force is     *)
(* smaller than the dictionary the member declared.                         *)
THEOREM CapacityVerdictSound == Spec => []CapacityMeansCapped
  <1>1. IInv => CapacityMeansCapped
      BY DEF IInv, Sizing
  <1> QED BY <1>1, WindowInvariant, PTL

(* A compressed member always decodes in a window as large as its declared  *)
(* dictionary or as the cap allows.                                         *)
THEOREM MemberFits == Spec => []WindowFitsMember
  <1>1. IInv => WindowFitsMember
      BY DEF IInv, Sizing
  <1> QED BY <1>1, WindowInvariant, PTL

(* A solid member starts on exactly the history its predecessors left. *)
THEOREM SolidContinues == Spec => SolidKeepsHistory
  <1>1. ASSUME IInv, [Next]_vars, phase = "between", phase' = "open", solid' = "yes"
        PROVE  hist' = hist /\ size' = size
    <2>1. PICK m \in {"stored", "packed"}, d \in Dicts, s \in Flag : Admit(m, d, s)
        BY <1>1 DEF Next, vars, SetMaxWindow, RefuseMember, FinishMember, EndOfArchive,
           ReaderReset, AdmitFails, FillStart, FillEnd, Literal, MatchStart,
           MatchRefused, CopyChunk, CopyEnd, ReadStart, ReadChunk, ReadEnd
    <2>2. s = "yes" /\ ~Grows(m, d, s)
        BY <1>1, <2>1 DEF IInv, TypeOK, Flag, Admit, SizeRefuses, BeginRefuses, Grows
    <2> QED BY <2>1, <2>2 DEF Admit, KeepHistory
  <1>2. IInv /\ [Next]_vars =>
          [phase = "between" /\ phase' = "open" /\ solid' = "yes" =>
             hist' = hist /\ size' = size]_vars
      BY <1>1
  <1> QED BY <1>2, WindowInvariant, PTL DEF Spec, SolidKeepsHistory

=============================================================================
