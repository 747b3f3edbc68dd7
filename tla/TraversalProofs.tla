--------------------------- MODULE TraversalProofs ---------------------------
(***************************************************************************)
(* Proofs about Traversal, for archives of any number of volumes and       *)
(* blocks, in either format, with any sizes and any volumes missing.       *)
(***************************************************************************)
EXTENDS Traversal, TLAPS

(* The archives without the blocks of the finding on staged headers: where  *)
(* a RAR5 member's continuation was expected, no new member without payload.*)
NoStagedEmpty == "rar5" \in DOMAIN Bounds => ~Bounds["rar5"].stagedEmpty

Entry == [empty: BOOLEAN, left: Nat, lack: Nat, last: BOOLEAN, comp: BOOLEAN,
          src: 0 .. MaxVolumes, held: BOOLEAN, skips: Nat, gapped: BOOLEAN, done: Done]
Fields == [solid: BOOLEAN, solidSeen: BOOLEAN, fileSeen: BOOLEAN, damaged: BOOLEAN,
           late: BOOLEAN, endSeen: BOOLEAN, memberFailed: BOOLEAN, fatal: BOOLEAN,
           volIndex: 0 .. MaxVolumes]
History == [run: SUBSET Id, owed: SUBSET Id, cut: BOOLEAN, torn: BOOLEAN, unended: BOOLEAN,
            foreign: BOOLEAN]
Archive == [rar4: BOOLEAN, listing: BOOLEAN, start: Nat, numbered: BOOLEAN, closed: BOOLEAN,
            blocks: 0 .. MaxHeaders, skipped: Nat]
Format == IF archive.rar4 THEN "rar4" ELSE "rar5"

StagedHeader == staged = NoHeader \/ (staged.id \in Id /\ staged \in NewMember(staged.id))

Types ==
  /\ pc \in {"idle", "scan", "read", "fill", "splice", "panic"}
  /\ draining \in BOOLEAN /\ reading \in {0} \cup Id /\ entry \in {0} \cup Id
  /\ vol \in {"nil", "open", "failed"}
  /\ body \in [n: Units, have: Units, owner: {0} \cup Id] /\ body.have <= body.n
  /\ StagedHeader
  /\ mem \in [Id -> Entry] /\ win \in [avail: Nat, incomplete: BOOLEAN]
  /\ r \in Fields /\ ghost \in History
  /\ ret \in {"none", "entry", "eof", "damaged", "notFirst", "fatal"}
  /\ archive \in Archive /\ Format \in DOMAIN Bounds

(* The archive cannot be read on: nothing but Reset gets out of this. *)
Stuck == pc = "idle" /\ r.fatal /\ (entry = 0 \/ ~mem[entry].held)

(* Only the member in progress is read. *)
Control ==
  /\ reading # 0 <=> pc \in {"read", "fill", "splice"}
  /\ reading # 0 => reading = entry
  /\ draining => reading # 0
  /\ pc \in {"scan", "panic"} => entry = 0
  /\ \A k \in Id : mem[k].held /\ mem[k].done = "none" => k = entry
  /\ pc \in {"fill", "splice"} => mem[reading].done = "none" /\ mem[reading].left > 0
  /\ pc = "fill" => mem[reading].comp
  /\ pc = "splice" => ~mem[reading].last
  /\ archive.rar4 /\ entry # 0 => ~mem[entry].comp
  /\ archive.listing => entry = 0

(* The end NextEntry reported stands until the next call. *)
Ended ==
  ret \in {"eof", "damaged", "notFirst"} =>
    /\ pc = "idle" /\ entry = 0
    /\ ret = "eof" => ~r.damaged /\ staged = NoHeader
    /\ ret = "damaged" => r.damaged
    /\ ret = "notFirst" => r.late /\ ~r.damaged
Damage == ghost.cut <=> r.damaged

(* The blocks met so far. *)
Blocks ==
  /\ entry <= archive.blocks
  /\ ghost.run \subseteq 1 .. archive.blocks
  /\ staged # NoHeader => staged.id <= archive.blocks /\ staged.id # entry
  /\ \A k \in Id : k > archive.blocks \/ (staged # NoHeader /\ k = staged.id) =>
       mem[k] = NoMember

(* Whose payload the volume stands on. *)
Sources ==
  /\ entry # 0 /\ mem[entry].done = "none" => mem[entry].src <= r.volIndex
  /\ pc = "splice" /\ vol # "nil" => mem[entry].src < r.volIndex
  /\ entry # 0 /\ mem[entry].done = "none" /\ mem[entry].src = r.volIndex /\ vol # "nil" =>
       body.owner = entry
  /\ ~ghost.foreign

(* A staged header stands on its own volume, and the member that met it can *)
(* read no more than the window holds.                                      *)
Staging ==
  staged # NoHeader =>
    /\ vol # "nil" /\ body.owner = staged.id /\ pc # "splice" /\ staged.kind # "nameless"
    /\ entry # 0 /\ mem[entry].done = "none" =>
         /\ mem[entry].comp /\ ~mem[entry].last /\ body.n > 0
         /\ mem[entry].src < r.volIndex
    /\ staged.solid \/ staged.kind = "link" \/ ghost.run \subseteq {staged.id}
    /\ staged.kind = "link" => staged.id \notin ghost.run
Owing ==
  /\ ret = "eof" => ghost.owed = {}
  /\ \/ ghost.owed \subseteq (IF staged = NoHeader THEN {} ELSE {staged.id})
     \/ pc = "panic"
     \/ Stuck

(* What a member still lacks is what is neither delivered nor decoded. *)
Lacking ==
  /\ \A k \in Id : mem[k].done \in {"eof", "unchecked"} => mem[k].lack = 0
  /\ \A k \in Id : mem[k].done = "none" /\ ~mem[k].comp => mem[k].lack = 0
  /\ entry # 0 /\ mem[entry].comp =>
       mem[entry].lack = IF mem[entry].left > win.avail THEN mem[entry].left - win.avail ELSE 0

(* The history a solid member continues is whole, or known not to be. *)
Solid ==
  \/ archive.rar4 \/ archive.listing \/ pc = "panic" \/ Stuck \/ win.incomplete
  \/ entry # 0 /\ mem[entry].done = "failed"
  \/ \A k \in ghost.run : \/ mem[k].done \in {"eof", "unchecked"} 
                          \/ k = entry
                          \/ staged # NoHeader /\ k = staged.id

(* Where the volumes were left before a RAR 1.5-4.x end header was judged:  *)
(* inside a member, which then cannot end well if a volume is missing.      *)
Unjudged ==
  /\ archive.rar4 /\ archive.numbered
  /\ ~r.damaged /\ ~r.endSeen /\ ~ghost.unended /\ ~Stuck /\ pc # "panic"
Doomed(e) ==
  \/ e.done \in {"failed", "unchecked"}
  \/ /\ e.done = "none" /\ ~e.empty
     /\ e.gapped \/ (pc = "splice" /\ e.skips < archive.skipped)
LateStart ==
  /\ r.volIndex <= 1 => archive.skipped = 0
  /\ \A k \in Id : mem[k].empty => mem[k].left = 0
  /\ entry # 0 => mem[entry].done # "none" \/ mem[entry].skips <= archive.skipped
  /\ Unjudged /\ r.volIndex > 0 /\ vol = "nil" =>
       \/ r.memberFailed
       \/ pc = "splice"
       \/ entry # 0 /\ mem[entry].done = "failed"
  /\ Unjudged /\ archive.skipped > 0 => r.memberFailed \/ (entry # 0 /\ Doomed(mem[entry]))
  /\ r.late => archive.start > 0 \/ ghost.unended \/ r.damaged

(* What holds of every archive, and what rests on the staged header. *)
Base == Types /\ Control /\ Ended /\ Damage /\ Blocks /\ Lacking /\ LateStart
IInv == Base /\ Sources /\ Staging /\ Owing /\ Solid

-----------------------------------------------------------------------------
(* Records. *)

LEMMA Headers == MaxHeaders \in Nat /\ 0 \notin Id /\ Id \subseteq Nat
  BY BoundsAssumption DEF Id

LEMMA VerdictSets ==
  ASSUME NEW e \in Entry
  PROVE  /\ verifyChecksum(e) \subseteq {"eof", "unchecked", "failed"}
         /\ e.left > 0 => verifyChecksum(e) = {"failed"}
         /\ e.gapped /\ ~e.empty => verifyChecksum(e) \subseteq {"unchecked", "failed"}
         /\ severActive(e) \subseteq {"eof", "unchecked", "failed"}
         /\ e.done # "none" => severActive(e) = {e.done}
         /\ e.done = "none" /\ e.left > 0 => severActive(e) = {"failed"}
         /\ e.done = "none" /\ e.left = 0 => severActive(e) = verifyChecksum(e)
  <1> USE DEF verifyChecksum, severActive, short, Entry, Done
  <1>1. e.left \in Nat /\ e.done \in Done
      OBVIOUS
  <1>2. verifyChecksum(e) \subseteq {"eof", "unchecked", "failed"}
      OBVIOUS
  <1> QED BY <1>1, <1>2

LEMMA FinishedEntry ==
  ASSUME NEW e \in Entry, NEW v \in Done
  PROVE  /\ Finished(e, v) \in Entry
         /\ Finished(e, v).left = e.left /\ Finished(e, v).lack = e.lack
         /\ Finished(e, v).done = v /\ ~Finished(e, v).held /\ ~Finished(e, v).comp
         /\ ~Finished(e, v).empty
  <1>1. e.left \in Nat /\ e.lack \in Nat /\ 0 \in 0 .. MaxVolumes
      BY BoundsAssumption DEF Entry
  <1>2. NoMember \in Entry /\ NoMember.held = FALSE /\ NoMember.comp = FALSE /\ NoMember.empty = FALSE
      BY <1>1 DEF NoMember, Entry, Done
  <1>3. Finished(e, v) \in Entry
      BY <1>1, <1>2 DEF Finished, Entry
  <1>4. /\ Finished(e, v).left = e.left /\ Finished(e, v).lack = e.lack
        /\ Finished(e, v).done = v
      BY <1>1, <1>2 DEF Finished, Entry
  <1>5. /\ Finished(e, v).held = NoMember.held /\ Finished(e, v).comp = NoMember.comp
        /\ Finished(e, v).empty = NoMember.empty
      BY <1>1, <1>2 DEF Finished, Entry
  <1> QED BY <1>2, <1>3, <1>4, <1>5

LEMMA FieldUpdates ==
  ASSUME NEW x \in Fields, NEW b \in BOOLEAN, NEW c \in BOOLEAN, NEW n \in 0 .. MaxVolumes
  PROVE  /\ [x EXCEPT !.fatal = b] \in Fields
         /\ [x EXCEPT !.memberFailed = b] \in Fields
         /\ [x EXCEPT !.damaged = b] \in Fields
         /\ [x EXCEPT !.fileSeen = b] \in Fields
         /\ [x EXCEPT !.volIndex = n] \in Fields
         /\ [x EXCEPT !.solid = b, !.solidSeen = c] \in Fields
         /\ [x EXCEPT !.endSeen = b, !.late = c] \in Fields
  BY DEF Fields

LEMMA SettleTypes ==
  ASSUME r \in Fields, win \in [avail: Nat, incomplete: BOOLEAN], NEW e \in Entry, Settle(e)
  PROVE  /\ entry' = 0
         /\ r' \in Fields /\ r'.memberFailed = (r.memberFailed \/ MarksFailed(e))
         /\ win' \in [avail: Nat, incomplete: BOOLEAN]
         /\ win'.avail = win.avail /\ win'.incomplete = (win.incomplete \/ MarksIncomplete(e))
         /\ r'.fatal = r.fatal
  BY DEF Settle, Fields, MarksIncomplete, MarksFailed

LEMMA HeaderFields ==
  ASSUME Types, NEW id, NEW h \in NewMember(id) \cup Continuation(id)
  PROVE  /\ h.id = id /\ h.first \in BOOLEAN /\ h.last \in BOOLEAN /\ h.comp \in BOOLEAN
         /\ h.first => h.kind \in FirstKind /\ h.solid \in BOOLEAN /\ h.size \in Nat
         /\ h.first => h \in NewMember(id)
         /\ ~h.first => h.kind \in {"same", "other", "bad"}
         /\ h # NoHeader
  <1>1. Bound.sizes \subseteq Nat
      BY BoundsAssumption DEF Types, Bound, Format
  <1>2. CASE h \in NewMember(id)
      <2>1. h.id = id /\ h.first = TRUE /\ h.last \in BOOLEAN /\ h.comp \in BOOLEAN
            /\ h.kind \in FirstKind /\ h.solid \in BOOLEAN /\ h.size \in Nat
          BY <1>1, <1>2 DEF NewMember
      <2>2. "first" \in DOMAIN h
          BY <1>2 DEF NewMember
      <2>3. h # NoHeader
          BY <2>2 DEF NoHeader
      <2> QED BY <1>2, <2>1, <2>3
  <1>3. CASE h \in Continuation(id)
      <2>1. h.id = id /\ h.first = FALSE /\ h.last \in BOOLEAN /\ h.comp \in BOOLEAN
            /\ h.kind \in {"same", "other", "bad"}
          BY <1>3 DEF Continuation
      <2>2. "first" \in DOMAIN h
          BY <1>3 DEF Continuation
      <2>3. h # NoHeader
          BY <2>2 DEF NoHeader
      <2> QED BY <2>1, <2>3
  <1> QED BY <1>2, <1>3

LEMMA NoMemberTypes ==
  /\ NoMember \in Entry /\ NoMember.left = 0 /\ NoMember.lack = 0 /\ NoMember.done = "none"
  /\ ~NoMember.held /\ ~NoMember.comp /\ ~NoMember.empty /\ ~NoMember.gapped
  /\ \A v \in Done : /\ [NoMember EXCEPT !.done = v] \in Entry
                     /\ [NoMember EXCEPT !.done = v].done = v
                     /\ [NoMember EXCEPT !.done = v].left = 0
                     /\ [NoMember EXCEPT !.done = v].lack = 0
                     /\ ~[NoMember EXCEPT !.done = v].held
                     /\ ~[NoMember EXCEPT !.done = v].comp
                     /\ ~[NoMember EXCEPT !.done = v].empty
  <1>1. 0 \in 0 .. MaxVolumes
      BY BoundsAssumption
  <1>2. NoMember \in Entry /\ NoMember.held = FALSE /\ NoMember.comp = FALSE /\ NoMember.empty = FALSE
        /\ NoMember.left = 0 /\ NoMember.lack = 0 /\ NoMember.done = "none"
        /\ NoMember.gapped = FALSE
      BY <1>1 DEF NoMember, Entry, Done
  <1>3. ASSUME NEW v \in Done
        PROVE  /\ [NoMember EXCEPT !.done = v] \in Entry
               /\ [NoMember EXCEPT !.done = v].done = v
               /\ [NoMember EXCEPT !.done = v].left = 0
               /\ [NoMember EXCEPT !.done = v].lack = 0
               /\ [NoMember EXCEPT !.done = v].held = NoMember.held
               /\ [NoMember EXCEPT !.done = v].comp = NoMember.comp
               /\ [NoMember EXCEPT !.done = v].empty = NoMember.empty
      BY <1>2 DEF Entry
  <1> QED BY <1>2, <1>3

-----------------------------------------------------------------------------
(* What the steps of a Read do to the member. *)

(* The caller's Read is over, or the drain reads again. *)
LEMMA ReturnsFacts ==
  ASSUME Types, Returns
  PROVE  /\ draining => pc' = "read" /\ reading' = reading
         /\ ~draining => pc' = "idle" /\ reading' = 0
  BY DEF Types, Returns

LEMMA EndsFacts ==
  ASSUME Types, reading \in Id, NEW v \in {"eof", "unchecked", "failed"}, Ends(v)
  PROVE  /\ mem' \in [Id -> Entry]
         /\ \A k \in Id : k # reading => mem'[k] = mem[k]
         /\ mem'[reading].done = v /\ mem'[reading].left = mem[reading].left
         /\ mem'[reading].lack = mem[reading].lack
         /\ ~mem'[reading].held /\ ~mem'[reading].comp /\ ~mem'[reading].empty
         /\ draining => pc' = "read" /\ reading' = reading
         /\ ~draining => pc' = "idle" /\ reading' = 0
  <1>1. mem \in [Id -> Entry] /\ mem[reading] \in Entry /\ v \in Done
      BY DEF Types, Done
  <1>2. mem' = [mem EXCEPT ![reading] = Finished(mem[reading], v)]
      BY DEF Ends
  <1>3. mem'[reading] = Finished(mem[reading], v)
      BY <1>1, <1>2
  <1>4. mem' \in [Id -> Entry] /\ \A k \in Id : k # reading => mem'[k] = mem[k]
      BY <1>1, <1>2, FinishedEntry
  <1>5. Returns
      BY DEF Ends
  <1> QED BY <1>1, <1>3, <1>4, <1>5, FinishedEntry, ReturnsFacts

LEMMA DeliversFacts ==
  ASSUME Types, reading \in Id, mem[reading].done = "none", NEW n \in Nat, n <= mem[reading].left,
         Delivers(n)
  PROVE  /\ mem' \in [Id -> Entry]
         /\ \A k \in Id : k # reading => mem'[k] = mem[k]
         /\ mem'[reading].left = mem[reading].left - n
         /\ mem'[reading].lack = mem[reading].lack
         /\ \/ /\ mem'[reading].done = "none" /\ mem[reading].left - n > 0
               /\ mem'[reading].last = mem[reading].last /\ mem'[reading].comp = mem[reading].comp
               /\ mem'[reading].src = mem[reading].src /\ mem'[reading].held = mem[reading].held
               /\ mem'[reading].skips = mem[reading].skips
               /\ mem'[reading].gapped = mem[reading].gapped
               /\ mem'[reading].empty = mem[reading].empty
            \/ /\ mem'[reading].done \in {"eof", "unchecked", "failed"} /\ mem[reading].left = n
               /\ ~mem'[reading].held /\ ~mem'[reading].comp /\ ~mem'[reading].empty
               /\ mem[reading].gapped /\ ~mem[reading].empty => mem'[reading].done # "eof"
         /\ draining => pc' = "read" /\ reading' = reading
         /\ ~draining => pc' = "idle" /\ reading' = 0
  <1> DEFINE e == [mem[reading] EXCEPT !.left = @ - n]
  <1>1. mem \in [Id -> Entry] /\ mem[reading] \in Entry
      BY DEF Types
  <1>2. /\ e \in Entry /\ e.left = mem[reading].left - n /\ e.lack = mem[reading].lack
        /\ e.done = "none" /\ e.last = mem[reading].last /\ e.comp = mem[reading].comp
        /\ e.src = mem[reading].src /\ e.held = mem[reading].held
        /\ e.skips = mem[reading].skips /\ e.gapped = mem[reading].gapped
        /\ e.empty = mem[reading].empty
      BY <1>1 DEF Entry
  <1>3. PICK v \in IF short(e) THEN {"none"} ELSE verifyChecksum(e) :
          mem' = [mem EXCEPT ![reading] = IF v = "none" THEN e ELSE Finished(e, v)]
      BY DEF Delivers, me
  <1>4. Returns
      BY DEF Delivers
  <1> HIDE DEF e
  <1>5. CASE short(e)
      <2>1. v = "none" /\ mem' = [mem EXCEPT ![reading] = e]
          BY <1>3, <1>5
      <2>2. mem'[reading] = e /\ mem' \in [Id -> Entry] /\ \A k \in Id : k # reading => mem'[k] = mem[k]
          BY <1>1, <1>2, <2>1
      <2> QED BY <1>2, <1>4, <1>5, <2>2, ReturnsFacts DEF short
  <1>6. CASE ~short(e)
      <2>1. v \in verifyChecksum(e) /\ v \in {"eof", "unchecked", "failed"} /\ v \in Done
          BY <1>2, <1>3, <1>6, VerdictSets DEF Done
      <2>2. mem' = [mem EXCEPT ![reading] = Finished(e, v)]
          BY <1>3, <2>1
      <2>3. mem'[reading] = Finished(e, v) /\ mem' \in [Id -> Entry]
            /\ \A k \in Id : k # reading => mem'[k] = mem[k]
          BY <1>1, <1>2, <2>1, <2>2, FinishedEntry
      <2>4. e.left = 0 /\ mem[reading].left = n
          <3>1. mem[reading].left \in Nat
              BY <1>1 DEF Entry
          <3> QED BY <1>2, <1>6, <3>1 DEF short
      <2>5. mem[reading].gapped /\ ~mem[reading].empty => v # "eof"
          BY <1>2, <2>1, VerdictSets
      <2>6. /\ Finished(e, v).left = e.left /\ Finished(e, v).lack = e.lack
            /\ Finished(e, v).done = v /\ ~Finished(e, v).held /\ ~Finished(e, v).comp
            /\ ~Finished(e, v).empty
          BY <1>2, <2>1, FinishedEntry
      <2> QED BY <1>2, <1>4, <2>1, <2>3, <2>4, <2>5, <2>6, ReturnsFacts
  <1> QED BY <1>5, <1>6

-----------------------------------------------------------------------------
(* What each step does, field by field. *)

LEMMA ReadingIsEntry ==
  ASSUME Base, pc \in {"read", "fill", "splice"}
  PROVE  /\ reading \in Id /\ reading = entry /\ mem[reading] \in Entry
         /\ mem \in [Id -> Entry] /\ r \in Fields /\ archive \in Archive
         /\ win \in [avail: Nat, incomplete: BOOLEAN] /\ ghost \in History
         /\ body \in [n: Units, have: Units, owner: {0} \cup Id]
         /\ mem[reading].left \in Nat /\ mem[reading].src \in 0 .. MaxVolumes
         /\ r.volIndex \in 0 .. MaxVolumes
  BY DEF Base, Types, Control, Entry, Fields

(* The member in progress gets its verdict v, and Read returns it. *)
Verdict(v) ==
  /\ mem' \in [Id -> Entry]
  /\ \A k \in Id : k # entry => mem'[k] = mem[k]
  /\ mem'[entry].done = v /\ mem'[entry].left = mem[entry].left
  /\ mem'[entry].lack = mem[entry].lack
  /\ ~mem'[entry].held /\ ~mem'[entry].comp /\ ~mem'[entry].empty
  /\ draining => pc' = "read" /\ reading' = reading
  /\ ~draining => pc' = "idle" /\ reading' = 0

LEMMA EndsVerdict ==
  ASSUME Base, pc \in {"read", "fill", "splice"}, NEW v \in {"eof", "unchecked", "failed"}, Ends(v)
  PROVE  Verdict(v)
  <1>1. reading \in Id /\ reading = entry /\ Types
      BY ReadingIsEntry DEF Base
  <1> QED BY <1>1, EndsFacts DEF Verdict

LEMMA NextEntryFacts ==
  ASSUME Base, NextEntry
  PROVE  /\ pc = "idle" /\ UNCHANGED <<vol, body, staged, archive, ghost>>
         /\ \/ r.fatal /\ ret' = "fatal" /\ UNCHANGED <<pc, draining, reading, entry, mem, win, r>>
            \/ /\ ~r.fatal /\ ret' = "none" /\ entry = 0 /\ pc' = "scan"
               /\ UNCHANGED <<draining, reading, entry, mem, win, r>>
            \/ /\ ~r.fatal /\ ret' = "none" /\ entry # 0 /\ r.solid
               /\ pc' = "read" /\ draining' = TRUE /\ reading' = entry
               /\ UNCHANGED <<entry, mem, win, r>>
            \/ /\ ~r.fatal /\ ret' = "none" /\ entry # 0 /\ pc' = "scan" /\ entry' = 0
               /\ UNCHANGED <<draining, reading>>
               /\ mem' \in [Id -> Entry] /\ \A k \in Id : k # entry => mem'[k] = mem[k]
               /\ mem'[entry].done \in severActive(mem[entry])
               /\ mem'[entry].left = mem[entry].left /\ mem'[entry].lack = mem[entry].lack
               /\ ~mem'[entry].held /\ ~mem'[entry].comp /\ ~mem'[entry].empty
               /\ r' \in Fields /\ win' \in [avail: Nat, incomplete: BOOLEAN]
               /\ r' = [r EXCEPT !.memberFailed = @ \/ MarksFailed(mem'[entry])]
               /\ win' = [win EXCEPT !.incomplete = @ \/ MarksIncomplete(mem'[entry])]
  <1>1. /\ pc = "idle" /\ UNCHANGED <<vol, body, staged, archive, ghost>>
        /\ ret' = IF r.fatal THEN "fatal" ELSE "none"
      BY DEF NextEntry
  <1>2. CASE /\ ~r.fatal /\ entry # 0 /\ ~r.solid /\ pc' = "scan"
             /\ \E d \in severActive(mem[entry]) :
                  mem' = [mem EXCEPT ![entry] = Sever(@, d)] /\ Settle(mem'[entry])
             /\ UNCHANGED <<draining, reading>>
      <2>1. entry \in Id /\ mem \in [Id -> Entry] /\ mem[entry] \in Entry
            /\ r \in Fields /\ win \in [avail: Nat, incomplete: BOOLEAN]
          BY <1>2 DEF Base, Types
      <2>2. PICK d \in severActive(mem[entry]) :
              mem' = [mem EXCEPT ![entry] = Finished(mem[entry], d)] /\ Settle(mem'[entry])
          BY <1>2 DEF Sever
      <2>3. d \in Done
          BY <2>1, VerdictSets DEF Done
      <2>4. mem'[entry] = Finished(mem[entry], d) /\ \A k \in Id : k # entry => mem'[k] = mem[k]
          BY <2>1, <2>2
      <2>5. mem' \in [Id -> Entry] /\ mem'[entry] \in Entry
          BY <2>1, <2>2, <2>3, FinishedEntry
      <2>6. /\ mem'[entry].done = d
            /\ mem'[entry].left = mem[entry].left /\ mem'[entry].lack = mem[entry].lack
            /\ ~mem'[entry].held /\ ~mem'[entry].comp /\ ~mem'[entry].empty
          BY <2>1, <2>3, <2>4, FinishedEntry
      <2>7. /\ entry' = 0 /\ r' = [r EXCEPT !.memberFailed = @ \/ MarksFailed(mem'[entry])]
            /\ win' = [win EXCEPT !.incomplete = @ \/ MarksIncomplete(mem'[entry])]
          BY <2>2 DEF Settle
      <2>8. r' \in Fields /\ win' \in [avail: Nat, incomplete: BOOLEAN]
          BY <2>1, <2>2, <2>5, SettleTypes
      <2> QED BY <1>1, <1>2, <2>4, <2>5, <2>6, <2>7, <2>8
  <1> QED BY <1>1, <1>2 DEF NextEntry

LEMMA StagedKept ==
  ASSUME StagedHeader, staged' \in {staged, NoHeader}, archive'.rar4 = archive.rar4
  PROVE  StagedHeader'
  BY DEF StagedHeader, NewMember, Bound

LEMMA NoBodyTypes ==
  /\ NoBody \in [n: Units, have: Units, owner: {0} \cup Id] /\ NoBody.have <= NoBody.n
  /\ NoBody.n = 0 /\ NoBody.have = 0 /\ NoBody.owner = 0
  BY BoundsAssumption DEF NoBody, Units

(* A block header is read: nothing else of the archive changes. *)
LEMMA BlockRead ==
  ASSUME Types, Block
  PROVE  /\ archive' \in Archive /\ archive.blocks \in Nat /\ archive'.blocks = archive.blocks + 1
         /\ archive'.blocks \in Id
         /\ archive'.rar4 = archive.rar4 /\ archive'.listing = archive.listing
         /\ archive'.numbered = archive.numbered /\ archive'.skipped = archive.skipped
         /\ archive'.start = archive.start
         /\ vol = "open" /\ (pc = "splice" \/ (pc = "scan" /\ staged = NoHeader))
         /\ body.have = body.n
         /\ Format' \in DOMAIN Bounds
  <1>1. archive \in Archive /\ archive.blocks < MaxHeaders /\ MaxHeaders \in Nat
        /\ archive' = [archive EXCEPT !.blocks = archive.blocks + 1]
      BY BoundsAssumption DEF Types, Block
  <1>2. archive.blocks \in 0 .. MaxHeaders /\ archive.blocks + 1 \in 0 .. MaxHeaders
        /\ archive.blocks + 1 \in Id
      BY <1>1 DEF Archive, Id
  <1>3. archive' \in Archive
      BY <1>1, <1>2 DEF Archive
  <1>4. /\ archive'.blocks = archive.blocks + 1
        /\ archive'.rar4 = archive.rar4 /\ archive'.listing = archive.listing
        /\ archive'.numbered = archive.numbered /\ archive'.skipped = archive.skipped
        /\ archive'.start = archive.start
      BY <1>1 DEF Archive
  <1>5. Format' \in DOMAIN Bounds
      BY <1>4 DEF Types, Format
  <1> QED BY <1>2, <1>3, <1>4, <1>5 DEF Block, AtHeader

(* A step that meets no new member. *)
LEMMA BlocksKept ==
  ASSUME Types, Blocks, archive' \in Archive, archive.blocks <= archive'.blocks,
         entry' \in {0, entry}, ghost'.run \subseteq ghost.run, staged' \in {staged, NoHeader},
         \A k \in Id : mem'[k] = mem[k] \/ mem'[k] = NoMember \/ k = entry
  PROVE  Blocks'
  <1>1. archive.blocks \in Nat /\ archive'.blocks \in Nat /\ entry \in {0} \cup Id
      BY DEF Types, Archive
  <1>2. entry' <= archive'.blocks
      BY <1>1, Headers DEF Blocks
  <1>3. ghost'.run \subseteq 1 .. archive'.blocks
      BY <1>1 DEF Blocks
  <1>4. CASE staged' = NoHeader
      <2>1. ASSUME NEW k \in Id, k > archive'.blocks
            PROVE  mem'[k] = NoMember
          <3>1. k > archive.blocks /\ k # entry
              BY <1>1, <2>1, Headers DEF Blocks
          <3> QED BY <3>1 DEF Blocks
      <2> QED BY <1>2, <1>3, <1>4, <2>1 DEF Blocks
  <1>5. CASE staged # NoHeader /\ staged' = staged
      <2>1. staged.id \in Nat /\ staged.id <= archive.blocks /\ staged.id # entry /\ staged.id # 0
          BY <1>5, Headers DEF Types, StagedHeader, Blocks
      <2>2. ASSUME NEW k \in Id, k > archive'.blocks \/ k = staged.id
            PROVE  mem'[k] = NoMember
          <3>1. (k > archive.blocks \/ k = staged.id) /\ k # entry
              BY <1>1, <2>1, <2>2, Headers DEF Blocks
          <3> QED BY <1>5, <3>1 DEF Blocks
      <2>3. staged.id <= archive'.blocks /\ staged.id # entry'
          BY <1>1, <2>1
      <2> QED BY <1>2, <1>3, <1>5, <2>2, <2>3 DEF Blocks
  <1> QED BY <1>4, <1>5

-----------------------------------------------------------------------------
(* The steps, one by one: between members, and at the end of a volume. *)

LEMMA ReadEntryStep ==
  ASSUME Base, ReadEntry
  PROVE  Base' /\ (IInv => (Sources /\ Staging /\ Owing /\ Solid)')
  <1>1. Types'
      BY Headers, StagedKept DEF Base, Types, Format, Archive, ReadEntry
  <1>2. Control'
      BY Headers DEF Base, Types, Control, ReadEntry
  <1>3. Ended'
      BY Headers DEF Base, Types, Control, Ended, ReadEntry
  <1>4. Damage'
      BY Headers DEF Base, Types, Damage, ReadEntry
  <1>5. Blocks'
      BY Headers DEF Base, Types, Control, Blocks, Archive, ReadEntry
  <1>6. Lacking'
      BY Headers DEF Base, Types, Control, Blocks, Lacking, ReadEntry
  <1>7. LateStart'
      BY Headers
         DEF Base, Types, Control, Damage, Blocks, LateStart, Unjudged, Doomed, Stuck, Archive,
             ReadEntry
  <1>8. ASSUME IInv PROVE Sources'
      BY <1>8, Headers DEF IInv, Base, Types, Control, Sources, ReadEntry
  <1>9. ASSUME IInv PROVE Staging'
      BY <1>9, Headers DEF IInv, Base, Types, Control, Blocks, Staging, ReadEntry
  <1>10. ASSUME IInv PROVE Owing'
      BY <1>10, Headers DEF IInv, Base, Types, Control, Owing, Stuck, ReadEntry
  <1>11. ASSUME IInv PROVE Solid'
      BY <1>11, Headers DEF IInv, Base, Types, Control, Blocks, Solid, Stuck, ReadEntry
  <1> QED BY <1>1, <1>2, <1>3, <1>4, <1>5, <1>6, <1>7, <1>8, <1>9, <1>10, <1>11 DEF Base

LEMMA DrainedStep ==
  ASSUME Base, Drained
  PROVE  Base' /\ (IInv => (Sources /\ Staging /\ Owing /\ Solid)')
  <1>1. Types'
      BY Headers, StagedKept
         DEF Base, Types, Format, Archive, Drained, Settle, MarksIncomplete, MarksFailed, short,
             Fields, Entry, Done
  <1>2. Control'
      BY Headers
         DEF Base, Types, Control, Drained, Settle, MarksIncomplete, MarksFailed, short, Fields,
             Entry, Done
  <1>3. Ended'
      BY Headers
         DEF Base, Types, Control, Ended, Drained, Settle, MarksIncomplete, MarksFailed, short,
             Fields, Entry, Done
  <1>4. Damage'
      BY Headers
         DEF Base, Types, Damage, Drained, Settle, MarksIncomplete, MarksFailed, short, Fields,
             Entry, Done
  <1>5. Blocks'
      BY Headers, BlocksKept
         DEF Base, Types, Control, Blocks, Archive, Drained, Settle, MarksIncomplete,
             MarksFailed, short, Fields, Entry, Done
  <1>6. Lacking'
      BY Headers
         DEF Base, Types, Control, Blocks, Lacking, Drained, Settle, MarksIncomplete,
             MarksFailed, short, Fields, Entry, Done
  <1>7. LateStart'
      BY Headers
         DEF Base, Types, Control, Damage, Blocks, LateStart, Unjudged, Doomed, Stuck, Archive,
             Drained, Settle, MarksIncomplete, MarksFailed, short, Fields, Entry, Done
  <1>8. ASSUME IInv PROVE Sources'
      BY <1>8, Headers
         DEF IInv, Base, Types, Control, Sources, Drained, Settle, MarksIncomplete, MarksFailed,
             short, Fields, Entry, Done
  <1>9. ASSUME IInv PROVE Staging'
      BY <1>9, Headers
         DEF IInv, Base, Types, Control, Blocks, Staging, Drained, Settle, MarksIncomplete,
             MarksFailed, short, Fields, Entry, Done
  <1>10. ASSUME IInv PROVE Owing'
      BY <1>10, Headers
         DEF IInv, Base, Types, Control, Owing, Stuck, Drained, Settle, MarksIncomplete,
             MarksFailed, short, Fields, Entry, Done
  <1>11. ASSUME IInv PROVE Solid'
    <2> USE <1>11
    <2>1. reading = entry /\ entry \in Id /\ mem[entry] \in Entry /\ entry' = 0 /\ mem' = mem /\ mem[entry].done # "none"
        BY ReadingIsEntry DEF IInv, Drained, Settle
    <2>2. win'.incomplete = (win.incomplete \/ mem[entry].left > 0 \/ mem[entry].done = "failed")
        BY <2>1 DEF IInv, Base, Types, Drained, Settle, MarksIncomplete, short
    <2>3. mem[entry].done \in {"eof", "unchecked", "failed"}
        BY <2>1 DEF Entry, Done
    <2> QED BY <2>1, <2>2, <2>3, Headers DEF IInv, Base, Types, Control, Solid, Stuck, Drained
  <1> QED BY <1>1, <1>2, <1>3, <1>4, <1>5, <1>6, <1>7, <1>8, <1>9, <1>10, <1>11 DEF Base

LEMMA NextEntryStep ==
  ASSUME Base, NextEntry
  PROVE  Base' /\ (IInv => (Sources /\ Staging /\ Owing /\ Solid)')
  <1>0. pc = "idle" /\ UNCHANGED <<vol, body, staged, archive, ghost>>
      BY NextEntryFacts DEF Base
  <1>x. entry # 0 => entry \in Id /\ mem[entry] \in Entry
      BY DEF Base, Types
  <1>y. entry # 0 => /\ severActive(mem[entry]) \subseteq {"eof", "unchecked", "failed"}
                     /\ mem[entry].done # "none" => severActive(mem[entry]) = {mem[entry].done}
                     /\ mem[entry].left > 0 /\ mem[entry].done = "none" => severActive(mem[entry]) = {"failed"}
      BY <1>x, VerdictSets
  <1>z. ASSUME entry # 0, mem[entry].left = 0, mem[entry].done = "none", mem[entry].gapped, ~mem[entry].empty
        PROVE  severActive(mem[entry]) \subseteq {"unchecked", "failed"}
      BY <1>x, <1>z, VerdictSets
  <1>1. CASE r.fatal /\ ret' = "fatal" /\ UNCHANGED <<pc, draining, reading, entry, mem, win, r>>
      <2>1. Types'
          BY <1>1, <1>0, <1>x, <1>y, <1>z, Headers, StagedKept
             DEF Base, Types, Format, Archive, Fields, Entry, Done, MarksFailed,
                 MarksIncomplete, short
      <2>2. Control'
          BY <1>1, <1>0, <1>x, <1>y, <1>z, Headers
             DEF Base, Types, Control, Fields, Entry, Done, MarksFailed, MarksIncomplete, short
      <2>3. Ended'
          BY <1>1, <1>0, <1>x, <1>y, <1>z, Headers
             DEF Base, Types, Control, Ended, Fields, Entry, Done, MarksFailed, MarksIncomplete,
                 short
      <2>4. Damage'
          BY <1>1, <1>0, <1>x, <1>y, <1>z, Headers
             DEF Base, Types, Damage, Fields, Entry, Done, MarksFailed, MarksIncomplete, short
      <2>5. Blocks'
          BY <1>1, <1>0, <1>x, <1>y, <1>z, Headers, BlocksKept
             DEF Base, Types, Control, Blocks, Archive, Fields, Entry, Done, MarksFailed,
                 MarksIncomplete, short
      <2>6. Lacking'
          BY <1>1, <1>0, <1>x, <1>y, <1>z, Headers
             DEF Base, Types, Control, Blocks, Lacking, Fields, Entry, Done, MarksFailed,
                 MarksIncomplete, short
      <2>7. LateStart'
          BY <1>1, <1>0, <1>x, <1>y, <1>z, Headers
             DEF Base, Types, Control, Damage, Blocks, LateStart, Unjudged, Doomed, Stuck,
                 Archive, Fields, Entry, Done, MarksFailed, MarksIncomplete, short
      <2>8. ASSUME IInv PROVE Sources'
          BY <2>8, <1>1, <1>0, <1>x, <1>y, <1>z, Headers
             DEF IInv, Base, Types, Control, Sources, Fields, Entry, Done, MarksFailed,
                 MarksIncomplete, short
      <2>9. ASSUME IInv PROVE Staging'
          BY <2>9, <1>1, <1>0, <1>x, <1>y, <1>z, Headers
             DEF IInv, Base, Types, Control, Blocks, Staging, Fields, Entry, Done, MarksFailed,
                 MarksIncomplete, short
      <2>10. ASSUME IInv PROVE Owing'
          BY <2>10, <1>1, <1>0, <1>x, <1>y, <1>z, Headers
             DEF IInv, Base, Types, Control, Owing, Stuck, Fields, Entry, Done, MarksFailed,
                 MarksIncomplete, short
      <2>11. ASSUME IInv PROVE Solid'
          BY <2>11, <1>1, <1>0, <1>x, <1>y, <1>z, Headers
             DEF IInv, Base, Types, Control, Blocks, Solid, Stuck, Fields, Entry, Done,
                 MarksFailed, MarksIncomplete, short
      <2> QED BY <2>1, <2>2, <2>3, <2>4, <2>5, <2>6, <2>7, <2>8, <2>9, <2>10, <2>11 DEF Base
  <1>2. CASE /\ ~r.fatal /\ ret' = "none" /\ entry = 0 /\ pc' = "scan"
             /\ UNCHANGED <<draining, reading, entry, mem, win, r>>
      <2>1. Types'
          BY <1>2, <1>0, <1>x, <1>y, <1>z, Headers, StagedKept
             DEF Base, Types, Format, Archive, Fields, Entry, Done, MarksFailed,
                 MarksIncomplete, short
      <2>2. Control'
          BY <1>2, <1>0, <1>x, <1>y, <1>z, Headers
             DEF Base, Types, Control, Fields, Entry, Done, MarksFailed, MarksIncomplete, short
      <2>3. Ended'
          BY <1>2, <1>0, <1>x, <1>y, <1>z, Headers
             DEF Base, Types, Control, Ended, Fields, Entry, Done, MarksFailed, MarksIncomplete,
                 short
      <2>4. Damage'
          BY <1>2, <1>0, <1>x, <1>y, <1>z, Headers
             DEF Base, Types, Damage, Fields, Entry, Done, MarksFailed, MarksIncomplete, short
      <2>5. Blocks'
          BY <1>2, <1>0, <1>x, <1>y, <1>z, Headers, BlocksKept
             DEF Base, Types, Control, Blocks, Archive, Fields, Entry, Done, MarksFailed,
                 MarksIncomplete, short
      <2>6. Lacking'
          BY <1>2, <1>0, <1>x, <1>y, <1>z, Headers
             DEF Base, Types, Control, Blocks, Lacking, Fields, Entry, Done, MarksFailed,
                 MarksIncomplete, short
      <2>7. LateStart'
          BY <1>2, <1>0, <1>x, <1>y, <1>z, Headers
             DEF Base, Types, Control, Damage, Blocks, LateStart, Unjudged, Doomed, Stuck,
                 Archive, Fields, Entry, Done, MarksFailed, MarksIncomplete, short
      <2>8. ASSUME IInv PROVE Sources'
          BY <2>8, <1>2, <1>0, <1>x, <1>y, <1>z, Headers
             DEF IInv, Base, Types, Control, Sources, Fields, Entry, Done, MarksFailed,
                 MarksIncomplete, short
      <2>9. ASSUME IInv PROVE Staging'
          BY <2>9, <1>2, <1>0, <1>x, <1>y, <1>z, Headers
             DEF IInv, Base, Types, Control, Blocks, Staging, Fields, Entry, Done, MarksFailed,
                 MarksIncomplete, short
      <2>10. ASSUME IInv PROVE Owing'
          BY <2>10, <1>2, <1>0, <1>x, <1>y, <1>z, Headers
             DEF IInv, Base, Types, Control, Owing, Stuck, Fields, Entry, Done, MarksFailed,
                 MarksIncomplete, short
      <2>11. ASSUME IInv PROVE Solid'
          BY <2>11, <1>2, <1>0, <1>x, <1>y, <1>z, Headers
             DEF IInv, Base, Types, Control, Blocks, Solid, Stuck, Fields, Entry, Done,
                 MarksFailed, MarksIncomplete, short
      <2> QED BY <2>1, <2>2, <2>3, <2>4, <2>5, <2>6, <2>7, <2>8, <2>9, <2>10, <2>11 DEF Base
  <1>3. CASE /\ ~r.fatal /\ ret' = "none" /\ entry # 0 /\ r.solid
             /\ pc' = "read" /\ draining' = TRUE /\ reading' = entry
             /\ UNCHANGED <<entry, mem, win, r>>
      <2>1. Types'
          BY <1>3, <1>0, <1>x, <1>y, <1>z, Headers, StagedKept
             DEF Base, Types, Format, Archive, Fields, Entry, Done, MarksFailed,
                 MarksIncomplete, short
      <2>2. Control'
          BY <1>3, <1>0, <1>x, <1>y, <1>z, Headers
             DEF Base, Types, Control, Fields, Entry, Done, MarksFailed, MarksIncomplete, short
      <2>3. Ended'
          BY <1>3, <1>0, <1>x, <1>y, <1>z, Headers
             DEF Base, Types, Control, Ended, Fields, Entry, Done, MarksFailed, MarksIncomplete,
                 short
      <2>4. Damage'
          BY <1>3, <1>0, <1>x, <1>y, <1>z, Headers
             DEF Base, Types, Damage, Fields, Entry, Done, MarksFailed, MarksIncomplete, short
      <2>5. Blocks'
          BY <1>3, <1>0, <1>x, <1>y, <1>z, Headers, BlocksKept
             DEF Base, Types, Control, Blocks, Archive, Fields, Entry, Done, MarksFailed,
                 MarksIncomplete, short
      <2>6. Lacking'
          BY <1>3, <1>0, <1>x, <1>y, <1>z, Headers
             DEF Base, Types, Control, Blocks, Lacking, Fields, Entry, Done, MarksFailed,
                 MarksIncomplete, short
      <2>7. LateStart'
          BY <1>3, <1>0, <1>x, <1>y, <1>z, Headers
             DEF Base, Types, Control, Damage, Blocks, LateStart, Unjudged, Doomed, Stuck,
                 Archive, Fields, Entry, Done, MarksFailed, MarksIncomplete, short
      <2>8. ASSUME IInv PROVE Sources'
          BY <2>8, <1>3, <1>0, <1>x, <1>y, <1>z, Headers
             DEF IInv, Base, Types, Control, Sources, Fields, Entry, Done, MarksFailed,
                 MarksIncomplete, short
      <2>9. ASSUME IInv PROVE Staging'
          BY <2>9, <1>3, <1>0, <1>x, <1>y, <1>z, Headers
             DEF IInv, Base, Types, Control, Blocks, Staging, Fields, Entry, Done, MarksFailed,
                 MarksIncomplete, short
      <2>10. ASSUME IInv PROVE Owing'
          BY <2>10, <1>3, <1>0, <1>x, <1>y, <1>z, Headers
             DEF IInv, Base, Types, Control, Owing, Stuck, Fields, Entry, Done, MarksFailed,
                 MarksIncomplete, short
      <2>11. ASSUME IInv PROVE Solid'
          BY <2>11, <1>3, <1>0, <1>x, <1>y, <1>z, Headers
             DEF IInv, Base, Types, Control, Blocks, Solid, Stuck, Fields, Entry, Done,
                 MarksFailed, MarksIncomplete, short
      <2> QED BY <2>1, <2>2, <2>3, <2>4, <2>5, <2>6, <2>7, <2>8, <2>9, <2>10, <2>11 DEF Base
  <1>4. CASE /\ ~r.fatal /\ ret' = "none" /\ entry # 0 /\ pc' = "scan" /\ entry' = 0
             /\ UNCHANGED <<draining, reading>>
             /\ mem' \in [Id -> Entry] /\ \A k \in Id : k # entry => mem'[k] = mem[k]
             /\ mem'[entry].done \in severActive(mem[entry])
             /\ mem'[entry].left = mem[entry].left /\ mem'[entry].lack = mem[entry].lack
             /\ ~mem'[entry].held /\ ~mem'[entry].comp /\ ~mem'[entry].empty
             /\ r' \in Fields /\ win' \in [avail: Nat, incomplete: BOOLEAN]
             /\ r' = [r EXCEPT !.memberFailed = @ \/ MarksFailed(mem'[entry])]
             /\ win' = [win EXCEPT !.incomplete = @ \/ MarksIncomplete(mem'[entry])]
      <2>1. Types'
          BY <1>4, <1>0, <1>x, <1>y, <1>z, Headers, StagedKept
             DEF Base, Types, Format, Archive, Fields, Entry, Done, MarksFailed,
                 MarksIncomplete, short
      <2>2. Control'
          BY <1>4, <1>0, <1>x, <1>y, <1>z, Headers
             DEF Base, Types, Control, Fields, Entry, Done, MarksFailed, MarksIncomplete, short
      <2>3. Ended'
          BY <1>4, <1>0, <1>x, <1>y, <1>z, Headers
             DEF Base, Types, Control, Ended, Fields, Entry, Done, MarksFailed, MarksIncomplete,
                 short
      <2>4. Damage'
          BY <1>4, <1>0, <1>x, <1>y, <1>z, Headers
             DEF Base, Types, Damage, Fields, Entry, Done, MarksFailed, MarksIncomplete, short
      <2>5. Blocks'
          BY <1>4, <1>0, <1>x, <1>y, <1>z, Headers, BlocksKept
             DEF Base, Types, Control, Blocks, Archive, Fields, Entry, Done, MarksFailed,
                 MarksIncomplete, short
      <2>6. Lacking'
        <3>1. mem[entry].left \in Nat /\ mem[entry].done \in Done /\ win.avail \in Nat
            BY <1>4, <1>x DEF Base, Types, Entry
        <3>2. mem'[entry].done \in {"eof", "unchecked"} => mem[entry].lack = 0
          <4>1. CASE mem[entry].done # "none"
              BY <1>4, <1>x, <1>y, <4>1 DEF Base, Lacking
          <4>2. CASE mem[entry].done = "none"
              BY <1>4, <1>x, <1>y, <3>1, <4>2 DEF Base, Lacking
          <4> QED BY <4>1, <4>2
        <3>3. mem'[entry].done # "none"
            BY <1>4, <1>x, <1>y
        <3> QED BY <1>4, <1>x, <3>2, <3>3 DEF Base, Lacking
      <2>7. LateStart'
          BY <1>4, <1>0, <1>x, <1>y, <1>z, Headers
             DEF Base, Types, Control, Damage, Blocks, LateStart, Unjudged, Doomed, Stuck,
                 Archive, Fields, Entry, Done, MarksFailed, MarksIncomplete, short
      <2>8. ASSUME IInv PROVE Sources'
          BY <2>8, <1>4, <1>0, <1>x, <1>y, <1>z, Headers
             DEF IInv, Base, Types, Control, Sources, Fields, Entry, Done, MarksFailed,
                 MarksIncomplete, short
      <2>9. ASSUME IInv PROVE Staging'
          BY <2>9, <1>4, <1>0, <1>x, <1>y, <1>z, Headers
             DEF IInv, Base, Types, Control, Blocks, Staging, Fields, Entry, Done, MarksFailed,
                 MarksIncomplete, short
      <2>10. ASSUME IInv PROVE Owing'
          BY <2>10, <1>4, <1>0, <1>x, <1>y, <1>z, Headers
             DEF IInv, Base, Types, Control, Owing, Stuck, Fields, Entry, Done, MarksFailed,
                 MarksIncomplete, short
      <2>11. ASSUME IInv PROVE Solid'
        <3> USE <2>11
        <3>1. mem'[entry].done \in {"eof", "unchecked", "failed"}
            BY <1>4, <1>y
        <3>2. win'.incomplete = (win.incomplete \/ mem'[entry].left > 0 \/ mem'[entry].done = "failed")
            BY <1>4 DEF IInv, Base, Types, MarksIncomplete, short
        <3>3. CASE mem[entry].done = "failed"
            BY <1>4, <1>y, <3>2, <3>3 DEF Solid
        <3>4. CASE mem[entry].done # "failed" /\ ~win'.incomplete
          <4>1. mem'[entry].done \in {"eof", "unchecked"} /\ ~win.incomplete
              BY <3>1, <3>2, <3>4
          <4>2. CASE archive.rar4 \/ archive.listing
              BY <1>0, <4>2 DEF Solid
          <4>3. CASE \A k \in ghost.run : \/ mem[k].done \in {"eof", "unchecked"}
                                          \/ k = entry
                                          \/ staged # NoHeader /\ k = staged.id
            <5>1. ghost.run \subseteq Id
                BY DEF IInv, Base, Types, History
            <5> QED BY <1>0, <1>4, <4>1, <4>3, <5>1 DEF Solid
          <4> QED BY <1>0, <1>4, <3>4, <4>1, <4>2, <4>3 DEF IInv, Solid, Stuck
        <3>5. CASE win'.incomplete
            BY <3>5 DEF Solid
        <3> QED BY <3>3, <3>4, <3>5
      <2> QED BY <2>1, <2>2, <2>3, <2>4, <2>5, <2>6, <2>7, <2>8, <2>9, <2>10, <2>11 DEF Base
  <1> QED BY <1>1, <1>2, <1>3, <1>4, NextEntryFacts DEF Base

LEMMA CutInPayloadStep ==
  ASSUME Base, CutInPayload
  PROVE  Base' /\ (IInv => (Sources /\ Staging /\ Owing /\ Solid)')
  <1>1. Types'
    <2>1. r' \in Fields
        BY Headers, NoBodyTypes DEF Base, Types, CutInPayload, AtHeader, Spent, RecordsDamage, Fields
    <2>2. ghost' \in History
        BY Headers, NoBodyTypes DEF Base, Types, CutInPayload, AtHeader, Spent, RecordsDamage, History
    <2>3. body' \in [n: Units, have: Units, owner: {0} \cup Id] /\ body'.have <= body'.n
        BY Headers, NoBodyTypes DEF Base, Types, CutInPayload, AtHeader, Spent, RecordsDamage
    <2> QED BY <2>1, <2>2, <2>3, Headers, StagedKept DEF Base, Types, CutInPayload, AtHeader, Spent, RecordsDamage, Format, Archive
  <1>2. Control'
      BY Headers
         DEF Base, Types, Control, CutInPayload, AtHeader, Spent, RecordsDamage, NoBody, Fields,
             History, Units
  <1>3. Ended'
      BY Headers
         DEF Base, Types, Control, Ended, CutInPayload, AtHeader, Spent, RecordsDamage, NoBody,
             Fields, History, Units
  <1>4. Damage'
      BY Headers
         DEF Base, Types, Damage, CutInPayload, AtHeader, Spent, RecordsDamage, NoBody, Fields,
             History, Units
  <1>5. Blocks'
      BY Headers, BlocksKept
         DEF Base, Types, Control, Blocks, Archive, CutInPayload, AtHeader, Spent,
             RecordsDamage, NoBody, Fields, History, Units
  <1>6. Lacking'
      BY Headers
         DEF Base, Types, Control, Blocks, Lacking, CutInPayload, AtHeader, Spent,
             RecordsDamage, NoBody, Fields, History, Units
  <1>7. LateStart'
      BY Headers
         DEF Base, Types, Control, Damage, Blocks, LateStart, Unjudged, Doomed, Stuck, Archive,
             CutInPayload, AtHeader, Spent, RecordsDamage, NoBody, Fields, History, Units
  <1>8. ASSUME IInv PROVE Sources'
      BY <1>8, Headers
         DEF IInv, Base, Types, Control, Sources, CutInPayload, AtHeader, Spent, RecordsDamage,
             NoBody, Fields, History, Units
  <1>9. ASSUME IInv PROVE Staging'
      BY <1>9, Headers
         DEF IInv, Base, Types, Control, Blocks, Staging, CutInPayload, AtHeader, Spent,
             RecordsDamage, NoBody, Fields, History, Units
  <1>10. ASSUME IInv PROVE Owing'
      BY <1>10, Headers
         DEF IInv, Base, Types, Control, Owing, Stuck, CutInPayload, AtHeader, Spent,
             RecordsDamage, NoBody, Fields, History, Units
  <1>11. ASSUME IInv PROVE Solid'
      BY <1>11, Headers
         DEF IInv, Base, Types, Control, Blocks, Solid, Stuck, CutInPayload, AtHeader, Spent,
             RecordsDamage, NoBody, Fields, History, Units
  <1> QED BY <1>1, <1>2, <1>3, <1>4, <1>5, <1>6, <1>7, <1>8, <1>9, <1>10, <1>11 DEF Base

LEMMA CutInHeaderStep ==
  ASSUME Base, CutInHeader
  PROVE  Base' /\ (IInv => (Sources /\ Staging /\ Owing /\ Solid)')
  <1>1. Types'
    <2>1. r' \in Fields
        BY Headers, NoBodyTypes DEF Base, Types, CutInHeader, AtHeader, Spent, RecordsDamage, Fields
    <2>2. ghost' \in History
        BY Headers, NoBodyTypes DEF Base, Types, CutInHeader, AtHeader, Spent, RecordsDamage, History
    <2>3. body' \in [n: Units, have: Units, owner: {0} \cup Id] /\ body'.have <= body'.n
        BY Headers, NoBodyTypes DEF Base, Types, CutInHeader, AtHeader, Spent, RecordsDamage
    <2> QED BY <2>1, <2>2, <2>3, Headers, StagedKept DEF Base, Types, CutInHeader, AtHeader, Spent, RecordsDamage, Format, Archive
  <1>2. Control'
      BY Headers
         DEF Base, Types, Control, CutInHeader, AtHeader, Spent, RecordsDamage, NoBody, Fields,
             History, Units
  <1>3. Ended'
      BY Headers
         DEF Base, Types, Control, Ended, CutInHeader, AtHeader, Spent, RecordsDamage, NoBody,
             Fields, History, Units
  <1>4. Damage'
      BY Headers
         DEF Base, Types, Damage, CutInHeader, AtHeader, Spent, RecordsDamage, NoBody, Fields,
             History, Units
  <1>5. Blocks'
      BY Headers, BlocksKept
         DEF Base, Types, Control, Blocks, Archive, CutInHeader, AtHeader, Spent, RecordsDamage,
             NoBody, Fields, History, Units
  <1>6. Lacking'
      BY Headers
         DEF Base, Types, Control, Blocks, Lacking, CutInHeader, AtHeader, Spent, RecordsDamage,
             NoBody, Fields, History, Units
  <1>7. LateStart'
      BY Headers
         DEF Base, Types, Control, Damage, Blocks, LateStart, Unjudged, Doomed, Stuck, Archive,
             CutInHeader, AtHeader, Spent, RecordsDamage, NoBody, Fields, History, Units
  <1>8. ASSUME IInv PROVE Sources'
      BY <1>8, Headers
         DEF IInv, Base, Types, Control, Sources, CutInHeader, AtHeader, Spent, RecordsDamage,
             NoBody, Fields, History, Units
  <1>9. ASSUME IInv PROVE Staging'
      BY <1>9, Headers
         DEF IInv, Base, Types, Control, Blocks, Staging, CutInHeader, AtHeader, Spent,
             RecordsDamage, NoBody, Fields, History, Units
  <1>10. ASSUME IInv PROVE Owing'
      BY <1>10, Headers
         DEF IInv, Base, Types, Control, Owing, Stuck, CutInHeader, AtHeader, Spent,
             RecordsDamage, NoBody, Fields, History, Units
  <1>11. ASSUME IInv PROVE Solid'
      BY <1>11, Headers
         DEF IInv, Base, Types, Control, Blocks, Solid, Stuck, CutInHeader, AtHeader, Spent,
             RecordsDamage, NoBody, Fields, History, Units
  <1> QED BY <1>1, <1>2, <1>3, <1>4, <1>5, <1>6, <1>7, <1>8, <1>9, <1>10, <1>11 DEF Base

LEMMA EndOfVolumeStep ==
  ASSUME Base, EndOfVolume
  PROVE  Base' /\ (IInv => (Sources /\ Staging /\ Owing /\ Solid)')
  <1>1. Types'
    <2>1. r' \in Fields
        BY Headers, NoBodyTypes DEF Base, Types, EndOfVolume, AtHeader, Spent, RecordsDamage, Fields
    <2>2. ghost' \in History
        BY Headers, NoBodyTypes DEF Base, Types, EndOfVolume, AtHeader, Spent, RecordsDamage, History
    <2>3. body' \in [n: Units, have: Units, owner: {0} \cup Id] /\ body'.have <= body'.n
        BY Headers, NoBodyTypes DEF Base, Types, EndOfVolume, AtHeader, Spent, RecordsDamage
    <2> QED BY <2>1, <2>2, <2>3, Headers, StagedKept DEF Base, Types, EndOfVolume, AtHeader, Spent, RecordsDamage, Format, Archive
  <1>2. Control'
      BY Headers
         DEF Base, Types, Control, EndOfVolume, AtHeader, Spent, RecordsDamage, NoBody, Fields,
             History, Units
  <1>3. Ended'
      BY Headers
         DEF Base, Types, Control, Ended, EndOfVolume, AtHeader, Spent, RecordsDamage, NoBody,
             Fields, History, Units
  <1>4. Damage'
      BY Headers
         DEF Base, Types, Damage, EndOfVolume, AtHeader, Spent, RecordsDamage, NoBody, Fields,
             History, Units
  <1>5. Blocks'
      BY Headers, BlocksKept
         DEF Base, Types, Control, Blocks, Archive, EndOfVolume, AtHeader, Spent, RecordsDamage,
             NoBody, Fields, History, Units
  <1>6. Lacking'
      BY Headers
         DEF Base, Types, Control, Blocks, Lacking, EndOfVolume, AtHeader, Spent, RecordsDamage,
             NoBody, Fields, History, Units
  <1>7. LateStart'
      BY Headers
         DEF Base, Types, Control, Damage, Blocks, LateStart, Unjudged, Doomed, Stuck, Archive,
             EndOfVolume, AtHeader, Spent, RecordsDamage, NoBody, Fields, History, Units
  <1>8. ASSUME IInv PROVE Sources'
      BY <1>8, Headers
         DEF IInv, Base, Types, Control, Sources, EndOfVolume, AtHeader, Spent, RecordsDamage,
             NoBody, Fields, History, Units
  <1>9. ASSUME IInv PROVE Staging'
      BY <1>9, Headers
         DEF IInv, Base, Types, Control, Blocks, Staging, EndOfVolume, AtHeader, Spent,
             RecordsDamage, NoBody, Fields, History, Units
  <1>10. ASSUME IInv PROVE Owing'
      BY <1>10, Headers
         DEF IInv, Base, Types, Control, Owing, Stuck, EndOfVolume, AtHeader, Spent,
             RecordsDamage, NoBody, Fields, History, Units
  <1>11. ASSUME IInv PROVE Solid'
      BY <1>11, Headers
         DEF IInv, Base, Types, Control, Blocks, Solid, Stuck, EndOfVolume, AtHeader, Spent,
             RecordsDamage, NoBody, Fields, History, Units
  <1> QED BY <1>1, <1>2, <1>3, <1>4, <1>5, <1>6, <1>7, <1>8, <1>9, <1>10, <1>11 DEF Base

LEMMA EndHeaderStep ==
  ASSUME Base, EndHeader
  PROVE  Base' /\ (IInv => (Sources /\ Staging /\ Owing /\ Solid)')
  <1>0. Types /\ Block
      BY DEF Base, EndHeader
  <1>1. Types'
    <2>1. r' \in Fields
        BY <1>0, BlockRead, NoBodyTypes DEF Base, Types, EndHeader, JudgesNumber, Fields
    <2>2. body' \in [n: Units, have: Units, owner: {0} \cup Id] /\ body'.have <= body'.n
        BY <1>0, BlockRead, NoBodyTypes DEF Base, Types, EndHeader, JudgesNumber
    <2> QED BY <2>1, <2>2, <1>0, BlockRead, StagedKept DEF Base, Types, EndHeader, JudgesNumber, Format, Archive
  <1>2. Control'
      BY <1>0, Headers, BlockRead
         DEF Base, Types, Control, EndHeader, JudgesNumber, volumeNumber, NoBody, Fields, Units
  <1>3. Ended'
      BY <1>0, Headers, BlockRead
         DEF Base, Types, Control, Ended, EndHeader, JudgesNumber, volumeNumber, NoBody, Fields,
             Units
  <1>4. Damage'
      BY <1>0, Headers, BlockRead
         DEF Base, Types, Damage, EndHeader, JudgesNumber, volumeNumber, NoBody, Fields, Units
  <1>5. Blocks'
      BY <1>0, Headers, BlockRead, BlocksKept
         DEF Base, Types, Control, Blocks, Archive, EndHeader, JudgesNumber, volumeNumber,
             NoBody, Fields, Units
  <1>6. Lacking'
      BY <1>0, Headers, BlockRead
         DEF Base, Types, Control, Blocks, Lacking, EndHeader, JudgesNumber, volumeNumber,
             NoBody, Fields, Units
  <1>7. LateStart'
      BY <1>0, Headers, BlockRead
         DEF Base, Types, Control, Damage, Blocks, LateStart, Unjudged, Doomed, Stuck, Archive,
             EndHeader, JudgesNumber, volumeNumber, NoBody, Fields, Units
  <1>8. ASSUME IInv PROVE Sources'
      BY <1>8, <1>0, Headers, BlockRead
         DEF IInv, Base, Types, Control, Sources, EndHeader, JudgesNumber, volumeNumber, NoBody,
             Fields, Units
  <1>9. ASSUME IInv PROVE Staging'
      BY <1>9, <1>0, Headers, BlockRead
         DEF IInv, Base, Types, Control, Blocks, Staging, EndHeader, JudgesNumber, volumeNumber,
             NoBody, Fields, Units
  <1>10. ASSUME IInv PROVE Owing'
      BY <1>10, <1>0, Headers, BlockRead
         DEF IInv, Base, Types, Control, Owing, Stuck, EndHeader, JudgesNumber, volumeNumber,
             NoBody, Fields, Units
  <1>11. ASSUME IInv PROVE Solid'
      BY <1>11, <1>0, Headers, BlockRead
         DEF IInv, Base, Types, Control, Blocks, Solid, Stuck, EndHeader, JudgesNumber,
             volumeNumber, NoBody, Fields, Units
  <1> QED BY <1>1, <1>2, <1>3, <1>4, <1>5, <1>6, <1>7, <1>8, <1>9, <1>10, <1>11 DEF Base

-----------------------------------------------------------------------------
(* Reading the member in progress. *)

(* n units of the member in progress reach the caller. *)
Delivered(n) ==
  /\ mem' \in [Id -> Entry]
  /\ \A k \in Id : k # entry => mem'[k] = mem[k]
  /\ mem'[entry].left = mem[entry].left - n
  /\ mem'[entry].lack = mem[entry].lack
  /\ \/ /\ mem'[entry].done = "none" /\ mem[entry].left - n > 0
        /\ mem'[entry].last = mem[entry].last /\ mem'[entry].comp = mem[entry].comp
        /\ mem'[entry].src = mem[entry].src /\ mem'[entry].held = mem[entry].held
        /\ mem'[entry].skips = mem[entry].skips /\ mem'[entry].gapped = mem[entry].gapped
        /\ mem'[entry].empty = mem[entry].empty
     \/ /\ mem'[entry].done \in {"eof", "unchecked", "failed"} /\ mem[entry].left = n
        /\ ~mem'[entry].held /\ ~mem'[entry].comp /\ ~mem'[entry].empty
        /\ mem[entry].gapped /\ ~mem[entry].empty => mem'[entry].done # "eof"
  /\ draining => pc' = "read" /\ reading' = reading
  /\ ~draining => pc' = "idle" /\ reading' = 0

LEMMA DeliversEntry ==
  ASSUME Base, pc = "read", mem[reading].done = "none", NEW n \in Nat, n <= mem[reading].left,
         Delivers(n)
  PROVE  Delivered(n)
  <1>1. reading \in Id /\ reading = entry /\ Types
      BY ReadingIsEntry DEF Base
  <1> QED BY <1>1, DeliversFacts DEF Delivered

LEMMA BodySpent ==
  ASSUME Types, body.have > 0, body' = [body EXCEPT !.n = @ - 1, !.have = @ - 1]
  PROVE  /\ body' \in [n: Units, have: Units, owner: {0} \cup Id] /\ body'.have <= body'.n
         /\ body'.owner = body.owner /\ body'.n = body.n - 1
  <1>1. body.n \in Nat /\ body.have \in Nat /\ body.n - 1 \in Units /\ body.have - 1 \in Units
        /\ body.have <= body.n /\ body \in [n: Units, have: Units, owner: {0} \cup Id]
      BY BoundsAssumption DEF Types, Units
  <1>2. body'.n = body.n - 1 /\ body'.have = body.have - 1 /\ body'.owner = body.owner
      BY <1>1
  <1>3. body' \in [n: Units, have: Units, owner: {0} \cup Id]
      BY <1>1
  <1>4. body'.have <= body'.n
      BY <1>1, <1>2
  <1> QED BY <1>2, <1>3, <1>4

LEMMA ReadDoneStep ==
  ASSUME Base, ReadDone
  PROVE  Base' /\ (IInv => (Sources /\ Staging /\ Owing /\ Solid)')
  <1>a. /\ reading \in Id /\ reading = entry /\ mem[entry] \in Entry /\ mem[entry].left \in Nat
        /\ pc = "read" /\ mem[entry].done = "none" /\ mem[entry].left = 0
        /\ UNCHANGED <<draining, vol, body, staged, entry, win, r, ret, archive, ghost>>
      BY ReadingIsEntry DEF ReadDone, me, short
  <1>b. PICK v \in {"eof", "unchecked", "failed"} :
          Verdict(v) /\ (mem[entry].gapped /\ ~mem[entry].empty => v # "eof")
      BY <1>a, VerdictSets, EndsVerdict DEF ReadDone, me
  <1>1. Types'
      BY <1>a, <1>b, Headers, StagedKept DEF Base, Types, Format, Archive, Verdict
  <1>2. Control'
      BY <1>a, <1>b, Headers DEF Base, Types, Control, Verdict, Entry, Done
  <1>3. Ended'
      BY <1>a, <1>b, Headers DEF Base, Types, Control, Ended, Verdict
  <1>4. Damage'
      BY <1>a, <1>b, Headers DEF Base, Types, Damage, Verdict
  <1>5. Blocks'
      BY <1>a, <1>b, Headers, BlocksKept DEF Base, Types, Control, Blocks, Archive, Verdict
  <1>6. Lacking'
      BY <1>a, <1>b, Headers DEF Base, Types, Control, Blocks, Lacking, Verdict, Entry, Done
  <1>7. LateStart'
      BY <1>a, <1>b, Headers
         DEF Base, Types, Control, Damage, Blocks, LateStart, Unjudged, Doomed, Stuck, Archive,
             Verdict, Entry, Done
  <1>8. ASSUME IInv PROVE Sources'
      BY <1>8, <1>a, <1>b, Headers DEF IInv, Base, Types, Control, Sources, Verdict
  <1>9. ASSUME IInv PROVE Staging'
      BY <1>9, <1>a, <1>b, Headers DEF IInv, Base, Types, Control, Blocks, Staging, Verdict
  <1>10. ASSUME IInv PROVE Owing'
      BY <1>10, <1>a, <1>b, Headers DEF IInv, Base, Types, Control, Owing, Stuck, Verdict
  <1>11. ASSUME IInv PROVE Solid'
      BY <1>11, <1>a, <1>b, Headers
         DEF IInv, Base, Types, Control, Blocks, Solid, Stuck, Verdict, Entry, Done, History
  <1> QED BY <1>1, <1>2, <1>3, <1>4, <1>5, <1>6, <1>7, <1>8, <1>9, <1>10, <1>11 DEF Base

LEMMA ReadStoredStep ==
  ASSUME Base, ReadStored
  PROVE  Base' /\ (IInv => (Sources /\ Staging /\ Owing /\ Solid)')
  <1>a. /\ reading \in Id /\ reading = entry /\ mem[entry] \in Entry /\ mem[entry].left \in Nat
        /\ pc = "read" /\ mem[entry].done = "none" /\ mem[entry].left > 0 /\ ~mem[entry].comp
        /\ mem[entry].src = r.volIndex /\ vol # "nil" /\ body.have > 0
        /\ body' = [body EXCEPT !.n = @ - 1, !.have = @ - 1]
        /\ ghost' = [ghost EXCEPT !.foreign = @ \/ body.owner # reading]
        /\ UNCHANGED <<draining, vol, staged, entry, win, r, ret, archive>>
      BY ReadingIsEntry DEF ReadStored, me, short, InReach, Spend
  <1>b. Delivered(1)
      BY <1>a, DeliversEntry DEF ReadStored
  <1>1. Types'
    <2>1. ghost' \in History
        BY <1>a DEF Base, Types, History
    <2>2. body' \in [n: Units, have: Units, owner: {0} \cup Id] /\ body'.have <= body'.n
        BY <1>a, BodySpent DEF Base
    <2> QED BY <1>a, <1>b, <2>1, <2>2, Headers, StagedKept DEF Base, Types, Format, Archive, Delivered
  <1>2. Control'
      BY <1>a, <1>b, Headers DEF Base, Types, Control, Delivered, History, Entry, Done
  <1>3. Ended'
      BY <1>a, <1>b, Headers DEF Base, Types, Control, Ended, Delivered, History
  <1>4. Damage'
      BY <1>a, <1>b, Headers DEF Base, Types, Damage, Delivered, History
  <1>5. Blocks'
      BY <1>a, <1>b, Headers, BlocksKept
         DEF Base, Types, Control, Blocks, Archive, Delivered, History
  <1>6. Lacking'
      BY <1>a, <1>b, Headers
         DEF Base, Types, Control, Blocks, Lacking, Delivered, History, Entry, Done
  <1>7. LateStart'
      BY <1>a, <1>b, Headers
         DEF Base, Types, Control, Damage, Blocks, LateStart, Unjudged, Doomed, Stuck, Archive,
             Delivered, History, Entry, Done
  <1>8. ASSUME IInv PROVE Sources'
      BY <1>8, <1>a, <1>b, Headers, BodySpent
         DEF IInv, Base, Types, Control, Sources, Delivered, History
  <1>9. ASSUME IInv PROVE Staging'
      BY <1>9, <1>a, <1>b, Headers, BodySpent
         DEF IInv, Base, Types, Control, Blocks, Staging, Delivered, History
  <1>10. ASSUME IInv PROVE Owing'
      BY <1>10, <1>a, <1>b, Headers
         DEF IInv, Base, Types, Control, Owing, Stuck, Delivered, History
  <1>11. ASSUME IInv PROVE Solid'
      BY <1>11, <1>a, <1>b, Headers
         DEF IInv, Base, Types, Control, Blocks, Solid, Stuck, Delivered, History, Entry, Done,
             History
  <1> QED BY <1>1, <1>2, <1>3, <1>4, <1>5, <1>6, <1>7, <1>8, <1>9, <1>10, <1>11 DEF Base

LEMMA ReadWindowStep ==
  ASSUME Base, ReadWindow
  PROVE  Base' /\ (IInv => (Sources /\ Staging /\ Owing /\ Solid)')
  <1>a. /\ reading \in Id /\ reading = entry /\ mem[entry] \in Entry /\ mem[entry].left \in Nat
        /\ pc = "read" /\ mem[entry].done = "none" /\ mem[entry].left > 0 /\ mem[entry].comp
        /\ UNCHANGED <<draining, vol, body, staged, entry, r, ret, archive, ghost>>
      BY ReadingIsEntry DEF ReadWindow, me, short
  <1>1. CASE pc' = "fill" /\ UNCHANGED <<reading, mem, win>>
      <2>1. Types'
          BY <1>1, <1>a, Headers, StagedKept DEF Base, Types, Format, Archive, Delivered
      <2>2. Control'
          BY <1>1, <1>a, Headers DEF Base, Types, Control, Delivered, Entry, Done
      <2>3. Ended'
          BY <1>1, <1>a, Headers DEF Base, Types, Control, Ended, Delivered
      <2>4. Damage'
          BY <1>1, <1>a, Headers DEF Base, Types, Damage, Delivered
      <2>5. Blocks'
          BY <1>1, <1>a, Headers, BlocksKept
             DEF Base, Types, Control, Blocks, Archive, Delivered
      <2>6. Lacking'
          BY <1>1, <1>a, Headers
             DEF Base, Types, Control, Blocks, Lacking, Delivered, Entry, Done
      <2>7. LateStart'
          BY <1>1, <1>a, Headers
             DEF Base, Types, Control, Damage, Blocks, LateStart, Unjudged, Doomed, Stuck,
                 Archive, Delivered, Entry, Done
      <2>8. ASSUME IInv PROVE Sources'
          BY <2>8, <1>1, <1>a, Headers DEF IInv, Base, Types, Control, Sources, Delivered
      <2>9. ASSUME IInv PROVE Staging'
          BY <2>9, <1>1, <1>a, Headers
             DEF IInv, Base, Types, Control, Blocks, Staging, Delivered
      <2>10. ASSUME IInv PROVE Owing'
          BY <2>10, <1>1, <1>a, Headers DEF IInv, Base, Types, Control, Owing, Stuck, Delivered
      <2>11. ASSUME IInv PROVE Solid'
          BY <2>11, <1>1, <1>a, Headers
             DEF IInv, Base, Types, Control, Blocks, Solid, Stuck, Delivered, Entry, Done,
                 History
      <2> QED BY <2>1, <2>2, <2>3, <2>4, <2>5, <2>6, <2>7, <2>8, <2>9, <2>10, <2>11 DEF Base
  <1>2. CASE \E n \in 1 .. mem[entry].left :
               n <= win.avail /\ Delivers(n) /\ win' = [win EXCEPT !.avail = @ - n]
      <2>a. PICK n \in 1 .. mem[entry].left :
              n <= win.avail /\ Delivers(n) /\ win' = [win EXCEPT !.avail = @ - n]
          BY <1>2
      <2>b. n \in Nat /\ n > 0 /\ n <= mem[entry].left /\ win.avail \in Nat
            /\ win' \in [avail: Nat, incomplete: BOOLEAN]
            /\ win'.avail = win.avail - n /\ win'.incomplete = win.incomplete
          BY <1>a, <2>a DEF Base, Types
      <2>c. Delivered(n)
          BY <1>a, <2>a, <2>b, DeliversEntry DEF Base
      <2>1. Types'
          BY <1>2, <1>a, Headers, <2>a, <2>b, <2>c, StagedKept
             DEF Base, Types, Format, Archive, Delivered
      <2>2. Control'
          BY <1>2, <1>a, Headers, <2>a, <2>b, <2>c
             DEF Base, Types, Control, Delivered, Entry, Done
      <2>3. Ended'
          BY <1>2, <1>a, Headers, <2>a, <2>b, <2>c DEF Base, Types, Control, Ended, Delivered
      <2>4. Damage'
          BY <1>2, <1>a, Headers, <2>a, <2>b, <2>c DEF Base, Types, Damage, Delivered
      <2>5. Blocks'
          BY <1>2, <1>a, Headers, <2>a, <2>b, <2>c, BlocksKept
             DEF Base, Types, Control, Blocks, Archive, Delivered
      <2>6. Lacking'
        <3>1. mem[entry].lack \in Nat /\ entry \in Id
            BY <1>a DEF Entry
        <3>2. mem[entry].lack = IF mem[entry].left > win.avail THEN mem[entry].left - win.avail ELSE 0
            BY <1>a, Headers DEF Base, Lacking
        <3>3. CASE mem'[entry].done = "none"
          <4>1. /\ mem'[entry].comp = mem[entry].comp /\ mem'[entry].lack = mem[entry].lack
                /\ mem'[entry].left = mem[entry].left - n
              BY <2>c, <3>3 DEF Delivered
          <4>2. mem'[entry].lack = IF mem'[entry].left > win'.avail THEN mem'[entry].left - win'.avail ELSE 0
              BY <1>a, <2>b, <3>1, <3>2, <4>1
          <4> QED BY <1>a, <2>c, <3>3, <4>1, <4>2 DEF Base, Lacking, Delivered
        <3>4. CASE mem'[entry].done # "none"
          <4>0. mem[entry].left = n /\ mem'[entry].lack = mem[entry].lack /\ ~mem'[entry].comp
              BY <2>c, <3>4 DEF Delivered
          <4>1. mem'[entry].lack = 0 /\ ~mem'[entry].comp
              BY <2>b, <3>2, <4>0
          <4> QED BY <1>a, <2>c, <3>4, <4>1 DEF Base, Lacking, Delivered
        <3> QED BY <3>3, <3>4
      <2>7. LateStart'
        <3>1. ~archive.rar4
            BY <1>a, Headers DEF Base, Control
        <3>2. \A k \in Id : mem'[k].empty => mem'[k].left = 0
          <4>1. ~mem[entry].empty
              BY <1>a DEF Base, LateStart
          <4>2. ~mem'[entry].empty
              BY <2>c, <4>1 DEF Delivered
          <4> QED BY <2>c, <4>2 DEF Base, LateStart, Delivered
        <3>3. mem'[entry].done # "none" \/ mem'[entry].skips = mem[entry].skips
            BY <2>c DEF Delivered
        <3> QED BY <1>a, <3>1, <3>2, <3>3, Headers DEF Base, LateStart, Unjudged
      <2>8. ASSUME IInv PROVE Sources'
          BY <2>8, <1>2, <1>a, Headers, <2>a, <2>b, <2>c
             DEF IInv, Base, Types, Control, Sources, Delivered
      <2>9. ASSUME IInv PROVE Staging'
          BY <2>9, <1>2, <1>a, Headers, <2>a, <2>b, <2>c
             DEF IInv, Base, Types, Control, Blocks, Staging, Delivered
      <2>10. ASSUME IInv PROVE Owing'
          BY <2>10, <1>2, <1>a, Headers, <2>a, <2>b, <2>c
             DEF IInv, Base, Types, Control, Owing, Stuck, Delivered
      <2>11. ASSUME IInv PROVE Solid'
          BY <2>11, <1>2, <1>a, Headers, <2>a, <2>b, <2>c
             DEF IInv, Base, Types, Control, Blocks, Solid, Stuck, Delivered, Entry, Done,
                 History
      <2> QED BY <2>1, <2>2, <2>3, <2>4, <2>5, <2>6, <2>7, <2>8, <2>9, <2>10, <2>11 DEF Base
  <1> QED BY <1>1, <1>2, <1>a DEF ReadWindow, me

LEMMA FillUnitStep ==
  ASSUME Base, FillUnit
  PROVE  Base' /\ (IInv => (Sources /\ Staging /\ Owing /\ Solid)')
  <1>a. /\ reading \in Id /\ reading = entry /\ mem[entry] \in Entry /\ mem[entry].left \in Nat
        /\ mem[entry].lack \in Nat /\ mem \in [Id -> Entry] /\ win.avail \in Nat
        /\ pc = "fill" /\ mem[entry].src = r.volIndex /\ vol # "nil" /\ body.have > 0
        /\ mem[entry].done = "none" /\ mem[entry].left > 0 /\ mem[entry].comp
        /\ body' = [body EXCEPT !.n = @ - 1, !.have = @ - 1]
        /\ ghost' = [ghost EXCEPT !.foreign = @ \/ body.owner # reading]
        /\ win' = [win EXCEPT !.avail = @ + 1]
        /\ UNCHANGED <<pc, draining, reading, vol, staged, entry, r, ret, archive>>
      BY ReadingIsEntry DEF Base, Control, FillUnit, me, InReach, Spend, Entry
  <1>b. mem' = [mem EXCEPT ![entry] = [mem[entry] EXCEPT !.lack = IF @ = 0 THEN 0 ELSE @ - 1]]
      BY <1>a DEF FillUnit
  <1>c. /\ mem' \in [Id -> Entry] /\ \A k \in Id : k # entry => mem'[k] = mem[k]
        /\ mem'[entry].lack = IF mem[entry].lack = 0 THEN 0 ELSE mem[entry].lack - 1
        /\ mem'[entry].left = mem[entry].left /\ mem'[entry].done = "none"
        /\ mem'[entry].last = mem[entry].last /\ mem'[entry].comp = mem[entry].comp
        /\ mem'[entry].src = mem[entry].src /\ mem'[entry].held = mem[entry].held
        /\ mem'[entry].skips = mem[entry].skips /\ mem'[entry].gapped = mem[entry].gapped
        /\ mem'[entry].empty = mem[entry].empty
    <2> DEFINE l == IF mem[entry].lack = 0 THEN 0 ELSE mem[entry].lack - 1
    <2> DEFINE e == [mem[entry] EXCEPT !.lack = l]
    <2>0. l \in Nat
        BY <1>a
    <2>2. mem' = [mem EXCEPT ![entry] = e]
        BY <1>b
    <2> HIDE DEF l
    <2>1. /\ e \in Entry /\ e.lack = l
          /\ e.left = mem[entry].left /\ e.done = "none"
          /\ e.last = mem[entry].last /\ e.comp = mem[entry].comp
          /\ e.src = mem[entry].src /\ e.held = mem[entry].held
          /\ e.skips = mem[entry].skips /\ e.gapped = mem[entry].gapped
          /\ e.empty = mem[entry].empty
        BY <1>a, <2>0 DEF Entry
    <2> HIDE DEF e
    <2>3. mem'[entry] = e /\ mem' \in [Id -> Entry] /\ \A k \in Id : k # entry => mem'[k] = mem[k]
        BY <1>a, <2>1, <2>2
    <2> QED BY <2>1, <2>3 DEF l
  <1>d. /\ win' \in [avail: Nat, incomplete: BOOLEAN] /\ win'.avail = win.avail + 1
        /\ win'.incomplete = win.incomplete
      BY <1>a DEF Base, Types
  <1>e. ghost' \in History /\ body' \in [n: Units, have: Units, owner: {0} \cup Id] /\ body'.have <= body'.n
        /\ body'.owner = body.owner
      BY <1>a, BodySpent DEF Base, Types, History
  <1>1. Types'
      BY <1>a, <1>c, <1>d, <1>e, Headers, StagedKept DEF Base, Types, Format, Archive
  <1>2. Control'
      BY <1>a, <1>c, <1>d, <1>e, Headers DEF Base, Types, Control
  <1>3. Ended'
      BY <1>a, <1>c, <1>d, <1>e, Headers DEF Base, Types, Control, Ended
  <1>4. Damage'
      BY <1>a, <1>c, <1>d, <1>e, Headers DEF Base, Types, Damage, History
  <1>5. Blocks'
      BY <1>a, <1>c, <1>d, <1>e, Headers, BlocksKept
         DEF Base, Types, Control, Blocks, Archive, History
  <1>6. Lacking'
    <2>1. mem[entry].lack = IF mem[entry].left > win.avail THEN mem[entry].left - win.avail ELSE 0
        BY <1>a, Headers DEF Base, Lacking
    <2>2. mem'[entry].lack = IF mem'[entry].left > win'.avail THEN mem'[entry].left - win'.avail ELSE 0
        BY <1>a, <1>c, <1>d, <2>1
    <2> QED BY <1>a, <1>c, <2>2 DEF Base, Lacking
  <1>7. LateStart'
      BY <1>a, <1>c, <1>d, <1>e, Headers
         DEF Base, Types, Control, Damage, Blocks, LateStart, Unjudged, Doomed, Stuck, Archive,
             History
  <1>8. ASSUME IInv PROVE Sources'
      BY <1>8, <1>a, <1>c, <1>d, <1>e, Headers DEF IInv, Base, Types, Control, Sources, History
  <1>9. ASSUME IInv PROVE Staging'
      BY <1>9, <1>a, <1>c, <1>d, <1>e, Headers
         DEF IInv, Base, Types, Control, Blocks, Staging, History, Fields
  <1>10. ASSUME IInv PROVE Owing'
      BY <1>10, <1>a, <1>c, <1>d, <1>e, Headers
         DEF IInv, Base, Types, Control, Owing, Stuck, History
  <1>11. ASSUME IInv PROVE Solid'
      BY <1>11, <1>a, <1>c, <1>d, <1>e, Headers
         DEF IInv, Base, Types, Control, Blocks, Solid, Stuck, History
  <1> QED BY <1>1, <1>2, <1>3, <1>4, <1>5, <1>6, <1>7, <1>8, <1>9, <1>10, <1>11 DEF Base

LEMMA EndsOfData ==
  ASSUME Base, pc \in {"read", "fill", "splice"}, EndOfData
  PROVE  \/ win.avail > 0 /\ pc' = "read" /\ UNCHANGED <<mem, reading>>
         \/ Verdict("failed")
  BY EndsVerdict DEF EndOfData

LEMMA EndsOfSource ==
  ASSUME Base, pc \in {"read", "fill", "splice"}, SourceEnds
  PROVE  \/ mem[entry].comp /\ win.avail > 0 /\ pc' = "read" /\ UNCHANGED <<mem, reading>>
         \/ Verdict("failed")
  <1>1. reading = entry
      BY ReadingIsEntry
  <1> QED BY <1>1, EndsVerdict DEF SourceEnds, EndOfData, me

LEMMA FillReturnsStep ==
  ASSUME Base, FillReturns
  PROVE  Base' /\ (IInv => (Sources /\ Staging /\ Owing /\ Solid)')
  <1>a. /\ reading \in Id /\ reading = entry /\ mem[entry] \in Entry /\ mem[entry].left \in Nat
        /\ pc = "fill" /\ mem[entry].done = "none" /\ mem[entry].left > 0 /\ mem[entry].comp
        /\ UNCHANGED <<draining, vol, body, staged, entry, win, r, ret, archive, ghost>>
      BY ReadingIsEntry DEF Base, Control, FillReturns
  <1>1. CASE pc' = "read" /\ UNCHANGED <<mem, reading>>
      <2>1. Types'
          BY <1>1, <1>a, Headers, StagedKept DEF Base, Types, Format, Archive, Verdict
      <2>2. Control'
          BY <1>1, <1>a, Headers DEF Base, Types, Control, Verdict, Entry, Done
      <2>3. Ended'
          BY <1>1, <1>a, Headers DEF Base, Types, Control, Ended, Verdict
      <2>4. Damage'
          BY <1>1, <1>a, Headers DEF Base, Types, Damage, Verdict
      <2>5. Blocks'
          BY <1>1, <1>a, Headers, BlocksKept DEF Base, Types, Control, Blocks, Archive, Verdict
      <2>6. Lacking'
          BY <1>1, <1>a, Headers DEF Base, Types, Control, Blocks, Lacking, Verdict, Entry, Done
      <2>7. LateStart'
          BY <1>1, <1>a, Headers
             DEF Base, Types, Control, Damage, Blocks, LateStart, Unjudged, Doomed, Stuck,
                 Archive, Verdict, Entry, Done
      <2>8. ASSUME IInv PROVE Sources'
          BY <2>8, <1>1, <1>a, Headers DEF IInv, Base, Types, Control, Sources, Verdict
      <2>9. ASSUME IInv PROVE Staging'
          BY <2>9, <1>1, <1>a, Headers DEF IInv, Base, Types, Control, Blocks, Staging, Verdict
      <2>10. ASSUME IInv PROVE Owing'
          BY <2>10, <1>1, <1>a, Headers DEF IInv, Base, Types, Control, Owing, Stuck, Verdict
      <2>11. ASSUME IInv PROVE Solid'
          BY <2>11, <1>1, <1>a, Headers
             DEF IInv, Base, Types, Control, Blocks, Solid, Stuck, Verdict, Entry, Done, History
      <2> QED BY <2>1, <2>2, <2>3, <2>4, <2>5, <2>6, <2>7, <2>8, <2>9, <2>10, <2>11 DEF Base
  <1>2. CASE Verdict("failed")
      <2>1. Types'
          BY <1>2, <1>a, Headers, StagedKept DEF Base, Types, Format, Archive, Verdict
      <2>2. Control'
          BY <1>2, <1>a, Headers DEF Base, Types, Control, Verdict, Entry, Done
      <2>3. Ended'
          BY <1>2, <1>a, Headers DEF Base, Types, Control, Ended, Verdict
      <2>4. Damage'
          BY <1>2, <1>a, Headers DEF Base, Types, Damage, Verdict
      <2>5. Blocks'
          BY <1>2, <1>a, Headers, BlocksKept DEF Base, Types, Control, Blocks, Archive, Verdict
      <2>6. Lacking'
          BY <1>2, <1>a, Headers DEF Base, Types, Control, Blocks, Lacking, Verdict, Entry, Done
      <2>7. LateStart'
          BY <1>2, <1>a, Headers
             DEF Base, Types, Control, Damage, Blocks, LateStart, Unjudged, Doomed, Stuck,
                 Archive, Verdict, Entry, Done
      <2>8. ASSUME IInv PROVE Sources'
          BY <2>8, <1>2, <1>a, Headers DEF IInv, Base, Types, Control, Sources, Verdict
      <2>9. ASSUME IInv PROVE Staging'
          BY <2>9, <1>2, <1>a, Headers DEF IInv, Base, Types, Control, Blocks, Staging, Verdict
      <2>10. ASSUME IInv PROVE Owing'
          BY <2>10, <1>2, <1>a, Headers DEF IInv, Base, Types, Control, Owing, Stuck, Verdict
      <2>11. ASSUME IInv PROVE Solid'
          BY <2>11, <1>2, <1>a, Headers
             DEF IInv, Base, Types, Control, Blocks, Solid, Stuck, Verdict, Entry, Done, History
      <2> QED BY <2>1, <2>2, <2>3, <2>4, <2>5, <2>6, <2>7, <2>8, <2>9, <2>10, <2>11 DEF Base
  <1> QED BY <1>1, <1>2, <1>a, EndsOfData DEF FillReturns

LEMMA PayloadSpentStep ==
  ASSUME Base, PayloadSpent
  PROVE  Base' /\ (IInv => (Sources /\ Staging /\ Owing /\ Solid)')
  <1>a. /\ reading \in Id /\ reading = entry /\ mem[entry] \in Entry /\ mem[entry].left \in Nat
        /\ pc \in {"read", "fill"} /\ mem[entry].done = "none" /\ mem[entry].left > 0
        /\ UNCHANGED <<draining, staged, entry, win, r, ret, archive, ghost>>
      BY ReadingIsEntry DEF PayloadSpent, AtSource, me, short
  <1>b. r.volIndex \in Nat /\ mem[entry].src \in Nat /\ body.n \in Nat
      BY <1>a, BoundsAssumption DEF Base, Types, Fields, Entry, Units
  <1>1. CASE mem[entry].comp /\ pc' = "read" /\ UNCHANGED <<mem, reading, vol, body>>
      <2>1. Types'
          BY <1>1, <1>a, <1>b, Headers, StagedKept DEF Base, Types, Format, Archive, Verdict
      <2>2. Control'
          BY <1>1, <1>a, <1>b, Headers DEF Base, Types, Control, Verdict, Entry, Done
      <2>3. Ended'
          BY <1>1, <1>a, <1>b, Headers DEF Base, Types, Control, Ended, Verdict
      <2>4. Damage'
          BY <1>1, <1>a, <1>b, Headers DEF Base, Types, Damage, Verdict
      <2>5. Blocks'
          BY <1>1, <1>a, <1>b, Headers, BlocksKept
             DEF Base, Types, Control, Blocks, Archive, Verdict
      <2>6. Lacking'
          BY <1>1, <1>a, <1>b, Headers
             DEF Base, Types, Control, Blocks, Lacking, Verdict, Entry, Done
      <2>7. LateStart'
          BY <1>1, <1>a, <1>b, Headers
             DEF Base, Types, Control, Damage, Blocks, LateStart, Unjudged, Doomed, Stuck,
                 Archive, Verdict, Entry, Done
      <2>8. ASSUME IInv PROVE Sources'
          BY <2>8, <1>1, <1>a, <1>b, Headers DEF IInv, Base, Types, Control, Sources, Verdict
      <2>9. ASSUME IInv PROVE Staging'
          BY <2>9, <1>1, <1>a, <1>b, Headers
             DEF IInv, Base, Types, Control, Blocks, Staging, Verdict
      <2>10. ASSUME IInv PROVE Owing'
          BY <2>10, <1>1, <1>a, <1>b, Headers
             DEF IInv, Base, Types, Control, Owing, Stuck, Verdict
      <2>11. ASSUME IInv PROVE Solid'
          BY <2>11, <1>1, <1>a, <1>b, Headers
             DEF IInv, Base, Types, Control, Blocks, Solid, Stuck, Verdict, Entry, Done, History
      <2> QED BY <2>1, <2>2, <2>3, <2>4, <2>5, <2>6, <2>7, <2>8, <2>9, <2>10, <2>11 DEF Base
  <1>2. CASE Verdict("failed") /\ UNCHANGED <<vol, body>>
      <2>1. Types'
          BY <1>2, <1>a, <1>b, Headers, StagedKept DEF Base, Types, Format, Archive, Verdict
      <2>2. Control'
          BY <1>2, <1>a, <1>b, Headers DEF Base, Types, Control, Verdict, Entry, Done
      <2>3. Ended'
          BY <1>2, <1>a, <1>b, Headers DEF Base, Types, Control, Ended, Verdict
      <2>4. Damage'
          BY <1>2, <1>a, <1>b, Headers DEF Base, Types, Damage, Verdict
      <2>5. Blocks'
          BY <1>2, <1>a, <1>b, Headers, BlocksKept
             DEF Base, Types, Control, Blocks, Archive, Verdict
      <2>6. Lacking'
          BY <1>2, <1>a, <1>b, Headers
             DEF Base, Types, Control, Blocks, Lacking, Verdict, Entry, Done
      <2>7. LateStart'
          BY <1>2, <1>a, <1>b, Headers
             DEF Base, Types, Control, Damage, Blocks, LateStart, Unjudged, Doomed, Stuck,
                 Archive, Verdict, Entry, Done
      <2>8. ASSUME IInv PROVE Sources'
          BY <2>8, <1>2, <1>a, <1>b, Headers DEF IInv, Base, Types, Control, Sources, Verdict
      <2>9. ASSUME IInv PROVE Staging'
          BY <2>9, <1>2, <1>a, <1>b, Headers
             DEF IInv, Base, Types, Control, Blocks, Staging, Verdict
      <2>10. ASSUME IInv PROVE Owing'
          BY <2>10, <1>2, <1>a, <1>b, Headers
             DEF IInv, Base, Types, Control, Owing, Stuck, Verdict
      <2>11. ASSUME IInv PROVE Solid'
          BY <2>11, <1>2, <1>a, <1>b, Headers
             DEF IInv, Base, Types, Control, Blocks, Solid, Stuck, Verdict, Entry, Done, History
      <2> QED BY <2>1, <2>2, <2>3, <2>4, <2>5, <2>6, <2>7, <2>8, <2>9, <2>10, <2>11 DEF Base
  <1>3. CASE /\ ~mem[entry].last /\ ~(vol # "nil" /\ body.n > 0)
             /\ pc' = "splice" /\ vol' = "nil" /\ body' = NoBody /\ UNCHANGED <<mem, reading>>
      <2>1. Types'
          BY <1>3, <1>a, <1>b, Headers, NoBodyTypes, StagedKept
             DEF Base, Types, Format, Archive, Verdict
      <2>2. Control'
          BY <1>3, <1>a, <1>b, Headers, NoBodyTypes
             DEF Base, Types, Control, Verdict, Entry, Done
      <2>3. Ended'
          BY <1>3, <1>a, <1>b, Headers, NoBodyTypes DEF Base, Types, Control, Ended, Verdict
      <2>4. Damage'
          BY <1>3, <1>a, <1>b, Headers, NoBodyTypes DEF Base, Types, Damage, Verdict
      <2>5. Blocks'
          BY <1>3, <1>a, <1>b, Headers, NoBodyTypes, BlocksKept
             DEF Base, Types, Control, Blocks, Archive, Verdict
      <2>6. Lacking'
          BY <1>3, <1>a, <1>b, Headers, NoBodyTypes
             DEF Base, Types, Control, Blocks, Lacking, Verdict, Entry, Done
      <2>7. LateStart'
          BY <1>3, <1>a, <1>b, Headers, NoBodyTypes
             DEF Base, Types, Control, Damage, Blocks, LateStart, Unjudged, Doomed, Stuck,
                 Archive, Verdict, Entry, Done
      <2>8. ASSUME IInv PROVE Sources'
          BY <2>8, <1>3, <1>a, <1>b, Headers, NoBodyTypes
             DEF IInv, Base, Types, Control, Sources, Verdict
      <2>9. ASSUME IInv PROVE Staging'
          BY <2>9, <1>3, <1>a, <1>b, Headers, NoBodyTypes
             DEF IInv, Base, Types, Control, Blocks, Staging, Verdict
      <2>10. ASSUME IInv PROVE Owing'
          BY <2>10, <1>3, <1>a, <1>b, Headers, NoBodyTypes
             DEF IInv, Base, Types, Control, Owing, Stuck, Verdict
      <2>11. ASSUME IInv PROVE Solid'
          BY <2>11, <1>3, <1>a, <1>b, Headers, NoBodyTypes
             DEF IInv, Base, Types, Control, Blocks, Solid, Stuck, Verdict, Entry, Done, History
      <2> QED BY <2>1, <2>2, <2>3, <2>4, <2>5, <2>6, <2>7, <2>8, <2>9, <2>10, <2>11 DEF Base
  <1> QED BY <1>1, <1>2, <1>3, <1>a, EndsVerdict, EndsOfSource DEF PayloadSpent, bodyShort, me

LEMMA NoNextVolumeStep ==
  ASSUME Base, NoNextVolume
  PROVE  Base' /\ (IInv => (Sources /\ Staging /\ Owing /\ Solid)')
  <1>a. /\ r \in Fields /\ archive \in Archive /\ vol = "nil"
        /\ archive' = [archive EXCEPT !.closed = TRUE]
        /\ UNCHANGED <<draining, vol, body, staged, entry, win, ghost>>
      BY DEF Base, Types, NoNextVolume, WantsVolume
  <1>b. /\ archive' \in Archive /\ archive'.rar4 = archive.rar4 /\ archive'.listing = archive.listing
        /\ archive'.numbered = archive.numbered /\ archive'.skipped = archive.skipped
        /\ archive'.start = archive.start /\ archive'.blocks = archive.blocks /\ archive.blocks \in Nat
    <2>1. archive' \in Archive
        BY <1>a DEF Archive
    <2>2. /\ archive'.rar4 = archive.rar4 /\ archive'.listing = archive.listing
          /\ archive'.numbered = archive.numbered /\ archive'.skipped = archive.skipped
          /\ archive'.start = archive.start /\ archive'.blocks = archive.blocks
        BY <1>a DEF Archive
    <2>3. archive.blocks \in Nat
        BY <1>a, Headers DEF Archive
    <2> QED BY <2>1, <2>2, <2>3
  <1>1. CASE /\ pc = "scan" /\ staged = NoHeader /\ pc' = "idle" /\ ret' = EndOfArchive
             /\ r' = [r EXCEPT !.fatal = @ \/ EndOfArchive # "eof"] /\ UNCHANGED <<mem, reading>>
      <2>1. Types'
          BY <1>1, <1>a, <1>b, Headers, StagedKept
             DEF Base, Types, Format, Archive, EndOfArchive, Fields
      <2>2. Control'
          BY <1>1, <1>a, <1>b, Headers
             DEF Base, Types, Control, EndOfArchive, Fields, Entry, Done
      <2>3. Ended'
          BY <1>1, <1>a, <1>b, Headers DEF Base, Types, Control, Ended, EndOfArchive, Fields
      <2>4. Damage'
          BY <1>1, <1>a, <1>b, Headers DEF Base, Types, Damage, EndOfArchive, Fields
      <2>5. Blocks'
          BY <1>1, <1>a, <1>b, Headers, BlocksKept
             DEF Base, Types, Control, Blocks, Archive, EndOfArchive, Fields
      <2>6. Lacking'
          BY <1>1, <1>a, <1>b, Headers
             DEF Base, Types, Control, Blocks, Lacking, EndOfArchive, Fields, Entry, Done
      <2>7. LateStart'
          BY <1>1, <1>a, <1>b, Headers
             DEF Base, Types, Control, Damage, Blocks, LateStart, Unjudged, Doomed, Stuck,
                 Archive, EndOfArchive, Fields, Entry, Done
      <2>8. ASSUME IInv PROVE Sources'
          BY <2>8, <1>1, <1>a, <1>b, Headers
             DEF IInv, Base, Types, Control, Sources, EndOfArchive, Fields
      <2>9. ASSUME IInv PROVE Staging'
          BY <2>9, <1>1, <1>a, <1>b, Headers
             DEF IInv, Base, Types, Control, Blocks, Staging, EndOfArchive, Fields
      <2>10. ASSUME IInv PROVE Owing'
          BY <2>10, <1>1, <1>a, <1>b, Headers
             DEF IInv, Base, Types, Control, Owing, Stuck, EndOfArchive, Fields
      <2>11. ASSUME IInv PROVE Solid'
          BY <2>11, <1>1, <1>a, <1>b, Headers
             DEF IInv, Base, Types, Control, Blocks, Solid, Stuck, EndOfArchive, Fields, Entry,
                 Done, History
      <2> QED BY <2>1, <2>2, <2>3, <2>4, <2>5, <2>6, <2>7, <2>8, <2>9, <2>10, <2>11 DEF Base
  <1>2. CASE /\ pc = "splice" /\ reading \in Id /\ reading = entry /\ Verdict("failed")
             /\ UNCHANGED <<r, ret>>
      <2>1. Types'
          BY <1>2, <1>a, <1>b, Headers, StagedKept DEF Base, Types, Format, Archive, Verdict
      <2>2. Control'
          BY <1>2, <1>a, <1>b, Headers DEF Base, Types, Control, Verdict, Entry, Done
      <2>3. Ended'
          BY <1>2, <1>a, <1>b, Headers DEF Base, Types, Control, Ended, Verdict
      <2>4. Damage'
          BY <1>2, <1>a, <1>b, Headers DEF Base, Types, Damage, Verdict
      <2>5. Blocks'
          BY <1>2, <1>a, <1>b, Headers, BlocksKept
             DEF Base, Types, Control, Blocks, Archive, Verdict
      <2>6. Lacking'
          BY <1>2, <1>a, <1>b, Headers
             DEF Base, Types, Control, Blocks, Lacking, Verdict, Entry, Done
      <2>7. LateStart'
          BY <1>2, <1>a, <1>b, Headers
             DEF Base, Types, Control, Damage, Blocks, LateStart, Unjudged, Doomed, Stuck,
                 Archive, Verdict, Entry, Done
      <2>8. ASSUME IInv PROVE Sources'
          BY <2>8, <1>2, <1>a, <1>b, Headers DEF IInv, Base, Types, Control, Sources, Verdict
      <2>9. ASSUME IInv PROVE Staging'
          BY <2>9, <1>2, <1>a, <1>b, Headers
             DEF IInv, Base, Types, Control, Blocks, Staging, Verdict
      <2>10. ASSUME IInv PROVE Owing'
          BY <2>10, <1>2, <1>a, <1>b, Headers
             DEF IInv, Base, Types, Control, Owing, Stuck, Verdict
      <2>11. ASSUME IInv PROVE Solid'
          BY <2>11, <1>2, <1>a, <1>b, Headers
             DEF IInv, Base, Types, Control, Blocks, Solid, Stuck, Verdict, Entry, Done, History
      <2> QED BY <2>1, <2>2, <2>3, <2>4, <2>5, <2>6, <2>7, <2>8, <2>9, <2>10, <2>11 DEF Base
  <1> QED BY <1>1, <1>2, EndsVerdict, ReadingIsEntry DEF NoNextVolume, WantsVolume

(* The archive cannot be read on: the scan returns the error, the splice     *)
(* makes it the member's verdict.                                           *)
LEMMA FailsFacts ==
  ASSUME Base, NEW rr \in Fields, ArchiveFails(rr), pc \in {"scan", "splice"}
  PROVE  /\ r' \in Fields /\ r' = [rr EXCEPT !.fatal = TRUE] /\ r'.fatal
         /\ r'.volIndex = rr.volIndex /\ r'.damaged = rr.damaged /\ r'.late = rr.late
         /\ r'.endSeen = rr.endSeen /\ r'.memberFailed = rr.memberFailed /\ r'.solid = rr.solid
         /\ \/ pc = "scan" /\ entry = 0 /\ pc' = "idle" /\ ret' = "fatal" /\ UNCHANGED <<mem, reading>>
            \/ pc = "splice" /\ reading \in Id /\ reading = entry /\ Verdict("failed") /\ UNCHANGED ret
  <1>1. r' = [rr EXCEPT !.fatal = TRUE]
      BY DEF ArchiveFails
  <1>2. r' \in Fields /\ r'.fatal = TRUE
      BY <1>1 DEF Fields
  <1>3. /\ r'.volIndex = rr.volIndex /\ r'.damaged = rr.damaged /\ r'.late = rr.late
        /\ r'.endSeen = rr.endSeen /\ r'.memberFailed = rr.memberFailed /\ r'.solid = rr.solid
      BY <1>1 DEF Fields
  <1>4. pc = "scan" => entry = 0
      BY DEF Base, Control
  <1>5. \/ pc = "scan" /\ pc' = "idle" /\ ret' = "fatal" /\ UNCHANGED <<mem, reading>>
        \/ pc = "splice" /\ Ends("failed") /\ UNCHANGED ret
      BY DEF ArchiveFails
  <1> QED BY <1>1, <1>2, <1>3, <1>4, <1>5, EndsVerdict, ReadingIsEntry

LEMMA BadHeaderStep ==
  ASSUME Base, BadHeader
  PROVE  Base' /\ (IInv => (Sources /\ Staging /\ Owing /\ Solid)')
  <1>a. /\ pc \in {"scan", "splice"} /\ (pc = "scan" => staged = NoHeader) /\ r \in Fields
        /\ vol # "nil" /\ vol' = "failed"
        /\ UNCHANGED <<draining, body, staged, entry, win, archive, ghost>>
      BY DEF Base, Types, BadHeader, AtHeader
  <1>b. /\ r' \in Fields /\ r'.volIndex = r.volIndex /\ r'.damaged = r.damaged /\ r'.late = r.late
        /\ r'.endSeen = r.endSeen /\ r'.memberFailed = r.memberFailed /\ r'.solid = r.solid /\ r'.fatal
      BY <1>a, FailsFacts DEF BadHeader
  <1>1. CASE pc = "scan" /\ entry = 0 /\ pc' = "idle" /\ ret' = "fatal" /\ UNCHANGED <<mem, reading>>
      <2>1. Types'
          BY <1>1, <1>a, <1>b, Headers, StagedKept DEF Base, Types, Format, Archive, Verdict
      <2>2. Control'
          BY <1>1, <1>a, <1>b, Headers DEF Base, Types, Control, Verdict, Entry, Done
      <2>3. Ended'
          BY <1>1, <1>a, <1>b, Headers DEF Base, Types, Control, Ended, Verdict
      <2>4. Damage'
          BY <1>1, <1>a, <1>b, Headers DEF Base, Types, Damage, Verdict
      <2>5. Blocks'
          BY <1>1, <1>a, <1>b, Headers, BlocksKept
             DEF Base, Types, Control, Blocks, Archive, Verdict
      <2>6. Lacking'
          BY <1>1, <1>a, <1>b, Headers
             DEF Base, Types, Control, Blocks, Lacking, Verdict, Entry, Done
      <2>7. LateStart'
          BY <1>1, <1>a, <1>b, Headers
             DEF Base, Types, Control, Damage, Blocks, LateStart, Unjudged, Doomed, Stuck,
                 Archive, Verdict, Entry, Done
      <2>8. ASSUME IInv PROVE Sources'
          BY <2>8, <1>1, <1>a, <1>b, Headers DEF IInv, Base, Types, Control, Sources, Verdict
      <2>9. ASSUME IInv PROVE Staging'
          BY <2>9, <1>1, <1>a, <1>b, Headers
             DEF IInv, Base, Types, Control, Blocks, Staging, Verdict
      <2>10. ASSUME IInv PROVE Owing'
          BY <2>10, <1>1, <1>a, <1>b, Headers
             DEF IInv, Base, Types, Control, Owing, Stuck, Verdict
      <2>11. ASSUME IInv PROVE Solid'
          BY <2>11, <1>1, <1>a, <1>b, Headers
             DEF IInv, Base, Types, Control, Blocks, Solid, Stuck, Verdict, Entry, Done, History
      <2> QED BY <2>1, <2>2, <2>3, <2>4, <2>5, <2>6, <2>7, <2>8, <2>9, <2>10, <2>11 DEF Base
  <1>2. CASE pc = "splice" /\ reading \in Id /\ reading = entry /\ Verdict("failed") /\ UNCHANGED ret
      <2>1. Types'
          BY <1>2, <1>a, <1>b, Headers, StagedKept DEF Base, Types, Format, Archive, Verdict
      <2>2. Control'
          BY <1>2, <1>a, <1>b, Headers DEF Base, Types, Control, Verdict, Entry, Done
      <2>3. Ended'
          BY <1>2, <1>a, <1>b, Headers DEF Base, Types, Control, Ended, Verdict
      <2>4. Damage'
          BY <1>2, <1>a, <1>b, Headers DEF Base, Types, Damage, Verdict
      <2>5. Blocks'
          BY <1>2, <1>a, <1>b, Headers, BlocksKept
             DEF Base, Types, Control, Blocks, Archive, Verdict
      <2>6. Lacking'
          BY <1>2, <1>a, <1>b, Headers
             DEF Base, Types, Control, Blocks, Lacking, Verdict, Entry, Done
      <2>7. LateStart'
          BY <1>2, <1>a, <1>b, Headers
             DEF Base, Types, Control, Damage, Blocks, LateStart, Unjudged, Doomed, Stuck,
                 Archive, Verdict, Entry, Done
      <2>8. ASSUME IInv PROVE Sources'
          BY <2>8, <1>2, <1>a, <1>b, Headers DEF IInv, Base, Types, Control, Sources, Verdict
      <2>9. ASSUME IInv PROVE Staging'
          BY <2>9, <1>2, <1>a, <1>b, Headers
             DEF IInv, Base, Types, Control, Blocks, Staging, Verdict
      <2>10. ASSUME IInv PROVE Owing'
          BY <2>10, <1>2, <1>a, <1>b, Headers
             DEF IInv, Base, Types, Control, Owing, Stuck, Verdict
      <2>11. ASSUME IInv PROVE Solid'
          BY <2>11, <1>2, <1>a, <1>b, Headers
             DEF IInv, Base, Types, Control, Blocks, Solid, Stuck, Verdict, Entry, Done, History
      <2> QED BY <2>1, <2>2, <2>3, <2>4, <2>5, <2>6, <2>7, <2>8, <2>9, <2>10, <2>11 DEF Base
  <1> QED BY <1>1, <1>2, <1>a, FailsFacts DEF BadHeader

LEMMA OpenNextVolumeStep ==
  ASSUME Base, OpenNextVolume
  PROVE  Base' /\ (IInv => (Sources /\ Staging /\ Owing /\ Solid)')
  <1> DEFINE rr == [r EXCEPT !.volIndex = @ + 1]
  <1>a. /\ vol = "nil" /\ (pc = "splice" \/ (pc = "scan" /\ staged = NoHeader))
        /\ r \in Fields /\ archive \in Archive /\ r.volIndex \in Nat /\ r.volIndex < MaxVolumes
        /\ UNCHANGED <<draining, body, staged, entry, win>>
      BY DEF Base, Types, OpenNextVolume, WantsVolume, Fields
  <1>b. PICK gap \in Nat :
          /\ r.volIndex = 0 => gap = 0
          /\ archive' = [archive EXCEPT !.skipped = @ + gap]
          /\ \/ /\ vol' = "open" /\ r' = rr
                /\ UNCHANGED <<pc, reading, mem, ret, ghost>>
             \/ /\ r' = [rr EXCEPT !.damaged = TRUE]
                /\ ghost' = [ghost EXCEPT !.cut = TRUE]
                /\ UNCHANGED <<pc, reading, mem, ret, vol>>
             \/ ArchiveFails(rr) /\ UNCHANGED <<vol, ghost>>
    <2>1. PICK g \in {g \in 0 .. Bound.skipped - archive.skipped : r.volIndex = 0 => g = 0} :
          /\ archive' = [archive EXCEPT !.skipped = @ + g]
          /\ \/ /\ vol' = "open" /\ r' = rr
                /\ UNCHANGED <<pc, reading, mem, ret, ghost>>
             \/ /\ r' = [rr EXCEPT !.damaged = TRUE]
                /\ ghost' = [ghost EXCEPT !.cut = TRUE]
                /\ UNCHANGED <<pc, reading, mem, ret, vol>>
             \/ ArchiveFails(rr) /\ UNCHANGED <<vol, ghost>>
        BY DEF OpenNextVolume
    <2>2. Bound.skipped \in Nat /\ archive.skipped \in Nat
        BY <1>a, BoundsAssumption DEF Base, Types, Bound, Format, Archive
    <2>3. g \in Nat /\ (r.volIndex = 0 => g = 0)
        BY <2>2
    <2> QED BY <2>1, <2>3
  <1>c. /\ archive' \in Archive /\ archive'.rar4 = archive.rar4 /\ archive'.listing = archive.listing
        /\ archive'.numbered = archive.numbered /\ archive'.skipped = archive.skipped + gap
        /\ archive'.start = archive.start /\ archive'.blocks = archive.blocks /\ archive.blocks \in Nat
        /\ archive.skipped \in Nat
    <2>1. archive.skipped + gap \in Nat /\ archive.blocks \in Nat /\ archive.skipped \in Nat
        BY <1>a DEF Archive
    <2>2. archive' \in Archive
        BY <1>a, <1>b, <2>1 DEF Archive
    <2>3. /\ archive'.rar4 = archive.rar4 /\ archive'.listing = archive.listing
          /\ archive'.numbered = archive.numbered /\ archive'.skipped = archive.skipped + gap
          /\ archive'.start = archive.start /\ archive'.blocks = archive.blocks
        BY <1>a, <1>b DEF Archive
    <2> QED BY <2>1, <2>2, <2>3
  <1>d. rr \in Fields /\ rr.volIndex = r.volIndex + 1 /\ rr.damaged = r.damaged /\ rr.late = r.late
        /\ rr.endSeen = r.endSeen /\ rr.memberFailed = r.memberFailed /\ rr.fatal = r.fatal
    <2>1. r.volIndex + 1 \in 0 .. MaxVolumes
        BY <1>a, BoundsAssumption
    <2> QED BY <1>a, <2>1 DEF Fields
  <1>e. pc = "scan" => entry = 0
      BY DEF Base, Control
  <1>f. pc = "splice" => reading \in Id /\ reading = entry /\ mem[entry].left > 0 /\ mem[entry].done = "none"
                         /\ mem[entry].src \in Nat /\ mem[entry].skips \in Nat /\ ~mem[entry].empty
    <2>1. pc = "splice" => reading \in Id /\ reading = entry /\ mem[entry].left > 0 /\ mem[entry].done = "none"
        BY ReadingIsEntry DEF Base, Control
    <2> QED BY <2>1, ReadingIsEntry DEF Base, LateStart, Entry
  <1> HIDE DEF rr
  <1>1. CASE vol' = "open" /\ r' = rr /\ UNCHANGED <<pc, reading, mem, ret, ghost>>
      <2>1. Types'
          BY <1>1, <1>a, <1>c, <1>d, <1>e, <1>f, Headers, BoundsAssumption, StagedKept
             DEF Base, Types, Format, Archive
      <2>2. Control'
          BY <1>1, <1>a, <1>c, <1>d, <1>e, <1>f, Headers DEF Base, Types, Control, Entry, Done
      <2>3. Ended'
          BY <1>1, <1>a, <1>c, <1>d, <1>e, <1>f, Headers DEF Base, Types, Control, Ended
      <2>4. Damage'
          BY <1>1, <1>a, <1>c, <1>d, <1>e, <1>f, Headers DEF Base, Types, Damage
      <2>5. Blocks'
          BY <1>1, <1>a, <1>c, <1>d, <1>e, <1>f, Headers, BlocksKept
             DEF Base, Types, Control, Blocks, Archive
      <2>6. Lacking'
          BY <1>1, <1>a, <1>c, <1>d, <1>e, <1>f, Headers
             DEF Base, Types, Control, Blocks, Lacking, Entry, Done
      <2>7. LateStart'
          BY <1>1, <1>a, <1>c, <1>d, <1>e, <1>f, Headers, <1>b
             DEF Base, Types, Control, Damage, Blocks, LateStart, Unjudged, Doomed, Stuck,
                 Archive, Entry, Done
      <2>8. ASSUME IInv PROVE Sources'
          BY <2>8, <1>1, <1>a, <1>c, <1>d, <1>e, <1>f, Headers
             DEF IInv, Base, Types, Control, Sources
      <2>9. ASSUME IInv PROVE Staging'
          BY <2>9, <1>1, <1>a, <1>c, <1>d, <1>e, <1>f, Headers
             DEF IInv, Base, Types, Control, Blocks, Staging
      <2>10. ASSUME IInv PROVE Owing'
          BY <2>10, <1>1, <1>a, <1>c, <1>d, <1>e, <1>f, Headers
             DEF IInv, Base, Types, Control, Owing, Stuck
      <2>11. ASSUME IInv PROVE Solid'
          BY <2>11, <1>1, <1>a, <1>c, <1>d, <1>e, <1>f, Headers
             DEF IInv, Base, Types, Control, Blocks, Solid, Stuck, Entry, Done, History
      <2> QED BY <2>1, <2>2, <2>3, <2>4, <2>5, <2>6, <2>7, <2>8, <2>9, <2>10, <2>11 DEF Base
  <1>2. CASE /\ r' = [rr EXCEPT !.damaged = TRUE] /\ ghost' = [ghost EXCEPT !.cut = TRUE]
             /\ UNCHANGED <<pc, reading, mem, ret, vol>>
      <2>a. /\ r' \in Fields /\ r'.volIndex = r.volIndex + 1 /\ r'.damaged /\ r'.fatal = r.fatal
            /\ r'.late = r.late
            /\ ghost' \in History /\ ghost'.cut /\ ghost'.run = ghost.run /\ ghost'.owed = ghost.owed
            /\ ghost'.foreign = ghost.foreign /\ ghost'.unended = ghost.unended
        <3>1. r' \in Fields /\ r'.volIndex = r.volIndex + 1 /\ r'.damaged = TRUE /\ r'.fatal = r.fatal
              /\ r'.late = r.late
            BY <1>2, <1>d DEF Fields
        <3>2. ghost \in History
            BY DEF Base, Types
        <3> QED BY <1>2, <3>1, <3>2 DEF History
      <2>1. Types'
          BY <1>2, <1>a, <1>c, <1>d, <1>e, <1>f, Headers, <2>a, BoundsAssumption, StagedKept
             DEF Base, Types, Format, Archive
      <2>2. Control'
          BY <1>2, <1>a, <1>c, <1>d, <1>e, <1>f, Headers, <2>a
             DEF Base, Types, Control, Entry, Done
      <2>3. Ended'
          BY <1>2, <1>a, <1>c, <1>d, <1>e, <1>f, Headers, <2>a DEF Base, Types, Control, Ended
      <2>4. Damage'
          BY <1>2, <1>a, <1>c, <1>d, <1>e, <1>f, Headers, <2>a DEF Base, Types, Damage
      <2>5. Blocks'
          BY <1>2, <1>a, <1>c, <1>d, <1>e, <1>f, Headers, <2>a, BlocksKept
             DEF Base, Types, Control, Blocks, Archive
      <2>6. Lacking'
          BY <1>2, <1>a, <1>c, <1>d, <1>e, <1>f, Headers, <2>a
             DEF Base, Types, Control, Blocks, Lacking, Entry, Done
      <2>7. LateStart'
          BY <1>2, <1>a, <1>c, <1>d, <1>e, <1>f, Headers, <2>a, <1>b
             DEF Base, Types, Control, Damage, Blocks, LateStart, Unjudged, Doomed, Stuck,
                 Archive, Entry, Done
      <2>8. ASSUME IInv PROVE Sources'
          BY <2>8, <1>2, <1>a, <1>c, <1>d, <1>e, <1>f, Headers, <2>a
             DEF IInv, Base, Types, Control, Sources
      <2>9. ASSUME IInv PROVE Staging'
          BY <2>9, <1>2, <1>a, <1>c, <1>d, <1>e, <1>f, Headers, <2>a
             DEF IInv, Base, Types, Control, Blocks, Staging
      <2>10. ASSUME IInv PROVE Owing'
          BY <2>10, <1>2, <1>a, <1>c, <1>d, <1>e, <1>f, Headers, <2>a
             DEF IInv, Base, Types, Control, Owing, Stuck
      <2>11. ASSUME IInv PROVE Solid'
          BY <2>11, <1>2, <1>a, <1>c, <1>d, <1>e, <1>f, Headers, <2>a
             DEF IInv, Base, Types, Control, Blocks, Solid, Stuck, Entry, Done, History
      <2> QED BY <2>1, <2>2, <2>3, <2>4, <2>5, <2>6, <2>7, <2>8, <2>9, <2>10, <2>11 DEF Base
  <1>3. CASE ArchiveFails(rr) /\ UNCHANGED <<vol, ghost>> /\ pc = "scan"
      <2>a. /\ r' \in Fields /\ r'.volIndex = r.volIndex + 1 /\ r'.damaged = r.damaged /\ r'.late = r.late
            /\ r'.endSeen = r.endSeen /\ r'.memberFailed = r.memberFailed /\ r'.fatal
          BY <1>3, <1>d, FailsFacts
      <2>b. entry = 0 /\ pc' = "idle" /\ ret' = "fatal" /\ UNCHANGED <<mem, reading>>
          BY <1>3, <1>d, FailsFacts
      <2>1. Types'
          BY <1>3, <1>a, <1>c, <1>d, <1>e, <1>f, Headers, <2>a, <2>b, BoundsAssumption,
             StagedKept
             DEF Base, Types, Format, Archive
      <2>2. Control'
          BY <1>3, <1>a, <1>c, <1>d, <1>e, <1>f, Headers, <2>a, <2>b
             DEF Base, Types, Control, Entry, Done
      <2>3. Ended'
          BY <1>3, <1>a, <1>c, <1>d, <1>e, <1>f, Headers, <2>a, <2>b
             DEF Base, Types, Control, Ended
      <2>4. Damage'
          BY <1>3, <1>a, <1>c, <1>d, <1>e, <1>f, Headers, <2>a, <2>b DEF Base, Types, Damage
      <2>5. Blocks'
          BY <1>3, <1>a, <1>c, <1>d, <1>e, <1>f, Headers, <2>a, <2>b, BlocksKept
             DEF Base, Types, Control, Blocks, Archive
      <2>6. Lacking'
          BY <1>3, <1>a, <1>c, <1>d, <1>e, <1>f, Headers, <2>a, <2>b
             DEF Base, Types, Control, Blocks, Lacking, Entry, Done
      <2>7. LateStart'
          BY <1>3, <1>a, <1>c, <1>d, <1>e, <1>f, Headers, <2>a, <2>b, <1>b
             DEF Base, Types, Control, Damage, Blocks, LateStart, Unjudged, Doomed, Stuck,
                 Archive, Entry, Done
      <2>8. ASSUME IInv PROVE Sources'
          BY <2>8, <1>3, <1>a, <1>c, <1>d, <1>e, <1>f, Headers, <2>a, <2>b
             DEF IInv, Base, Types, Control, Sources
      <2>9. ASSUME IInv PROVE Staging'
          BY <2>9, <1>3, <1>a, <1>c, <1>d, <1>e, <1>f, Headers, <2>a, <2>b
             DEF IInv, Base, Types, Control, Blocks, Staging
      <2>10. ASSUME IInv PROVE Owing'
          BY <2>10, <1>3, <1>a, <1>c, <1>d, <1>e, <1>f, Headers, <2>a, <2>b
             DEF IInv, Base, Types, Control, Owing, Stuck
      <2>11. ASSUME IInv PROVE Solid'
          BY <2>11, <1>3, <1>a, <1>c, <1>d, <1>e, <1>f, Headers, <2>a, <2>b
             DEF IInv, Base, Types, Control, Blocks, Solid, Stuck, Entry, Done, History
      <2> QED BY <2>1, <2>2, <2>3, <2>4, <2>5, <2>6, <2>7, <2>8, <2>9, <2>10, <2>11 DEF Base
  <1>4. CASE ArchiveFails(rr) /\ UNCHANGED <<vol, ghost>> /\ pc = "splice"
      <2>a. /\ r' \in Fields /\ r'.volIndex = r.volIndex + 1 /\ r'.damaged = r.damaged /\ r'.late = r.late
            /\ r'.endSeen = r.endSeen /\ r'.memberFailed = r.memberFailed /\ r'.fatal
          BY <1>4, <1>d, FailsFacts
      <2>b. Verdict("failed") /\ UNCHANGED ret
          BY <1>4, <1>d, FailsFacts
      <2>1. Types'
          BY <1>4, <1>a, <1>c, <1>d, <1>e, <1>f, Headers, <2>a, <2>b, BoundsAssumption,
             StagedKept
             DEF Base, Types, Format, Archive, Verdict
      <2>2. Control'
          BY <1>4, <1>a, <1>c, <1>d, <1>e, <1>f, Headers, <2>a, <2>b
             DEF Base, Types, Control, Verdict, Entry, Done
      <2>3. Ended'
          BY <1>4, <1>a, <1>c, <1>d, <1>e, <1>f, Headers, <2>a, <2>b
             DEF Base, Types, Control, Ended, Verdict
      <2>4. Damage'
          BY <1>4, <1>a, <1>c, <1>d, <1>e, <1>f, Headers, <2>a, <2>b
             DEF Base, Types, Damage, Verdict
      <2>5. Blocks'
          BY <1>4, <1>a, <1>c, <1>d, <1>e, <1>f, Headers, <2>a, <2>b, BlocksKept
             DEF Base, Types, Control, Blocks, Archive, Verdict
      <2>6. Lacking'
          BY <1>4, <1>a, <1>c, <1>d, <1>e, <1>f, Headers, <2>a, <2>b
             DEF Base, Types, Control, Blocks, Lacking, Verdict, Entry, Done
      <2>7. LateStart'
          BY <1>4, <1>a, <1>c, <1>d, <1>e, <1>f, Headers, <2>a, <2>b, <1>b
             DEF Base, Types, Control, Damage, Blocks, LateStart, Unjudged, Doomed, Stuck,
                 Archive, Verdict, Entry, Done
      <2>8. ASSUME IInv PROVE Sources'
          BY <2>8, <1>4, <1>a, <1>c, <1>d, <1>e, <1>f, Headers, <2>a, <2>b
             DEF IInv, Base, Types, Control, Sources, Verdict
      <2>9. ASSUME IInv PROVE Staging'
          BY <2>9, <1>4, <1>a, <1>c, <1>d, <1>e, <1>f, Headers, <2>a, <2>b
             DEF IInv, Base, Types, Control, Blocks, Staging, Verdict
      <2>10. ASSUME IInv PROVE Owing'
          BY <2>10, <1>4, <1>a, <1>c, <1>d, <1>e, <1>f, Headers, <2>a, <2>b
             DEF IInv, Base, Types, Control, Owing, Stuck, Verdict
      <2>11. ASSUME IInv PROVE Solid'
          BY <2>11, <1>4, <1>a, <1>c, <1>d, <1>e, <1>f, Headers, <2>a, <2>b
             DEF IInv, Base, Types, Control, Blocks, Solid, Stuck, Verdict, Entry, Done, History
      <2> QED BY <2>1, <2>2, <2>3, <2>4, <2>5, <2>6, <2>7, <2>8, <2>9, <2>10, <2>11 DEF Base
  <1> QED BY <1>1, <1>2, <1>3, <1>4, <1>a, <1>b

LEMMA PayloadBody ==
  ASSUME NEW b \in Payload, NEW o \in {0} \cup Id,
         NEW x, x = [n |-> b.n, have |-> b.have, owner |-> o]
  PROVE  /\ x \in [n: Units, have: Units, owner: {0} \cup Id]
         /\ x.have <= x.n /\ x.owner = o /\ x.n = b.n
  <1>1. b.n \in Units /\ b.have \in Units /\ b.have <= b.n
      BY DEF Payload
  <1> QED BY <1>1

LEMMA ArchiveHeaderStep ==
  ASSUME Base, ArchiveHeader
  PROVE  Base' /\ (IInv => (Sources /\ Staging /\ Owing /\ Solid)')
  <1>a. /\ Types /\ Block /\ r \in Fields /\ vol # "nil"
        /\ UNCHANGED <<draining, vol, staged, entry, win, ghost>>
      BY BlockRead DEF Base, Types, ArchiveHeader
  <1>b. /\ archive' \in Archive /\ archive.blocks \in Nat /\ archive'.blocks = archive.blocks + 1
        /\ archive'.rar4 = archive.rar4 /\ archive'.listing = archive.listing
        /\ archive'.numbered = archive.numbered /\ archive'.skipped = archive.skipped
        /\ archive'.start = archive.start /\ Format' \in DOMAIN Bounds
        /\ vol = "open" /\ (pc = "splice" \/ (pc = "scan" /\ staged = NoHeader))
      BY <1>a, BlockRead
  <1>c. body' \in [n: Units, have: Units, owner: {0} \cup Id] /\ body'.have <= body'.n
      BY <1>a, <1>b, NoBodyTypes DEF ArchiveHeader
  <1>d. pc = "scan" => entry = 0
      BY DEF Base, Control
  <1>e. pc = "splice" => reading \in Id /\ reading = entry /\ mem[entry].done = "none"
                         /\ mem[entry].src \in Nat /\ r.volIndex \in Nat
      BY ReadingIsEntry DEF Base, Control
  <1>f. \/ /\ r' \in Fields /\ r'.volIndex = r.volIndex /\ r'.damaged = r.damaged /\ r'.late = r.late
             /\ r'.endSeen = r.endSeen /\ r'.memberFailed = r.memberFailed /\ r'.fatal = r.fatal
             /\ UNCHANGED <<pc, reading, mem, ret>>
        \/ ArchiveFails(r)
      BY <1>a DEF ArchiveHeader, Fields
  <1>1. CASE /\ r' \in Fields /\ r'.volIndex = r.volIndex /\ r'.damaged = r.damaged /\ r'.late = r.late
             /\ r'.endSeen = r.endSeen /\ r'.memberFailed = r.memberFailed /\ r'.fatal = r.fatal
             /\ UNCHANGED <<pc, reading, mem, ret>>
      <2>1. Types'
          BY <1>1, <1>a, <1>b, <1>c, <1>d, <1>e, Headers, StagedKept
             DEF Base, Types, Format, Archive
      <2>2. Control'
          BY <1>1, <1>a, <1>b, <1>c, <1>d, <1>e, Headers DEF Base, Types, Control, Entry, Done
      <2>3. Ended'
          BY <1>1, <1>a, <1>b, <1>c, <1>d, <1>e, Headers DEF Base, Types, Control, Ended
      <2>4. Damage'
          BY <1>1, <1>a, <1>b, <1>c, <1>d, <1>e, Headers DEF Base, Types, Damage
      <2>5. Blocks'
          BY <1>1, <1>a, <1>b, <1>c, <1>d, <1>e, Headers, BlocksKept
             DEF Base, Types, Control, Blocks, Archive
      <2>6. Lacking'
          BY <1>1, <1>a, <1>b, <1>c, <1>d, <1>e, Headers
             DEF Base, Types, Control, Blocks, Lacking, Entry, Done
      <2>7. LateStart'
          BY <1>1, <1>a, <1>b, <1>c, <1>d, <1>e, Headers
             DEF Base, Types, Control, Damage, Blocks, LateStart, Unjudged, Doomed, Stuck,
                 Archive, Entry, Done
      <2>8. ASSUME IInv PROVE Sources'
          BY <2>8, <1>1, <1>a, <1>b, <1>c, <1>d, <1>e, Headers
             DEF IInv, Base, Types, Control, Sources
      <2>9. ASSUME IInv PROVE Staging'
          BY <2>9, <1>1, <1>a, <1>b, <1>c, <1>d, <1>e, Headers
             DEF IInv, Base, Types, Control, Blocks, Staging
      <2>10. ASSUME IInv PROVE Owing'
          BY <2>10, <1>1, <1>a, <1>b, <1>c, <1>d, <1>e, Headers
             DEF IInv, Base, Types, Control, Owing, Stuck
      <2>11. ASSUME IInv PROVE Solid'
          BY <2>11, <1>1, <1>a, <1>b, <1>c, <1>d, <1>e, Headers
             DEF IInv, Base, Types, Control, Blocks, Solid, Stuck, Entry, Done, History
      <2> QED BY <2>1, <2>2, <2>3, <2>4, <2>5, <2>6, <2>7, <2>8, <2>9, <2>10, <2>11 DEF Base
  <1>2. CASE ArchiveFails(r) /\ pc = "scan"
      <2>a. /\ r' \in Fields /\ r'.volIndex = r.volIndex /\ r'.damaged = r.damaged /\ r'.late = r.late
            /\ r'.endSeen = r.endSeen /\ r'.memberFailed = r.memberFailed /\ r'.fatal
            /\ entry = 0 /\ pc' = "idle" /\ ret' = "fatal" /\ UNCHANGED <<mem, reading>>
          BY <1>2, <1>a, FailsFacts
      <2>1. Types'
          BY <1>2, <1>a, <1>b, <1>c, <1>d, <1>e, Headers, <2>a, StagedKept
             DEF Base, Types, Format, Archive
      <2>2. Control'
          BY <1>2, <1>a, <1>b, <1>c, <1>d, <1>e, Headers, <2>a
             DEF Base, Types, Control, Entry, Done
      <2>3. Ended'
          BY <1>2, <1>a, <1>b, <1>c, <1>d, <1>e, Headers, <2>a DEF Base, Types, Control, Ended
      <2>4. Damage'
          BY <1>2, <1>a, <1>b, <1>c, <1>d, <1>e, Headers, <2>a DEF Base, Types, Damage
      <2>5. Blocks'
          BY <1>2, <1>a, <1>b, <1>c, <1>d, <1>e, Headers, <2>a, BlocksKept
             DEF Base, Types, Control, Blocks, Archive
      <2>6. Lacking'
          BY <1>2, <1>a, <1>b, <1>c, <1>d, <1>e, Headers, <2>a
             DEF Base, Types, Control, Blocks, Lacking, Entry, Done
      <2>7. LateStart'
          BY <1>2, <1>a, <1>b, <1>c, <1>d, <1>e, Headers, <2>a
             DEF Base, Types, Control, Damage, Blocks, LateStart, Unjudged, Doomed, Stuck,
                 Archive, Entry, Done
      <2>8. ASSUME IInv PROVE Sources'
          BY <2>8, <1>2, <1>a, <1>b, <1>c, <1>d, <1>e, Headers, <2>a
             DEF IInv, Base, Types, Control, Sources
      <2>9. ASSUME IInv PROVE Staging'
          BY <2>9, <1>2, <1>a, <1>b, <1>c, <1>d, <1>e, Headers, <2>a
             DEF IInv, Base, Types, Control, Blocks, Staging
      <2>10. ASSUME IInv PROVE Owing'
          BY <2>10, <1>2, <1>a, <1>b, <1>c, <1>d, <1>e, Headers, <2>a
             DEF IInv, Base, Types, Control, Owing, Stuck
      <2>11. ASSUME IInv PROVE Solid'
          BY <2>11, <1>2, <1>a, <1>b, <1>c, <1>d, <1>e, Headers, <2>a
             DEF IInv, Base, Types, Control, Blocks, Solid, Stuck, Entry, Done, History
      <2> QED BY <2>1, <2>2, <2>3, <2>4, <2>5, <2>6, <2>7, <2>8, <2>9, <2>10, <2>11 DEF Base
  <1>3. CASE ArchiveFails(r) /\ pc = "splice"
      <2>a. /\ r' \in Fields /\ r'.volIndex = r.volIndex /\ r'.damaged = r.damaged /\ r'.late = r.late
            /\ r'.endSeen = r.endSeen /\ r'.memberFailed = r.memberFailed /\ r'.fatal
            /\ Verdict("failed") /\ UNCHANGED ret
          BY <1>3, <1>a, FailsFacts
      <2>1. Types'
          BY <1>3, <1>a, <1>b, <1>c, <1>d, <1>e, Headers, <2>a, StagedKept
             DEF Base, Types, Format, Archive, Verdict
      <2>2. Control'
          BY <1>3, <1>a, <1>b, <1>c, <1>d, <1>e, Headers, <2>a
             DEF Base, Types, Control, Verdict, Entry, Done
      <2>3. Ended'
          BY <1>3, <1>a, <1>b, <1>c, <1>d, <1>e, Headers, <2>a
             DEF Base, Types, Control, Ended, Verdict
      <2>4. Damage'
          BY <1>3, <1>a, <1>b, <1>c, <1>d, <1>e, Headers, <2>a DEF Base, Types, Damage, Verdict
      <2>5. Blocks'
          BY <1>3, <1>a, <1>b, <1>c, <1>d, <1>e, Headers, <2>a, BlocksKept
             DEF Base, Types, Control, Blocks, Archive, Verdict
      <2>6. Lacking'
          BY <1>3, <1>a, <1>b, <1>c, <1>d, <1>e, Headers, <2>a
             DEF Base, Types, Control, Blocks, Lacking, Verdict, Entry, Done
      <2>7. LateStart'
          BY <1>3, <1>a, <1>b, <1>c, <1>d, <1>e, Headers, <2>a
             DEF Base, Types, Control, Damage, Blocks, LateStart, Unjudged, Doomed, Stuck,
                 Archive, Verdict, Entry, Done
      <2>8. ASSUME IInv PROVE Sources'
          BY <2>8, <1>3, <1>a, <1>b, <1>c, <1>d, <1>e, Headers, <2>a
             DEF IInv, Base, Types, Control, Sources, Verdict
      <2>9. ASSUME IInv PROVE Staging'
          BY <2>9, <1>3, <1>a, <1>b, <1>c, <1>d, <1>e, Headers, <2>a
             DEF IInv, Base, Types, Control, Blocks, Staging, Verdict
      <2>10. ASSUME IInv PROVE Owing'
          BY <2>10, <1>3, <1>a, <1>b, <1>c, <1>d, <1>e, Headers, <2>a
             DEF IInv, Base, Types, Control, Owing, Stuck, Verdict
      <2>11. ASSUME IInv PROVE Solid'
          BY <2>11, <1>3, <1>a, <1>b, <1>c, <1>d, <1>e, Headers, <2>a
             DEF IInv, Base, Types, Control, Blocks, Solid, Stuck, Verdict, Entry, Done, History
      <2> QED BY <2>1, <2>2, <2>3, <2>4, <2>5, <2>6, <2>7, <2>8, <2>9, <2>10, <2>11 DEF Base
  <1> QED BY <1>1, <1>2, <1>3, <1>b, <1>f

LEMMA OtherHeaderStep ==
  ASSUME Base, OtherHeader
  PROVE  Base' /\ (IInv => (Sources /\ Staging /\ Owing /\ Solid)')
  <1>a. /\ Types /\ Block /\ r \in Fields /\ vol # "nil"
        /\ UNCHANGED <<draining, vol, staged, entry, win, ghost>>
      BY BlockRead DEF Base, Types, OtherHeader
  <1>b. /\ archive' \in Archive /\ archive.blocks \in Nat /\ archive'.blocks = archive.blocks + 1
        /\ archive'.rar4 = archive.rar4 /\ archive'.listing = archive.listing
        /\ archive'.numbered = archive.numbered /\ archive'.skipped = archive.skipped
        /\ archive'.start = archive.start /\ Format' \in DOMAIN Bounds
        /\ vol = "open" /\ (pc = "splice" \/ (pc = "scan" /\ staged = NoHeader))
      BY <1>a, BlockRead
  <1>c. body' \in [n: Units, have: Units, owner: {0} \cup Id] /\ body'.have <= body'.n
      BY <1>b, BlockRead, <1>a, PayloadBody DEF OtherHeader
  <1>d. pc = "scan" => entry = 0
      BY DEF Base, Control
  <1>e. pc = "splice" => reading \in Id /\ reading = entry /\ mem[entry].done = "none"
                         /\ mem[entry].src \in Nat /\ r.volIndex \in Nat
      BY ReadingIsEntry DEF Base, Control
  <1>f. \/ /\ r' \in Fields /\ r'.volIndex = r.volIndex /\ r'.damaged = r.damaged /\ r'.late = r.late
             /\ r'.endSeen = r.endSeen /\ r'.memberFailed = r.memberFailed /\ r'.fatal = r.fatal
             /\ UNCHANGED <<pc, reading, mem, ret>>
        \/ ArchiveFails(r)
      BY <1>a DEF OtherHeader
  <1>1. CASE /\ r' \in Fields /\ r'.volIndex = r.volIndex /\ r'.damaged = r.damaged /\ r'.late = r.late
             /\ r'.endSeen = r.endSeen /\ r'.memberFailed = r.memberFailed /\ r'.fatal = r.fatal
             /\ UNCHANGED <<pc, reading, mem, ret>>
      <2>1. Types'
          BY <1>1, <1>a, <1>b, <1>c, <1>d, <1>e, Headers, StagedKept
             DEF Base, Types, Format, Archive
      <2>2. Control'
          BY <1>1, <1>a, <1>b, <1>c, <1>d, <1>e, Headers DEF Base, Types, Control, Entry, Done
      <2>3. Ended'
          BY <1>1, <1>a, <1>b, <1>c, <1>d, <1>e, Headers DEF Base, Types, Control, Ended
      <2>4. Damage'
          BY <1>1, <1>a, <1>b, <1>c, <1>d, <1>e, Headers DEF Base, Types, Damage
      <2>5. Blocks'
          BY <1>1, <1>a, <1>b, <1>c, <1>d, <1>e, Headers, BlocksKept
             DEF Base, Types, Control, Blocks, Archive
      <2>6. Lacking'
          BY <1>1, <1>a, <1>b, <1>c, <1>d, <1>e, Headers
             DEF Base, Types, Control, Blocks, Lacking, Entry, Done
      <2>7. LateStart'
          BY <1>1, <1>a, <1>b, <1>c, <1>d, <1>e, Headers
             DEF Base, Types, Control, Damage, Blocks, LateStart, Unjudged, Doomed, Stuck,
                 Archive, Entry, Done
      <2>8. ASSUME IInv PROVE Sources'
          BY <2>8, <1>1, <1>a, <1>b, <1>c, <1>d, <1>e, Headers
             DEF IInv, Base, Types, Control, Sources
      <2>9. ASSUME IInv PROVE Staging'
          BY <2>9, <1>1, <1>a, <1>b, <1>c, <1>d, <1>e, Headers
             DEF IInv, Base, Types, Control, Blocks, Staging
      <2>10. ASSUME IInv PROVE Owing'
          BY <2>10, <1>1, <1>a, <1>b, <1>c, <1>d, <1>e, Headers
             DEF IInv, Base, Types, Control, Owing, Stuck
      <2>11. ASSUME IInv PROVE Solid'
          BY <2>11, <1>1, <1>a, <1>b, <1>c, <1>d, <1>e, Headers
             DEF IInv, Base, Types, Control, Blocks, Solid, Stuck, Entry, Done, History
      <2> QED BY <2>1, <2>2, <2>3, <2>4, <2>5, <2>6, <2>7, <2>8, <2>9, <2>10, <2>11 DEF Base
  <1>2. CASE ArchiveFails(r) /\ pc = "scan"
      <2>a. /\ r' \in Fields /\ r'.volIndex = r.volIndex /\ r'.damaged = r.damaged /\ r'.late = r.late
            /\ r'.endSeen = r.endSeen /\ r'.memberFailed = r.memberFailed /\ r'.fatal
            /\ entry = 0 /\ pc' = "idle" /\ ret' = "fatal" /\ UNCHANGED <<mem, reading>>
          BY <1>2, <1>a, FailsFacts
      <2>1. Types'
          BY <1>2, <1>a, <1>b, <1>c, <1>d, <1>e, Headers, <2>a, StagedKept
             DEF Base, Types, Format, Archive
      <2>2. Control'
          BY <1>2, <1>a, <1>b, <1>c, <1>d, <1>e, Headers, <2>a
             DEF Base, Types, Control, Entry, Done
      <2>3. Ended'
          BY <1>2, <1>a, <1>b, <1>c, <1>d, <1>e, Headers, <2>a DEF Base, Types, Control, Ended
      <2>4. Damage'
          BY <1>2, <1>a, <1>b, <1>c, <1>d, <1>e, Headers, <2>a DEF Base, Types, Damage
      <2>5. Blocks'
          BY <1>2, <1>a, <1>b, <1>c, <1>d, <1>e, Headers, <2>a, BlocksKept
             DEF Base, Types, Control, Blocks, Archive
      <2>6. Lacking'
          BY <1>2, <1>a, <1>b, <1>c, <1>d, <1>e, Headers, <2>a
             DEF Base, Types, Control, Blocks, Lacking, Entry, Done
      <2>7. LateStart'
          BY <1>2, <1>a, <1>b, <1>c, <1>d, <1>e, Headers, <2>a
             DEF Base, Types, Control, Damage, Blocks, LateStart, Unjudged, Doomed, Stuck,
                 Archive, Entry, Done
      <2>8. ASSUME IInv PROVE Sources'
          BY <2>8, <1>2, <1>a, <1>b, <1>c, <1>d, <1>e, Headers, <2>a
             DEF IInv, Base, Types, Control, Sources
      <2>9. ASSUME IInv PROVE Staging'
          BY <2>9, <1>2, <1>a, <1>b, <1>c, <1>d, <1>e, Headers, <2>a
             DEF IInv, Base, Types, Control, Blocks, Staging
      <2>10. ASSUME IInv PROVE Owing'
          BY <2>10, <1>2, <1>a, <1>b, <1>c, <1>d, <1>e, Headers, <2>a
             DEF IInv, Base, Types, Control, Owing, Stuck
      <2>11. ASSUME IInv PROVE Solid'
          BY <2>11, <1>2, <1>a, <1>b, <1>c, <1>d, <1>e, Headers, <2>a
             DEF IInv, Base, Types, Control, Blocks, Solid, Stuck, Entry, Done, History
      <2> QED BY <2>1, <2>2, <2>3, <2>4, <2>5, <2>6, <2>7, <2>8, <2>9, <2>10, <2>11 DEF Base
  <1>3. CASE ArchiveFails(r) /\ pc = "splice"
      <2>a. /\ r' \in Fields /\ r'.volIndex = r.volIndex /\ r'.damaged = r.damaged /\ r'.late = r.late
            /\ r'.endSeen = r.endSeen /\ r'.memberFailed = r.memberFailed /\ r'.fatal
            /\ Verdict("failed") /\ UNCHANGED ret
          BY <1>3, <1>a, FailsFacts
      <2>1. Types'
          BY <1>3, <1>a, <1>b, <1>c, <1>d, <1>e, Headers, <2>a, StagedKept
             DEF Base, Types, Format, Archive, Verdict
      <2>2. Control'
          BY <1>3, <1>a, <1>b, <1>c, <1>d, <1>e, Headers, <2>a
             DEF Base, Types, Control, Verdict, Entry, Done
      <2>3. Ended'
          BY <1>3, <1>a, <1>b, <1>c, <1>d, <1>e, Headers, <2>a
             DEF Base, Types, Control, Ended, Verdict
      <2>4. Damage'
          BY <1>3, <1>a, <1>b, <1>c, <1>d, <1>e, Headers, <2>a DEF Base, Types, Damage, Verdict
      <2>5. Blocks'
          BY <1>3, <1>a, <1>b, <1>c, <1>d, <1>e, Headers, <2>a, BlocksKept
             DEF Base, Types, Control, Blocks, Archive, Verdict
      <2>6. Lacking'
          BY <1>3, <1>a, <1>b, <1>c, <1>d, <1>e, Headers, <2>a
             DEF Base, Types, Control, Blocks, Lacking, Verdict, Entry, Done
      <2>7. LateStart'
          BY <1>3, <1>a, <1>b, <1>c, <1>d, <1>e, Headers, <2>a
             DEF Base, Types, Control, Damage, Blocks, LateStart, Unjudged, Doomed, Stuck,
                 Archive, Verdict, Entry, Done
      <2>8. ASSUME IInv PROVE Sources'
          BY <2>8, <1>3, <1>a, <1>b, <1>c, <1>d, <1>e, Headers, <2>a
             DEF IInv, Base, Types, Control, Sources, Verdict
      <2>9. ASSUME IInv PROVE Staging'
          BY <2>9, <1>3, <1>a, <1>b, <1>c, <1>d, <1>e, Headers, <2>a
             DEF IInv, Base, Types, Control, Blocks, Staging, Verdict
      <2>10. ASSUME IInv PROVE Owing'
          BY <2>10, <1>3, <1>a, <1>b, <1>c, <1>d, <1>e, Headers, <2>a
             DEF IInv, Base, Types, Control, Owing, Stuck, Verdict
      <2>11. ASSUME IInv PROVE Solid'
          BY <2>11, <1>3, <1>a, <1>b, <1>c, <1>d, <1>e, Headers, <2>a
             DEF IInv, Base, Types, Control, Blocks, Solid, Stuck, Verdict, Entry, Done, History
      <2> QED BY <2>1, <2>2, <2>3, <2>4, <2>5, <2>6, <2>7, <2>8, <2>9, <2>10, <2>11 DEF Base
  <1> QED BY <1>1, <1>2, <1>3, <1>b, <1>f
-----------------------------------------------------------------------------
(* The beginning, and beginning again. *)

LEMMA FeedTypes ==
  ASSUME NEW n \in 0 .. MaxHeaders, NEW a \in Archives(n)
  PROVE  /\ a \in Archive /\ a.blocks = n /\ a.skipped = 0
         /\ (IF a.rar4 THEN "rar4" ELSE "rar5") \in DOMAIN Bounds
  <1>1. PICK f \in DOMAIN Bounds :
          a \in [rar4: {f = "rar4"}, listing: Bounds[f].listings, start: Bounds[f].starts,
                numbered: {FALSE, f = "rar4"}, closed: {FALSE}, blocks: {n}, skipped: {0}]
      BY DEF Archives
  <1>2. f \in {"rar5", "rar4"} /\ Bounds[f].listings \subseteq BOOLEAN /\ Bounds[f].starts \subseteq Nat
      BY BoundsAssumption
  <1>3. a.blocks = n /\ a.skipped = 0 /\ a.rar4 = (f = "rar4")
      BY <1>1
  <1>4. a \in Archive
    <2>1. a.listing \in BOOLEAN /\ a.start \in Nat /\ a.skipped \in Nat
        BY <1>1, <1>2
    <2>4. a.rar4 \in BOOLEAN
        BY <1>3
    <2>2. a.numbered \in BOOLEAN /\ a.closed \in BOOLEAN
        BY <1>1
    <2>3. a = [rar4 |-> a.rar4, listing |-> a.listing, start |-> a.start, numbered |-> a.numbered,
               closed |-> a.closed, blocks |-> a.blocks, skipped |-> a.skipped]
        BY <1>1, Zenon
    <2> QED BY <1>3, <2>1, <2>2, <2>3, <2>4 DEF Archive
  <1>5. (IF a.rar4 THEN "rar4" ELSE "rar5") = f
      BY <1>2, <1>3
  <1> QED BY <1>3, <1>4, <1>5

LEMMA FreshTypes ==
  /\ FreshReader \in Fields /\ FreshReader.volIndex = 0 /\ ~FreshReader.late /\ ~FreshReader.damaged
  /\ FreshWindow \in [avail: Nat, incomplete: BOOLEAN]
  /\ FreshGhost \in History /\ FreshGhost.run = {} /\ FreshGhost.owed = {} /\ ~FreshGhost.cut
  /\ ~FreshGhost.foreign
  <1>1. 0 \in 0 .. MaxVolumes
      BY BoundsAssumption
  <1>2. /\ FreshReader \in Fields /\ FreshReader.volIndex = 0 /\ FreshReader.late = FALSE
        /\ FreshReader.damaged = FALSE
      BY <1>1 DEF FreshReader, Fields
  <1>3. FreshWindow \in [avail: Nat, incomplete: BOOLEAN]
      BY DEF FreshWindow
  <1>4. FreshGhost \in History /\ FreshGhost.run = {} /\ FreshGhost.owed = {} /\ FreshGhost.cut = FALSE
        /\ FreshGhost.foreign = FALSE
      BY DEF FreshGhost, History
  <1> QED BY <1>2, <1>3, <1>4

LEMMA InitInv ==
  ASSUME Init
  PROVE  IInv
  <1>1. /\ archive \in Archive /\ archive.blocks = 0 /\ archive.skipped = 0 /\ Format \in DOMAIN Bounds
      <2>1. 0 \in 0 .. MaxHeaders
          BY BoundsAssumption
      <2> QED BY <2>1, FeedTypes DEF Init, Format
  <1>2. mem \in [Id -> Entry] /\ \A k \in Id : mem[k] = NoMember
      BY NoMemberTypes DEF Init
  <1>3. Types
      BY <1>1, <1>2, FreshTypes, NoBodyTypes DEF Init, Types, StagedHeader
  <1>4. Control
      BY <1>2, NoMemberTypes, Headers DEF Init, Control
  <1>5. Ended /\ Damage
      BY FreshTypes DEF Init, Ended, Damage
  <1>6. Blocks
      BY <1>1, <1>2, FreshTypes DEF Init, Blocks
  <1>7. Lacking
      BY <1>2, NoMemberTypes DEF Init, Lacking
  <1>8. LateStart
      BY <1>1, <1>2, NoMemberTypes, FreshTypes DEF Init, LateStart
  <1>9. Sources /\ Staging
      BY FreshTypes DEF Init, Sources, Staging
  <1>10. Owing /\ Solid
      BY FreshTypes DEF Init, Owing, Solid
  <1> QED BY <1>3, <1>4, <1>5, <1>6, <1>7, <1>8, <1>9, <1>10 DEF IInv, Base

LEMMA ResetStep ==
  ASSUME Base, Reset
  PROVE  Base' /\ (IInv => (Sources /\ Staging /\ Owing /\ Solid)')
  <1>a. /\ pc = "idle" /\ archive \in Archive /\ archive.blocks \in 0 .. MaxHeaders
        /\ archive.blocks \in Nat
        /\ entry' = 0 /\ vol' = "nil" /\ body' = NoBody /\ staged' = NoHeader
        /\ r' = FreshReader /\ win' = FreshWindow /\ ret' = "none"
        /\ ghost' = [FreshGhost EXCEPT !.foreign = ghost.foreign]
        /\ UNCHANGED <<pc, draining, reading>>
      BY Headers DEF Base, Types, Reset, Archive
  <1>b. /\ archive' \in Archive /\ archive'.blocks = archive.blocks /\ archive'.skipped = 0
        /\ Format' \in DOMAIN Bounds
      BY <1>a, FeedTypes DEF Reset, Format
  <1>c. /\ ghost' \in History /\ ghost'.run = {} /\ ghost'.owed = {} /\ ghost'.cut = FALSE
        /\ ghost'.foreign = ghost.foreign
      BY <1>a, FreshTypes DEF Base, Types, History
  <1>d. /\ mem' \in [Id -> Entry]
        /\ \A k \in Id : mem'[k] = NoMember \/ (mem'[k] = mem[k] /\ mem[k].done = "none" /\ k # entry)
    <2>1. PICK d \in IF entry = 0 THEN {"none"} ELSE severActive(mem[entry]) :
            mem' = [k \in Id |->
                      IF (IF entry = 0 THEN mem ELSE [mem EXCEPT ![entry] = Sever(@, d)])[k].done = "none"
                      THEN (IF entry = 0 THEN mem ELSE [mem EXCEPT ![entry] = Sever(@, d)])[k]
                      ELSE NoMember]
        BY DEF Reset
    <2>2. mem \in [Id -> Entry] /\ entry \in {0} \cup Id
        BY DEF Base, Types
    <2>3. CASE entry = 0
      <3>1. mem' = [k \in Id |-> IF mem[k].done = "none" THEN mem[k] ELSE NoMember]
          BY <2>1, <2>3
      <3> QED BY <2>2, <2>3, <3>1, NoMemberTypes, Headers
    <2>4. CASE entry # 0
      <3>1. mem[entry] \in Entry /\ d \in {"eof", "unchecked", "failed"} /\ d \in Done
          BY <2>1, <2>2, <2>4, VerdictSets DEF Done
      <3>2. mem' = [k \in Id |-> IF [mem EXCEPT ![entry] = Finished(mem[entry], d)][k].done = "none"
                                THEN [mem EXCEPT ![entry] = Finished(mem[entry], d)][k] ELSE NoMember]
          BY <2>1, <2>4 DEF Sever
      <3>3. Finished(mem[entry], d).done # "none"
          BY <3>1, FinishedEntry
      <3>4. \A k \in Id : mem'[k] = IF k = entry \/ mem[k].done # "none" THEN NoMember ELSE mem[k]
          BY <2>2, <3>2, <3>3
      <3>5. mem' = [k \in Id |-> mem'[k]]
          BY <3>2
      <3>6. \A k \in Id : mem'[k] \in Entry
          BY <2>2, <3>4, NoMemberTypes
      <3> QED BY <3>4, <3>5, <3>6
    <2> QED BY <2>3, <2>4
  <1>1. Types'
      BY <1>a, <1>b, <1>c, <1>d, FreshTypes, NoBodyTypes, NoMemberTypes, Headers, StagedKept
         DEF Base, Types, Format, Archive, StagedHeader
  <1>2. Control'
      BY <1>a, <1>b, <1>c, <1>d, FreshTypes, NoBodyTypes, NoMemberTypes, Headers
         DEF Base, Types, Control
  <1>3. Ended'
      BY <1>a, <1>b, <1>c, <1>d, FreshTypes, NoBodyTypes, NoMemberTypes, Headers
         DEF Base, Types, Control, Ended
  <1>4. Damage'
      BY <1>a, <1>b, <1>c, <1>d, FreshTypes, NoBodyTypes, NoMemberTypes, Headers
         DEF Base, Types, Damage
  <1>5. Blocks'
      BY <1>a, <1>b, <1>c, <1>d, FreshTypes, NoBodyTypes, NoMemberTypes, Headers, BlocksKept
         DEF Base, Types, Control, Blocks, Archive
  <1>6. Lacking'
      BY <1>a, <1>b, <1>c, <1>d, FreshTypes, NoBodyTypes, NoMemberTypes, Headers
         DEF Base, Types, Control, Blocks, Lacking
  <1>7. LateStart'
      BY <1>a, <1>b, <1>c, <1>d, FreshTypes, NoBodyTypes, NoMemberTypes, Headers
         DEF Base, Types, Control, Damage, Blocks, LateStart, Unjudged, Doomed, Stuck, Archive
  <1>8. ASSUME IInv PROVE Sources'
      BY <1>8, <1>a, <1>b, <1>c, <1>d, FreshTypes, NoBodyTypes, NoMemberTypes, Headers
         DEF IInv, Base, Types, Control, Sources
  <1>9. ASSUME IInv PROVE Staging'
      BY <1>9, <1>a, <1>b, <1>c, <1>d, FreshTypes, NoBodyTypes, NoMemberTypes, Headers
         DEF IInv, Base, Types, Control, Blocks, Staging
  <1>10. ASSUME IInv PROVE Owing'
      BY <1>10, <1>a, <1>b, <1>c, <1>d, FreshTypes, NoBodyTypes, NoMemberTypes, Headers
         DEF IInv, Base, Types, Control, Owing, Stuck
  <1>11. ASSUME IInv PROVE Solid'
      BY <1>11, <1>a, <1>b, <1>c, <1>d, FreshTypes, NoBodyTypes, NoMemberTypes, Headers
         DEF IInv, Base, Types, Control, Blocks, Solid, Stuck
  <1> QED BY <1>1, <1>2, <1>3, <1>4, <1>5, <1>6, <1>7, <1>8, <1>9, <1>10, <1>11 DEF Base
-----------------------------------------------------------------------------
(* File headers. *)

(* NextEntry returns a member, or the error latched meanwhile. *)
Handed(h, g) ==
  /\ pc' = "idle" /\ ghost' \in History
  /\ ghost'.run = g.run /\ ghost'.cut = g.cut /\ ghost'.unended = g.unended
  /\ ghost'.foreign = g.foreign
  /\ r.fatal => ghost'.owed = g.owed /\ ret' = "fatal"
  /\ ~r.fatal => ghost'.owed = g.owed \ {h.id} /\ ret' = "entry"

LEMMA HandsFacts ==
  ASSUME Types, NEW h, NEW g \in History, Hands(h, g)
  PROVE  Handed(h, g)
  <1>1. CASE r.fatal
      BY <1>1 DEF Hands, Withholds, Handed, History
  <1>2. CASE ~r.fatal
    <2>1. pc' = "idle" /\ ret' = "entry" /\ ghost' = [g EXCEPT !.owed = g.owed \ {h.id}]
        BY <1>2 DEF Hands, Withholds
    <2>2. g.owed \ {h.id} \in SUBSET Id
        BY DEF History
    <2>3. ghost' \in History /\ ghost'.owed = g.owed \ {h.id}
        BY <2>1, <2>2 DEF History
    <2>4. /\ ghost'.run = g.run /\ ghost'.cut = g.cut /\ ghost'.unended = g.unended
          /\ ghost'.foreign = g.foreign
        BY <2>1 DEF History
    <2> QED BY <1>2, <2>1, <2>3, <2>4 DEF Handed
  <1> QED BY <1>1, <1>2

(* A member the Reader does not read: only its verdict, if any. *)
Marked(id, v) ==
  /\ mem' \in [Id -> Entry] /\ \A k \in Id : k # id => mem'[k] = mem[k]
  /\ mem'[id].done = v /\ mem'[id].left = 0 /\ mem'[id].lack = 0
  /\ ~mem'[id].held /\ ~mem'[id].comp /\ ~mem'[id].empty

LEMMA MarkedFacts ==
  ASSUME Types, NEW id \in Id, mem[id] = NoMember, NEW v \in Done,
         mem' = [mem EXCEPT ![id].done = v]
  PROVE  Marked(id, v)
  <1>1. mem \in [Id -> Entry]
      BY DEF Types
  <1>2. mem' = [mem EXCEPT ![id] = [NoMember EXCEPT !.done = v]]
      BY <1>1
  <1>3. mem'[id] = [NoMember EXCEPT !.done = v] /\ \A k \in Id : k # id => mem'[k] = mem[k]
      BY <1>1, <1>2
  <1>4. mem' \in [Id -> Entry]
      BY <1>1, <1>2, NoMemberTypes
  <1> QED BY <1>3, <1>4, NoMemberTypes DEF Marked

(* The member is admitted and becomes the one in progress. *)
Admitted(h) ==
  /\ mem' \in [Id -> Entry] /\ \A k \in Id : k # h.id => mem'[k] = mem[k]
  /\ entry' = h.id
  /\ mem'[h.id].left = h.size /\ mem'[h.id].lack = (IF h.comp THEN h.size ELSE 0)
  /\ mem'[h.id].comp = h.comp /\ mem'[h.id].src = r.volIndex /\ mem'[h.id].held = ~r.fatal
  /\ mem'[h.id].empty = (h.size = 0) /\ mem'[h.id].skips = archive.skipped
  /\ mem'[h.id].done = "none"
  /\ win' \in [avail: Nat, incomplete: BOOLEAN]
  /\ archive.rar4 => ~h.comp
  /\ ~archive.rar4 => win'.avail = 0 /\ (h.solid => ~win.incomplete)
  /\ ~archive.listing /\ vol # "nil" /\ h.kind # "link" /\ h.first

LEMMA DispatchCases ==
  ASSUME Types, NEW g \in History, NEW h, h \in NewMember(h.id) \cup Continuation(h.id),
         h.id \in Id, mem[h.id] = NoMember, Dispatch(h, g)
  PROVE  /\ r' \in Fields /\ r'.volIndex = r.volIndex /\ r'.damaged = r.damaged /\ r'.late = r.late
         /\ r'.endSeen = r.endSeen /\ r'.memberFailed = r.memberFailed /\ r'.fatal = r.fatal
         /\ \/ /\ ~h.first \/ h.kind = "nameless"
               /\ win' \in [avail: Nat, incomplete: BOOLEAN] /\ win'.incomplete
               /\ ghost' = g /\ UNCHANGED <<pc, ret, mem, entry>>
            \/ /\ Handed(h, g) /\ Marked(h.id, "failed") /\ UNCHANGED entry
               /\ win' \in [avail: Nat, incomplete: BOOLEAN] /\ win'.incomplete
            \/ archive.listing /\ Handed(h, g) /\ UNCHANGED <<mem, entry, win>>
            \/ /\ h.kind = "link" /\ Handed(h, g) /\ UNCHANGED <<entry, win>>
               /\ Marked(h.id, "failed") \/ Marked(h.id, "none")
            \/ vol = "nil" /\ pc' = "panic" /\ ghost' = g /\ UNCHANGED <<ret, mem, entry, win>>
            \/ Handed(h, g) /\ Admitted(h)
  <1>1. r \in Fields /\ win \in [avail: Nat, incomplete: BOOLEAN] /\ mem \in [Id -> Entry]
        /\ archive \in Archive
      BY DEF Types
  <1>2. /\ r' \in Fields /\ r'.volIndex = r.volIndex /\ r'.damaged = r.damaged /\ r'.late = r.late
        /\ r'.endSeen = r.endSeen /\ r'.memberFailed = r.memberFailed /\ r'.fatal = r.fatal
    <2>1. r' = [r EXCEPT !.fileSeen = TRUE]
        BY DEF Dispatch
    <2> QED BY <1>1, <2>1 DEF Fields
  <1>3. /\ h.first => h.kind \in FirstKind /\ h.solid \in BOOLEAN /\ h.size \in Nat
        /\ h.first \in BOOLEAN /\ h.comp \in BOOLEAN /\ h.last \in BOOLEAN
      BY HeaderFields
  <1>4. \A w \in [avail: Nat, incomplete: BOOLEAN] :
          MarkIncomplete(w) \in [avail: Nat, incomplete: BOOLEAN] /\ MarkIncomplete(w).incomplete = TRUE
      BY DEF MarkIncomplete
  <1>5. h.first => /\ BeginFile(h) \in [avail: Nat, incomplete: BOOLEAN]
                   /\ ~archive.rar4 => BeginFile(h).avail = 0
      BY <1>1, <1>3 DEF BeginFile
  <1>6. ASSUME NEW w \in [avail: Nat, incomplete: BOOLEAN], Refuses(h, w, g)
        PROVE  /\ Handed(h, g) /\ Marked(h.id, "failed") /\ UNCHANGED entry
               /\ win' \in [avail: Nat, incomplete: BOOLEAN] /\ win'.incomplete
      BY <1>4, <1>6, HandsFacts, MarkedFacts DEF Refuses, Done
  <1>7. CASE ~h.first \/ h.kind = "nameless"
      BY <1>1, <1>2, <1>4, <1>7 DEF Dispatch
  <1>8. CASE h.first /\ h.kind # "nameless"
    <2>1. CASE \/ Refuses(h, win, g)
               \/ Refuses(h, BeginFile(h), g)
        BY <1>1, <1>2, <1>5, <1>6, <1>8, <2>1
    <2>2. CASE archive.listing /\ Hands(h, g) /\ UNCHANGED <<mem, entry, win>>
        BY <1>2, <2>2, HandsFacts
    <2>3. CASE h.kind = "link" /\ HandsLink(h, g)
      <3>1. PICK v \in {"failed", "none"} : mem' = [mem EXCEPT ![h.id].done = v]
          BY <2>3 DEF HandsLink, readLinkTarget4
      <3>2. Marked(h.id, v)
          BY <3>1, MarkedFacts DEF Done
      <3>3. Handed(h, g) /\ UNCHANGED <<entry, win>>
          BY <2>3, HandsFacts DEF HandsLink
      <3> QED BY <1>2, <2>3, <3>1, <3>2, <3>3
    <2>4. CASE vol = "nil" /\ pc' = "panic" /\ ghost' = g /\ UNCHANGED <<ret, mem, entry, win>>
        BY <1>2, <2>4
    <2>5. CASE /\ ~archive.listing /\ ~NotAdmitted(h) /\ h.kind # "link" /\ ~SolidStreamBroken(h)
               /\ vol # "nil" /\ Admits(h, g)
      <3> DEFINE e == [empty |-> h.size = 0, left |-> h.size, lack |-> IF h.comp THEN h.size ELSE 0,
                       last |-> h.last, comp |-> h.comp, src |-> r.volIndex,
                       held |-> ~Withholds, skips |-> archive.skipped, gapped |-> FALSE,
                       done |-> "none"]
      <3>1. Handed(h, g) /\ entry' = h.id /\ win' = BeginFile(h) /\ mem' = [mem EXCEPT ![h.id] = e]
          BY <2>5, HandsFacts DEF Admits
      <3>2. /\ e.left = h.size /\ e.lack = (IF h.comp THEN h.size ELSE 0) /\ e.comp = h.comp
            /\ e.src = r.volIndex /\ e.held = ~r.fatal /\ e.empty = (h.size = 0)
            /\ e.skips = archive.skipped /\ e.done = "none"
          BY DEF Withholds
      <3>3. e \in Entry
        <4>1. r.volIndex \in 0 .. MaxVolumes /\ archive.skipped \in Nat
            BY <1>1 DEF Fields, Archive
        <4>2. (IF h.comp THEN h.size ELSE 0) \in Nat /\ "none" \in Done
            BY <1>3, <1>8 DEF Done
        <4> QED BY <1>3, <1>8, <4>1, <4>2 DEF Entry
      <3> HIDE DEF e
      <3>4. mem' \in [Id -> Entry] /\ mem'[h.id] = e /\ \A k \in Id : k # h.id => mem'[k] = mem[k]
          BY <1>1, <3>1, <3>3
      <3>5. (archive.rar4 => ~h.comp) /\ (~archive.rar4 /\ h.solid => ~win.incomplete)
          BY <2>5 DEF NotAdmitted, SolidStreamBroken
      <3>6. Admitted(h)
          BY <1>5, <1>8, <2>5, <3>1, <3>2, <3>4, <3>5 DEF Admitted
      <3> QED BY <1>2, <3>1, <3>6
    <2> QED BY <1>8, <2>1, <2>2, <2>3, <2>4, <2>5 DEF Dispatch
  <1> QED BY <1>7, <1>8

(* A solid member is begun only on whole history. *)
BeginsWhole ==
  \A m \in Id : Begins(m) /\ mem'[m].comp => \A k \in ghost'.run \ {m} : Whole(k)

(* A file header the scan dispatches, its own or one the splice staged: what *)
(* holds of every archive.                                                  *)
LEMMA DispatchBase ==
  ASSUME Base, pc = "scan", NEW h, NEW g \in History, h \in NewMember(h.id) \cup Continuation(h.id),
         h.id \in Id, mem[h.id] = NoMember, Dispatch(h, g), UNCHANGED <<draining, vol, reading>>,
         staged' = NoHeader, body' \in [n: Units, have: Units, owner: {0} \cup Id], body'.have <= body'.n,
         archive' \in Archive, archive'.rar4 = archive.rar4, archive'.listing = archive.listing,
         archive'.numbered = archive.numbered, archive'.skipped = archive.skipped,
         archive'.start = archive.start, archive.blocks <= archive'.blocks, h.id <= archive'.blocks,
         g.cut = ghost.cut, g.unended = ghost.unended, g.foreign = ghost.foreign,
         g.run \subseteq 1 .. archive'.blocks
  PROVE  Base'
  <1>a. entry = 0 /\ reading = 0 /\ draining = FALSE /\ Types /\ Format' \in DOMAIN Bounds
        /\ archive.blocks \in Nat /\ archive'.blocks \in Nat /\ h.id \in Nat /\ h.id # 0
        /\ ret \notin {"eof", "damaged", "notFirst"} /\ mem \in [Id -> Entry]
    <2>1. entry = 0 /\ reading = 0 /\ draining = FALSE /\ Types /\ mem \in [Id -> Entry]
        BY DEF Base, Types, Control
    <2>2. ret \notin {"eof", "damaged", "notFirst"} /\ Format' \in DOMAIN Bounds
        BY DEF Base, Types, Ended, Format
    <2>3. archive.blocks \in Nat /\ archive'.blocks \in Nat
        BY <2>1, Headers DEF Types, Archive
    <2> QED BY <2>1, <2>2, <2>3, Headers
  <1>b. /\ h.first => h.kind \in FirstKind /\ h.solid \in BOOLEAN /\ h.size \in Nat
        /\ h.first \in BOOLEAN /\ h.comp \in BOOLEAN
      BY <1>a, HeaderFields
  <1>c. /\ r' \in Fields /\ r'.volIndex = r.volIndex /\ r'.damaged = r.damaged /\ r'.late = r.late
        /\ r'.endSeen = r.endSeen /\ r'.memberFailed = r.memberFailed /\ r'.fatal = r.fatal
      BY <1>a, DispatchCases
  <1>1. CASE /\ ~h.first \/ h.kind = "nameless"
             /\ win' \in [avail: Nat, incomplete: BOOLEAN] /\ win'.incomplete
             /\ ghost' = g /\ UNCHANGED <<pc, ret, mem, entry>>
      <2>1. Types'
          BY <1>1, <1>a, <1>b, <1>c, Headers DEF Base, Types, Format, Archive, StagedHeader
      <2>2. Control'
          BY <1>1, <1>a, <1>b, <1>c, Headers DEF Base, Types, Control
      <2>3. Ended'
          BY <1>1, <1>a, <1>b, <1>c, Headers DEF Base, Types, Control, Ended
      <2>4. Damage'
          BY <1>1, <1>a, <1>b, <1>c, Headers DEF Base, Types, Damage
      <2>5. Blocks'
          BY <1>1, <1>a, <1>b, <1>c, Headers DEF Base, Types, Control, Blocks, Archive
      <2>6. Lacking'
          BY <1>1, <1>a, <1>b, <1>c, Headers DEF Base, Types, Control, Blocks, Lacking
      <2>7. LateStart'
          BY <1>1, <1>a, <1>b, <1>c, Headers
             DEF Base, Types, Control, Damage, Blocks, LateStart, Unjudged, Doomed, Stuck,
                 Archive, Entry
      <2> QED BY <2>1, <2>2, <2>3, <2>4, <2>5, <2>6, <2>7 DEF Base
  <1>2. CASE /\ Handed(h, g) /\ Marked(h.id, "failed") /\ UNCHANGED entry
             /\ win' \in [avail: Nat, incomplete: BOOLEAN] /\ win'.incomplete
      <2>1. Types'
          BY <1>2, <1>a, <1>b, <1>c, Headers
             DEF Base, Types, Format, Archive, Handed, Marked, StagedHeader
      <2>2. Control'
          BY <1>2, <1>a, <1>b, <1>c, Headers DEF Base, Types, Control, Handed, Marked
      <2>3. Ended'
          BY <1>2, <1>a, <1>b, <1>c, Headers DEF Base, Types, Control, Ended, Handed, Marked
      <2>4. Damage'
          BY <1>2, <1>a, <1>b, <1>c, Headers DEF Base, Types, Damage, Handed, Marked
      <2>5. Blocks'
          BY <1>2, <1>a, <1>b, <1>c, Headers
             DEF Base, Types, Control, Blocks, Archive, Handed, Marked
      <2>6. Lacking'
          BY <1>2, <1>a, <1>b, <1>c, Headers
             DEF Base, Types, Control, Blocks, Lacking, Handed, Marked
      <2>7. LateStart'
          BY <1>2, <1>a, <1>b, <1>c, Headers
             DEF Base, Types, Control, Damage, Blocks, LateStart, Unjudged, Doomed, Stuck,
                 Archive, Handed, Marked, Entry
      <2> QED BY <2>1, <2>2, <2>3, <2>4, <2>5, <2>6, <2>7 DEF Base
  <1>3. CASE archive.listing /\ Handed(h, g) /\ UNCHANGED <<mem, entry, win>>
      <2>1. Types'
          BY <1>3, <1>a, <1>b, <1>c, Headers
             DEF Base, Types, Format, Archive, Handed, StagedHeader
      <2>2. Control'
          BY <1>3, <1>a, <1>b, <1>c, Headers DEF Base, Types, Control, Handed
      <2>3. Ended'
          BY <1>3, <1>a, <1>b, <1>c, Headers DEF Base, Types, Control, Ended, Handed
      <2>4. Damage'
          BY <1>3, <1>a, <1>b, <1>c, Headers DEF Base, Types, Damage, Handed
      <2>5. Blocks'
          BY <1>3, <1>a, <1>b, <1>c, Headers DEF Base, Types, Control, Blocks, Archive, Handed
      <2>6. Lacking'
          BY <1>3, <1>a, <1>b, <1>c, Headers DEF Base, Types, Control, Blocks, Lacking, Handed
      <2>7. LateStart'
          BY <1>3, <1>a, <1>b, <1>c, Headers
             DEF Base, Types, Control, Damage, Blocks, LateStart, Unjudged, Doomed, Stuck,
                 Archive, Handed, Entry
      <2> QED BY <2>1, <2>2, <2>3, <2>4, <2>5, <2>6, <2>7 DEF Base
  <1>4. CASE /\ h.kind = "link" /\ Handed(h, g) /\ UNCHANGED <<entry, win>>
             /\ Marked(h.id, "failed") \/ Marked(h.id, "none")
      <2>1. Types'
          BY <1>4, <1>a, <1>b, <1>c, Headers
             DEF Base, Types, Format, Archive, Handed, Marked, StagedHeader
      <2>2. Control'
          BY <1>4, <1>a, <1>b, <1>c, Headers DEF Base, Types, Control, Handed, Marked
      <2>3. Ended'
          BY <1>4, <1>a, <1>b, <1>c, Headers DEF Base, Types, Control, Ended, Handed, Marked
      <2>4. Damage'
          BY <1>4, <1>a, <1>b, <1>c, Headers DEF Base, Types, Damage, Handed, Marked
      <2>5. Blocks'
          BY <1>4, <1>a, <1>b, <1>c, Headers
             DEF Base, Types, Control, Blocks, Archive, Handed, Marked
      <2>6. Lacking'
          BY <1>4, <1>a, <1>b, <1>c, Headers
             DEF Base, Types, Control, Blocks, Lacking, Handed, Marked
      <2>7. LateStart'
          BY <1>4, <1>a, <1>b, <1>c, Headers
             DEF Base, Types, Control, Damage, Blocks, LateStart, Unjudged, Doomed, Stuck,
                 Archive, Handed, Marked, Entry
      <2> QED BY <2>1, <2>2, <2>3, <2>4, <2>5, <2>6, <2>7 DEF Base
  <1>5. CASE vol = "nil" /\ pc' = "panic" /\ ghost' = g /\ UNCHANGED <<ret, mem, entry, win>>
      <2>1. Types'
          BY <1>5, <1>a, <1>b, <1>c, Headers DEF Base, Types, Format, Archive, StagedHeader
      <2>2. Control'
          BY <1>5, <1>a, <1>b, <1>c, Headers DEF Base, Types, Control
      <2>3. Ended'
          BY <1>5, <1>a, <1>b, <1>c, Headers DEF Base, Types, Control, Ended
      <2>4. Damage'
          BY <1>5, <1>a, <1>b, <1>c, Headers DEF Base, Types, Damage
      <2>5. Blocks'
          BY <1>5, <1>a, <1>b, <1>c, Headers DEF Base, Types, Control, Blocks, Archive
      <2>6. Lacking'
          BY <1>5, <1>a, <1>b, <1>c, Headers DEF Base, Types, Control, Blocks, Lacking
      <2>7. LateStart'
          BY <1>5, <1>a, <1>b, <1>c, Headers
             DEF Base, Types, Control, Damage, Blocks, LateStart, Unjudged, Doomed, Stuck,
                 Archive, Entry
      <2> QED BY <2>1, <2>2, <2>3, <2>4, <2>5, <2>6, <2>7 DEF Base
  <1>6. CASE Handed(h, g) /\ Admitted(h)
      <2>1. Types'
          BY <1>6, <1>a, <1>b, <1>c, Headers
             DEF Base, Types, Format, Archive, Handed, Admitted, StagedHeader
      <2>2. Control'
          BY <1>6, <1>a, <1>b, <1>c, Headers DEF Base, Types, Control, Handed, Admitted
      <2>3. Ended'
          BY <1>6, <1>a, <1>b, <1>c, Headers DEF Base, Types, Control, Ended, Handed, Admitted
      <2>4. Damage'
          BY <1>6, <1>a, <1>b, <1>c, Headers DEF Base, Types, Damage, Handed, Admitted
      <2>5. Blocks'
          BY <1>6, <1>a, <1>b, <1>c, Headers
             DEF Base, Types, Control, Blocks, Archive, Handed, Admitted
      <2>6. Lacking'
          BY <1>6, <1>a, <1>b, <1>c, Headers
             DEF Base, Types, Control, Blocks, Lacking, Handed, Admitted
      <2>7. LateStart'
          BY <1>6, <1>a, <1>b, <1>c, Headers
             DEF Base, Types, Control, Damage, Blocks, LateStart, Unjudged, Doomed, Stuck,
                 Archive, Handed, Admitted, Entry
      <2> QED BY <2>1, <2>2, <2>3, <2>4, <2>5, <2>6, <2>7 DEF Base
  <1> QED BY <1>a, <1>1, <1>2, <1>3, <1>4, <1>5, <1>6, DispatchCases

(* And the rest, from what the scan knows of the header. *)
LEMMA DispatchInv ==
  ASSUME Base, pc = "scan", NEW h, NEW g \in History, h \in NewMember(h.id) \cup Continuation(h.id),
         h.id \in Id, mem[h.id] = NoMember, Dispatch(h, g), UNCHANGED <<draining, vol, reading>>,
         staged' = NoHeader, body' \in [n: Units, have: Units, owner: {0} \cup Id], body'.have <= body'.n,
         archive' \in Archive, archive'.rar4 = archive.rar4, archive'.listing = archive.listing,
         archive'.numbered = archive.numbered, archive'.skipped = archive.skipped,
         archive'.start = archive.start, archive.blocks <= archive'.blocks, h.id <= archive'.blocks,
         g.cut = ghost.cut, g.unended = ghost.unended, g.foreign = ghost.foreign,
         g.run \subseteq 1 .. archive'.blocks,
         ~ghost.foreign, vol # "nil" => body'.owner = h.id,
         g.owed \subseteq {h.id}, ~h.first \/ h.kind = "nameless" => g.owed = {},
         h.first /\ h.kind # "link" /\ ~h.solid => g.run \subseteq {h.id},
         h.kind = "link" => h.id \notin g.run,
         \/ archive.rar4 \/ archive.listing \/ win.incomplete
         \/ \A k \in g.run : mem[k].done \in {"eof", "unchecked"} \/ k = h.id
  PROVE  (Sources /\ Staging /\ Owing /\ Solid)' /\ BeginsWhole
  <1>a. entry = 0 /\ reading = 0 /\ draining = FALSE /\ Types /\ Format' \in DOMAIN Bounds
        /\ archive.blocks \in Nat /\ archive'.blocks \in Nat /\ h.id \in Nat /\ h.id # 0
        /\ ret \notin {"eof", "damaged", "notFirst"} /\ mem \in [Id -> Entry]
    <2>1. entry = 0 /\ reading = 0 /\ draining = FALSE /\ Types /\ mem \in [Id -> Entry]
        BY DEF Base, Types, Control
    <2>2. ret \notin {"eof", "damaged", "notFirst"} /\ Format' \in DOMAIN Bounds
        BY DEF Base, Types, Ended, Format
    <2>3. archive.blocks \in Nat /\ archive'.blocks \in Nat
        BY <2>1, Headers DEF Types, Archive
    <2> QED BY <2>1, <2>2, <2>3, Headers
  <1>b. /\ h.first => h.kind \in FirstKind /\ h.solid \in BOOLEAN /\ h.size \in Nat
        /\ h.first \in BOOLEAN /\ h.comp \in BOOLEAN
      BY <1>a, HeaderFields
  <1>c. /\ r' \in Fields /\ r'.volIndex = r.volIndex /\ r'.damaged = r.damaged /\ r'.late = r.late
        /\ r'.endSeen = r.endSeen /\ r'.memberFailed = r.memberFailed /\ r'.fatal = r.fatal
      BY <1>a, DispatchCases
  <1>d. r.volIndex \in Nat /\ g.run \subseteq Id
      BY <1>a DEF Types, Fields, History
  <1>1. CASE /\ ~h.first \/ h.kind = "nameless"
             /\ win' \in [avail: Nat, incomplete: BOOLEAN] /\ win'.incomplete
             /\ ghost' = g /\ UNCHANGED <<pc, ret, mem, entry>>
      <2>1. Sources'
          BY <1>1, <1>a, <1>b, <1>c, Headers, <1>d DEF Base, Types, Control, Sources
      <2>2. Staging'
          BY <1>1, <1>a, <1>b, <1>c, Headers, <1>d DEF Base, Types, Control, Blocks, Staging
      <2>3. Owing'
          BY <1>1, <1>a, <1>b, <1>c, Headers, <1>d DEF Base, Types, Control, Owing, Stuck
      <2>4. Solid'
          BY <1>1, <1>a, <1>b, <1>c, Headers, <1>d
             DEF Base, Types, Control, Blocks, Solid, Stuck
      <2>5. BeginsWhole
          BY <1>1, <1>a, Headers DEF BeginsWhole, Begins
      <2> QED BY <2>1, <2>2, <2>3, <2>4, <2>5
  <1>2. CASE /\ Handed(h, g) /\ Marked(h.id, "failed") /\ UNCHANGED entry
             /\ win' \in [avail: Nat, incomplete: BOOLEAN] /\ win'.incomplete
      <2>1. Sources'
          BY <1>2, <1>a, <1>b, <1>c, Headers, <1>d
             DEF Base, Types, Control, Sources, Handed, Marked
      <2>2. Staging'
          BY <1>2, <1>a, <1>b, <1>c, Headers, <1>d
             DEF Base, Types, Control, Blocks, Staging, Handed, Marked
      <2>3. Owing'
          BY <1>2, <1>a, <1>b, <1>c, Headers, <1>d
             DEF Base, Types, Control, Owing, Stuck, Handed, Marked
      <2>4. Solid'
          BY <1>2, <1>a, <1>b, <1>c, Headers, <1>d
             DEF Base, Types, Control, Blocks, Solid, Stuck, Handed, Marked
      <2>5. BeginsWhole
          BY <1>2, <1>a, Headers DEF BeginsWhole, Begins
      <2> QED BY <2>1, <2>2, <2>3, <2>4, <2>5
  <1>3. CASE archive.listing /\ Handed(h, g) /\ UNCHANGED <<mem, entry, win>>
      <2>1. Sources'
          BY <1>3, <1>a, <1>b, <1>c, Headers, <1>d DEF Base, Types, Control, Sources, Handed
      <2>2. Staging'
          BY <1>3, <1>a, <1>b, <1>c, Headers, <1>d
             DEF Base, Types, Control, Blocks, Staging, Handed
      <2>3. Owing'
          BY <1>3, <1>a, <1>b, <1>c, Headers, <1>d
             DEF Base, Types, Control, Owing, Stuck, Handed
      <2>4. Solid'
          BY <1>3, <1>a, <1>b, <1>c, Headers, <1>d
             DEF Base, Types, Control, Blocks, Solid, Stuck, Handed
      <2>5. BeginsWhole
          BY <1>3, <1>a, Headers DEF BeginsWhole, Begins
      <2> QED BY <2>1, <2>2, <2>3, <2>4, <2>5
  <1>4. CASE /\ h.kind = "link" /\ Handed(h, g) /\ UNCHANGED <<entry, win>>
             /\ Marked(h.id, "failed") \/ Marked(h.id, "none")
      <2>1. Sources'
          BY <1>4, <1>a, <1>b, <1>c, Headers, <1>d
             DEF Base, Types, Control, Sources, Handed, Marked
      <2>2. Staging'
          BY <1>4, <1>a, <1>b, <1>c, Headers, <1>d
             DEF Base, Types, Control, Blocks, Staging, Handed, Marked
      <2>3. Owing'
          BY <1>4, <1>a, <1>b, <1>c, Headers, <1>d
             DEF Base, Types, Control, Owing, Stuck, Handed, Marked
      <2>4. Solid'
          BY <1>4, <1>a, <1>b, <1>c, Headers, <1>d
             DEF Base, Types, Control, Blocks, Solid, Stuck, Handed, Marked
      <2>5. BeginsWhole
          BY <1>4, <1>a, Headers DEF BeginsWhole, Begins
      <2> QED BY <2>1, <2>2, <2>3, <2>4, <2>5
  <1>5. CASE vol = "nil" /\ pc' = "panic" /\ ghost' = g /\ UNCHANGED <<ret, mem, entry, win>>
      <2>1. Sources'
          BY <1>5, <1>a, <1>b, <1>c, Headers, <1>d DEF Base, Types, Control, Sources
      <2>2. Staging'
          BY <1>5, <1>a, <1>b, <1>c, Headers, <1>d DEF Base, Types, Control, Blocks, Staging
      <2>3. Owing'
          BY <1>5, <1>a, <1>b, <1>c, Headers, <1>d DEF Base, Types, Control, Owing, Stuck
      <2>4. Solid'
          BY <1>5, <1>a, <1>b, <1>c, Headers, <1>d
             DEF Base, Types, Control, Blocks, Solid, Stuck
      <2>5. BeginsWhole
          BY <1>5, <1>a, Headers DEF BeginsWhole, Begins
      <2> QED BY <2>1, <2>2, <2>3, <2>4, <2>5
  <1>6. CASE Handed(h, g) /\ Admitted(h)
      <2>1. Sources'
          BY <1>6, <1>a, <1>b, <1>c, Headers, <1>d
             DEF Base, Types, Control, Sources, Handed, Admitted
      <2>2. Staging'
          BY <1>6, <1>a, <1>b, <1>c, Headers, <1>d
             DEF Base, Types, Control, Blocks, Staging, Handed, Admitted
      <2>3. Owing'
          BY <1>6, <1>a, <1>b, <1>c, Headers, <1>d
             DEF Base, Types, Control, Owing, Stuck, Handed, Admitted
      <2>4. Solid'
          BY <1>6, <1>a, <1>b, <1>c, Headers, <1>d
             DEF Base, Types, Control, Blocks, Solid, Stuck, Handed, Admitted
      <2>5. BeginsWhole
        <3>1. SUFFICES ASSUME h.comp, NEW k \in g.run, k # h.id
                       PROVE  Whole(k)
            BY <1>6, <1>a DEF BeginsWhole, Begins, Admitted, Handed
        <3>2. ~archive.rar4 /\ ~archive.listing /\ h.first /\ h.kind # "link"
              /\ (h.solid => ~win.incomplete)
            BY <1>6, <3>1 DEF Admitted
        <3>3. h.solid
            BY <3>1, <3>2
        <3>4. mem[k].done \in {"eof", "unchecked"}
            BY <3>1, <3>2, <3>3
        <3> QED BY <1>d, <3>1, <3>4 DEF Whole, Base, Lacking
      <2> QED BY <2>1, <2>2, <2>3, <2>4, <2>5
  <1> QED BY <1>a, <1>1, <1>2, <1>3, <1>4, <1>5, <1>6, DispatchCases
(* The history with one more file header in it. *)
LEMMA SeenFacts ==
  ASSUME Types, NEW h, h.id \in Id, NEW c \in BOOLEAN
  PROVE  /\ Seen(h, c) \in History
         /\ Seen(h, c).cut = ghost.cut /\ Seen(h, c).unended = ghost.unended
         /\ Seen(h, c).foreign = ghost.foreign
         /\ Seen(h, c).run \subseteq ghost.run \cup {h.id}
         /\ Restarts(h) => Seen(h, c).run \subseteq {h.id}
         /\ c \/ h.kind = "link" => Seen(h, c).run \subseteq ghost.run
         /\ Seen(h, c).owed = ghost.owed \cup (IF h.first /\ h.kind # "nameless" THEN {h.id} ELSE {})
  <1> DEFINE run == (IF Restarts(h) THEN {} ELSE ghost.run)
                    \cup (IF h.comp /\ h.kind # "link" /\ ~c THEN {h.id} ELSE {})
             torn == ghost.torn /\ ~Restarts(h)
             owed == ghost.owed \cup (IF h.first /\ h.kind # "nameless" THEN {h.id} ELSE {})
  <1>1. ghost \in History /\ ghost.run \in SUBSET Id /\ ghost.owed \in SUBSET Id
      BY DEF Types, History
  <1>2. Seen(h, c) = [ghost EXCEPT !.run = run, !.torn = torn, !.owed = owed]
      BY DEF Seen
  <1>3. /\ run \in SUBSET Id /\ owed \in SUBSET Id /\ torn \in BOOLEAN
        /\ run \subseteq ghost.run \cup {h.id}
        /\ Restarts(h) => run \subseteq {h.id}
        /\ c \/ h.kind = "link" => run \subseteq ghost.run
      BY <1>1
  <1> HIDE DEF run, torn, owed
  <1>4. Seen(h, c) \in History
      BY <1>1, <1>2, <1>3 DEF History
  <1>5. /\ Seen(h, c).cut = ghost.cut /\ Seen(h, c).unended = ghost.unended
        /\ Seen(h, c).foreign = ghost.foreign /\ Seen(h, c).run = run /\ Seen(h, c).owed = owed
      BY <1>1, <1>2 DEF History
  <1> QED BY <1>3, <1>4, <1>5 DEF owed

(* A file header under the scan or the splice is that of a fresh block. *)
LEMMA FreshBlock ==
  ASSUME Base, Block, NEW h \in NewMember(archive.blocks + 1) \cup Continuation(archive.blocks + 1)
  PROVE  /\ h.id = archive.blocks + 1 /\ h.id \in Id /\ mem[h.id] = NoMember /\ h.id # entry
         /\ h \in NewMember(h.id) \cup Continuation(h.id)
         /\ h.id \notin ghost.run /\ ghost.run \subseteq 1 .. archive.blocks
  <1>1. Types /\ archive.blocks \in Nat /\ archive.blocks + 1 \in Id
      BY BlockRead DEF Base
  <1>2. h.id = archive.blocks + 1
      BY <1>1, HeaderFields
  <1>3. mem[h.id] = NoMember /\ entry <= archive.blocks /\ ghost.run \subseteq 1 .. archive.blocks
      BY <1>1, <1>2 DEF Base, Blocks
  <1>4. h.id \notin 1 .. archive.blocks /\ h.id # entry
      BY <1>1, <1>2, <1>3
  <1> QED BY <1>1, <1>2, <1>3, <1>4

LEMMA ScanFileStep ==
  ASSUME Base, ScanFile
  PROVE  Base' /\ (IInv => (Sources /\ Staging /\ Owing /\ Solid)' /\ BeginsWhole)
  <1>1. Types /\ pc = "scan" /\ Block /\ UNCHANGED <<draining, vol, staged>> /\ entry = 0
      BY DEF Base, Control, ScanFile
  <1>2. /\ archive' \in Archive /\ archive.blocks \in Nat /\ archive'.blocks = archive.blocks + 1
        /\ archive'.rar4 = archive.rar4 /\ archive'.listing = archive.listing
        /\ archive'.numbered = archive.numbered /\ archive'.skipped = archive.skipped
        /\ archive'.start = archive.start /\ Format' \in DOMAIN Bounds
        /\ vol = "open" /\ staged = NoHeader
      BY <1>1, BlockRead
  <1>3. PICK h \in NewMember(archive.blocks + 1) \cup Continuation(archive.blocks + 1), b \in Payload :
          /\ body' = [n |-> b.n, have |-> b.have, owner |-> h.id]
          /\ IF LeadingContinuation(h)
             THEN /\ ArchiveFails([r EXCEPT !.fileSeen = TRUE])
                  /\ ghost' = Seen(h, FALSE)
                  /\ UNCHANGED <<entry, win>>
             ELSE Dispatch(h, Seen(h, FALSE)) /\ UNCHANGED reading
      BY DEF ScanFile
  <1>4. /\ h.id = archive.blocks + 1 /\ h.id \in Id /\ mem[h.id] = NoMember
        /\ h \in NewMember(h.id) \cup Continuation(h.id)
        /\ h.id \notin ghost.run /\ ghost.run \subseteq 1 .. archive.blocks
      BY <1>1, FreshBlock
  <1>5. /\ body' \in [n: Units, have: Units, owner: {0} \cup Id] /\ body'.have <= body'.n
        /\ body'.owner = h.id
      BY <1>3, <1>4, PayloadBody
  <1>6. /\ Seen(h, FALSE) \in History
        /\ Seen(h, FALSE).cut = ghost.cut /\ Seen(h, FALSE).unended = ghost.unended
        /\ Seen(h, FALSE).foreign = ghost.foreign
        /\ Seen(h, FALSE).run \subseteq ghost.run \cup {h.id}
        /\ Restarts(h) => Seen(h, FALSE).run \subseteq {h.id}
        /\ h.kind = "link" => Seen(h, FALSE).run \subseteq ghost.run
        /\ Seen(h, FALSE).owed = ghost.owed \cup (IF h.first /\ h.kind # "nameless" THEN {h.id} ELSE {})
      BY <1>1, <1>4, SeenFacts
  <1>7. Seen(h, FALSE).run \subseteq 1 .. archive'.blocks
    <2>1. 1 .. archive.blocks \subseteq 1 .. archive'.blocks /\ h.id \in 1 .. archive'.blocks
        BY <1>2, <1>4
    <2> QED BY <1>4, <1>6, <2>1
  <1>8. CASE LeadingContinuation(h)
      <2>a. [r EXCEPT !.fileSeen = TRUE] \in Fields /\ ArchiveFails([r EXCEPT !.fileSeen = TRUE])
            /\ ghost' = Seen(h, FALSE) /\ UNCHANGED <<entry, win>> /\ ~h.first /\ r \in Fields
          BY <1>1, <1>3, <1>8 DEF Types, Fields, LeadingContinuation
      <2>b. /\ r' \in Fields /\ r'.volIndex = r.volIndex /\ r'.damaged = r.damaged /\ r'.late = r.late
            /\ r'.endSeen = r.endSeen /\ r'.memberFailed = r.memberFailed /\ r'.fatal
        <3>1. /\ r' \in Fields /\ r' = [[r EXCEPT !.fileSeen = TRUE] EXCEPT !.fatal = TRUE] /\ r'.fatal
            BY <1>1, <2>a, FailsFacts
        <3> QED BY <2>a, <3>1 DEF Fields
      <2>c. pc' = "idle" /\ ret' = "fatal" /\ UNCHANGED <<mem, reading>>
          BY <1>1, <2>a, FailsFacts
      <2>1. Types'
          BY <1>1, <1>2, <1>4, <1>5, <1>6, <1>7, <2>a, <2>b, <2>c, Headers, StagedKept
             DEF Base, Types, Format, Archive
      <2>2. Control'
          BY <1>1, <1>2, <1>4, <1>5, <1>6, <1>7, <2>a, <2>b, <2>c, Headers
             DEF Base, Types, Control, Entry, Done
      <2>3. Ended'
          BY <1>1, <1>2, <1>4, <1>5, <1>6, <1>7, <2>a, <2>b, <2>c, Headers
             DEF Base, Types, Control, Ended
      <2>4. Damage'
          BY <1>1, <1>2, <1>4, <1>5, <1>6, <1>7, <2>a, <2>b, <2>c, Headers
             DEF Base, Types, Damage
      <2>5. Blocks'
        <3>1. \A k \in Id : k > archive'.blocks => k > archive.blocks
            BY <1>2, Headers
        <3>2. \A k \in Id : k > archive'.blocks => mem'[k] = NoMember
            BY <2>c, <3>1 DEF Base, Blocks
        <3>3. entry' <= archive'.blocks
            BY <1>1, <1>2, <2>a
        <3> QED BY <1>1, <1>2, <1>7, <2>a, <3>2, <3>3 DEF Blocks
      <2>6. Lacking'
          BY <1>1, <1>2, <1>4, <1>5, <1>6, <1>7, <2>a, <2>b, <2>c, Headers
             DEF Base, Types, Control, Blocks, Lacking, Entry, Done
      <2>7. LateStart'
          BY <1>1, <1>2, <1>4, <1>5, <1>6, <1>7, <2>a, <2>b, <2>c, Headers
             DEF Base, Types, Control, Damage, Blocks, LateStart, Unjudged, Doomed, Stuck,
                 Archive, Entry, Done
      <2>8. ASSUME IInv PROVE Sources'
          BY <2>8, <1>1, <1>2, <1>4, <1>5, <1>6, <1>7, <2>a, <2>b, <2>c, Headers
             DEF IInv, Base, Types, Control, Sources
      <2>9. ASSUME IInv PROVE Staging'
          BY <2>9, <1>1, <1>2, <1>4, <1>5, <1>6, <1>7, <2>a, <2>b, <2>c, Headers
             DEF IInv, Base, Types, Control, Blocks, Staging
      <2>10. ASSUME IInv PROVE Owing'
          BY <2>10, <1>1, <1>2, <1>4, <1>5, <1>6, <1>7, <2>a, <2>b, <2>c, Headers
             DEF IInv, Base, Types, Control, Owing, Stuck
      <2>11. ASSUME IInv PROVE Solid'
          BY <2>11, <1>1, <1>2, <1>4, <1>5, <1>6, <1>7, <2>a, <2>b, <2>c, Headers
             DEF IInv, Base, Types, Control, Blocks, Solid, Stuck
      <2>12. BeginsWhole
          BY <1>1, <2>a, Headers DEF BeginsWhole, Begins
      <2> QED BY <2>1, <2>2, <2>3, <2>4, <2>5, <2>6, <2>7, <2>8, <2>9, <2>10, <2>11, <2>12 DEF Base
  <1>9. CASE ~LeadingContinuation(h)
    <2>1. Dispatch(h, Seen(h, FALSE)) /\ UNCHANGED <<draining, vol, reading>> /\ staged' = NoHeader
        BY <1>1, <1>2, <1>3, <1>9
    <2>0. archive.blocks <= archive'.blocks /\ h.id <= archive'.blocks
        BY <1>2, <1>4
    <2>2. Base'
        BY <1>1, <1>2, <1>4, <1>5, <1>6, <1>7, <2>0, <2>1, DispatchBase
    <2>3. ASSUME IInv PROVE (Sources /\ Staging /\ Owing /\ Solid)' /\ BeginsWhole
      <3> USE <2>3
      <3>1. ~ghost.foreign /\ ghost.owed = {}
          BY <1>1, <1>2 DEF IInv, Sources, Owing, Stuck
      <3>2. /\ Seen(h, FALSE).owed \subseteq {h.id}
            /\ ~h.first \/ h.kind = "nameless" => Seen(h, FALSE).owed = {}
          BY <1>6, <3>1
      <3>3. /\ h.first /\ h.kind # "link" /\ ~h.solid => Seen(h, FALSE).run \subseteq {h.id}
            /\ h.kind = "link" => h.id \notin Seen(h, FALSE).run
          BY <1>4, <1>6 DEF Restarts
      <3>4. \/ archive.rar4 \/ archive.listing \/ win.incomplete
            \/ \A k \in Seen(h, FALSE).run : mem[k].done \in {"eof", "unchecked"} \/ k = h.id
        <4>1. \/ archive.rar4 \/ archive.listing \/ win.incomplete
              \/ \A k \in ghost.run : mem[k].done \in {"eof", "unchecked"}
            BY <1>1, <1>2, Headers DEF IInv, Solid, Stuck, Types, History
        <4> QED BY <1>6, <4>1
      <3> QED BY <1>1, <1>2, <1>4, <1>5, <1>6, <1>7, <2>0, <2>1, <3>1, <3>2, <3>3, <3>4, DispatchInv
    <2> QED BY <2>2, <2>3
  <1> QED BY <1>8, <1>9

LEMMA ScanStagedStep ==
  ASSUME Base, ScanStaged
  PROVE  Base' /\ (IInv => (Sources /\ Staging /\ Owing /\ Solid)' /\ BeginsWhole)
  <1>1. /\ Types /\ pc = "scan" /\ staged # NoHeader /\ entry = 0
        /\ UNCHANGED <<draining, reading, vol, body, archive>>
        /\ Dispatch(staged, ghost) /\ staged' = NoHeader
      BY DEF Base, Control, ScanStaged
  <1>2. /\ staged.id \in Id /\ staged \in NewMember(staged.id) \cup Continuation(staged.id)
        /\ staged \in NewMember(staged.id)
      BY <1>1 DEF Types, StagedHeader
  <1>3. mem[staged.id] = NoMember /\ staged.id <= archive.blocks /\ ghost.run \subseteq 1 .. archive.blocks
      BY <1>1, <1>2 DEF Base, Blocks
  <1>4. ghost \in History /\ archive \in Archive /\ archive.blocks \in Nat
        /\ body \in [n: Units, have: Units, owner: {0} \cup Id] /\ body.have <= body.n
      BY <1>1, Headers DEF Types, Archive
  <1>5. staged.first
      BY <1>2 DEF NewMember
  <1>6. Base'
      BY <1>1, <1>2, <1>3, <1>4, DispatchBase
  <1>7. ASSUME IInv PROVE (Sources /\ Staging /\ Owing /\ Solid)' /\ BeginsWhole
    <2> USE <1>7
    <2>1. ~ghost.foreign /\ body.owner = staged.id /\ ghost.owed \subseteq {staged.id}
          /\ staged.kind # "nameless"
        BY <1>1 DEF IInv, Sources, Staging, Owing, Stuck
    <2>2. /\ staged.first /\ staged.kind # "link" /\ ~staged.solid => ghost.run \subseteq {staged.id}
          /\ staged.kind = "link" => staged.id \notin ghost.run
        BY <1>1 DEF IInv, Staging
    <2>3. \/ archive.rar4 \/ archive.listing \/ win.incomplete
          \/ \A k \in ghost.run : mem[k].done \in {"eof", "unchecked"} \/ k = staged.id
        BY <1>1, Headers DEF IInv, Solid, Stuck, Types, History
    <2> QED BY <1>1, <1>2, <1>3, <1>4, <1>5, <2>1, <2>2, <2>3, DispatchInv
  <1> QED BY <1>6, <1>7

LEMMA NextVolumePayloadStep ==
  ASSUME Base, NextVolumePayload
  PROVE  Base' /\ (NoStagedEmpty /\ IInv => (Sources /\ Staging /\ Owing /\ Solid)')
  <1>a. Types /\ pc = "splice" /\ Block /\ UNCHANGED <<draining, vol, entry, win, r, ret>>
      BY DEF Base, NextVolumePayload
  <1>b. /\ archive' \in Archive /\ archive.blocks \in Nat /\ archive'.blocks = archive.blocks + 1
        /\ archive'.rar4 = archive.rar4 /\ archive'.listing = archive.listing
        /\ archive'.numbered = archive.numbered /\ archive'.skipped = archive.skipped
        /\ archive'.start = archive.start /\ Format' \in DOMAIN Bounds
        /\ vol = "open"
      BY <1>a, BlockRead
  <1>c. /\ reading \in Id /\ reading = entry /\ mem[entry] \in Entry /\ mem \in [Id -> Entry]
        /\ mem[entry].src \in Nat /\ r.volIndex \in Nat
        /\ mem[entry].done = "none" /\ mem[entry].left > 0 /\ ~mem[entry].last
      BY <1>a, ReadingIsEntry DEF Base, Control
  <1>d. PICK h \in NewMember(archive.blocks + 1) \cup Continuation(archive.blocks + 1), b \in Payload :
          /\ Parses(h, b)
          /\ body' = [n |-> b.n, have |-> b.have,
                      owner |-> IF h.kind = "same" THEN reading ELSE h.id]
          /\ ghost' = Seen(h, h.kind = "same")
          /\ \/ /\ h.first /\ h.kind # "nameless" /\ (b.n > 0 \/ Bound.stagedEmpty)
                /\ staged' = Stages(h) /\ SourceEnds
             \/ /\ h.kind = "nameless" \/ (~h.first /\ ~IsOwnPart(h))
                /\ Ends("failed") /\ UNCHANGED staged
             \/ /\ IsOwnPart(h)
                /\ mem' = [mem EXCEPT ![reading] = advanceVolume(@, h)]
                /\ pc' = IF me.comp THEN "fill" ELSE "read"
                /\ UNCHANGED <<staged, reading>>
      BY DEF NextVolumePayload
  <1>e. /\ h.id = archive.blocks + 1 /\ h.id \in Id /\ mem[h.id] = NoMember /\ h.id # entry
        /\ h \in NewMember(h.id) \cup Continuation(h.id)
        /\ h.id \notin ghost.run /\ ghost.run \subseteq 1 .. archive.blocks
      BY <1>a, FreshBlock
  <1>f. /\ h # NoHeader /\ h.last \in BOOLEAN /\ (h.first => h \in NewMember(h.id) /\ h.kind \in FirstKind)
      BY <1>a, <1>e, HeaderFields
  <1>g. /\ body' \in [n: Units, have: Units, owner: {0} \cup Id] /\ body'.have <= body'.n
        /\ body'.owner = (IF h.kind = "same" THEN entry ELSE h.id) /\ body'.n = b.n
      BY <1>c, <1>d, <1>e, PayloadBody
  <1>h. /\ ghost' \in History
        /\ ghost'.cut = ghost.cut /\ ghost'.unended = ghost.unended /\ ghost'.foreign = ghost.foreign
        /\ ghost'.run \subseteq ghost.run \cup {h.id}
        /\ Restarts(h) => ghost'.run \subseteq {h.id}
        /\ (h.kind = "same" \/ h.kind = "link") => ghost'.run \subseteq ghost.run
        /\ ghost'.owed = ghost.owed \cup (IF h.first /\ h.kind # "nameless" THEN {h.id} ELSE {})
      BY <1>a, <1>d, <1>e, SeenFacts
  <1>i. ghost'.run \subseteq 1 .. archive'.blocks
    <2>1. 1 .. archive.blocks \subseteq 1 .. archive'.blocks /\ h.id \in 1 .. archive'.blocks
        BY <1>b, <1>e
    <2> QED BY <1>e, <1>h, <2>1
  <1>k. IInv => staged = NoHeader /\ ghost.owed = {} /\ ~ghost.foreign /\ mem[entry].src < r.volIndex
      BY <1>a, <1>b DEF IInv, Staging, Owing, Stuck, Sources
  <1>l. IInv => \/ archive.rar4 \/ archive.listing \/ win.incomplete
                \/ \A k \in ghost.run : mem[k].done \in {"eof", "unchecked"} \/ k = entry
      BY <1>a, <1>c, <1>k DEF IInv, Solid, Stuck
  <1>j. ret \notin {"eof", "damaged", "notFirst"}
      BY <1>a DEF Base, Ended
  <1>1. CASE /\ h.first /\ h.kind # "nameless" /\ (b.n > 0 \/ Bound.stagedEmpty) /\ staged' = h
             /\ mem[entry].comp /\ pc' = "read" /\ UNCHANGED <<mem, reading>>
      <2>1. Types'
        <3>1. StagedHeader'
            BY <1>b, <1>e, <1>f, <1>1 DEF StagedHeader, NewMember, Bound
        <3>2. pc' \in {"idle", "read", "fill"} /\ reading' \in {0} \cup Id /\ mem' \in [Id -> Entry]
            BY <1>1, <1>a, <1>c DEF Base, Types, Verdict
        <3> QED BY <1>a, <1>b, <1>g, <1>h, <3>1, <3>2 DEF Types
      <2>2. Control'
          BY <1>1, <1>a, <1>b, <1>c, <1>e, <1>f, <1>g, <1>h, <1>j, <1>k, Headers
             DEF Base, Types, Control, NoStagedEmpty, Bound, Restarts, FirstKind, Entry, Done
      <2>3. Ended'
          BY <1>1, <1>a, <1>b, <1>c, <1>e, <1>f, <1>g, <1>h, <1>j, <1>k, Headers
             DEF Base, Types, Control, Ended, NoStagedEmpty, Bound, Restarts, FirstKind
      <2>4. Damage'
          BY <1>1, <1>a, <1>b, <1>c, <1>e, <1>f, <1>g, <1>h, <1>j, <1>k, Headers
             DEF Base, Types, Damage, NoStagedEmpty, Bound, Restarts, FirstKind
      <2>5. Blocks'
        <3>1. \A k \in Id : k > archive'.blocks => k > archive.blocks /\ k # entry /\ k # h.id
            BY <1>b, <1>c, <1>e, Headers DEF Base, Blocks
        <3>2. \A k \in Id : k > archive'.blocks => mem'[k] = NoMember
            BY <1>1, <3>1 DEF Base, Blocks, Verdict
        <3>3. entry' <= archive'.blocks
            BY <1>a, <1>b, <1>c, Headers DEF Base, Blocks
        <3>4. staged'.id = h.id /\ staged'.id <= archive'.blocks /\ mem'[h.id] = NoMember
            BY <1>1, <1>b, <1>e DEF Verdict
        <3> QED BY <1>1, <1>a, <1>e, <1>i, <3>2, <3>3, <3>4 DEF Blocks
      <2>6. Lacking'
          BY <1>1, <1>a, <1>b, <1>c, <1>e, <1>f, <1>g, <1>h, <1>j, <1>k, Headers
             DEF Base, Types, Control, Blocks, Lacking, NoStagedEmpty, Bound, Restarts,
                 FirstKind, Entry, Done
      <2>7. LateStart'
          BY <1>1, <1>a, <1>b, <1>c, <1>e, <1>f, <1>g, <1>h, <1>j, <1>k, Headers
             DEF Base, Types, Control, Damage, Blocks, LateStart, Unjudged, Doomed, Stuck,
                 Archive, NoStagedEmpty, Bound, Restarts, FirstKind, Entry, Done
      <2>8. ASSUME NoStagedEmpty, IInv PROVE Sources'
        <3> USE <2>8
        <3>1. mem'[entry'].done = "none" => mem'[entry'].src < r'.volIndex
            BY <1>1, <1>a, <1>k
        <3>2. r'.volIndex \in Nat /\ mem'[entry'].src \in Nat
            BY <1>1, <1>a, <1>c
        <3> QED BY <1>1, <1>c, <1>a, <1>h, <1>k, <3>1, <3>2 DEF Sources
      <2>9. ASSUME NoStagedEmpty, IInv PROVE Staging'
        <3> USE <2>9
        <3>1. staged' = h /\ h.kind # "same" /\ body'.owner = h.id /\ vol' # "nil" /\ pc' # "splice"
            BY <1>1, <1>a, <1>b, <1>f, <1>g DEF FirstKind, Verdict
        <3>2. h.solid \/ h.kind = "link" \/ ghost'.run \subseteq {h.id}
            BY <1>1, <1>h DEF Restarts
        <3>3. h.kind = "link" => h.id \notin ghost'.run
            BY <1>e, <1>h
        <3>4. b.n > 0
          <4>1. ~archive.rar4
              BY <1>1, <1>c, Headers DEF Base, Control
          <4>2. ~Bound.stagedEmpty
              BY <1>a, <4>1 DEF NoStagedEmpty, Types, Format, Bound
          <4> QED BY <1>1, <4>2
        <3>5. /\ mem'[entry'].comp /\ ~mem'[entry'].last /\ body'.n > 0
              /\ mem'[entry'].src < r'.volIndex
            BY <1>1, <1>a, <1>c, <1>g, <1>k, <3>4
        <3> QED BY <1>1, <3>1, <3>2, <3>3, <3>5 DEF Staging
      <2>10. ASSUME NoStagedEmpty, IInv PROVE Owing'
        <3> USE <2>10
        <3>1. ghost'.owed \subseteq {h.id} /\ staged' # NoHeader /\ staged'.id = h.id /\ ret' # "eof"
            BY <1>1, <1>a, <1>f, <1>h, <1>j, <1>k
        <3> QED BY <3>1 DEF Owing
      <2>11. ASSUME NoStagedEmpty, IInv PROVE Solid'
        <3> USE <2>11
        <3>1. staged' # NoHeader /\ staged'.id = h.id /\ entry' = entry /\ win' = win
            BY <1>1, <1>a, <1>f
        <3>2. CASE archive.rar4 \/ archive.listing \/ win.incomplete
            BY <1>b, <3>1, <3>2 DEF Solid
        <3>3. CASE \A k \in ghost.run : mem[k].done \in {"eof", "unchecked"} \/ k = entry
          <4>1. \A k \in ghost'.run : mem'[k].done \in {"eof", "unchecked"} \/ k = entry \/ k = h.id
              BY <1>1, <1>h, <3>3
          <4> QED BY <3>1, <4>1 DEF Solid
        <3> QED BY <1>l, <3>2, <3>3
      <2> QED BY <2>1, <2>2, <2>3, <2>4, <2>5, <2>6, <2>7, <2>8, <2>9, <2>10, <2>11 DEF Base
  <1>2. CASE h.first /\ h.kind # "nameless" /\ staged' = h /\ Verdict("failed")
      <2>1. Types'
        <3>1. StagedHeader'
            BY <1>b, <1>e, <1>f, <1>2 DEF StagedHeader, NewMember, Bound
        <3>2. pc' \in {"idle", "read", "fill"} /\ reading' \in {0} \cup Id /\ mem' \in [Id -> Entry]
            BY <1>2, <1>a, <1>c DEF Base, Types, Verdict
        <3> QED BY <1>a, <1>b, <1>g, <1>h, <3>1, <3>2 DEF Types
      <2>2. Control'
          BY <1>2, <1>a, <1>b, <1>c, <1>e, <1>f, <1>g, <1>h, <1>j, <1>k, Headers
             DEF Base, Types, Control, Verdict, Restarts, FirstKind, Entry, Done
      <2>3. Ended'
          BY <1>2, <1>a, <1>b, <1>c, <1>e, <1>f, <1>g, <1>h, <1>j, <1>k, Headers
             DEF Base, Types, Control, Ended, Verdict, Restarts, FirstKind
      <2>4. Damage'
          BY <1>2, <1>a, <1>b, <1>c, <1>e, <1>f, <1>g, <1>h, <1>j, <1>k, Headers
             DEF Base, Types, Damage, Verdict, Restarts, FirstKind
      <2>5. Blocks'
        <3>1. \A k \in Id : k > archive'.blocks => k > archive.blocks /\ k # entry /\ k # h.id
            BY <1>b, <1>c, <1>e, Headers DEF Base, Blocks
        <3>2. \A k \in Id : k > archive'.blocks => mem'[k] = NoMember
            BY <1>2, <3>1 DEF Base, Blocks, Verdict
        <3>3. entry' <= archive'.blocks
            BY <1>a, <1>b, <1>c, Headers DEF Base, Blocks
        <3>4. staged'.id = h.id /\ staged'.id <= archive'.blocks /\ mem'[h.id] = NoMember
            BY <1>2, <1>b, <1>e DEF Verdict
        <3> QED BY <1>2, <1>a, <1>e, <1>i, <3>2, <3>3, <3>4 DEF Blocks
      <2>6. Lacking'
          BY <1>2, <1>a, <1>b, <1>c, <1>e, <1>f, <1>g, <1>h, <1>j, <1>k, Headers
             DEF Base, Types, Control, Blocks, Lacking, Verdict, Restarts, FirstKind, Entry,
                 Done
      <2>7. LateStart'
          BY <1>2, <1>a, <1>b, <1>c, <1>e, <1>f, <1>g, <1>h, <1>j, <1>k, Headers
             DEF Base, Types, Control, Damage, Blocks, LateStart, Unjudged, Doomed, Stuck,
                 Archive, Verdict, Restarts, FirstKind, Entry, Done
      <2>8. ASSUME NoStagedEmpty, IInv PROVE Sources'
          BY <2>8, <1>2, <1>a, <1>b, <1>c, <1>e, <1>f, <1>g, <1>h, <1>j, <1>k, Headers
             DEF IInv, Base, Types, Control, Sources, Verdict, Restarts, FirstKind
      <2>9. ASSUME NoStagedEmpty, IInv PROVE Staging'
        <3> USE <2>9
        <3>1. staged' = h /\ h.kind # "same" /\ body'.owner = h.id /\ vol' # "nil" /\ pc' # "splice"
            BY <1>2, <1>a, <1>b, <1>f, <1>g DEF FirstKind, Verdict
        <3>2. h.solid \/ h.kind = "link" \/ ghost'.run \subseteq {h.id}
            BY <1>2, <1>h DEF Restarts
        <3>3. h.kind = "link" => h.id \notin ghost'.run
            BY <1>e, <1>h
        <3>4. mem'[entry'].done # "none"
            BY <1>2, <1>a DEF Verdict
        <3> QED BY <1>2, <3>1, <3>2, <3>3, <3>4 DEF Staging
      <2>10. ASSUME NoStagedEmpty, IInv PROVE Owing'
        <3> USE <2>10
        <3>1. ghost'.owed \subseteq {h.id} /\ staged' # NoHeader /\ staged'.id = h.id /\ ret' # "eof"
            BY <1>2, <1>a, <1>f, <1>h, <1>j, <1>k
        <3> QED BY <3>1 DEF Owing
      <2>11. ASSUME NoStagedEmpty, IInv PROVE Solid'
          BY <2>11, <1>2, <1>a, <1>b, <1>c, <1>e, <1>f, <1>g, <1>h, <1>j, <1>k, Headers
             DEF IInv, Base, Types, Control, Blocks, Solid, Stuck, Verdict, Restarts, FirstKind
      <2> QED BY <2>1, <2>2, <2>3, <2>4, <2>5, <2>6, <2>7, <2>8, <2>9, <2>10, <2>11 DEF Base
  <1>3. CASE (h.kind = "nameless" \/ ~h.first) /\ Verdict("failed") /\ UNCHANGED staged
      <2>1. Types'
        <3>1. StagedHeader'
            BY <1>3, <1>a, <1>b, StagedKept DEF Types
        <3>2. pc' \in {"idle", "read", "fill"} /\ reading' \in {0} \cup Id /\ mem' \in [Id -> Entry]
            BY <1>3, <1>a, <1>c DEF Base, Types, Verdict
        <3> QED BY <1>a, <1>b, <1>g, <1>h, <3>1, <3>2 DEF Types
      <2>2. Control'
          BY <1>3, <1>a, <1>b, <1>c, <1>e, <1>f, <1>g, <1>h, <1>j, <1>k, Headers
             DEF Base, Types, Control, Verdict, Entry, Done
      <2>3. Ended'
          BY <1>3, <1>a, <1>b, <1>c, <1>e, <1>f, <1>g, <1>h, <1>j, <1>k, Headers
             DEF Base, Types, Control, Ended, Verdict
      <2>4. Damage'
          BY <1>3, <1>a, <1>b, <1>c, <1>e, <1>f, <1>g, <1>h, <1>j, <1>k, Headers
             DEF Base, Types, Damage, Verdict
      <2>5. Blocks'
        <3>1. \A k \in Id : k > archive'.blocks => k > archive.blocks /\ k # entry /\ k # h.id
            BY <1>b, <1>c, <1>e, Headers DEF Base, Blocks
        <3>2. \A k \in Id : k > archive'.blocks => mem'[k] = NoMember
            BY <1>3, <3>1 DEF Base, Blocks, Verdict
        <3>3. entry' <= archive'.blocks
            BY <1>a, <1>b, <1>c, Headers DEF Base, Blocks
        <3>4. staged # NoHeader => staged.id \in Id /\ staged.id \in Nat /\ staged.id <= archive.blocks
                                   /\ staged.id # entry /\ mem[staged.id] = NoMember
            BY <1>a, Headers DEF Base, Types, StagedHeader, Blocks
        <3>5. staged # NoHeader => staged.id <= archive'.blocks /\ mem'[staged.id] = NoMember
            BY <1>3, <1>b, <3>4 DEF Verdict
        <3> QED BY <1>3, <1>a, <1>i, <3>2, <3>3, <3>4, <3>5 DEF Blocks
      <2>6. Lacking'
          BY <1>3, <1>a, <1>b, <1>c, <1>e, <1>f, <1>g, <1>h, <1>j, <1>k, Headers
             DEF Base, Types, Control, Blocks, Lacking, Verdict, Entry, Done
      <2>7. LateStart'
          BY <1>3, <1>a, <1>b, <1>c, <1>e, <1>f, <1>g, <1>h, <1>j, <1>k, Headers
             DEF Base, Types, Control, Damage, Blocks, LateStart, Unjudged, Doomed, Stuck,
                 Archive, Verdict, Entry, Done
      <2>8. ASSUME NoStagedEmpty, IInv PROVE Sources'
          BY <2>8, <1>3, <1>a, <1>b, <1>c, <1>e, <1>f, <1>g, <1>h, <1>j, <1>k, Headers
             DEF IInv, Base, Types, Control, Sources, Verdict
      <2>9. ASSUME NoStagedEmpty, IInv PROVE Staging'
          BY <2>9, <1>3, <1>a, <1>b, <1>c, <1>e, <1>f, <1>g, <1>h, <1>j, <1>k, Headers
             DEF IInv, Base, Types, Control, Blocks, Staging, Verdict
      <2>10. ASSUME NoStagedEmpty, IInv PROVE Owing'
          BY <2>10, <1>3, <1>a, <1>b, <1>c, <1>e, <1>f, <1>g, <1>h, <1>j, <1>k, Headers
             DEF IInv, Base, Types, Control, Owing, Stuck, Verdict
      <2>11. ASSUME NoStagedEmpty, IInv PROVE Solid'
          BY <2>11, <1>3, <1>a, <1>b, <1>c, <1>e, <1>f, <1>g, <1>h, <1>j, <1>k, Headers
             DEF IInv, Base, Types, Control, Blocks, Solid, Stuck, Verdict
      <2> QED BY <2>1, <2>2, <2>3, <2>4, <2>5, <2>6, <2>7, <2>8, <2>9, <2>10, <2>11 DEF Base
  <1>4. CASE /\ IsOwnPart(h)
             /\ mem' = [mem EXCEPT ![reading] = advanceVolume(@, h)]
             /\ pc' = IF me.comp THEN "fill" ELSE "read"
             /\ UNCHANGED <<staged, reading>>
      <2>a. PICK x \in Entry : /\ mem' = [mem EXCEPT ![entry] = x]
                              /\ x.left = mem[entry].left /\ x.lack = mem[entry].lack
                              /\ x.done = "none" /\ x.last = h.last /\ x.comp = mem[entry].comp
                              /\ x.src = r.volIndex /\ x.held = mem[entry].held
                              /\ x.skips = mem[entry].skips /\ x.empty = mem[entry].empty
                              /\ x.gapped = (mem[entry].gapped \/ archive.skipped # mem[entry].skips)
        <3> DEFINE gap == mem[entry].gapped \/ archive.skipped # mem[entry].skips
                   x == [mem[entry] EXCEPT !.last = h.last, !.src = r.volIndex, !.gapped = gap]
        <3>1. r.volIndex \in 0 .. MaxVolumes /\ mem[entry].gapped \in BOOLEAN
            BY <1>a, <1>c DEF Types, Fields, Entry
        <3>2. gap \in BOOLEAN
            BY <3>1
        <3>3. mem' = [mem EXCEPT ![entry] = x]
            BY <1>4, <1>c DEF advanceVolume
        <3> HIDE DEF gap
        <3>4. x \in Entry
            BY <1>c, <1>f, <3>1, <3>2 DEF Entry
        <3>5. /\ x.left = mem[entry].left /\ x.lack = mem[entry].lack
              /\ x.done = "none" /\ x.last = h.last /\ x.comp = mem[entry].comp
              /\ x.src = r.volIndex /\ x.held = mem[entry].held
              /\ x.skips = mem[entry].skips /\ x.empty = mem[entry].empty /\ x.gapped = gap
            BY <1>c DEF Entry
        <3> QED BY <3>3, <3>4, <3>5 DEF gap
      <2>b. mem' \in [Id -> Entry] /\ mem'[entry] = x /\ \A k \in Id : k # entry => mem'[k] = mem[k]
          BY <1>c, <2>a
      <2>c. pc' = (IF mem[entry].comp THEN "fill" ELSE "read") /\ UNCHANGED <<staged, reading>>
            /\ h.kind = "same" /\ ~h.first
          BY <1>4, <1>c DEF me, IsOwnPart
      <2>d. archive.skipped \in Nat /\ mem[entry].skips \in Nat
          BY <1>a, <1>c DEF Types, Archive, Entry
      <2>1. Types'
        <3>1. StagedHeader'
            BY <1>a, <1>b, <2>c, StagedKept DEF Types
        <3>2. pc' \in {"idle", "read", "fill"} /\ reading' \in {0} \cup Id /\ mem' \in [Id -> Entry]
            BY <1>a, <1>c, <2>b, <2>c DEF Base, Types, Verdict
        <3> QED BY <1>a, <1>b, <1>g, <1>h, <3>1, <3>2 DEF Types
      <2>2. Control'
          BY <1>4, <2>a, <2>b, <2>c, <2>d, <1>a, <1>b, <1>c, <1>e, <1>f, <1>g, <1>h, <1>j, <1>k,
             Headers
             DEF Base, Types, Control, Entry, Done
      <2>3. Ended'
          BY <1>4, <2>a, <2>b, <2>c, <2>d, <1>a, <1>b, <1>c, <1>e, <1>f, <1>g, <1>h, <1>j, <1>k,
             Headers
             DEF Base, Types, Control, Ended
      <2>4. Damage'
          BY <1>4, <2>a, <2>b, <2>c, <2>d, <1>a, <1>b, <1>c, <1>e, <1>f, <1>g, <1>h, <1>j, <1>k,
             Headers
             DEF Base, Types, Damage
      <2>5. Blocks'
        <3>1. \A k \in Id : k > archive'.blocks => k > archive.blocks /\ k # entry /\ k # h.id
            BY <1>b, <1>c, <1>e, Headers DEF Base, Blocks
        <3>2. \A k \in Id : k > archive'.blocks => mem'[k] = NoMember
            BY <2>b, <3>1 DEF Base, Blocks, Verdict
        <3>3. entry' <= archive'.blocks
            BY <1>a, <1>b, <1>c, Headers DEF Base, Blocks
        <3>4. staged # NoHeader => staged.id \in Id /\ staged.id \in Nat /\ staged.id <= archive.blocks
                                   /\ staged.id # entry /\ mem[staged.id] = NoMember
            BY <1>a, Headers DEF Base, Types, StagedHeader, Blocks
        <3>5. staged # NoHeader => staged.id <= archive'.blocks /\ mem'[staged.id] = NoMember
            BY <1>b, <3>4, <2>b, <2>c DEF Verdict
        <3> QED BY <2>c, <1>a, <1>i, <3>2, <3>3, <3>4, <3>5 DEF Blocks
      <2>6. Lacking'
          BY <1>4, <2>a, <2>b, <2>c, <2>d, <1>a, <1>b, <1>c, <1>e, <1>f, <1>g, <1>h, <1>j, <1>k,
             Headers
             DEF Base, Types, Control, Blocks, Lacking, Entry, Done
      <2>7. LateStart'
          BY <1>4, <2>a, <2>b, <2>c, <2>d, <1>a, <1>b, <1>c, <1>e, <1>f, <1>g, <1>h, <1>j, <1>k,
             Headers
             DEF Base, Types, Control, Damage, Blocks, LateStart, Unjudged, Doomed, Stuck,
                 Archive, Entry, Done
      <2>8. ASSUME NoStagedEmpty, IInv PROVE Sources'
          BY <2>8, <1>4, <2>a, <2>b, <2>c, <2>d, <1>a, <1>b, <1>c, <1>e, <1>f, <1>g, <1>h, <1>j,
             <1>k, Headers
             DEF IInv, Base, Types, Control, Sources
      <2>9. ASSUME NoStagedEmpty, IInv PROVE Staging'
          BY <2>9, <1>4, <2>a, <2>b, <2>c, <2>d, <1>a, <1>b, <1>c, <1>e, <1>f, <1>g, <1>h, <1>j,
             <1>k, Headers
             DEF IInv, Base, Types, Control, Blocks, Staging
      <2>10. ASSUME NoStagedEmpty, IInv PROVE Owing'
          BY <2>10, <1>4, <2>a, <2>b, <2>c, <2>d, <1>a, <1>b, <1>c, <1>e, <1>f, <1>g, <1>h,
             <1>j, <1>k, Headers
             DEF IInv, Base, Types, Control, Owing, Stuck
      <2>11. ASSUME NoStagedEmpty, IInv PROVE Solid'
        <3> USE <2>11
        <3>1. entry' = entry /\ win' = win /\ ghost'.run \subseteq ghost.run /\ ghost.run \subseteq Id
            BY <1>a, <1>h, <2>c DEF Types, History
        <3>2. CASE archive.rar4 \/ archive.listing \/ win.incomplete
            BY <1>b, <3>1, <3>2 DEF Solid
        <3>3. CASE \A k \in ghost.run : mem[k].done \in {"eof", "unchecked"} \/ k = entry
          <4>1. \A k \in ghost'.run : mem'[k].done \in {"eof", "unchecked"} \/ k = entry
              BY <2>b, <3>1, <3>3
          <4> QED BY <3>1, <4>1 DEF Solid
        <3> QED BY <1>l, <3>2, <3>3
      <2> QED BY <2>1, <2>2, <2>3, <2>4, <2>5, <2>6, <2>7, <2>8, <2>9, <2>10, <2>11 DEF Base
  <1> QED BY <1>a, <1>c, <1>d, <1>1, <1>2, <1>3, <1>4, EndsVerdict, EndsOfSource DEF Stages
-----------------------------------------------------------------------------
(* The invariants. *)

LEMMA Stutter ==
  ASSUME UNCHANGED vars
  PROVE  /\ Base => Base'
         /\ IInv => (Sources /\ Staging /\ Owing /\ Solid)'
  <1> USE DEF vars
  <1>1. Types => Types'
    <2>1. StagedHeader => StagedHeader'
        BY StagedKept
    <2> QED BY <2>1 DEF Types, Format
  <1>2. Control => Control'
      BY DEF Control
  <1>3. Ended /\ Damage => (Ended /\ Damage)'
      BY DEF Ended, Damage
  <1>4. Blocks => Blocks'
      BY DEF Blocks
  <1>5. Lacking => Lacking'
      BY DEF Lacking
  <1>6. LateStart => LateStart'
      BY DEF LateStart, Unjudged, Doomed, Stuck
  <1>7. Sources /\ Staging => (Sources /\ Staging)'
      BY DEF Sources, Staging
  <1>8. Owing /\ Solid => (Owing /\ Solid)'
      BY DEF Owing, Solid, Stuck
  <1> QED BY <1>1, <1>2, <1>3, <1>4, <1>5, <1>6, <1>7, <1>8 DEF Base, IInv

LEMMA BaseStep ==
  ASSUME Base, [Next]_vars
  PROVE  Base'
  BY Stutter, NextEntryStep, ReadEntryStep, DrainedStep, ResetStep, ReadDoneStep,
     ReadStoredStep, ReadWindowStep, FillUnitStep, FillReturnsStep, PayloadSpentStep,
     NoNextVolumeStep, OpenNextVolumeStep, CutInPayloadStep, CutInHeaderStep, EndOfVolumeStep,
     BadHeaderStep, ArchiveHeaderStep, OtherHeaderStep, EndHeaderStep, ScanFileStep,
     ScanStagedStep, NextVolumePayloadStep
     DEF Next

LEMMA InvStep ==
  ASSUME NoStagedEmpty, IInv, [Next]_vars
  PROVE  IInv'
  <1>1. Base
      BY DEF IInv
  <1>2. Base'
      BY <1>1, BaseStep
  <1>3. (Sources /\ Staging /\ Owing /\ Solid)'
      BY <1>1, Stutter, NextEntryStep, ReadEntryStep, DrainedStep, ResetStep, ReadDoneStep,
         ReadStoredStep, ReadWindowStep, FillUnitStep, FillReturnsStep, PayloadSpentStep,
         NoNextVolumeStep, OpenNextVolumeStep, CutInPayloadStep, CutInHeaderStep,
         EndOfVolumeStep, BadHeaderStep, ArchiveHeaderStep, OtherHeaderStep, EndHeaderStep,
         ScanFileStep, ScanStagedStep, NextVolumePayloadStep
         DEF Next
  <1> QED BY <1>2, <1>3 DEF IInv

(* Whatever the archive, the traversal keeps its books: only the member in   *)
(* progress is read, damage and late starts are recorded where they are met,*)
(* and what NextEntry reported at the end still stands.                     *)
THEOREM TraversalBase == Spec => []Base
  <1>1. Init => Base
      BY InitInv DEF IInv
  <1>2. Base /\ [Next]_vars => Base'
      BY BaseStep
  <1> QED BY <1>1, <1>2, PTL DEF Spec

(* And, but for the blocks of the finding on staged headers, a header the    *)
(* splice left for the scan keeps its volume, every unit read belongs to     *)
(* the member that reads it, and the history of a solid run is whole or      *)
(* known not to be.                                                         *)
THEOREM TraversalInvariant ==
  ASSUME NoStagedEmpty
  PROVE  Spec => []IInv
  <1>1. Init => IInv
      BY InitInv
  <1>2. IInv /\ [Next]_vars => IInv'
      BY InvStep
  <1> QED BY <1>1, <1>2, PTL DEF Spec

(* io.EOF from NextEntry means no volume was found cut, and damage is        *)
(* reported only if one was: r.damaged, which both loops set.                *)
THEOREM CutsAreReported == Spec => []CutIsReported
  <1>1. Base => CutIsReported
      BY DEF Base, Ended, Damage, CutIsReported
  <1> QED BY <1>1, TraversalBase, PTL

(* Only a set that starts late is accused of it: the judgement of RAR        *)
(* 1.5-4.x end headers and memberFailed.                                    *)
THEOREM LateStartsAreReal == Spec => []LateStartIsReal
  <1>1. Base => LateStartIsReal
      BY DEF Base, Ended, LateStart, LateStartIsReal
  <1> QED BY <1>1, TraversalBase, PTL

(* NextEntry reaches io.EOF with every named member handed out: r.staged     *)
(* and the scan's dispatch.                                                 *)
THEOREM MembersHandedOut ==
  ASSUME NoStagedEmpty
  PROVE  Spec => []EveryMemberHandedOut
  <1>1. IInv => EveryMemberHandedOut
      BY DEF IInv, Owing, EveryMemberHandedOut
  <1> QED BY <1>1, TraversalInvariant, PTL

(* No Entry delivers another member's payload: severActive and the splice's  *)
(* identity checks.                                                         *)
THEOREM UnitsAreOwn ==
  ASSUME NoStagedEmpty
  PROVE  Spec => []OwnUnitsOnly
  <1>1. IInv => OwnUnitsOnly
      BY DEF IInv, Sources, OwnUnitsOnly
  <1> QED BY <1>1, TraversalInvariant, PTL

(* The comment on Reader.staged: nothing advances the volume while a header  *)
(* is staged, unless the staged member declares no payload.                 *)
THEOREM StagedStands ==
  ASSUME NoStagedEmpty
  PROVE  Spec => []StagedKeepsVolume
  <1>1. IInv => StagedKeepsVolume
      BY DEF IInv, Staging, StagedKeepsVolume
  <1> QED BY <1>1, TraversalInvariant, PTL

-----------------------------------------------------------------------------
(* Steps. *)

(* Only dispatch begins a member. *)
LEMMA OnlyDispatchBegins ==
  ASSUME Base, [Next]_vars, ~ScanFile, ~ScanStaged
  PROVE  entry' \in {0, entry}
  <1>1. CASE UNCHANGED vars
      BY <1>1 DEF vars
  <1>2. CASE NextEntry \/ Drained \/ Reset
      BY <1>2, NextEntryFacts DEF Drained, Settle, Reset
  <1>3. CASE \/ ReadEntry \/ ReadDone \/ ReadStored \/ ReadWindow \/ FillUnit \/ FillReturns
             \/ PayloadSpent \/ NoNextVolume \/ OpenNextVolume
      BY <1>3 DEF ReadEntry, ReadDone, ReadStored, ReadWindow, FillUnit, FillReturns, PayloadSpent,
                  NoNextVolume, OpenNextVolume
  <1>4. CASE CutInPayload \/ CutInHeader \/ EndOfVolume \/ BadHeader
    <2>1. CutInPayload \/ EndOfVolume \/ BadHeader => entry' = entry
        BY DEF CutInPayload, EndOfVolume, Spent, BadHeader
    <2>2. CutInHeader => entry' = entry
        BY DEF CutInHeader, Spent
    <2> QED BY <1>4, <2>1, <2>2
  <1>6. CASE ArchiveHeader \/ OtherHeader \/ EndHeader
    <2>1. ArchiveHeader => entry' = entry
        BY DEF ArchiveHeader
    <2>2. OtherHeader \/ EndHeader => entry' = entry
        BY DEF OtherHeader, EndHeader
    <2> QED BY <1>6, <2>1, <2>2
  <1>5. CASE NextVolumePayload
      BY <1>5 DEF NextVolumePayload
  <1> QED BY <1>1, <1>2, <1>3, <1>4, <1>5, <1>6 DEF Next

(* A compressed solid member is decoded only on history that is all there:   *)
(* window.BeginFile and everything that calls MarkIncomplete.               *)
THEOREM SolidHistoryIsWhole ==
  ASSUME NoStagedEmpty
  PROVE  Spec => SolidNeedsWholeHistory
  <1>1. ASSUME IInv, [Next]_vars PROVE BeginsWhole \/ UNCHANGED vars
    <2>1. Base
        BY <1>1 DEF IInv
    <2>2. CASE ScanFile \/ ScanStaged
        BY <1>1, <2>1, <2>2, ScanFileStep, ScanStagedStep
    <2>3. CASE ~ScanFile /\ ~ScanStaged
        BY <1>1, <2>1, <2>3, OnlyDispatchBegins, Headers DEF BeginsWhole, Begins
    <2> QED BY <2>2, <2>3
  <1>2. IInv /\ [Next]_vars =>
          [\A m \in Id : Begins(m) /\ mem'[m].comp => \A k \in ghost'.run \ {m} : Whole(k)]_vars
      BY <1>1 DEF BeginsWhole
  <1> QED BY <1>2, TraversalInvariant, PTL DEF Spec, SolidNeedsWholeHistory

(* Once an error of the archive is latched NextEntry hands out no member,    *)
(* also when the drain inside this very call latched it: its re-check of    *)
(* r.fatal.                                                                 *)
THEOREM NothingHandedAfterFatal == Spec => NothingAfterFatal
  <1>1. ASSUME Base, [Next]_vars, ret # "entry", ret' = "entry" PROVE ~r'.fatal
    <2>1. ScanFile \/ ScanStaged
      <3>1. CASE NextEntry
          BY <1>1, <3>1 DEF NextEntry
      <3>2. CASE Reset \/ NoNextVolume
          BY <1>1, <3>2 DEF Reset, NoNextVolume, EndOfArchive
      <3>0. ASSUME NEW rr, ArchiveFails(rr) PROVE ret' \in {"fatal", ret}
          BY <3>0 DEF ArchiveFails
      <3>3. CASE BadHeader \/ OpenNextVolume \/ ArchiveHeader \/ OtherHeader
        <4>1. BadHeader => ret' \in {"fatal", ret}
            BY <3>0 DEF BadHeader
        <4>2. OpenNextVolume => ret' \in {"fatal", ret}
            BY <3>0 DEF OpenNextVolume
        <4>3. ArchiveHeader => ret' \in {"fatal", ret}
            BY <3>0 DEF ArchiveHeader
        <4>4. OtherHeader => ret' \in {"fatal", ret}
            BY <3>0 DEF OtherHeader
        <4> QED BY <1>1, <3>3, <4>1, <4>2, <4>3, <4>4
      <3>4. CASE \/ UNCHANGED vars \/ ReadEntry \/ Drained \/ ReadDone \/ ReadStored \/ ReadWindow
                 \/ FillUnit \/ FillReturns \/ PayloadSpent
          BY <1>1, <3>4 DEF vars, ReadEntry, Drained, ReadDone, ReadStored, ReadWindow, FillUnit,
                            FillReturns, PayloadSpent
      <3>5. CASE CutInPayload \/ CutInHeader \/ EndOfVolume \/ EndHeader
        <4>1. CutInPayload \/ EndOfVolume \/ EndHeader => ret' = ret
            BY DEF CutInPayload, EndOfVolume, EndHeader, Spent
        <4>2. CutInHeader => ret' = ret
            BY DEF CutInHeader, Spent
        <4> QED BY <1>1, <3>5, <4>1, <4>2
      <3>6. CASE NextVolumePayload
          BY <1>1, <3>6 DEF NextVolumePayload
      <3> QED BY <1>1, <3>1, <3>2, <3>3, <3>4, <3>5, <3>6 DEF Next
    <2>2. Types /\ r \in Fields
        BY <1>1 DEF Base, Types
    <2>3. ASSUME NEW h, NEW g, Dispatch(h, g) PROVE ~r'.fatal
      <3>1. r' = [r EXCEPT !.fileSeen = TRUE] /\ ~r.fatal
          BY <1>1, <2>3 DEF Dispatch, Refuses, HandsLink, Admits, Hands, Withholds
      <3> QED BY <2>2, <3>1 DEF Fields
    <2>4. CASE ScanStaged
        BY <2>3, <2>4 DEF ScanStaged
    <2>5. CASE ScanFile
      <3>1. PICK h : \/ ArchiveFails([r EXCEPT !.fileSeen = TRUE])
                     \/ Dispatch(h, Seen(h, FALSE))
          BY <2>5 DEF ScanFile
      <3>2. pc = "scan"
          BY <2>5 DEF ScanFile
      <3>3. ~ArchiveFails([r EXCEPT !.fileSeen = TRUE])
          BY <1>1, <3>2 DEF ArchiveFails
      <3> QED BY <2>3, <3>1, <3>3
    <2> QED BY <2>1, <2>4, <2>5
  <1>2. Base /\ [Next]_vars => [ret # "entry" /\ ret' = "entry" => ~r'.fatal]_vars
      BY <1>1
  <1> QED BY <1>2, TraversalBase, PTL DEF Spec, NothingAfterFatal

=============================================================================
