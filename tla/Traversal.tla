----------------------------- MODULE Traversal -----------------------------
(***************************************************************************)
(* One pass over an archive: NextEntry's scan, the members it hands out,   *)
(* the splice that carries a member from one volume to the next, and Reset *)
(* to another archive, with Entries of the old one still in hand.          *)
(*                                                                         *)
(* Nothing runs concurrently here (VolumeChain has Close). What is hard is *)
(* that two loops read the same block headers, the scan and the splice     *)
(* below a member's Read, and that either may meet a cut volume, a missing *)
(* volume, an untrusted header or a member nobody expected there.          *)
(* The archive is therefore chosen one block at a time, and may be any     *)
(* sequence of blocks at all; only volume numbers and checksums are        *)
(* honest. Payload is counted in units; a compressed unit decodes to one.  *)
(***************************************************************************)
EXTENDS Naturals

CONSTANTS
  MaxVolumes,   (* bound: streams received from the volumes channel *)
  MaxHeaders,   (* bound: block headers read, over all archives *)
  MaxPayload,   (* bound: units in one block's payload *)
  Bounds        (* bounds of each format to try, "rar5" and "rar4": the      *)
                (* sizes members declare, Reader.listing, the volume the     *)
                (* stream starts at, how many are missing later, and whether *)
                (* a member met by the splice may declare no payload         *)

ASSUME BoundsAssumption ==
  /\ MaxVolumes \in Nat \ {0} /\ MaxHeaders \in Nat \ {0} /\ MaxPayload \in Nat
  /\ DOMAIN Bounds \subseteq {"rar5", "rar4"}
  /\ \A f \in DOMAIN Bounds :
       /\ Bounds[f].sizes \subseteq Nat /\ Bounds[f].starts \subseteq Nat
       /\ Bounds[f].skipped \in Nat /\ Bounds[f].listings \subseteq BOOLEAN
       /\ Bounds[f].stagedEmpty \in BOOLEAN

Id == 1 .. MaxHeaders
Units == 0 .. MaxPayload

VARIABLES
  pc,       (* where the traversal goroutine is *)
  draining, (* the Read in progress is finishActive's drain, not the caller's *)
  reading,  (* the member whose Read is in progress, 0 for none *)
  vol,      (* r.vol: "nil", "open", or "failed" once v.err is set *)
  body,     (* v.body: units declared and not read, units really there, and *)
            (* whose block it is *)
  staged,   (* r.staged *)
  entry,    (* r.entry, 0 for nil *)
  mem,      (* per block: what is known of the member it announces *)
  win,      (* the window: units decoded and not read, and incomplete *)
  r,        (* the Reader's other fields *)
  ret,      (* what NextEntry last returned *)
  archive,  (* what the caller feeds: format, listing, the volume the stream *)
            (* starts at, volumes missing since, blocks so far              *)
  ghost     (* history variables, read by no action *)

vars == <<pc, draining, reading, vol, body, staged, entry, mem, win, r, ret,
          archive, ghost>>

-----------------------------------------------------------------------------
(* Blocks. *)

Bound == Bounds[IF archive.rar4 THEN "rar4" ELSE "rar5"]

(* What becomes of a file header that starts a member: it parses; it fails  *)
(* after or before its name; admission refuses it before the window is      *)
(* touched (format, bomb ratio, dictionary) or after (password); it is a    *)
(* link.                                                                    *)
FirstKind == {"ok", "bad", "nameless", "refused", "nokey", "link"}

NewMember(id) ==
  [id: {id}, first: {TRUE}, kind: FirstKind, last: BOOLEAN, solid: BOOLEAN,
   comp: BOOLEAN, size: Bound.sizes]

(* A continuation agrees with the member in progress in everything the      *)
(* splice compares, or not, or does not parse.                              *)
Continuation(id) ==
  [id: {id}, first: {FALSE}, kind: {"same", "other", "bad"}, last: BOOLEAN,
   comp: BOOLEAN]

(* Payload declared, and the part of it the volume holds. *)
Payload == {b \in [n: Units, have: Units] : b.have <= b.n}

NoHeader == [id |-> 0]
NoBody == [n |-> 0, have |-> 0, owner |-> 0]
NoMember == [empty |-> FALSE, left |-> 0, lack |-> 0, last |-> FALSE, comp |-> FALSE,
             src |-> 0, held |-> FALSE, skips |-> 0, gapped |-> FALSE, done |-> "none"]

(* Success is recorded as io.EOF; "unchecked" is ErrChecksumUnsupported. *)
Done == {"none", "eof", "unchecked", "failed"}

TypeOK ==
  /\ pc \in {"idle", "scan", "read", "fill", "splice", "panic"}
  /\ draining \in BOOLEAN /\ reading \in {0} \cup Id /\ entry \in {0} \cup Id
  /\ vol \in {"nil", "open", "failed"}
  /\ body \in [n: Units, have: Units, owner: {0} \cup Id] /\ body.have <= body.n
  /\ staged # NoHeader => staged \in NewMember(staged.id)
  /\ DOMAIN mem = Id
  /\ \A k \in Id :
       /\ mem[k].left \in Nat /\ mem[k].lack \in Nat
       /\ mem[k].done \in Done /\ mem[k].src \in 0 .. MaxVolumes
  /\ win \in [avail: Nat, incomplete: BOOLEAN]
  /\ r.volIndex \in 0 .. MaxVolumes
  /\ ret \in {"none", "entry", "eof", "damaged", "notFirst", "fatal"}
FreshReader ==
  [solid |-> FALSE, solidSeen |-> FALSE, fileSeen |-> FALSE, damaged |-> FALSE,
   late |-> FALSE, endSeen |-> FALSE, memberFailed |-> FALSE, fatal |-> FALSE,
   volIndex |-> 0]
FreshWindow == [avail |-> 0, incomplete |-> FALSE]
FreshGhost ==
  [run |-> {}, owed |-> {}, cut |-> FALSE, torn |-> FALSE, unended |-> FALSE,
   foreign |-> FALSE]

(* What the caller may feed next, blocks of it having been read before. *)
Archives(blocks) ==
  UNION {[rar4: {f = "rar4"}, listing: Bounds[f].listings, start: Bounds[f].starts,
          numbered: {FALSE, f = "rar4"}, closed: {FALSE}, blocks: {blocks},
          skipped: {0}] : f \in DOMAIN Bounds}

Init ==
  /\ pc = "idle" /\ draining = FALSE /\ reading = 0
  /\ vol = "nil" /\ body = NoBody /\ staged = NoHeader /\ entry = 0
  /\ mem = [k \in Id |-> NoMember]
  /\ win = FreshWindow /\ r = FreshReader /\ ret = "none"
  /\ archive \in Archives(0)
  /\ ghost = FreshGhost

-----------------------------------------------------------------------------
(* A member's verdict. e is the Entry: a record of mem. *)

short(e) == e.left > 0

(* With a verdict an Entry is only that: Read returns it and nothing else.  *)
Finished(e, v) == [NoMember EXCEPT !.left = e.left, !.lack = e.lack, !.done = v]

(* finish(nil): verifyChecksum decides. Units from either side of a missing *)
(* volume cannot match the checksum; whether there is one to compare is the *)
(* archive's choice.                                                        *)
verifyChecksum(e) ==
  IF short(e) \/ ~e.last THEN {"failed"}
  ELSE IF e.empty THEN {"eof"}
  ELSE {"unchecked", "failed"} \cup (IF e.gapped THEN {} ELSE {"eof"})

(* severActive: the source is cut, with a verdict and without reading       *)
(* anything; a member that has a verdict keeps it.                          *)
LeavesSource(e, d) == e
Sever(e, d) == Finished(e, d)

severActive(e) ==
  IF e.done # "none" THEN {e.done}
  ELSE IF short(e) THEN {"failed"} ELSE verifyChecksum(e)

(* What finishActive records of the member that was in progress. *)
MarksOnlyShort(e) == short(e)
MarksIncomplete(e) == short(e) \/ e.done = "failed"
MarksNothing(e) == FALSE
MarksFailed(e) == short(e) \/ e.done # "eof"

Settle(e) ==
  /\ entry' = 0
  /\ win' = [win EXCEPT !.incomplete = @ \/ MarksIncomplete(e)]
  /\ r' = [r EXCEPT !.memberFailed = @ \/ MarksFailed(e)]

-----------------------------------------------------------------------------
(* The caller's calls. *)

NextEntry ==
  /\ pc = "idle"
  /\ ret' = IF r.fatal THEN "fatal" ELSE "none"
  /\ IF r.fatal THEN UNCHANGED <<pc, draining, reading, entry, mem, win, r>>
     ELSE \/ /\ entry = 0
             /\ pc' = "scan"
             /\ UNCHANGED <<draining, reading, entry, mem, win, r>>
          \/ /\ entry # 0 /\ r.solid
             /\ pc' = "read" /\ draining' = TRUE /\ reading' = entry
             /\ UNCHANGED <<entry, mem, win, r>>
          \/ /\ entry # 0 /\ ~r.solid
             /\ pc' = "scan"
             /\ \E d \in severActive(mem[entry]) :
                  /\ mem' = [mem EXCEPT ![entry] = Sever(@, d)]
                  /\ Settle(mem'[entry])
             /\ UNCHANGED <<draining, reading>>
  /\ UNCHANGED <<vol, body, staged, archive, ghost>>

(* The caller reads a member it was handed, the current one or an older one.*)
(* Entry.Close is this, repeated until the member has its verdict.          *)
ReadEntry ==
  /\ pc = "idle"
  /\ \E m \in Id :
       /\ mem[m].held /\ mem[m].done = "none"
       /\ reading' = m
  /\ pc' = "read"
  /\ UNCHANGED <<draining, vol, body, staged, entry, mem, win, r, ret,
                 archive, ghost>>

(* finishActive's drain is over: the scan goes on. *)
Drained ==
  /\ pc = "read" /\ draining /\ mem[reading].done # "none"
  /\ Settle(mem[reading])
  /\ pc' = "scan" /\ draining' = FALSE /\ reading' = 0
  /\ UNCHANGED <<vol, body, staged, mem, ret, archive, ghost>>

(* Reset severs the member in progress, closes the volume and starts over   *)
(* with another archive; the caller may keep Entries of the old one. One    *)
(* with a verdict has nothing more to do with the Reader.                   *)
Reset ==
  /\ pc = "idle" /\ archive.blocks < MaxHeaders (* bound: there is more to read *)
  /\ \E d \in IF entry = 0 THEN {"none"} ELSE severActive(mem[entry]) :
       LET left == IF entry = 0 THEN mem ELSE [mem EXCEPT ![entry] = Sever(@, d)]
       IN mem' = [k \in Id |-> IF left[k].done = "none" THEN left[k] ELSE NoMember]
  /\ entry' = 0 /\ vol' = "nil" /\ body' = NoBody /\ staged' = NoHeader
  /\ r' = FreshReader /\ win' = FreshWindow /\ ret' = "none"
  /\ archive' \in {a \in Archives(archive.blocks) : a.listing = archive.listing}
  /\ ghost' = [FreshGhost EXCEPT !.foreign = ghost.foreign]
  /\ UNCHANGED <<pc, draining, reading>>

-----------------------------------------------------------------------------
(* Entry.Read, the decoder below it, and the splicer below that. *)

me == mem[reading]

(* A caller's Read returns; the drain reads again. *)
Returns ==
  /\ pc' = IF draining THEN "read" ELSE "idle"
  /\ reading' = IF draining THEN reading ELSE 0

Ends(v) == mem' = [mem EXCEPT ![reading] = Finished(@, v)] /\ Returns

(* n units reach the caller; the last one brings the verdict. *)
Delivers(n) ==
  LET e == [me EXCEPT !.left = @ - n]
  IN /\ \E v \in IF short(e) THEN {"none"} ELSE verifyChecksum(e) :
          mem' = [mem EXCEPT ![reading] = IF v = "none" THEN e ELSE Finished(e, v)]
     /\ Returns

(* Units the member's source can still give: v.body of the volume it was    *)
(* built on, which an advance leaves behind.                                *)
InReach == IF me.src = r.volIndex /\ vol # "nil" THEN body.have ELSE 0

Spend == /\ body' = [body EXCEPT !.n = @ - 1, !.have = @ - 1]
         /\ ghost' = [ghost EXCEPT !.foreign = @ \/ body.owner # reading]

(* Nothing is owed: an empty member, or one whose last unit is out. *)
ReadDone ==
  /\ pc = "read" /\ me.done = "none" /\ ~short(me)
  /\ \E v \in verifyChecksum(me) : Ends(v)
  /\ UNCHANGED <<draining, vol, body, staged, entry, win, r, ret, archive, ghost>>

ReadStored ==
  /\ pc = "read" /\ me.done = "none" /\ short(me) /\ ~me.comp
  /\ InReach > 0
  /\ Delivers(1) /\ Spend
  /\ UNCHANGED <<draining, vol, staged, entry, win, r, ret, archive>>

(* decoder50.Read serves the window first and fills it when it is empty. *)
ReadWindow ==
  /\ pc = "read" /\ me.done = "none" /\ short(me) /\ me.comp
  /\ IF win.avail > 0
     THEN \E n \in 1 .. me.left :
            /\ n <= win.avail
            /\ Delivers(n)
            /\ win' = [win EXCEPT !.avail = @ - n]
     ELSE pc' = "fill" /\ UNCHANGED <<reading, mem, win>>
  /\ UNCHANGED <<draining, vol, body, staged, entry, r, ret, archive, ghost>>

(* The decoder takes a unit of payload and writes what it decodes to. *)
FillUnit ==
  /\ pc = "fill" /\ InReach > 0
  /\ Spend
  /\ win' = [win EXCEPT !.avail = @ + 1]
  /\ mem' = [mem EXCEPT ![reading].lack = IF @ = 0 THEN 0 ELSE @ - 1]
  /\ UNCHANGED <<pc, draining, reading, vol, staged, entry, r, ret, archive>>

(* fill returns: its target is met, the stream says it is over, or it ran   *)
(* out of data. With bytes in the window the last two are not reported;     *)
(* with none they are io.EOF, and the member is short. Any other error is   *)
(* the member's verdict at once.                                            *)
EndOfData ==
  \/ win.avail > 0 /\ pc' = "read" /\ UNCHANGED <<mem, reading>>
  \/ Ends("failed")

FillReturns ==
  /\ pc = "fill" /\ EndOfData
  /\ UNCHANGED <<draining, vol, body, staged, entry, win, r, ret, archive, ghost>>

(* What the reader above the splicer makes of io.EOF. *)
SourceEnds == IF me.comp THEN EndOfData ELSE Ends("failed")

AtSource == /\ pc = "fill" \/ (pc = "read" /\ ~me.comp)
            /\ me.done = "none" /\ short(me) /\ InReach = 0

(* The block's payload is spent: the member's end, a volume cut inside it,  *)
(* or a boundary. bodyShort asks r.vol, whatever block it stands on.        *)
ShortOnlyAtSource == me.src = r.volIndex /\ vol # "nil" /\ body.n > 0
bodyShort == vol # "nil" /\ body.n > 0

PayloadSpent ==
  /\ AtSource
  /\ \/ /\ me.last /\ SourceEnds
        /\ UNCHANGED <<vol, body>>
     \/ /\ ~me.last /\ bodyShort /\ Ends("failed")
        /\ UNCHANGED <<vol, body>>
     \/ /\ ~me.last /\ ~bodyShort
        /\ pc' = "splice" /\ vol' = "nil" /\ body' = NoBody
        /\ UNCHANGED <<mem, reading>>
  /\ UNCHANGED <<draining, staged, entry, win, r, ret, archive, ghost>>

-----------------------------------------------------------------------------
(* Opening a volume: openNextVolume, from the scan or from the splice. *)

WantsVolume == vol = "nil" /\ (pc = "splice" \/ (pc = "scan" /\ staged = NoHeader))

(* An error of the archive: the scan returns it, the splice makes it the    *)
(* member's verdict, and either way it is latched.                          *)
ArchiveFails(rr) ==
  /\ r' = [rr EXCEPT !.fatal = TRUE]
  /\ \/ pc = "scan" /\ pc' = "idle" /\ ret' = "fatal" /\ UNCHANGED <<mem, reading>>
     \/ pc = "splice" /\ Ends("failed") /\ UNCHANGED ret

(* The channel is closed. For the scan that is the end of the archive, and  *)
(* damage or a late start is reported in io.EOF's place.                    *)
EndOfArchive == IF r.damaged THEN "damaged" ELSE IF r.late THEN "notFirst" ELSE "eof"

NoNextVolume ==
  /\ WantsVolume
  /\ archive' = [archive EXCEPT !.closed = TRUE]
  /\ \/ /\ pc = "scan" /\ pc' = "idle" /\ ret' = EndOfArchive
        /\ r' = [r EXCEPT !.fatal = @ \/ EndOfArchive # "eof"]
        /\ UNCHANGED <<mem, reading>>
     \/ pc = "splice" /\ Ends("failed") /\ UNCHANGED <<r, ret>>
  /\ UNCHANGED <<draining, vol, body, staged, entry, win, ghost>>

(* A stream arrives, perhaps not the next one of the set: it opens, it is   *)
(* cut inside its signature and passed over, or it is not of this archive.  *)
OpenNextVolume ==
  /\ WantsVolume /\ ~archive.closed /\ r.volIndex < MaxVolumes
  /\ LET rr == [r EXCEPT !.volIndex = @ + 1]
     IN \E gap \in {g \in 0 .. Bound.skipped - archive.skipped : r.volIndex = 0 => g = 0} :
        /\ archive' = [archive EXCEPT !.skipped = @ + gap]
        /\ \/ /\ vol' = "open" /\ r' = rr
              /\ UNCHANGED <<pc, reading, mem, ret, ghost>>
           \/ /\ r' = [rr EXCEPT !.damaged = TRUE]
              /\ ghost' = [ghost EXCEPT !.cut = TRUE]
              /\ UNCHANGED <<pc, reading, mem, ret, vol>>
           \/ ArchiveFails(rr) /\ UNCHANGED <<vol, ghost>>
  /\ UNCHANGED <<draining, body, staged, entry, win>>

-----------------------------------------------------------------------------
(* volume.next, for both loops: skip what is left of the block, read the    *)
(* following header.                                                        *)

AtHeader == vol = "open" /\ (pc = "splice" \/ (pc = "scan" /\ staged = NoHeader))

(* The volume is spent, cleanly or where nobody can vouch for it; either    *)
(* loop closes it and goes for the next one.                                *)
RecordsInScanOnly == pc = "scan"
RecordsDamage == TRUE

Spent(cut) ==
  /\ vol' = "nil" /\ body' = NoBody
  /\ r' = [r EXCEPT !.damaged = @ \/ (cut /\ RecordsDamage)]
  /\ UNCHANGED <<pc, draining, reading, staged, entry, mem, win, ret, archive>>

(* Cut inside the payload of the block before. *)
CutInPayload ==
  /\ AtHeader /\ body.have < body.n
  /\ Spent(TRUE)
  /\ ghost' = [ghost EXCEPT !.cut = TRUE]

(* Cut inside a header, which may have been a compressed member's. *)
CutInHeader ==
  /\ AtHeader /\ body.have = body.n
  /\ Spent(TRUE)
  /\ \E lost \in BOOLEAN :
       ghost' = [ghost EXCEPT !.cut = TRUE, !.torn = @ \/ lost]

(* The stream ends on a block boundary, without an end header. *)
EndOfVolume ==
  /\ AtHeader /\ body.have = body.n
  /\ Spent(FALSE)
  /\ ghost' = [ghost EXCEPT !.unended = @ \/ archive.numbered]

(* Any other failure, a header's checksum say, sticks to the volume. *)
BadHeader ==
  /\ \/ AtHeader /\ body.have = body.n
     \/ vol = "failed" /\ pc = "scan" /\ staged = NoHeader
  /\ vol' = "failed"
  /\ ArchiveFails(r)
  /\ UNCHANGED <<draining, body, staged, entry, win, archive, ghost>>

(* A further block header. *)
Block ==
  /\ AtHeader /\ body.have = body.n /\ archive.blocks < MaxHeaders
  /\ archive' = [archive EXCEPT !.blocks = @ + 1]

-----------------------------------------------------------------------------
(* handleNonFileBlock, for both loops. *)

(* The archive header fails to parse, says this stream is not the set's     *)
(* first volume, or contradicts an earlier volume's on solidity.            *)
Agrees(solid) == r.solidSeen => r.solid = solid
StartsMidSet == r.volIndex = 1 /\ archive.start > 0 /\ ~archive.rar4 /\ ~archive.listing

ArchiveHeader ==
  /\ Block
  /\ \E solid \in BOOLEAN :
       \/ ArchiveFails(r)
       \/ /\ ~StartsMidSet /\ Agrees(solid)
          /\ r' = [r EXCEPT !.solid = solid, !.solidSeen = TRUE]
          /\ UNCHANGED <<pc, reading, mem, ret>>
  /\ body' = NoBody
  /\ UNCHANGED <<draining, vol, staged, entry, win, ghost>>

(* A header encryption block arms the decryption or ends the archive; a     *)
(* service block means nothing here.                                        *)
OtherHeader ==
  /\ Block
  /\ \/ ArchiveFails(r)
     \/ UNCHANGED <<pc, reading, mem, ret, r>>
  /\ \E b \in Payload : body' = [n |-> b.n, have |-> b.have, owner |-> archive.blocks + 1]
  /\ UNCHANGED <<draining, vol, staged, entry, win, ghost>>

(* The end header closes the volume. A RAR 1.5-4.x one may number it; the   *)
(* first number the scan itself meets, between members, tells where the     *)
(* set started, if no volume can have gone missing since.                   *)
volumeNumber == archive.start + archive.skipped + r.volIndex - 1
JudgesNumber == archive.rar4 /\ archive.numbered /\ ~r.endSeen /\ entry = 0

EndHeader ==
  /\ Block
  /\ r' = IF ~JudgesNumber THEN r
          ELSE [r EXCEPT !.endSeen = TRUE,
                         !.late = /\ volumeNumber > r.volIndex - 1
                                  /\ r.volIndex = 1 \/ ~r.memberFailed
                                  /\ ~archive.listing]
  /\ vol' = "nil" /\ body' = NoBody
  /\ UNCHANGED <<pc, draining, reading, staged, entry, mem, win, ret, ghost>>

-----------------------------------------------------------------------------
(* File headers. *)

(* A RAR5 link is one block without payload, or its header does not parse. *)
Parses(h, b) == h.kind = "link" /\ ~archive.rar4 => h.last /\ b.n = 0

(* The compressed members a solid successor's back-references may reach:    *)
(* every one since the last member that starts a history of its own.        *)
Restarts(h) == h.first /\ h.kind # "link" /\ ~h.solid

Seen(h, continues) ==
  [ghost EXCEPT
     !.run = (IF Restarts(h) THEN {} ELSE @)
             \cup (IF h.comp /\ h.kind # "link" /\ ~continues THEN {h.id} ELSE {}),
     !.torn = @ /\ ~Restarts(h),
     !.owed = @ \cup (IF h.first /\ h.kind # "nameless" THEN {h.id} ELSE {})]

(* NextEntry returns a member, unless something below the scan latched an   *)
(* error of the archive meanwhile.                                          *)
WithholdsNothing == FALSE
Withholds == r.fatal

Hands(h, g) ==
  /\ pc' = "idle"
  /\ ghost' = IF Withholds THEN g ELSE [g EXCEPT !.owed = @ \ {h.id}]
  /\ ret' = IF Withholds THEN "fatal" ELSE "entry"

MarkIncomplete(w) == [w EXCEPT !.incomplete = TRUE]

(* terminalEntry: refused, by name; its content never reaches the window. *)
Refuses(h, w, g) ==
  /\ Hands(h, g)
  /\ mem' = [mem EXCEPT ![h.id].done = "failed"]
  /\ win' = MarkIncomplete(w)
  /\ UNCHANGED entry

(* BeginFile, which a RAR 1.5-4.x member never reaches. *)
BeginFile(h) ==
  IF archive.rar4 THEN win
  ELSE [avail |-> 0, incomplete |-> h.solid /\ win.incomplete]
SolidStreamBroken(h) == ~archive.rar4 /\ h.solid /\ win.incomplete

Admits(h, g) ==
  /\ Hands(h, g)
  /\ entry' = h.id
  /\ mem' = [mem EXCEPT ![h.id] =
              [empty |-> h.size = 0, left |-> h.size, lack |-> IF h.comp THEN h.size ELSE 0,
               last |-> h.last, comp |-> h.comp, src |-> r.volIndex,
               held |-> ~Withholds, skips |-> archive.skipped, gapped |-> FALSE,
               done |-> "none"]]
  /\ win' = BeginFile(h)

(* Refusals dispatch makes before it looks at the window. *)
NotAdmitted(h) ==
  h.kind = "refused" \/ (archive.rar4 /\ h.comp) \/ (h.solid /\ ~r.solid)

(* A RAR5 link is handed out as it is. The target of a RAR 1.5-4.x symlink  *)
(* is the payload, read at once: it has to be whole, unsplit and match its  *)
(* checksum. Neither touches the window.                                    *)
readLinkTarget4(h) ==
  {"failed"} \cup (IF h.last /\ body'.n > 0 /\ body'.have = body'.n THEN {"none"} ELSE {})

HandsLink(h, g) ==
  /\ Hands(h, g)
  /\ \E v \in IF archive.rar4 THEN readLinkTarget4(h) ELSE {"none"} :
       mem' = [mem EXCEPT ![h.id].done = v]
  /\ UNCHANGED <<entry, win>>

(* A file header in the scan; g is the history with this header in it. *)
Dispatch(h, g) ==
  /\ r' = [r EXCEPT !.fileSeen = TRUE]
  /\ IF ~h.first \/ h.kind = "nameless"
     THEN win' = MarkIncomplete(win) /\ ghost' = g /\ UNCHANGED <<pc, ret, mem, entry>>
     ELSE IF h.kind = "bad" THEN Refuses(h, win, g)
     ELSE IF archive.listing THEN Hands(h, g) /\ UNCHANGED <<mem, entry, win>>
     ELSE IF NotAdmitted(h) THEN Refuses(h, win, g)
     ELSE IF h.kind = "link" /\ (archive.rar4 => vol # "nil") THEN HandsLink(h, g)
     ELSE IF h.kind # "link" /\ SolidStreamBroken(h) THEN Refuses(h, win, g)
     ELSE IF vol = "nil"
     THEN pc' = "panic" /\ ghost' = g /\ UNCHANGED <<ret, mem, entry, win>>
     ELSE IF h.kind = "nokey" THEN Refuses(h, BeginFile(h), g)
     ELSE Admits(h, g)

(* The first file block of the stream continues a member nobody has seen. *)
LeadingContinuation(h) == ~r.fileSeen /\ ~r.damaged /\ ~h.first /\ ~archive.listing

ScanFile ==
  /\ pc = "scan" /\ Block
  /\ \E h \in NewMember(archive.blocks + 1) \cup Continuation(archive.blocks + 1), b \in Payload :
       /\ Parses(h, b)
       /\ body' = [n |-> b.n, have |-> b.have, owner |-> h.id]
       /\ IF LeadingContinuation(h)
          THEN /\ ArchiveFails([r EXCEPT !.fileSeen = TRUE])
               /\ ghost' = Seen(h, FALSE)
               /\ UNCHANGED <<entry, win>>
          ELSE Dispatch(h, Seen(h, FALSE)) /\ UNCHANGED reading
  /\ UNCHANGED <<draining, vol, staged>>

(* The header the splice met and left for the scan. *)
ScanStaged ==
  /\ pc = "scan" /\ staged # NoHeader
  /\ UNCHANGED <<draining, reading, vol, body, archive>>
  /\ Dispatch(staged, ghost) /\ staged' = NoHeader

(* A file header in the splice: a new member ends the one in progress and   *)
(* is staged; a continuation must be this member's own.                     *)
DropsNewMember(h) == NoHeader
Stages(h) == h
IsOwnPart(h) == ~h.first /\ h.kind = "same"

advanceVolume(e, h) ==
  [e EXCEPT !.last = h.last, !.src = r.volIndex, !.gapped = @ \/ archive.skipped # e.skips]

NextVolumePayload ==
  /\ pc = "splice" /\ Block
  /\ \E h \in NewMember(archive.blocks + 1) \cup Continuation(archive.blocks + 1), b \in Payload :
       /\ Parses(h, b)
       /\ body' = [n |-> b.n, have |-> b.have,
                   owner |-> IF h.kind = "same" THEN reading ELSE h.id]
       /\ ghost' = Seen(h, h.kind = "same")
       /\ \/ /\ h.first /\ h.kind # "nameless" /\ (b.n > 0 \/ Bound.stagedEmpty)
             /\ staged' = Stages(h) /\ SourceEnds
          \/ /\ h.kind = "nameless" \/ (~h.first /\ ~IsOwnPart(h))
             /\ Ends("failed") /\ UNCHANGED staged
          \/ /\ IsOwnPart(h)
             /\ mem' = [mem EXCEPT ![reading] = advanceVolume(@, h)]
             /\ pc' = IF me.comp THEN "fill" ELSE "read"
             /\ UNCHANGED <<staged, reading>>
  /\ UNCHANGED <<draining, vol, entry, win, r, ret>>

-----------------------------------------------------------------------------
Next ==
  \/ NextEntry \/ ReadEntry \/ Drained \/ Reset
  \/ ReadDone \/ ReadStored \/ ReadWindow \/ FillUnit \/ FillReturns \/ PayloadSpent
  \/ NoNextVolume \/ OpenNextVolume
  \/ CutInPayload \/ CutInHeader \/ EndOfVolume \/ BadHeader
  \/ ArchiveHeader \/ OtherHeader \/ EndHeader
  \/ ScanFile \/ ScanStaged \/ NextVolumePayload

Spec == Init /\ [][Next]_vars

-----------------------------------------------------------------------------
(* Correctness. *)

(* A header the splice read and left for the scan is still the block its    *)
(* volume stands on, as the comment on Reader.staged requires: dispatch     *)
(* will take that volume's payload for the staged member's.                 *)
StagedKeepsVolume ==
  staged # NoHeader => vol # "nil" /\ body.owner = staged.id

(* No Entry delivers a unit of another member's payload, however late the   *)
(* caller reads it: severActive, the splice's identity checks.              *)
OwnUnitsOnly == ~ghost.foreign

(* io.EOF from NextEntry means every member whose name was read, by the     *)
(* scan or by the splice, has been handed to the caller.                    *)
EveryMemberHandedOut == ret = "eof" => ghost.owed = {}

(* NextEntry ends with io.EOF only if no volume was found cut, wherever the *)
(* cut was met, and reports damage only if one was, of this archive and not *)
(* of one before the Reset.                                                 *)
CutIsReported ==
  /\ ret = "eof" => ~ghost.cut
  /\ ret = "damaged" => ghost.cut

(* RAR 1.5-4.x end headers make NextEntry accuse the set of not starting at *)
(* its first volume only when it does not, even when a volume is missing in *)
(* the middle, unless a volume lost its end header.                         *)
LateStartIsReal == ret = "notFirst" => archive.start > 0 \/ ghost.unended

(* What a solid member's back-references reach was all decoded, and no      *)
(* member of it failed.                                                     *)
Whole(k) == mem[k].lack = 0 /\ mem[k].done \in {"eof", "unchecked"}

Begins(m) == entry # m /\ entry' = m

(* A compressed solid member is decoded only on whole history: BeginFile    *)
(* and everything that calls MarkIncomplete.                                *)
SolidNeedsWholeHistory ==
  [][\A m \in Id : Begins(m) /\ mem'[m].comp => \A k \in ghost'.run \ {m} : Whole(k)]_vars

(* And not after a volume cut inside the header of a compressed member.     *)
SolidRefusedAfterCut ==
  [][\A m \in Id : Begins(m) /\ mem'[m].comp => ~ghost'.torn]_vars

(* Nothing is handed out once an error of the archive is latched, also when *)
(* finishActive's drain met it inside this very call.                       *)
NothingAfterFatal == [][ret # "entry" /\ ret' = "entry" => ~r'.fatal]_vars

=============================================================================
