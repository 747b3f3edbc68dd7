----------------------------- MODULE VolumeChain -----------------------------
(***************************************************************************)
(* The volume chain of a Reader: how the streams a caller sends on the     *)
(* volumes channel are received, opened, published as r.vol and closed,    *)
(* while Reader.Close runs on other goroutines and Reset revives the       *)
(* Reader for the next archive (reader.go, volume.go, splice.go).          *)
(*                                                                         *)
(* One action is one critical section of volMu, one channel operation, or  *)
(* one call into the caller's stream: these are the points where another   *)
(* goroutine can interleave.                                               *)
(*                                                                         *)
(* A decision a bug would get wrong is an operator of its own, preceded by *)
(* a mutant of it that no action uses.                                     *)
(*                                                                         *)
(* Abstracted: the contents of a volume (a header scan ends in one of the  *)
(* outcomes the scan loops distinguish), the member's bytes, of which only *)
(* is kept whether any are still owed, and the decode workers, of which    *)
(* only the stop latch is.                                                 *)
(***************************************************************************)
EXTENDS Naturals

CONSTANTS
  Archives,  (* how many archives the Reader serves: NewReader, then Resets *)
  Volumes,   (* bound: streams a producer sends on one archive's channel    *)
  Closers,   (* goroutines that may call Reader.Close                       *)
  None       (* the nil *volume, io.Closer or io.ReadCloser                 *)

Archive == 1 .. Archives

(* Stream <<g, i>> is the i-th element sent on the channel of archive g.    *)
Stream == Archive \X (1 .. Volumes)

ASSUME ChainAssumption ==
  /\ Archives \in Nat \ {0}
  /\ Volumes \in Nat
  /\ None \notin Stream

(* Why an error was met: "stream" is what the archive's own bytes said,     *)
(* "close" an error read out of a stream that Reader.Close had closed.      *)
Cause == {"nil", "stream", "close"}

Error   == {"nil", "closed", "novolume", "archive", "member"}
Verdict == {"none", "bytes", "entry", "eof", "closed", "novolume",
            "damaged", "archive", "member"}
Format  == {"none", "rar5", "rar4"}

(* The member in progress. "open": it still owes bytes and has no verdict;  *)
(* "whole": every byte it declared has been produced; "short": its verdict  *)
(* was recorded while it owed some.                                         *)
Member == {"nil", "open", "whole", "short"}

(* The traversal goroutine's position. *)
TravPC == {"idle", "finish", "body", "scan", "take", "closePrev", "select",
           "stage", "refused", "sig", "unstage", "dropRc", "dropV",
           "publish", "ret", "verdict",
           "rClose", "rDrain", "rSwap", "rRestart", "rClear"}
ClosePC == {"idle", "stop", "vol", "staged", "drain"}

VARIABLES
  sent,     (* sent[g]: streams the producer has put on channel g           *)
  recvd,    (* recvd[g]: streams taken off channel g                        *)
  ended,    (* archives whose channel the producer has closed               *)
  nils,     (* the sent elements that are a nil io.ReadCloser               *)
  arch,     (* the archive in force: indexes r.volumes and r.done           *)
  done,     (* archives whose r.done is closed                              *)
  vol,      (* r.vol                                                        *)
  staging,  (* r.staging                                                    *)
  closed,   (* closed[s]: calls of the caller's Close on stream s           *)
  once,     (* streams whose volume's closeOnce has fired                   *)
  pipe,     (* decoder50.pipeStopped: "armed" or "stopped"                  *)
  fmt,      (* r.rar4 and r.formatSeen                                      *)
  damaged,  (* r.damaged, by cause                                          *)
  fatal,    (* r.fatal, by cause                                            *)
  entry,    (* r.entry, with what its remaining and done fields tell        *)
  pc, call, (* the traversal: its position, and the exported call it is in  *)
  mine,     (* the stream only the traversal's locals (prev, rc, v) hold    *)
  sig,      (* what openVolume reported                                     *)
  err, why, (* the error travelling up, and its cause                       *)
  verdict, blame, (* what the last call returned, and the cause behind it   *)
  cpc, cvol, cstaged, carch, (* each Close: position, v, staged, volumes    *)
  drained   (* ghost: streams closed while still queued, by a drain         *)

producer == <<sent, ended, nils>>
closers  == <<cpc, cvol, cstaged, carch>>
result   == <<verdict, blame>>
archive  == <<fmt, damaged, fatal>>
vars == <<producer, recvd, arch, done, vol, staging, closed, once, pipe,
          archive, entry, pc, call, mine, sig, err, why, result,
          closers, drained>>

TypeOK ==
  /\ sent \in [Archive -> 0 .. Volumes]
  /\ recvd \in [Archive -> 0 .. Volumes]
  /\ \A g \in Archive : recvd[g] <= sent[g]
  /\ ended \subseteq Archive /\ done \subseteq Archive
  /\ nils \subseteq Stream /\ once \subseteq Stream /\ drained \subseteq Stream
  /\ arch \in Archive
  /\ vol \in Stream \cup {None} /\ staging \in Stream \cup {None}
  /\ mine \in Stream \cup {None}
  /\ closed \in [Stream -> Nat]
  /\ pipe \in {"armed", "stopped"} /\ entry \in Member
  /\ fmt \in Format /\ sig \in Format \cup {"short", "bad"}
  /\ damaged \in Cause /\ fatal \in Cause /\ why \in Cause /\ blame \in Cause
  /\ pc \in TravPC /\ call \in {"NextEntry", "Read", "drain"}
  /\ err \in Error /\ verdict \in Verdict
  /\ cpc \in [Closers -> ClosePC]
  /\ cvol \in [Closers -> Stream \cup {None}]
  /\ cstaged \in [Closers -> Stream \cup {None}]
  /\ carch \in [Closers -> Archive]

Init ==
  /\ sent = [g \in Archive |-> 0] /\ recvd = [g \in Archive |-> 0]
  /\ ended = {} /\ nils = {} /\ arch = 1 /\ done = {}
  /\ vol = None /\ staging = None /\ mine = None
  /\ closed = [s \in Stream |-> 0] /\ once = {} /\ drained = {}
  /\ pipe = "armed" /\ entry = "nil"
  /\ fmt = "none" /\ sig = "none"
  /\ damaged = "nil" /\ fatal = "nil" /\ why = "nil" /\ blame = "nil"
  /\ pc = "idle" /\ call = "NextEntry" /\ err = "nil" /\ verdict = "none"
  /\ cpc = [c \in Closers |-> "idle"]
  /\ cvol = [c \in Closers |-> None] /\ cstaged = [c \in Closers |-> None]
  /\ carch = [c \in Closers |-> 1]

-----------------------------------------------------------------------------
(* Helpers *)

(* chanClosed(r.done) for the archive in force, read under volMu. *)
isClosed == arch \in done

(* rc.Close() on the caller's stream. *)
CloseStream(s) == closed' = [closed EXCEPT ![s] = @ + 1]

(* volume.Close: the caller's Close runs inside closeOnce. *)
VolumeClose(s) ==
  /\ once' = once \cup {s}
  /\ closed' = IF s \in once THEN closed ELSE [closed EXCEPT ![s] = @ + 1]

(* The cause of an error read from stream s. *)
CauseOf(s) == IF closed[s] > 0 THEN "close" ELSE "stream"

(* One receive of drainVolumes on channel g: take the element, close it     *)
(* unless it is nil.                                                        *)
DrainOne(g) ==
  LET s == <<g, recvd[g] + 1>>
  IN  /\ recvd[g] < sent[g]
      /\ recvd' = [recvd EXCEPT ![g] = @ + 1]
      /\ IF s \in nils
         THEN UNCHANGED <<closed, drained>>
         ELSE CloseStream(s) /\ drained' = drained \cup {s}

(* The select's default arm, and its !ok arm: nothing is queued on g. *)
DrainDry(g) == recvd[g] = sent[g]

(* Everything that belongs to other goroutines or to no step of the scan. *)
others == <<producer, arch, done, pipe, closers, drained>>

-----------------------------------------------------------------------------
(* The producer: the caller's code, which may send or close at any time     *)

Send(g) ==
  /\ g \notin ended /\ sent[g] < Volumes
  /\ sent' = [sent EXCEPT ![g] = @ + 1]
  /\ nils' \in {nils, nils \cup {<<g, sent[g] + 1>>}}
  /\ UNCHANGED <<ended, recvd, arch, done, vol, staging, closed, once, pipe,
                 archive, entry, pc, call, mine, sig, err, why, result,
                 closers, drained>>

CloseChannel(g) ==
  /\ g \notin ended
  /\ ended' = ended \cup {g}
  /\ UNCHANGED <<sent, nils, recvd, arch, done, vol, staging, closed, once,
                 pipe, archive, entry, pc, call, mine, sig, err, why,
                 result, closers, drained>>

-----------------------------------------------------------------------------
(* Exported calls: NextEntry, and the reads of a member (Entry.Read,        *)
(* Entry.Close) that reach the splice                                       *)

(* NextEntry's head: the closed check, then the fatal latch, then the scan. *)
NextEntry ==
  /\ pc = "idle"
  /\ call' = "NextEntry"
  /\ IF isClosed
     THEN pc' = "idle" /\ verdict' = "closed" /\ blame' = "nil"
     ELSE IF fatal # "nil"
          THEN pc' = "idle" /\ verdict' = "archive" /\ blame' = fatal
          ELSE pc' = "finish" /\ verdict' = "none" /\ blame' = "nil"
  /\ UNCHANGED <<others, recvd, vol, staging, closed, once, archive, entry,
                 mine, sig, err, why>>

(* finishActive: a solid archive drains the member in progress, any other   *)
(* severs it without reading.                                               *)
FinishActive ==
  /\ pc = "finish"
  /\ \/ pc' = "scan" /\ entry' = "nil" /\ UNCHANGED call
     \/ entry = "open" /\ call' = "drain" /\ pc' = "body" /\ UNCHANGED entry
  /\ UNCHANGED <<others, recvd, vol, staging, closed, once, archive,
                 mine, sig, err, why, result>>

(* Entry.Read on the member in progress: refused on a closed done channel   *)
(* before the stream is touched, which is the member's verdict (e.done). A  *)
(* member that is whole, or has its verdict, answers above that check and   *)
(* reads nothing: no step.                                                  *)
ReadMember ==
  /\ pc = "idle" /\ entry = "open"
  /\ call' = "Read"
  /\ IF isClosed
     THEN /\ pc' = "idle" /\ entry' = "short"
          /\ verdict' = "closed" /\ blame' = "nil"
     ELSE /\ pc' = "body" /\ UNCHANGED entry
          /\ verdict' = "none" /\ blame' = "nil"
  /\ UNCHANGED <<others, recvd, vol, staging, closed, once, archive,
                 mine, sig, err, why>>

(* The call returned something that is not an archive-level error, leaving  *)
(* the member as e. A drain that has got all it wanted goes on with the     *)
(* scan; finishActive clears r.entry whatever the drain said.               *)
ReturnFromMember(v, cause, e) ==
  IF call = "drain"
  THEN /\ pc' = "scan" /\ call' = "NextEntry" /\ entry' = "nil"
       /\ UNCHANGED result
  ELSE /\ pc' = "idle" /\ verdict' = v /\ blame' = cause /\ entry' = e
       /\ UNCHANGED call

(* multiVolumePayloadReader.Read under Entry.Read: bytes, the member's last *)
(* perhaps; the end of this part, which sends the splice to                 *)
(* nextVolumePayload; or a failure inside the declared payload, which is    *)
(* the member's own and is not latched. An io.Reader may hand out bytes     *)
(* beside its error, and those too may be the last the member owes.         *)
Body ==
  /\ pc = "body"
  /\ \/ /\ \E e \in {"open", "whole"} : ReturnFromMember("bytes", "nil", e)
        /\ UNCHANGED <<err, why>>
     \/ pc' = "take" /\ UNCHANGED <<call, entry, err, why, result>>
     \/ /\ vol # None
        /\ pc' = "verdict" /\ err' = "member" /\ why' = CauseOf(vol)
        /\ entry' \in {"open", "whole"}
        /\ UNCHANGED <<call, result>>
  /\ UNCHANGED <<others, recvd, vol, staging, closed, once, archive, mine, sig>>

(* The header scan of nextEntry and of nextVolumePayload over the open      *)
(* volume: a member (or continuation), a spent volume, a cut one, or an     *)
(* error that is neither.                                                   *)
ScanOpens ==
  /\ pc = "scan" /\ vol = None
  /\ pc' = "take"
  /\ UNCHANGED <<others, recvd, vol, staging, closed, once, archive, entry,
                 call, mine, sig, err, why, result>>

(* NextEntry re-reads the latch before it hands out what the scan found: a  *)
(* member that owes bytes, one that declares none, or one that is refused   *)
(* or only listed, which is never r.entry.                                  *)
(* The splice goes on with a continuation, and ends the member short on any *)
(* other file header.                                                       *)
ScanFinds ==
  /\ pc = "scan" /\ vol # None
  /\ IF call = "NextEntry"
     THEN /\ pc' = "idle" /\ UNCHANGED call
          /\ verdict' = IF fatal # "nil" THEN "archive" ELSE "entry"
          /\ blame' = fatal
          /\ entry' \in {"nil", "open", "whole"}
          /\ UNCHANGED <<err, why>>
     ELSE /\ \/ pc' = "body" /\ UNCHANGED <<err, why>>
             \/ pc' = "verdict" /\ err' = "member" /\ why' = CauseOf(vol)
          /\ UNCHANGED <<call, entry, result>>
  /\ UNCHANGED <<others, recvd, vol, staging, closed, once, archive, mine, sig>>

ScanSpends ==
  /\ pc = "scan" /\ vol # None
  /\ pc' = "take"
  /\ damaged' \in {damaged, CauseOf(vol)}
  /\ UNCHANGED <<others, recvd, vol, staging, closed, once, fmt, fatal, entry,
                 call, mine, sig, err, why, result>>

ScanFails ==
  /\ pc = "scan" /\ vol # None
  /\ pc' = "ret" /\ err' = "archive" /\ why' = CauseOf(vol)
  /\ UNCHANGED <<others, recvd, vol, staging, closed, once, archive, entry,
                 call, mine, sig, result>>

-----------------------------------------------------------------------------
(* nextVolume, one critical section or blocking operation at a time         *)

(* takeVolume. closeCurrentVolume is the same step followed by the same     *)
(* close, after which the scan comes back here with r.vol nil.              *)
TakeVolume ==
  /\ pc = "take"
  /\ vol' = None /\ mine' = vol
  /\ pc' = IF vol = None THEN "select" ELSE "closePrev"
  /\ UNCHANGED <<others, recvd, staging, closed, once, archive, entry,
                 call, sig, err, why, result>>

ClosePrev ==
  /\ pc = "closePrev"
  /\ VolumeClose(mine) /\ mine' = None /\ pc' = "select"
  /\ UNCHANGED <<others, recvd, vol, staging, archive, entry,
                 call, sig, err, why, result>>

(* A stream is there to receive. *)
ReceivesStream == recvd[arch] < sent[arch]

(* The select of nextVolume: Go picks either ready case. A nil element is   *)
(* an error of its own.                                                     *)
Receive ==
  LET s == <<arch, recvd[arch] + 1>>
  IN  /\ pc = "select" /\ ReceivesStream
      /\ recvd' = [recvd EXCEPT ![arch] = @ + 1]
      /\ IF s \in nils
         THEN pc' = "ret" /\ err' = "archive" /\ why' = "stream" /\ UNCHANGED mine
         ELSE pc' = "stage" /\ mine' = s /\ UNCHANGED <<err, why>>
      /\ UNCHANGED <<others, vol, staging, closed, once, archive, entry,
                     call, sig, result>>

ReceiveEnd ==
  /\ pc = "select" /\ arch \in ended /\ recvd[arch] = sent[arch]
  /\ pc' = "ret" /\ err' = "novolume" /\ why' = "nil"
  /\ UNCHANGED <<others, recvd, vol, staging, closed, once, archive, entry,
                 call, mine, sig, result>>

ReceiveDone ==
  /\ pc = "select" /\ isClosed
  /\ pc' = "ret" /\ err' = "closed" /\ why' = "nil"
  /\ UNCHANGED <<others, recvd, vol, staging, closed, once, archive, entry,
                 call, mine, sig, result>>

(* stage: refused under the lock once Close has taken its snapshot. *)
Stage ==
  /\ pc = "stage"
  /\ IF isClosed THEN pc' = "refused" /\ UNCHANGED staging
                 ELSE pc' = "sig" /\ staging' = mine
  /\ UNCHANGED <<others, recvd, vol, closed, once, archive, entry,
                 call, mine, sig, err, why, result>>

CloseRefused ==
  /\ pc = "refused"
  /\ CloseStream(mine) /\ mine' = None
  /\ pc' = "ret" /\ err' = "closed" /\ why' = "nil"
  /\ UNCHANGED <<others, recvd, vol, staging, once, archive, entry,
                 call, sig, result>>

(* openVolume: readSignature on the caller's stream, which may stall. A     *)
(* stream closed underneath it may answer anything, a short read included.  *)
ReadSignature ==
  /\ pc = "sig"
  /\ pc' = "unstage"
  /\ sig' \in {"rar5", "rar4", "short", "bad"}
  /\ why' = CauseOf(mine)
  /\ UNCHANGED <<others, recvd, vol, staging, closed, once, archive, entry,
                 call, mine, err, result>>

(* unstage's answer: Close took the stream out of r.staging. The mutant     *)
(* looks at the error first.                                                *)
ClaimedIfOpened == staging = None /\ sig \notin {"short", "bad"}
ClaimedByClose == staging = None

(* unstage, tested before the error: a stream Close claimed is Close's to   *)
(* close, and the verdict is cancellation whatever openVolume said. Then    *)
(* the format check against the first volume's.                             *)
Unstage ==
  /\ pc = "unstage"
  /\ staging' = None
  /\ IF ClaimedByClose
     THEN /\ mine' = None /\ pc' = "ret" /\ err' = "closed" /\ why' = "nil"
          /\ sig' = "none" /\ UNCHANGED fmt
     ELSE /\ UNCHANGED <<mine, sig>>
          /\ IF sig \in {"short", "bad"}
             THEN pc' = "dropRc" /\ UNCHANGED <<err, why, fmt>>
             ELSE IF fmt \notin {"none", sig}
                  THEN /\ pc' = "dropV" /\ err' = "archive" /\ why' = "stream"
                       /\ UNCHANGED fmt
                  ELSE /\ pc' = "publish" /\ fmt' = sig
                       /\ UNCHANGED <<err, why>>
  /\ UNCHANGED <<others, recvd, vol, closed, once, damaged, fatal, entry,
                 call, result>>

(* The failed open closes the stream. openNextVolume records a volume cut   *)
(* inside its signature and goes round; a bad signature is returned.        *)
DropStream ==
  /\ pc = "dropRc"
  /\ CloseStream(mine) /\ mine' = None /\ sig' = "none"
  /\ IF sig = "short"
     THEN pc' = "take" /\ damaged' = why /\ why' = "nil" /\ UNCHANGED err
     ELSE pc' = "ret" /\ err' = "archive" /\ UNCHANGED <<damaged, why>>
  /\ UNCHANGED <<others, recvd, vol, staging, once, fmt, fatal, entry,
                 call, result>>

DropVolume ==
  /\ pc = "dropV"
  /\ VolumeClose(mine) /\ mine' = None /\ pc' = "ret" /\ sig' = "none"
  /\ UNCHANGED <<others, recvd, vol, staging, archive, entry,
                 call, err, why, result>>

(* publishVolume: the re-check is under the lock Close takes. The mutant    *)
(* trusts the select of nextVolume.                                         *)
PublishTrusting == FALSE
PublishRefused == isClosed

PublishVolume ==
  /\ pc = "publish"
  /\ IF PublishRefused
     THEN /\ pc' = "dropV" /\ err' = "closed" /\ why' = "nil"
          /\ UNCHANGED <<vol, mine, sig>>
     ELSE /\ pc' = "scan" /\ vol' = mine /\ mine' = None
          /\ sig' = "none" /\ why' = "nil" /\ UNCHANGED err
  /\ UNCHANGED <<others, recvd, staging, closed, once, archive, entry,
                 call, result>>

-----------------------------------------------------------------------------
(* Errors on their way out                                                  *)

(* latchArchive, inside the splice: nothing is latched on a closed Reader.  *)
(* The mutant latches whatever the stream said.                             *)
LatchesAlways == err = "archive"
LatchesArchive == err = "archive" /\ ~isClosed

Latch ==
  /\ pc = "ret" /\ call # "NextEntry"
  /\ pc' = "verdict"
  /\ fatal' = IF LatchesArchive THEN why ELSE fatal
  /\ UNCHANGED <<others, recvd, vol, staging, closed, once, fmt, damaged,
                 entry, call, mine, sig, err, why, result>>

(* finish's override: a member that ends short on a closed Reader reports   *)
(* cancellation, a whole one the error that came beside its last bytes.     *)
(* What arrives as ErrReaderClosed stays it. The mutant leaves it at that.  *)
OverridesNothing == err = "closed"
OverridesShort == err = "closed" \/ (isClosed /\ entry = "open")

(* Entry.finish, of an error: the verdict is recorded in e.done. *)
FinishMember ==
  /\ pc = "verdict"
  /\ LET e == IF entry = "open" THEN "short" ELSE entry
     IN IF OverridesShort THEN ReturnFromMember("closed", "nil", e)
        ELSE IF err = "novolume" THEN ReturnFromMember("novolume", "nil", e)
        ELSE ReturnFromMember("member", why, e)
  /\ err' = "nil" /\ why' = "nil"
  /\ UNCHANGED <<others, recvd, vol, staging, closed, once, archive,
                 mine, sig>>

(* NextEntry's translation: any error of a scan on a closed Reader. The     *)
(* mutant passes the scan's error on.                                       *)
TranslatesNothing == err = "closed"
TranslatesToClosed == isClosed \/ err = "closed"

(* nextEntry's end-of-volumes arm, then NextEntry's translation: on a       *)
(* closed Reader every error is cancellation, otherwise latchArchive runs.  *)
Translate ==
  /\ pc = "ret" /\ call = "NextEntry"
  /\ pc' = "idle"
  /\ IF TranslatesToClosed
     THEN verdict' = "closed" /\ blame' = "nil" /\ UNCHANGED fatal
     ELSE IF err = "archive"
     THEN verdict' = "archive" /\ blame' = why /\ fatal' = why
     ELSE IF damaged # "nil"
     THEN verdict' = "damaged" /\ blame' = damaged /\ fatal' = damaged
     ELSE verdict' = "eof" /\ blame' = "nil" /\ UNCHANGED fatal
  /\ err' = "nil" /\ why' = "nil"
  /\ UNCHANGED <<others, recvd, vol, staging, closed, once, fmt, damaged,
                 entry, call, mine, sig>>

-----------------------------------------------------------------------------
(* Reset, on the traversal goroutine: it does not take the lock throughout, *)
(* so a Close can land between any two of its steps                         *)

ResetTake ==
  /\ pc = "idle" /\ arch < Archives
  /\ entry' = "nil"
  /\ vol' = None /\ mine' = vol
  /\ verdict' = "none" /\ blame' = "nil" /\ pc' = "rClose"
  /\ UNCHANGED <<others, recvd, staging, closed, once, archive,
                 call, sig, err, why>>

(* closeCurrentVolume has something to close. *)
ResetHolds == mine # None

ResetClose ==
  /\ pc = "rClose"
  /\ IF ResetHolds THEN VolumeClose(mine) ELSE UNCHANGED <<closed, once>>
  /\ mine' = None /\ pc' = "rDrain"
  /\ UNCHANGED <<others, recvd, vol, staging, archive, entry,
                 call, sig, err, why, result>>

ResetDrain ==
  /\ pc = "rDrain"
  /\ \/ DrainOne(arch) /\ UNCHANGED pc
     \/ DrainDry(arch) /\ pc' = "rSwap" /\ UNCHANGED <<recvd, closed, drained>>
  /\ UNCHANGED <<producer, arch, done, pipe, closers, vol, staging, once,
                 archive, entry, call, mine, sig, err, why, result>>

(* A fresh done and the new channel, under one acquisition of volMu. *)
ResetSwap ==
  /\ pc = "rSwap"
  /\ arch' = arch + 1 /\ pc' = "rRestart"
  /\ UNCHANGED <<producer, done, pipe, closers, drained, recvd, vol,
                 staging, closed, once, archive, entry, call, mine, sig, err,
                 why, result>>

ResetRestart ==
  /\ pc = "rRestart"
  /\ pipe' = "armed" /\ pc' = "rClear"
  /\ UNCHANGED <<producer, arch, done, closers, drained, recvd, vol, staging,
                 closed, once, archive, entry, call, mine, sig, err, why,
                 result>>

ResetClear ==
  /\ pc = "rClear"
  /\ fmt' = "none" /\ damaged' = "nil" /\ fatal' = "nil"
  /\ pc' = "idle"
  /\ UNCHANGED <<others, recvd, vol, staging, closed, once, entry, call,
                 mine, sig, err, why, result>>

-----------------------------------------------------------------------------
(* Reader.Close, on any goroutine                                           *)

(* Close claims the stream being opened by clearing the field as it reads   *)
(* it. The mutant knows only r.vol and the channel.                         *)
ClaimNothing(c) == UNCHANGED <<cstaged, staging>>
ClaimStaging(c) ==
  /\ cstaged' = [cstaged EXCEPT ![c] = staging]
  /\ staging' = None

(* The critical section: close done, read r.vol, claim r.staging, snapshot  *)
(* r.volumes.                                                               *)
CloseBegin(c) ==
  /\ cpc[c] = "idle"
  /\ cpc' = [cpc EXCEPT ![c] = "stop"]
  /\ done' = done \cup {arch}
  /\ cvol' = [cvol EXCEPT ![c] = vol]
  /\ ClaimStaging(c)
  /\ carch' = [carch EXCEPT ![c] = arch]
  /\ UNCHANGED <<producer, recvd, arch, vol, closed, once, pipe, archive,
                 entry, pc, call, mine, sig, err, why, result, drained>>

(* stopWorkers, after the lock is released. *)
CloseStop(c) ==
  /\ cpc[c] = "stop"
  /\ cpc' = [cpc EXCEPT ![c] = "vol"]
  /\ pipe' = "stopped"
  /\ UNCHANGED <<producer, recvd, arch, done, vol, staging, closed, once,
                 archive, entry, pc, call, mine, sig, err, why, result,
                 cvol, cstaged, carch, drained>>

CloseVolume(c) ==
  /\ cpc[c] = "vol"
  /\ cpc' = [cpc EXCEPT ![c] = "staged"]
  /\ cvol' = [cvol EXCEPT ![c] = None]
  /\ IF cvol[c] = None THEN UNCHANGED <<closed, once>> ELSE VolumeClose(cvol[c])
  /\ UNCHANGED <<producer, recvd, arch, done, vol, staging, pipe, archive,
                 entry, pc, call, mine, sig, err, why, result,
                 cstaged, carch, drained>>

CloseStaged(c) ==
  /\ cpc[c] = "staged"
  /\ cpc' = [cpc EXCEPT ![c] = "drain"]
  /\ cstaged' = [cstaged EXCEPT ![c] = None]
  /\ IF cstaged[c] = None THEN UNCHANGED closed ELSE CloseStream(cstaged[c])
  /\ UNCHANGED <<producer, recvd, arch, done, vol, staging, once, pipe,
                 archive, entry, pc, call, mine, sig, err, why, result,
                 cvol, carch, drained>>

(* The channel Close drains: the one snapshotted under the lock. The mutant *)
(* reads r.volumes after the unlock.                                        *)
DrainsCurrent(c) == arch
DrainTarget(c) == carch[c]

CloseDrain(c) ==
  /\ cpc[c] = "drain"
  /\ \/ DrainOne(DrainTarget(c)) /\ UNCHANGED cpc
     \/ /\ DrainDry(DrainTarget(c))
        /\ cpc' = [cpc EXCEPT ![c] = "idle"]
        /\ UNCHANGED <<recvd, closed, drained>>
  /\ UNCHANGED <<producer, arch, done, vol, staging, once, pipe, archive,
                 entry, pc, call, mine, sig, err, why, result,
                 cvol, cstaged, carch>>

-----------------------------------------------------------------------------
Producer == \E g \in Archive : Send(g) \/ CloseChannel(g)

(* Steps of nextVolume. *)
Advance ==
  \/ TakeVolume \/ ClosePrev \/ Receive \/ ReceiveEnd \/ ReceiveDone
  \/ Stage \/ CloseRefused \/ ReadSignature \/ Unstage \/ DropStream
  \/ DropVolume \/ PublishVolume

Scan == FinishActive \/ Body \/ ScanOpens \/ ScanFinds \/ ScanSpends \/ ScanFails

Report == Latch \/ FinishMember \/ Translate

Reset ==
  \/ ResetTake \/ ResetClose \/ ResetDrain
  \/ ResetSwap \/ ResetRestart \/ ResetClear

Close(c) ==
  \/ CloseBegin(c) \/ CloseStop(c) \/ CloseVolume(c) \/ CloseStaged(c)
  \/ CloseDrain(c)

Next ==
  \/ Producer \/ NextEntry \/ ReadMember \/ Scan \/ Advance \/ Report \/ Reset
  \/ \E c \in Closers : Close(c)

Spec == Init /\ [][Next]_vars

(***************************************************************************)
(* Fairness. A goroutine that can run does. A read of the caller's stream  *)
(* is only owed an answer once that stream has been closed: until then it  *)
(* may stall for ever. The producer, and the decision to call NextEntry,   *)
(* Reset or Close, are the caller's and get none.                          *)
(***************************************************************************)
Unblocked ==
  LET s == IF pc = "sig" THEN mine ELSE vol
  IN  IF s = None THEN TRUE ELSE closed[s] > 0

TravStep ==
  \/ Report \/ FinishActive
  \/ pc # "sig" /\ Advance
  \/ pc # "idle" /\ Reset
  \/ Unblocked /\ (Scan \/ ReadSignature)

CloseStep(c) == CloseStop(c) \/ CloseVolume(c) \/ CloseStaged(c) \/ CloseDrain(c)

Fairness == WF_vars(TravStep) /\ \A c \in Closers : WF_vars(CloseStep(c))

FairSpec == Spec /\ Fairness
-----------------------------------------------------------------------------
(* Properties                                                               *)

Quiescent == pc = "idle" /\ \A c \in Closers : cpc[c] = "idle"

(* A caller's stream is closed by the library at most once, whichever of    *)
(* the traversal, Close and Reset get to it, and a nil one never is: the    *)
(* claim on r.staging and volume.closeOnce are what divide the work         *)
(* (reader.go, "The caller's stream is therefore closed exactly once").     *)
ClosedAtMostOnce ==
  \A s \in Stream : closed[s] <= (IF s \in nils THEN 0 ELSE 1)

(* When no call is running, every stream that has left a channel has been   *)
(* closed, except the open volume of an archive nobody closed: no           *)
(* interleaving of Close with the receive, the signature read and the       *)
(* publication of a volume leaves a stream that nobody will close.          *)
NothingLeaked ==
  Quiescent =>
    \A g \in Archive : \A i \in 1 .. recvd[g] :
      \/ <<g, i>> \in nils
      \/ closed[<<g, i>>] = 1
      \/ vol = <<g, i>> /\ g = arch /\ ~isClosed

(* Until Close is called on the archive in force, nothing but the traversal *)
(* touches its streams: a Close still finishing its work on the archive     *)
(* before a Reset neither drains the new channel nor closes the new volume. *)
LiveArchiveUntouched ==
  ~isClosed /\ pc \notin {"rDrain", "rSwap"} =>
    /\ \A i \in 1 .. Volumes : <<arch, i>> \notin drained
    /\ \A s \in {vol, staging} \ {None} : closed[s] = 0

(* io.EOF is only ever reported for an archive whose channel ended and      *)
(* whose every stream the traversal itself received: a cancelled scan whose *)
(* queue Close drained is never taken for a complete archive.               *)
CleanEndIsComplete ==
  verdict = "eof" /\ pc = "idle" =>
    /\ arch \in ended /\ recvd[arch] = sent[arch]
    /\ \A i \in 1 .. Volumes : <<arch, i>> \notin drained
    /\ damaged = "nil"

(* An error that a stream returned because Close closed it is never         *)
(* latched, and never reported as a fault of the archive: what the caller   *)
(* decided is named ErrReaderClosed. The one place where it stands is the   *)
(* verdict of a member that has every byte it declared, the last of them    *)
(* handed out beside that error: finish overrides only what ended short.    *)
CancelNeverBlamesArchive ==
  /\ fatal # "close"
  /\ verdict \in {"archive", "damaged"} => blame # "close"
  /\ (verdict = "member" /\ blame = "close") => entry = "whole"

(* Close releases the traversal wherever it is blocked: in the receive, in  *)
(* a stalled signature read or in a stalled read of the open volume, the    *)
(* call in progress returns.                                                *)
CloseReleasesTraversal ==
  \A g \in Archive : (g \in done /\ arch = g) ~> (pc = "idle" \/ arch # g)

(* "After Close, Reset revives the Reader": once Reset has returned, the    *)
(* decode workers of an archive nobody has closed are not stopped.          *)
RevivedWorkersRun ==
  ~isClosed /\ pc \notin {"rRestart", "rClear"} => pipe = "armed"
-----------------------------------------------------------------------------
(***************************************************************************)
(* The inductive invariant: at every moment each stream that has left its  *)
(* channel and is not yet closed has exactly one party that will close it. *)
(***************************************************************************)

Received(s) == s[2] <= recvd[s[1]]

(* Nobody has closed s, directly or through a volume. *)
Open(s) == closed[s] = 0 /\ s \notin once

(* s is only ever closed through its volume's closeOnce. *)
ByOnce(s) == closed[s] = 1 => s \in once

RawPC  == {"stage", "refused", "dropRc", "publish", "dropV"}
SigPC  == {"sig", "unstage"}
HeldPC == RawPC \cup SigPC \cup {"closePrev"}

(* No Close has s in its hands. *)
Unshared(s) == \A c \in Closers : cvol[c] # s /\ cstaged[c] # s

(* A stream still on its channel, or a nil one, has been touched by nobody. *)
Untouched ==
  \A s \in Stream : ~Received(s) \/ s \in nils =>
    Open(s) /\ s # vol /\ s # mine /\ s # staging /\ Unshared(s)

(* volume.closeOnce admits one close, and so does everything else. *)
CountsSound ==
  \A s \in Stream : closed[s] \in {0, 1} /\ (s \in once => closed[s] = 1)

(* What the traversal's locals hold at each point, and when r.vol is nil. *)
TraversalHolds ==
  /\ pc \in HeldPC => mine # None
  /\ pc \notin HeldPC \cup {"rClose"} => mine = None
  /\ pc \in HeldPC \cup {"select", "rClose", "rDrain", "rSwap", "rRestart", "rClear"}
       => vol = None
  /\ pc \in RawPC => Open(mine) /\ Unshared(mine)
  /\ pc \in RawPC \cup SigPC => mine[1] = arch
  /\ pc \in {"closePrev", "rClose"} /\ mine # None => ByOnce(mine)

(* r.staging is set exactly while the traversal is opening a stream no      *)
(* Close has claimed; a claimed one is a Close's or already closed.         *)
StagingHolds ==
  /\ staging # None =>
       /\ pc \in SigPC /\ staging = mine /\ ~isClosed
       /\ Open(mine) /\ Unshared(mine)
  /\ pc \in SigPC /\ staging = None =>
       /\ mine \notin once /\ \A c \in Closers : cvol[c] # mine
       /\ closed[mine] = 1 \/ \E c \in Closers : cstaged[c] = mine

VolumeHolds ==
  vol # None =>
    /\ vol[1] = arch /\ ByOnce(vol)
    /\ \A c \in Closers : cstaged[c] # vol
    /\ IF isClosed THEN closed[vol] = 1 \/ \E c \in Closers : cvol[c] = vol
                   ELSE closed[vol] = 0

ClosersHold ==
  \A c \in Closers :
    /\ cpc[c] # "idle" => carch[c] \in done
    /\ cvol[c] # None =>
         /\ cpc[c] \in {"stop", "vol"} /\ cvol[c][1] = carch[c] /\ ByOnce(cvol[c])
    /\ cstaged[c] # None =>
         /\ cpc[c] \in {"stop", "vol", "staged"} /\ Open(cstaged[c])
         /\ \A d \in Closers : cvol[d] # cstaged[c]
                              /\ (d # c => cstaged[d] # cstaged[c])
         /\ cstaged[c] = mine => pc \in SigPC /\ staging = None

(* A stream nobody has closed yet has somebody who will. *)
SomebodyCloses ==
  \A s \in Stream : Received(s) /\ s \notin nils /\ closed[s] = 0 =>
    s = vol \/ s = mine \/ \E c \in Closers : cstaged[c] = s

(* Only a Close of that archive, or the Reset that leaves it, drains it. *)
DrainsSound ==
  \A s \in drained :
    \/ s[1] \in done \/ s[1] < arch
    \/ s[1] = arch /\ pc \in {"rDrain", "rSwap"}

(* The bound on archives is checked where Reset starts. *)
ResetInBound == pc \in {"rClose", "rDrain", "rSwap"} => arch < Archives

Custody ==
  /\ Untouched /\ CountsSound /\ TraversalHolds /\ StagingHolds
  /\ VolumeHolds /\ ClosersHold /\ SomebodyCloses /\ DrainsSound

IInv == TypeOK /\ ResetInBound /\ Custody

(* What the errors on their way out rest on: where one travels, that the    *)
(* end of the channel stays its end, that a call under way has no verdict   *)
(* and in a member's payload has a member that owes bytes, unless they came *)
(* beside its own error, and that an error of a stream Close closed is only *)
(* ever met on a closed Reader. A cause recorded in r.damaged outlives the  *)
(* Reader's closing only inside the Reset that clears it.                   *)
ErrPC == {"dropV", "ret", "verdict"}
ResetPC == {"rClose", "rDrain", "rSwap", "rRestart", "rClear"}
Errors ==
  /\ pc \notin ErrPC => err = "nil"
  /\ pc \notin ErrPC \cup {"unstage", "dropRc", "publish"} => why = "nil"
  /\ pc = "dropV" => err \in {"closed", "archive"}
  /\ pc = "ret" => err \in {"closed", "archive", "novolume"}
  /\ err = "novolume" => arch \in ended /\ recvd[arch] = sent[arch]
InPayload ==
  /\ pc # "idle" => verdict = "none"
  /\ pc \in {"body", "verdict"} => call # "NextEntry"
  /\ pc = "finish" => call = "NextEntry"
  /\ (call # "NextEntry" /\ pc \notin {"idle"} \cup ResetPC) =>
       entry = "open" \/ (entry = "whole" /\ pc = "verdict" /\ err = "member")
Causes ==
  /\ pc \in SigPC /\ staging = None => isClosed
  /\ why = "close" => isClosed
  /\ damaged = "close" => isClosed \/ pc \in {"rRestart", "rClear"}

Reporting ==
  /\ Errors /\ InPayload /\ Causes
  /\ CleanEndIsComplete /\ CancelNeverBlamesArchive
=============================================================================
