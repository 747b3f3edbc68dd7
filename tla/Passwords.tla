----------------------------- MODULE Passwords ------------------------------
(***************************************************************************)
(* Which password opens what: the candidates of SetPasswords, the one the  *)
(* Reader latches, the header key every volume has to be given again, and  *)
(* the two questions inspect.go answers about the same headers without a   *)
(* Reader. The blocks of an archive are chosen one at a time; the members' *)
(* content is MemberRead's.                                                *)
(*                                                                         *)
(* Keys and check values are ideal: deriving from a password gives that    *)
(* password's key, and a check value matches one password only. A header   *)
(* read with any key but its own is not a header (its CRC fails).          *)
(***************************************************************************)
EXTENDS Integers, Sequences, SequencesExt, FiniteSetsExt

CONSTANTS
  Secret,      (* bound: the passwords archives are encrypted with *)
  MaxGuesses,  (* bound: candidates given to SetPasswords *)
  MaxBlocks,   (* bound: blocks of one volume, its end header not counted *)
  MaxVolumes,  (* bound: volumes of one archive *)
  Empty        (* the empty password *)

ASSUME PasswordAssumption ==
  /\ {Empty, "none", "nil"} \cap Secret = {}
  /\ {MaxGuesses, MaxBlocks, MaxVolumes} \subseteq Nat

VARIABLES
  passwords, (* r.passwords *)
  latch,     (* r.resolved, "none" while r.hasResolved is false *)
  vol,       (* the volume open: number, blocks read, v.hd's password or "nil" *)
  fatal,     (* an archive-level error is latched *)
  wire,      (* the password the headers are encrypted under from here to   *)
             (* the end of the volume, "none" for plaintext                 *)
  first,     (* the blocks of the first volume, as far as they were read *)
  last,      (* the last block dispatched and what came of it *)
  ghost      (* history variables, read by no action *)

vars == <<passwords, latch, vol, fatal, wire, first, last, ghost>>

-----------------------------------------------------------------------------
(* Blocks. A password of "none" is no encryption; chk says that a check     *)
(* value is recorded, big that KdfCount is beyond its limit.                *)

Sealed == [pw: Secret, chk: BOOLEAN, big: {FALSE}] \cup [pw: Secret, chk: {TRUE}, big: {TRUE}]
Open == [pw: {"none"}, chk: {FALSE}, big: {FALSE}]
Typed(t, s) == {[type |-> t, num |-> 0, pw |-> b.pw, chk |-> b.chk, big |-> b.big] : b \in s}

(* An archive header's volume number, 0 where it records none. *)
Main == [type: {"main"}, num: {0, 1}, pw: {"none"}, chk: {FALSE}, big: {FALSE}]
Block ==
  Typed("crypt", Sealed) \cup Typed("file", Sealed \cup Open) \cup Main
  \cup Typed("service", {s \in Sealed \cup Open : ~s.big})
  \cup Typed("badcrypt", Open) \cup Typed("badfile", Open) \cup Typed("other", Open)

(* How a volume ends: with its end header, or without one. *)
Ending == Typed("end", Open) \cup Typed("cut", Open)

(* The lists of candidates; trying one a second time changes nothing. *)
Candidates == {s \in BoundedSeq(Secret \cup {Empty}, MaxGuesses) : IsInjective(s)}
NoBlock == [type |-> "none"]
NothingYet == [b |-> NoBlock, res |-> "none", key |-> "none"]
Fresh == [secrets |-> {}, checked |-> {}, sure |-> TRUE, sole |-> "none", said |-> {}]
Sole(list) == IF Len(list) = 1 THEN list[1] ELSE "none"

Init ==
  /\ passwords \in Candidates
  /\ latch = "none" /\ fatal = FALSE
  /\ vol = [n |-> 0, read |-> 0, open |-> FALSE, hd |-> "nil"]
  /\ wire = "none"
  /\ first = <<>> /\ last = NothingYet
  /\ ghost = [Fresh EXCEPT !.sole = Sole(passwords)]

-----------------------------------------------------------------------------
(* verifyPasswordCheck, of a header that records a check value: a match, an *)
(* answer of no, or an error. The empty password is asked for before the    *)
(* KDF count is looked at.                                                  *)
verifyPasswordCheck(b, password) ==
  IF password = Empty THEN "required"
  ELSE IF b.big THEN "kdf"
  ELSE IF password = b.pw THEN "ok" ELSE "no"

(* resolvePassword and resolveHeaderPassword: the password to use and what  *)
(* is latched. The scan passes over the empty candidate, stops at the first *)
(* match or error, and only a match is latched.                             *)
StopsAtEmpty(b) ==
  IF latch # "none" THEN [use |-> latch, err |-> "nil", latch |-> latch]
  ELSE IF passwords = <<>> THEN [use |-> "none", err |-> "required", latch |-> latch]
  ELSE IF ~b.chk THEN [use |-> passwords[1], err |-> "nil", latch |-> latch]
  ELSE LET i == SelectInSeq(passwords, LAMBDA p : verifyPasswordCheck(b, p) # "no")
           answer == verifyPasswordCheck(b, passwords[i])
       IN IF i = 0 THEN [use |-> "none", err |-> "wrong", latch |-> latch]
          ELSE IF answer # "ok" THEN [use |-> "none", err |-> answer, latch |-> latch]
          ELSE [use |-> passwords[i], err |-> "nil", latch |-> passwords[i]]
resolvePassword(b) ==
  IF latch # "none" THEN [use |-> latch, err |-> "nil", latch |-> latch]
  ELSE IF passwords = <<>> THEN [use |-> "none", err |-> "required", latch |-> latch]
  ELSE IF ~b.chk THEN [use |-> passwords[1], err |-> "nil", latch |-> latch]
  ELSE LET i == SelectInSeq(passwords, LAMBDA p : verifyPasswordCheck(b, p) \notin {"no", "required"})
           answer == verifyPasswordCheck(b, passwords[i])
       IN IF i = 0 THEN [use |-> "none", err |-> "wrong", latch |-> latch]
          ELSE IF answer # "ok" THEN [use |-> "none", err |-> answer, latch |-> latch]
          ELSE [use |-> passwords[i], err |-> "nil", latch |-> passwords[i]]

(* The key is derived and, where there is a check value, compared again:    *)
(* headerKeyFromPassword, and buildChain, which takes an empty password.    *)
derive(b, password) ==
  IF password = Empty /\ b.type = "crypt" THEN "required"
  ELSE IF b.big THEN "kdf"
  ELSE IF b.chk /\ password # b.pw THEN "wrong" ELSE "nil"

-----------------------------------------------------------------------------
(* The traversal. *)

(* openVolume: a fresh volume value, its header key nil. *)
OpenVolume ==
  /\ ~fatal /\ ~vol.open /\ vol.n < MaxVolumes
  /\ vol' = [n |-> vol.n + 1, read |-> 0, open |-> TRUE, hd |-> "nil"]
  /\ wire' = "none"
  /\ UNCHANGED <<passwords, latch, fatal, first, last, ghost>>

(* What the walk remembers of block b and of what came of it. *)
Records(b, res, key) ==
  /\ last' = [b |-> b, res |-> res, key |-> key]
  /\ first' = IF vol.n = 1 THEN Append(first, b) ELSE first
  /\ ghost' = [ghost EXCEPT
       !.secrets = @ \cup ({b.pw} \ {"none"}),
       !.checked = IF b.chk /\ b.type # "service" THEN @ \cup {b.pw} ELSE @,
       !.sure = IF b.type = "crypt" THEN b.chk ELSE @,
       !.said = IF vol.n = 1 THEN @ \cup {res} ELSE @]
  /\ vol' = [vol EXCEPT !.read = @ + 1, !.open = b \notin Ending,
                        !.hd = IF b.type = "crypt" /\ res = "armed" THEN key ELSE @]
  /\ wire' = IF b.type = "crypt" THEN b.pw ELSE wire
  /\ UNCHANGED passwords

(* volume.next: the header is decrypted if the volume was given a key. *)
Readable == vol.hd = IF wire = "none" THEN "nil" ELSE wire

(* armHeaderDecryption, for HEAD_CRYPT; any failure ends the archive. *)
ArmHeaderDecryption(b) ==
  LET got == resolvePassword(b)
      err == IF got.err # "nil" THEN got.err ELSE derive(b, got.use)
  IN /\ b.type = "crypt"
     /\ latch' = got.latch
     /\ fatal' = (err # "nil")
     /\ Records(b, IF err = "nil" THEN "armed" ELSE err, got.use)

(* buildChain, for an encrypted member; a failure is the member's alone. *)
OpenMember(b) ==
  LET got == resolvePassword(b)
      err == IF got.err # "nil" THEN got.err ELSE derive(b, got.use)
  IN /\ b.type = "file" /\ b.pw # "none"
     /\ latch' = got.latch
     /\ Records(b, IF err = "nil" THEN "opened" ELSE err, got.use)
     /\ UNCHANGED fatal

(* A first stream that says it is a later volume of its set. *)
startsMidSet(b) == b.type = "main" /\ b.num > 0 /\ vol.n = 1

(* handleNonFileBlock's other cases, and members that are not encrypted.    *)
(* Service records are passed over.                                         *)
Plain(b) ==
  /\ \/ b.type \in {"file", "main"} /\ b.pw = "none"
     \/ b.type \in {"service", "badfile", "badcrypt", "other"}
  /\ LET res == CASE startsMidSet(b) -> "notFirst"
                  [] b.type = "badcrypt" -> "corrupt"
                  [] b.type = "badfile" -> "refused"
                  [] OTHER -> "passed"
     IN /\ fatal' = (res \in {"notFirst", "corrupt"})
        /\ Records(b, res, "none")
  /\ UNCHANGED latch

ReadHeader ==
  /\ ~fatal /\ vol.open /\ vol.read < MaxBlocks /\ Readable
  /\ \E b \in Block : ArmHeaderDecryption(b) \/ OpenMember(b) \/ Plain(b)

(* With the wrong key what is read is not a header. Its CRC or its size is  *)
(* refused, which ends the archive, or the size it seems to declare runs    *)
(* past the end of the stream: then the volume is taken for a cut one, and  *)
(* the scan goes on with the next.                                          *)
BadHeader ==
  /\ ~fatal /\ vol.open /\ ~Readable
  /\ fatal' \in BOOLEAN
  /\ vol' = [vol EXCEPT !.open = fatal']
  /\ last' = [NothingYet EXCEPT !.res = "badHeader"]
  /\ ghost' = [ghost EXCEPT !.said = IF vol.n = 1 THEN @ \cup {"badHeader"} ELSE @]
  /\ UNCHANGED <<passwords, latch, wire, first>>

(* An end header is read like any other; a stream that just ends needs no   *)
(* key to do so.                                                            *)
VolumeEnds ==
  /\ ~fatal /\ vol.open
  /\ \E b \in Ending : (b.type = "end" => Readable) /\ Records(b, "passed", "none")
  /\ UNCHANGED <<latch, fatal>>

(* The caller's calls. SetPasswords leaves the latch alone. *)
SetPasswords ==
  /\ \E list \in Candidates : passwords' = list
  /\ last' = NothingYet
  /\ ghost' = [ghost EXCEPT !.sole = IF vol.n = 0 THEN Sole(passwords') ELSE "none"]
  /\ UNCHANGED <<latch, vol, fatal, wire, first>>

KeepsLatch == latch
ForgetsLatch == "none"

Reset ==
  /\ latch' = ForgetsLatch /\ fatal' = FALSE
  /\ vol' = [n |-> 0, read |-> 0, open |-> FALSE, hd |-> "nil"]
  /\ wire' = "none"
  /\ first' = <<>> /\ last' = NothingYet
  /\ ghost' = [Fresh EXCEPT !.sole = Sole(passwords)]
  /\ UNCHANGED passwords

Next == OpenVolume \/ ReadHeader \/ BadHeader \/ VolumeEnds \/ SetPasswords \/ Reset

Spec == Init /\ [][Next]_vars

-----------------------------------------------------------------------------
(* inspect.go, over the blocks of a first volume as far as they are known.  *)

Unknown == [err |-> "unknown"]

(* VerifyPassword: the first header that can answer does. A service record  *)
(* is asked like a file.                                                    *)
FilesOnly(b) ==
  \/ b.type \in {"crypt", "badcrypt", "badfile", "end", "cut"}
  \/ b.type = "file"
Answers(b) ==
  \/ b.type \in {"crypt", "badcrypt", "badfile", "end", "cut"}
  \/ b.type \in {"file", "service"} /\ b.chk

VerifyPassword(blocks, password) ==
  LET i == SelectInSeq(blocks, Answers)
      b == blocks[i]
      v == verifyPasswordCheck(b, password)
  IN IF i = 0 THEN Unknown
     ELSE IF b.type \in {"badcrypt", "badfile", "cut"} THEN [err |-> "bad"]
     ELSE IF ~b.chk THEN [err |-> "nil", verified |-> FALSE, hasCheckValue |-> FALSE]
     ELSE [err |-> IF v \in {"ok", "no"} THEN "nil" ELSE v, verified |-> v = "ok",
           hasCheckValue |-> TRUE]

(* VolumeNumber: the archive header's, and nothing may come before it but   *)
(* blocks of unknown types.                                                 *)
VolumeNumber(blocks) ==
  LET i == SelectInSeq(blocks, LAMBDA b : b.type # "other")
  IN IF i = 0 THEN Unknown
     ELSE CASE blocks[i].type = "main" -> [err |-> "nil", index |-> blocks[i].num]
            [] blocks[i].type \in {"crypt", "badcrypt"} -> [err |-> "required"]
            [] OTHER -> [err |-> "bad"]

-----------------------------------------------------------------------------
(* What is latched is knowledge about this archive: a password that matched *)
(* a check value of one of its own headers. Not a guess for a header that   *)
(* records none, not the empty candidate, and not what opened the archive   *)
(* the Reader read before.                                                  *)
LatchIsVerified == latch # "none" => latch \in ghost.checked

(* In an archive encrypted with one password, what can be opened is, and a  *)
(* wrong password is never taken for anything else. A header with a check   *)
(* value is opened with its own key, or refused because no candidate is     *)
(* right; once a password is known, headers without a check value get it    *)
(* too; a header is unreadable only where the guess for it could not be     *)
(* checked, and never in a later volume because the key was not passed on.  *)
OnePassword == Cardinality(ghost.secrets) <= 1
RefusalIsDeserved ==
  OnePassword =>
    /\ last.res = "wrong" => \A i \in DOMAIN passwords : passwords[i] # last.b.pw
    /\ last.res = "required" => \/ passwords = <<>>
                                \/ passwords[1] = Empty /\ ~last.b.chk
    /\ last.res \in {"opened", "armed"} /\ last.key # last.b.pw =>
         ~last.b.chk /\ latch = "none"
    /\ last.res = "badHeader" => ~ghost.sure

(* VerifyPassword and VolumeNumber say of an archive what a traversal of it *)
(* with that one candidate finds: a password that is verified is refused    *)
(* nowhere, one that is not, or cannot be, opens nothing that could be      *)
(* checked, and a stream is refused as starting mid-set exactly when its    *)
(* number is not the first.                                                 *)
Has(type) == \E i \in DOMAIN first : first[i].type = type
InspectionAgrees ==
  /\ LET v == VerifyPassword(first, ghost.sole)
     IN ghost.sole # "none" /\ OnePassword /\ v.err = "nil" =>
          /\ v.verified => ghost.said \cap {"wrong", "required", "badHeader"} = {}
          /\ ~v.verified => latch = "none" \/ (Has("crypt") /\ ~v.hasCheckValue) \/ vol.n > 1
  /\ LET n == VolumeNumber(first)
     IN n.err = "nil" /\ Cardinality({i \in DOMAIN first : first[i].type = "main"}) = 1 =>
          (n.index > 0) = ("notFirst" \in ghost.said)
=============================================================================
