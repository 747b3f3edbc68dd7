--------------------------- MODULE PasswordsProofs ---------------------------
(***************************************************************************)
(* Proofs about Passwords, for any set of passwords, any list of           *)
(* candidates, and archives of any number of volumes and blocks.           *)
(***************************************************************************)
EXTENDS Passwords, FiniteSetTheorems, WellFoundedInduction, TLAPS

-----------------------------------------------------------------------------
(* Sets and sequences. *)

LEMMA LeastOf ==
  ASSUME NEW R, IsWellFoundedOn(R, Nat), \A x, y \in Nat : y < x => <<y, x>> \in R,
         NEW T \in SUBSET Nat, T # {}
  PROVE  \E x \in T : \A y \in T : x <= y
  <1>1. PICK x \in T : \A y \in T : ~(<<y, x>> \in R)
      BY WFMin
  <1>2. \A y \in T : ~(y < x)
      BY <1>1
  <1>3. \A y \in T : x <= y
      BY <1>2
  <1> QED BY <1>3

LEMMA MinProperties ==
  ASSUME NEW T \in SUBSET Nat, T # {}
  PROVE  Min(T) \in T /\ \A y \in T : Min(T) <= y
  <1>1. \A x, y \in Nat : y < x => <<y, x>> \in OpToRel(<, Nat)
      BY DEF OpToRel
  <1>2. \E x \in T : \A y \in T : x <= y
      BY <1>1, NatLessThanWellFounded, LeastOf, Zenon
  <1> QED BY <1>2 DEF Min

(* A finite set of at most one element holds no two. *)
LEMMA AtMostOne ==
  ASSUME NEW S, IsFiniteSet(S), Cardinality(S) <= 1, NEW x \in S, NEW y \in S
  PROVE  x = y
  <1>1. Cardinality(S) \in Nat /\ Cardinality(S) # 0
      BY FS_CardinalityType, FS_EmptySet
  <1>2. Cardinality(S) = 1
      BY <1>1
  <1>3. PICK z : S = {z}
      BY <1>2, FS_Singleton
  <1> QED BY <1>3

-----------------------------------------------------------------------------
(* Blocks. *)

LEMMA TypedFields ==
  ASSUME NEW t, NEW s, NEW b \in Typed(t, s)
  PROVE  b.type = t /\ \E c \in s : b.pw = c.pw /\ b.chk = c.chk /\ b.big = c.big
  BY DEF Typed

(* A block with a check value, or of a type that is always encrypted, is    *)
(* encrypted with a secret.                                                 *)
LEMMA BlockFields ==
  ASSUME NEW b \in Block
  PROVE  /\ b.pw \in Secret \cup {"none"} /\ b.chk \in BOOLEAN /\ b.big \in BOOLEAN
         /\ b.chk => b.pw \in Secret
         /\ b.type = "crypt" => b.pw \in Secret
         /\ b.type \in {"main", "badcrypt", "badfile", "other"} => b.pw = "none"
         /\ b.type \in {"crypt", "file", "main", "service", "badcrypt", "badfile", "other"}
  <1>1. \A c \in Sealed : c.pw \in Secret /\ c.chk \in BOOLEAN /\ c.big \in BOOLEAN
      BY DEF Sealed
  <1>2. \A c \in Open : c.pw = "none" /\ c.chk = FALSE /\ c.big = FALSE
      BY DEF Open
  <1>3. CASE b \in Typed("crypt", Sealed)
      BY <1>1, <1>3, TypedFields
  <1>4. CASE b \in Typed("file", Sealed \cup Open)
      <2>1. PICK c \in Sealed \cup Open : b.pw = c.pw /\ b.chk = c.chk /\ b.big = c.big
          BY <1>4, TypedFields
      <2>2. b.type = "file"
          BY <1>4, TypedFields
      <2> QED BY <1>1, <1>2, <2>1, <2>2
  <1>5. CASE b \in Main
      BY <1>5 DEF Main
  <1>6. CASE b \in Typed("service", {c \in Sealed \cup Open : ~c.big})
      <2>1. PICK c \in Sealed \cup Open : b.pw = c.pw /\ b.chk = c.chk /\ b.big = c.big
          BY <1>6, TypedFields
      <2>2. b.type = "service"
          BY <1>6, TypedFields
      <2> QED BY <1>1, <1>2, <2>1, <2>2
  <1>7. CASE b \in Typed("badcrypt", Open) \cup Typed("badfile", Open) \cup Typed("other", Open)
      <2>1. PICK t \in {"badcrypt", "badfile", "other"} : b \in Typed(t, Open)
          BY <1>7
      <2>2. b.type = t
          BY <2>1, TypedFields
      <2>3. PICK c \in Open : b.pw = c.pw /\ b.chk = c.chk /\ b.big = c.big
          BY <2>1, TypedFields
      <2> QED BY <1>2, <2>1, <2>2, <2>3
  <1> QED BY <1>3, <1>4, <1>5, <1>6, <1>7 DEF Block

LEMMA EndingFields ==
  ASSUME NEW b \in Ending
  PROVE  b.pw = "none" /\ b.chk = FALSE /\ b.type \in {"end", "cut"}
  <1>1. \A c \in Open : c.pw = "none" /\ c.chk = FALSE
      BY DEF Open
  <1> QED BY <1>1, TypedFields DEF Ending

LEMMA CandidatesAreSequences ==
  Candidates \subseteq Seq(Secret \cup {Empty})
  BY PasswordAssumption DEF Candidates, BoundedSeq, SeqOf

-----------------------------------------------------------------------------
(* The inductive invariant. *)

(* What can come of a header. *)
Outcome == {"passed", "opened", "armed", "refused", "wrong", "required", "kdf", "corrupt",
            "notFirst", "badHeader"}

Types ==
  /\ passwords \in Seq(Secret \cup {Empty})
  /\ ghost \in [secrets: SUBSET Secret, checked: SUBSET Secret, sure: BOOLEAN,
                sole: Secret \cup {Empty, "none"}, said: SUBSET Outcome]
  /\ vol \in [n: Nat, read: Nat, open: BOOLEAN, hd: Secret \cup {Empty, "none", "nil"}]
  /\ IsFiniteSet(ghost.secrets)

(* What was checked is a secret of this archive, and so is the latch. *)
Knowledge == ghost.checked \subseteq ghost.secrets /\ LatchIsVerified

(* The headers of a volume can be read unless the key was a guess. *)
HeaderKey == ~fatal /\ ghost.sure => Readable

(* The archive is encrypted with one password at most, and what that says   *)
(* of the block dispatched last.                                            *)
SameSecret == \A x, y \in ghost.secrets : x = y

Deserved ==
  SameSecret =>
    /\ last.res = "wrong" => \A i \in DOMAIN passwords : passwords[i] # last.b.pw
    /\ last.res = "required" => \/ passwords = <<>>
                                \/ passwords[1] = Empty /\ ~last.b.chk
    /\ last.res \in {"opened", "armed"} /\ last.key # last.b.pw =>
         ~last.b.chk /\ latch = "none"
    /\ last.res = "badHeader" => ~ghost.sure

IInv == Types /\ Knowledge /\ HeaderKey /\ Deserved

LEMMA InitInv == Init => IInv
  <1> SUFFICES ASSUME Init PROVE IInv
      OBVIOUS
  <1>1. passwords \in Seq(Secret \cup {Empty})
      BY CandidatesAreSequences DEF Init
  <1>2. Sole(passwords) \in Secret \cup {Empty, "none"}
      BY <1>1 DEF Sole
  <1>3. Types
      BY <1>1, <1>2, FS_EmptySet DEF Init, Types, Fresh
  <1>4. Knowledge /\ HeaderKey /\ Deserved
      BY DEF Init, Knowledge, LatchIsVerified, HeaderKey, Readable, Deserved, NothingYet, Fresh
  <1> QED BY <1>3, <1>4 DEF IInv

-----------------------------------------------------------------------------
(* Resolving a password. *)

(* What resolvePassword returns: the latch; a refusal, with no candidate    *)
(* right if that is what it says; a guess nothing can check; or the         *)
(* header's own password, latched.                                          *)
Resolves(b, got) ==
  \/ latch # "none" /\ got = [use |-> latch, err |-> "nil", latch |-> latch]
  \/ /\ latch = "none" /\ got.latch = latch /\ got.err # "nil"
     /\ got.err = "wrong" => \A i \in DOMAIN passwords : passwords[i] # b.pw
     /\ got.err = "required" => passwords = <<>>
     /\ got.err \in {"wrong", "required", "kdf"} /\ got.use = "none"
  \/ /\ latch = "none" /\ passwords # <<>> /\ ~b.chk
     /\ got = [use |-> passwords[1], err |-> "nil", latch |-> latch]
  \/ /\ latch = "none" /\ b.chk /\ \E i \in DOMAIN passwords : passwords[i] = b.pw
     /\ got = [use |-> b.pw, err |-> "nil", latch |-> b.pw]

LEMMA ResolveProperties ==
  ASSUME Types, NEW b \in Block, b.pw # "none"
  PROVE  Resolves(b, resolvePassword(b))
  <1> DEFINE I == {i \in 1 .. Len(passwords) :
                     verifyPasswordCheck(b, passwords[i]) \notin {"no", "required"}}
             k == SelectInSeq(passwords,
                    LAMBDA p : verifyPasswordCheck(b, p) \notin {"no", "required"})
             answer == verifyPasswordCheck(b, passwords[k])
  <1>0. passwords \in Seq(Secret \cup {Empty}) /\ b.pw \in Secret /\ Empty \notin Secret
      BY BlockFields, PasswordAssumption DEF Types
  <1>1. k = IF I # {} THEN Min(I) ELSE 0
      BY DEF SelectInSeq
  <1>2. k = 0 => I = {}
      <2> SUFFICES ASSUME k = 0, I # {} PROVE FALSE
          OBVIOUS
      <2>1. I \in SUBSET Nat
          BY <1>0
      <2>2. Min(I) \in I
          BY <2>1, MinProperties
      <2> QED BY <1>0, <1>1, <2>2
  <1>3. CASE latch # "none"
      BY <1>3 DEF resolvePassword, Resolves
  <1>4. CASE latch = "none" /\ passwords = <<>>
      BY <1>4 DEF resolvePassword, Resolves
  <1>5. CASE latch = "none" /\ passwords # <<>> /\ ~b.chk
      BY <1>5 DEF resolvePassword, Resolves
  <1>6. CASE latch = "none" /\ passwords # <<>> /\ b.chk
      <2>1. resolvePassword(b) =
              IF k = 0 THEN [use |-> "none", err |-> "wrong", latch |-> latch]
              ELSE IF answer # "ok" THEN [use |-> "none", err |-> answer, latch |-> latch]
              ELSE [use |-> passwords[k], err |-> "nil", latch |-> passwords[k]]
          BY <1>6 DEF resolvePassword
      <2>2. CASE k = 0
          <3>1. \A i \in 1 .. Len(passwords) : passwords[i] # b.pw
              BY <1>0, <1>2, <2>2 DEF verifyPasswordCheck
          <3> QED BY <1>0, <1>6, <2>1, <2>2, <3>1 DEF Resolves
      <2>3. CASE k # 0 /\ answer # "ok"
          <3>1. k \in I
              <4>1. I \in SUBSET Nat /\ I # {}
                  BY <1>0, <1>1, <2>3
              <4> QED BY <1>1, <4>1, MinProperties
          <3>2. answer = "kdf"
              BY <2>3, <3>1 DEF verifyPasswordCheck
          <3> QED BY <1>6, <2>1, <2>3, <3>2 DEF Resolves
      <2>4. CASE k # 0 /\ answer = "ok"
          <3>1. passwords[k] = b.pw
              BY <2>4 DEF verifyPasswordCheck
          <3>2. k \in DOMAIN passwords
              <4>1. I \in SUBSET Nat /\ I # {}
                  BY <1>0, <1>1, <2>4
              <4>2. k \in I
                  BY <1>1, <4>1, MinProperties
              <4> QED BY <1>0, <4>2
          <3> QED BY <1>6, <2>1, <2>4, <3>1, <3>2 DEF Resolves
      <2> QED BY <2>2, <2>3, <2>4
  <1> QED BY <1>3, <1>4, <1>5, <1>6

-----------------------------------------------------------------------------
(* The steps. *)

LEMMA RecordsFields ==
  ASSUME Types, NEW b \in Block \cup Ending, NEW res \in Outcome,
         NEW key \in Secret \cup {Empty, "none"}, Records(b, res, key)
  PROVE  /\ Types'
         /\ ghost'.secrets = ghost.secrets \cup ({b.pw} \ {"none"})
         /\ ghost'.checked = IF b.chk /\ b.type # "service"
                             THEN ghost.checked \cup {b.pw} ELSE ghost.checked
         /\ ghost'.sure = IF b.type = "crypt" THEN b.chk ELSE ghost.sure
         /\ ghost'.sole = ghost.sole
         /\ last' = [b |-> b, res |-> res, key |-> key]
         /\ vol'.hd = IF b.type = "crypt" /\ res = "armed" THEN key ELSE vol.hd
         /\ wire' = IF b.type = "crypt" THEN b.pw ELSE wire
         /\ UNCHANGED passwords
  <1>1. /\ b.pw \in Secret \cup {"none"} /\ b.chk \in BOOLEAN /\ (b.chk => b.pw \in Secret)
      <2>1. CASE b \in Block
          BY <2>1, BlockFields
      <2>2. CASE b \in Ending
          BY <2>2, EndingFields
      <2> QED BY <2>1, <2>2
  <1>2. /\ ghost'.secrets = ghost.secrets \cup ({b.pw} \ {"none"})
        /\ ghost'.checked = IF b.chk /\ b.type # "service"
                            THEN ghost.checked \cup {b.pw} ELSE ghost.checked
        /\ ghost'.sure = IF b.type = "crypt" THEN b.chk ELSE ghost.sure
        /\ ghost'.sole = ghost.sole
        /\ ghost' \in [secrets: SUBSET Secret, checked: SUBSET Secret, sure: BOOLEAN,
                       sole: Secret \cup {Empty, "none"}, said: SUBSET Outcome]
      BY <1>1 DEF Types, Records
  <1>3. IsFiniteSet(ghost'.secrets)
      <2>1. IsFiniteSet(ghost.secrets \cup {b.pw})
          BY FS_AddElement DEF Types
      <2> QED BY <1>2, <2>1, FS_Subset
  <1>4. vol' \in [n: Nat, read: Nat, open: BOOLEAN, hd: Secret \cup {Empty, "none", "nil"}]
      <2> DEFINE hd == IF b.type = "crypt" /\ res = "armed" THEN key ELSE vol.hd
      <2>1. PICK o \in BOOLEAN : vol' = [vol EXCEPT !.read = @ + 1, !.open = o, !.hd = hd]
          BY DEF Records
      <2>2. hd \in Secret \cup {Empty, "none", "nil"}
          BY DEF Types
      <2> HIDE DEF hd
      <2>3. vol \in [n: Nat, read: Nat, open: BOOLEAN, hd: Secret \cup {Empty, "none", "nil"}]
          BY DEF Types
      <2>4. vol' = [n |-> vol.n, read |-> vol.read + 1, open |-> o, hd |-> hd]
          BY <2>1, <2>3
      <2>5. vol.n \in Nat /\ vol.read + 1 \in Nat
          BY <2>3
      <2> QED BY <2>1, <2>2, <2>4, <2>5
  <1> QED BY <1>1, <1>2, <1>3, <1>4 DEF Types, Records

(* A header that needs a password: HEAD_CRYPT or an encrypted member. *)
Dispatched(b, err, res) ==
  LET got == resolvePassword(b)
  IN /\ b.pw # "none" /\ b.type \in {"crypt", "file"}
     /\ err = IF got.err # "nil" THEN got.err ELSE derive(b, got.use)
     /\ res = IF err # "nil" THEN err ELSE IF b.type = "crypt" THEN "armed" ELSE "opened"
     /\ latch' = got.latch
     /\ Records(b, res, got.use)

LEMMA DispatchStep ==
  ASSUME IInv, NEW b \in Block, NEW err, NEW res, Dispatched(b, err, res)
  PROVE  /\ Types' /\ Knowledge' /\ Deserved'
         /\ err = "nil" /\ b.type = "crypt" /\ b.chk => vol'.hd = b.pw
  <1> DEFINE got == resolvePassword(b)
  <1>0. /\ b.pw \in Secret /\ b.chk \in BOOLEAN /\ Types /\ Knowledge
        /\ Empty \notin Secret /\ "none" \notin Secret
        /\ latch # "none" => latch \in Secret
      BY BlockFields, PasswordAssumption
         DEF Dispatched, IInv, Knowledge, LatchIsVerified, Types
  <1>1. Resolves(b, got)
      BY <1>0, ResolveProperties DEF Dispatched
  <1>2. /\ err = IF got.err # "nil" THEN got.err ELSE derive(b, got.use)
        /\ res = IF err # "nil" THEN err ELSE IF b.type = "crypt" THEN "armed" ELSE "opened"
        /\ latch' = got.latch /\ Records(b, res, got.use) /\ b.type \in {"crypt", "file"}
      BY DEF Dispatched
  <1> HIDE DEF got
  <1>3. /\ got.use \in Secret \cup {Empty, "none"}
        /\ err \in {"nil", "wrong", "required", "kdf"}
      BY <1>0, <1>1, <1>2 DEF Resolves, derive, Types
  <1>4. /\ Types' /\ ghost'.secrets = ghost.secrets \cup {b.pw}
        /\ ghost'.checked = IF b.chk THEN ghost.checked \cup {b.pw} ELSE ghost.checked
        /\ ghost'.sure = IF b.type = "crypt" THEN b.chk ELSE ghost.sure
        /\ last' = [b |-> b, res |-> res, key |-> got.use]
        /\ vol'.hd = IF b.type = "crypt" /\ res = "armed" THEN got.use ELSE vol.hd
        /\ UNCHANGED passwords
      <2>1. b \in Block \cup Ending /\ b.type # "service"
          BY <1>2
      <2>4. res \in Outcome
          BY <1>2, <1>3 DEF Outcome
      <2>2. {b.pw} \ {"none"} = {b.pw}
          BY <1>0
      <2> HIDE DEF Records
      <2> QED BY <1>0, <1>2, <1>3, <2>1, <2>2, <2>4, RecordsFields
  <1>5. Knowledge'
      BY <1>0, <1>1, <1>2, <1>4 DEF Resolves, Knowledge, LatchIsVerified
  <1>6. err = "nil" /\ b.chk => got.use = b.pw
      BY <1>0, <1>1, <1>2 DEF Resolves, derive
  <1>7. SameSecret' => (latch # "none" => latch = b.pw)
      BY <1>0, <1>4 DEF SameSecret, Knowledge, LatchIsVerified
  <1>8. Deserved'
      <2> SUFFICES ASSUME SameSecret'
                   PROVE  /\ res = "wrong" => \A i \in DOMAIN passwords : passwords[i] # b.pw
                          /\ res = "required" => \/ passwords = <<>>
                                                 \/ passwords[1] = Empty /\ ~b.chk
                          /\ res \in {"opened", "armed"} /\ got.use # b.pw =>
                               ~b.chk /\ latch' = "none"
                          /\ res # "badHeader"
          BY <1>4 DEF Deserved
      <2>1. CASE latch # "none"
          <3>1. got.use = b.pw /\ got.err = "nil"
              BY <1>1, <1>7, <2>1 DEF Resolves
          <3> QED BY <1>0, <1>2, <1>3, <3>1 DEF derive
      <2>2. CASE latch = "none"
          BY <1>0, <1>1, <1>2, <1>3, <2>2 DEF Resolves, derive
      <2> QED BY <2>1, <2>2
  <1> QED BY <1>2, <1>4, <1>5, <1>6, <1>8

LEMMA ArmStep ==
  ASSUME IInv, NEW b \in Block, ArmHeaderDecryption(b)
  PROVE  IInv'
  <1> DEFINE got == resolvePassword(b)
             err == IF got.err # "nil" THEN got.err ELSE derive(b, got.use)
             res == IF err = "nil" THEN "armed" ELSE err
  <1>1. b.type = "crypt" /\ b.pw \in Secret /\ b.pw # "none" /\ b.chk \in BOOLEAN
      BY BlockFields, PasswordAssumption DEF ArmHeaderDecryption
  <1>2. Dispatched(b, err, res)
      BY <1>1 DEF ArmHeaderDecryption, Dispatched
  <1>3. fatal' = (err # "nil")
      BY DEF ArmHeaderDecryption
  <1>4. ghost' = [ghost EXCEPT !.secrets = @ \cup ({b.pw} \ {"none"}),
                    !.checked = IF b.chk /\ b.type # "service" THEN @ \cup {b.pw} ELSE @,
                    !.sure = IF b.type = "crypt" THEN b.chk ELSE @,
                    !.said = IF vol.n = 1 THEN @ \cup {res} ELSE @]
        /\ wire' = IF b.type = "crypt" THEN b.pw ELSE wire
      BY <1>2 DEF Dispatched, Records
  <1>5. ghost'.sure = b.chk /\ wire' = b.pw
      BY <1>1, <1>4 DEF IInv, Types
  <1> HIDE DEF got, err, res
  <1>6. HeaderKey'
      BY <1>1, <1>2, <1>3, <1>5, DispatchStep DEF HeaderKey, Readable
  <1> QED BY <1>2, <1>6, DispatchStep DEF IInv

LEMMA MemberStep ==
  ASSUME IInv, NEW b \in Block, OpenMember(b)
  PROVE  IInv'
  <1> DEFINE got == resolvePassword(b)
             err == IF got.err # "nil" THEN got.err ELSE derive(b, got.use)
             res == IF err = "nil" THEN "opened" ELSE err
  <1>1. Dispatched(b, err, res) /\ b.type = "file" /\ UNCHANGED fatal
      BY DEF OpenMember, Dispatched
  <1>2. /\ ghost'.sure = ghost.sure /\ wire' = wire /\ vol'.hd = vol.hd
      BY <1>1 DEF Dispatched, Records, IInv, Types
  <1> HIDE DEF got, err, res
  <1>3. HeaderKey'
      BY <1>1, <1>2 DEF HeaderKey, Readable, IInv
  <1> QED BY <1>1, <1>3, DispatchStep DEF IInv

(* A block that needs no password says nothing about one. *)
LEMMA SilentStep ==
  ASSUME IInv, NEW b \in Block \cup Ending, b.type # "crypt",
         b.chk => b.type = "service",
         NEW res \in {"passed", "refused", "corrupt", "notFirst"}, Records(b, res, "none"),
         UNCHANGED latch, ~fatal
  PROVE  IInv'
  <1>1. /\ Types' /\ ghost.secrets \subseteq ghost'.secrets /\ ghost'.checked = ghost.checked
        /\ ghost'.sure = ghost.sure /\ wire' = wire /\ vol'.hd = vol.hd
        /\ last'.res = res
      <2>1. res \in Outcome /\ ~(b.chk /\ b.type # "service") /\ Types
          BY DEF Outcome, IInv
      <2>2. "none" \in Secret \cup {Empty, "none"}
          OBVIOUS
      <2>3. /\ Types' /\ ghost'.secrets = ghost.secrets \cup ({b.pw} \ {"none"})
            /\ ghost'.checked = IF b.chk /\ b.type # "service"
                                THEN ghost.checked \cup {b.pw} ELSE ghost.checked
            /\ ghost'.sure = IF b.type = "crypt" THEN b.chk ELSE ghost.sure
            /\ last' = [b |-> b, res |-> res, key |-> "none"]
            /\ vol'.hd = IF b.type = "crypt" /\ res = "armed" THEN "none" ELSE vol.hd
            /\ wire' = IF b.type = "crypt" THEN b.pw ELSE wire
          BY <2>1, <2>2, RecordsFields, Zenon
      <2> QED BY <2>1, <2>3
  <1>2. Knowledge' /\ HeaderKey' /\ Deserved'
      BY <1>1 DEF IInv, Knowledge, LatchIsVerified, HeaderKey, Readable, Deserved
  <1> QED BY <1>1, <1>2 DEF IInv

LEMMA InvStep == IInv /\ [Next]_vars => IInv'
  <1> SUFFICES ASSUME IInv, [Next]_vars PROVE IInv'
      OBVIOUS
  <1>1. CASE OpenVolume
      <2>1. /\ vol' \in [n: Nat, read: Nat, open: BOOLEAN, hd: Secret \cup {Empty, "none", "nil"}]
            /\ vol'.hd = "nil"
          BY <1>1 DEF OpenVolume, IInv, Types
      <2> QED BY <1>1, <2>1
              DEF OpenVolume, IInv, Types, Knowledge, LatchIsVerified, HeaderKey, Readable,
                  Deserved, SameSecret
  <1>2. CASE ReadHeader
      <2>1. PICK b \in Block : ArmHeaderDecryption(b) \/ OpenMember(b) \/ Plain(b)
          BY <1>2 DEF ReadHeader
      <2>2. CASE Plain(b)
          <3>1. b.type # "crypt" /\ (b.chk => b.type = "service")
              BY <2>2, BlockFields, PasswordAssumption DEF Plain
          <3>2. PICK res \in {"passed", "refused", "corrupt", "notFirst"} : Records(b, res, "none")
              BY <2>2 DEF Plain
          <3> QED BY <1>2, <2>2, <3>1, <3>2, SilentStep DEF Plain, ReadHeader
      <2> QED BY <2>1, <2>2, ArmStep, MemberStep
  <1>3. CASE BadHeader
      <2>1. ~ghost.sure
          BY <1>3 DEF BadHeader, IInv, HeaderKey
      <2>2. /\ ghost'.secrets = ghost.secrets /\ ghost'.checked = ghost.checked
            /\ ghost'.sure = ghost.sure
            /\ ghost' \in [secrets: SUBSET Secret, checked: SUBSET Secret, sure: BOOLEAN,
                           sole: Secret \cup {Empty, "none"}, said: SUBSET Outcome]
          BY <1>3 DEF BadHeader, IInv, Types, Outcome
      <2>3. last'.res = "badHeader"
          BY <1>3 DEF BadHeader, NothingYet
      <2> QED BY <1>3, <2>1, <2>2, <2>3
              DEF BadHeader, IInv, Types, Knowledge, LatchIsVerified, HeaderKey, Deserved
  <1>4. CASE VolumeEnds
      <2>1. PICK b \in Ending : Records(b, "passed", "none")
          BY <1>4 DEF VolumeEnds
      <2> QED BY <1>4, <2>1, EndingFields, SilentStep DEF VolumeEnds
  <1>5. CASE SetPasswords
      <2>1. passwords' \in Seq(Secret \cup {Empty})
          BY <1>5, CandidatesAreSequences DEF SetPasswords
      <2>2. Sole(passwords') \in Secret \cup {Empty, "none"}
          BY <2>1 DEF Sole
      <2>3. /\ ghost'.secrets = ghost.secrets /\ ghost'.checked = ghost.checked
            /\ ghost'.sure = ghost.sure
            /\ ghost' \in [secrets: SUBSET Secret, checked: SUBSET Secret, sure: BOOLEAN,
                           sole: Secret \cup {Empty, "none"}, said: SUBSET Outcome]
          BY <1>5, <2>2 DEF SetPasswords, IInv, Types
      <2>4. last'.res = "none" /\ UNCHANGED <<latch, vol, fatal, wire>>
          BY <1>5 DEF SetPasswords, NothingYet
      <2> QED BY <2>1, <2>3, <2>4
              DEF IInv, Types, Knowledge, LatchIsVerified, HeaderKey, Readable, Deserved
  <1>6. CASE Reset
      <2>1. Sole(passwords) \in Secret \cup {Empty, "none"}
          BY DEF Sole, IInv, Types
      <2>2. /\ ghost'.secrets = {} /\ ghost'.checked = {}
            /\ ghost' \in [secrets: SUBSET Secret, checked: SUBSET Secret, sure: BOOLEAN,
                           sole: Secret \cup {Empty, "none"}, said: SUBSET Outcome]
          BY <1>6, <2>1 DEF Reset, Fresh
      <2>3. /\ vol' \in [n: Nat, read: Nat, open: BOOLEAN, hd: Secret \cup {Empty, "none", "nil"}]
            /\ vol'.hd = "nil" /\ wire' = "none" /\ latch' = "none" /\ last'.res = "none"
            /\ UNCHANGED passwords
          BY <1>6 DEF Reset, ForgetsLatch, NothingYet
      <2> QED BY <2>2, <2>3, FS_EmptySet
              DEF IInv, Types, Knowledge, LatchIsVerified, HeaderKey, Readable, Deserved
  <1>7. CASE UNCHANGED vars
      BY <1>7 DEF vars, IInv, Types, Knowledge, LatchIsVerified, HeaderKey, Readable, Deserved,
                  SameSecret
  <1> QED BY <1>1, <1>2, <1>3, <1>4, <1>5, <1>6, <1>7 DEF Next

-----------------------------------------------------------------------------
(* Inspection against the traversal. *)

(* The first header VerifyPassword gets an answer from, if one was read. *)
Silent == \A j \in DOMAIN first : ~Answers(first[j])
AnswerIs(b) ==
  \E i \in DOMAIN first : first[i] = b /\ Answers(b) /\ \A j \in 1 .. i - 1 : ~Answers(first[j])

(* Its answer to the only candidate: yes, or no. *)
Affirms(b) == b.chk /\ ~b.big /\ ghost.sole = b.pw
Denies(b) == b.chk /\ ~b.big /\ ghost.sole # b.pw

Refusals == {"wrong", "required", "badHeader"}

(* The only candidate is all the traversal of the first volume has, and     *)
(* until a header answers it has learnt nothing from it. *)
Alone ==
  /\ first \in Seq(Block \cup Ending)
  /\ vol.n = 0 => /\ ~vol.open /\ first = <<>> /\ ghost.said = {}
                  /\ latch = "none" /\ wire = "none" /\ vol.hd = "nil"
  /\ vol.n <= 1 /\ ghost.sole # "none" => passwords = <<ghost.sole>>
  /\ vol.n <= 1 /\ ghost.sole # "none" /\ Silent =>
       /\ ghost.said \cap Refusals = {} /\ latch = "none" /\ wire = "none" /\ vol.hd = "nil"

(* Once one has answered: a candidate that is right opens the rest of the   *)
(* volume, latched or not, and one that is wrong is never latched.          *)
Answered ==
  /\ vol.n = 1 /\ ghost.sole # "none" /\ SameSecret =>
       \A b : AnswerIs(b) =>
         /\ Affirms(b) => /\ latch \in {"none", ghost.sole} /\ ghost.sole \in ghost.secrets
                          /\ fatal \/ Readable
         /\ Denies(b) => latch = "none" /\ \E x \in ghost.secrets : x # ghost.sole
         /\ b.type = "end" => latch = "none" /\ ~vol.open
  /\ ghost.sole # "none" /\ SameSecret =>
       \A b : AnswerIs(b) /\ Affirms(b) => ghost.said \cap Refusals = {}

Numbered ==
  "notFirst" \in ghost.said <=>
    \E j \in DOMAIN first : first[j].type = "main" /\ first[j].num > 0

Inspection == Alone /\ Answered /\ Numbered

(* Another block of the first volume answers only if none before it did.    *)
LEMMA AppendAnswer ==
  ASSUME NEW S, first \in Seq(S), NEW c \in S, first' = Append(first, c)
  PROVE  /\ Silent' => Silent /\ ~Answers(c)
         /\ \A b : AnswerIs(b)' => AnswerIs(b) \/ (b = c /\ Answers(c) /\ Silent)
         /\ (\E j \in DOMAIN first' : first'[j].type = "main" /\ first'[j].num > 0) <=>
              \/ \E j \in DOMAIN first : first[j].type = "main" /\ first[j].num > 0
              \/ c.type = "main" /\ c.num > 0
         /\ first' \in Seq(S)
  <1>1. /\ DOMAIN first' = 1 .. Len(first) + 1 /\ DOMAIN first = 1 .. Len(first)
        /\ Len(first) \in Nat /\ first'[Len(first) + 1] = c
        /\ \A j \in 1 .. Len(first) : first'[j] = first[j]
      OBVIOUS
  <1>2. Silent' => Silent /\ ~Answers(c)
      BY <1>1 DEF Silent
  <1>3. ASSUME NEW b, AnswerIs(b)' PROVE AnswerIs(b) \/ (b = c /\ Answers(c) /\ Silent)
      <2>1. PICK i \in DOMAIN first' :
              first'[i] = b /\ Answers(b) /\ \A j \in 1 .. i - 1 : ~Answers(first'[j])
          BY <1>3 DEF AnswerIs
      <2>2. CASE i \in 1 .. Len(first)
          <3>1. \A j \in 1 .. i - 1 : ~Answers(first[j])
              BY <1>1, <2>1, <2>2
          <3> QED BY <1>1, <2>1, <2>2, <3>1 DEF AnswerIs
      <2>3. CASE i = Len(first) + 1
          <3>1. \A j \in 1 .. Len(first) : ~Answers(first[j])
              BY <1>1, <2>1, <2>3
          <3> QED BY <1>1, <2>1, <2>3, <3>1 DEF Silent
      <2> QED BY <1>1, <2>1, <2>2, <2>3
  <1>4. (\E j \in DOMAIN first' : first'[j].type = "main" /\ first'[j].num > 0) <=>
              \/ \E j \in DOMAIN first : first[j].type = "main" /\ first[j].num > 0
              \/ c.type = "main" /\ c.num > 0
      BY <1>1
  <1> QED BY <1>2, <1>3, <1>4

(* What dispatching block b with the only candidate may come to. *)
Fits(b, res) ==
  /\ (vol.n = 1 /\ ghost.sole # "none") =>
       /\ latch = "none" /\ ~Answers(b) => res \notin Refusals /\ latch' = "none"
       /\ SameSecret' /\ ghost.sole \in ghost'.secrets /\ latch \in {"none", ghost.sole}
            /\ Readable
            => res \notin Refusals /\ latch' \in {"none", ghost.sole} /\ (fatal' \/ Readable')
       /\ SameSecret' /\ latch = "none" /\ (\E x \in ghost'.secrets : x # ghost.sole)
            => latch' = "none"
       /\ b.type = "end" => latch' = latch
  /\ vol.n = 1 => (res = "notFirst" <=> b.type = "main" /\ b.num > 0)

LEMMA RecordInspected ==
  ASSUME IInv, Inspection, vol.open, ~fatal, NEW b \in Block \cup Ending, NEW res \in Outcome,
         NEW key \in Secret \cup {Empty, "none"}, Records(b, res, key), Fits(b, res)
  PROVE  Inspection'
  <1>1. /\ Types' /\ ghost'.secrets = ghost.secrets \cup ({b.pw} \ {"none"})
        /\ ghost'.sole = ghost.sole
        /\ vol'.hd = IF b.type = "crypt" /\ res = "armed" THEN key ELSE vol.hd
        /\ wire' = IF b.type = "crypt" THEN b.pw ELSE wire
        /\ UNCHANGED passwords
      BY RecordsFields DEF IInv
  <1>2. /\ vol'.n = vol.n /\ vol.n \in Nat /\ (b \in Ending => ~vol'.open)
        /\ ghost'.said = IF vol.n = 1 THEN ghost.said \cup {res} ELSE ghost.said
        /\ first' = IF vol.n = 1 THEN Append(first, b) ELSE first
      BY DEF Records, IInv, Types
  <1>3. vol.n # 0
      BY DEF Inspection, Alone
  <1>s. SameSecret' => SameSecret
      BY <1>1 DEF SameSecret
  <1> USE DEF Inspection
  <1>4. CASE vol.n = 1
      <2>1. /\ Silent' => Silent /\ ~Answers(b)
            /\ \A c : AnswerIs(c)' => AnswerIs(c) \/ (c = b /\ Answers(b) /\ Silent)
            /\ (\E j \in DOMAIN first' : first'[j].type = "main" /\ first'[j].num > 0) <=>
                 \/ \E j \in DOMAIN first : first[j].type = "main" /\ first[j].num > 0
                 \/ b.type = "main" /\ b.num > 0
            /\ first' \in Seq(Block \cup Ending)
          BY <1>2, <1>4, AppendAnswer DEF Alone
      <2>2. /\ b.pw \in Secret \cup {"none"} /\ b.chk \in BOOLEAN /\ (b.chk => b.pw \in Secret)
            /\ b.type = "end" => b \in Ending
          <3>1. CASE b \in Block
              BY <3>1, BlockFields
          <3>2. CASE b \in Ending
              BY <3>2, EndingFields
          <3> QED BY <3>1, <3>2
      <2>3. "none" \notin Secret
          BY PasswordAssumption
      <2>4. Numbered'
          BY <1>2, <1>4, <2>1 DEF Numbered, Fits
      <2>5. Alone'
          BY <1>1, <1>2, <1>4, <2>1 DEF Alone, Fits, Answers
      <2>6. ASSUME ghost.sole # "none", SameSecret', NEW c, AnswerIs(c)'
            PROVE  /\ Affirms(c)' => /\ latch' \in {"none", ghost.sole}
                                     /\ ghost.sole \in ghost'.secrets
                                     /\ fatal' \/ Readable'
                                     /\ ghost'.said \cap Refusals = {}
                   /\ Denies(c)' => latch' = "none" /\ \E x \in ghost'.secrets : x # ghost.sole
                   /\ c.type = "end" => latch' = "none" /\ ~vol'.open
          <3>1. (Affirms(c)' <=> Affirms(c)) /\ (Denies(c)' <=> Denies(c)) /\ SameSecret
              BY <1>1, <1>s, <2>6 DEF Affirms, Denies
          <3>2. CASE AnswerIs(c)
              <4>1. /\ Affirms(c) => /\ latch \in {"none", ghost.sole}
                                     /\ ghost.sole \in ghost.secrets /\ Readable
                                     /\ ghost.said \cap Refusals = {}
                    /\ Denies(c) => latch = "none" /\ \E x \in ghost.secrets : x # ghost.sole
                    /\ c.type # "end"
                  BY <1>4, <2>6, <3>1, <3>2 DEF Answered
              <4> QED BY <1>1, <1>2, <1>4, <2>6, <3>1, <4>1 DEF Fits
          <3>3. CASE c = b /\ Answers(b) /\ Silent
              <4>1. /\ latch = "none" /\ Readable /\ ghost.said \cap Refusals = {}
                  BY <1>4, <2>6, <3>3 DEF Alone, Readable
              <4>2. b.chk => b.pw \in ghost'.secrets
                  BY <1>1, <2>2, <2>3
              <4> QED BY <1>1, <1>2, <1>4, <2>2, <2>6, <3>1, <3>3, <4>1, <4>2
                      DEF Fits, Affirms, Denies
          <3> QED BY <2>1, <2>6, <3>2, <3>3
      <2>7. Answered'
          BY <1>1, <2>6 DEF Answered
      <2> QED BY <2>4, <2>5, <2>7
  <1>5. CASE vol.n # 1
      <2>1. ~(vol.n <= 1)
          BY <1>2, <1>3, <1>5
      <2>2. UNCHANGED first /\ ghost'.said = ghost.said
          BY <1>2, <1>5
      <2> QED BY <1>1, <1>2, <1>3, <1>s, <2>1, <2>2
              DEF Alone, Answered, Numbered, AnswerIs, Affirms
  <1> QED BY <1>4, <1>5

LEMMA DispatchFits ==
  ASSUME IInv, Inspection, NEW b \in Block, NEW err, NEW res, Dispatched(b, err, res),
         b.type = "crypt" => fatal' = (err # "nil")
  PROVE  res \in Outcome /\ resolvePassword(b).use \in Secret \cup {Empty, "none"} /\ Fits(b, res)
  <1> DEFINE got == resolvePassword(b)
  <1>0. /\ b.pw \in Secret /\ b.chk \in BOOLEAN /\ Types /\ Knowledge
        /\ Empty \notin Secret /\ "none" \notin Secret
        /\ latch # "none" => latch \in Secret
      BY BlockFields, PasswordAssumption
         DEF Dispatched, IInv, Knowledge, LatchIsVerified, Types
  <1>1. Resolves(b, got)
      BY <1>0, ResolveProperties DEF Dispatched
  <1>2. /\ err = IF got.err # "nil" THEN got.err ELSE derive(b, got.use)
        /\ res = IF err # "nil" THEN err ELSE IF b.type = "crypt" THEN "armed" ELSE "opened"
        /\ latch' = got.latch /\ Records(b, res, got.use) /\ b.type \in {"crypt", "file"}
      BY DEF Dispatched
  <1>3. latch = "none" /\ passwords # <<>> /\ ~b.chk =>
          got = [use |-> passwords[1], err |-> "nil", latch |-> latch]
      BY DEF resolvePassword
  <1> HIDE DEF got
  <1>4. /\ got.use \in Secret \cup {Empty, "none"}
        /\ err \in {"nil", "wrong", "required", "kdf"}
      BY <1>0, <1>1, <1>2 DEF Resolves, derive, Types
  <1>5. res \in Outcome
      BY <1>2, <1>4 DEF Outcome
  <1>6. /\ ghost'.secrets = ghost.secrets \cup ({b.pw} \ {"none"})
        /\ vol'.hd = IF b.type = "crypt" /\ res = "armed" THEN got.use ELSE vol.hd
        /\ wire' = IF b.type = "crypt" THEN b.pw ELSE wire
      BY <1>0, <1>2, <1>4, <1>5, RecordsFields
  <1>7. b.pw \in ghost'.secrets
      BY <1>0, <1>6
  <1>8. ASSUME vol.n = 1, ghost.sole # "none"
        PROVE  /\ latch = "none" /\ ~Answers(b) => res \notin Refusals /\ latch' = "none"
               /\ SameSecret' /\ ghost.sole \in ghost'.secrets /\ latch \in {"none", ghost.sole}
                    /\ Readable
                    => res \notin Refusals /\ latch' \in {"none", ghost.sole}
                       /\ (fatal' \/ Readable')
               /\ SameSecret' /\ latch = "none" /\ (\E x \in ghost'.secrets : x # ghost.sole)
                    => latch' = "none"
      <2>1. passwords = <<ghost.sole>>
          BY <1>8 DEF Inspection, Alone
      <2>2. passwords # <<>> /\ passwords[1] = ghost.sole /\ DOMAIN passwords = {1}
          BY <2>1
      <2>3. latch = "none" /\ ~Answers(b) => res \notin Refusals /\ latch' = "none"
          <3> SUFFICES ASSUME latch = "none", ~Answers(b) PROVE res \notin Refusals /\ latch' = "none"
              OBVIOUS
          <3>1. b.type = "file" /\ ~b.chk
              BY <1>2 DEF Answers
          <3>2. got.err = "nil" /\ got.latch = "none"
              BY <1>3, <2>2, <3>1
          <3>3. err \in {"nil", "kdf"}
              BY <1>2, <3>1, <3>2 DEF derive
          <3> QED BY <1>2, <3>2, <3>3 DEF Refusals
      <2>4. ASSUME SameSecret', ghost.sole \in ghost'.secrets, latch \in {"none", ghost.sole},
                   Readable
            PROVE  res \notin Refusals /\ latch' \in {"none", ghost.sole} /\ (fatal' \/ Readable')
          <3>1. ghost.sole = b.pw
              BY <1>7, <2>4 DEF SameSecret
          <3>2. /\ got.latch \in {"none", ghost.sole}
                /\ \/ got.err = "nil" /\ got.use = ghost.sole
                   \/ got.err = "kdf"
              BY <1>0, <1>1, <2>2, <2>4, <3>1 DEF Resolves
          <3>3. err \in {"nil", "kdf"} /\ (err = "nil" => got.use = ghost.sole)
              BY <1>0, <1>2, <3>1, <3>2 DEF derive
          <3>4. fatal' \/ Readable'
              BY <1>0, <1>2, <1>6, <2>4, <3>1, <3>3 DEF Readable
          <3> QED BY <1>2, <3>2, <3>3, <3>4 DEF Refusals
      <2>5. ASSUME SameSecret', latch = "none", NEW x \in ghost'.secrets, x # ghost.sole
            PROVE  latch' = "none"
          <3>1. b.pw # ghost.sole
              BY <1>7, <2>5 DEF SameSecret
          <3> QED BY <1>0, <1>1, <1>2, <2>2, <2>5, <3>1 DEF Resolves
      <2> QED BY <2>3, <2>4, <2>5
  <1>9. b.type # "end" /\ b.type # "main" /\ res # "notFirst"
      BY <1>2, <1>4
  <1>10. Fits(b, res)
      BY <1>8, <1>9 DEF Fits
  <1> QED BY <1>4, <1>5, <1>10 DEF got

LEMMA InspectionStep == IInv /\ Inspection /\ [Next]_vars => Inspection'
  <1> SUFFICES ASSUME IInv, Inspection, [Next]_vars PROVE Inspection'
      OBVIOUS
  <1>0. vol.n \in Nat /\ (vol.n = 0 => ~vol.open) /\ ~(vol.n <= 1 /\ vol.n # 0 /\ vol.n # 1)
      BY DEF IInv, Types, Inspection, Alone
  <1>1. CASE OpenVolume
      <2>1. /\ vol'.n = vol.n + 1 /\ vol'.hd = "nil" /\ wire' = "none"
            /\ UNCHANGED <<passwords, latch, fatal, first, last, ghost>>
          BY <1>1 DEF OpenVolume
      <2>2. vol'.n <= 1 => vol.n = 0
          BY <1>0, <2>1
      <2>3. vol'.n # 0
          BY <1>0, <2>1
      <2>4. first = <<>> => \A b : ~AnswerIs(b)
          BY DEF AnswerIs
      <2>5. (vol'.n = 1 => vol.n = 0) /\ (vol.n = 0 => vol.n <= 1)
          BY <1>0, <2>1
      <2> QED BY <2>1, <2>2, <2>3, <2>4, <2>5
              DEF Inspection, Alone, Answered, Numbered, Silent, AnswerIs, Affirms, Denies,
                  SameSecret, Refusals
  <1>2. CASE ReadHeader
      <2>1. PICK b \in Block : ArmHeaderDecryption(b) \/ OpenMember(b) \/ Plain(b)
          BY <1>2 DEF ReadHeader
      <2>2. vol.open /\ ~fatal
          BY <1>2 DEF ReadHeader
      <2> DEFINE got == resolvePassword(b)
                 err == IF got.err # "nil" THEN got.err ELSE derive(b, got.use)
      <2>3. CASE ArmHeaderDecryption(b)
          <3> DEFINE res == IF err = "nil" THEN "armed" ELSE err
          <3>1. b.type = "crypt" /\ b.pw # "none"
              BY <2>3, BlockFields, PasswordAssumption DEF ArmHeaderDecryption
          <3>2. Dispatched(b, err, res) /\ fatal' = (err # "nil")
              BY <2>3, <3>1 DEF ArmHeaderDecryption, Dispatched
          <3>3. Records(b, res, got.use)
              BY <2>3 DEF ArmHeaderDecryption
          <3> HIDE DEF res, err
          <3> QED BY <2>2, <3>2, <3>3, DispatchFits, RecordInspected
      <2>4. CASE OpenMember(b)
          <3> DEFINE res == IF err = "nil" THEN "opened" ELSE err
          <3>2. Dispatched(b, err, res) /\ b.type # "crypt"
              BY <2>4 DEF OpenMember, Dispatched
          <3>3. Records(b, res, got.use)
              BY <2>4 DEF OpenMember
          <3> HIDE DEF res, err
          <3> QED BY <2>2, <3>2, <3>3, DispatchFits, RecordInspected
      <2>5. CASE Plain(b)
          <3> DEFINE res == CASE startsMidSet(b) -> "notFirst"
                              [] b.type = "badcrypt" -> "corrupt"
                              [] b.type = "badfile" -> "refused"
                              [] OTHER -> "passed"
          <3>1. Records(b, res, "none") /\ UNCHANGED latch
              BY <2>5 DEF Plain
          <3>2. /\ res \in {"passed", "refused", "corrupt", "notFirst"}
                /\ res = "notFirst" <=> startsMidSet(b)
              <4>1. startsMidSet(b) => b.type = "main"
                  BY DEF startsMidSet
              <4> QED BY <4>1
          <3>3. b.type # "crypt" /\ b.type # "end"
              BY <2>5, BlockFields, PasswordAssumption DEF Plain
          <3> HIDE DEF res
          <3>4. res \in Outcome /\ res \notin Refusals
              BY <3>2 DEF Outcome, Refusals
          <3>5. wire' = wire /\ vol'.hd = vol.hd
              BY <3>1, <3>3, <3>4, RecordsFields DEF IInv
          <3>6. Fits(b, res)
              BY <3>1, <3>2, <3>3, <3>4, <3>5 DEF Fits, Readable, startsMidSet
          <3> QED BY <2>2, <3>1, <3>4, <3>6, RecordInspected
      <2> QED BY <2>1, <2>3, <2>4, <2>5
  <1>3. CASE BadHeader
      <2>1. /\ ghost'.sole = ghost.sole /\ ghost'.secrets = ghost.secrets
            /\ ghost'.said = IF vol.n = 1 THEN ghost.said \cup {"badHeader"} ELSE ghost.said
            /\ UNCHANGED <<passwords, latch, wire, first>>
            /\ vol.open /\ ~fatal /\ ~Readable
            /\ vol'.n = vol.n /\ vol'.hd = vol.hd
          BY <1>3 DEF BadHeader, IInv, Types
      <2>2. vol.n # 0
          BY <1>0, <2>1
      <2>3. vol.n <= 1 /\ ghost.sole # "none" => ~Silent
          BY <2>1 DEF Inspection, Alone, Readable
      <2>4. ASSUME vol.n = 1, ghost.sole # "none", SameSecret, NEW b, AnswerIs(b)
            PROVE  ~Affirms(b)
          BY <2>1, <2>4 DEF Inspection, Answered
      <2>5. Alone'
          BY <2>1, <2>2, <2>3 DEF Inspection, Alone, Silent
      <2>6. Answered'
          BY <2>1, <2>4 DEF Inspection, Answered, AnswerIs, Affirms, Denies, SameSecret, Readable
      <2>7. Numbered'
          BY <2>1 DEF Inspection, Numbered
      <2> QED BY <2>5, <2>6, <2>7 DEF Inspection
  <1>4. CASE VolumeEnds
      <2>1. PICK b \in Ending : Records(b, "passed", "none")
          BY <1>4 DEF VolumeEnds
      <2>2. vol.open /\ ~fatal /\ UNCHANGED <<latch, fatal>>
          BY <1>4 DEF VolumeEnds
      <2>3. b.type \in {"end", "cut"} /\ "passed" \in Outcome /\ "passed" \notin Refusals
          BY EndingFields DEF Outcome, Refusals
      <2>4. wire' = wire /\ vol'.hd = vol.hd
          BY <2>1, <2>3, RecordsFields DEF IInv
      <2>5. Fits(b, "passed")
          BY <2>2, <2>3, <2>4 DEF Fits, Readable
      <2> QED BY <2>1, <2>2, <2>3, <2>5, RecordInspected
  <1>5. CASE SetPasswords
      <2>1. /\ passwords' \in Seq(Secret \cup {Empty})
            /\ ghost'.sole = IF vol.n = 0 THEN Sole(passwords') ELSE "none"
            /\ ghost'.said = ghost.said /\ ghost'.secrets = ghost.secrets
            /\ UNCHANGED <<latch, vol, fatal, wire, first>>
          BY <1>5, CandidatesAreSequences DEF SetPasswords, IInv, Types
      <2>2. Sole(passwords') # "none" => passwords' = <<Sole(passwords')>>
          BY <2>1 DEF Sole
      <2>3. Alone'
          BY <2>1, <2>2 DEF Inspection, Alone, Refusals, Silent
      <2>4. first = <<>> => \A b : ~AnswerIs(b)
          BY DEF AnswerIs
      <2>5. (\A b : AnswerIs(b)' <=> AnswerIs(b)) /\ (SameSecret' <=> SameSecret)
          BY <2>1 DEF AnswerIs, SameSecret
      <2>6. Answered'
          BY <2>1, <2>4, <2>5 DEF Inspection, Answered, Alone
      <2>7. Numbered'
          BY <2>1 DEF Inspection, Numbered
      <2> QED BY <2>3, <2>6, <2>7 DEF Inspection
  <1>6. CASE Reset
      <2>1. /\ ghost'.sole = Sole(passwords) /\ ghost'.said = {} /\ ghost'.secrets = {}
            /\ vol'.n = 0 /\ vol'.open = FALSE /\ vol'.hd = "nil" /\ wire' = "none"
            /\ latch' = "none" /\ first' = <<>> /\ UNCHANGED passwords
          BY <1>6 DEF Reset, Fresh, ForgetsLatch
      <2>2. Sole(passwords) # "none" => passwords = <<Sole(passwords)>>
          BY DEF Sole, IInv, Types
      <2>3. \A b : ~AnswerIs(b)'
          BY <2>1 DEF AnswerIs
      <2> QED BY <2>1, <2>2, <2>3 DEF Inspection, Alone, Answered, Numbered
  <1>7. CASE UNCHANGED vars
      BY <1>7 DEF vars, Inspection, Alone, Answered, Numbered, Silent, AnswerIs, Affirms, Denies,
                  SameSecret, Readable
  <1> QED BY <1>1, <1>2, <1>3, <1>4, <1>5, <1>6, <1>7 DEF Next

LEMMA InspectionInit == Init => Inspection
  <1> SUFFICES ASSUME Init PROVE Inspection
      OBVIOUS
  <1>1. passwords \in Seq(Secret \cup {Empty})
      BY CandidatesAreSequences DEF Init
  <1>2. Sole(passwords) # "none" => passwords = <<Sole(passwords)>>
      BY <1>1 DEF Sole
  <1>3. /\ ghost.sole = Sole(passwords) /\ ghost.said = {}
      BY DEF Init, Fresh
  <1> QED BY <1>2, <1>3 DEF Init, Inspection, Alone, Answered, Numbered, AnswerIs

(* What VerifyPassword and VolumeNumber look for in the blocks. *)
LEMMA FirstAnswer ==
  ASSUME Inspection
  PROVE  LET i == SelectInSeq(first, Answers)
         IN  i = 0 \/ (i \in DOMAIN first /\ AnswerIs(first[i]) /\ first[i] \in Block \cup Ending)
  <1> DEFINE I == {i \in 1 .. Len(first) : Answers(first[i])}
             k == SelectInSeq(first, Answers)
  <1>1. k = IF I # {} THEN Min(I) ELSE 0
      BY DEF SelectInSeq
  <1>2. first \in Seq(Block \cup Ending) /\ I \in SUBSET Nat
      BY DEF Inspection, Alone
  <1>3. CASE I # {}
      <2>1. k \in I /\ \A j \in I : k <= j
          BY <1>1, <1>2, <1>3, MinProperties
      <2>2. \A j \in 1 .. k - 1 : ~Answers(first[j])
          <3> SUFFICES ASSUME NEW j \in 1 .. k - 1, Answers(first[j]) PROVE FALSE
              OBVIOUS
          <3>1. Len(first) \in Nat /\ k \in 1 .. Len(first)
              BY <1>2, <2>1
          <3>2. j \in 1 .. Len(first) /\ ~(k <= j)
              BY <3>1
          <3> QED BY <2>1, <3>2
      <2>3. first[k] \in Block \cup Ending /\ k \in DOMAIN first
          BY <1>2, <2>1
      <2> QED BY <2>1, <2>2, <2>3 DEF AnswerIs
  <1> QED BY <1>1, <1>3

(* VerifyPassword agrees with what the traversal said. *)
LEMMA VerifyAgrees ==
  ASSUME IInv, Inspection, ghost.sole # "none", OnePassword,
         VerifyPassword(first, ghost.sole).err = "nil"
  PROVE  LET v == VerifyPassword(first, ghost.sole)
         IN  /\ v.verified => ghost.said \cap {"wrong", "required", "badHeader"} = {}
             /\ ~v.verified => latch = "none" \/ (Has("crypt") /\ ~v.hasCheckValue) \/ vol.n > 1
  <1> DEFINE k == SelectInSeq(first, Answers)
             b == first[k]
             w == verifyPasswordCheck(b, ghost.sole)
             v == VerifyPassword(first, ghost.sole)
  <1>1. SameSecret
      BY AtMostOne DEF IInv, Types, OnePassword, SameSecret
  <1>2. k # 0 /\ b.type \notin {"badcrypt", "badfile", "cut"}
      BY DEF VerifyPassword, Unknown
  <1>3. k \in DOMAIN first /\ AnswerIs(b) /\ b \in Block \cup Ending
      BY <1>2, FirstAnswer
  <1>4. v = IF ~b.chk THEN [err |-> "nil", verified |-> FALSE, hasCheckValue |-> FALSE]
            ELSE [err |-> IF w \in {"ok", "no"} THEN "nil" ELSE w, verified |-> w = "ok",
                  hasCheckValue |-> TRUE]
      BY <1>2 DEF VerifyPassword
  <1>5. b.chk \in BOOLEAN
      <2>1. b \in Block => b.chk \in BOOLEAN
          BY BlockFields
      <2>2. b \in Ending => b.chk \in BOOLEAN
          BY EndingFields
      <2> QED BY <1>3, <2>1, <2>2
  <1>6. vol.n \in Nat /\ vol.n # 0
      <2>1. vol.n # 0
          BY <1>3 DEF Inspection, Alone
      <2> QED BY <2>1 DEF IInv, Types
  <1> HIDE DEF k, b, v
  <1>7. CASE ~b.chk
      <2>1. v.verified = FALSE /\ v.hasCheckValue = FALSE
          BY <1>4, <1>7
      <2>2. b.type \in {"crypt", "end"}
          BY <1>2, <1>3, <1>7 DEF AnswerIs, Answers
      <2>3. CASE b.type = "crypt"
          <3>1. Has("crypt")
              BY <1>3, <2>3 DEF Has, b
          <3> QED BY <2>1, <3>1 DEF v
      <2>4. CASE b.type = "end"
          <3>1. vol.n = 1 => latch = "none"
              BY <1>1, <1>3, <2>4 DEF Inspection, Answered
          <3>2. vol.n # 1 => vol.n > 1
              BY <1>6
          <3> QED BY <2>1, <3>1, <3>2 DEF v
      <2> QED BY <2>2, <2>3, <2>4
  <1>8. CASE b.chk
      <2>1. v.verified = (w = "ok") /\ w \in {"ok", "no"}
          <3>1. v.verified = (w = "ok") /\ v.err = IF w \in {"ok", "no"} THEN "nil" ELSE w
              BY <1>4, <1>8
          <3>2. w # "nil"
              BY DEF verifyPasswordCheck
          <3> QED BY <3>1, <3>2 DEF v
      <2>2. CASE w = "ok"
          <3>1. Affirms(b)
              BY <1>8, <2>2 DEF verifyPasswordCheck, Affirms
          <3>2. ghost.said \cap Refusals = {}
              BY <1>1, <1>3, <3>1 DEF Inspection, Answered
          <3> QED BY <2>1, <2>2, <3>2 DEF v, Refusals
      <2>3. CASE w = "no"
          <3>1. Denies(b)
              BY <1>8, <2>3 DEF verifyPasswordCheck, Denies
          <3>2. vol.n = 1 => latch = "none"
              BY <1>1, <1>3, <3>1 DEF Inspection, Answered
          <3>3. vol.n # 1 => vol.n > 1
              BY <1>6
          <3> QED BY <2>1, <2>3, <3>2, <3>3 DEF v
      <2> QED BY <2>1, <2>2, <2>3
  <1> QED BY <1>5, <1>7, <1>8

(* VolumeNumber agrees with the refusal of a stream that starts mid-set. *)
LEMMA NumberAgrees ==
  ASSUME IInv, Inspection, VolumeNumber(first).err = "nil",
         Cardinality({i \in DOMAIN first : first[i].type = "main"}) = 1
  PROVE  (VolumeNumber(first).index > 0) = ("notFirst" \in ghost.said)
  <1> DEFINE I == {i \in 1 .. Len(first) : first[i].type # "other"}
             M == {i \in DOMAIN first : first[i].type = "main"}
             k == SelectInSeq(first, LAMBDA b : b.type # "other")
  <1>1. k = IF I # {} THEN Min(I) ELSE 0
      BY DEF SelectInSeq
  <1>2. first \in Seq(Block \cup Ending) /\ I \in SUBSET Nat
      BY DEF Inspection, Alone
  <1>3. k # 0 /\ first[k].type = "main" /\ VolumeNumber(first).index = first[k].num
      BY DEF VolumeNumber, Unknown
  <1>4. k \in M
      <2>1. I # {}
          BY <1>1, <1>3
      <2>2. k \in I
          BY <1>1, <1>2, <2>1, MinProperties
      <2> QED BY <1>2, <1>3, <2>2
  <1>5. IsFiniteSet(M)
      <2>1. IsFiniteSet(1 .. Len(first))
          BY <1>2, FS_Interval
      <2>2. M \subseteq 1 .. Len(first)
          BY <1>2
      <2> QED BY <2>1, <2>2, FS_Subset
  <1>6. \A j \in M : j = k
      <2>1. Cardinality(M) <= 1
          OBVIOUS
      <2> HIDE DEF M, k
      <2> QED BY <1>4, <1>5, <2>1, AtMostOne
  <1>7. (\E j \in DOMAIN first : first[j].type = "main" /\ first[j].num > 0) <=> first[k].num > 0
      BY <1>4, <1>6
  <1> QED BY <1>3, <1>7 DEF Inspection, Numbered

-----------------------------------------------------------------------------
(* The theorems. *)

(* The inductive invariant: what is latched was checked, a header key that  *)
(* was not a guess is the right one, and every refusal is explained.        *)
THEOREM PasswordInvariant == Spec => []IInv
  BY InitInv, InvStep, PTL DEF Spec

(* resolvePassword latches nothing but a password that a check value of     *)
(* this archive confirmed, whatever candidates SetPasswords brings when.    *)
THEOREM LatchSound == Spec => []LatchIsVerified
  <1>1. IInv => LatchIsVerified
      BY DEF IInv, Knowledge
  <1> QED BY PasswordInvariant, <1>1, PTL

(* In an archive of one password, ErrWrongPassword, ErrPasswordRequired, a  *)
(* wrong key and an unreadable header happen only where the candidates or   *)
(* a missing check value make them inevitable.                              *)
THEOREM RefusalsSound == Spec => []RefusalIsDeserved
  <1>1. IInv => RefusalIsDeserved
      <2> SUFFICES ASSUME IInv, OnePassword PROVE RefusalIsDeserved
          BY DEF RefusalIsDeserved
      <2>1. SameSecret
          BY AtMostOne DEF IInv, Types, OnePassword, SameSecret
      <2> QED BY <2>1 DEF IInv, Deserved, RefusalIsDeserved
  <1> QED BY PasswordInvariant, <1>1, PTL

(* VerifyPassword and VolumeNumber, asked of a first volume, say what the   *)
(* traversal of that volume with that one candidate says.                   *)
THEOREM InspectionSound == Spec => []InspectionAgrees
  <1>1. IInv /\ Inspection => InspectionAgrees
      <2> SUFFICES ASSUME IInv, Inspection PROVE InspectionAgrees
          OBVIOUS
      <2> QED BY VerifyAgrees, NumberAgrees DEF InspectionAgrees
  <1>2. Spec => []Inspection
      BY PasswordInvariant, InspectionInit, InspectionStep, PTL DEF Spec
  <1> QED BY PasswordInvariant, <1>1, <1>2, PTL
=============================================================================
