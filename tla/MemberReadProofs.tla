-------------------------- MODULE MemberReadProofs --------------------------
(***************************************************************************)
(* Proofs about MemberRead, for members of any size and number of parts,   *)
(* any cipher block and buffer size, any shape of the hash tree, and       *)
(* streams that answer in any pieces. Of the hasher they use what          *)
(* Blake2spProofs shows: its state is HashOf the bytes written so far.     *)
(***************************************************************************)
EXTENDS MemberRead, Blake2spProofs

-----------------------------------------------------------------------------
(* Numbers and sequences. *)

LEMMA MinOfTwo ==
  ASSUME NEW a \in Nat, NEW b \in Nat
  PROVE  Min({a, b}) = IF a <= b THEN a ELSE b
  <1> DEFINE m == IF a <= b THEN a ELSE b
  <1>1. m \in {a, b} /\ \A y \in {a, b} : m <= y
      OBVIOUS
  <1>2. \A x \in {a, b} : (\A y \in {a, b} : x <= y) => x = m
      OBVIOUS
  <1> QED BY <1>1, <1>2 DEF Min

LEMMA TakeRest ==
  ASSUME NEW s \in Seq(Int), NEW n \in Nat
  PROVE  /\ Take(s, n) \in Seq(Int) /\ Rest(s, n) \in Seq(Int)
         /\ Len(Take(s, n)) <= n /\ Len(Take(s, n)) + Len(Rest(s, n)) = Len(s)
         /\ n <= Len(s) => Len(Take(s, n)) = n
         /\ Take(s, n) \o Rest(s, n) = s
         /\ \A i \in 1 .. Len(Take(s, n)) : Take(s, n)[i] = s[i]
         /\ n <= Len(s) => \A i \in 1 .. Len(s) - n : Rest(s, n)[i] = s[n + i]
  <1> DEFINE k == Min({n, Len(s)})
  <1>0. Len(s) \in Nat
      OBVIOUS
  <1>1. k = IF n <= Len(s) THEN n ELSE Len(s)
      BY <1>0, MinOfTwo
  <1> HIDE DEF k
  <1>2. k \in 0 .. Len(s) /\ k <= n
      BY <1>0, <1>1
  <1>3. /\ SubSeq(s, 1, k) \in Seq(Int) /\ Len(SubSeq(s, 1, k)) = k
        /\ \A i \in 1 .. k : SubSeq(s, 1, k)[i] = s[i]
      <2>1. \A i \in 1 .. k : s[i] \in Int
          BY <1>0, <1>2
      <2>2. /\ SubSeq(s, 1, k) \in Seq(Int) /\ Len(SubSeq(s, 1, k)) = IF 1 <= k THEN k - 1 + 1 ELSE 0
            /\ \A i \in 1 .. k - 1 + 1 : SubSeq(s, 1, k)[i] = s[1 + i - 1]
          BY <1>0, <1>2, <2>1, SubSeqProperties
      <2> QED BY <1>0, <1>2, <2>2
  <1>4. /\ SubSeq(s, k + 1, Len(s)) \in Seq(Int) /\ Len(SubSeq(s, k + 1, Len(s))) = Len(s) - k
        /\ \A i \in 1 .. Len(s) - k : SubSeq(s, k + 1, Len(s))[i] = s[k + i]
      <2>1. \A i \in k + 1 .. Len(s) : s[i] \in Int
          BY <1>0, <1>2
      <2>2. /\ SubSeq(s, k + 1, Len(s)) \in Seq(Int)
            /\ Len(SubSeq(s, k + 1, Len(s))) = IF k + 1 <= Len(s) THEN Len(s) - (k + 1) + 1 ELSE 0
            /\ \A i \in 1 .. Len(s) - (k + 1) + 1 : SubSeq(s, k + 1, Len(s))[i] = s[k + 1 + i - 1]
          BY <1>0, <1>2, <2>1, SubSeqProperties
      <2>3. \A i \in 1 .. Len(s) - k : i \in 1 .. Len(s) - (k + 1) + 1 /\ k + 1 + i - 1 = k + i
          BY <1>0, <1>2
      <2>4. Len(SubSeq(s, k + 1, Len(s))) = Len(s) - k
          BY <1>0, <1>2, <2>2
      <2> QED BY <2>2, <2>3, <2>4
  <1>5. SubSeq(s, 1, k) \o SubSeq(s, k + 1, Len(s)) = s
      <2>1. 1 \in 1 .. Len(s) + 1 /\ k \in 1 - 1 .. Len(s) /\ Len(s) \in k .. Len(s)
          BY <1>0, <1>2
      <2>2. SubSeq(s, 1, k) \o SubSeq(s, k + 1, Len(s)) = SubSeq(s, 1, Len(s))
          BY <2>1, ConcatAdjacentSubSeq
      <2> QED BY <2>2, SubSeqFull
  <1>6. Take(s, n) = SubSeq(s, 1, k) /\ Rest(s, n) = SubSeq(s, k + 1, Len(s))
      BY DEF Take, Rest, k
  <1>7. /\ Len(Take(s, n)) = k /\ Len(Rest(s, n)) = Len(s) - k
        /\ Take(s, n) \in Seq(Int) /\ Rest(s, n) \in Seq(Int) /\ Take(s, n) \o Rest(s, n) = s
        /\ \A i \in 1 .. Len(Take(s, n)) : Take(s, n)[i] = s[i]
      BY <1>3, <1>4, <1>5, <1>6
  <1>8. n <= Len(s) => \A i \in 1 .. Len(s) - n : Rest(s, n)[i] = s[n + i]
      BY <1>1, <1>4, <1>6
  <1> QED BY <1>0, <1>1, <1>2, <1>7, <1>8

(* Cipher blocks. *)
LEMMA DivOf ==
  ASSUME NEW a \in Nat, NEW r \in 0 .. CBlock - 1
  PROVE  (a * CBlock + r) \div CBlock = a /\ (a * CBlock + r) % CBlock = r
  BY ReadAssumption, QuotientOf

LEMMA MultipleOf ==
  ASSUME NEW a \in Nat
  PROVE  (a * CBlock) % CBlock = 0 /\ a * CBlock \in Nat
  <1>1. CBlock \in Nat /\ 0 \in 0 .. CBlock - 1
      BY ReadAssumption
  <1>2. a * CBlock \in Nat
      BY <1>1
  <1>3. a * CBlock + 0 = a * CBlock
      BY <1>2
  <1> QED BY <1>1, <1>2, <1>3, DivOf

LEMMA AtLeastOneBlock ==
  ASSUME NEW C \in Nat, C % CBlock = 0, C # 0
  PROVE  C >= CBlock
  <1> DEFINE q == C \div CBlock
  <1>0. CBlock \in Nat /\ CBlock > 0
      BY ReadAssumption
  <1>1. q \in Nat /\ C = q * CBlock
      BY <1>0
  <1> HIDE DEF q
  <1>2. q >= 1
      BY <1>0, <1>1
  <1>3. q * CBlock >= 1 * CBlock
      BY <1>0, <1>1, <1>2
  <1> QED BY <1>0, <1>1, <1>3

LEMMA BlockOf ==
  ASSUME NEW n \in Nat, n % CBlock = 0, NEW i \in 1 .. n
  PROVE  LET s == ((i - 1) \div CBlock) * CBlock + 1
         IN  /\ s \in 1 .. n /\ s <= i /\ i <= s + CBlock - 1 /\ s + CBlock - 1 <= n
             /\ (s - 1) % CBlock = 0
  <1> DEFINE q == (i - 1) \div CBlock
             p == n \div CBlock
  <1> USE ReadAssumption
  <1>1. q \in Nat /\ p \in Nat /\ n = p * CBlock /\ i - 1 >= q * CBlock /\ i - 1 < q * CBlock + CBlock
      OBVIOUS
  <1> HIDE DEF q, p
  <1>2. q < p
      <2> SUFFICES ASSUME p <= q PROVE FALSE
          BY <1>1
      <2>1. p * CBlock <= q * CBlock
          BY <1>1
      <2> QED BY <1>1, <2>1
  <1>3. q * CBlock + CBlock <= p * CBlock
      <2>1. (q + 1) * CBlock <= p * CBlock
          BY <1>1, <1>2
      <2>2. (q + 1) * CBlock = q * CBlock + CBlock
          BY <1>1
      <2> QED BY <2>1, <2>2
  <1>4. (q * CBlock) % CBlock = 0 /\ q * CBlock \in Nat
      BY <1>1, MultipleOf
  <1> QED BY <1>1, <1>3, <1>4 DEF q

LEMMA SameBlock ==
  ASSUME NEW C \in Nat, C % CBlock = 0, NEW s \in Nat \ {0}, (s - 1) % CBlock = 0,
         NEW i \in s .. s + CBlock - 1, NEW b \in Nat \ {0}
  PROVE  /\ (C + i - 1) \div CBlock = (b - 1) \div CBlock <=> b \in C + s .. C + s + CBlock - 1
         /\ (C + s) % CBlock = 1 % CBlock
  <1> DEFINE q == C \div CBlock
             p == (s - 1) \div CBlock
             u == (b - 1) \div CBlock
  <1> USE ReadAssumption
  <1>1. /\ q \in Nat /\ C = q * CBlock /\ p \in Nat /\ s - 1 = p * CBlock
        /\ u \in Nat /\ u * CBlock <= b - 1 /\ b - 1 < u * CBlock + CBlock
      OBVIOUS
  <1>2. (q + p) * CBlock = q * CBlock + p * CBlock
      BY <1>1
  <1> HIDE DEF q, p, u
  <1>3. (C + i - 1) \div CBlock = q + p
      <2>1. C + i - 1 = (q + p) * CBlock + (i - s) /\ i - s \in 0 .. CBlock - 1
          BY <1>1, <1>2
      <2>2. q + p \in Nat
          BY <1>1
      <2> QED BY <2>1, <2>2, DivOf
  <1>4. u = q + p <=> b \in C + s .. C + s + CBlock - 1
      <2>1. CASE u = q + p
          BY <1>1, <1>2, <2>1
      <2>2. CASE u < q + p
          <3>1. (u + 1) * CBlock <= (q + p) * CBlock /\ (u + 1) * CBlock = u * CBlock + CBlock
              BY <1>1, <2>2
          <3> QED BY <1>1, <1>2, <2>2, <3>1
      <2>3. CASE q + p < u
          <3>1. (q + p + 1) * CBlock <= u * CBlock
                /\ (q + p + 1) * CBlock = (q + p) * CBlock + CBlock
              BY <1>1, <2>3
          <3> QED BY <1>1, <1>2, <2>3, <3>1
      <2> QED BY <1>1, <2>1, <2>2, <2>3
  <1>5. (C + s) % CBlock = 1 % CBlock
      <2>1. C + s = (q + p) * CBlock + 1
          BY <1>1, <1>2
      <2>2. (q + p) * CBlock \in Nat /\ q + p \in Nat
          BY <1>1
      <2>3. CASE CBlock = 1
          BY <1>1, <2>3
      <2>4. CASE CBlock > 1
          <3>1. 1 \in 0 .. CBlock - 1
              BY <2>4
          <3>2. ((q + p) * CBlock + 1) % CBlock = 1
              BY <2>2, <3>1, DivOf
          <3>3. 1 % CBlock = 1
              <4>1. 0 * CBlock + 1 = 1
                  OBVIOUS
              <4> QED BY <3>1, <4>1, DivOf
          <3> QED BY <2>1, <3>2, <3>3
      <2> QED BY <2>3, <2>4
  <1> QED BY <1>3, <1>4, <1>5 DEF u

-----------------------------------------------------------------------------
(* The inductive invariant. *)

CBC == [in: Seq(Int), out: Seq(Int), iv: Seq(Int), err: Error]
Answers == [b: Seq(Int), err: Error]

Types ==
  /\ member \in [kind: {"file", "link", "refused"}, size: Nat, enc: BOOLEAN, key: BOOLEAN,
                 hashed: BOOLEAN]
  /\ cur \in Headers(member.enc)
  /\ part \in [n: Nat, left: Nat] /\ pos \in Nat /\ bad \in Nat
  /\ cbc \in CBC
  /\ out \in Seq(Int) /\ answer \in Answers
  /\ remaining \in Nat /\ req \in Nat /\ done \in Verdict \cup {"none"}
  /\ pc \in {"idle", "enter", "src", "ret"} /\ draining \in BOOLEAN /\ cancelled \in BOOLEAN
  /\ ghost \in [limit: Nat, fault: Error \ {"eof"}]

(* Entry.Read is past its entrance only while bytes are owed and no verdict *)
(* stands, and what comes back is no more than was asked for or is owed.    *)
Control ==
  /\ pc \in {"src", "ret"} => done = "none" /\ remaining > 0
  /\ pc = "src" => req <= remaining
  /\ pc = "ret" => Len(answer.b) <= remaining
  /\ pc # "ret" => answer.b = <<>>
  /\ member.kind # "file" => member.size = 0
  /\ Len(out) = member.size - remaining /\ crc = out

(* What a Read under way may still deliver was counted when Close came. *)
Owed == CASE pc = "src" -> req [] pc = "ret" -> Len(answer.b) [] OTHER -> 0
Closing == cancelled => Len(out) + Owed <= ghost.limit

(* A failure is on its way to the verdict, or is it; an end was the last    *)
(* part's; the decryption's error ends the Read that meets it.              *)
Failing ==
  /\ ghost.fault # "nil" =>
       (pc = "ret" /\ answer.err = ghost.fault) \/ done \in {ghost.fault, "closed"}
  /\ pc = "ret" /\ answer.err = "closed" => cancelled /\ answer.b = <<>>
  /\ pc = "ret" /\ answer.err = "eof" => cur.last
  /\ cbc.err = "eof" => cur.last
  /\ cbc.err \notin {"nil", "eof"} => done # "none" \/ (pc = "ret" /\ answer.err = cbc.err)
  /\ FailureIsNamed

(* Byte i of the member as it should come out, and as it is packed. *)
Right(i) == IF DamagedBy(i) THEN Garbage ELSE i
Packed(i) == IF i = bad THEN Garbage ELSE i

(* All that has left the streams: delivered, returned, decrypted. *)
Served == (out \o answer.b) \o cbc.out

Content ==
  /\ \A i \in 1 .. Len(Served) : Served[i] = Right(i)
  /\ Len(Served) <= pos /\ bad <= pos
  /\ ~member.enc => Len(Served) = pos /\ cbc.out = <<>>
  /\ member.enc => Len(Served) % CBlock = 0
  /\ member.enc /\ cbc.err \in {"nil", "eof"} =>
       /\ Len(Served) + Len(cbc.in) = pos
       /\ \A j \in 1 .. Len(cbc.in) : cbc.in[j] = Packed(Len(Served) + j)
       /\ \A j \in 1 .. CBlock :
            cbc.iv[j] = IF Len(Served) = 0 THEN j - CBlock ELSE Packed(Len(Served) - CBlock + j)

(* The hasher was fed what the CRC ran over, and what was concluded from    *)
(* the two is true.                                                         *)
Checked ==
  /\ member.hashed => hash = HashOf(crc)
  /\ CleanVerdictIsTrue

IInv == Types /\ Control /\ Closing /\ Failing /\ Checked /\ Content

-----------------------------------------------------------------------------
(* Records. *)

LEMMA CBCUpdates ==
  ASSUME NEW c \in CBC, NEW i \in Seq(Int), NEW o \in Seq(Int), NEW v \in Seq(Int),
         NEW e \in Error
  PROVE  /\ [c EXCEPT !.out = o] \in CBC
         /\ [c EXCEPT !.in = i, !.out = o, !.iv = v] \in CBC
         /\ [c EXCEPT !.in = i, !.err = e] \in CBC
  BY DEF CBC

LEMMA CBCFields ==
  ASSUME NEW c \in CBC
  PROVE  /\ c.in \in Seq(Int) /\ c.out \in Seq(Int) /\ c.iv \in Seq(Int) /\ c.err \in Error
         /\ \A o : /\ [c EXCEPT !.out = o].out = o /\ [c EXCEPT !.out = o].in = c.in
                   /\ [c EXCEPT !.out = o].iv = c.iv /\ [c EXCEPT !.out = o].err = c.err
         /\ \A i, o, v : LET d == [c EXCEPT !.in = i, !.out = o, !.iv = v]
                         IN d.in = i /\ d.out = o /\ d.iv = v /\ d.err = c.err
         /\ \A i, e : LET d == [c EXCEPT !.in = i, !.err = e]
                      IN d.in = i /\ d.out = c.out /\ d.iv = c.iv /\ d.err = e
  BY DEF CBC

LEMMA AnswerFields ==
  ASSUME NEW b \in Seq(Int), NEW e \in Error
  PROVE  /\ [b |-> b, err |-> e] \in Answers
         /\ NoAnswer \in Answers /\ NoAnswer.b = <<>> /\ NoAnswer.err = "nil"
  BY DEF Answers, NoAnswer, Error

(* The verdict a finish settles, where none stood. *)
LEMMA FinishGives ==
  ASSUME done = "none", NEW err \in Error \cup {"truncated"}, NEW rem \in Nat, NEW sum, NEW hs
  PROVE  LET f == finish(err, rem, sum, hs)
         IN  /\ f \in Verdict
             /\ err # "nil" /\ rem > 0 /\ cancelled => f = "closed"
             /\ err # "nil" /\ ~(rem > 0 /\ cancelled) => f = err
             /\ err = "nil" => f \in {"eof", "truncated", "corrupt", "unsupported", "mismatch"}
             /\ err = "nil" /\ f = "truncated" => rem > 0
  BY DEF finish, verifyChecksum, short, Verdict, Error

(* The first verdict stays. *)
LEMMA FinishKeeps ==
  ASSUME done # "none", NEW err, NEW rem, NEW sum, NEW hs
  PROVE  finish(err, rem, sum, hs) = done
  BY DEF finish

LEMMA PlainIs ==
  ASSUME Types
  PROVE  Plain \in Seq(Int) /\ Len(Plain) = member.size /\ (member.size = 0 => Plain = <<>>)
  <1>1. member.size \in Nat
      BY DEF Types
  <1>2. \A i \in 1 .. member.size : i \in Int
      OBVIOUS
  <1>3. Plain \in Seq(Int) /\ Len(Plain) = member.size
      BY <1>1, <1>2 DEF Plain
  <1> QED BY <1>3

(* One verdict of finish, of the bytes it was given and the hasher that was *)
(* fed them: a digest that agrees is the digest of the archived content.    *)
LEMMA FinishTrue ==
  ASSUME Types, done = "none", NEW rem \in Nat, NEW sum \in Seq(Int), NEW hs,
         member.hashed => hs = HashOf(sum), Len(sum) = member.size - rem
  PROVE  LET f == finish("nil", rem, sum, hs)
         IN  /\ f = "eof" => rem = 0 /\ sum = Plain /\ cur.last
             /\ f = "mismatch" => sum # Plain \/ cur.crc = "wrong" \/ cur.blake = "wrong"
  <1> DEFINE f == finish("nil", rem, sum, hs)
  <1>1. f = LET v == verifyChecksum(rem, sum, hs) IN IF v = "nil" THEN "eof" ELSE v
      BY DEF finish
  <1>2. member.size \in Nat /\ Plain \in Seq(Int) /\ Len(Plain) = member.size
      BY PlainIs DEF Types
  <1>3. rem = 0 /\ member.hashed /\ HashSum(hs) = Blake2spOf(Plain) => sum = Plain
      <2> SUFFICES ASSUME rem = 0, member.hashed, HashSum(hs) = Blake2spOf(Plain) PROVE sum = Plain
          OBVIOUS
      <2>1. Len(sum) = Len(Plain)
          BY <1>2
      <2>2. Blake2spOf(sum) = Blake2spOf(Plain)
          BY HashSumIs
      <2> QED BY <1>2, <2>1, <2>2, DigestTells
  <1>4. member.hashed /\ sum = Plain => HashSum(hs) = Blake2spOf(Plain)
      BY HashSumIs
  <1>5. ASSUME f = "eof"
        PROVE  rem = 0 /\ sum = Plain /\ cur.last
      <2>1. verifyChecksum(rem, sum, hs) = "nil"
          BY <1>1, <1>5 DEF verifyChecksum
      <2>2. rem = 0 /\ cur.last /\ (member.size = 0 \/ (~Uncheckable /\ ~Mismatch(sum, hs)))
          BY <2>1 DEF verifyChecksum, short
      <2>3. CASE member.size = 0
          <3>1. Len(sum) = 0
              BY <2>2, <2>3
          <3>2. sum = <<>>
              BY <3>1
          <3> QED BY <2>2, <2>3, <3>2, PlainIs
      <2>4. CASE ~Uncheckable /\ ~Mismatch(sum, hs)
          <3>1. cur.crc # "none" => sum = Plain
              BY <2>4 DEF Mismatch
          <3>2. cur.blake # "none" => member.hashed /\ HashSum(hs) = Blake2spOf(Plain)
              BY <2>4 DEF Uncheckable, Mismatch
          <3>3. cur.crc # "none" \/ cur.blake # "none"
              BY <2>4 DEF Uncheckable
          <3> QED BY <1>3, <2>2, <3>1, <3>2, <3>3
      <2> QED BY <2>2, <2>3, <2>4
  <1>6. ASSUME f = "mismatch"
        PROVE  sum # Plain \/ cur.crc = "wrong" \/ cur.blake = "wrong"
      <2>1. verifyChecksum(rem, sum, hs) = "mismatch"
          BY <1>1, <1>6
      <2>2. cur.last /\ ~Uncheckable /\ Mismatch(sum, hs)
          BY <2>1 DEF verifyChecksum
      <2>3. ~cur.mac /\ (cur.blake # "none" => member.hashed)
          BY <2>2 DEF Uncheckable
      <2>4. cur.crc \in {"none", "whole", "wrong"} /\ cur.blake \in {"none", "whole", "wrong"}
          <3>1. cur \in Headers(member.enc)
              BY DEF Types
          <3> QED BY <2>2, <2>3, <3>1 DEF Headers
      <2>5. \/ cur.crc # "none" /\ ~(cur.crc = "whole" /\ sum = Plain)
            \/ cur.blake # "none" /\ ~(cur.blake = "whole" /\ HashSum(hs) = Blake2spOf(Plain))
          BY <2>2 DEF Mismatch
      <2> QED BY <1>4, <2>3, <2>4, <2>5
  <1> QED BY <1>5, <1>6

-----------------------------------------------------------------------------
(* The caller's calls, and the entrance. *)

LEMMA ContentKept ==
  ASSUME Content, UNCHANGED <<member, pos, bad, cbc>>, Served' = Served
  PROVE  Content'
  BY DEF Content, Right, Packed, DamagedBy

LEMMA ReadStep ==
  ASSUME IInv, Read
  PROVE  IInv'
  <1> USE DEF IInv
  <1>1. req' \in Nat /\ answer' = NoAnswer /\ pc = "idle" /\ pc' = "enter" /\ answer.b = <<>>
        /\ draining' = FALSE
      BY ReadAssumption DEF Read, Control
  <1>2. UNCHANGED <<member, cur, part, pos, bad, cbc, hash, crc, remaining, done,
                    cancelled, out, ghost>>
      BY DEF Read
  <1>3. answer' \in Answers /\ answer'.b = <<>>
      BY <1>1 DEF Answers, NoAnswer, Error
  <1>4. Types'
      BY <1>1, <1>2, <1>3 DEF Types
  <1>5. Control'
      BY <1>1, <1>2, <1>3 DEF Control
  <1>6. Closing'
      BY <1>1, <1>2 DEF Closing, Owed
  <1>7. Failing'
      BY <1>1, <1>2 DEF Failing, FailureIsNamed
  <1>8. Checked'
      BY <1>2 DEF Checked, CleanVerdictIsTrue, Plain
  <1>9. Content'
      <2>1. Served' = Served
          BY <1>1, <1>2, <1>3 DEF Served
      <2> QED BY <1>2, <2>1, ContentKept
  <1> QED BY <1>4, <1>5, <1>6, <1>7, <1>8, <1>9

LEMMA CloseStep ==
  ASSUME IInv, Close
  PROVE  IInv'
  <1> USE DEF IInv
  <1>1. pc = "idle" /\ answer.b = <<>> /\ crc = out /\ remaining \in Nat /\ out \in Seq(Int)
        /\ Len(out) = member.size - remaining /\ member.size \in Nat
      BY DEF Close, Control, Types
  <1>2. UNCHANGED <<member, cur, part, pos, bad, cbc, hash, crc, remaining, cancelled, out, ghost>>
      BY DEF Close
  <1>3. CASE done # "none"
      <2>1. UNCHANGED <<pc, req, draining, answer, done>>
          BY <1>3, FinishKeeps DEF Close
      <2>2. Served' = Served
          BY <1>2, <2>1 DEF Served
      <2>3. Types' /\ Control' /\ Closing'
          BY <1>2, <2>1 DEF Types, Control, Closing, Owed
      <2>4. Failing' /\ Checked'
          BY <1>2, <2>1 DEF Failing, FailureIsNamed, Checked, CleanVerdictIsTrue, Plain
      <2> QED BY <1>2, <2>2, <2>3, <2>4, ContentKept
  <1>4. CASE done = "none" /\ member.kind = "link"
      <2> DEFINE f == finish("nil", remaining, crc, hash)
      <2>1. UNCHANGED <<pc, req, draining, answer>> /\ done' = f
          BY <1>4 DEF Close
      <2>2. remaining = 0
          BY <1>1, <1>4 DEF Control
      <2>3. f \in Verdict /\ f \in {"eof", "truncated", "corrupt", "unsupported", "mismatch"}
            /\ f # "truncated"
          BY <1>1, <1>4, <2>2, FinishGives DEF Error
      <2>4. /\ f = "eof" => out = Plain /\ cur.last
            /\ f = "mismatch" => out # Plain \/ cur.crc = "wrong" \/ cur.blake = "wrong"
          BY <1>1, <1>4, FinishTrue DEF Checked
      <2> HIDE DEF f
      <2>5. Served' = Served
          BY <1>2, <2>1 DEF Served
      <2>6. Types' /\ Control' /\ Closing'
          BY <1>1, <1>2, <2>1, <2>3 DEF Types, Control, Closing, Owed
      <2>7. ghost.fault = "nil"
          BY <1>1, <1>4 DEF Failing, Types, Error
      <2>8. Failing'
          BY <1>1, <1>2, <2>1, <2>3, <2>7 DEF Failing, FailureIsNamed
      <2>9. Checked'
          BY <1>2, <2>1, <2>2, <2>4 DEF Checked, CleanVerdictIsTrue, Plain
      <2> QED BY <1>2, <2>5, <2>6, <2>8, <2>9, ContentKept
  <1>5. CASE done = "none" /\ member.kind # "link"
      <2>1. pc' = "enter" /\ req' = CopyBuf /\ draining' = TRUE /\ answer' = NoAnswer /\ done' = done
          BY <1>5 DEF Close
      <2>2. answer' \in Answers /\ answer'.b = <<>>
          BY <2>1 DEF Answers, NoAnswer, Error
      <2>3. Served' = Served
          BY <1>1, <1>2, <2>2 DEF Served
      <2>4. Types' /\ Control'
          BY <1>1, <1>2, <2>1, <2>2, ReadAssumption DEF Types, Control
      <2>5. Closing'
          BY <1>1, <1>2, <2>1 DEF Closing, Owed
      <2>6. Failing' /\ Checked'
          BY <1>1, <1>2, <2>1 DEF Failing, FailureIsNamed, Checked, CleanVerdictIsTrue, Plain
      <2> QED BY <1>2, <2>3, <2>4, <2>5, <2>6, ContentKept
  <1> QED BY <1>3, <1>4, <1>5

LEMMA ReaderCloseStep ==
  ASSUME IInv, ReaderClose
  PROVE  IInv'
  <1> USE DEF IInv
  <1>1. UNCHANGED <<member, cur, part, pos, bad, cbc, hash, crc, remaining, done, pc, req,
                    answer, draining, out>>
        /\ cancelled' = TRUE
      BY DEF ReaderClose
  <1>2. /\ ghost \in [limit: Nat, fault: Error \ {"eof"}] /\ out \in Seq(Int) /\ answer \in Answers
        /\ req \in Nat /\ pc \in {"idle", "enter", "src", "ret"}
      BY DEF Types
  <1>3. Owed \in Nat /\ Len(out) \in Nat
      BY <1>2 DEF Owed, Answers
  <1>4. ghost' = [ghost EXCEPT !.limit = Len(out) + Owed]
      BY DEF ReaderClose, Owed
  <1>5. ghost' \in [limit: Nat, fault: Error \ {"eof"}] /\ ghost'.limit = Len(out) + Owed
        /\ ghost'.fault = ghost.fault
      BY <1>2, <1>3, <1>4
  <1>6. Types'
      BY <1>1, <1>5 DEF Types
  <1>7. Control'
      BY <1>1 DEF Control
  <1>8. Closing'
      <2>1. Owed' = Owed
          BY <1>1 DEF Owed
      <2> QED BY <1>1, <1>3, <1>5, <2>1 DEF Closing
  <1>9. Failing' /\ Checked'
      BY <1>1, <1>5 DEF Failing, FailureIsNamed, Checked, CleanVerdictIsTrue, Plain
  <1>10. Content'
      <2>1. Served' = Served
          BY <1>1 DEF Served
      <2> QED BY <1>1, <2>1, ContentKept
  <1> QED BY <1>6, <1>7, <1>8, <1>9, <1>10

LEMMA EntranceStep ==
  ASSUME IInv, Entrance
  PROVE  IInv'
  <1> USE DEF IInv
  <1> DEFINE g == EntranceGuard
  <1>1. /\ pc = "enter" /\ answer.b = <<>> /\ crc = out /\ remaining \in Nat /\ out \in Seq(Int)
        /\ Len(out) = member.size - remaining /\ req \in Nat /\ draining \in BOOLEAN
        /\ done \in Verdict \cup {"none"} /\ cancelled \in BOOLEAN
      BY DEF Entrance, Control, Types
  <1>2. UNCHANGED <<member, cur, part, pos, bad, cbc, hash, crc, remaining, answer, draining,
                    cancelled, out, ghost>>
      BY DEF Entrance
  <1>3. Content'
      <2>1. Served' = Served
          BY <1>2 DEF Served
      <2> QED BY <1>2, <2>1, ContentKept
  <1>4. /\ g = "go" => done = "none" /\ remaining > 0 /\ ~cancelled
        /\ g # "go" => \/ done # "none" /\ g = done
                       \/ done = "none" /\ g \in {"link", "nil"}
                       \/ done = "none" /\ remaining = 0 /\ g = finish("nil", remaining, crc, hash)
                       \/ done = "none" /\ remaining > 0 /\ cancelled /\ g = "closed"
      <2>1. done = "none" => finish("nil", remaining, crc, hash) \in Verdict
                             /\ (remaining > 0 /\ cancelled
                                   => finish("closed", remaining, crc, hash) = "closed")
          BY <1>1, FinishGives DEF Error
      <2>2. "go" \notin Verdict /\ "none" \notin Verdict
          BY DEF Verdict
      <2> QED BY <1>1, <2>1, <2>2 DEF EntranceGuard
  <1> HIDE DEF g
  <1>5. CASE g = "go"
      <2>1. pc' = "src" /\ req' = Clamp(req) /\ done' = done
          BY <1>5 DEF Entrance, g
      <2>2. req' \in Nat /\ req' <= remaining
          BY <1>1, <2>1, MinOfTwo DEF Clamp
      <2>3. Types' /\ Control' /\ Closing'
          BY <1>1, <1>2, <1>4, <1>5, <2>1, <2>2 DEF Types, Control, Closing, Owed
      <2>4. Failing' /\ Checked'
          BY <1>1, <1>2, <2>1 DEF Failing, FailureIsNamed, Checked, CleanVerdictIsTrue, Plain
      <2> QED BY <1>3, <2>3, <2>4
  <1>6. CASE g # "go"
      <2>1. done' = (IF g \in Verdict THEN g ELSE done) /\ req' = req
            /\ pc' = (IF draining /\ done' = "none" THEN "enter" ELSE "idle")
          BY <1>6 DEF Entrance, Returns, g
      <2>2. pc' \in {"enter", "idle"} /\ done' \in Verdict \cup {"none"}
          BY <1>1, <2>1
      <2>3. Types' /\ Control' /\ Closing'
          BY <1>1, <1>2, <2>1, <2>2 DEF Types, Control, Closing, Owed
      <2>4. CASE done' = done
          BY <1>1, <1>2, <1>3, <2>2, <2>3, <2>4 DEF Failing, FailureIsNamed, Checked, CleanVerdictIsTrue, Plain
      <2>5. CASE done = "none" /\ remaining = 0 /\ g = finish("nil", remaining, crc, hash)
          <3>1. g \in Verdict /\ g \in {"eof", "corrupt", "unsupported", "mismatch"}
              <4>1. "nil" \in Error \cup {"truncated"}
                  BY DEF Error
              <4>2. /\ g \in Verdict /\ g \in {"eof", "truncated", "corrupt", "unsupported", "mismatch"}
                    /\ g = "truncated" => remaining > 0
                  BY <1>1, <2>5, <4>1, FinishGives
              <4> QED BY <2>5, <4>2
          <3>2. /\ g = "eof" => out = Plain /\ cur.last
                /\ g = "mismatch" => out # Plain \/ cur.crc = "wrong" \/ cur.blake = "wrong"
              BY <1>1, <2>5, FinishTrue DEF Checked
          <3>3. ghost.fault = "nil"
              BY <1>1, <2>5 DEF Failing, Types, Error
          <3>4. done' = g
              BY <2>1, <3>1
          <3>5. Failing'
              BY <1>1, <1>2, <2>2, <3>1, <3>3, <3>4 DEF Failing, FailureIsNamed
          <3>6. Checked'
              BY <1>2, <2>5, <3>2, <3>4 DEF Checked, CleanVerdictIsTrue, Plain
          <3> QED BY <1>3, <2>3, <3>5, <3>6
      <2>6. CASE done = "none" /\ remaining > 0 /\ cancelled /\ g = "closed"
          <3>1. done' = "closed"
              BY <2>1, <2>6 DEF Verdict
          <3>2. ghost.fault = "nil"
              BY <1>1, <2>6 DEF Failing, Types, Error
          <3>3. Failing'
              BY <1>1, <1>2, <2>2, <2>6, <3>1, <3>2 DEF Failing, FailureIsNamed, short
          <3>4. Checked'
              BY <1>2, <3>1 DEF Checked, CleanVerdictIsTrue
          <3> QED BY <1>3, <2>3, <3>3, <3>4
      <2>7. done' = done \/ (done = "none" /\ remaining = 0 /\ g = finish("nil", remaining, crc, hash))
            \/ (done = "none" /\ remaining > 0 /\ cancelled /\ g = "closed")
          BY <1>4, <1>6, <2>1 DEF Verdict
      <2> QED BY <2>4, <2>5, <2>6, <2>7
  <1> QED BY <1>5, <1>6

LEMMA ExitStep ==
  ASSUME IInv, Exit
  PROVE  IInv'
  <1> USE DEF IInv
  <1> DEFINE rem == remaining - Len(answer.b)
             sum == crc \o answer.b
             hs == IF member.hashed THEN HashWrite(hash, answer.b) ELSE hash
             err == CASE answer.err = "eof" /\ short(rem) -> "truncated"
                      [] answer.err = "eof" /\ ~short(rem) -> "nil"
                      [] OTHER -> answer.err
  <1>1. /\ pc = "ret" /\ done = "none" /\ crc = out /\ remaining \in Nat /\ remaining > 0
        /\ out \in Seq(Int) /\ answer \in Answers /\ Len(answer.b) <= remaining
        /\ Len(out) = member.size - remaining /\ draining \in BOOLEAN /\ cancelled \in BOOLEAN
        /\ ghost.fault \in Error \ {"eof"} /\ member.size \in Nat /\ ghost.limit \in Nat
        /\ cbc.err \in Error /\ cbc.out \in Seq(Int)
      BY DEF Exit, Control, Types, CBC
  <1>2. UNCHANGED <<member, cur, part, pos, bad, cbc, draining, cancelled, ghost>>
      BY DEF Exit
  <1>3. answer.b \in Seq(Int) /\ answer.err \in Error /\ Len(answer.b) \in Nat /\ Len(out) \in Nat
      BY <1>1 DEF Answers
  <1>4. /\ remaining' = rem /\ crc' = sum /\ out' = sum /\ hash' = hs /\ answer' = NoAnswer
        /\ req' = (IF draining THEN CopyBuf ELSE 0)
        /\ pc' = (IF draining /\ done' = "none" THEN "enter" ELSE "idle")
        /\ done' = IF answer.err = "nil" /\ short(rem) THEN done ELSE finish(err, rem, sum, hs)
      BY <1>1 DEF Exit, Returns
  <1>5. rem \in Nat /\ sum \in Seq(Int) /\ Len(sum) = Len(out) + Len(answer.b)
        /\ Len(sum) = member.size - rem
      <2>1. sum = out \o answer.b
          BY <1>1
      <2>2. sum \in Seq(Int) /\ Len(sum) = Len(out) + Len(answer.b)
          <3> HIDE DEF sum, rem
          <3> QED BY <1>1, <1>3, <2>1, ConcatProperties
      <2> QED BY <1>1, <1>3, <2>2
  <1>6. answer' \in Answers /\ answer'.b = <<>>
      BY <1>4 DEF Answers, NoAnswer, Error
  <1>7. pc' \in {"enter", "idle"} /\ req' \in Nat
      BY <1>1, <1>4, ReadAssumption
  <1>9. err \in Error \cup {"truncated"}
      BY <1>3 DEF Error
  <1>10. /\ answer.err = "eof" /\ rem > 0 => err = "truncated"
         /\ answer.err = "eof" /\ rem = 0 => err = "nil"
         /\ answer.err # "eof" => err = answer.err
      <2>1. short(rem) = (rem > 0)
          BY DEF short
      <2>2. rem = 0 => ~(rem > 0)
          BY <1>5
      <2> HIDE DEF rem
      <2>3. answer.err = "eof" /\ rem > 0 => err = "truncated"
          BY <2>1, Zenon
      <2>4. answer.err = "eof" /\ rem = 0 => err = "nil"
          BY <2>1, <2>2, Zenon
      <2>5. answer.err # "eof" => err = answer.err
          BY Zenon
      <2> QED BY <2>3, <2>4, <2>5
  <1>h. member.hashed => hs = HashOf(sum)
      <2>1. member.hashed => hash = HashOf(crc)
          BY DEF Checked
      <2>2. crc \in Seq(Int)
          BY <1>1
      <2> HIDE DEF rem, err
      <2>3. HashWrite(HashOf(crc), answer.b) = HashOf(crc \o answer.b)
          BY <1>3, <2>2, HashWriteIs
      <2> QED BY <2>1, <2>3, Zenon
  <1> HIDE DEF rem, sum, hs, err
  <1>11. \/ (answer.err = "nil" /\ rem > 0) /\ done' = "none"
         \/ ~(answer.err = "nil" /\ rem > 0) /\ done' = finish(err, rem, sum, hs)
      BY <1>1, <1>4 DEF short
  <1>12. /\ finish(err, rem, sum, hs) \in Verdict
         /\ err # "nil" /\ rem > 0 /\ cancelled => finish(err, rem, sum, hs) = "closed"
         /\ err # "nil" /\ ~(rem > 0 /\ cancelled) => finish(err, rem, sum, hs) = err
         /\ err = "nil" => finish(err, rem, sum, hs) \in
                             {"eof", "truncated", "corrupt", "unsupported", "mismatch"}
         /\ err = "nil" /\ finish(err, rem, sum, hs) = "truncated" => rem > 0
      BY <1>1, <1>5, <1>9, FinishGives
  <1>13. Types'
      BY <1>2, <1>4, <1>5, <1>6, <1>7, <1>11, <1>12 DEF Types
  <1>14. Control'
      BY <1>2, <1>4, <1>5, <1>6, <1>7 DEF Control
  <1>15. Closing'
      BY <1>1, <1>2, <1>3, <1>4, <1>5, <1>7 DEF Closing, Owed
  <1>16. Content'
      <2>1. (sum \o <<>>) \o cbc.out = sum \o cbc.out
          BY <1>5
      <2>2. Served' = Served
          BY <1>1, <1>2, <1>4, <1>6, <2>1 DEF Served, sum
      <2> QED BY <1>2, <2>2, ContentKept
  <1>17. ghost.fault # "nil" => answer.err = ghost.fault
      BY <1>1 DEF Failing, Error
  <1>18. /\ answer.err = "closed" => cancelled /\ rem > 0
         /\ answer.err = "eof" => cur.last
         /\ cbc.err = "eof" => cur.last
         /\ cbc.err \notin {"nil", "eof"} => answer.err = cbc.err
      <2>1. answer.err = "closed" => cancelled /\ answer.b = <<>>
          BY <1>1 DEF Failing
      <2>2. answer.err = "closed" => rem > 0
          BY <1>1, <2>1 DEF rem
      <2> QED BY <1>1, <2>1, <2>2 DEF Failing
  <1>19. CASE answer.err = "nil" /\ rem > 0
      <2>1. done' = "none" /\ ghost.fault = "nil" /\ cbc.err \in {"nil", "eof"}
          BY <1>11, <1>17, <1>18, <1>19
      <2>2. Failing' /\ Checked'
          BY <1>2, <1>4, <1>7, <1>h, <1>18, <2>1 DEF Failing, FailureIsNamed, Checked, CleanVerdictIsTrue
      <2> QED BY <1>13, <1>14, <1>15, <1>16, <2>2
  <1>20. CASE answer.err = "eof" /\ rem > 0
      <2>1. ghost.fault = "nil" /\ cbc.err \in {"nil", "eof"} /\ cur.last
          BY <1>1, <1>17, <1>18, <1>20
      <2>2. done' \in {"closed", "truncated"} /\ (done' = "closed" => cancelled)
          BY <1>1, <1>10, <1>11, <1>12, <1>20
      <2>3. Failing' /\ Checked'
          BY <1>2, <1>4, <1>7, <1>18, <1>20, <1>h, <2>1, <2>2
             DEF Failing, FailureIsNamed, Checked, CleanVerdictIsTrue, short
      <2> QED BY <1>13, <1>14, <1>15, <1>16, <2>3
  <1>21. CASE answer.err \in {"nil", "eof"} /\ rem = 0
      <2>1. ghost.fault = "nil" /\ cbc.err \in {"nil", "eof"}
          BY <1>1, <1>17, <1>18, <1>21
      <2>2. done' = finish("nil", rem, sum, hs)
          BY <1>10, <1>11, <1>21
      <2>3. done' \in {"eof", "corrupt", "unsupported", "mismatch"}
          BY <1>10, <1>11, <1>12, <1>21
      <2>4. Failing'
          BY <1>2, <1>7, <1>18, <2>1, <2>3 DEF Failing, FailureIsNamed
      <2>5. Checked'
          <3>1. /\ done' = "eof" => rem = 0 /\ sum = Plain /\ cur.last
                /\ done' = "mismatch" => sum # Plain \/ cur.crc = "wrong" \/ cur.blake = "wrong"
              BY <1>1, <1>5, <1>h, <2>2, FinishTrue
          <3> QED BY <1>2, <1>4, <1>h, <3>1 DEF Checked, CleanVerdictIsTrue, Plain
      <2> QED BY <1>13, <1>14, <1>15, <1>16, <2>4, <2>5
  <1>22. CASE answer.err \notin {"nil", "eof"}
      <2>1. done' = IF rem > 0 /\ cancelled THEN "closed" ELSE answer.err
          BY <1>10, <1>11, <1>12, <1>22
      <2>2. done' \notin {"none", "truncated", "eof", "mismatch"}
          BY <1>3, <1>22, <2>1 DEF Error
      <2>3. done' = "closed" => cancelled /\ rem > 0
          BY <1>18, <2>1
      <2>4. Failing'
          BY <1>2, <1>4, <1>7, <1>17, <1>18, <2>1, <2>2, <2>3 DEF Failing, FailureIsNamed, short
      <2>5. Checked'
          BY <1>2, <1>4, <1>h, <2>2 DEF Checked, CleanVerdictIsTrue
      <2> QED BY <1>13, <1>14, <1>15, <1>16, <2>4, <2>5
  <1> QED BY <1>5, <1>19, <1>20, <1>21, <1>22

-----------------------------------------------------------------------------
(* The decryption. *)

(* Whole blocks in their place come out right, but for the damage. *)
LEMMA Decrypts ==
  ASSUME member.enc, bad \in Nat, NEW C \in Nat, C % CBlock = 0,
         NEW c \in Seq(Int), Len(c) % CBlock = 0, NEW iv,
         \A j \in 1 .. Len(c) : c[j] = Packed(C + j),
         \A j \in 1 .. CBlock : iv[j] = IF C = 0 THEN j - CBlock ELSE Packed(C - CBlock + j)
  PROVE  /\ CryptBlocks(iv, c) \in Seq(Int) /\ Len(CryptBlocks(iv, c)) = Len(c)
         /\ \A i \in 1 .. Len(c) : CryptBlocks(iv, c)[i] = Right(C + i)
  <1> DEFINE n == Len(c)
             start(i) == ((i - 1) \div CBlock) * CBlock + 1
             whole(i) == /\ c[start(i)] % CBlock = 1 % CBlock /\ c[start(i)] # Garbage
                         /\ \A o \in 0 .. CBlock - 1 : c[start(i) + o] = c[start(i)] + o
             prev(i) == IF i <= CBlock THEN iv[i] ELSE c[i - CBlock]
             byte(i) == IF member.key /\ whole(i) /\ prev(i) = c[i] - CBlock THEN c[i] ELSE Garbage
             plain == CryptBlocks(iv, c)
  <1>1. CBlock \in Nat /\ CBlock > 0 /\ n \in Nat
      BY ReadAssumption
  <1>2. plain = [i \in 1 .. n |-> byte(i)]
      BY DEF CryptBlocks
  <1>3. \A i \in 1 .. n : byte(i) \in Int
      <2> SUFFICES ASSUME NEW i \in 1 .. n PROVE byte(i) \in Int
          OBVIOUS
      <2>1. c[i] \in Int /\ Garbage \in Int
          BY DEF Garbage
      <2> HIDE DEF whole, prev
      <2> QED BY <2>1
  <1>4. ASSUME NEW i \in 1 .. n PROVE byte(i) = Right(C + i)
      <2> DEFINE s == start(i)
                 inblock == bad \in C + s .. C + s + CBlock - 1
                 next == bad # 0 /\ C + i = bad + CBlock
      <2>1. /\ s \in 1 .. n /\ s <= i /\ i <= s + CBlock - 1 /\ s + CBlock - 1 <= n
            /\ (s - 1) % CBlock = 0
          BY <1>1, BlockOf
      <2> HIDE DEF s
      <2>2. i \in Nat /\ s \in Nat \ {0} /\ i \in s .. s + CBlock - 1
          BY <1>1, <2>1
      <2>3. (C + s) % CBlock = 1 % CBlock
          <3>1. 1 \in Nat \ {0}
              OBVIOUS
          <3> QED BY <2>1, <2>2, <3>1, SameBlock
      <2>4. bad # 0 => ((C + i - 1) \div CBlock = (bad - 1) \div CBlock <=> inblock)
          <3> SUFFICES ASSUME bad # 0
                       PROVE  (C + i - 1) \div CBlock = (bad - 1) \div CBlock <=> inblock
              OBVIOUS
          <3>1. bad \in Nat \ {0}
              OBVIOUS
          <3> QED BY <2>1, <2>2, <3>1, SameBlock
      <2>5. inblock => bad # 0
          BY <1>1, <2>2
      <2>6. Right(C + i) = IF ~member.key \/ inblock \/ next THEN 0 ELSE C + i
          <3>1. DamagedBy(C + i) <=> ~member.key \/ inblock \/ next
              BY <2>4, <2>5 DEF DamagedBy
          <3> QED BY <3>1 DEF Right, Garbage
      <2>7. \A o \in 0 .. CBlock - 1 : s + o \in 1 .. n /\ c[s + o] = IF C + s + o = bad THEN 0 ELSE C + s + o
          <3> SUFFICES ASSUME NEW o \in 0 .. CBlock - 1
                       PROVE  s + o \in 1 .. n /\ c[s + o] = IF C + s + o = bad THEN 0 ELSE C + s + o
              OBVIOUS
          <3>1. s + o \in 1 .. n
              BY <1>1, <2>1
          <3>2. C + (s + o) = C + s + o
              BY <1>1, <2>2
          <3> QED BY <3>1, <3>2 DEF Packed, Garbage
      <2>8. whole(i) <=> ~inblock
          <3>1. c[s] = IF C + s = bad THEN 0 ELSE C + s
              <4>1. 0 \in 0 .. CBlock - 1 /\ s + 0 = s /\ C + s + 0 = C + s
                  BY <1>1, <2>2
              <4> QED BY <2>7, <4>1
          <3>2. whole(i) <=> /\ c[s] % CBlock = 1 % CBlock /\ c[s] # 0
                             /\ \A o \in 0 .. CBlock - 1 : c[s + o] = c[s] + o
              BY DEF s, Garbage
          <3>3. ASSUME ~inblock PROVE whole(i)
              <4>1. C + s # bad
                  BY <1>1, <2>2, <3>3
              <4>2. c[s] = C + s /\ c[s] # 0
                  BY <2>2, <3>1, <4>1
              <4>3. \A o \in 0 .. CBlock - 1 : C + s + o # bad
                  BY <1>1, <2>2, <3>3
              <4> QED BY <2>3, <2>7, <3>2, <4>2, <4>3
          <3>4. ASSUME inblock, whole(i) PROVE FALSE
              <4>1. PICK o \in 0 .. CBlock - 1 : bad = C + s + o
                  <5>1. bad - (C + s) \in 0 .. CBlock - 1 /\ bad = C + s + (bad - (C + s))
                      BY <1>1, <2>2, <3>4
                  <5> QED BY <5>1
              <4>2. c[s + o] = 0 /\ c[s + o] = c[s] + o /\ c[s] # 0
                  BY <2>7, <3>2, <3>4, <4>1
              <4>3. c[s] = C + s
                  BY <3>1, <4>2
              <4> QED BY <2>2, <4>2, <4>3
          <3> QED BY <3>3, <3>4
      <2>9. prev(i) = IF next THEN 0 ELSE C + i - CBlock
          <3>1. CASE i <= CBlock /\ C = 0
              <4>1. prev(i) = i - CBlock
                  BY <1>1, <2>2, <3>1
              <4>2. ~next
                  BY <1>1, <2>2, <3>1
              <4> QED BY <1>1, <2>2, <3>1, <4>1, <4>2
          <3>2. CASE i <= CBlock /\ C # 0
              <4>1. C >= CBlock
                  BY <3>2, AtLeastOneBlock
              <4>2. prev(i) = Packed(C - CBlock + i) /\ C - CBlock + i >= 1
                  BY <1>1, <2>2, <3>2, <4>1
              <4> QED BY <1>1, <2>2, <4>1, <4>2 DEF Packed, Garbage
          <3>3. CASE i > CBlock
              <4>1. i - CBlock \in 1 .. n
                  BY <1>1, <2>2, <3>3
              <4>2. prev(i) = Packed(C + (i - CBlock)) /\ C + (i - CBlock) >= 1
                  BY <1>1, <2>2, <3>3, <4>1
              <4> QED BY <1>1, <2>2, <4>1, <4>2 DEF Packed, Garbage
          <3> QED BY <1>1, <2>2, <3>1, <3>2, <3>3
      <2>10. ~inblock => c[i] = C + i
          BY <1>1, <2>2 DEF Packed
      <2>11. next => C + i - CBlock # 0
          BY <1>1, <2>2
      <2> HIDE DEF whole, prev, inblock, next
      <2>12. CASE ~inblock
          <3>1. prev(i) = c[i] - CBlock <=> ~next
              BY <1>1, <2>2, <2>9, <2>10, <2>11, <2>12
          <3> QED BY <2>6, <2>8, <2>10, <2>12, <3>1 DEF Garbage
      <2>13. CASE inblock
          BY <2>6, <2>8, <2>13 DEF Garbage
      <2> QED BY <2>12, <2>13
  <1> HIDE DEF byte
  <1>5. plain \in Seq(Int) /\ Len(plain) = n
      BY <1>1, <1>2, <1>3, IsASeq
  <1>6. \A i \in 1 .. n : plain[i] = Right(C + i)
      BY <1>2, <1>4
  <1> QED BY <1>5, <1>6

(* What holds wherever e.src.Read runs. *)
LEMMA UnderWay ==
  ASSUME IInv, pc = "src"
  PROVE  /\ done = "none" /\ remaining \in Nat /\ remaining > 0 /\ req \in Nat /\ req <= remaining
         /\ answer.b = <<>> /\ answer \in Answers /\ ghost.fault = "nil" /\ cbc.err \in {"nil", "eof"}
         /\ cbc \in CBC /\ cbc.in \in Seq(Int) /\ cbc.out \in Seq(Int) /\ cbc.iv \in Seq(Int)
         /\ out \in Seq(Int) /\ Served = out \o cbc.out /\ Served \in Seq(Int)
         /\ Len(Served) = Len(out) + Len(cbc.out) /\ Len(out) \in Nat
         /\ (cancelled => Len(out) + req <= ghost.limit) /\ ghost.limit \in Nat
         /\ (cbc.err = "eof" => cur.last)
         /\ member.enc \in BOOLEAN /\ pos \in Nat /\ bad \in Nat /\ bad <= pos
         /\ ghost \in [limit: Nat, fault: Error \ {"eof"}]
         /\ part \in [n: Nat, left: Nat] /\ cur \in Headers(member.enc)
  <1> USE DEF IInv
  <1>1. /\ done = "none" /\ remaining \in Nat /\ remaining > 0 /\ req \in Nat /\ req <= remaining
        /\ answer.b = <<>> /\ cbc \in CBC /\ out \in Seq(Int) /\ answer \in Answers
        /\ member.enc \in BOOLEAN /\ pos \in Nat /\ bad \in Nat
        /\ ghost \in [limit: Nat, fault: Error \ {"eof"}]
        /\ part \in [n: Nat, left: Nat] /\ cur \in Headers(member.enc)
      BY DEF Types, Control
  <1>2. cbc.in \in Seq(Int) /\ cbc.out \in Seq(Int) /\ cbc.iv \in Seq(Int) /\ cbc.err \in Error
      BY <1>1, CBCFields
  <1>3. ghost.fault = "nil" /\ cbc.err \in {"nil", "eof"} /\ (cbc.err = "eof" => cur.last)
      BY <1>1 DEF Failing, Error
  <1>4. Served = out \o cbc.out
      BY <1>1 DEF Served
  <1>5. Served \in Seq(Int) /\ Len(Served) = Len(out) + Len(cbc.out) /\ Len(out) \in Nat
      BY <1>1, <1>2, <1>4, ConcatProperties
  <1>6. cancelled => Len(out) + req <= ghost.limit
      BY DEF Closing, Owed
  <1>7. bad <= pos
      BY DEF Content
  <1> QED BY <1>1, <1>2, <1>3, <1>4, <1>5, <1>6, <1>7

(* A step of the chain leaves the entry alone, and answers with no more     *)
(* than was asked for or not at all.                                        *)
Calm == /\ UNCHANGED <<member, hash, crc, remaining, done, req, draining, cancelled, out>>
        /\ answer' \in Answers /\ cbc' \in CBC
        /\ \/ pc' = "ret" /\ Len(answer'.b) <= req
           \/ pc' = "src" /\ answer' = answer

LEMMA CalmStep ==
  ASSUME IInv, pc = "src", Calm, pos' \in Nat, bad' \in Nat, part' \in [n: Nat, left: Nat],
         cur' \in Headers(member.enc), ghost' \in [limit: Nat, fault: Error \ {"eof"}],
         ghost'.limit = ghost.limit
  PROVE  Types' /\ Control' /\ Closing' /\ Checked'
  <1>1. /\ done = "none" /\ remaining > 0 /\ remaining \in Nat /\ req \in Nat /\ req <= remaining
        /\ answer.b = <<>> /\ Len(out) \in Nat
        /\ (cancelled => Len(out) + req <= ghost.limit) /\ ghost.limit \in Nat
      BY UnderWay
  <1>2. UNCHANGED <<member, hash, crc, remaining, done, req, draining, cancelled, out>>
        /\ answer' \in Answers /\ cbc' \in CBC /\ Len(answer'.b) \in Nat
        /\ ((pc' = "ret" /\ Len(answer'.b) <= req) \/ (pc' = "src" /\ answer' = answer))
      <2>1. answer' \in Answers
          BY DEF Calm
      <2>2. Len(answer'.b) \in Nat
          BY <2>1 DEF Answers
      <2> QED BY <2>2 DEF Calm
  <1>3. Types'
      BY <1>2 DEF IInv, Types
  <1>4. Control'
      BY <1>1, <1>2 DEF IInv, Control
  <1>5. Closing'
      <2>1. Owed' <= req /\ Owed' \in Nat
          BY <1>1, <1>2 DEF Owed
      <2> QED BY <1>1, <1>2, <2>1 DEF Closing
  <1>6. Checked'
      BY <1>1, <1>2 DEF IInv, Checked, CleanVerdictIsTrue
  <1> QED BY <1>3, <1>4, <1>5, <1>6

LEMMA CBCServeStep ==
  ASSUME IInv, CBCServe
  PROVE  IInv'
  <1> DEFINE t == Take(cbc.out, req)
             r == Rest(cbc.out, req)
  <1>1. /\ pc = "src" /\ member.enc /\ pc' = "ret" /\ answer' = [b |-> t, err |-> "nil"]
        /\ cbc' = [cbc EXCEPT !.out = r]
        /\ UNCHANGED <<member, cur, part, pos, bad, hash, crc, remaining, done, req, draining,
                       cancelled, out, ghost>>
      BY DEF CBCServe, AnswerIs
  <1>2. /\ t \in Seq(Int) /\ r \in Seq(Int) /\ Len(t) <= req /\ t \o r = cbc.out
      BY <1>1, UnderWay, TakeRest
  <1> HIDE DEF t, r
  <1>3. answer' \in Answers /\ answer'.b = t /\ answer'.err = "nil"
      BY <1>1, <1>2 DEF Answers, Error
  <1>4. cbc' \in CBC /\ cbc'.in = cbc.in /\ cbc'.out = r /\ cbc'.iv = cbc.iv /\ cbc'.err = cbc.err
      BY <1>1, <1>2, UnderWay, CBCUpdates, CBCFields DEF Error
  <1>5. Types' /\ Control' /\ Closing' /\ Checked'
      <2>1. Calm
          BY <1>1, <1>2, <1>3, <1>4 DEF Calm
      <2> QED BY <1>1, <2>1, UnderWay, CalmStep
  <1>6. Failing'
      <2>1. ghost.fault = "nil" /\ cbc.err \in {"nil", "eof"} /\ done = "none"
          BY <1>1, UnderWay
      <2> QED BY <1>1, <1>3, <1>4, <2>1 DEF IInv, Failing, FailureIsNamed
  <1>7. Content'
      <2>1. Served' = (out \o t) \o r
          BY <1>1, <1>3, <1>4 DEF Served
      <2>2. Served' = Served
          <3>1. out \in Seq(Int) /\ Served = out \o cbc.out
              BY <1>1, UnderWay
          <3>2. \A a, b, c \in Seq(Int) : (a \o b) \o c = a \o (b \o c)
              BY ConcatAssociative
          <3>3. (out \o t) \o r = out \o (t \o r)
              BY <1>2, <3>1, <3>2
          <3> QED BY <1>2, <2>1, <3>1, <3>3
      <2> QED BY <1>1, <1>4, <2>2 DEF IInv, Content, Right, Packed, DamagedBy
  <1> QED BY <1>5, <1>6, <1>7 DEF IInv

LEMMA WholeBlocks ==
  ASSUME NEW n \in Nat, n >= CBlock, NEW C \in Nat, C % CBlock = 0
  PROVE  LET w == (n \div CBlock) * CBlock
         IN  w \in Nat /\ w <= n /\ w >= CBlock /\ w % CBlock = 0 /\ (C + w) % CBlock = 0
  <1> USE ReadAssumption
  <1> DEFINE q == n \div CBlock
             p == C \div CBlock
  <1>1. q \in Nat /\ q * CBlock <= n /\ n < q * CBlock + CBlock /\ p \in Nat /\ C = p * CBlock
      OBVIOUS
  <1> HIDE DEF q, p
  <1>2. q >= 1
      BY <1>1
  <1>3. q * CBlock >= 1 * CBlock /\ q * CBlock \in Nat
      BY <1>1, <1>2
  <1>4. (q * CBlock) % CBlock = 0
      BY <1>1, MultipleOf
  <1>5. C + q * CBlock = (p + q) * CBlock /\ p + q \in Nat
      BY <1>1
  <1>6. ((p + q) * CBlock) % CBlock = 0
      BY <1>5, MultipleOf
  <1> QED BY <1>1, <1>3, <1>4, <1>5, <1>6 DEF q

LEMMA CBCDecryptStep ==
  ASSUME IInv, CBCDecrypt
  PROVE  IInv'
  <1> DEFINE C == Len(Served)
             w == (Len(cbc.in) \div CBlock) * CBlock
             c == Take(cbc.in, w)
             plain == CryptBlocks(cbc.iv, c)
             t == Take(plain, req)
             r == Rest(plain, req)
             in2 == Rest(cbc.in, w)
             iv2 == SubSeq(cbc.in, w - CBlock + 1, w)
  <1>0. CBlock \in Nat /\ CBlock > 0
      BY ReadAssumption
  <1>1. /\ pc = "src" /\ member.enc /\ cbc.out = <<>> /\ Len(cbc.in) >= CBlock
        /\ pc' = "ret" /\ answer' = [b |-> t, err |-> "nil"]
        /\ cbc' = [cbc EXCEPT !.in = in2, !.out = r, !.iv = iv2]
        /\ UNCHANGED <<member, cur, part, pos, bad, hash, crc, remaining, done, req, draining,
                       cancelled, out, ghost>>
      BY DEF CBCDecrypt, AnswerIs, Carried
  <1>2. /\ cbc \in CBC /\ cbc.in \in Seq(Int) /\ cbc.iv \in Seq(Int) /\ cbc.err \in {"nil", "eof"}
        /\ out \in Seq(Int) /\ req \in Nat /\ bad \in Nat /\ Len(cbc.in) \in Nat
        /\ Served = out /\ C = Len(out) /\ C \in Nat
      <2>1. Served = out \o <<>> /\ out \in Seq(Int)
          BY <1>1, UnderWay
      <2>2. Served = out
          BY <2>1, ConcatEmptySeq
      <2>3. cbc.in \in Seq(Int) /\ out \in Seq(Int)
          BY <1>1, UnderWay
      <2>4. Len(cbc.in) \in Nat /\ Len(out) \in Nat
          BY <2>3
      <2> QED BY <1>1, <2>2, <2>4, UnderWay
  <1>3. /\ \A i \in 1 .. C : Served[i] = Right(i)
        /\ C + Len(cbc.in) = pos /\ C <= pos /\ bad <= pos /\ C % CBlock = 0
        /\ \A j \in 1 .. Len(cbc.in) : cbc.in[j] = Packed(C + j)
        /\ \A j \in 1 .. CBlock : cbc.iv[j] = IF C = 0 THEN j - CBlock ELSE Packed(C - CBlock + j)
      BY <1>1, <1>2 DEF IInv, Content
  <1> HIDE DEF C
  <1>4. w \in Nat /\ w <= Len(cbc.in) /\ w >= CBlock /\ w % CBlock = 0 /\ (C + w) % CBlock = 0
      BY <1>1, <1>2, <1>3, WholeBlocks
  <1> HIDE DEF w
  <1>a. /\ w \in Nat /\ Len(cbc.in) \in Nat /\ C \in Nat /\ CBlock \in Nat /\ CBlock >= 1
        /\ w <= Len(cbc.in) /\ w >= CBlock
      BY <1>0, <1>2, <1>4
  <1>b. /\ cbc \in CBC /\ cbc.in \in Seq(Int) /\ cbc.iv \in Seq(Int) /\ out \in Seq(Int)
      BY <1>2
  <1>c. \A j \in 1 .. Len(cbc.in) : cbc.in[j] = Packed(C + j)
      BY <1>3
  <1>5. /\ c \in Seq(Int) /\ Len(c) = w /\ \A j \in 1 .. w : c[j] = cbc.in[j]
        /\ in2 \in Seq(Int) /\ Len(in2) = Len(cbc.in) - w
        /\ \A j \in 1 .. Len(cbc.in) - w : in2[j] = cbc.in[w + j]
      <2>1. /\ c \in Seq(Int) /\ in2 \in Seq(Int) /\ Len(c) + Len(in2) = Len(cbc.in) /\ Len(c) = w
            /\ \A j \in 1 .. Len(c) : c[j] = cbc.in[j]
            /\ \A j \in 1 .. Len(cbc.in) - w : in2[j] = cbc.in[w + j]
          BY <1>2, <1>4, TakeRest
      <2>2. Len(in2) \in Nat
          BY <2>1
      <2> HIDE DEF c, in2
      <2> QED BY <1>2, <1>4, <2>1, <2>2
  <1>6. /\ iv2 \in Seq(Int) /\ Len(iv2) = CBlock
        /\ \A j \in 1 .. CBlock : iv2[j] = cbc.in[w - CBlock + j]
      <2>1. w - CBlock + 1 \in 1 .. Len(cbc.in) + 1 /\ w \in 0 .. Len(cbc.in)
          BY <1>a
      <2>2. /\ iv2 \in Seq(Int)
            /\ Len(iv2) = IF w - CBlock + 1 <= w THEN w - (w - CBlock + 1) + 1 ELSE 0
            /\ \A i \in 1 .. w - (w - CBlock + 1) + 1 : iv2[i] = cbc.in[w - CBlock + 1 + i - 1]
          <3>1. \A i \in w - CBlock + 1 .. w : cbc.in[i] \in Int
              BY <1>a, <1>b
          <3> QED BY <1>a, <1>b, <2>1, <3>1, SubSeqProperties
      <2>3. \A j \in 1 .. CBlock : j \in 1 .. w - (w - CBlock + 1) + 1
                                   /\ w - CBlock + 1 + j - 1 = w - CBlock + j
          BY <1>0, <1>4
      <2>4. Len(iv2) = CBlock
          BY <1>0, <1>4, <2>2
      <2> HIDE DEF iv2
      <2> QED BY <2>2, <2>3, <2>4
  <1> HIDE DEF c, in2, iv2
  <1>7. /\ plain \in Seq(Int) /\ Len(plain) = w
        /\ \A i \in 1 .. w : plain[i] = Right(C + i)
      <2>1. \A j \in 1 .. Len(c) : c[j] = Packed(C + j)
          <3>1. \A j \in 1 .. w : j \in 1 .. Len(cbc.in)
              BY <1>a
          <3> QED BY <1>c, <1>5, <3>1
      <2>2. Len(c) % CBlock = 0
          BY <1>4, <1>5
      <2>3. /\ member.enc /\ bad \in Nat /\ C \in Nat /\ C % CBlock = 0 /\ c \in Seq(Int)
            /\ \A j \in 1 .. CBlock : cbc.iv[j] = IF C = 0 THEN j - CBlock ELSE Packed(C - CBlock + j)
          BY <1>1, <1>2, <1>3, <1>5
      <2>4. /\ plain \in Seq(Int) /\ Len(plain) = Len(c)
            /\ \A i \in 1 .. Len(c) : plain[i] = Right(C + i)
          BY <2>1, <2>2, <2>3, Decrypts
      <2> QED BY <1>5, <2>4
  <1> HIDE DEF plain
  <1>8. t \in Seq(Int) /\ r \in Seq(Int) /\ Len(t) <= req /\ t \o r = plain
      BY <1>2, <1>7, TakeRest
  <1> HIDE DEF t, r
  <1>9. answer' \in Answers /\ answer'.b = t /\ answer'.err = "nil"
      BY <1>1, <1>8 DEF Answers, Error
  <1>10. cbc' \in CBC /\ cbc'.in = in2 /\ cbc'.out = r /\ cbc'.iv = iv2 /\ cbc'.err = cbc.err
      <2>1. in2 \in Seq(Int) /\ iv2 \in Seq(Int) /\ r \in Seq(Int) /\ "nil" \in Error
          BY <1>5, <1>6, <1>8 DEF Error
      <2>2. cbc' \in CBC
          BY <1>1, <1>b, <2>1, CBCUpdates
      <2>3. cbc'.in = in2 /\ cbc'.out = r /\ cbc'.iv = iv2 /\ cbc'.err = cbc.err
          BY <1>1, <1>b, CBCFields
      <2> QED BY <2>2, <2>3
  <1>11. Types' /\ Control' /\ Closing' /\ Checked'
      <2>1. Calm
          BY <1>1, <1>8, <1>9, <1>10 DEF Calm
      <2> QED BY <1>1, <2>1, UnderWay, CalmStep
  <1>12. Failing'
      <2>1. ghost.fault = "nil" /\ done = "none"
          BY <1>1, UnderWay
      <2> QED BY <1>1, <1>2, <1>9, <1>10, <2>1 DEF IInv, Failing, FailureIsNamed
  <1>13. Served' = out \o plain
      <2>1. Served' = (out \o t) \o r
          BY <1>1, <1>9, <1>10 DEF Served
      <2>2. \A x, y, z \in Seq(Int) : (x \o y) \o z = x \o (y \o z)
          BY ConcatAssociative
      <2>3. (out \o t) \o r = out \o (t \o r)
          BY <1>2, <1>8, <2>2
      <2> QED BY <1>8, <2>1, <2>3
  <1>14. /\ Len(Served') = C + w
         /\ \A i \in 1 .. C + w : Served'[i] = IF i <= C THEN out[i] ELSE plain[i - C]
      BY <1>2, <1>7, <1>13, ConcatProperties
  <1>15. \A i \in 1 .. C + w : Served'[i] = Right(i)
      <2> SUFFICES ASSUME NEW i \in 1 .. C + w PROVE Served'[i] = Right(i)
          OBVIOUS
      <2>1. CASE i <= C
          BY <1>2, <1>3, <1>14, <2>1
      <2>2. CASE i > C
          <3>1. i - C \in 1 .. w /\ C + (i - C) = i
              BY <1>a, <2>2
          <3>2. plain[i - C] = Right(C + (i - C))
              BY <1>7, <3>1
          <3>3. ~(i <= C)
              BY <1>a, <2>2
          <3> QED BY <1>14, <3>1, <3>2, <3>3
      <2> QED BY <1>a, <2>1, <2>2
  <1>16. \A i : Right(i)' = Right(i)
      BY <1>1 DEF Right, DamagedBy
  <1>17. /\ C + w + Len(in2) = pos
         /\ \A j \in 1 .. Len(in2) : in2[j] = Packed(C + w + j)
      <2>1. \A j \in 1 .. Len(in2) : w + j \in 1 .. Len(cbc.in) /\ C + (w + j) = C + w + j
          BY <1>a, <1>5
      <2>2. C + w + Len(in2) = pos
          <3>1. C + Len(cbc.in) = pos /\ Len(in2) = Len(cbc.in) - w
              BY <1>3, <1>5
          <3>2. \A x, y, z \in Nat : x + y + (z - y) = x + z
              OBVIOUS
          <3>3. C + w + (Len(cbc.in) - w) = C + Len(cbc.in)
              BY <1>a, <3>2
          <3> QED BY <3>1, <3>3
      <2>3. ASSUME NEW j \in 1 .. Len(in2) PROVE in2[j] = Packed(C + w + j)
          <3>1. in2[j] = cbc.in[w + j]
              BY <1>5
          <3> QED BY <1>c, <2>1, <3>1
      <2> QED BY <2>2, <2>3
  <1>18. \A j \in 1 .. CBlock : iv2[j] = IF C + w = 0 THEN j - CBlock ELSE Packed(C + w - CBlock + j)
      <2> SUFFICES ASSUME NEW j \in 1 .. CBlock PROVE iv2[j] = Packed(C + w - CBlock + j)
          BY <1>a
      <2>1. w - CBlock + j \in 1 .. Len(cbc.in) /\ C + (w - CBlock + j) = C + w - CBlock + j
          BY <1>a
      <2> QED BY <1>c, <1>6, <2>1
  <1>19. Content'
      <2>1. Len(Served') <= pos'
          <3>1. Len(in2) \in Nat /\ pos' = pos
              BY <1>1, <1>5
          <3> QED BY <1>a, <1>14, <1>17, <3>1
      <2>2. \A i \in 1 .. Len(Served') : Served'[i] = Right(i)'
          BY <1>14, <1>15, <1>16
      <2>3. bad' <= pos' /\ member'.enc /\ Len(Served') % CBlock = 0
          BY <1>1, <1>3, <1>4, <1>14
      <2>4. Len(Served') + Len(cbc'.in) = pos'
          BY <1>1, <1>10, <1>14, <1>17
      <2>5. \A j \in 1 .. Len(cbc'.in) :
               cbc'.in[j] = IF Len(Served') + j = bad' THEN Garbage ELSE Len(Served') + j
          <3>1. \A j \in 1 .. Len(in2) : in2[j] = IF C + w + j = bad THEN Garbage ELSE C + w + j
              BY <1>17 DEF Packed
          <3>2. cbc'.in = in2 /\ Len(Served') = C + w /\ bad' = bad
              BY <1>1, <1>10, <1>14
          <3> QED BY <3>1, <3>2
      <2>6. \A j \in 1 .. CBlock :
               cbc'.iv[j] = IF Len(Served') = 0 THEN j - CBlock
                            ELSE IF Len(Served') - CBlock + j = bad' THEN Garbage
                                 ELSE Len(Served') - CBlock + j
          <3>1. \A j \in 1 .. CBlock :
                   iv2[j] = IF C + w = 0 THEN j - CBlock
                            ELSE IF C + w - CBlock + j = bad THEN Garbage ELSE C + w - CBlock + j
              BY <1>18 DEF Packed
          <3>2. cbc'.iv = iv2 /\ Len(Served') = C + w /\ bad' = bad
              BY <1>1, <1>10, <1>14
          <3> QED BY <1>a, <3>1, <3>2
      <2> QED BY <2>1, <2>2, <2>3, <2>4, <2>5, <2>6 DEF Content, Packed
  <1> QED BY <1>11, <1>12, <1>19 DEF IInv

LEMMA CBCEndsStep ==
  ASSUME IInv, CBCEnds
  PROVE  IInv'
  <1> DEFINE e == IF cbc.in = <<>> THEN cbc.err ELSE "cut"
  <1>1. /\ pc = "src" /\ member.enc /\ cbc.out = <<>> /\ cbc.err # "nil"
        /\ cbc' = [cbc EXCEPT !.in = <<>>, !.err = e]
        /\ pc' = "ret" /\ answer' = [b |-> <<>>, err |-> cbc'.err]
        /\ UNCHANGED <<member, cur, part, pos, bad, hash, crc, remaining, done, req, draining,
                       cancelled, out, ghost>>
      BY DEF CBCEnds, AnswerIs
  <1>2. cbc.err = "eof" /\ cur.last /\ cbc \in CBC /\ cbc.in \in Seq(Int) /\ answer.b = <<>>
      BY <1>1, UnderWay
  <1>3. e \in {"eof", "cut"} /\ e \in Error /\ (e = "eof" => cbc.in = <<>>)
      BY <1>2 DEF Error
  <1> HIDE DEF e
  <1>4. cbc' \in CBC /\ cbc'.in = <<>> /\ cbc'.out = cbc.out /\ cbc'.iv = cbc.iv /\ cbc'.err = e
      <2>1. <<>> \in Seq(Int)
          OBVIOUS
      <2>2. cbc' \in CBC
          BY <1>1, <1>2, <1>3, <2>1, CBCUpdates
      <2>3. cbc'.in = <<>> /\ cbc'.out = cbc.out /\ cbc'.iv = cbc.iv /\ cbc'.err = e
          BY <1>1, <1>2, CBCFields
      <2> QED BY <2>2, <2>3
  <1>5. answer' \in Answers /\ answer'.b = <<>> /\ answer'.err = e
      BY <1>1, <1>3, <1>4 DEF Answers
  <1>6. Types' /\ Control' /\ Closing' /\ Checked'
      <2>1. Calm
          <3>1. Len(answer'.b) <= req
              BY <1>1, <1>5, UnderWay
          <3> QED BY <1>1, <1>4, <1>5, <3>1 DEF Calm
      <2> QED BY <1>1, <2>1, UnderWay, CalmStep
  <1>7. Failing'
      <2>1. ghost.fault = "nil" /\ done = "none"
          BY <1>1, UnderWay
      <2> QED BY <1>1, <1>2, <1>3, <1>4, <1>5, <2>1 DEF IInv, Failing, FailureIsNamed
  <1>8. Content'
      <2>1. Served' = Served
          BY <1>1, <1>2, <1>4, <1>5 DEF Served
      <2>2. e = "eof" => cbc'.in = cbc.in
          BY <1>3, <1>4
      <2>3. \A i : Right(i)' = Right(i)
          BY <1>1 DEF Right, DamagedBy
      <2> QED BY <1>1, <1>2, <1>3, <1>4, <2>1, <2>2, <2>3 DEF IInv, Content, Packed
  <1> QED BY <1>6, <1>7, <1>8 DEF IInv

-----------------------------------------------------------------------------
(* The streams. *)

(* The source answers without bytes: an end, or a failure. *)
LEMMA GivesNothing ==
  ASSUME IInv, AtSource, NEW e \in Error \ {"nil"}, Gives(<<>>, e),
         e = "eof" => cur.last, e = "closed" => cancelled,
         UNCHANGED <<member, cur, part, pos, bad, hash, crc, remaining, done, req, draining,
                     cancelled, out>>,
         ghost' = [ghost EXCEPT !.fault = IF e = "eof" THEN @ ELSE e]
  PROVE  IInv'
  <1>1. /\ pc = "src" /\ answer.b = <<>> /\ ghost.fault = "nil" /\ done = "none"
        /\ cbc \in CBC /\ cbc.err \in {"nil", "eof"} /\ cbc.in \in Seq(Int)
        /\ answer \in Answers /\ req \in Nat /\ member.enc \in BOOLEAN
        /\ (cbc.err = "eof" => cur.last) /\ ghost \in [limit: Nat, fault: Error \ {"eof"}]
      BY UnderWay DEF AtSource
  <1>2. /\ ghost' \in [limit: Nat, fault: Error \ {"eof"}] /\ ghost'.limit = ghost.limit
        /\ ghost'.fault = IF e = "eof" THEN "nil" ELSE e
      BY <1>1 DEF Error
  <1>3. <<>> \in Seq(Int)
      OBVIOUS
  <1>4. \A i : Right(i)' = Right(i)
      BY DEF Right, DamagedBy
  <1>5. CASE ~member.enc
      <2>1. pc' = "ret" /\ answer' = [b |-> <<>>, err |-> e] /\ cbc' = cbc
          BY <1>5 DEF Gives, AnswerIs
      <2>2. answer' \in Answers /\ answer'.b = <<>> /\ answer'.err = e
          BY <1>3, <2>1 DEF Answers
      <2>3. Types' /\ Control' /\ Closing' /\ Checked'
          <3>1. Calm
              BY <1>1, <2>1, <2>2 DEF Calm
          <3> QED BY <1>1, <1>2, <3>1, UnderWay, CalmStep
      <2>4. Failing'
          BY <1>1, <1>2, <2>1, <2>2 DEF IInv, Failing, FailureIsNamed
      <2>5. Content'
          <3>1. Served' = Served
              BY <1>1, <2>1, <2>2 DEF Served
          <3> QED BY <2>1, <3>1, ContentKept DEF IInv
      <2> QED BY <2>3, <2>4, <2>5 DEF IInv
  <1>6. CASE member.enc /\ e = "eof"
      <2>1. cbc' = [cbc EXCEPT !.in = cbc.in \o <<>>, !.err = e] /\ pc' = pc /\ answer' = answer
          BY <1>1, <1>6 DEF Gives
      <2>2. cbc' = [cbc EXCEPT !.in = cbc.in, !.err = e]
          <3>1. cbc.in \o <<>> = cbc.in
              BY <1>1
          <3> QED BY <2>1, <3>1
      <2>3. cbc' \in CBC
          BY <1>1, <1>3, <2>2, CBCUpdates
      <2>4. cbc'.in = cbc.in /\ cbc'.out = cbc.out /\ cbc'.iv = cbc.iv /\ cbc'.err = e
          BY <1>1, <2>2, CBCFields
      <2>5. Types' /\ Control' /\ Closing' /\ Checked'
          <3>1. Calm
              BY <1>1, <2>1, <2>3 DEF Calm
          <3> QED BY <1>1, <1>2, <3>1, UnderWay, CalmStep
      <2>6. Failing'
          BY <1>1, <1>2, <1>6, <2>1, <2>4 DEF IInv, Failing, FailureIsNamed
      <2>7. Content'
          <3>1. Served' = Served
              BY <2>1, <2>4 DEF Served
          <3> QED BY <1>1, <1>4, <1>6, <2>4, <3>1 DEF IInv, Content, Packed
      <2> QED BY <2>5, <2>6, <2>7 DEF IInv
  <1>7. CASE member.enc /\ e # "eof"
      <2>1. /\ cbc' = [cbc EXCEPT !.in = <<>>, !.err = e]
            /\ pc' = "ret" /\ answer' = [b |-> <<>>, err |-> e]
          BY <1>1, <1>7 DEF Gives, AnswerIs
      <2>2. answer' \in Answers /\ answer'.b = <<>> /\ answer'.err = e
          BY <1>3, <2>1 DEF Answers
      <2>3. cbc' \in CBC
          BY <1>1, <1>3, <2>1, CBCUpdates
      <2>4. cbc'.out = cbc.out /\ cbc'.err = e
          BY <1>1, <2>1, CBCFields
      <2>5. Types' /\ Control' /\ Closing' /\ Checked'
          <3>1. Calm
              BY <1>1, <2>1, <2>2, <2>3 DEF Calm
          <3> QED BY <1>1, <1>2, <3>1, UnderWay, CalmStep
      <2>6. Failing'
          BY <1>1, <1>2, <1>7, <2>1, <2>2, <2>4 DEF IInv, Failing, FailureIsNamed
      <2>7. Content'
          <3>1. Served' = Served
              BY <1>1, <2>2, <2>4 DEF Served
          <3> QED BY <1>4, <1>7, <2>4, <3>1 DEF IInv, Content
      <2> QED BY <2>5, <2>6, <2>7 DEF IInv
  <1> QED BY <1>1, <1>5, <1>6, <1>7

LEMMA FaultStep ==
  ASSUME IInv, Fault
  PROVE  IInv'
  <1>1. "io" \in Error \ {"nil"} /\ "io" # "eof" /\ "io" # "closed"
      BY DEF Error
  <1> QED BY <1>1, GivesNothing DEF Fault

LEMMA SourceEndsStep ==
  ASSUME IInv, SourceEnds
  PROVE  IInv'
  <1>1. "eof" \in Error \ {"nil"} /\ "cut" \in Error \ {"nil"}
      BY DEF Error
  <1>2. AtSource /\ ghost \in [limit: Nat, fault: Error \ {"eof"}]
      BY UnderWay DEF SourceEnds, AtSource
  <1>3. ghost = [ghost EXCEPT !.fault = ghost.fault]
      BY <1>2
  <1>4. UNCHANGED <<member, cur, part, pos, bad, hash, crc, remaining, done, req, draining,
                    cancelled, out>>
      BY DEF SourceEnds
  <1>5. CASE cur.last /\ Gives(<<>>, "eof") /\ UNCHANGED ghost
      BY <1>1, <1>2, <1>3, <1>4, <1>5, GivesNothing
  <1>6. CASE Gives(<<>>, "cut") /\ ghost' = [ghost EXCEPT !.fault = "cut"]
      BY <1>1, <1>2, <1>4, <1>6, GivesNothing
  <1> QED BY <1>5, <1>6 DEF SourceEnds

LEMMA NextPartStep ==
  ASSUME IInv, NextPart
  PROVE  IInv'
  <1>1. AtSource /\ pc = "src" /\ ~cur.last
      BY DEF NextPart, AtSource
  <1>2. UNCHANGED <<member, pos, bad, hash, crc, remaining, done, req, draining, cancelled, out>>
      BY DEF NextPart
  <1>3. CASE /\ \E fh \in Headers(member.enc), n \in Payloads :
                  cur' = fh /\ part' = [n |-> part.n + 1, left |-> n]
             /\ UNCHANGED <<cbc, pc, answer, ghost>>
      <2>1. cur' \in Headers(member.enc)
          BY <1>3
      <2>2. part' \in [n: Nat, left: Nat]
          <3>1. part.n \in Nat
              BY <1>1, UnderWay
          <3> QED BY <1>3, <3>1, ReadAssumption
      <2>3. Types' /\ Control' /\ Closing' /\ Checked'
          <3>1. Calm
              BY <1>1, <1>2, <1>3, UnderWay DEF Calm
          <3> QED BY <1>1, <1>2, <1>3, <2>1, <2>2, <3>1, UnderWay, CalmStep
      <2>4. Failing'
          BY <1>1, <1>2, <1>3, UnderWay DEF IInv, Failing, FailureIsNamed
      <2>5. Content'
          BY <1>2, <1>3, ContentKept DEF IInv, Served
      <2> QED BY <2>3, <2>4, <2>5 DEF IInv
  <1>4. CASE /\ \E e \in IF cancelled THEN {"closed", "archive"} ELSE {"archive"} :
                  Gives(<<>>, e) /\ ghost' = [ghost EXCEPT !.fault = e]
             /\ UNCHANGED <<cur, part>>
      <2>1. PICK e \in IF cancelled THEN {"closed", "archive"} ELSE {"archive"} :
                  Gives(<<>>, e) /\ ghost' = [ghost EXCEPT !.fault = e]
          BY <1>4
      <2>2. e \in Error \ {"nil"} /\ e # "eof" /\ (e = "closed" => cancelled)
          BY <2>1 DEF Error
      <2> QED BY <1>1, <1>2, <1>4, <2>1, <2>2, GivesNothing
  <1> QED BY <1>3, <1>4 DEF NextPart

(* Damage is met where it lies: it changes nothing that came out before. *)
LEMMA DamageAhead ==
  ASSUME bad \in Nat, bad' \in Nat, member' = member, NEW N \in Nat,
         bad' = bad \/ (bad = 0 /\ bad' > N), member.enc => N % CBlock = 0,
         NEW i \in 1 .. N
  PROVE  Right(i)' = Right(i)
  <1>1. CASE bad' = bad
      BY <1>1 DEF Right, DamagedBy
  <1>2. CASE bad = 0 /\ bad' > N
      <2>1. CASE ~member.enc
          BY <1>2, <2>1 DEF Right, DamagedBy
      <2>2. CASE member.enc
          <3> DEFINE s == ((i - 1) \div CBlock) * CBlock + 1
          <3>0. CBlock \in Nat /\ CBlock > 0
              BY ReadAssumption
          <3>1. /\ s \in 1 .. N /\ s <= i /\ i <= s + CBlock - 1 /\ s + CBlock - 1 <= N
                /\ (s - 1) % CBlock = 0
              BY <2>2, BlockOf
          <3> HIDE DEF s
          <3>2. 0 \in Nat /\ 0 % CBlock = 0 /\ s \in Nat \ {0} /\ i \in s .. s + CBlock - 1
                /\ bad' \in Nat \ {0}
              BY <1>2, <3>0, <3>1
          <3>3. \A b \in Nat \ {0} :
                   (0 + i - 1) \div CBlock = (b - 1) \div CBlock <=> b \in 0 + s .. 0 + s + CBlock - 1
              BY <3>1, <3>2, SameBlock
          <3>4. bad' \notin 0 + s .. 0 + s + CBlock - 1 /\ 0 + i - 1 = i - 1
              BY <1>2, <3>0, <3>1
          <3>5. (i - 1) \div CBlock # (bad' - 1) \div CBlock
              BY <3>2, <3>3, <3>4
          <3>6. i # bad' + CBlock
              <4>1. \A x, y, z, w \in Nat : x <= y /\ z > y => x # z + w
                  OBVIOUS
              <4>2. i \in Nat /\ i <= N
                  OBVIOUS
              <4> QED BY <1>2, <3>0, <4>1, <4>2
          <3> QED BY <1>2, <2>2, <3>5, <3>6 DEF Right, DamagedBy
      <2> QED BY <2>1, <2>2
  <1> QED BY <1>1, <1>2

LEMMA PieceStep ==
  ASSUME IInv, Piece
  PROVE  IInv'
  <1>1. PICK n \in 1 .. Min({Room, part.left}), e \in {"nil", "io"} :
          /\ bad' \in IF bad # 0 THEN {bad}
                      ELSE {0} \cup (Damaged \cap (pos + 1 .. pos + n))
          /\ Gives([i \in 1 .. n |-> IF pos + i = bad' THEN Garbage ELSE pos + i], e)
          /\ pos' = pos + n
          /\ part' = [part EXCEPT !.left = @ - n]
          /\ ghost' = [ghost EXCEPT !.fault = IF e = "io" THEN e ELSE @]
      BY DEF Piece
  <1>2. /\ AtSource /\ pc = "src"
        /\ UNCHANGED <<member, cur, hash, crc, remaining, done, req, draining, cancelled, out>>
      BY DEF Piece, AtSource
  <1> DEFINE b == [i \in 1 .. n |-> IF pos + i = bad' THEN Garbage ELSE pos + i]
             C == Len(Served)
  <1>3. /\ answer.b = <<>> /\ ghost.fault = "nil" /\ done = "none"
        /\ cbc \in CBC /\ cbc.err \in {"nil", "eof"} /\ cbc.in \in Seq(Int) /\ cbc.out \in Seq(Int)
        /\ out \in Seq(Int) /\ Served = out \o cbc.out /\ Served \in Seq(Int)
        /\ answer \in Answers /\ req \in Nat /\ member.enc \in BOOLEAN
        /\ (cbc.err = "eof" => cur.last) /\ ghost \in [limit: Nat, fault: Error \ {"eof"}]
        /\ part \in [n: Nat, left: Nat] /\ pos \in Nat /\ bad \in Nat /\ bad <= pos
        /\ cur \in Headers(member.enc)
      BY <1>2, UnderWay
  <1>4. C \in Nat /\ Len(cbc.in) \in Nat
      BY <1>3
  <1>5. /\ \A i \in 1 .. C : Served[i] = Right(i)
        /\ C <= pos
        /\ (~member.enc => C = pos /\ cbc.out = <<>>)
        /\ (member.enc => C % CBlock = 0)
        /\ (member.enc =>
              /\ C + Len(cbc.in) = pos
              /\ \A j \in 1 .. Len(cbc.in) : cbc.in[j] = Packed(C + j)
              /\ \A j \in 1 .. CBlock :
                   cbc.iv[j] = IF C = 0 THEN j - CBlock ELSE Packed(C - CBlock + j))
      BY <1>3 DEF IInv, Content
  <1> HIDE DEF C
  <1>6. n \in Nat /\ n >= 1 /\ n <= part.left /\ n <= Room
      <2>1. Room \in Int
          BY <1>3, <1>4, ReadAssumption DEF Room
      <2>2. part.left \in Nat
          BY <1>3
      <2>3. CASE Room \in Nat
          <3>1. Min({Room, part.left}) = IF Room <= part.left THEN Room ELSE part.left
              BY <2>2, <2>3, MinOfTwo
          <3> QED BY <2>2, <2>3, <3>1
      <2>4. CASE Room < 0
          <3> DEFINE m == Room
          <3>1. m \in {m, part.left} /\ \A y \in {m, part.left} : m <= y
              BY <2>1, <2>2, <2>4
          <3>2. \A x \in {m, part.left} : (\A y \in {m, part.left} : x <= y) => x = m
              BY <2>1, <2>2, <2>4
          <3>3. Min({m, part.left}) = m
              BY <3>1, <3>2 DEF Min
          <3> QED BY <2>1, <2>4, <3>3
      <2> QED BY <2>1, <2>3, <2>4
  <1>7. bad' \in Nat /\ bad' <= pos + n /\ (bad' = bad \/ (bad = 0 /\ bad' > pos))
      BY <1>1, <1>3, <1>6, ReadAssumption
  <1>8. /\ pos' \in Nat /\ pos' = pos + n /\ pos' >= pos /\ part' \in [n: Nat, left: Nat]
      <2>1. pos' \in Nat /\ pos' = pos + n /\ pos' >= pos
          BY <1>1, <1>3, <1>6
      <2>2. part.left - n \in Nat
          BY <1>3, <1>6
      <2>3. part' \in [n: Nat, left: Nat]
          BY <1>1, <1>3, <2>2
      <2> QED BY <2>1, <2>3
  <1>9. /\ ghost' \in [limit: Nat, fault: Error \ {"eof"}] /\ ghost'.limit = ghost.limit
        /\ ghost'.fault = e
      BY <1>1, <1>3 DEF Error
  <1>10. b \in Seq(Int) /\ Len(b) = n
         /\ \A i \in 1 .. n : b[i] = IF pos + i = bad' THEN Garbage ELSE pos + i
      BY <1>3, <1>6 DEF Garbage
  <1>11. Gives(b, e)
      BY <1>1
  <1> HIDE DEF b
  <1>a. \A s \in Seq(Int) :
          /\ s \o b \in Seq(Int) /\ Len(s \o b) = Len(s) + Len(b)
          /\ \A i \in 1 .. Len(s) + Len(b) :
               (s \o b)[i] = IF i <= Len(s) THEN s[i] ELSE b[i - Len(s)]
      <2>1. b \in Seq(Int)
          BY <1>10
      <2> QED BY <2>1, ConcatProperties
  <1>12. \A i \in 1 .. C : Right(i)' = Right(i)
      <2>1. bad' = bad \/ (bad = 0 /\ bad' > C)
          BY <1>3, <1>4, <1>5, <1>7
      <2> QED BY <1>2, <1>3, <1>4, <1>5, <1>7, <2>1, DamageAhead
  <1>13. CASE ~member.enc
      <2>1. pc' = "ret" /\ answer' = [b |-> b, err |-> e] /\ cbc' = cbc
          BY <1>11, <1>13 DEF Gives, AnswerIs
      <2>2. answer' \in Answers /\ answer'.b = b /\ answer'.err = e
          BY <1>10, <2>1 DEF Answers, Error
      <2>3. Types' /\ Control' /\ Closing' /\ Checked'
          <3>1. Calm
              <4>1. n <= req
                  BY <1>6, <1>13 DEF Room
              <4> QED BY <1>2, <1>3, <1>10, <2>1, <2>2, <4>1 DEF Calm
          <3> QED BY <1>2, <1>3, <1>7, <1>8, <1>9, <3>1, CalmStep
      <2>4. Failing'
          BY <1>2, <1>3, <1>9, <2>1, <2>2 DEF IInv, Failing, FailureIsNamed
      <2>5. Content'
          <3>1. Served = out /\ C = pos /\ C = Len(out) /\ cbc'.out = <<>>
              BY <1>3, <1>5, <1>13, <2>1, ConcatEmptySeq DEF C
          <3>2. Served' = out \o b
              <4>1. Served' = (out \o b) \o <<>> /\ out \o b \in Seq(Int)
                  BY <1>2, <1>3, <1>10, <2>2, <3>1, ConcatProperties DEF Served
              <4> QED BY <4>1, ConcatEmptySeq
          <3>3. /\ Len(Served') = pos + n
                /\ \A i \in 1 .. pos + n : Served'[i] = IF i <= pos THEN out[i] ELSE b[i - pos]
              <4>1. /\ Len(out \o b) = Len(out) + Len(b)
                    /\ \A i \in 1 .. Len(out) + Len(b) :
                         (out \o b)[i] = IF i <= Len(out) THEN out[i] ELSE b[i - Len(out)]
                  BY <1>a
              <4> QED BY <1>10, <3>1, <3>2, <4>1
          <3>4. \A i \in 1 .. pos + n : Served'[i] = Right(i)'
              <4> SUFFICES ASSUME NEW i \in 1 .. pos + n PROVE Served'[i] = Right(i)'
                  OBVIOUS
              <4>1. CASE i <= pos
                  BY <1>3, <1>5, <1>12, <3>1, <3>3, <4>1
              <4>2. CASE i > pos
                  <5>1. i - pos \in 1 .. n /\ pos + (i - pos) = i
                      BY <1>3, <1>6, <4>2
                  <5>2. b[i - pos] = IF i = bad' THEN Garbage ELSE i
                      BY <1>10, <5>1
                  <5>3. Right(i)' = IF i = bad' THEN Garbage ELSE i
                      BY <1>2, <1>13 DEF Right, DamagedBy
                  <5> QED BY <1>3, <3>3, <4>2, <5>2, <5>3
              <4> QED BY <1>3, <1>6, <4>1, <4>2
          <3>5. ~member'.enc /\ bad' <= pos' /\ Len(Served') = pos'
              BY <1>2, <1>7, <1>8, <1>13, <3>3
          <3>6. Len(Served') <= pos'
              BY <1>8, <3>5
          <3> QED BY <1>8, <3>1, <3>3, <3>4, <3>5, <3>6 DEF Content
      <2> QED BY <2>3, <2>4, <2>5 DEF IInv
  <1>14. CASE member.enc /\ e = "nil"
      <2> DEFINE in2 == cbc.in \o b
      <2>1. cbc' = [cbc EXCEPT !.in = in2, !.err = e] /\ pc' = pc /\ answer' = answer
          BY <1>11, <1>14 DEF Gives
      <2>2. /\ in2 \in Seq(Int) /\ Len(in2) = Len(cbc.in) + n
            /\ \A j \in 1 .. Len(cbc.in) + n :
                 in2[j] = IF j <= Len(cbc.in) THEN cbc.in[j] ELSE b[j - Len(cbc.in)]
          <3>1. /\ in2 \in Seq(Int) /\ Len(in2) = Len(cbc.in) + Len(b)
                /\ \A j \in 1 .. Len(cbc.in) + Len(b) :
                     in2[j] = IF j <= Len(cbc.in) THEN cbc.in[j] ELSE b[j - Len(cbc.in)]
              BY <1>3, <1>a
          <3> QED BY <1>10, <3>1
      <2> HIDE DEF in2
      <2>3. cbc' \in CBC
          <3>1. e \in Error
              BY <1>14 DEF Error
          <3> QED BY <1>3, <2>1, <2>2, <3>1, CBCUpdates
      <2>4. cbc'.in = in2 /\ cbc'.out = cbc.out /\ cbc'.iv = cbc.iv /\ cbc'.err = "nil"
          BY <1>3, <1>14, <2>1, CBCFields
      <2>5. Types' /\ Control' /\ Closing' /\ Checked'
          <3>1. Calm
              BY <1>2, <1>3, <2>1, <2>3 DEF Calm
          <3> QED BY <1>2, <1>3, <1>7, <1>8, <1>9, <3>1, CalmStep
      <2>6. Failing'
          BY <1>2, <1>3, <1>9, <1>14, <2>1, <2>4 DEF IInv, Failing, FailureIsNamed
      <2>7. Content'
          <3> DEFINE L == Len(cbc.in)
          <3>0. L \in Nat /\ C + L = pos /\ C \in Nat /\ pos \in Nat /\ n \in Nat
              BY <1>3, <1>4, <1>5, <1>6, <1>14
          <3>1. Served' = Served /\ Len(Served') = C
              BY <1>2, <2>1, <2>4 DEF Served, C
          <3>2. \A i \in 1 .. C : Served'[i] = Right(i)'
              BY <1>5, <1>12, <3>1
          <3>3. Len(Served') <= pos' /\ bad' <= pos' /\ member'.enc /\ Len(Served') % CBlock = 0
              <4>1. C <= pos'
                  BY <1>8, <3>0
              <4> QED BY <1>2, <1>5, <1>7, <1>8, <1>14, <3>1, <4>1
          <3>4. Len(Served') + Len(cbc'.in) = pos'
              <4>1. C + (L + n) = pos + n
                  BY <3>0
              <4> QED BY <1>8, <2>2, <2>4, <3>1, <4>1
          <3>5. \A j \in 1 .. L + n : in2[j] = IF C + j = bad' THEN Garbage ELSE C + j
              <4> SUFFICES ASSUME NEW j \in 1 .. L + n
                           PROVE  in2[j] = IF C + j = bad' THEN Garbage ELSE C + j
                  OBVIOUS
              <4>1. CASE j <= L
                  <5>1. in2[j] = IF C + j = bad THEN Garbage ELSE C + j
                      <6>1. j \in 1 .. L /\ in2[j] = cbc.in[j]
                          BY <2>2, <3>0, <4>1
                      <6> QED BY <1>5, <1>14, <6>1 DEF Packed
                  <5>2. C + j = bad <=> C + j = bad'
                      BY <1>3, <1>7, <3>0, <4>1
                  <5> QED BY <5>1, <5>2
              <4>2. CASE j > L
                  <5>1. j - L \in 1 .. n /\ pos + (j - L) = C + j
                      <6>1. \A x, y, z \in Nat : x + y + (z - y) = x + z
                          OBVIOUS
                      <6>2. C + L + (j - L) = C + j
                          <7>1. j \in Nat
                              BY <3>0
                          <7> QED BY <3>0, <6>1, <7>1
                      <6>3. j - L \in 1 .. n
                          BY <3>0, <4>2
                      <6> QED BY <3>0, <6>2, <6>3
                  <5>2. ~(j <= L)
                      BY <3>0, <4>2
                  <5>3. in2[j] = b[j - L]
                      BY <2>2, <5>2
                  <5> QED BY <1>10, <5>1, <5>3
              <4> QED BY <3>0, <4>1, <4>2
          <3>6. \A j \in 1 .. CBlock :
                  cbc.iv[j] = IF C = 0 THEN j - CBlock
                              ELSE IF C - CBlock + j = bad' THEN Garbage ELSE C - CBlock + j
              <4> SUFFICES ASSUME NEW j \in 1 .. CBlock, C # 0
                           PROVE  cbc.iv[j] = IF C - CBlock + j = bad' THEN Garbage ELSE C - CBlock + j
                  BY <1>5, <1>14
              <4>1. cbc.iv[j] = IF C - CBlock + j = bad THEN Garbage ELSE C - CBlock + j
                  BY <1>5, <1>14 DEF Packed
              <4>2. C >= CBlock
                  BY <1>5, <1>14, <3>0, AtLeastOneBlock
              <4>3. C - CBlock + j = bad <=> C - CBlock + j = bad'
                  BY <1>3, <1>7, <3>0, <4>2, ReadAssumption
              <4> QED BY <4>1, <4>3
          <3>7. /\ \A j \in 1 .. Len(cbc'.in) :
                     cbc'.in[j] = IF Len(Served') + j = bad' THEN Garbage ELSE Len(Served') + j
                /\ \A j \in 1 .. CBlock :
                     cbc'.iv[j] = IF Len(Served') = 0 THEN j - CBlock
                                  ELSE IF Len(Served') - CBlock + j = bad' THEN Garbage
                                       ELSE Len(Served') - CBlock + j
              BY <2>2, <2>4, <3>1, <3>5, <3>6
          <3> QED BY <3>1, <3>2, <3>3, <3>4, <3>7 DEF Content, Packed
      <2> QED BY <2>5, <2>6, <2>7 DEF IInv
  <1>15. CASE member.enc /\ e = "io"
      <2>1. /\ cbc' = [cbc EXCEPT !.in = <<>>, !.err = e]
            /\ pc' = "ret" /\ answer' = [b |-> <<>>, err |-> e]
          BY <1>11, <1>15 DEF Gives, AnswerIs
      <2>2. <<>> \in Seq(Int) /\ e \in Error
          BY <1>15 DEF Error
      <2>3. answer' \in Answers /\ answer'.b = <<>> /\ answer'.err = e
          BY <2>1, <2>2 DEF Answers
      <2>4. cbc' \in CBC
          BY <1>3, <2>1, <2>2, CBCUpdates
      <2>5. cbc'.out = cbc.out /\ cbc'.err = e
          BY <1>3, <2>1, CBCFields
      <2>6. Types' /\ Control' /\ Closing' /\ Checked'
          <3>1. Calm
              BY <1>2, <1>3, <2>1, <2>3, <2>4 DEF Calm
          <3> QED BY <1>2, <1>3, <1>7, <1>8, <1>9, <3>1, CalmStep
      <2>7. Failing'
          BY <1>2, <1>3, <1>9, <1>15, <2>1, <2>3, <2>5 DEF IInv, Failing, FailureIsNamed
      <2>8. Content'
          <3>1. Served' = Served /\ Len(Served') = C
              BY <1>2, <1>3, <2>3, <2>5 DEF Served, C
          <3>2. \A i \in 1 .. C : Served'[i] = Right(i)'
              BY <1>5, <1>12, <3>1
          <3>3. C <= pos' /\ bad' <= pos' /\ member'.enc
              BY <1>2, <1>3, <1>4, <1>5, <1>7, <1>8, <1>15
          <3> QED BY <1>5, <1>15, <2>5, <3>1, <3>2, <3>3 DEF Content
      <2> QED BY <2>6, <2>7, <2>8 DEF IInv
  <1> QED BY <1>3, <1>13, <1>14, <1>15

-----------------------------------------------------------------------------
LEMMA InitHolds ==
  ASSUME Init
  PROVE  IInv
  <1>a. CBlock \in Nat /\ CBlock > 0
      BY ReadAssumption
  <1>b. PlainSizes \subseteq Nat /\ CryptSizes \subseteq Nat /\ Payloads \subseteq Nat
      BY ReadAssumption
  <1>1. /\ member \in [kind: {"file", "link", "refused"}, size: Nat, enc: BOOLEAN, key: BOOLEAN,
                       hashed: BOOLEAN]
        /\ cur \in Headers(member.enc) /\ (member.kind # "file" => member.size = 0)
      <2>1. CASE \E enc \in BOOLEAN :
                   /\ member \in [kind: {"file"}, size: IF enc THEN CryptSizes ELSE PlainSizes,
                                  enc: {enc}, key: IF enc THEN BOOLEAN ELSE {TRUE},
                                  hashed: BOOLEAN]
                   /\ cur \in Headers(enc)
          <3>1. PICK enc \in BOOLEAN :
                   /\ member \in [kind: {"file"}, size: IF enc THEN CryptSizes ELSE PlainSizes,
                                  enc: {enc}, key: IF enc THEN BOOLEAN ELSE {TRUE},
                                  hashed: BOOLEAN]
                   /\ cur \in Headers(enc)
              BY <2>1
          <3>2. member.enc = enc
              BY <3>1
          <3>3. cur \in Headers(member.enc)
              BY <3>1, <3>2
          <3> HIDE DEF Headers
          <3> QED BY <1>b, <3>1, <3>3
      <2>2. CASE /\ member \in [kind: {"link", "refused"}, size: {0}, enc: {FALSE}, key: {TRUE},
                                hashed: {FALSE}]
                 /\ cur \in [last: BOOLEAN, mac: {FALSE}, crc: {"none"}, blake: {"none"}]
          <3>1. member.enc = FALSE
              BY <2>2
          <3>2. cur \in Headers(FALSE)
              BY <2>2 DEF Headers
          <3>3. /\ member \in [kind: {"file", "link", "refused"}, size: Nat, enc: BOOLEAN,
                               key: BOOLEAN, hashed: BOOLEAN]
              <4>1. PICK k \in {"link", "refused"} :
                      member = [kind |-> k, size |-> 0, enc |-> FALSE, key |-> TRUE, hashed |-> FALSE]
                  BY <2>2
              <4> DEFINE R == [kind: {"file", "link", "refused"}, size: Nat, enc: BOOLEAN,
                               key: BOOLEAN, hashed: BOOLEAN]
              <4>2. \A z \in Nat : \A x, y, w \in BOOLEAN :
                       [kind |-> k, size |-> z, enc |-> x, key |-> y, hashed |-> w] \in R
                  OBVIOUS
              <4>3. 0 \in Nat /\ TRUE \in BOOLEAN /\ FALSE \in BOOLEAN
                  OBVIOUS
              <4> HIDE DEF R
              <4>4. [kind |-> k, size |-> 0, enc |-> FALSE, key |-> TRUE, hashed |-> FALSE] \in R
                  BY <4>2, <4>3, Zenon
              <4>5. member \in R
                  BY <4>1, <4>4, Zenon
              <4> QED BY <4>5 DEF R
          <3>4. member.size = 0
              BY <2>2
          <3> QED BY <3>1, <3>2, <3>3, <3>4
      <2> QED BY <2>1, <2>2 DEF Init
  <1>2. /\ remaining = member.size /\ pos = 0 /\ bad = 0 /\ crc = <<>> /\ out = <<>>
        /\ pc = "idle" /\ req = 0 /\ answer = NoAnswer /\ draining = FALSE /\ cancelled = FALSE
        /\ ghost = [limit |-> 0, fault |-> "nil"] /\ part \in [n: {1}, left: Payloads]
        /\ done \in {"refused", "none"}
        /\ cbc = [in |-> <<>>, out |-> <<>>, iv |-> [i \in 1 .. CBlock |-> i - CBlock], err |-> "nil"]
      BY DEF Init
  <1>3. answer \in Answers /\ answer.b = <<>>
      BY <1>2 DEF Answers, NoAnswer, Error
  <1>4. [i \in 1 .. CBlock |-> i - CBlock] \in Seq(Int)
      BY <1>a
  <1>5. cbc \in CBC /\ cbc.err = "nil" /\ cbc.in = <<>> /\ cbc.out = <<>>
        /\ \A j \in 1 .. CBlock : cbc.iv[j] = j - CBlock
      BY <1>2, <1>4 DEF CBC, Error
  <1>6. ghost \in [limit: Nat, fault: Error \ {"eof"}] /\ ghost.fault = "nil"
      BY <1>2 DEF Error
  <1>7. Types
      <2>0. member.size \in Nat
          BY <1>1
      <2>1. part \in [n: Nat, left: Nat]
          <3>1. part = [n |-> 1, left |-> part.left] /\ part.left \in Payloads
              BY <1>2
          <3> QED BY <1>b, <3>1
      <2>2. done \in Verdict \cup {"none"} /\ pc \in {"idle", "enter", "src", "ret"}
          BY <1>2 DEF Verdict
      <2>3. out \in Seq(Int) /\ pos \in Nat /\ bad \in Nat /\ req \in Nat /\ remaining \in Nat
          BY <1>2, <2>0
      <2>4. draining \in BOOLEAN /\ cancelled \in BOOLEAN
          BY <1>2
      <2> QED BY <1>1, <1>3, <1>5, <1>6, <2>1, <2>2, <2>3, <2>4 DEF Types
  <1>8. Control
      <2>1. member.size \in Nat
          BY <1>1
      <2> QED BY <1>1, <1>2, <1>3, <2>1 DEF Control
  <1>9. Closing
      BY <1>2 DEF Closing
  <1>10. Failing
      BY <1>2, <1>5, <1>6 DEF Failing, FailureIsNamed
  <1>11. Checked
      <2>1. hash = HashInit /\ crc = <<>>
          BY DEF Init
      <2> QED BY <1>2, <2>1, InitIs DEF Checked, CleanVerdictIsTrue
  <1>12. Served = <<>>
      BY <1>2, <1>3, <1>5 DEF Served
  <1>13. Content
      <2>1. Len(Served) = 0 /\ Len(cbc.in) = 0
          BY <1>5, <1>12
      <2>2. 0 % CBlock = 0
          BY <1>a
      <2> QED BY <1>a, <1>2, <1>5, <2>1, <2>2 DEF Content
  <1> QED BY <1>7, <1>8, <1>9, <1>10, <1>11, <1>13 DEF IInv

LEMMA StutterStep ==
  ASSUME IInv, UNCHANGED vars
  PROVE  IInv'
  <1>1. Types' /\ Control' /\ Closing'
      BY DEF IInv, vars, Types, Control, Closing, Owed
  <1>2. Failing' /\ Checked'
      BY DEF IInv, vars, Failing, FailureIsNamed, Checked, CleanVerdictIsTrue, Plain
  <1>3. Content'
      BY ContentKept DEF IInv, vars, Served
  <1> QED BY <1>1, <1>2, <1>3 DEF IInv

(* The inductive invariant of a member being read: Entry.Read's control, what *)
(* a closed Reader may still deliver, how a failure travels to the verdict,   *)
(* and what every byte that has left the streams is, whether delivered,       *)
(* returned or still inside cbcDecryptReader.                                 *)
THEOREM MemberInvariant == Spec => []IInv
  <1>1. Init => IInv
      BY InitHolds
  <1>2. IInv /\ [Next]_vars => IInv'
      <2> SUFFICES ASSUME IInv, [Next]_vars PROVE IInv'
          OBVIOUS
      <2>1. CASE Read
          BY <2>1, ReadStep
      <2>2. CASE Close
          BY <2>2, CloseStep
      <2>3. CASE ReaderClose
          BY <2>3, ReaderCloseStep
      <2>4. CASE Entrance
          BY <2>4, EntranceStep
      <2>5. CASE Exit
          BY <2>5, ExitStep
      <2>6. CASE CBCServe
          BY <2>6, CBCServeStep
      <2>7. CASE CBCDecrypt
          BY <2>7, CBCDecryptStep
      <2>8. CASE CBCEnds
          BY <2>8, CBCEndsStep
      <2>9. CASE Piece
          BY <2>9, PieceStep
      <2>10. CASE Fault
          BY <2>10, FaultStep
      <2>11. CASE SourceEnds
          BY <2>11, SourceEndsStep
      <2>12. CASE NextPart
          BY <2>12, NextPartStep
      <2>13. CASE UNCHANGED vars
          BY <2>13, StutterStep
      <2> QED BY <2>1, <2>2, <2>3, <2>4, <2>5, <2>6, <2>7, <2>8, <2>9, <2>10, <2>11, <2>12,
                 <2>13 DEF Next, Chain
  <1> QED BY <1>1, <1>2, PTL DEF Spec

(* What Entry.Read hands out is the member's content in order, never more     *)
(* than the header declares; a damaged packed byte spoils no byte but those   *)
(* of its cipher block and one of the next (cbcDecryptReader, Entry.Read).    *)
THEOREM ContentDelivered == Spec => []DeliversContent
  <1>1. IInv => DeliversContent
      <2> SUFFICES ASSUME IInv PROVE DeliversContent
          OBVIOUS
      <2>1. /\ out \in Seq(Int) /\ answer.b \in Seq(Int) /\ cbc.out \in Seq(Int)
            /\ remaining \in Nat /\ member.size \in Nat /\ Len(out) = member.size - remaining
          BY DEF IInv, Types, Control, Answers, CBC
      <2>2. Len(out) <= member.size
          BY <2>1
      <2>3. /\ \A i \in 1 .. Len(out) : Served[i] = out[i]
            /\ Len(Served) \in Nat /\ Len(out) \in Nat /\ Len(out) <= Len(Served)
          <3> DEFINE s == out \o answer.b
          <3>1. /\ s \in Seq(Int) /\ Len(s) = Len(out) + Len(answer.b)
                /\ \A i \in 1 .. Len(out) + Len(answer.b) :
                     s[i] = IF i <= Len(out) THEN out[i] ELSE answer.b[i - Len(out)]
              BY <2>1, ConcatProperties
          <3> HIDE DEF s
          <3>2. /\ Len(s \o cbc.out) = Len(s) + Len(cbc.out)
                /\ \A i \in 1 .. Len(s) + Len(cbc.out) :
                     (s \o cbc.out)[i] = IF i <= Len(s) THEN s[i] ELSE cbc.out[i - Len(s)]
              <4>1. s \in Seq(Int) /\ cbc.out \in Seq(Int)
                  BY <2>1, <3>1
              <4> QED BY <4>1, ConcatProperties
          <3>3. Served = s \o cbc.out
              BY DEF Served, s
          <3>4. Len(out) \in Nat /\ Len(answer.b) \in Nat /\ Len(cbc.out) \in Nat
              BY <2>1
          <3>5. \A i \in 1 .. Len(out) : /\ i \in 1 .. Len(out) + Len(answer.b) /\ i <= Len(out)
                                         /\ i \in 1 .. Len(s) + Len(cbc.out) /\ i <= Len(s)
              <4>1. \A x, y, z \in Nat : \A i \in 1 .. x :
                       i \in 1 .. x + y /\ i <= x /\ i \in 1 .. x + y + z /\ i <= x + y
                  OBVIOUS
              <4>2. Len(s) = Len(out) + Len(answer.b)
                  BY <3>1
              <4> QED BY <3>4, <4>1, <4>2
          <3>6. \A i \in 1 .. Len(out) : s[i] = out[i]
              BY <3>1, <3>5
          <3>7. \A i \in 1 .. Len(out) : Served[i] = s[i]
              BY <3>2, <3>3, <3>5
          <3> QED BY <3>1, <3>2, <3>3, <3>4, <3>6, <3>7
      <2>4. \A i \in 1 .. Len(out) : out[i] = Right(i)
          <3>1. \A i \in 1 .. Len(Served) : Served[i] = Right(i)
              BY DEF IInv, Content
          <3>2. \A i \in 1 .. Len(out) : i \in 1 .. Len(Served)
              BY <2>3
          <3> QED BY <2>3, <3>1, <3>2
      <2> QED BY <2>1, <2>2, <2>4 DEF DeliversContent, Right
  <1> QED BY <1>1, MemberInvariant, PTL

(* A failure reaches the caller under its own name, unless the Reader was     *)
(* closed while bytes were owed; "closed" and "truncated" are said of short   *)
(* members only (Entry.Read, finish, multiVolumePayloadReader.Read).          *)
THEOREM FailuresAreNamed == Spec => []FailureIsNamed
  <1>1. IInv => FailureIsNamed
      BY DEF IInv, Failing
  <1> QED BY <1>1, MemberInvariant, PTL

(* Once Reader.Close has returned, no Read delivers but the one under way.    *)
THEOREM CloseSilences == Spec => []NothingAfterClose
  <1>1. IInv => NothingAfterClose
      <2> SUFFICES ASSUME IInv, cancelled PROVE Len(out) <= ghost.limit
          BY DEF NothingAfterClose
      <2>1. /\ out \in Seq(Int) /\ answer \in Answers /\ req \in Nat /\ ghost.limit \in Nat
            /\ pc \in {"idle", "enter", "src", "ret"}
          BY DEF IInv, Types
      <2>2. Owed \in Nat /\ Len(out) \in Nat
          BY <2>1 DEF Owed, Answers
      <2>3. Len(out) + Owed <= ghost.limit
          BY DEF IInv, Closing
      <2> QED BY <2>1, <2>2, <2>3
  <1> QED BY <1>1, MemberInvariant, PTL

(* A clean end means that every byte was delivered and is what was archived,  *)
(* and a mismatch that the content or the recorded digest is wrong: whatever  *)
(* pieces the hasher was fed in, and whichever of the CRC and the BLAKE2sp    *)
(* the last header records (verifyChecksum, finish, blake2sp.Write).          *)
THEOREM CleanVerdicts == Spec => []CleanVerdictIsTrue
  <1>1. IInv => CleanVerdictIsTrue
      BY DEF IInv, Checked
  <1> QED BY <1>1, MemberInvariant, PTL
=============================================================================
