-------------------------- MODULE FilterQueueProofs --------------------------
(***************************************************************************)
(* Proofs about FilterQueue, for every queue limit, window size, fill      *)
(* target, match length and any sequence of symbols, filter records, Reads *)
(* and faults. IInv is inductive; the theorems at the end read the         *)
(* properties the model checker is given off it.                           *)
(***************************************************************************)
EXTENDS FilterQueue, SequenceTheorems, TLAPS

-----------------------------------------------------------------------------
(* Sequences. *)

(* What ServeFilter leaves of the queue. *)
LEMMA TailProperties ==
  ASSUME NEW S, NEW s \in Seq(S), s # <<>>
  PROVE  /\ Head(s) \in S /\ Head(s) = s[1] /\ Len(s) > 0
         /\ Tail(s) \in Seq(S) /\ Len(Tail(s)) = Len(s) - 1
         /\ \A i \in 1 .. Len(Tail(s)) : Tail(s)[i] = s[i + 1]
  BY HeadTailProperties

LEMMA FilterFields == \A g \in Filter : g.start \in Nat /\ g.length \in Nat /\ g.length > 0
  BY DEF Filter

-----------------------------------------------------------------------------
(* The inductive invariant. *)

Applicable == Filter \cup {NoFilter}

Types ==
  /\ TypeOK
  /\ emitted \in Seq(Applicable) /\ accepted \subseteq Filter

(* A filter has left the queue and its input is being collected. *)
Staging == pc \in {"stage", "filled", "apply"} \/ (pc = "fill" /\ back = "filled")

Phases ==
  /\ pc # "idle" => outbuf = 0
  /\ pc \notin {"idle", "ended"} => p > 0
  /\ Staging => f \in accepted /\ f.start = tot /\ got <= f.length
  /\ pc = "apply" => got = f.length
  /\ ~Staging /\ pc # "ended" => got = 0

(* The queue is sorted and lies ahead of the output. *)
Queued ==
  /\ \A i \in 1 .. Len(fl) : fl[i] \in accepted
  /\ \A i, j \in 1 .. Len(fl) : i <= j => fl[i].start <= fl[j].start
  /\ pc # "ended" => \A i \in 1 .. Len(fl) : tot <= fl[i].start

(* An accepted filter is behind the output, being staged, or in the queue. *)
Accounted ==
  pc # "ended" =>
    \A g \in accepted : \/ g.start + g.length <= tot
                        \/ Staging /\ g = f
                        \/ \E i \in 1 .. Len(fl) : g = fl[i]

(* The filter applied to the byte at position q, delivered or in outbuf. *)
AppliedAt(q) == IF q < Len(emitted) THEN emitted[q + 1] ELSE f

Applied ==
  /\ Len(emitted) + outbuf = tot
  /\ \A q \in 0 .. tot - 1, g \in accepted : Covers(g, q) => AppliedAt(q) = g
  /\ \A q \in 0 .. tot - 1 :
       AppliedAt(q) # NoFilter => AppliedAt(q) \in accepted /\ Covers(AppliedAt(q), q)

IInv == Types /\ Phases /\ CursorsAgree /\ Queued /\ Accounted /\ Applied

LEMMA InitInv == Init => IInv
  BY QueueAssumption DEF Init, IInv, Types, TypeOK, Applicable, Filter, NoFilter, Phases, Staging,
     CursorsAgree, Queued, Accounted, Applied

-----------------------------------------------------------------------------
(* How much a step moves. *)

LEMMA EmitStep ==
  ASSUME emitted \in Seq(Applicable), NEW n \in Nat, NEW g \in Applicable, Emit(n, g)
  PROVE  /\ emitted' \in Seq(Applicable) /\ Len(emitted') = Len(emitted) + n
         /\ \A i \in 1 .. Len(emitted) : emitted'[i] = emitted[i]
         /\ \A i \in Len(emitted) + 1 .. Len(emitted') : emitted'[i] = g
  <1> DEFINE c == [i \in 1 .. n |-> g]
  <1>1. c \in Seq(Applicable) /\ Len(c) = n /\ \A i \in 1 .. n : c[i] = g
      OBVIOUS
  <1>2. emitted' = emitted \o c
      BY DEF Emit
  <1> HIDE DEF c
  <1>3. /\ emitted' \in Seq(Applicable) /\ Len(emitted') = Len(emitted) + n
        /\ \A i \in 1 .. Len(emitted) + n :
             emitted'[i] = IF i <= Len(emitted) THEN emitted[i] ELSE c[i - Len(emitted)]
      BY <1>1, <1>2, ConcatProperties
  <1> QED BY <1>1, <1>3

LEMMA LeastProperties ==
  ASSUME NEW a \in Nat, NEW b \in Nat
  PROVE  /\ Least(a, b) \in Nat /\ Least(a, b) <= a /\ Least(a, b) <= b
         /\ a > 0 /\ b > 0 => Least(a, b) > 0
  BY DEF Least

(* ServeWindow copies something, and stops short of the next filter. *)
LEMMA ServeSpan ==
  ASSUME Types, Phases, Queued, ServeWindow
  PROVE  /\ Gap \in Nat /\ Gap > 0
         /\ LET n == Least(Gap, Least(avail, p))
            IN n \in Nat /\ n > 0 /\ n <= Gap /\ n <= avail
         /\ fl # <<>> => fl[1].start = tot + Gap
  <1>1. avail \in Nat /\ avail > 0 /\ p \in Nat /\ p > 0 /\ tot \in Nat /\ ~Due
      BY DEF ServeWindow, Types, TypeOK, Phases
  <1>2. Gap \in Nat /\ Gap > 0 /\ (fl # <<>> => fl[1].start = tot + Gap)
      <2>1. CASE fl = <<>>
          BY <1>1, <2>1 DEF Gap
      <2>2. CASE fl # <<>>
          <3>1. fl \in Seq(Filter)
              BY DEF Types, TypeOK
          <3>2. Head(fl) = fl[1] /\ fl[1] \in Filter
              BY <2>2, <3>1, TailProperties
          <3>3. fl[1].start \in Nat
              BY <3>2 DEF Filter
          <3> QED BY <1>1, <2>2, <3>2, <3>3 DEF Gap, Due
      <2> QED BY <2>1, <2>2
  <1>3. Least(avail, p) \in Nat /\ Least(avail, p) > 0 /\ Least(avail, p) <= avail
      BY <1>1, LeastProperties
  <1>4. LET n == Least(Gap, Least(avail, p))
        IN n \in Nat /\ n > 0 /\ n <= Gap /\ n <= Least(avail, p)
      BY <1>2, <1>3, LeastProperties
  <1> QED BY <1>1, <1>2, <1>3, <1>4

(* Stage takes no more than is missing and no more than there is. *)
LEMMA StageSpan ==
  ASSUME Types, Phases, Stage
  PROVE  /\ f \in Filter /\ got <= f.length
         /\ LET n == Least(f.length - got, avail)
            IN n \in Nat /\ n <= f.length - got /\ n <= avail
  <1>1. f \in Filter /\ got <= f.length /\ got \in Nat /\ avail \in Nat
      BY DEF Stage, Types, TypeOK, Phases, Staging
  <1>2. f.length - got \in Nat
      BY <1>1 DEF Filter
  <1> QED BY <1>1, <1>2, LeastProperties

LEMMA TypeStep == IInv /\ [Next]_vars => Types'
  <1> SUFFICES ASSUME IInv, [Next]_vars PROVE Types'
      OBVIOUS
  <1> USE QueueAssumption DEF Types, TypeOK
  <1>0. Types
      BY DEF IInv
  <1>1. CASE NewMember
      BY <1>0, <1>1 DEF NewMember, Applicable
  <1>2. ASSUME NEW n \in Requests, ReadOutbuf(n) PROVE Types'
      <2>1. n \in Nat /\ outbuf \in Nat /\ f \in Applicable /\ emitted \in Seq(Applicable)
          BY <1>0 DEF Applicable
      <2>2. Least(n, outbuf) \in Nat /\ Least(n, outbuf) <= outbuf
          BY <2>1, LeastProperties
      <2>3. emitted' \in Seq(Applicable)
          BY <1>2, <2>1, <2>2, EmitStep DEF ReadOutbuf
      <2> QED BY <1>0, <1>2, <2>1, <2>2, <2>3 DEF ReadOutbuf, Returns, cursors, stage, bounds
  <1>3. ASSUME NEW n \in Requests, Read(n) PROVE Types'
      BY <1>0, <1>3 DEF Read, cursors, stage, bounds, ghost
  <1>4. CASE ServeFails
      BY <1>0, <1>4 DEF ServeFails, Fails, cursors, stage, bounds
  <1>5. CASE ServeWindow
      <2> DEFINE n == Least(Gap, Least(avail, p))
      <2>1. n \in Nat /\ n <= avail
          BY <1>0, <1>5, ServeSpan DEF IInv
      <2>2. emitted' \in Seq(Applicable)
          BY <1>0, <1>5, <2>1, EmitStep DEF ServeWindow, Applicable
      <2> QED BY <1>0, <1>5, <2>1, <2>2 DEF ServeWindow, Returns, stage, bounds
  <1>6. CASE ServeFilter
      <2>1. Head(fl) \in Filter /\ Tail(fl) \in Seq(Filter) /\ Len(Tail(fl)) <= MaxQueued
          BY <1>0, <1>6, TailProperties DEF ServeFilter, Due
      <2> QED BY <1>0, <1>6, <2>1 DEF ServeFilter, cursors, bounds, ghost
  <1>7. CASE Stage
      <2> DEFINE n == Least(f.length - got, avail)
      <2>1. n \in Nat /\ n <= avail
          BY <1>0, <1>7, StageSpan DEF IInv
      <2> QED BY <1>0, <1>7, <2>1 DEF Stage, bounds, ghost
  <1>8. CASE StageFilled
      BY <1>0, <1>8 DEF StageFilled, Fails, cursors, stage, bounds
  <1>9. CASE Apply
      <2> DEFINE n == Least(p, f.length)
      <2>1. p \in Nat /\ f \in Applicable /\ f.length \in Nat
          BY <1>0 DEF Applicable, Filter, NoFilter
      <2>2. n \in Nat /\ n <= f.length
          BY <2>1, LeastProperties
      <2>3. CASE Overlaps
          BY <1>0, <1>9, <2>3 DEF Apply, Fails, bounds
      <2>4. CASE ~Overlaps
          <3>1. emitted' \in Seq(Applicable)
              BY <1>0, <1>9, <2>1, <2>2, <2>4, EmitStep DEF Apply
          <3> QED BY <1>0, <1>9, <2>1, <2>2, <2>4, <3>1 DEF Apply, Returns, bounds
      <2> QED BY <2>3, <2>4
  <1>10. ASSUME NEW n \in 1 .. MaxMatch, FillSymbol(n) PROVE Types'
      BY <1>0, <1>10 DEF FillSymbol, CountsAll, stage, bounds, ghost
  <1>11. ASSUME NEW offset \in 0 .. WinSize + 1, NEW length \in 0 .. MaxFilter + 1,
                FillFilter(offset, length)
         PROVE  Types'
      <2> DEFINE g == [start |-> StartOf(offset), length |-> length]
      <2>1. length > 0 => g \in Filter
          BY <1>0 DEF StartOf, Filter
      <2>2. /\ UNCHANGED <<cursors, outbuf, src, p, stage, back, ret, members, emitted>>
            /\ records' \in 0 .. MaxRecords
            /\ pc' \in {pc, back} /\ res' \in {res, "bad"}
          BY <1>0, <1>11 DEF FillFilter
      <2>3. \/ fl' = fl /\ accepted' = accepted
            \/ /\ length > 0 /\ Len(fl) < MaxQueued
               /\ fl' = Append(fl, g) /\ accepted' = accepted \cup {g}
          BY <1>0, <1>11 DEF FillFilter, Queues, Refused
      <2> HIDE DEF g
      <2>4. fl' \in Seq(Filter) /\ Len(fl') <= MaxQueued /\ accepted' \subseteq Filter
          <3>1. fl \in Seq(Filter) /\ Len(fl) <= MaxQueued /\ accepted \subseteq Filter
                /\ MaxQueued \in Nat
              BY <1>0, QueueAssumption DEF TypeOK, Types
          <3>2. CASE fl' = fl /\ accepted' = accepted
              BY <3>1, <3>2
          <3>3. CASE /\ length > 0 /\ Len(fl) < MaxQueued
                     /\ fl' = Append(fl, g) /\ accepted' = accepted \cup {g}
              <4>1. fl' \in Seq(Filter) /\ Len(fl') = Len(fl) + 1
                  BY <2>1, <3>1, <3>3, AppendProperties
              <4>2. Len(fl') <= MaxQueued
                  <5>1. Len(fl) \in Nat
                      BY <3>1
                  <5> QED BY <3>1, <3>3, <4>1, <5>1
              <4>3. accepted' \subseteq Filter
                  BY <2>1, <3>1, <3>3
              <4> QED BY <4>1, <4>2, <4>3
          <3> QED BY <2>3, <3>2, <3>3
      <2> QED BY <1>0, <2>2, <2>4 DEF cursors, stage
  <1>12. CASE FillStaged
      BY <1>0, <1>12 DEF FillStaged, cursors, stage, bounds, ghost
  <1>13. CASE FillStops
      BY <1>0, <1>13 DEF FillStops, cursors, stage, bounds, ghost
  <1>14. CASE UNCHANGED vars
      BY <1>0, <1>14 DEF vars, cursors, stage, bounds, ghost
  <1> QED BY <1>1, <1>2, <1>3, <1>4, <1>5, <1>6, <1>7, <1>8, <1>9, <1>10, <1>11, <1>12,
             <1>13, <1>14 DEF Next, Output, Fill

LEMMA PhaseStep == IInv /\ [Next]_vars => Phases'
  <1> SUFFICES ASSUME IInv, [Next]_vars PROVE Phases'
      OBVIOUS
  <1> USE QueueAssumption DEF Phases, Types, TypeOK, Staging
  <1>0. Types /\ Types' /\ Phases /\ Queued
      BY TypeStep DEF IInv
  <1>1. CASE NewMember
      BY <1>0, <1>1 DEF NewMember
  <1>2. ASSUME NEW n \in Requests, ReadOutbuf(n) PROVE Phases'
      BY <1>0, <1>2 DEF ReadOutbuf, Returns, cursors, stage, bounds
  <1>3. ASSUME NEW n \in Requests, Read(n) PROVE Phases'
      BY <1>0, <1>3 DEF Read, cursors, stage, bounds, ghost
  <1>4. CASE ServeFails
      BY <1>0, <1>4 DEF ServeFails, Fails, cursors, stage, bounds
  <1>5. CASE ServeWindow
      BY <1>0, <1>5 DEF ServeWindow, Returns, stage, bounds
  <1>6. CASE ServeFilter
      <2>1. fl[1] = Head(fl) /\ Head(fl) \in Filter /\ 1 \in 1 .. Len(fl)
          BY <1>0, <1>6, TailProperties DEF ServeFilter, Due
      <2>2. f' \in accepted /\ f'.start = tot
          BY <1>0, <1>6, <2>1, FilterFields DEF ServeFilter, Due, Queued
      <2> QED BY <1>0, <1>6, <2>1, <2>2 DEF ServeFilter, cursors, bounds, ghost, Filter
  <1>7. CASE Stage
      <2> DEFINE n == Least(f.length - got, avail)
      <2>1. /\ n \in Nat /\ n <= f.length - got /\ f \in Filter
            /\ f.length \in Nat /\ got \in Nat
          BY <1>0, <1>7, StageSpan DEF Filter
      <2> HIDE DEF n
      <2>2. /\ got' = got + n /\ pc' = IF got + n = f.length THEN "apply" ELSE "fill"
            /\ back' = "filled" /\ pc = "stage"
            /\ UNCHANGED <<tot, outbuf, p, f, accepted>>
          BY <1>7 DEF Stage, ghost, n
      <2> QED BY <1>0, <2>1, <2>2
  <1>8. CASE StageFilled
      BY <1>0, <1>8 DEF StageFilled, Fails, cursors, stage, bounds
  <1>9. CASE Apply
      BY <1>0, <1>9 DEF Apply, Fails, Returns, bounds
  <1>10. ASSUME NEW n \in 1 .. MaxMatch, FillSymbol(n) PROVE Phases'
      BY <1>0, <1>10 DEF FillSymbol, CountsAll, stage, bounds, ghost
  <1>11. ASSUME NEW offset \in 0 .. WinSize + 1, NEW length \in 0 .. MaxFilter + 1,
                FillFilter(offset, length)
         PROVE  Phases'
      BY <1>0, <1>11 DEF FillFilter, cursors, stage
  <1>12. CASE FillStaged
      BY <1>0, <1>12 DEF FillStaged, cursors, stage, bounds, ghost
  <1>13. CASE FillStops
      BY <1>0, <1>13 DEF FillStops, cursors, stage, bounds, ghost
  <1>14. CASE UNCHANGED vars
      BY <1>0, <1>14 DEF vars, cursors, stage, bounds, ghost
  <1> QED BY <1>1, <1>2, <1>3, <1>4, <1>5, <1>6, <1>7, <1>8, <1>9, <1>10, <1>11, <1>12,
             <1>13, <1>14 DEF Next, Output, Fill

LEMMA CursorStep == IInv /\ [Next]_vars => CursorsAgree'
  <1> SUFFICES ASSUME IInv, [Next]_vars PROVE CursorsAgree'
      OBVIOUS
  <1> USE QueueAssumption DEF CursorsAgree, Phases, Types, TypeOK, Staging
  <1>0. Types /\ Types' /\ Phases /\ CursorsAgree
      BY TypeStep DEF IInv
  <1>1. CASE NewMember
      BY <1>0, <1>1 DEF NewMember
  <1>2. ASSUME NEW n \in Requests, ReadOutbuf(n) PROVE CursorsAgree'
      BY <1>0, <1>2 DEF ReadOutbuf, Returns, cursors, stage, bounds
  <1>3. ASSUME NEW n \in Requests, Read(n) PROVE CursorsAgree'
      BY <1>0, <1>3 DEF Read, cursors, stage, bounds, ghost
  <1>4. CASE ServeFails
      BY <1>0, <1>4 DEF ServeFails, Fails, cursors, stage, bounds
  <1>5. CASE ServeWindow
      BY <1>0, <1>5 DEF ServeWindow, Returns, stage, bounds
  <1>6. CASE ServeFilter
      BY <1>0, <1>6 DEF ServeFilter, cursors, bounds, ghost
  <1>7. CASE Stage
      <2> DEFINE n == Least(f.length - got, avail)
      <2>1. n \in Nat /\ n <= avail
          BY <1>0, <1>7, StageSpan
      <2> HIDE DEF n
      <2>2. got' = got + n /\ avail' = avail - n /\ UNCHANGED <<decoded, tot>> /\ pc = "stage"
          BY <1>7 DEF Stage, n
      <2> QED BY <1>0, <2>1, <2>2
  <1>8. CASE StageFilled
      BY <1>0, <1>8 DEF StageFilled, Fails, cursors, stage, bounds
  <1>9. CASE Apply
      <2>1. f \in Filter /\ got = f.length /\ f.length \in Nat /\ pc = "apply"
          BY <1>0, <1>9, FilterFields DEF Apply
      <2>2. got' = 0 /\ UNCHANGED <<avail, decoded>> /\ (pc' = "ended" \/ tot' = tot + f.length)
          BY <1>9 DEF Apply, Fails
      <2>3. decoded = tot + f.length + avail /\ tot \in Nat /\ avail \in Nat
          BY <1>0, <2>1
      <2> HIDE DEF Types, TypeOK, Phases
      <2> QED BY <2>1, <2>2, <2>3
  <1>10. ASSUME NEW n \in 1 .. MaxMatch, FillSymbol(n) PROVE CursorsAgree'
      BY <1>0, <1>10 DEF FillSymbol, CountsAll, stage, bounds, ghost
  <1>11. ASSUME NEW offset \in 0 .. WinSize + 1, NEW length \in 0 .. MaxFilter + 1,
                FillFilter(offset, length)
         PROVE  CursorsAgree'
      BY <1>0, <1>11 DEF FillFilter, cursors, stage
  <1>12. CASE FillStaged
      BY <1>0, <1>12 DEF FillStaged, cursors, stage, bounds, ghost
  <1>13. CASE FillStops
      BY <1>0, <1>13 DEF FillStops, cursors, stage, bounds, ghost
  <1>14. CASE UNCHANGED vars
      BY <1>0, <1>14 DEF vars, cursors, stage, bounds, ghost
  <1> QED BY <1>1, <1>2, <1>3, <1>4, <1>5, <1>6, <1>7, <1>8, <1>9, <1>10, <1>11, <1>12,
             <1>13, <1>14 DEF Next, Output, Fill

-----------------------------------------------------------------------------
(* The queue and the bytes delivered, where they change. *)

(* A step that neither queues nor applies a filter nor delivers anything. *)
Quiet ==
  /\ UNCHANGED <<tot, fl, f, accepted, emitted, outbuf>>
  /\ pc' = "ended" \/ (pc # "ended" /\ (Staging <=> Staging'))

(* A filter record that is accepted. *)
Accepts(g) ==
  /\ g \in Filter /\ g.start >= decoded
  /\ fl # <<>> => g.start >= fl[Len(fl)].start
  /\ fl' = Append(fl, g) /\ accepted' = accepted \cup {g}
  /\ pc = "fill" /\ UNCHANGED <<pc, back, tot, f, emitted, outbuf>>

LEMMA FillFilterCases ==
  ASSUME Types, NEW offset \in 0 .. WinSize + 1, NEW length \in 0 .. MaxFilter + 1,
         FillFilter(offset, length)
  PROVE  Quiet \/ \E g \in Filter : Accepts(g)
  <1> DEFINE g == [start |-> StartOf(offset), length |-> length]
  <1>1. UNCHANGED <<tot, f, emitted, outbuf, back>> /\ pc = "fill" /\ back \in {"serve", "filled"}
      BY DEF FillFilter, cursors, stage, Types, TypeOK
  <1>2. CASE UNCHANGED <<fl, accepted>>
      <2>1. pc' \in {pc, back}
          BY DEF FillFilter
      <2> QED BY <1>1, <1>2, <2>1 DEF Quiet, Staging
  <1>3. CASE ~UNCHANGED <<fl, accepted>>
      <2>1. /\ ~Refused(offset, length) /\ length > 0 /\ pc' = pc
            /\ fl' = Append(fl, g) /\ accepted' = accepted \cup {g}
          BY <1>3, QueueAssumption DEF FillFilter, Queues
      <2>2. /\ decoded \in Nat /\ offset \in Nat /\ length \in Nat /\ g.start = decoded + offset
            /\ g \in Filter
          BY <2>1, QueueAssumption DEF StartOf, Types, TypeOK, Filter
      <2>3. fl # <<>> => g.start >= fl[Len(fl)].start
          <3>1. fl \in Seq(Filter)
              BY DEF Types, TypeOK
          <3>2. fl # <<>> => fl[Len(fl)].start \in Nat
              BY <3>1, FilterFields
          <3>3. fl # <<>> => ~(g.start < fl[Len(fl)].start)
              BY <2>1 DEF Refused
          <3> QED BY <2>2, <3>2, <3>3
      <2> HIDE DEF g
      <2>4. Accepts(g)
          BY <1>1, <2>1, <2>2, <2>3 DEF Accepts
      <2> QED BY <2>2, <2>4
  <1> QED BY <1>2, <1>3

LEMMA StepKinds ==
  ASSUME Types, [Next]_vars
  PROVE  \/ Quiet \/ NewMember \/ ServeWindow \/ ServeFilter \/ Apply
         \/ \E n \in Requests : ReadOutbuf(n)
         \/ \E g \in Filter : Accepts(g)
  <1> USE DEF Quiet, Staging
  <1>1. ASSUME NEW n \in Requests, Read(n) PROVE Quiet
      BY <1>1 DEF Read, cursors, stage, ghost
  <1>2. CASE ServeFails
      BY <1>2 DEF ServeFails, Fails, cursors, stage
  <1>3. CASE Stage
      BY <1>3 DEF Stage, ghost
  <1>4. CASE StageFilled
      BY <1>4 DEF StageFilled, Fails, cursors, stage
  <1>5. ASSUME NEW n \in 1 .. MaxMatch, FillSymbol(n) PROVE Quiet
      BY <1>5 DEF FillSymbol, stage, ghost
  <1>6. CASE FillStaged
      BY <1>6 DEF FillStaged, cursors, stage, ghost, Types, TypeOK
  <1>7. CASE FillStops
      BY <1>7 DEF FillStops, cursors, stage, ghost, Types, TypeOK
  <1>8. CASE UNCHANGED vars
      BY <1>8 DEF vars, cursors, stage, ghost
  <1> QED BY <1>1, <1>2, <1>3, <1>4, <1>5, <1>6, <1>7, <1>8, FillFilterCases
          DEF Next, Output, Fill

LEMMA QueueStep == IInv /\ [Next]_vars => Queued'
  <1> SUFFICES ASSUME IInv, [Next]_vars PROVE Queued'
      OBVIOUS
  <1>0. /\ Types /\ Types' /\ Phases /\ Queued /\ CursorsAgree
        /\ fl \in Seq(Filter) /\ tot \in Nat /\ Len(fl) \in Nat
        /\ \A i \in 1 .. Len(fl) : fl[i] \in Filter /\ fl[i].start \in Nat
      <2>1. Types /\ Phases /\ Queued /\ CursorsAgree /\ Types'
          BY TypeStep DEF IInv
      <2>2. fl \in Seq(Filter) /\ tot \in Nat
          BY <2>1 DEF Types, TypeOK
      <2>3. Len(fl) \in Nat /\ \A i \in 1 .. Len(fl) : fl[i] \in Filter
          BY <2>2
      <2>4. \A i \in 1 .. Len(fl) : fl[i].start \in Nat
          BY <2>3, FilterFields
      <2> QED BY <2>1, <2>2, <2>3, <2>4
  <1>1. CASE Quiet
      BY <1>0, <1>1 DEF Quiet, Queued
  <1>2. CASE NewMember
      BY <1>0, <1>2 DEF NewMember, Queued
  <1>3. ASSUME NEW n \in Requests, ReadOutbuf(n) PROVE Queued'
      BY <1>0, <1>3 DEF ReadOutbuf, Returns, Queued, cursors
  <1>4. CASE ServeWindow
      <2> DEFINE n == Least(Gap, Least(avail, p))
      <2>1. n \in Nat /\ n <= Gap /\ Gap \in Nat /\ (fl # <<>> => fl[1].start = tot + Gap)
          BY <1>0, <1>4, ServeSpan
      <2> HIDE DEF n
      <2>2. tot' = tot + n /\ UNCHANGED <<fl, accepted>> /\ pc = "serve"
          BY <1>4 DEF ServeWindow, n
      <2>3. \A i \in 1 .. Len(fl) : tot + n <= fl[i].start
          <3> SUFFICES ASSUME NEW i \in 1 .. Len(fl) PROVE tot + n <= fl[i].start
              OBVIOUS
          <3>1. fl # <<>> /\ 1 \in 1 .. Len(fl) /\ 1 <= i
              BY <1>0
          <3>2. fl[1].start <= fl[i].start
              BY <1>0, <3>1 DEF Queued
          <3> QED BY <1>0, <2>1, <3>1, <3>2
      <2> QED BY <1>0, <2>2, <2>3 DEF Queued
  <1>5. CASE ServeFilter
      <2>1. fl' = Tail(fl) /\ UNCHANGED <<tot, accepted>> /\ pc = "serve" /\ fl # <<>>
          BY <1>5 DEF ServeFilter, cursors, ghost, Due
      <2>2. /\ Len(fl') = Len(fl) - 1
            /\ \A i \in 1 .. Len(fl') : i + 1 \in 1 .. Len(fl) /\ fl'[i] = fl[i + 1]
          BY <1>0, <2>1, TailProperties
      <2> QED BY <1>0, <2>1, <2>2 DEF Queued
  <1>6. CASE Apply
      <2>1. UNCHANGED <<fl, accepted>> /\ pc = "apply"
          BY <1>6 DEF Apply
      <2>2. CASE Overlaps
          BY <1>0, <1>6, <2>1, <2>2 DEF Apply, Fails, Queued
      <2>3. CASE ~Overlaps
          <3>1. f \in Filter /\ f.start = tot /\ f.length \in Nat
              BY <1>0, <2>1 DEF Phases, Staging, Types, Filter
          <3>2. tot' = f.start + f.length
              BY <1>6, <2>3, <3>1 DEF Apply
          <3>3. \A i \in 1 .. Len(fl) : tot' <= fl[i].start
              <4> SUFFICES ASSUME NEW i \in 1 .. Len(fl) PROVE tot' <= fl[i].start
                  OBVIOUS
              <4>1. fl # <<>> /\ 1 \in 1 .. Len(fl) /\ 1 <= i /\ Head(fl) = fl[1]
                  BY <1>0, TailProperties
              <4>2. fl[1].start <= fl[i].start
                  BY <1>0, <4>1 DEF Queued
              <4> QED BY <1>0, <2>3, <3>1, <3>2, <4>1, <4>2 DEF Overlaps
          <3> QED BY <1>0, <2>1, <3>3 DEF Queued
      <2> QED BY <2>2, <2>3
  <1>7. ASSUME NEW g \in Filter, Accepts(g) PROVE Queued'
      <2>1. /\ Len(fl') = Len(fl) + 1 /\ fl'[Len(fl) + 1] = g
            /\ \A i \in 1 .. Len(fl) : fl'[i] = fl[i]
          BY <1>0, <1>7, AppendProperties DEF Accepts
      <2>2. g.start \in Nat /\ tot <= g.start
          <3>1. decoded = tot + got + avail /\ got \in Nat /\ avail \in Nat
              BY <1>0, <1>7 DEF Accepts, CursorsAgree, Types, TypeOK
          <3>2. g.start \in Nat /\ g.start >= decoded
              BY <1>7, FilterFields DEF Accepts
          <3> QED BY <1>0, <3>1, <3>2
      <2>3. \A i \in 1 .. Len(fl) : fl[i].start <= g.start
          <3> SUFFICES ASSUME NEW i \in 1 .. Len(fl) PROVE fl[i].start <= g.start
              OBVIOUS
          <3>1. fl # <<>> /\ Len(fl) \in 1 .. Len(fl) /\ i <= Len(fl)
              BY <1>0
          <3>2. fl[i].start <= fl[Len(fl)].start
              BY <1>0, <3>1 DEF Queued
          <3> QED BY <1>0, <1>7, <2>2, <3>1, <3>2 DEF Accepts
      <2>4. \A i \in 1 .. Len(fl') : fl'[i] \in accepted'
          BY <1>0, <1>7, <2>1 DEF Accepts, Queued
      <2>5. \A i, j \in 1 .. Len(fl') : i <= j => fl'[i].start <= fl'[j].start
          BY <1>0, <2>1, <2>2, <2>3 DEF Queued
      <2>6. \A i \in 1 .. Len(fl') : tot' <= fl'[i].start
          BY <1>0, <1>7, <2>1, <2>2 DEF Accepts, Queued
      <2> QED BY <2>4, <2>5, <2>6 DEF Queued
  <1> QED BY <1>0, <1>1, <1>2, <1>3, <1>4, <1>5, <1>6, <1>7, StepKinds

LEMMA AccountStep == IInv /\ [Next]_vars => Accounted'
  <1> SUFFICES ASSUME IInv, [Next]_vars PROVE Accounted'
      OBVIOUS
  <1>0. /\ Types /\ Phases /\ Queued /\ Accounted
        /\ fl \in Seq(Filter) /\ tot \in Nat /\ Len(fl) \in Nat
        /\ \A g \in accepted : g.start \in Nat /\ g.length \in Nat
      BY DEF IInv, Types, TypeOK, Filter
  <1>1. CASE Quiet
      BY <1>0, <1>1 DEF Quiet, Accounted
  <1>2. CASE NewMember
      BY <1>0, <1>2 DEF NewMember, Accounted
  <1>3. ASSUME NEW n \in Requests, ReadOutbuf(n) PROVE Accounted'
      BY <1>0, <1>3 DEF ReadOutbuf, Returns, Accounted, cursors, Staging
  <1>4. CASE ServeWindow
      <2> DEFINE n == Least(Gap, Least(avail, p))
      <2>1. n \in Nat
          BY <1>0, <1>4, ServeSpan
      <2> HIDE DEF n
      <2>2. tot' = tot + n /\ UNCHANGED <<fl, accepted>> /\ pc = "serve" /\ ~Staging
          BY <1>4 DEF ServeWindow, n, Staging
      <2> QED BY <1>0, <2>1, <2>2 DEF Accounted
  <1>5. CASE ServeFilter
      <2>1. /\ fl' = Tail(fl) /\ UNCHANGED <<tot, accepted>> /\ pc = "serve" /\ fl # <<>>
            /\ ~Staging /\ Staging' /\ f' = Head(fl)
          BY <1>5 DEF ServeFilter, cursors, ghost, Due, Staging
      <2>2. /\ Len(fl') = Len(fl) - 1 /\ Head(fl) = fl[1]
            /\ \A i \in 1 .. Len(fl') : fl'[i] = fl[i + 1]
          BY <1>0, <2>1, TailProperties
      <2>3. \A i \in 1 .. Len(fl) : fl[i] = f' \/ \E j \in 1 .. Len(fl') : fl[i] = fl'[j]
          <3> SUFFICES ASSUME NEW i \in 1 .. Len(fl), i # 1
                       PROVE  \E j \in 1 .. Len(fl') : fl[i] = fl'[j]
              BY <2>1, <2>2
          <3>1. i - 1 \in 1 .. Len(fl') /\ fl'[i - 1] = fl[i]
              BY <1>0, <2>2
          <3> QED BY <3>1
      <2> QED BY <1>0, <2>1, <2>3 DEF Accounted
  <1>6. CASE Apply
      <2>1. UNCHANGED <<fl, accepted>> /\ pc = "apply"
          BY <1>6 DEF Apply
      <2>2. CASE Overlaps
          BY <1>6, <2>2 DEF Apply, Fails, Accounted
      <2>3. CASE ~Overlaps
          <3>1. f.start = tot /\ f \in accepted
              BY <1>0, <2>1 DEF Phases, Staging
          <3>2. tot' = tot + f.length
              BY <1>6, <2>3 DEF Apply
          <3> QED BY <1>0, <2>1, <3>1, <3>2 DEF Accounted
      <2> QED BY <2>2, <2>3
  <1>7. ASSUME NEW g \in Filter, Accepts(g) PROVE Accounted'
      <2>1. /\ Len(fl') = Len(fl) + 1 /\ fl'[Len(fl) + 1] = g
            /\ \A i \in 1 .. Len(fl) : fl'[i] = fl[i]
            /\ UNCHANGED <<tot, f, pc, back>> /\ accepted' = accepted \cup {g} /\ pc = "fill"
          BY <1>0, <1>7, AppendProperties DEF Accepts
      <2>2. Staging <=> Staging'
          BY <2>1 DEF Staging
      <2> SUFFICES ASSUME NEW h \in accepted'
                   PROVE  \/ h.start + h.length <= tot'
                          \/ Staging' /\ h = f'
                          \/ \E i \in 1 .. Len(fl') : h = fl'[i]
          BY DEF Accounted
      <2>3. CASE h = g
          <3>1. Len(fl) + 1 \in 1 .. Len(fl')
              BY <1>0, <2>1
          <3> QED BY <2>1, <2>3, <3>1
      <2>4. CASE h \in accepted
          <3>1. \A i \in 1 .. Len(fl) : i \in 1 .. Len(fl') /\ fl'[i] = fl[i]
              BY <1>0, <2>1
          <3>2. \/ h.start + h.length <= tot
                \/ Staging /\ h = f
                \/ \E i \in 1 .. Len(fl) : h = fl[i]
              BY <1>0, <2>1, <2>4 DEF Accounted
          <3> QED BY <2>1, <2>2, <3>1, <3>2
      <2> QED BY <2>1, <2>3, <2>4
  <1> QED BY <1>0, <1>1, <1>2, <1>3, <1>4, <1>5, <1>6, <1>7, StepKinds

LEMMA AppliedStep == IInv /\ [Next]_vars => Applied'
  <1> SUFFICES ASSUME IInv, [Next]_vars PROVE Applied'
      OBVIOUS
  <1>0. /\ Types /\ Phases /\ Queued /\ Accounted /\ Applied
        /\ fl \in Seq(Filter) /\ tot \in Nat /\ Len(fl) \in Nat /\ outbuf \in Nat
        /\ emitted \in Seq(Applicable) /\ Len(emitted) \in Nat /\ f \in Applicable
        /\ \A g \in accepted : g.start \in Nat /\ g.length \in Nat
      BY FilterFields DEF IInv, Types, TypeOK, Applicable
  <1>1. CASE Quiet
      BY <1>0, <1>1 DEF Quiet, Applied, AppliedAt
  <1>2. CASE NewMember
      BY <1>0, <1>2 DEF NewMember, Applied
  <1>3. ASSUME NEW n \in Requests, ReadOutbuf(n) PROVE Applied'
      <2> DEFINE k == Least(n, outbuf)
      <2>1. k \in Nat /\ k <= outbuf
          BY <1>0, LeastProperties, QueueAssumption
      <2> HIDE DEF k
      <2>2. outbuf' = outbuf - k /\ Emit(k, f) /\ UNCHANGED <<tot, f, accepted>>
          BY <1>3 DEF ReadOutbuf, k, cursors, stage
      <2>3. /\ Len(emitted') = Len(emitted) + k
            /\ \A i \in 1 .. Len(emitted) : emitted'[i] = emitted[i]
            /\ \A i \in Len(emitted) + 1 .. Len(emitted') : emitted'[i] = f
          BY <1>0, <2>1, <2>2, EmitStep
      <2>4. \A q \in 0 .. tot - 1 : AppliedAt(q)' = AppliedAt(q)
          BY <1>0, <2>1, <2>2, <2>3 DEF AppliedAt
      <2>5. Len(emitted') + outbuf' = tot'
          <3>1. Len(emitted) + outbuf = tot
              BY <1>0 DEF Applied
          <3> QED BY <1>0, <2>1, <2>2, <2>3, <3>1
      <2> QED BY <1>0, <2>2, <2>4, <2>5 DEF Applied
  <1>4. CASE ServeWindow
      <2> DEFINE n == Least(Gap, Least(avail, p))
      <2>1. n \in Nat /\ n <= Gap /\ Gap \in Nat /\ (fl # <<>> => fl[1].start = tot + Gap)
          BY <1>0, <1>4, ServeSpan
      <2> HIDE DEF n
      <2>2. /\ tot' = tot + n /\ UNCHANGED <<fl, accepted, outbuf>> /\ pc = "serve" /\ ~Staging
            /\ Emit(n, NoFilter) /\ outbuf = 0 /\ Len(emitted) = tot
          BY <1>0, <1>4 DEF ServeWindow, n, Staging, Phases, Applied
      <2>3. /\ Len(emitted') = Len(emitted) + n
            /\ \A i \in 1 .. Len(emitted) : emitted'[i] = emitted[i]
            /\ \A i \in Len(emitted) + 1 .. Len(emitted') : emitted'[i] = NoFilter
          BY <1>0, <2>1, <2>2, EmitStep DEF Applicable
      <2>4. \A q \in 0 .. tot - 1 : AppliedAt(q)' = AppliedAt(q)
          BY <1>0, <2>1, <2>2, <2>3 DEF AppliedAt
      <2>5. \A q \in tot .. tot' - 1 : AppliedAt(q)' = NoFilter
          BY <1>0, <2>1, <2>2, <2>3 DEF AppliedAt
      <2>6. \A q \in tot .. tot' - 1, g \in accepted : ~Covers(g, q)
          <3> SUFFICES ASSUME NEW q \in tot .. tot' - 1, NEW g \in accepted, Covers(g, q)
                       PROVE  FALSE
              OBVIOUS
          <3>1. q \in Nat /\ tot <= q /\ q < tot + n /\ g.start <= q /\ q < g.start + g.length
              BY <1>0, <2>1, <2>2 DEF Covers
          <3>2. PICK i \in 1 .. Len(fl) : g = fl[i]
              BY <1>0, <2>2, <3>1 DEF Accounted
          <3>3. fl # <<>> /\ 1 \in 1 .. Len(fl) /\ 1 <= i
              BY <1>0
          <3>4. fl[1].start <= g.start
              BY <1>0, <3>2, <3>3 DEF Queued
          <3> QED BY <1>0, <2>1, <3>1, <3>3, <3>4
      <2>7. \A q \in 0 .. tot' - 1 : q \in 0 .. tot - 1 \/ q \in tot .. tot' - 1
          BY <1>0, <2>1, <2>2
      <2> QED BY <1>0, <2>1, <2>2, <2>3, <2>4, <2>5, <2>6, <2>7 DEF Applied
  <1>5. CASE ServeFilter
      <2>1. UNCHANGED <<tot, accepted, emitted, outbuf>> /\ outbuf = 0 /\ Len(emitted) = tot
          BY <1>0, <1>5 DEF ServeFilter, cursors, ghost, Phases, Applied
      <2>2. \A q \in 0 .. tot - 1 : AppliedAt(q)' = AppliedAt(q)
          BY <1>0, <2>1 DEF AppliedAt
      <2> QED BY <1>0, <2>1, <2>2 DEF Applied
  <1>6. CASE Apply
      <2>1. UNCHANGED <<f, fl, accepted>> /\ pc = "apply" /\ outbuf = 0 /\ Len(emitted) = tot
          BY <1>0, <1>6 DEF Apply, Phases, Applied
      <2>2. CASE Overlaps
          BY <1>0, <1>6, <2>1, <2>2 DEF Apply, Fails, Applied, AppliedAt
      <2>3. CASE ~Overlaps
          <3> DEFINE n == Least(p, f.length)
          <3>1. f.start = tot /\ f \in accepted /\ f \in Filter /\ f.length \in Nat
              BY <1>0, <2>1, FilterFields DEF Phases, Staging, Types
          <3>2. n \in Nat /\ n <= f.length
              BY <1>0, <3>1, LeastProperties DEF Types, TypeOK
          <3> HIDE DEF n
          <3>3. tot' = tot + f.length /\ outbuf' = f.length - n /\ Emit(n, f)
              BY <1>6, <2>3 DEF Apply, n
          <3>4. /\ Len(emitted') = Len(emitted) + n
                /\ \A i \in 1 .. Len(emitted) : emitted'[i] = emitted[i]
                /\ \A i \in Len(emitted) + 1 .. Len(emitted') : emitted'[i] = f
              BY <1>0, <3>2, <3>3, EmitStep
          <3>5. \A q \in 0 .. tot - 1 : AppliedAt(q)' = AppliedAt(q)
              BY <1>0, <2>1, <3>2, <3>4 DEF AppliedAt
          <3>6. \A q \in tot .. tot' - 1 : AppliedAt(q)' = f /\ Covers(f, q)
              BY <1>0, <2>1, <3>1, <3>2, <3>3, <3>4 DEF AppliedAt, Covers
          <3>7. \A q \in tot .. tot' - 1, g \in accepted : Covers(g, q) => g = f
              <4> SUFFICES ASSUME NEW q \in tot .. tot' - 1, NEW g \in accepted, Covers(g, q),
                                  g # f
                           PROVE  FALSE
                  OBVIOUS
              <4>1. /\ q \in Nat /\ tot <= q /\ q < tot + f.length
                    /\ g.start <= q /\ q < g.start + g.length
                  BY <1>0, <3>1, <3>3 DEF Covers
              <4>2. PICK i \in 1 .. Len(fl) : g = fl[i]
                  BY <1>0, <2>1, <4>1 DEF Accounted
              <4>3. fl # <<>> /\ 1 \in 1 .. Len(fl) /\ 1 <= i /\ Head(fl) = fl[1] /\ fl[1] \in Filter
                  BY <1>0, TailProperties
              <4>4. fl[1].start <= g.start /\ fl[1].start \in Nat
                  BY <1>0, <4>2, <4>3, FilterFields DEF Queued
              <4> QED BY <1>0, <2>3, <3>1, <4>1, <4>3, <4>4 DEF Overlaps
          <3>8. \A q \in 0 .. tot' - 1 : q \in 0 .. tot - 1 \/ q \in tot .. tot' - 1
              BY <1>0, <3>1, <3>3
          <3>9. Len(emitted') + outbuf' = tot'
              BY <1>0, <2>1, <3>1, <3>2, <3>3, <3>4
          <3> QED BY <1>0, <2>1, <3>1, <3>5, <3>6, <3>7, <3>8, <3>9 DEF Applied
      <2> QED BY <2>2, <2>3
  <1>7. ASSUME NEW g \in Filter, Accepts(g) PROVE Applied'
      <2>1. UNCHANGED <<tot, f, emitted, outbuf>> /\ accepted' = accepted \cup {g}
          BY <1>7 DEF Accepts
      <2>2. \A q \in 0 .. tot - 1 : ~Covers(g, q)
          BY <1>0, <1>7, FilterFields DEF Accepts, Covers, IInv, CursorsAgree, Types, TypeOK
      <2> QED BY <1>0, <2>1, <2>2 DEF Applied, AppliedAt
  <1> QED BY <1>0, <1>1, <1>2, <1>3, <1>4, <1>5, <1>6, <1>7, StepKinds

-----------------------------------------------------------------------------
(* The theorems. *)

(* The inductive invariant: the queue is sorted and ahead of the output,    *)
(* every accepted filter is behind it, being staged or queued, and each     *)
(* byte behind it has the one filter that covers it.                        *)
THEOREM QueueInvariant == Spec => []IInv
  <1>1. IInv /\ [Next]_vars => IInv'
      BY TypeStep, PhaseStep, CursorStep, QueueStep, AccountStep, AppliedStep DEF IInv
  <1> QED BY InitInv, <1>1, PTL DEF Spec

(* decoder50's decoded and tot stay in one epoch: the difference is what    *)
(* the window and the filter being staged hold.                             *)
THEOREM CursorsShareEpoch == Spec => []CursorsAgree
  <1>1. IInv => CursorsAgree
      BY DEF IInv
  <1> QED BY QueueInvariant, <1>1, PTL

(* Whatever the caller's buffers, the fill target and the order of records  *)
(* and symbols, every delivered byte went through exactly the filter queued *)
(* for its position.                                                        *)
THEOREM FiltersExact == Spec => []FilteredExactly
  <1>1. IInv => FilteredExactly
      <2> SUFFICES ASSUME IInv PROVE FilteredExactly
          OBVIOUS
      <2>1. /\ Len(emitted) + outbuf = tot /\ tot \in Nat /\ outbuf \in Nat
            /\ emitted \in Seq(Applicable) /\ Len(emitted) \in Nat
          BY DEF IInv, Applied, Types, TypeOK
      <2>2. \A i \in 1 .. Len(emitted) : i - 1 \in 0 .. tot - 1 /\ AppliedAt(i - 1) = emitted[i]
          BY <2>1 DEF AppliedAt
      <2>3. \A i \in 1 .. Len(emitted), g \in accepted : Covers(g, i - 1) => emitted[i] = g
          BY <2>2 DEF IInv, Applied
      <2>4. \A i \in 1 .. Len(emitted) :
              emitted[i] # NoFilter => emitted[i] \in accepted /\ Covers(emitted[i], i - 1)
          BY <2>2 DEF IInv, Applied
      <2> QED BY <2>1, <2>3, <2>4 DEF FilteredExactly
  <1> QED BY QueueInvariant, <1>1, PTL

(* decoder50.Read never returns 0, nil for a buffer that is not empty.      *)
THEOREM ReadDelivers == Spec => NoEmptyRead
  <1>1. IInv /\ [Next]_vars =>
          [pc # "idle" /\ pc' = "idle" /\ members' = members => ret' > 0]_vars
      <2> SUFFICES ASSUME IInv, Next, pc # "idle", pc' = "idle", members' = members
                   PROVE  ret' > 0
          OBVIOUS
      <2>1. ServeWindow \/ Apply
          <3>1. ~NewMember
              BY DEF NewMember, IInv, Types, TypeOK
          <3>2. ~\E n \in Requests : ReadOutbuf(n) \/ Read(n)
              BY DEF ReadOutbuf, Read
          <3>3. ~(ServeFails \/ ServeFilter \/ Stage \/ StageFilled)
              BY DEF ServeFails, ServeFilter, Stage, StageFilled, Fails
          <3>4. ~Fill
              BY DEF Fill, FillSymbol, FillFilter, FillStaged, FillStops, IInv, Types, TypeOK
          <3> QED BY <3>1, <3>2, <3>3, <3>4 DEF Next, Output
      <2>2. CASE ServeWindow
          BY <2>2, ServeSpan DEF ServeWindow, Returns, IInv
      <2>3. CASE Apply
          <3>1. p \in Nat /\ p > 0 /\ f.length \in Nat /\ f.length > 0
              BY <2>3, FilterFields DEF Apply, IInv, Phases, Staging, Types, TypeOK
          <3> QED BY <2>3, <3>1, LeastProperties DEF Apply, Fails, Returns
      <2> QED BY <2>1, <2>2, <2>3
  <1> QED BY QueueInvariant, <1>1, PTL DEF Spec, NoEmptyRead
=============================================================================
