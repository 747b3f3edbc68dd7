-------------------------- MODULE VolumeChainProofs --------------------------
(***************************************************************************)
(* Proofs about VolumeChain, for any number of archives, volumes and       *)
(* goroutines calling Close. IInv is inductive: TypeStep keeps the types,  *)
(* CustodyStep keeps the account of who will close each stream, and the    *)
(* theorems at the end read the three stream-ownership properties off it.  *)
(***************************************************************************)
EXTENDS VolumeChain, TLAPS

(* Another close keeps the table of closes well-typed. *)
LEMMA CloseTyped ==
  ASSUME closed \in [Stream -> Nat], NEW s
  PROVE  [closed EXCEPT ![s] = @ + 1] \in [Stream -> Nat]
  <1>1. CASE s \in Stream
      <2>1. closed[s] + 1 \in Nat
          BY <1>1
      <2> QED BY <1>1, <2>1
  <1>2. CASE s \notin Stream
      BY <1>2
  <1> QED BY <1>1, <1>2

(* The element a receive takes, and the one a send adds, is a stream. *)
CanReceive(g) ==
  recvd[g] < sent[g] =>
    /\ <<g, recvd[g] + 1>> \in Stream
    /\ [recvd EXCEPT ![g] = @ + 1] \in [Archive -> 0 .. Volumes]
    /\ \A h \in Archive : [recvd EXCEPT ![g] = @ + 1][h] <= sent[h]

CanSend(g) ==
  sent[g] < Volumes =>
    /\ <<g, sent[g] + 1>> \in Stream
    /\ [sent EXCEPT ![g] = @ + 1] \in [Archive -> 0 .. Volumes]
    /\ \A h \in Archive : recvd[h] <= [sent EXCEPT ![g] = @ + 1][h]

(* Receiving from and sending on a channel keep its counters in range. *)
LEMMA NextInChannel ==
  ASSUME TypeOK, NEW g \in Archive
  PROVE  CanReceive(g) /\ CanSend(g)
  <1> DEFINE n == recvd[g]  m == sent[g]
  <1>1. n \in 0 .. Volumes /\ m \in 0 .. Volumes /\ n <= m /\ Volumes \in Nat
      BY ChainAssumption DEF TypeOK
  <1>2. n < m => n + 1 \in 1 .. Volumes /\ n + 1 \in 0 .. Volumes
      BY <1>1
  <1>3. m < Volumes => m + 1 \in 1 .. Volumes /\ m + 1 \in 0 .. Volumes
      BY <1>1
  <1>4. recvd \in [Archive -> 0 .. Volumes] /\ sent \in [Archive -> 0 .. Volumes]
      /\ \A h \in Archive : recvd[h] <= sent[h]
      BY DEF TypeOK
  <1> HIDE DEF n, m
  <1>5. n < m => <<g, n + 1>> \in Stream
      BY <1>2 DEF Stream
  <1>6. m < Volumes => <<g, m + 1>> \in Stream
      BY <1>3 DEF Stream
  <1>7. n < m => /\ [recvd EXCEPT ![g] = @ + 1] \in [Archive -> 0 .. Volumes]
                 /\ \A h \in Archive : [recvd EXCEPT ![g] = @ + 1][h] <= sent[h]
      BY <1>1, <1>2, <1>4 DEF n, m
  <1>8. m < Volumes =>
          /\ [sent EXCEPT ![g] = @ + 1] \in [Archive -> 0 .. Volumes]
          /\ \A h \in Archive : recvd[h] <= [sent EXCEPT ![g] = @ + 1][h]
      BY <1>1, <1>3, <1>4 DEF n, m
  <1> QED BY <1>5, <1>6, <1>7, <1>8 DEF n, m, CanReceive, CanSend

(* Every step keeps the type invariant. *)
LEMMA TypeStep == TypeOK /\ ResetInBound /\ [Next]_vars => TypeOK' /\ ResetInBound'
  <1> SUFFICES ASSUME TypeOK, ResetInBound, [Next]_vars PROVE TypeOK' /\ ResetInBound'
      OBVIOUS
  <1>a. \A g \in Archive : CanReceive(g) /\ CanSend(g)
      BY NextInChannel
  <1>b. arch \in Archive
      BY DEF TypeOK
  <1>c. arch < Archives => arch + 1 \in Archive
      BY <1>b, ChainAssumption DEF Archive
  <1> USE DEF TypeOK, ResetInBound, producer, closers, result, archive, others
  <1>1. ASSUME NEW g \in Archive, Send(g) PROVE TypeOK' /\ ResetInBound'
      <2>1. CanSend(g) /\ sent[g] < Volumes
          BY <1>a, <1>1 DEF Send
      <2>2. /\ sent' \in [Archive -> 0 .. Volumes]
            /\ \A h \in Archive : recvd'[h] <= sent'[h]
          BY <1>1, <2>1 DEF Send, CanSend
      <2>3. nils' \subseteq Stream
          BY <1>1, <2>1 DEF Send, CanSend
      <2> QED BY <1>1, <2>2, <2>3 DEF Send
  <1>2. ASSUME NEW g \in Archive, CloseChannel(g) PROVE TypeOK' /\ ResetInBound'
      BY <1>2 DEF CloseChannel
  <1>3. CASE NextEntry
      BY <1>3 DEF NextEntry, isClosed, Cause, Error, Verdict, Format, TravPC
  <1>4. CASE ReadMember
      BY <1>4 DEF ReadMember, isClosed, Member, Cause, Error, Verdict, Format, TravPC
  <1>5. CASE FinishActive
      BY <1>5 DEF FinishActive, Member, Cause, Error, Verdict, Format, TravPC
  <1>6. CASE Body
      BY <1>6 DEF Body, ReturnFromMember, CauseOf, Member, Cause, Error, Verdict, Format, TravPC
  <1>7. CASE ScanOpens
      BY <1>7 DEF ScanOpens, Cause, Error, Verdict, Format, TravPC
  <1>8. CASE ScanFinds
      BY <1>8 DEF ScanFinds, CauseOf, Member, Cause, Error, Verdict, Format, TravPC
  <1>9. CASE ScanSpends
      BY <1>9 DEF ScanSpends, CauseOf, Cause, Error, Verdict, Format, TravPC
  <1>10. CASE ScanFails
      BY <1>10 DEF ScanFails, CauseOf, Cause, Error, Verdict, Format, TravPC
  <1>11. CASE TakeVolume
      BY <1>11 DEF TakeVolume, Cause, Error, Verdict, Format, TravPC
  <1>12. CASE ClosePrev
      BY CloseTyped, <1>12 DEF ClosePrev, VolumeClose, Cause, Error, Verdict, Format, TravPC
  <1>13. CASE Receive
      BY <1>a, <1>b, <1>13 DEF Receive, ReceivesStream, Cause, Error, Verdict, Format, TravPC, CanReceive
  <1>14. CASE ReceiveEnd
      BY <1>14 DEF ReceiveEnd, Cause, Error, Verdict, Format, TravPC
  <1>15. CASE ReceiveDone
      BY <1>15 DEF ReceiveDone, isClosed, Cause, Error, Verdict, Format, TravPC
  <1>16. CASE Stage
      BY <1>16 DEF Stage, isClosed, Cause, Error, Verdict, Format, TravPC
  <1>17. CASE CloseRefused
      BY CloseTyped, <1>17 DEF CloseRefused, CloseStream, Cause, Error, Verdict, Format, TravPC
  <1>18. CASE ReadSignature
      BY <1>18 DEF ReadSignature, CauseOf, Cause, Error, Verdict, Format, TravPC
  <1>19. CASE Unstage
      BY <1>19 DEF Unstage, ClaimedByClose, Cause, Error, Verdict, Format, TravPC
  <1>20. CASE DropStream
      BY CloseTyped, <1>20 DEF DropStream, CloseStream, Cause, Error, Verdict, Format, TravPC
  <1>21. CASE DropVolume
      BY CloseTyped, <1>21 DEF DropVolume, VolumeClose, Cause, Error, Verdict, Format, TravPC
  <1>22. CASE PublishVolume
      BY <1>22 DEF PublishVolume, PublishRefused, isClosed, Cause, Error, Verdict, Format, TravPC
  <1>23. CASE Latch
      BY <1>23 DEF Latch, LatchesArchive, Cause, Error, Verdict, Format, TravPC
  <1>24. CASE FinishMember
      BY <1>24 DEF FinishMember, OverridesShort, isClosed, ReturnFromMember, Member, Cause, Error, Verdict, Format, TravPC
  <1>25. CASE Translate
      BY <1>25 DEF Translate, TranslatesToClosed, isClosed, Cause, Error, Verdict, Format, TravPC
  <1>26. CASE ResetTake
      BY <1>26 DEF ResetTake, Member, Cause, Error, Verdict, Format, TravPC
  <1>27. CASE ResetClose
      BY CloseTyped, <1>27 DEF ResetClose, ResetHolds, VolumeClose, Cause, Error, Verdict, Format, TravPC
  <1>28. CASE ResetDrain
      <2>1. CASE DrainOne(arch) /\ UNCHANGED pc
          <3>1. CanReceive(arch) /\ recvd[arch] < sent[arch]
              BY <1>a, <1>b, <2>1 DEF DrainOne
          <3>2. /\ recvd' \in [Archive -> 0 .. Volumes]
                /\ \A h \in Archive : recvd'[h] <= sent'[h]
              BY <1>28, <2>1, <3>1 DEF ResetDrain, DrainOne, CanReceive
          <3>3. closed' \in [Stream -> Nat] /\ drained' \subseteq Stream
              BY <2>1, <3>1, CloseTyped DEF DrainOne, CloseStream, CanReceive
          <3> QED BY <1>28, <2>1, <3>2, <3>3 DEF ResetDrain
      <2>2. CASE DrainDry(arch) /\ pc' = "rSwap" /\ UNCHANGED <<recvd, closed, drained>>
          BY <1>28, <2>2 DEF ResetDrain, TravPC
      <2> QED BY <1>28, <2>1, <2>2 DEF ResetDrain
  <1>29. CASE ResetSwap
      BY <1>c, <1>29 DEF ResetSwap, Cause, Error, Verdict, Format, TravPC
  <1>30. CASE ResetRestart
      BY <1>30 DEF ResetRestart, Cause, Error, Verdict, Format, TravPC
  <1>31. CASE ResetClear
      BY <1>31 DEF ResetClear, Cause, Error, Verdict, Format, TravPC
  <1>32. ASSUME NEW c \in Closers, CloseBegin(c) PROVE TypeOK' /\ ResetInBound'
      BY <1>32 DEF CloseBegin, ClaimStaging, ClosePC
  <1>33. ASSUME NEW c \in Closers, CloseStop(c) PROVE TypeOK' /\ ResetInBound'
      BY <1>33 DEF CloseStop, ClosePC
  <1>34. ASSUME NEW c \in Closers, CloseVolume(c) PROVE TypeOK' /\ ResetInBound'
      BY CloseTyped, <1>34 DEF CloseVolume, VolumeClose, ClosePC
  <1>35. ASSUME NEW c \in Closers, CloseStaged(c) PROVE TypeOK' /\ ResetInBound'
      BY CloseTyped, <1>35 DEF CloseStaged, CloseStream, ClosePC
  <1>36. ASSUME NEW c \in Closers, CloseDrain(c) PROVE TypeOK' /\ ResetInBound'
      BY <1>a, <1>b, CloseTyped, <1>36 DEF CloseDrain, DrainOne, DrainDry, DrainTarget, CloseStream, ClosePC, CanReceive
  <1>37. CASE UNCHANGED vars
      BY <1>37 DEF vars
  <1> QED BY <1>1, <1>2, <1>3, <1>4, <1>5, <1>6, <1>7, <1>8, <1>9, <1>10, <1>11, <1>12, <1>13, <1>14, <1>15, <1>16, <1>17, <1>18, <1>19, <1>20, <1>21, <1>22, <1>23, <1>24, <1>25, <1>26, <1>27, <1>28, <1>29, <1>30, <1>31, <1>32, <1>33, <1>34, <1>35, <1>36, <1>37 DEF Next, Producer, Scan, Advance, Report, Reset, Close

(* Taking an element off channel g adds exactly that element to the streams *)
(* received, and it was not one of them.                                    *)
LEMMA ReceiveOne ==
  ASSUME TypeOK, NEW g \in Archive, recvd[g] < sent[g],
         recvd' = [recvd EXCEPT ![g] = @ + 1]
  PROVE  LET t == <<g, recvd[g] + 1>>
         IN  /\ t \in Stream /\ t[1] = g /\ ~Received(t)
             /\ \A s \in Stream : Received(s)' <=> (Received(s) \/ s = t)
  <1> DEFINE t == <<g, recvd[g] + 1>>
  <1>1. recvd \in [Archive -> Nat] /\ recvd[g] \in Nat
      BY ChainAssumption DEF TypeOK
  <1>2. t \in Stream
      BY NextInChannel DEF CanReceive
  <1>3. t[1] = g /\ t[2] = recvd[g] + 1
      OBVIOUS
  <1>4. ~Received(t)
      BY <1>1, <1>3 DEF Received
  <1>5. ASSUME NEW s \in Stream PROVE Received(s)' <=> (Received(s) \/ s = t)
      <2>1. s = <<s[1], s[2]>> /\ s[1] \in Archive /\ s[2] \in Nat
          BY DEF Stream
      <2>2. CASE s[1] = g
          <3>1. recvd'[s[1]] = recvd[g] + 1
              BY <1>1, <2>2
          <3>2. s[2] <= recvd[g] + 1 <=> s[2] <= recvd[g] \/ s[2] = recvd[g] + 1
              BY <1>1, <2>1
          <3>3. s = t <=> s[2] = recvd[g] + 1
              BY <2>1, <2>2, <1>3
          <3> QED BY <3>1, <3>2, <3>3, <2>2 DEF Received
      <2>3. CASE s[1] # g
          <3>1. recvd'[s[1]] = recvd[s[1]]
              BY <1>1, <2>1, <2>3
          <3>2. s # t
              BY <1>3, <2>3
          <3> QED BY <3>1, <3>2 DEF Received
      <2> QED BY <2>2, <2>3
  <1> QED BY <1>2, <1>3, <1>4, <1>5

(* Every step keeps custody. *)
LEMMA CustodyStep == IInv /\ [Next]_vars => Custody'
  <1> SUFFICES ASSUME IInv, [Next]_vars PROVE Custody'
      OBVIOUS
  <1>t. /\ vol \in Stream \cup {None} /\ staging \in Stream \cup {None}
        /\ mine \in Stream \cup {None} /\ None \notin Stream
        /\ closed \in [Stream -> Nat] /\ once \subseteq Stream
        /\ cpc \in [Closers -> ClosePC]
        /\ cvol \in [Closers -> Stream \cup {None}]
        /\ cstaged \in [Closers -> Stream \cup {None}]
        /\ carch \in [Closers -> Archive] /\ arch \in Archive
      BY ChainAssumption DEF IInv, TypeOK
  <1>i. Custody
      BY DEF IInv
  <1> USE DEF producer, closers, result, archive, others, isClosed
  <1> USE DEF Custody, Untouched, CountsSound, TraversalHolds, StagingHolds,
              VolumeHolds, ClosersHold, SomebodyCloses, DrainsSound,
              Open, ByOnce, Unshared, RawPC, SigPC, HeldPC
  <1>1. ASSUME NEW g \in Archive, Send(g) PROVE Custody'
      <2> DEFINE t == <<g, sent[g] + 1>>
      <2>1. t \in Stream
          BY <1>1, NextInChannel DEF IInv, Send, CanSend
      <2>2. ~Received(t)
          BY <1>1, ChainAssumption DEF IInv, TypeOK, Received
      <2>3. /\ nils' \in {nils, nils \cup {t}}
            /\ UNCHANGED <<recvd, arch, done, vol, staging, closed, once, pc, mine,
                            closers, drained>>
          BY <1>1 DEF Send
      <2>4. \A s \in Stream : Received(s)' <=> Received(s)
          BY <2>3 DEF Received
      <2> HIDE DEF t
      <2> QED BY <1>t, <1>i, <2>1, <2>2, <2>3, <2>4
  <1>2. ASSUME NEW g \in Archive, CloseChannel(g) PROVE Custody'
      BY <1>t, <1>i, <1>2 DEF CloseChannel, Received
  <1>3. CASE NextEntry
      BY <1>t, <1>i, <1>3 DEF NextEntry, Received
  <1>4. CASE ReadMember
      BY <1>t, <1>i, <1>4 DEF ReadMember, Received
  <1>5. CASE FinishActive
      BY <1>t, <1>i, <1>5 DEF FinishActive, Received
  <1>6. CASE Body
      BY <1>t, <1>i, <1>6 DEF Body, ReturnFromMember, CauseOf, Received
  <1>7. CASE ScanOpens
      BY <1>t, <1>i, <1>7 DEF ScanOpens, Received
  <1>8. CASE ScanFinds
      BY <1>t, <1>i, <1>8 DEF ScanFinds, CauseOf, Received
  <1>9. CASE ScanSpends
      BY <1>t, <1>i, <1>9 DEF ScanSpends, CauseOf, Received
  <1>10. CASE ScanFails
      BY <1>t, <1>i, <1>10 DEF ScanFails, CauseOf, Received
  <1>11. CASE TakeVolume
      BY <1>t, <1>i, <1>11 DEF TakeVolume, Received
  <1>12. CASE ClosePrev
      BY <1>t, <1>i, <1>12 DEF ClosePrev, VolumeClose, Received
  <1>13. CASE Receive
      <2> DEFINE t == <<arch, recvd[arch] + 1>>
      <2>1. /\ t \in Stream /\ t[1] = arch /\ ~Received(t)
            /\ \A s \in Stream : Received(s)' <=> (Received(s) \/ s = t)
          BY <1>13, ReceiveOne DEF IInv, TypeOK, Receive, ReceivesStream
      <2>2. /\ pc = "select"
            /\ IF t \in nils THEN pc' = "ret" /\ UNCHANGED mine
                             ELSE pc' = "stage" /\ mine' = t
            /\ UNCHANGED <<arch, done, vol, staging, closed, once, nils, closers, drained>>
          BY <1>13 DEF Receive
      <2> HIDE DEF t
      <2> QED BY <1>t, <1>i, <2>1, <2>2
  <1>14. CASE ReceiveEnd
      BY <1>t, <1>i, <1>14 DEF ReceiveEnd, Received
  <1>15. CASE ReceiveDone
      BY <1>t, <1>i, <1>15 DEF ReceiveDone, Received
  <1>16. CASE Stage
      BY <1>t, <1>i, <1>16 DEF Stage, Received
  <1>17. CASE CloseRefused
      BY <1>t, <1>i, <1>17 DEF CloseRefused, CloseStream, Received
  <1>18. CASE ReadSignature
      BY <1>t, <1>i, <1>18 DEF ReadSignature, CauseOf, Received
  <1>19. CASE Unstage
      BY <1>t, <1>i, <1>19 DEF Unstage, ClaimedByClose, Received
  <1>20. CASE DropStream
      BY <1>t, <1>i, <1>20 DEF DropStream, CloseStream, Received
  <1>21. CASE DropVolume
      BY <1>t, <1>i, <1>21 DEF DropVolume, VolumeClose, Received
  <1>22. CASE PublishVolume
      BY <1>t, <1>i, <1>22 DEF PublishVolume, PublishRefused, Received
  <1>23. CASE Latch
      BY <1>t, <1>i, <1>23 DEF Latch, LatchesArchive, Received
  <1>24. CASE FinishMember
      BY <1>t, <1>i, <1>24 DEF FinishMember, OverridesShort, ReturnFromMember, Received
  <1>25. CASE Translate
      BY <1>t, <1>i, <1>25 DEF Translate, TranslatesToClosed, Received
  <1>26. CASE ResetTake
      BY <1>t, <1>i, <1>26 DEF ResetTake, Received
  <1>27. CASE ResetClose
      BY <1>t, <1>i, <1>27 DEF ResetClose, ResetHolds, VolumeClose, Received
  <1>28. CASE ResetDrain
      <2>1. CASE DrainOne(arch) /\ UNCHANGED pc
          <3> DEFINE t == <<arch, recvd[arch] + 1>>
          <3>1. /\ t \in Stream /\ t[1] = arch /\ ~Received(t)
                /\ \A s \in Stream : Received(s)' <=> (Received(s) \/ s = t)
              BY <2>1, ReceiveOne DEF IInv, TypeOK, DrainOne
          <3>2. /\ pc = "rDrain" /\ UNCHANGED <<vol, staging, once, pc, mine, cvol, cstaged, carch, arch, done, nils, cpc>>
                /\ IF t \in nils THEN UNCHANGED <<closed, drained>>
                   ELSE /\ closed' = [closed EXCEPT ![t] = @ + 1]
                        /\ drained' = drained \cup {t}
              BY <1>28, <2>1 DEF ResetDrain, DrainOne, CloseStream
          <3> HIDE DEF t
          <3> QED BY <1>t, <1>i, <3>1, <3>2
      <2>2. CASE DrainDry(arch) /\ pc' = "rSwap" /\ UNCHANGED <<recvd, closed, drained>>
          BY <1>t, <1>i, <1>28, <2>2 DEF ResetDrain, Received
      <2> QED BY <1>28, <2>1, <2>2 DEF ResetDrain
  <1>29. CASE ResetSwap
      <2>1. arch \in Nat /\ \A s \in drained : s[1] \in Nat
          BY DEF IInv, TypeOK, Stream, Archive
      <2>2. staging = None /\ vol = None /\ mine = None
          BY <1>i, <1>29 DEF Custody, StagingHolds, TraversalHolds, ResetSwap, SigPC, RawPC, HeldPC
      <2> QED BY <1>t, <1>i, <1>29, <2>1, <2>2 DEF ResetSwap, Received
  <1>30. CASE ResetRestart
      BY <1>t, <1>i, <1>30 DEF ResetRestart, Received
  <1>31. CASE ResetClear
      BY <1>t, <1>i, <1>31 DEF ResetClear, Received
  <1>32. ASSUME NEW c \in Closers, CloseBegin(c) PROVE Custody'
      BY <1>t, <1>i, <1>32 DEF CloseBegin, ClaimStaging, Received
  <1>33. ASSUME NEW c \in Closers, CloseStop(c) PROVE Custody'
      BY <1>t, <1>i, <1>33 DEF CloseStop, Received
  <1>34. ASSUME NEW c \in Closers, CloseVolume(c) PROVE Custody'
      BY <1>t, <1>i, <1>34 DEF CloseVolume, VolumeClose, Received
  <1>35. ASSUME NEW c \in Closers, CloseStaged(c) PROVE Custody'
      BY <1>t, <1>i, <1>35 DEF CloseStaged, CloseStream, Received
  <1>36. ASSUME NEW c \in Closers, CloseDrain(c) PROVE Custody'
      <2> DEFINE g == carch[c]
      <2>0. g \in Archive /\ g \in done
          BY <1>t, <1>i, <1>36 DEF Custody, ClosersHold, CloseDrain
      <2>1. CASE DrainOne(g) /\ UNCHANGED cpc
          <3> DEFINE t == <<g, recvd[g] + 1>>
          <3>1. /\ t \in Stream /\ t[1] = g /\ ~Received(t)
                /\ \A s \in Stream : Received(s)' <=> (Received(s) \/ s = t)
              BY <2>0, <2>1, ReceiveOne DEF IInv, DrainOne
          <3>2. /\ UNCHANGED <<vol, staging, once, pc, mine, cvol, cstaged, carch, arch, done, nils, cpc>>
                /\ IF t \in nils THEN UNCHANGED <<closed, drained>>
                   ELSE /\ closed' = [closed EXCEPT ![t] = @ + 1]
                        /\ drained' = drained \cup {t}
              BY <1>36, <2>1 DEF CloseDrain, DrainOne, CloseStream
          <3> HIDE DEF t, g
          <3> QED BY <1>t, <1>i, <2>0, <3>1, <3>2
      <2>2. CASE DrainDry(g) /\ cpc' = [cpc EXCEPT ![c] = "idle"]
                 /\ UNCHANGED <<recvd, closed, drained>>
          BY <1>t, <1>i, <1>36, <2>2 DEF CloseDrain, Received
      <2> QED BY <1>36, <2>1, <2>2 DEF CloseDrain, DrainTarget
  <1>37. CASE UNCHANGED vars
      BY <1>t, <1>i, <1>37 DEF vars, Received
  <1> QED BY <1>1, <1>2, <1>3, <1>4, <1>5, <1>6, <1>7, <1>8, <1>9, <1>10, <1>11, <1>12, <1>13, <1>14, <1>15, <1>16, <1>17, <1>18, <1>19, <1>20, <1>21, <1>22, <1>23, <1>24, <1>25, <1>26, <1>27, <1>28, <1>29, <1>30, <1>31, <1>32, <1>33, <1>34, <1>35, <1>36, <1>37 DEF Next, Producer, Scan, Advance, Report, Reset, Close

-----------------------------------------------------------------------------
(* A new Reader has received nothing, holds nothing and has closed nothing. *)
LEMMA InitInv == Init => IInv
  <1> SUFFICES ASSUME Init PROVE IInv
      OBVIOUS
  <1> USE ChainAssumption DEF Init
  <1>1. 1 \in Archive /\ 0 \in 0 .. Volumes
      BY DEF Archive
  <1>2. TypeOK
      BY <1>1 DEF TypeOK, Cause, Format, Member, Error, Verdict, TravPC, ClosePC
  <1>3. ResetInBound
      BY DEF ResetInBound
  <1>4. \A s \in Stream : ~Received(s)
      BY DEF Stream, Received
  <1>5. Custody
      BY <1>4 DEF Custody, Untouched, CountsSound, TraversalHolds, StagingHolds,
                  VolumeHolds, ClosersHold, SomebodyCloses, DrainsSound,
                  Open, ByOnce, Unshared, RawPC, SigPC, HeldPC
  <1> QED BY <1>2, <1>3, <1>5 DEF IInv

(* The account of who closes which stream holds in every reachable state of *)
(* the Reader, whatever order Close, Reset and the traversal run in.        *)
THEOREM ChainInvariant == Spec => []IInv
  <1>1. IInv /\ [Next]_vars => IInv'
      BY TypeStep, CustodyStep DEF IInv
  <1> QED BY InitInv, <1>1, PTL DEF Spec

(* The Reader's fields, the positions of the traversal and of every Close,  *)
(* and the channel counters stay in their types.                            *)
THEOREM TypeCorrect == Spec => []TypeOK
  <1>1. IInv => TypeOK
      BY DEF IInv
  <1> QED BY ChainInvariant, <1>1, PTL

(* No interleaving of the traversal, of Reset and of any number of Closes   *)
(* closes a caller's stream twice, or closes a nil one.                     *)
THEOREM StreamsClosedOnce == Spec => []ClosedAtMostOnce
  <1>1. IInv => ClosedAtMostOnce
      BY DEF IInv, Custody, Untouched, CountsSound, Open, ClosedAtMostOnce
  <1> QED BY ChainInvariant, <1>1, PTL

(* Once every call has returned, each stream taken off a channel is closed, *)
(* or is the volume a live Reader still has open.                           *)
THEOREM NoStreamLeaks == Spec => []NothingLeaked
  <1>1. IInv => NothingLeaked
      <2> SUFFICES ASSUME IInv, Quiescent, NEW g \in Archive, NEW i \in 1 .. recvd[g],
                          <<g, i>> \notin nils, closed[<<g, i>>] # 1
                   PROVE  vol = <<g, i>> /\ g = arch /\ ~isClosed
          BY DEF NothingLeaked
      <2> DEFINE s == <<g, i>>
      <2>1. recvd[g] \in 0 .. Volumes /\ Volumes \in Nat
          BY ChainAssumption DEF IInv, TypeOK
      <2>2. i \in 1 .. Volumes /\ i <= recvd[g]
          BY <2>1
      <2>3. s \in Stream /\ s[1] = g /\ s[2] = i
          BY <2>2 DEF Stream
      <2>4. Received(s)
          BY <2>2, <2>3 DEF Received
      <2> HIDE DEF s
      <2>5. closed[s] = 0 /\ mine = None /\ s # None
          BY <2>3, ChainAssumption
             DEF IInv, Custody, CountsSound, TraversalHolds, Quiescent, s,
                 HeldPC, RawPC, SigPC
      <2>6. \A c \in Closers : cstaged[c] # s /\ cvol[c] # s
          BY <2>5 DEF IInv, Custody, ClosersHold, Quiescent
      <2>7. s = vol
          BY <2>3, <2>4, <2>5, <2>6 DEF IInv, Custody, SomebodyCloses, s
      <2> QED BY <2>3, <2>5, <2>6, <2>7 DEF IInv, Custody, VolumeHolds, s
  <1> QED BY ChainInvariant, <1>1, PTL

(* A Close that outlives a Reset never touches the new archive's channel,   *)
(* its open volume or the stream being opened.                              *)
THEOREM LiveArchiveSafe == Spec => []LiveArchiveUntouched
  <1>1. IInv => LiveArchiveUntouched
      <2> SUFFICES ASSUME IInv, ~isClosed, pc \notin {"rDrain", "rSwap"}
                   PROVE  /\ \A i \in 1 .. Volumes : <<arch, i>> \notin drained
                          /\ \A s \in {vol, staging} \ {None} : closed[s] = 0
          BY DEF LiveArchiveUntouched
      <2>1. arch \in Nat
          BY DEF IInv, TypeOK, Archive
      <2>2. \A i \in 1 .. Volumes : <<arch, i>> \notin drained
          BY <2>1 DEF IInv, Custody, DrainsSound, isClosed
      <2>3. \A s \in {vol, staging} \ {None} : closed[s] = 0
          BY DEF IInv, Custody, VolumeHolds, StagingHolds, Open
      <2> QED BY <2>2, <2>3
  <1> QED BY ChainInvariant, <1>1, PTL
(* A stream the traversal reads is only closed under it when the Reader is  *)
(* closed: then the cause of what it read is the closing, and no other time. *)
LEMMA ClosedCauses ==
  ASSUME IInv, Causes
  PROVE  /\ vol # None /\ CauseOf(vol) = "close" => isClosed
         /\ pc = "sig" /\ CauseOf(mine) = "close" => isClosed
         /\ arch \in Archive /\ None \notin Stream
         /\ \A s : CauseOf(s) \in {"stream", "close"}
  <1>1. vol # None /\ CauseOf(vol) = "close" => isClosed
      BY DEF IInv, Custody, VolumeHolds, CauseOf
  <1>2. pc = "sig" /\ CauseOf(mine) = "close" => isClosed
      BY DEF IInv, Custody, StagingHolds, Open, SigPC, Causes, CauseOf
  <1> QED BY <1>1, <1>2, ChainAssumption DEF CauseOf, IInv, TypeOK

(* Every step keeps the account of errors and causes, and with it what is   *)
(* reported.                                                                *)
LEMMA ReportingStep == IInv /\ Reporting /\ [Next]_vars => Reporting'
  <1> SUFFICES ASSUME IInv, Reporting, [Next]_vars PROVE Reporting'
      OBVIOUS
  <1>c. /\ vol # None /\ CauseOf(vol) = "close" => isClosed
        /\ pc = "sig" /\ CauseOf(mine) = "close" => isClosed
        /\ arch \in Archive /\ None \notin Stream
        /\ \A s : CauseOf(s) \in {"stream", "close"}
      BY ClosedCauses DEF Reporting
  <1>t. /\ recvd \in [Archive -> Nat] /\ sent \in [Archive -> Nat]
        /\ pc \in TravPC /\ call \in {"NextEntry", "Read", "drain"}
        /\ damaged \in Cause /\ why \in Cause /\ fatal \in Cause
        /\ err \in Error /\ fmt \in Format
      BY ChainAssumption DEF IInv, TypeOK
  <1>d. ~isClosed /\ pc \notin {"rDrain", "rSwap"} =>
          \A i \in 1 .. Volumes : <<arch, i>> \notin drained
      <2>1. arch \in Nat
          BY <1>c DEF Archive
      <2> QED BY <2>1 DEF IInv, Custody, DrainsSound, isClosed
  <1>m. pc \in {"stage"} => mine # None
      BY DEF IInv, Custody, TraversalHolds, HeldPC, RawPC
  <1> USE DEF producer, closers, result, archive, others, isClosed
  <1> USE DEF Reporting, Errors, InPayload, ResetPC, Causes, CleanEndIsComplete, CancelNeverBlamesArchive, ErrPC, SigPC
  <1>1. ASSUME NEW g \in Archive, Send(g) PROVE Reporting'
      BY <1>c, <1>t, <1>1 DEF Send
  <1>2. ASSUME NEW g \in Archive, CloseChannel(g) PROVE Reporting'
      BY <1>c, <1>t, <1>2 DEF CloseChannel
  <1>3. CASE NextEntry
      BY <1>c, <1>d, <1>m, <1>t, <1>3 DEF NextEntry
  <1>4. CASE ReadMember
      BY <1>c, <1>d, <1>m, <1>t, <1>4 DEF ReadMember
  <1>5. CASE FinishActive
      BY <1>c, <1>d, <1>m, <1>t, <1>5 DEF FinishActive
  <1>6. CASE Body
      BY <1>c, <1>d, <1>m, <1>t, <1>6 DEF Body, ReturnFromMember
  <1>7. CASE ScanOpens
      BY <1>c, <1>d, <1>m, <1>t, <1>7 DEF ScanOpens
  <1>8. CASE ScanFinds
      BY <1>c, <1>d, <1>m, <1>t, <1>8 DEF ScanFinds
  <1>9. CASE ScanSpends
      BY <1>c, <1>d, <1>m, <1>t, <1>9 DEF ScanSpends
  <1>10. CASE ScanFails
      BY <1>c, <1>d, <1>m, <1>t, <1>10 DEF ScanFails
  <1>11. CASE TakeVolume
      BY <1>c, <1>d, <1>m, <1>t, <1>11 DEF TakeVolume
  <1>12. CASE ClosePrev
      BY <1>c, <1>d, <1>m, <1>t, <1>12 DEF ClosePrev, VolumeClose
  <1>13. CASE Receive
      BY <1>c, <1>d, <1>m, <1>t, <1>13 DEF Receive, ReceivesStream
  <1>14. CASE ReceiveEnd
      BY <1>c, <1>d, <1>m, <1>t, <1>14 DEF ReceiveEnd
  <1>15. CASE ReceiveDone
      BY <1>c, <1>d, <1>m, <1>t, <1>15 DEF ReceiveDone
  <1>16. CASE Stage
      BY <1>c, <1>d, <1>m, <1>t, <1>16 DEF Stage
  <1>17. CASE CloseRefused
      BY <1>c, <1>d, <1>m, <1>t, <1>17 DEF CloseRefused, CloseStream
  <1>18. CASE ReadSignature
      BY <1>c, <1>d, <1>m, <1>t, <1>18 DEF ReadSignature
  <1>19. CASE Unstage
      BY <1>c, <1>d, <1>m, <1>t, <1>19 DEF Unstage, ClaimedByClose
  <1>20. CASE DropStream
      BY <1>c, <1>d, <1>m, <1>t, <1>20 DEF DropStream, CloseStream
  <1>21. CASE DropVolume
      BY <1>c, <1>d, <1>m, <1>t, <1>21 DEF DropVolume, VolumeClose
  <1>22. CASE PublishVolume
      BY <1>c, <1>d, <1>m, <1>t, <1>22 DEF PublishVolume, PublishRefused
  <1>23. CASE Latch
      BY <1>c, <1>d, <1>m, <1>t, <1>23 DEF Latch, LatchesArchive
  <1>24. CASE FinishMember
      BY <1>c, <1>d, <1>m, <1>t, <1>24 DEF FinishMember, OverridesShort, ReturnFromMember
  <1>25. CASE Translate
      BY <1>c, <1>d, <1>m, <1>t, <1>25 DEF Translate, TranslatesToClosed
  <1>26. CASE ResetTake
      BY <1>c, <1>d, <1>m, <1>t, <1>26 DEF ResetTake
  <1>27. CASE ResetClose
      BY <1>c, <1>d, <1>m, <1>t, <1>27 DEF ResetClose, ResetHolds, VolumeClose
  <1>28. CASE ResetDrain
      BY <1>c, <1>d, <1>m, <1>t, <1>28 DEF ResetDrain, DrainOne, DrainDry, CloseStream
  <1>29. CASE ResetSwap
      BY <1>c, <1>d, <1>m, <1>t, <1>29 DEF ResetSwap
  <1>30. CASE ResetRestart
      BY <1>c, <1>d, <1>m, <1>t, <1>30 DEF ResetRestart
  <1>31. CASE ResetClear
      BY <1>c, <1>d, <1>m, <1>t, <1>31 DEF ResetClear
  <1>32. ASSUME NEW c \in Closers, CloseBegin(c) PROVE Reporting'
      BY <1>c, <1>d, <1>t, <1>32 DEF CloseBegin, ClaimStaging
  <1>33. ASSUME NEW c \in Closers, CloseStop(c) PROVE Reporting'
      BY <1>c, <1>d, <1>t, <1>33 DEF CloseStop
  <1>34. ASSUME NEW c \in Closers, CloseVolume(c) PROVE Reporting'
      BY <1>c, <1>d, <1>t, <1>34 DEF CloseVolume, VolumeClose
  <1>35. ASSUME NEW c \in Closers, CloseStaged(c) PROVE Reporting'
      BY <1>c, <1>d, <1>t, <1>35 DEF CloseStaged, CloseStream
  <1>36. ASSUME NEW c \in Closers, CloseDrain(c) PROVE Reporting'
      BY <1>c, <1>d, <1>t, <1>36 DEF CloseDrain, DrainOne, DrainDry, DrainTarget, CloseStream
  <1>37. CASE UNCHANGED vars
      BY <1>37 DEF vars
  <1> QED BY <1>1, <1>2, <1>3, <1>4, <1>5, <1>6, <1>7, <1>8, <1>9, <1>10, <1>11, <1>12, <1>13, <1>14, <1>15, <1>16, <1>17, <1>18, <1>19, <1>20, <1>21, <1>22, <1>23, <1>24, <1>25, <1>26, <1>27, <1>28, <1>29, <1>30, <1>31, <1>32, <1>33, <1>34, <1>35, <1>36, <1>37 DEF Next, Producer, Scan, Advance, Report, Reset, Close

(* The account of errors and causes holds in every reachable state.         *)
THEOREM ReportingInvariant == Spec => [](IInv /\ Reporting)
  <1>1. Init => Reporting
      BY DEF Init, Reporting, Errors, InPayload, ResetPC, Causes, CleanEndIsComplete, CancelNeverBlamesArchive, ErrPC, SigPC
  <1>2. IInv /\ Reporting /\ [Next]_vars => Reporting'
      BY ReportingStep
  <1> QED BY ChainInvariant, <1>1, <1>2, PTL DEF Spec

(* io.EOF is only reported for an archive whose channel ended and whose     *)
(* every stream the traversal itself received, and which nothing damaged,   *)
(* however many Closes race the scan.                                       *)
THEOREM CleanEndsComplete == Spec => []CleanEndIsComplete
  <1>1. Reporting => CleanEndIsComplete
      BY DEF Reporting
  <1> QED BY ReportingInvariant, <1>1, PTL

(* What a stream answered because Close had closed it is never reported as  *)
(* the archive's fault nor latched for later calls, and is a member's       *)
(* verdict only where that member had been delivered whole: finish's        *)
(* override asks for a short member, and for a closed Reader, which is the  *)
(* only one such an answer is met on.                                       *)
THEOREM ClosingIsNoFault == Spec => []CancelNeverBlamesArchive
  <1>1. Reporting => CancelNeverBlamesArchive
      BY DEF Reporting
  <1> QED BY ReportingInvariant, <1>1, PTL
=============================================================================
