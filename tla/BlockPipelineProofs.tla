------------------------- MODULE BlockPipelineProofs -------------------------
(***************************************************************************)
(* Proofs about BlockPipeline, for any number of workers, blocks, members  *)
(* and quit channels, any set of goroutines that call Close and any kinds  *)
(* of block: its invariants first, then that it implements SerialDecode.   *)
(***************************************************************************)
EXTENDS BlockPipeline, FiniteSetTheorems, FunctionTheorems, WellFoundedInduction, TLAPS

Alive(w) == worker[w] \in {"idle", "busy"}
NoneAlive == \A w \in Worker : ~Alive(w)
DrainFor(r) == pc \in {"drain", "drainWait"} /\ ret = r

(* A member is being built and the pipeline it will run on is not chosen,   *)
(* or is chosen and not published.                                          *)
Choosing == pc \in {"scan", "set"} \/ DrainFor("set")
Resizing == pc \in {"resizeStop", "resizeWait", "resizePublish"}
Restarting == pc \in {"rLatch", "rCheck", "rWait", "rArm"} \/ DrainFor("rArm")

(* The quit channels: one is made at a time, within the bound, and only a   *)
(* pipeline that was just published may be without one.                     *)
Channels ==
  /\ quit <= gens /\ fired \subseteq 1 .. gens
  /\ quit = 0 => pid = 0 \/ pc = "engage"
  /\ quit = 0 => running = "no"
  /\ pid = 0 => quit = 0
  /\ pc \in {"resizeStop", "resizeWait", "engage", "rCheck", "rWait", "rArm"} => pid > 0
  /\ DrainFor("rArm") => pid > 0
  /\ Choosing \/ Resizing \/ Restarting => gens < Gens
  /\ pc = "engage" /\ quit = 0 => gens < Gens
  /\ pc = "scan" => members < Members
  /\ \A c \in Closers : cpc[c] \in {"stop", "wait"} => cpid[c] > 0

(* The goroutines alive are the generation in force, and somebody is bound  *)
(* to wait for those that have been told to quit.                           *)
Generations ==
  /\ \A w \in Worker : worker[w] # "none" => w[1] \in 1 .. gens
  /\ \A w \in Worker : Alive(w) => w[1] = quit
  /\ running = "yes" => ~QuitFired
  /\ running = "no" /\ ~QuitFired => NoneAlive
  /\ running = "no" /\ ~NoneAlive =>
       pc = "resizeWait" \/ \E c \in Closers : cpc[c] = "wait"
  /\ pc \in {"resizeWait", "resizePublish", "rWait", "rArm"} => running = "no"
  /\ DrainFor("rArm") => running = "no"
  /\ pc \in {"resizePublish", "rArm"} => NoneAlive
  /\ DrainFor("rArm") => NoneAlive

(* A Close that has passed its latch reaches the pipeline in force, or has  *)
(* left the latch for the one about to be published.                        *)
Latched == done = "closed" /\ \A c \in Closers : cpc[c] # "latch"
Reached == Latched /\ \A c \in Closers : ~(cpc[c] = "stop" /\ cpid[c] = pid)
Closing ==
  /\ Latched /\ (Choosing \/ Resizing) => stopped = "yes"
  /\ Reached => running = "no"
  /\ Reached /\ pid > 0 /\ (Choosing \/ pc = "engage") => QuitFired

(* The ring: a slot in flight is with a worker, in the jobs channel or in   *)
(* its done channel, and only the oldest may have been taken from there.    *)
Slots ==
  /\ \A i \in Slot \ Ring : tokens[i] = 0 /\ job[i].waited = "no"
  /\ \A i \in Ring : job[i].waited = "yes" => i = head /\ tokens[i] = 0
  /\ \A w \in Worker : worker[w] = "busy" =>
       wslot[w] \in Ring /\ tokens[wslot[w]] = 0 /\ job[wslot[w]].waited = "no"
  /\ \A v, w \in Worker : worker[v] = "busy" /\ worker[w] = "busy" /\ v # w =>
       wslot[v] # wslot[w]
Queue ==
  ~NoneAlive =>
    /\ \A k \in 1 .. Len(jobs) :
         /\ jobs[k] \in Ring /\ tokens[jobs[k]] = 0 /\ job[jobs[k]].waited = "no"
         /\ \A w \in Worker : worker[w] = "busy" => wslot[w] # jobs[k]
    /\ \A k, l \in 1 .. Len(jobs) : k # l => jobs[k] # jobs[l]
Positions ==
  /\ pc \in {"replay", "inline"} => count > 0 /\ job[head].waited = "yes"
  /\ pc \in {"wait", "drainWait"} => count > 0
  /\ pc = "drainWait" => job[head].waited = "no"
  /\ pc \in {"set", "engage", "rArm"} \/ Resizing => count = 0

(* The references to table sets are the jobs in flight. *)
Holders(t) == {i \in Ring : job[i].tset = t}
References == \A t \in TableSet : inUse[t] = Cardinality(Holders(t))

IInv == TypeOK /\ Channels /\ Generations /\ Closing /\ Slots /\ Queue /\ Positions /\ References

-----------------------------------------------------------------------------
(* The ring of slots. *)

LEMMA RSize == R \in Nat /\ R \in Nat \ {0} /\ R >= 2 /\ Workers \in Nat /\ Workers >= 1
  BY PipelineAssumption DEF R

(* n slots from h on, around the ring. *)
Span(h, n) == {(h + k) % R : k \in 0 .. n - 1}

LEMMA RingIsSpan == Ring = Span(head, count)
  BY DEF Ring, Span

LEMMA Wrap ==
  ASSUME NEW x \in 0 .. 2 * R - 1
  PROVE  x % R = IF x < R THEN x ELSE x - R
  BY RSize

LEMMA WrapInSlot ==
  ASSUME NEW x \in Nat
  PROVE  x % R \in Slot
  BY RSize DEF Slot

LEMMA SpanMembers ==
  ASSUME NEW h \in Slot, NEW n \in 0 .. R, NEW i
  PROVE  i \in Span(h, n) <=>
           i \in Slot /\ ((h <= i /\ i < h + n) \/ i + R < h + n)
  <1> USE RSize DEF Slot
  <1>1. \A k \in 0 .. n - 1 : (h + k) % R = IF h + k < R THEN h + k ELSE h + k - R
      <2> SUFFICES ASSUME NEW k \in 0 .. n - 1
                   PROVE  (h + k) % R = IF h + k < R THEN h + k ELSE h + k - R
          OBVIOUS
      <2>1. h + k \in 0 .. 2 * R - 1
          OBVIOUS
      <2> QED BY <2>1, Wrap
  <1>2. i \in Span(h, n) <=> \E k \in 0 .. n - 1 :
          i = IF h + k < R THEN h + k ELSE h + k - R
      BY <1>1 DEF Span
  <1>3. ASSUME i \in Span(h, n)
        PROVE  i \in Slot /\ ((h <= i /\ i < h + n) \/ i + R < h + n)
      BY <1>2, <1>3
  <1>4. ASSUME i \in Slot, h <= i, i < h + n
        PROVE  i \in Span(h, n)
      <2>1. i - h \in 0 .. n - 1 /\ h + (i - h) = i
          BY <1>4
      <2> QED BY <1>2, <1>4, <2>1
  <1>5. ASSUME i \in Slot, i + R < h + n
        PROVE  i \in Span(h, n)
      <2>1. i + R - h \in 0 .. n - 1 /\ h + (i + R - h) = i + R
          BY <1>5
      <2> QED BY <1>2, <1>5, <2>1
  <1> QED BY <1>3, <1>4, <1>5

LEMMA SpanPush ==
  ASSUME NEW h \in Slot, NEW n \in 0 .. R, n < R
  PROVE  /\ (h + n) % R \in Slot /\ (h + n) % R \notin Span(h, n)
         /\ Span(h, n + 1) = Span(h, n) \cup {(h + n) % R}
  <1> DEFINE e == (h + n) % R
  <1>1. e = IF h + n < R THEN h + n ELSE h + n - R
      <2>1. h + n \in 0 .. 2 * R - 1
          BY RSize DEF Slot
      <2> QED BY <2>1, Wrap, RSize DEF Slot
  <1>2. n + 1 \in 0 .. R
      BY RSize
  <1> HIDE DEF e
  <1>3. e \in Slot
      BY <1>1, RSize DEF Slot
  <1>4. e \notin Span(h, n)
      BY <1>1, SpanMembers, RSize DEF Slot
  <1>5. ASSUME NEW i
        PROVE  i \in Span(h, n + 1) <=> i \in Span(h, n) \/ i = e
      <2>1. i \in Span(h, n + 1) <=>
              i \in Slot /\ ((h <= i /\ i < h + (n + 1)) \/ i + R < h + (n + 1))
          BY <1>2, SpanMembers
      <2>2. i \in Span(h, n) <=>
              i \in Slot /\ ((h <= i /\ i < h + n) \/ i + R < h + n)
          BY SpanMembers
      <2> QED BY <1>1, <1>3, <2>1, <2>2, RSize DEF Slot
  <1>6. Span(h, n + 1) = Span(h, n) \cup {e}
      BY <1>5
  <1> QED BY <1>3, <1>4, <1>6 DEF e

LEMMA SpanPop ==
  ASSUME NEW h \in Slot, NEW n \in 0 .. R, n > 0
  PROVE  /\ h \in Span(h, n)
         /\ Span((h + 1) % R, n - 1) = Span(h, n) \ {h}
  <1> DEFINE e == (h + 1) % R
  <1>1. e = IF h + 1 < R THEN h + 1 ELSE h + 1 - R
      <2>1. h + 1 \in 0 .. 2 * R - 1
          BY RSize DEF Slot
      <2> QED BY <2>1, Wrap, RSize DEF Slot
  <1>2. n - 1 \in 0 .. R
      BY RSize
  <1> HIDE DEF e
  <1>3. e \in Slot
      BY <1>1, RSize DEF Slot
  <1>4. h \in Span(h, n)
      BY SpanMembers, RSize DEF Slot
  <1>5. \A i : i \in Span(e, n - 1) <=> i \in Span(h, n) /\ i # h
      BY <1>1, <1>2, <1>3, SpanMembers, RSize DEF Slot
  <1>6. Span(e, n - 1) = Span(h, n) \ {h}
      BY <1>5
  <1> QED BY <1>4, <1>6 DEF e

LEMMA SlotsFinite == IsFiniteSet(Slot) /\ Cardinality(Slot) = R
  BY RSize, FS_Interval DEF Slot

LEMMA RingFacts ==
  ASSUME TypeOK
  PROVE  /\ Ring \subseteq Slot
         /\ count = 0 <=> Ring = {}
         /\ count > 0 => head \in Ring
  <1>1. head \in Slot /\ count \in 0 .. R
      BY DEF TypeOK
  <1>2. Ring \subseteq Slot
      BY <1>1, SpanMembers, RingIsSpan
  <1>3. count > 0 => head \in Ring
      BY <1>1, SpanPop, RingIsSpan
  <1>4. count = 0 => Ring = {}
      BY DEF Ring
  <1> QED BY <1>1, <1>2, <1>3, <1>4, RSize

-----------------------------------------------------------------------------
(* The table sets. *)

LEMMA LeastOf ==
  ASSUME NEW Q, IsWellFoundedOn(Q, Nat), \A x, y \in Nat : y < x => <<y, x>> \in Q,
         NEW T \in SUBSET Nat, T # {}
  PROVE  \E x \in T : \A y \in T : x <= y
  <1>1. PICK x \in T : \A y \in T : ~(<<y, x>> \in Q)
      BY WFMin
  <1>2. \A y \in T : ~(y < x)
      BY <1>1
  <1>3. \A y \in T : x <= y
      BY <1>2
  <1> QED BY <1>3

LEMMA FirstOf ==
  ASSUME NEW T \in SUBSET Nat, T # {}
  PROVE  First(T) \in T
  <1>1. \A x, y \in Nat : y < x => <<y, x>> \in OpToRel(<, Nat)
      BY DEF OpToRel
  <1>2. \E x \in T : \A y \in T : x <= y
      BY <1>1, NatLessThanWellFounded, LeastOf, Zenon
  <1> QED BY <1>2 DEF First

LEMMA HoldersFacts ==
  ASSUME TypeOK, NEW t
  PROVE  IsFiniteSet(Holders(t)) /\ Cardinality(Holders(t)) \in 0 .. R
  <1>1. Holders(t) \subseteq Slot
      BY RingFacts DEF Holders
  <1>2. IsFiniteSet(Holders(t)) /\ Cardinality(Holders(t)) <= R
      BY <1>1, SlotsFinite, FS_Subset
  <1> QED BY <1>2, FS_CardinalityType, RSize

(* There is one more table set than there are slots. *)
LEMMA FreeSetExists ==
  ASSUME TypeOK, References
  PROVE  FreeTableSets # {} /\ First(FreeTableSets) \in FreeTableSets
  <1> DEFINE used == {job[i].tset : i \in Slot}
  <1>1. IsFiniteSet(used) /\ Cardinality(used) <= R
      <2> DEFINE f == [i \in Slot |-> job[i].tset]
      <2>1. f \in Surjection(Slot, used)
          BY DEF Surjection
      <2> HIDE DEF f, used
      <2> QED BY <2>1, SlotsFinite, FS_Surjection
  <1>2. IsFiniteSet(TableSet) /\ Cardinality(TableSet) = R + 1
      BY RSize, FS_Interval DEF TableSet
  <1>3. ~(TableSet \subseteq used)
      <2> HIDE DEF used
      <2> QED BY <1>1, <1>2, FS_Subset, FS_CardinalityType, RSize
  <1>4. PICK t \in TableSet : t \notin used
      BY <1>3
  <1>5. Holders(t) = {}
      BY <1>4, RingFacts DEF Holders
  <1>6. inUse[t] = 0
      BY <1>5, FS_EmptySet DEF References
  <1>7. FreeTableSets # {} /\ FreeTableSets \in SUBSET Nat
      BY <1>6, RSize DEF FreeTableSets, TableSet
  <1> QED BY <1>7, FirstOf

LEMMA LoadTargetFree ==
  ASSUME TypeOK, References
  PROVE  LoadTarget \in TableSet /\ inUse[LoadTarget] = 0
  BY FreeSetExists DEF LoadTarget, FreeTableSets, TypeOK

LEMMA HeadReferenced ==
  ASSUME TypeOK, References, count > 0
  PROVE  job[head].tset \in TableSet /\ inUse[job[head].tset] \in 1 .. R
  <1>1. head \in Slot /\ job[head].tset \in TableSet
      BY DEF TypeOK, Job
  <1> DEFINE t == job[head].tset
  <1>2. head \in Holders(t)
      BY RingFacts DEF Holders
  <1>3. Cardinality(Holders(t)) # 0
      BY <1>2, HoldersFacts, FS_EmptySet
  <1>4. Cardinality(Holders(t)) \in 1 .. R
      BY <1>3, HoldersFacts, RSize
  <1> QED BY <1>1, <1>4 DEF References

LEMMA RoomReferenced ==
  ASSUME TypeOK, References, count < R, NEW t \in TableSet
  PROVE  inUse[t] \in 0 .. R - 1
  <1>1. (head + count) % R \in Slot /\ (head + count) % R \notin Ring
      BY SpanPush, RingIsSpan DEF TypeOK
  <1>2. Holders(t) \subseteq Slot \ {(head + count) % R}
      BY <1>1, RingFacts DEF Holders
  <1>3. /\ IsFiniteSet(Slot \ {(head + count) % R})
        /\ Cardinality(Slot \ {(head + count) % R}) = R - 1
      BY <1>1, SlotsFinite, FS_RemoveElement
  <1>4. Cardinality(Holders(t)) <= R - 1
      BY <1>2, <1>3, FS_Subset
  <1> QED BY <1>4, HoldersFacts, RSize DEF References

-----------------------------------------------------------------------------
(* Type correctness. *)

LEMMA ShapeKind ==
  ASSUME NEW s \in Shape
  PROVE  KindOf(s) \in {"ok", "cut", "bad"} /\ s[1] \in {"fits", "overflow", "big"}
  BY DEF Shape, KindOf

LEMMA ItemsRange == \A res \in Result : Items(res) \in 0 .. 2
  BY DEF Items, Result

LEMMA JobFields ==
  ASSUME NEW j \in Job
  PROVE  /\ j.shape \in Shape /\ j.last \in Flag /\ j.tabs \in Flag /\ j.tset \in TableSet
         /\ j.res \in Result /\ j.waited \in Flag /\ j.lent \in Flag
         /\ j.pay \in Block /\ j.ver \in Block
         /\ \A r \in Result : [j EXCEPT !.res = r] \in Job
         /\ \A f \in Flag : [j EXCEPT !.waited = f] \in Job
         /\ \A f, g \in Flag : [j EXCEPT !.waited = f, !.lent = g] \in Job
  BY DEF Job

LEMMA PopTypes ==
  ASSUME TypeOK, References, count > 0, Pop
  PROVE  /\ job' \in [Slot -> Job] /\ inUse' \in [TableSet -> 0 .. R]
         /\ oversize' \in Flag /\ head' \in Slot /\ count' \in 0 .. R
         /\ idx' \in 0 .. 2 /\ inline' \in Flag
  <1>1. job[head] \in Job /\ head \in Slot /\ count \in 0 .. R
      BY DEF TypeOK
  <1>2. ClearedJob(head) \in Job
      BY <1>1, JobFields DEF ClearedJob, Flag
  <1>3. job' \in [Slot -> Job]
      BY <1>1, <1>2 DEF Pop, TypeOK
  <1>4. inUse' \in [TableSet -> 0 .. R]
      BY HeadReferenced, RSize DEF Pop, TypeOK, ReleasesTables
  <1>5. head' \in Slot
      BY <1>1, WrapInSlot, RSize DEF Pop, Slot
  <1>6. count' \in 0 .. R /\ idx' \in 0 .. 2
      BY <1>1, RSize DEF Pop
  <1>7. oversize' \in Flag /\ inline' \in Flag
      BY DEF Pop, TypeOK, Flag
  <1> QED BY <1>3, <1>4, <1>5, <1>6, <1>7

LEMMA InitTypes == Init => TypeOK
  <1> SUFFICES ASSUME Init PROVE TypeOK
      OBVIOUS
  <1>1. 0 \in Block /\ 0 \in Slot /\ 0 \in TableSet /\ 0 \in Gen /\ 0 \in 0 .. R
      BY RSize, PipelineAssumption DEF Block, Slot, TableSet, Gen
  <1>2. <<"fits", "ok">> \in Shape
      BY DEF Shape
  <1>3. EmptyJob \in Job
      BY <1>1, <1>2 DEF EmptyJob, Job, Flag, Result
  <1>4. NoBlock \in Live
      BY <1>1, <1>2 DEF NoBlock, Live, Flag
  <1>5. out \in [pay: Block, sym: 0 .. 2, kind: {"ok", "cut", "bad"}, last: Flag,
                 tabs: Flag, ver: Block]
      BY <1>1 DEF Init, Flag
  <1>6. jobs \in Seq(Slot) /\ Len(jobs) <= R
      BY RSize DEF Init
  <1> QED BY <1>1, <1>3, <1>4, <1>5, <1>6, PipelineAssumption DEF Init, TypeOK, TravPC, Flag

LEMMA SomeTypes ==
  /\ NoBlock \in Live /\ EmptyJob \in Job
  /\ 0 \in Block /\ 0 \in Slot /\ 0 \in TableSet /\ 0 \in Gen /\ 0 \in 0 .. R
  <1>1. 0 \in Block /\ 0 \in Slot /\ 0 \in TableSet /\ 0 \in Gen /\ 0 \in 0 .. R
      BY RSize, PipelineAssumption DEF Block, Slot, TableSet, Gen
  <1>2. <<"fits", "ok">> \in Shape
      BY DEF Shape
  <1>3. EmptyJob \in Job
      BY <1>1, <1>2 DEF EmptyJob, Job, Flag, Result
  <1>4. NoBlock \in Live
      BY <1>1, <1>2 DEF NoBlock, Live, Flag
  <1> QED BY <1>1, <1>3, <1>4

(* The tables' versions and the symbols are numbers of blocks. *)
LEMMA BeginMemberTypes ==
  ASSUME TypeOK, NEW v \in Block, BeginMember(v)
  PROVE  /\ verdict' = "none" /\ pc' = "idle"
         /\ out' \in [pay: Block, sym: 0 .. 2, kind: {"ok", "cut", "bad"}, last: Flag,
                      tabs: Flag, ver: Block]
  BY DEF BeginMember, TypeOK, Flag

LEMMA TypeBuild ==
  ASSUME IInv, Build
  PROVE  TypeOK'
  <1> USE DEF IInv, decoder, ring, control, goroutines, closers, Flag
  <1>1. CASE NextEntry
      BY <1>1 DEF NextEntry, TypeOK, TravPC
  <1>2. CASE BuildChain
      <2>1. members < Members
          BY <1>2 DEF BuildChain, Channels
      <2> QED BY <1>2, <2>1, SomeTypes, PipelineAssumption DEF BuildChain, TypeOK, TravPC
  <1>3. CASE SetSerial
      <2>1. dver' \in Block
          BY <1>3 DEF SetSerial, TypeOK
      <2>2. /\ verdict' = "none" /\ pc' = "idle"
            /\ out' \in [pay: Block, sym: 0 .. 2, kind: {"ok", "cut", "bad"}, last: Flag,
                         tabs: Flag, ver: Block]
          BY <1>3, <2>1, BeginMemberTypes DEF SetSerial
      <2> QED BY <1>3, <2>1, <2>2 DEF SetSerial, TypeOK, TravPC
  <1>4. CASE SetSame
      BY <1>4 DEF SetSame, TypeOK, TravPC
  <1>5. CASE SetNew
      BY <1>5 DEF SetNew, TypeOK, TravPC
  <1>6. CASE ResizeStop
      BY <1>6 DEF ResizeStop, TypeOK, TravPC
  <1>7. CASE ResizeWait
      BY <1>7 DEF ResizeWait, TypeOK, TravPC
  <1>8. CASE ResizePublish
      <2>1. gens < Gens
          BY <1>8 DEF ResizePublish, Channels, Resizing
      <2>2. gens' \in Gen /\ quit' \in Gen /\ pid' \in Nat
          BY <1>8, <2>1, SomeTypes, PipelineAssumption DEF ResizePublish, NewQuit, TypeOK, Gen
      <2>6. fired' \subseteq Gen
          BY <1>8, <2>2 DEF ResizePublish, TypeOK
      <2>3. /\ job' \in [Slot -> Job] /\ own' \in [Slot -> Block] /\ tokens' \in [Slot -> 0 .. 1]
            /\ head' \in Slot /\ count' \in 0 .. R /\ idx' \in 0 .. 2 /\ inline' \in Flag
            /\ tables' \in [TableSet -> Block] /\ inUse' \in [TableSet -> 0 .. R]
            /\ cur' \in TableSet
            /\ pendingErr' \in Flag /\ sawLast' \in Flag /\ oversize' \in Flag
          BY <1>8, SomeTypes DEF ResizePublish, FreshRing
      <2>4. jobs' \in Seq(Slot) /\ Len(jobs') <= R
          BY <1>8, RSize DEF ResizePublish
      <2>5. running' \in Flag /\ pc' \in TravPC
          BY <1>8 DEF ResizePublish, TravPC
      <2> QED BY <1>8, <2>2, <2>3, <2>4, <2>5, <2>6 DEF ResizePublish, TypeOK
  <1>9. CASE Engage
      <2>1. cur' \in TableSet /\ tables' \in [TableSet -> Block]
          BY <1>9, FreeSetExists DEF Engage, SeedsFromSerial, FreeTableSets, TypeOK
      <2>2. /\ verdict' = "none" /\ pc' = "idle"
            /\ out' \in [pay: Block, sym: 0 .. 2, kind: {"ok", "cut", "bad"}, last: Flag,
                         tabs: Flag, ver: Block]
          BY <1>9, <2>1, BeginMemberTypes DEF Engage
      <2>3. gens' \in Gen /\ quit' \in Gen
          BY <1>9, PipelineAssumption DEF Engage, NewQuit, TypeOK, Gen, Channels
      <2>4. /\ jobs' \in Seq(Slot) /\ Len(jobs') <= R
            /\ worker' \in [Worker -> {"none", "idle", "busy", "exited"}]
          <3>1. CASE running = "yes" \/ QuitFired
              BY <1>9, <3>1 DEF Engage, TypeOK
          <3>2. CASE ~(running = "yes" \/ QuitFired)
              <4>1. jobs' = <<>>
                  BY <1>9, <3>2 DEF Engage
              <4>2. worker' = [w \in Worker |-> IF w[1] = quit' THEN "idle" ELSE worker[w]]
                  BY <1>9, <3>2 DEF Engage
              <4>3. worker' \in [Worker -> {"none", "idle", "busy", "exited"}]
                  BY <4>2 DEF TypeOK
              <4> QED BY <4>1, <4>3, RSize
          <3> QED BY <3>1, <3>2
      <2>5. head' \in Slot /\ count' \in 0 .. R
          BY <1>9, SomeTypes DEF Engage
      <2>6. running' \in Flag /\ engaged' \in Flag
          BY <1>9 DEF Engage, TypeOK
      <2> QED BY <1>9, <2>1, <2>2, <2>3, <2>4, <2>5, <2>6 DEF Engage, TypeOK, TravPC
  <1> QED BY <1>1, <1>2, <1>3, <1>4, <1>5, <1>6, <1>7, <1>8, <1>9 DEF Build

LEMMA TypeDraining ==
  ASSUME IInv, Draining
  PROVE  TypeOK'
  <1> USE DEF IInv, decoder, ring, control, goroutines, closers
  <1>1. CASE Drain
      <2>1. CASE ~Pop
          BY <1>1, <2>1 DEF Drain, TypeOK, TravPC
      <2>2. CASE Pop
          <3>1. count > 0
              BY <1>1, <2>2, RSize DEF Drain, Pop, TypeOK
          <3>2. /\ job' \in [Slot -> Job] /\ inUse' \in [TableSet -> 0 .. R]
                /\ oversize' \in Flag /\ head' \in Slot /\ count' \in 0 .. R
                /\ idx' \in 0 .. 2 /\ inline' \in Flag
              BY <2>2, <3>1, PopTypes
          <3>3. tokens' \in [Slot -> 0 .. 1] /\ pc' \in TravPC
              BY <1>1 DEF Drain, TypeOK, TravPC
          <3> QED BY <1>1, <3>2, <3>3 DEF Drain, TypeOK
      <2> QED BY <2>1, <2>2
  <1>2. CASE DrainAbandoned
      <2>1. /\ job' \in [Slot -> Job] /\ inUse' \in [TableSet -> 0 .. R]
            /\ oversize' \in Flag /\ head' \in Slot /\ count' \in 0 .. R
            /\ idx' \in 0 .. 2 /\ inline' \in Flag
          BY <1>2, PopTypes DEF DrainAbandoned, Positions
      <2>2. tokens' \in [Slot -> 0 .. 1] /\ pc' \in TravPC
          BY <1>2 DEF DrainAbandoned, TypeOK, TravPC
      <2> QED BY <1>2, <2>1, <2>2 DEF DrainAbandoned, TypeOK
  <1> QED BY <1>1, <1>2 DEF Draining

(* The job that readAhead submits. *)
LEMMA SubmitTypes ==
  ASSUME TypeOK, NEW i \in Slot, NEW j \in Job, Submit(i, j)
  PROVE  /\ job' \in [Slot -> Job] /\ tokens' \in [Slot -> 0 .. 1]
         /\ jobs' \in Seq(Slot) /\ Len(jobs') <= R
  <1>1. [j EXCEPT !.res = "big"] \in Job /\ [j EXCEPT !.res = "closed"] \in Job
      BY JobFields DEF Result
  <1>2. CASE Len(jobs) < R /\ job' = [job EXCEPT ![i] = j] /\ jobs' = Append(jobs, i)
              /\ UNCHANGED tokens
      <2>1. jobs' \in Seq(Slot) /\ Len(jobs') = Len(jobs) + 1
          BY <1>2 DEF TypeOK
      <2> QED BY <1>2, <2>1, RSize DEF TypeOK
  <1>3. CASE UNCHANGED jobs
      <2>1. PICK k \in Job : job' = [job EXCEPT ![i] = k]
          BY <1>1 DEF Submit
      <2>2. job' \in [Slot -> Job]
          BY <2>1 DEF TypeOK
      <2>3. tokens' \in [Slot -> 0 .. 1]
          BY DEF Submit, TypeOK
      <2> QED BY <1>3, <2>2, <2>3 DEF TypeOK
  <1> QED BY <1>2, <1>3 DEF Submit

LEMMA TypeFilling ==
  ASSUME IInv, Filling
  PROVE  TypeOK'
  <1> USE DEF IInv, rest, decoder, ring, control, goroutines, closers
  <1>1. CASE Fill
      BY <1>1 DEF Fill, TypeOK, TravPC
  <1>2. CASE TargetReached
      BY <1>2 DEF TargetReached, TypeOK, TravPC
  <1>3. CASE FillLoop
      BY <1>3 DEF FillLoop, TypeOK, TravPC
  <1>4. CASE AheadDone
      BY <1>4 DEF AheadDone, TypeOK, TravPC
  <1>5. CASE ReadFails
      <2>1. tables' \in [TableSet -> Block] /\ buf' \in Block
          BY <1>5, LoadTargetFree, SomeTypes DEF ReadFails, TypeOK
      <2> QED BY <1>5, <2>1 DEF ReadFails, TypeOK, TravPC, Flag
  <1>6. CASE ReadBlock
      <2> DEFINE i == (head + count) % R
                 b == read + 1
      <2>1. count < R /\ read < Blocks /\ i \in Slot /\ b \in Block /\ read' = b
          BY <1>6, SpanPush, PipelineAssumption DEF ReadBlock, CanRead, TypeOK, Block
      <2>2. PICK shape \in Shapes, last \in Flag, tabs \in Flag :
              /\ IF tabs = "yes"
                 THEN cur' = LoadTarget /\ tables' = [tables EXCEPT ![cur'] = b]
                 ELSE UNCHANGED <<cur, tables>>
              /\ IF Big(shape) \/ job[i].lent = "yes"
                 THEN buf' = b /\ UNCHANGED own
                 ELSE own' = [own EXCEPT ![i] = b] /\ UNCHANGED buf
              /\ oversize' = IF Big(shape) THEN "yes" ELSE "no"
              /\ sawLast' = last
              /\ Submit(i, [shape |-> shape, last |-> last, tabs |-> tabs,
                            tset |-> cur', waited |-> job[i].waited, res |-> job[i].res,
                            lent |-> IF Big(shape) THEN "yes" ELSE job[i].lent,
                            pay |-> job[i].pay, ver |-> job[i].ver])
          BY <1>6 DEF ReadBlock
      <2> HIDE DEF i, b
      <2>3. cur' \in TableSet /\ tables' \in [TableSet -> Block]
          BY <2>1, <2>2, LoadTargetFree DEF TypeOK
      <2>4. own' \in [Slot -> Block] /\ buf' \in Block
          BY <2>1, <2>2 DEF TypeOK
      <2>5. [shape |-> shape, last |-> last, tabs |-> tabs,
             tset |-> cur', waited |-> job[i].waited, res |-> job[i].res,
             lent |-> IF Big(shape) THEN "yes" ELSE job[i].lent,
             pay |-> job[i].pay, ver |-> job[i].ver] \in Job
          <3>1. job[i] \in Job /\ shape \in Shape
              BY <2>1, PipelineAssumption DEF TypeOK
          <3>2. (IF Big(shape) THEN "yes" ELSE job[i].lent) \in Flag
              BY <3>1, JobFields DEF Flag
          <3> QED BY <2>3, <3>1, <3>2, JobFields DEF Job
      <2>6. /\ job' \in [Slot -> Job] /\ tokens' \in [Slot -> 0 .. 1]
            /\ jobs' \in Seq(Slot) /\ Len(jobs') <= R
          BY <2>1, <2>2, <2>5, SubmitTypes
      <2>7. inUse' \in [TableSet -> 0 .. R]
          <3>1. inUse' = [inUse EXCEPT ![cur'] = @ + 1]
              BY <1>6 DEF ReadBlock
          <3>2. inUse[cur'] \in 0 .. R - 1
              BY <2>1, <2>3, RoomReferenced
          <3>3. inUse[cur'] + 1 \in 0 .. R
              BY <3>2, RSize
          <3> QED BY <3>1, <3>3, <2>3 DEF TypeOK
      <2>8. count' \in 0 .. R
          BY <1>6, <2>1, RSize DEF ReadBlock, TypeOK
      <2>9. oversize' \in Flag /\ sawLast' \in Flag
          BY <2>2 DEF Flag
      <2> QED BY <1>6, <2>1, <2>3, <2>4, <2>6, <2>7, <2>8, <2>9 DEF ReadBlock, TypeOK
  <1>7. CASE Wait
      <2>1. job[head] \in Job /\ [job[head] EXCEPT !.waited = "yes"] \in Job
          BY JobFields DEF TypeOK, Flag
      <2>2. job' \in [Slot -> Job] /\ tokens' \in [Slot -> 0 .. 1]
          <3>1. CASE UNCHANGED <<job, tokens>>
              BY <3>1 DEF TypeOK
          <3>2. CASE /\ job' = [job EXCEPT ![head].waited = "yes"]
                     /\ tokens' = [tokens EXCEPT ![head] = 0]
              <4>1. job' = [job EXCEPT ![head] = [job[head] EXCEPT !.waited = "yes"]]
                  BY <3>2
              <4>2. job' \in [Slot -> Job]
                  BY <2>1, <4>1 DEF TypeOK
              <4> QED BY <3>2, <4>2 DEF TypeOK
          <3> QED BY <1>7, <3>1, <3>2 DEF Wait
      <2> QED BY <1>7, <2>2 DEF Wait, TypeOK, TravPC
  <1>8. CASE Replay
      <2>1. job[head] \in Job /\ idx < Items(job[head].res) /\ idx \in 0 .. 2
          BY <1>8 DEF Replay, TypeOK
      <2>4. Items(job[head].res) \in 0 .. 2
          BY <2>1, ItemsRange, JobFields
      <2>2. idx + 1 \in 0 .. 2 /\ idx' = idx + 1
          BY <1>8, <2>1, <2>4 DEF Replay
      <2>3. out' \in [pay: Block, sym: 0 .. 2, kind: {"ok", "cut", "bad"}, last: Flag,
                      tabs: Flag, ver: Block]
          BY <1>8, <2>1, <2>2, JobFields, ShapeKind DEF Replay, Emit
      <2> QED BY <1>8, <2>2, <2>3 DEF Replay, TypeOK
  <1>9. CASE Replayed
      <2>1. count > 0
          BY <1>9 DEF Replayed, Positions
      <2>2. CASE Pop
          <3>1. /\ job' \in [Slot -> Job] /\ inUse' \in [TableSet -> 0 .. R]
                /\ oversize' \in Flag /\ head' \in Slot /\ count' \in 0 .. R
                /\ idx' \in 0 .. 2 /\ inline' \in Flag
              BY <2>1, <2>2, PopTypes
          <3>2. pc' \in TravPC /\ verdict' \in {"none", "eof", "cut", "bad", "read", "closed", "severed"}
              BY <1>9 DEF Replayed, AfterPop, TravPC, TypeOK
          <3> QED BY <1>9, <3>1, <3>2 DEF Replayed, TypeOK
      <2>3. CASE ~Pop
          BY <1>9, <2>3 DEF Replayed, TypeOK, TravPC, Flag
      <2> QED BY <2>2, <2>3
  <1> QED BY <1>1, <1>2, <1>3, <1>4, <1>5, <1>6, <1>7, <1>8, <1>9 DEF Filling

LEMMA TypeInlining ==
  ASSUME IInv, Inlining
  PROVE  TypeOK'
  <1> USE DEF IInv, decoder, ring, control, goroutines, closers
  <1>0. br.shape \in Shape /\ br.last \in Flag /\ br.tabs \in Flag /\ br.pay \in Block
        /\ br.pos \in 0 .. 2 /\ \A k \in 0 .. 2 : [br EXCEPT !.pos = k] \in Live
      BY DEF TypeOK, Live
  <1>1. CASE Adopt
      <2>1. job[head] \in Job /\ tables[job[head].tset] \in Block
          BY JobFields DEF TypeOK
      <2>2. Items(job[head].res) \in 0 .. 2
          BY <2>1, ItemsRange, JobFields
      <2>3. (IF job[head].lent = "yes" THEN buf ELSE own[head]) \in Block
          BY DEF TypeOK
      <2>4. (IF job[head].res = "cut" THEN 2 ELSE Items(job[head].res)) \in 0 .. 2
          BY <2>2
      <2>5. br' \in Live
          BY <1>1, <2>1, <2>3, <2>4, JobFields DEF Adopt, Live
      <2> QED BY <1>1, <2>1, <2>5 DEF Adopt, TypeOK, Flag
  <1>2. CASE ReadBlockHeader
      <2>1. CASE UNCHANGED read
          <3>1. /\ verdict' = "read" /\ pc' = "idle"
                /\ dver' \in {dver, 0} /\ buf' \in {buf, 0} /\ UNCHANGED <<br, brLive>>
              BY <1>2, <2>1 DEF ReadBlockHeader, TypeOK, Block
          <3>2. dver' \in Block /\ buf' \in Block
              BY <3>1, SomeTypes DEF TypeOK
          <3> QED BY <1>2, <2>1, <3>1, <3>2 DEF ReadBlockHeader, TypeOK, TravPC
      <2>2. CASE read' # read
          <3>1. read < Blocks /\ read' = read + 1 /\ read' \in Block
              BY <1>2, <2>2, PipelineAssumption DEF ReadBlockHeader, TypeOK, Block
          <3>2. PICK shape \in {s \in Shapes : s[1] = "fits"}, last \in Flag, tabs \in Flag :
                  /\ br' = [pay |-> read', shape |-> shape, last |-> last, tabs |-> tabs,
                            pos |-> 0]
                  /\ dver' = IF tabs = "yes" THEN read' ELSE dver
              BY <1>2, <2>2 DEF ReadBlockHeader
          <3>3. br' \in Live /\ dver' \in Block
              BY <3>1, <3>2, PipelineAssumption DEF Live, TypeOK
          <3> QED BY <1>2, <2>2, <3>1, <3>3 DEF ReadBlockHeader, TypeOK, Flag
      <2> QED BY <2>1, <2>2
  <1>3. CASE DecodeSymbol
      <2>1. br.pos + 1 \in 0 .. 2
          BY <1>0, <1>3 DEF DecodeSymbol
      <2>2. br' \in Live
          BY <1>0, <1>3, <2>1 DEF DecodeSymbol
      <2>3. out' \in [pay: Block, sym: 0 .. 2, kind: {"ok", "cut", "bad"}, last: Flag,
                      tabs: Flag, ver: Block]
          BY <1>0, <1>3, <2>1, ShapeKind DEF DecodeSymbol, Emit, TypeOK
      <2> QED BY <1>3, <2>2, <2>3 DEF DecodeSymbol, TypeOK
  <1>4. CASE SymbolCut
      <2>1. br' \in Live
          BY <1>0, <1>4 DEF SymbolCut
      <2> QED BY <1>4, <2>1 DEF SymbolCut, TypeOK, TravPC
  <1>5. CASE SymbolBad
      <2>1. CASE pc = "inline"
          <3>1. /\ job' \in [Slot -> Job] /\ inUse' \in [TableSet -> 0 .. R]
                /\ oversize' \in Flag /\ head' \in Slot /\ count' \in 0 .. R
                /\ idx' \in 0 .. 2 /\ inline' \in Flag
              BY <1>5, <2>1, PopTypes DEF SymbolBad, Positions
          <3> QED BY <1>5, <2>1, <3>1, SomeTypes DEF SymbolBad, TypeOK, TravPC, Flag
      <2>2. CASE pc # "inline"
          BY <1>5, <2>2 DEF SymbolBad, TypeOK, TravPC
      <2> QED BY <2>1, <2>2
  <1>6. CASE InlineDone
      <2>1. /\ job' \in [Slot -> Job] /\ inUse' \in [TableSet -> 0 .. R]
            /\ oversize' \in Flag /\ head' \in Slot /\ count' \in 0 .. R
            /\ idx' \in 0 .. 2 /\ inline' \in Flag
          BY <1>6, PopTypes DEF InlineDone, Positions
      <2>2. /\ pc' \in TravPC /\ br' \in Live /\ brLive' \in Flag
            /\ verdict' \in {"none", "eof", "cut", "bad", "read", "closed", "severed"}
          BY <1>6, SomeTypes DEF InlineDone, AfterPop, DropsReader, TravPC, TypeOK, Flag
      <2> QED BY <1>6, <2>1, <2>2 DEF InlineDone, TypeOK
  <1>7. CASE SerialDone
      BY <1>7, SomeTypes DEF SerialDone, TypeOK, TravPC, Flag
  <1> QED BY <1>1, <1>2, <1>3, <1>4, <1>5, <1>6, <1>7 DEF Inlining

LEMMA TypeReset ==
  ASSUME IInv, Reset
  PROVE  TypeOK'
  <1> USE DEF IInv, decoder, ring, control, goroutines, closers, TravPC
  <1>1. CASE ResetBegin
      BY <1>1 DEF ResetBegin, TypeOK
  <1>2. CASE ResetLatch
      BY <1>2 DEF ResetLatch, TypeOK, Flag
  <1>3. CASE RestartCheck
      BY <1>3 DEF RestartCheck, TypeOK
  <1>4. CASE RestartWait
      BY <1>4 DEF RestartWait, TypeOK
  <1>5. CASE RestartArm
      <2>1. gens < Gens
          BY <1>5 DEF RestartArm, Channels, Restarting
      <2>2. gens' \in Gen /\ quit' \in Gen
          BY <1>5, <2>1, PipelineAssumption DEF RestartArm, NewQuit, TypeOK, Gen
      <2>3. jobs' \in Seq(Slot) /\ Len(jobs') <= R
          BY <1>5, RSize DEF RestartArm
      <2> QED BY <1>5, <2>2, <2>3 DEF RestartArm, TypeOK
  <1> QED BY <1>1, <1>2, <1>3, <1>4, <1>5 DEF Reset

LEMMA TypeWorker ==
  ASSUME IInv, NEW w \in Worker, WorkerStep(w)
  PROVE  TypeOK'
  <1> USE DEF IInv, decoder, ring, control, goroutines, closers
  <1>1. CASE WorkerQuits(w)
      BY <1>1 DEF WorkerQuits, TypeOK
  <1>2. CASE WorkerTakes(w)
      <2>1. Head(jobs) \in Slot /\ jobs' \in Seq(Slot) /\ Len(jobs') <= R
          BY <1>2, RSize DEF WorkerTakes, TypeOK
      <2>2. /\ worker' \in [Worker -> {"none", "idle", "busy", "exited"}]
            /\ wslot' \in [Worker -> Slot]
          BY <1>2, <2>1 DEF WorkerTakes, TypeOK
      <2> QED BY <1>2, <2>1, <2>2 DEF WorkerTakes, TypeOK
  <1>3. CASE WorkerDecodes(w)
      <2> DEFINE i == wslot[w]
      <2>1. i \in Slot /\ job[i] \in Job
          BY DEF TypeOK
      <2>2. PICK r \in Result, p \in Block, v \in Block :
              job' = [job EXCEPT ![i].res = r, ![i].pay = p, ![i].ver = v]
          <3>1. KindOf(job[i].shape) \in Result
              BY <2>1, JobFields, ShapeKind DEF Result
          <3>2. (IF job[i].shape[1] = "fits" THEN KindOf(job[i].shape) ELSE "partial") \in Result
              BY <3>1 DEF Result
          <3>3. (IF job[i].lent = "yes" THEN buf ELSE own[i]) \in Block
              BY <2>1 DEF TypeOK
          <3>4. tables[job[i].tset] \in Block
              BY <2>1, JobFields DEF TypeOK
          <3> QED BY <1>3, <3>2, <3>3, <3>4 DEF WorkerDecodes
      <2>3. job' = [job EXCEPT ![i] = [job[i] EXCEPT !.res = r, !.pay = p, !.ver = v]]
          BY <2>1, <2>2 DEF TypeOK
      <2>4. [job[i] EXCEPT !.res = r, !.pay = p, !.ver = v] \in Job
          BY <2>1 DEF Job
      <2> HIDE DEF i
      <2>5. job' \in [Slot -> Job]
          BY <2>1, <2>3, <2>4 DEF TypeOK
      <2>6. /\ worker' \in [Worker -> {"none", "idle", "busy", "exited"}]
            /\ tokens' \in [Slot -> 0 .. 1]
          BY <1>3, <2>1 DEF WorkerDecodes, TypeOK, i
      <2> QED BY <1>3, <2>5, <2>6 DEF WorkerDecodes, TypeOK
  <1> QED BY <1>1, <1>2, <1>3 DEF WorkerStep

LEMMA TypeClose ==
  ASSUME IInv, NEW c \in Closers, CloseBegin(c) \/ CloseStep(c)
  PROVE  TypeOK'
  <1> USE DEF IInv, decoder, ring, control, goroutines, closers
  <1>1. CASE CloseBegin(c)
      BY <1>1 DEF CloseBegin, TypeOK
  <1>2. CASE CloseLatch(c)
      BY <1>2 DEF CloseLatch, TypeOK, Flag
  <1>3. CASE CloseStop(c)
      <2>1. gens' \in Gen /\ quit' \in Gen
          BY <1>3, PipelineAssumption DEF CloseStop, NewQuit, TypeOK, Channels, Gen
      <2>2. fired' \subseteq Gen /\ running' \in Flag
          BY <1>3, <2>1 DEF CloseStop, TypeOK, Flag
      <2> QED BY <1>3, <2>1, <2>2 DEF CloseStop, TypeOK
  <1>4. CASE CloseWait(c)
      BY <1>4 DEF CloseWait, TypeOK
  <1> QED BY <1>1, <1>2, <1>3, <1>4 DEF CloseStep

LEMMA TypeStep ==
  ASSUME IInv, [Next]_vars
  PROVE  TypeOK'
  <1>1. CASE UNCHANGED vars
      BY <1>1 DEF IInv, TypeOK, vars, decoder, ring, control, goroutines, closers
  <1> QED BY <1>1, TypeBuild, TypeDraining, TypeFilling, TypeInlining, TypeReset, TypeWorker,
             TypeClose DEF Next, Traversal

-----------------------------------------------------------------------------
(* The quit channels, the generations of goroutines and the closing of the  *)
(* Reader.                                                                  *)

LEMMA ExitedAll ==
  ASSUME IInv, Exited(quit)
  PROVE  NoneAlive
  <1> SUFFICES ASSUME NEW w \in Worker, Alive(w) PROVE FALSE
      BY DEF NoneAlive
  <1>1. w[1] = quit /\ w = <<w[1], w[2]>> /\ w[2] \in 1 .. Workers
      BY DEF IInv, Generations, Worker
  <1>2. worker[w] \in {"none", "exited"}
      BY <1>1 DEF Exited
  <1> QED BY <1>2 DEF Alive

(* What filling the window leaves alone. *)
FillPC == {"idle", "fill", "ahead", "wait", "replay", "inline", "serial"}
controls == <<members, done, pid, stopped, engaged, gens, quit, fired, running, worker,
              ret, cpc, cpid>>

LEMMA FillFrame ==
  ASSUME IInv, Filling \/ Inlining
  PROVE  pc \in FillPC /\ pc' \in FillPC /\ UNCHANGED <<controls, wslot>>
  <1> USE DEF controls, FillPC, rest, decoder, ring, control, goroutines, closers
  <1>1. CASE Fill
      BY <1>1 DEF Fill
  <1>2. CASE TargetReached
      BY <1>2 DEF TargetReached
  <1>3. CASE FillLoop
      BY <1>3 DEF FillLoop
  <1>4. CASE AheadDone
      BY <1>4 DEF AheadDone
  <1>5. CASE ReadFails
      BY <1>5 DEF ReadFails
  <1>6. CASE ReadBlock
      BY <1>6 DEF ReadBlock
  <1>7. CASE Wait
      BY <1>7 DEF Wait
  <1>8. CASE Replay
      BY <1>8 DEF Replay
  <1>9. CASE Replayed
      BY <1>9 DEF Replayed, AfterPop
  <1>10. CASE Adopt
      BY <1>10 DEF Adopt
  <1>11. CASE ReadBlockHeader
      BY <1>11 DEF ReadBlockHeader
  <1>12. CASE DecodeSymbol
      BY <1>12 DEF DecodeSymbol
  <1>13. CASE SymbolCut
      BY <1>13 DEF SymbolCut
  <1>14. CASE SymbolBad
      BY <1>14 DEF SymbolBad
  <1>15. CASE InlineDone
      BY <1>15 DEF InlineDone, AfterPop
  <1>16. CASE SerialDone
      BY <1>16 DEF SerialDone
  <1> QED BY <1>1, <1>2, <1>3, <1>4, <1>5, <1>6, <1>7, <1>8, <1>9, <1>10, <1>11, <1>12, <1>13,
             <1>14, <1>15, <1>16 DEF Filling, Inlining

LEMMA ControlFill ==
  ASSUME IInv, Filling \/ Inlining
  PROVE  Channels' /\ Generations' /\ Closing'
  <1>1. pc \in FillPC /\ pc' \in FillPC /\ UNCHANGED controls
      BY FillFrame
  <1> USE <1>1 DEF IInv, FillPC, controls, Choosing, Resizing, Restarting, DrainFor
  <1>2. Channels'
      BY DEF Channels
  <1>3. Generations'
      BY DEF Generations, NoneAlive, Alive, QuitFired
  <1>4. Closing'
      BY DEF Closing, Latched, Reached, QuitFired
  <1> QED BY <1>2, <1>3, <1>4

LEMMA ControlDrain ==
  ASSUME IInv, Draining
  PROVE  Channels' /\ Generations' /\ Closing'
  <1>1. /\ UNCHANGED controls
        /\ pc \in {"drain", "drainWait"}
        /\ pc' \in {"drain", "drainWait"} \/ (pc' = ret /\ ret \in {"set", "rArm"})
      BY DEF IInv, TypeOK, Draining, Drain, DrainAbandoned, controls, control, goroutines, closers
  <1> USE <1>1 DEF IInv, controls, Choosing, Resizing, Restarting, DrainFor
  <1>2. Channels'
      BY DEF Channels
  <1>3. Generations'
      BY DEF Generations, NoneAlive, Alive, QuitFired
  <1>4. Closing'
      BY DEF Closing, Latched, Reached, QuitFired
  <1> QED BY <1>2, <1>3, <1>4

LEMMA ControlBuild ==
  ASSUME IInv, Build
  PROVE  Channels' /\ Generations' /\ Closing'
  <1> USE DEF IInv, TypeOK, control, goroutines, closers, Choosing, Resizing, Restarting, DrainFor
  <1>1. CASE NextEntry
      <2>1. Channels'
          BY <1>1 DEF NextEntry, Channels
      <2>2. Generations'
          BY <1>1 DEF NextEntry, Channels, Generations, NoneAlive, Alive, QuitFired
      <2>3. Closing'
          BY <1>1 DEF NextEntry, Channels, Closing, Latched, Reached, QuitFired
      <2> QED BY <2>1, <2>2, <2>3
  <1>2. CASE BuildChain
      <2>1. Channels'
          BY <1>2 DEF BuildChain, Channels
      <2>2. Generations'
          BY <1>2 DEF BuildChain, Channels, Generations, NoneAlive, Alive, QuitFired
      <2>3. Closing'
          BY <1>2 DEF BuildChain, Channels, Closing, Latched, Reached, QuitFired
      <2> QED BY <2>1, <2>2, <2>3
  <1>3. CASE SetSerial
      <2>1. Channels'
          BY <1>3 DEF SetSerial, BeginMember, Channels
      <2>2. Generations'
          BY <1>3 DEF SetSerial, BeginMember, Channels, Generations, NoneAlive, Alive, QuitFired
      <2>3. Closing'
          BY <1>3 DEF SetSerial, BeginMember, Channels, Closing, Latched, Reached, QuitFired
      <2> QED BY <2>1, <2>2, <2>3
  <1>4. CASE SetSame
      <2>1. Channels'
          BY <1>4 DEF SetSame, Channels
      <2>2. Generations'
          BY <1>4 DEF SetSame, Channels, Generations, NoneAlive, Alive, QuitFired
      <2>3. Closing'
          BY <1>4 DEF SetSame, Channels, Closing, Latched, Reached, QuitFired
      <2> QED BY <2>1, <2>2, <2>3
  <1>5. CASE SetNew
      <2>1. Channels'
          BY <1>5 DEF SetNew, Channels
      <2>2. Generations'
          BY <1>5 DEF SetNew, Channels, Generations, NoneAlive, Alive, QuitFired
      <2>3. Closing'
          BY <1>5 DEF SetNew, Channels, Closing, Latched, Reached, QuitFired
      <2> QED BY <2>1, <2>2, <2>3
  <1>6. CASE ResizeStop
      <2>1. Channels'
          <3>1. quit \in 1 .. gens /\ fired' \subseteq 1 .. gens'
              BY <1>6 DEF ResizeStop, Channels, Gen
          <3> QED BY <1>6, <3>1 DEF ResizeStop, Channels
      <2>2. Generations'
          BY <1>6 DEF ResizeStop, Channels, Generations, NoneAlive, Alive, QuitFired
      <2>3. Closing'
          BY <1>6 DEF ResizeStop, Channels, Closing, Latched, Reached, QuitFired
      <2> QED BY <2>1, <2>2, <2>3
  <1>7. CASE ResizeWait
      <2>1. Channels'
          BY <1>7 DEF ResizeWait, Channels
      <2>2. Generations'
          <3>1. NoneAlive /\ running = "no"
              BY <1>7, ExitedAll DEF ResizeWait, Generations
          <3> QED BY <1>7, <3>1 DEF ResizeWait, Generations, NoneAlive, Alive, QuitFired
      <2>3. Closing'
          BY <1>7 DEF ResizeWait, Channels, Closing, Latched, Reached, QuitFired
      <2> QED BY <2>1, <2>2, <2>3
  <1>8. CASE ResizePublish
      <2>1. Channels'
          <3>1. fired' \subseteq 1 .. gens' /\ quit' <= gens'
              <4>1. CASE gens' = gens + 1 /\ quit' = gens + 1 /\ fired' = fired \cup {quit'}
                  BY <4>1 DEF Channels, Gen
              <4>2. CASE quit' = 0 /\ UNCHANGED <<gens, fired>>
                  BY <4>2 DEF Channels, Gen
              <4> QED BY <1>8, <4>1, <4>2 DEF ResizePublish, NewQuit
          <3>2. pid' > 0 /\ running' = "no" /\ pc' = "engage"
              BY <1>8 DEF ResizePublish
          <3>3. quit' = 0 => gens' < Gens
              BY <1>8 DEF ResizePublish, NewQuit, Channels, Gen
          <3> QED BY <1>8, <3>1, <3>2, <3>3 DEF ResizePublish, Channels
      <2>2. Generations'
          BY <1>8 DEF ResizePublish, NewQuit, PublishStopped, Channels, Generations, NoneAlive, Alive, QuitFired
      <2>3. Closing'
          BY <1>8 DEF ResizePublish, NewQuit, PublishStopped, Channels, Closing, Latched, Reached, QuitFired
      <2> QED BY <2>1, <2>2, <2>3
  <1>9. CASE Engage
      <2>1. Channels'
          <3>1. fired' \subseteq 1 .. gens' /\ quit' <= gens' /\ quit' # 0
              <4>1. CASE quit = 0
                  <5>1. ~QuitFired /\ running = "no"
                      BY <4>1 DEF Channels, QuitFired
                  <5>2. gens' = gens + 1 /\ quit' = gens + 1 /\ fired' = fired
                      BY <1>9, <4>1, <5>1 DEF Engage, NewQuit
                  <5> QED BY <5>2 DEF Channels, Gen
              <4>2. CASE quit # 0
                  BY <1>9, <4>2 DEF Engage, Channels
              <4> QED BY <4>1, <4>2
          <3>2. pid' = pid /\ pid > 0 /\ pc' = "idle"
              BY <1>9 DEF Engage, BeginMember, Channels
          <3> QED BY <1>9, <3>1, <3>2 DEF Engage, Channels
      <2>2. Generations'
          <3>1. CASE running = "yes" \/ QuitFired
              BY <1>9, <3>1 DEF Engage, BeginMember, Generations, NoneAlive, Alive, QuitFired
          <3>2. CASE ~(running = "yes" \/ QuitFired)
              <4>1. /\ fired' = fired /\ running' = "yes" /\ pc' = "idle"
                    /\ worker' = [w \in Worker |-> IF w[1] = quit' THEN "idle" ELSE worker[w]]
                  BY <1>9, <3>2 DEF Engage, BeginMember
              <4>2. NoneAlive
                  BY <3>2 DEF Generations, Flag
              <4>3. quit' \notin fired' /\ quit' \in 1 .. gens' /\ gens <= gens' /\ gens' \in Nat
                  BY <1>9, <3>2 DEF Engage, NewQuit, Channels, QuitFired, Gen
              <4>4. \A w \in Worker : worker'[w] # "none" => w[1] \in 1 .. gens'
                  <5>1. SUFFICES ASSUME NEW w \in Worker, w[1] # quit', worker'[w] # "none"
                                 PROVE  w[1] \in 1 .. gens'
                      BY <4>3
                  <5>2. worker[w] # "none"
                      BY <4>1, <5>1
                  <5>3. w[1] \in 1 .. gens
                      BY <5>2 DEF Generations
                  <5> QED BY <4>3, <5>3 DEF Gen
              <4>5. \A w \in Worker : worker'[w] \in {"idle", "busy"} => w[1] = quit'
                  BY <4>1, <4>2 DEF NoneAlive, Alive
              <4> QED BY <4>1, <4>3, <4>4, <4>5 DEF Generations, NoneAlive, Alive, QuitFired
          <3> QED BY <3>1, <3>2
      <2>3. Closing'
          BY <1>9 DEF Engage, BeginMember, NewQuit, Channels, Closing, Latched, Reached, QuitFired
      <2> QED BY <2>1, <2>2, <2>3
  <1> QED BY <1>1, <1>2, <1>3, <1>4, <1>5, <1>6, <1>7, <1>8, <1>9 DEF Build

LEMMA ControlReset ==
  ASSUME IInv, Reset
  PROVE  Channels' /\ Generations' /\ Closing'
  <1> USE DEF IInv, TypeOK, control, goroutines, closers, Choosing, Resizing, Restarting, DrainFor
  <1>1. CASE ResetBegin
      <2>1. Channels'
          BY <1>1 DEF ResetBegin, Channels
      <2>2. Generations'
          BY <1>1 DEF ResetBegin, Channels, Generations, NoneAlive, Alive, QuitFired
      <2>3. Closing'
          BY <1>1 DEF ResetBegin, Channels, Closing, Latched, Reached, QuitFired
      <2> QED BY <2>1, <2>2, <2>3
  <1>2. CASE ResetLatch
      <2>1. Channels'
          BY <1>2 DEF ResetLatch, Channels
      <2>2. Generations'
          BY <1>2 DEF ResetLatch, Channels, Generations, NoneAlive, Alive, QuitFired
      <2>3. Closing'
          BY <1>2 DEF ResetLatch, Channels, Closing, Latched, Reached, QuitFired
      <2> QED BY <2>1, <2>2, <2>3
  <1>3. CASE RestartCheck
      <2>1. Channels'
          BY <1>3 DEF RestartCheck, Channels
      <2>2. Generations'
          BY <1>3 DEF RestartCheck, Generations, NoneAlive, Alive, QuitFired, Flag
      <2>3. Closing'
          BY <1>3 DEF RestartCheck, Channels, Closing, Latched, Reached, QuitFired
      <2> QED BY <2>1, <2>2, <2>3
  <1>4. CASE RestartWait
      <2>1. Channels'
          BY <1>4 DEF RestartWait, Channels
      <2>2. Generations'
          <3>1. NoneAlive /\ running = "no"
              BY <1>4, ExitedAll DEF RestartWait, Generations
          <3> QED BY <1>4, <3>1 DEF RestartWait, Generations, NoneAlive, Alive, QuitFired
      <2>3. Closing'
          BY <1>4 DEF RestartWait, Channels, Closing, Latched, Reached, QuitFired
      <2> QED BY <2>1, <2>2, <2>3
  <1>5. CASE RestartArm
      <2>1. Channels'
          <3>1. fired' \subseteq 1 .. gens' /\ quit' <= gens' /\ quit' # 0
              BY <1>5 DEF RestartArm, NewQuit, Channels, Gen
          <3>2. pid' = pid /\ pid > 0 /\ pc' = "idle"
              BY <1>5 DEF RestartArm, Channels
          <3> QED BY <1>5, <3>1, <3>2 DEF RestartArm, Channels
      <2>2. Generations'
          BY <1>5 DEF RestartArm, NewQuit, Channels, Generations, NoneAlive, Alive, QuitFired
      <2>3. Closing'
          BY <1>5 DEF RestartArm, NewQuit, Channels, Closing, Latched, Reached, QuitFired
      <2> QED BY <2>1, <2>2, <2>3
  <1> QED BY <1>1, <1>2, <1>3, <1>4, <1>5 DEF Reset

LEMMA ControlWorker ==
  ASSUME IInv, NEW w \in Worker, WorkerStep(w)
  PROVE  Channels' /\ Generations' /\ Closing'
  <1> USE DEF IInv, TypeOK, control, goroutines, closers, Choosing, Resizing, Restarting, DrainFor
  <1>1. CASE WorkerQuits(w)
      <2>1. Channels'
          BY <1>1 DEF WorkerQuits, Channels
      <2>2. Generations'
          BY <1>1 DEF WorkerQuits, Channels, Generations, NoneAlive, Alive, QuitFired
      <2>3. Closing'
          BY <1>1 DEF WorkerQuits, Channels, Closing, Latched, Reached, QuitFired
      <2> QED BY <2>1, <2>2, <2>3
  <1>2. CASE WorkerTakes(w)
      <2>1. Channels'
          BY <1>2 DEF WorkerTakes, Channels
      <2>2. Generations'
          BY <1>2 DEF WorkerTakes, Channels, Generations, NoneAlive, Alive, QuitFired
      <2>3. Closing'
          BY <1>2 DEF WorkerTakes, Channels, Closing, Latched, Reached, QuitFired
      <2> QED BY <2>1, <2>2, <2>3
  <1>3. CASE WorkerDecodes(w)
      <2>1. Channels'
          BY <1>3 DEF WorkerDecodes, Channels
      <2>2. Generations'
          BY <1>3 DEF WorkerDecodes, Channels, Generations, NoneAlive, Alive, QuitFired
      <2>3. Closing'
          BY <1>3 DEF WorkerDecodes, Channels, Closing, Latched, Reached, QuitFired
      <2> QED BY <2>1, <2>2, <2>3
  <1> QED BY <1>1, <1>2, <1>3 DEF WorkerStep

LEMMA ControlClose ==
  ASSUME IInv, NEW c \in Closers, CloseBegin(c) \/ CloseStep(c)
  PROVE  Channels' /\ Generations' /\ Closing'
  <1> USE DEF IInv, TypeOK, control, goroutines, closers, Choosing, Resizing, Restarting, DrainFor
  <1>1. CASE CloseBegin(c)
      <2>1. Channels'
          BY <1>1 DEF CloseBegin, Channels
      <2>2. Generations'
          BY <1>1 DEF CloseBegin, Channels, Generations, NoneAlive, Alive, QuitFired
      <2>3. Closing'
          BY <1>1 DEF CloseBegin, Channels, Closing, Latched, Reached, QuitFired
      <2> QED BY <2>1, <2>2, <2>3
  <1>2. CASE CloseLatch(c)
      <2>1. Channels'
          BY <1>2 DEF CloseLatch, Channels
      <2>2. Generations'
          BY <1>2 DEF CloseLatch, Channels, Generations, NoneAlive, Alive, QuitFired
      <2>3. Closing'
          BY <1>2 DEF CloseLatch, Channels, Closing, Latched, Reached, QuitFired
      <2> QED BY <2>1, <2>2, <2>3
  <1>3. CASE CloseStop(c)
      <2>1. Channels'
          <3>1. CASE cpid[c] # pid
              BY <1>3, <3>1 DEF CloseStop, Channels
          <3>2. CASE cpid[c] = pid
              <4>1. pid > 0 /\ (quit = 0 => pc = "engage")
                  BY <1>3, <3>2 DEF CloseStop, Channels
              <4>2. fired' \subseteq 1 .. gens' /\ quit' <= gens' /\ quit' # 0
                  <5>1. CASE gens' = gens + 1 /\ quit' = gens + 1 /\ fired' = fired \cup {quit'}
                      BY <5>1 DEF Channels, Gen
                  <5>2. CASE quit # 0 /\ UNCHANGED <<gens, quit>> /\ fired' = fired \cup {quit'}
                      BY <5>2 DEF Channels, Gen
                  <5> QED BY <1>3, <3>2, <5>1, <5>2 DEF CloseStop, NewQuit
              <4>3. ~(Choosing \/ Resizing \/ Restarting) \/ gens' = gens
                  BY <1>3, <3>2, <4>1 DEF CloseStop
              <4>4. \A d \in Closers : cpc'[d] \in {"stop", "wait"} => cpc[d] \in {"stop", "wait"}
                  BY <1>3 DEF CloseStop
              <4>5. UNCHANGED <<pc, ret, pid, members, cpid>> /\ running' = "no"
                  BY <1>3, <3>2 DEF CloseStop
              <4> QED BY <4>1, <4>2, <4>3, <4>4, <4>5 DEF Channels
          <3> QED BY <3>1, <3>2
      <2>2. Generations'
          <3>1. CASE cpid[c] # pid
              BY <1>3, <3>1 DEF CloseStop, Generations, NoneAlive, Alive, QuitFired
          <3>2. CASE cpid[c] = pid
              <4>1. UNCHANGED <<pc, ret, worker>> /\ running' = "no" /\ quit' \in fired'
                  BY <1>3, <3>2 DEF CloseStop
              <4>2. quit = 0 => NoneAlive
                  BY DEF Channels, Generations, NoneAlive, QuitFired
              <4>3. gens <= gens' /\ (quit # 0 => quit' = quit)
                  BY <1>3, <3>2 DEF CloseStop, NewQuit, Gen
              <4>4. \A w \in Worker : worker[w] # "none" => w[1] \in 1 .. gens'
                  BY <1>3, <4>3 DEF Generations, CloseStop, NewQuit, Gen
              <4>5. \A w \in Worker : Alive(w) => w[1] = quit'
                  BY <4>2, <4>3 DEF Generations, NoneAlive
              <4>6. ~NoneAlive => pc = "resizeWait" \/ \E d \in Closers : cpc'[d] = "wait"
                  <5>1. CASE running = "yes"
                      BY <1>3, <3>2, <5>1 DEF CloseStop
                  <5>2. CASE running # "yes"
                      BY <1>3, <3>2, <5>2 DEF CloseStop, Generations, Flag
                  <5> QED BY <5>1, <5>2
              <4> QED BY <4>1, <4>4, <4>5, <4>6 DEF Generations, NoneAlive, Alive, QuitFired
          <3> QED BY <3>1, <3>2
      <2>3. Closing'
          BY <1>3 DEF CloseStop, NewQuit, Channels, Closing, Latched, Reached, QuitFired
      <2> QED BY <2>1, <2>2, <2>3
  <1>4. CASE CloseWait(c)
      <2>1. Channels'
          BY <1>4 DEF CloseWait, Channels
      <2>2. Generations'
          <3>1. running = "no" => NoneAlive
              BY <1>4, ExitedAll DEF CloseWait, Generations, QuitFired
          <3> QED BY <1>4, <3>1 DEF CloseWait, Generations, NoneAlive, Alive, QuitFired
      <2>3. Closing'
          BY <1>4 DEF CloseWait, Channels, Closing, Latched, Reached, QuitFired
      <2> QED BY <2>1, <2>2, <2>3
  <1> QED BY <1>1, <1>2, <1>3, <1>4 DEF CloseStep

LEMMA ControlStep ==
  ASSUME IInv, [Next]_vars
  PROVE  Channels' /\ Generations' /\ Closing'
  <1>1. CASE UNCHANGED vars
      <2> USE <1>1 DEF IInv, vars, control, goroutines, closers, Choosing, Resizing, Restarting,
                       DrainFor
      <2>1. Channels'
          BY DEF Channels
      <2>2. Generations'
          BY DEF Generations, NoneAlive, Alive, QuitFired
      <2>3. Closing'
          BY DEF Closing, Latched, Reached, QuitFired
      <2> QED BY <2>1, <2>2, <2>3
  <1> QED BY <1>1, ControlFill, ControlDrain, ControlBuild, ControlReset, ControlWorker,
             ControlClose DEF Next, Traversal

-----------------------------------------------------------------------------
(* The slots, the jobs channel and the references to table sets: what each  *)
(* step does to them.                                                       *)

slots == <<job, tokens, head, count, inUse, jobs, worker, wslot>>

(* The oldest slot is given back, when its job is complete or nobody is     *)
(* left to complete it.                                                     *)
PopStep ==
  /\ count > 0 /\ Pop /\ UNCHANGED <<jobs, worker, wslot>>
  /\ \/ job[head].waited = "yes" /\ UNCHANGED tokens
     \/ /\ job[head].waited = "no" /\ (tokens[head] = 1 \/ NoneAlive)
        /\ tokens' = [tokens EXCEPT ![head] = 0]

TakeToken ==
  /\ pc = "wait" /\ job[head].waited = "no" /\ tokens[head] = 1
  /\ tokens' = [tokens EXCEPT ![head] = 0]
  /\ job' = [job EXCEPT ![head].waited = "yes"]
  /\ UNCHANGED <<head, count, inUse, jobs, worker, wslot>>

RingStep ==
  \/ UNCHANGED slots
  \/ PopStep
  \/ TakeToken
  \/ ReadBlock
  \/ ResizePublish
  \/ Engage
  \/ RestartArm
  \/ \E w \in Worker : WorkerStep(w)

LEMMA BuildKinds ==
  ASSUME IInv, Build
  PROVE  RingStep
  <1> USE DEF IInv, RingStep, slots, rest, decoder, ring, control, goroutines, closers
  <1>1. CASE NextEntry
      BY <1>1 DEF NextEntry
  <1>2. CASE BuildChain
      BY <1>2 DEF BuildChain
  <1>3. CASE SetSerial
      BY <1>3 DEF SetSerial
  <1>4. CASE SetSame
      BY <1>4 DEF SetSame
  <1>5. CASE SetNew
      BY <1>5 DEF SetNew
  <1>6. CASE ResizeStop
      BY <1>6 DEF ResizeStop
  <1>7. CASE ResizeWait
      BY <1>7 DEF ResizeWait
  <1>8. CASE ResizePublish
      BY <1>8 DEF ResizePublish
  <1>9. CASE Engage
      BY <1>9 DEF Engage
  <1> QED BY <1>1, <1>2, <1>3, <1>4, <1>5, <1>6, <1>7, <1>8, <1>9 DEF Build

LEMMA DrainKinds ==
  ASSUME IInv, Draining
  PROVE  RingStep
  <1> USE DEF IInv, RingStep, slots, control, goroutines, closers
  <1>1. CASE Drain
      BY <1>1 DEF Drain, PopStep
  <1>2. CASE DrainAbandoned
      <2>1. count > 0 /\ job[head].waited = "no"
          BY <1>2 DEF DrainAbandoned, Positions
      <2>2. NoneAlive
          BY <1>2, ExitedAll DEF DrainAbandoned, DrainMayRelease
      <2> QED BY <1>2, <2>1, <2>2 DEF DrainAbandoned, PopStep
  <1> QED BY <1>1, <1>2 DEF Draining

LEMMA FillKinds ==
  ASSUME IInv, Filling
  PROVE  RingStep
  <1> USE DEF IInv, RingStep, slots, rest, decoder, ring, control, goroutines, closers
  <1>1. CASE Fill
      BY <1>1 DEF Fill
  <1>2. CASE TargetReached
      BY <1>2 DEF TargetReached
  <1>3. CASE FillLoop
      BY <1>3 DEF FillLoop
  <1>4. CASE AheadDone
      BY <1>4 DEF AheadDone
  <1>5. CASE ReadFails
      BY <1>5 DEF ReadFails
  <1>6. CASE ReadBlock
      BY <1>6 DEF ReadBlock
  <1>7. CASE Wait
      BY <1>7 DEF Wait, TakeToken
  <1>8. CASE Replay
      BY <1>8 DEF Replay
  <1>9. CASE Replayed
      BY <1>9 DEF Replayed, PopStep, Positions
  <1> QED BY <1>1, <1>2, <1>3, <1>4, <1>5, <1>6, <1>7, <1>8, <1>9 DEF Filling

LEMMA InlineKinds ==
  ASSUME IInv, Inlining
  PROVE  RingStep
  <1> USE DEF IInv, RingStep, slots, rest, decoder, ring, control, goroutines, closers
  <1>1. CASE Adopt
      BY <1>1 DEF Adopt
  <1>2. CASE ReadBlockHeader
      BY <1>2 DEF ReadBlockHeader
  <1>3. CASE DecodeSymbol
      BY <1>3 DEF DecodeSymbol
  <1>4. CASE SymbolCut
      BY <1>4 DEF SymbolCut
  <1>5. CASE SymbolBad
      BY <1>5 DEF SymbolBad, PopStep, Positions
  <1>6. CASE InlineDone
      BY <1>6 DEF InlineDone, PopStep, Positions
  <1>7. CASE SerialDone
      BY <1>7 DEF SerialDone
  <1> QED BY <1>1, <1>2, <1>3, <1>4, <1>5, <1>6, <1>7 DEF Inlining

LEMMA ResetKinds ==
  ASSUME IInv, Reset
  PROVE  RingStep
  <1> USE DEF IInv, RingStep, slots, rest, decoder, ring, control, goroutines, closers
  <1>1. CASE ResetBegin
      BY <1>1 DEF ResetBegin
  <1>2. CASE ResetLatch
      BY <1>2 DEF ResetLatch
  <1>3. CASE RestartCheck
      BY <1>3 DEF RestartCheck
  <1>4. CASE RestartWait
      BY <1>4 DEF RestartWait
  <1>5. CASE RestartArm
      BY <1>5 DEF RestartArm
  <1> QED BY <1>1, <1>2, <1>3, <1>4, <1>5 DEF Reset

LEMMA CloseKinds ==
  ASSUME IInv, NEW c \in Closers, CloseBegin(c) \/ CloseStep(c)
  PROVE  RingStep
  <1> USE DEF IInv, RingStep, slots, rest, decoder, ring, control, goroutines, closers
  <1>1. CASE CloseBegin(c)
      BY <1>1 DEF CloseBegin
  <1>2. CASE CloseLatch(c)
      BY <1>2 DEF CloseLatch
  <1>3. CASE CloseStop(c)
      BY <1>3 DEF CloseStop
  <1>4. CASE CloseWait(c)
      BY <1>4 DEF CloseWait
  <1> QED BY <1>1, <1>2, <1>3, <1>4 DEF CloseStep

LEMMA RingSteps ==
  ASSUME IInv, [Next]_vars
  PROVE  RingStep
  <1>1. CASE UNCHANGED vars
      BY <1>1 DEF RingStep, slots, vars, ring, control, goroutines
  <1>2. CASE \E w \in Worker : WorkerStep(w)
      BY <1>2 DEF RingStep
  <1> QED BY <1>1, <1>2, BuildKinds, DrainKinds, FillKinds, InlineKinds, ResetKinds, CloseKinds
          DEF Next, Traversal

-----------------------------------------------------------------------------
(* The steps of the ring keep the slots private and the references exact.   *)

LEMMA PopFacts ==
  ASSUME IInv, PopStep
  PROVE  /\ head \in Ring /\ Ring' = Ring \ {head}
         /\ \A i \in Slot \ {head} : job'[i] = job[i] /\ tokens'[i] = tokens[i]
         /\ tokens'[head] = 0 /\ job'[head].waited = "no"
         /\ \A w \in Worker : worker[w] = "busy" => wslot[w] # head
         /\ ~NoneAlive => \A k \in 1 .. Len(jobs) : jobs[k] # head
  <1> USE DEF IInv, PopStep
  <1>1. head \in Slot /\ count \in 0 .. R /\ count > 0 /\ head \in Ring
      BY RingFacts DEF TypeOK
  <1>2. Ring' = Ring \ {head}
      <2>1. Ring' = Span((head + 1) % R, count - 1)
          BY DEF Pop, Ring, Span
      <2> QED BY <1>1, <2>1, SpanPop, RingIsSpan
  <1>3. \A i \in Slot \ {head} : job'[i] = job[i] /\ tokens'[i] = tokens[i]
      BY DEF Pop, TypeOK
  <1>4. job[head] \in Job /\ ClearedJob(head).waited = "no"
      BY <1>1 DEF TypeOK, ClearedJob, Job
  <1>5. job'[head].waited = "no"
      BY <1>1, <1>4 DEF Pop, TypeOK
  <1>6. tokens'[head] = 0
      BY <1>1 DEF TypeOK, Slots
  <1>7. \A w \in Worker : worker[w] = "busy" => wslot[w] # head
      BY DEF Slots, NoneAlive, Alive
  <1>8. ~NoneAlive => \A k \in 1 .. Len(jobs) : jobs[k] # head
      BY DEF Queue
  <1> QED BY <1>1, <1>2, <1>3, <1>5, <1>6, <1>7, <1>8

LEMMA PopKeeps ==
  ASSUME IInv, PopStep
  PROVE  Slots' /\ Queue' /\ References'
  <1> USE DEF IInv
  <1>0. UNCHANGED <<jobs, worker, wslot>>
      BY DEF PopStep
  <1>1. Ring \subseteq Slot
      BY RingFacts
  <1>2. Slots'
      <2>1. \A i \in Slot \ Ring' : tokens'[i] = 0 /\ job'[i].waited = "no"
          BY PopFacts DEF Slots
      <2>2. \A i \in Ring' : job'[i].waited = "yes" => i = head' /\ tokens'[i] = 0
          BY <1>1, PopFacts DEF Slots
      <2>3. \A w \in Worker : worker[w] = "busy" =>
              wslot[w] \in Ring' /\ tokens'[wslot[w]] = 0 /\ job'[wslot[w]].waited = "no"
          BY <1>1, PopFacts DEF Slots
      <2> QED BY <1>0, <2>1, <2>2, <2>3 DEF Slots
  <1>3. Queue'
      <2>1. ASSUME ~NoneAlive, NEW k \in 1 .. Len(jobs)
            PROVE  /\ jobs[k] \in Ring' /\ tokens'[jobs[k]] = 0 /\ job'[jobs[k]].waited = "no"
                   /\ \A w \in Worker : worker[w] = "busy" => wslot[w] # jobs[k]
          <3>1. jobs[k] \in Ring /\ tokens[jobs[k]] = 0 /\ job[jobs[k]].waited = "no"
              BY <2>1 DEF Queue
          <3>2. jobs[k] # head
              BY <2>1, PopFacts
          <3>3. jobs[k] \in Slot \ {head}
              BY <1>1, <3>1, <3>2
          <3>4. job'[jobs[k]] = job[jobs[k]] /\ tokens'[jobs[k]] = tokens[jobs[k]]
              BY <3>3, PopFacts
          <3>5. jobs[k] \in Ring'
              BY <3>1, <3>2, PopFacts
          <3> QED BY <2>1, <3>1, <3>4, <3>5 DEF Queue
      <2>2. NoneAlive' = NoneAlive
          BY <1>0 DEF NoneAlive, Alive
      <2> QED BY <1>0, <2>1, <2>2 DEF Queue
  <1>4. References'
      <2> SUFFICES ASSUME NEW t \in TableSet
                   PROVE  inUse'[t] = Cardinality(Holders(t)')
          BY DEF References
      <2>1. Holders(t)' = Holders(t) \ {head}
          BY <1>1, PopFacts DEF Holders
      <2>2. IsFiniteSet(Holders(t)) /\ inUse[t] = Cardinality(Holders(t)) /\ inUse[t] \in Nat
          BY HoldersFacts DEF References
      <2>3. head \in Holders(t) <=> job[head].tset = t
          BY PopFacts DEF Holders
      <2>4. inUse'[t] = IF job[head].tset = t THEN inUse[t] - 1 ELSE inUse[t]
          BY DEF PopStep, Pop, ReleasesTables, TypeOK
      <2>5. Cardinality(Holders(t) \ {head}) =
              IF head \in Holders(t) THEN Cardinality(Holders(t)) - 1 ELSE Cardinality(Holders(t))
          BY <2>2, FS_RemoveElement
      <2> QED BY <2>1, <2>2, <2>3, <2>4, <2>5
  <1> QED BY <1>2, <1>3, <1>4

LEMMA TakeKeeps ==
  ASSUME IInv, TakeToken
  PROVE  Slots' /\ Queue' /\ References'
  <1> USE DEF IInv
  <1>0. UNCHANGED <<head, count, inUse, jobs, worker, wslot>>
      BY DEF TakeToken
  <1>1. Ring' = Ring /\ Ring \subseteq Slot /\ head \in Ring /\ head \in Slot
      BY <1>0, RingFacts DEF Ring, TakeToken, Positions, TypeOK
  <1>2. /\ \A i \in Slot \ {head} : job'[i] = job[i] /\ tokens'[i] = tokens[i]
        /\ tokens'[head] = 0 /\ \A i \in Slot : job'[i].tset = job[i].tset
        /\ tokens[head] = 1
      BY <1>1 DEF TakeToken, TypeOK, Job
  <1>3. Slots'
      <2>1. \A i \in Slot \ Ring : tokens'[i] = 0 /\ job'[i].waited = "no"
          BY <1>1, <1>2 DEF Slots
      <2>2. \A i \in Ring : job'[i].waited = "yes" => i = head /\ tokens'[i] = 0
          BY <1>1, <1>2 DEF Slots
      <2>3. \A w \in Worker : worker[w] = "busy" =>
              wslot[w] \in Ring /\ tokens'[wslot[w]] = 0 /\ job'[wslot[w]].waited = "no"
          BY <1>1, <1>2 DEF Slots
      <2> QED BY <1>0, <1>1, <2>1, <2>2, <2>3 DEF Slots
  <1>4. Queue'
      <2>1. ASSUME ~NoneAlive, NEW k \in 1 .. Len(jobs)
            PROVE  jobs[k] \in Ring /\ tokens'[jobs[k]] = 0 /\ job'[jobs[k]].waited = "no"
          <3>1. jobs[k] \in Ring /\ tokens[jobs[k]] = 0 /\ job[jobs[k]].waited = "no"
              BY <2>1 DEF Queue
          <3>2. jobs[k] \in Slot \ {head}
              BY <1>1, <1>2, <3>1
          <3> QED BY <1>2, <3>1, <3>2
      <2>2. NoneAlive' = NoneAlive
          BY <1>0 DEF NoneAlive, Alive
      <2> QED BY <1>0, <1>1, <2>1, <2>2 DEF Queue
  <1>5. References'
      <2>1. \A t : Holders(t)' = Holders(t)
          BY <1>1, <1>2 DEF Holders
      <2> QED BY <1>0, <2>1 DEF References
  <1> QED BY <1>3, <1>4, <1>5

(* The slot readAhead fills, and the job it becomes. *)
LEMMA PushFacts ==
  ASSUME IInv, ReadBlock, NEW i, i = (head + count) % R
  PROVE  /\ i \in Slot /\ i \notin Ring /\ Ring' = Ring \cup {i}
         /\ UNCHANGED <<head, worker, wslot>>
         /\ \A k \in Slot \ {i} : job'[k] = job[k] /\ tokens'[k] = tokens[k]
         /\ cur' \in TableSet /\ job'[i].tset = cur' /\ job'[i].waited = "no"
         /\ inUse' = [inUse EXCEPT ![cur'] = @ + 1]
         /\ \/ UNCHANGED jobs
            \/ Len(jobs) < R /\ jobs' = Append(jobs, i) /\ UNCHANGED tokens
  <1> USE DEF IInv
  <1>1. count < R /\ UNCHANGED <<head, worker, wslot>> /\ count' = count + 1
      BY DEF ReadBlock, CanRead, goroutines
  <1>2. i \in Slot /\ i \notin Ring /\ Ring' = Ring \cup {i}
      <2>1. head \in Slot /\ count \in 0 .. R
          BY DEF TypeOK
      <2>2. Ring' = Span(head, count + 1)
          BY <1>1 DEF Ring, Span
      <2> QED BY <1>1, <2>1, <2>2, SpanPush, RingIsSpan
  <1>3. cur' \in TableSet
      <2>1. \E tabs \in Flag : IF tabs = "yes" THEN cur' = LoadTarget ELSE UNCHANGED cur
          BY DEF ReadBlock
      <2> QED BY <2>1, LoadTargetFree DEF TypeOK
  <1>4. PICK j : /\ Submit(i, j) /\ j.tset = cur' /\ j.waited = job[i].waited
                 /\ [j EXCEPT !.res = "big"].tset = cur'
                 /\ [j EXCEPT !.res = "big"].waited = job[i].waited
                 /\ [j EXCEPT !.res = "closed"].tset = cur'
                 /\ [j EXCEPT !.res = "closed"].waited = job[i].waited
      <2>1. PICK shape \in Shapes, last \in Flag, tabs \in Flag :
              Submit(i, [shape |-> shape, last |-> last, tabs |-> tabs,
                         tset |-> cur', waited |-> job[i].waited, res |-> job[i].res,
                         lent |-> IF Big(shape) THEN "yes" ELSE job[i].lent,
                         pay |-> job[i].pay, ver |-> job[i].ver])
          BY DEF ReadBlock
      <2> DEFINE j == [shape |-> shape, last |-> last, tabs |-> tabs,
                       tset |-> cur', waited |-> job[i].waited, res |-> job[i].res,
                       lent |-> IF Big(shape) THEN "yes" ELSE job[i].lent,
                       pay |-> job[i].pay, ver |-> job[i].ver]
      <2>2. /\ j.tset = cur' /\ j.waited = job[i].waited
            /\ [j EXCEPT !.res = "big"].tset = cur'
            /\ [j EXCEPT !.res = "big"].waited = job[i].waited
            /\ [j EXCEPT !.res = "closed"].tset = cur'
            /\ [j EXCEPT !.res = "closed"].waited = job[i].waited
          OBVIOUS
      <2>3. Submit(i, j)
          BY <2>1
      <2> HIDE DEF j
      <2> QED BY <2>2, <2>3
  <1>5. job[i].waited = "no"
      BY <1>2 DEF Slots
  <1>6. PICK m : job' = [job EXCEPT ![i] = m] /\ m.tset = cur' /\ m.waited = "no"
      BY <1>4, <1>5 DEF Submit
  <1>7. \A k \in Slot \ {i} : job'[k] = job[k]
      BY <1>2, <1>6 DEF TypeOK
  <1>8. job'[i].tset = cur' /\ job'[i].waited = "no"
      BY <1>2, <1>6 DEF TypeOK
  <1>9. \A k \in Slot \ {i} : tokens'[k] = tokens[k]
      BY <1>2, <1>4 DEF Submit, TypeOK
  <1>10. \/ UNCHANGED jobs
         \/ Len(jobs) < R /\ jobs' = Append(jobs, i) /\ UNCHANGED tokens
      BY <1>4 DEF Submit
  <1>11. inUse' = [inUse EXCEPT ![cur'] = @ + 1]
      BY DEF ReadBlock
  <1> QED BY <1>1, <1>2, <1>3, <1>7, <1>8, <1>9, <1>10, <1>11

LEMMA PushKeeps ==
  ASSUME IInv, ReadBlock
  PROVE  Slots' /\ Queue' /\ References'
  <1> USE DEF IInv
  <1> DEFINE i == (head + count) % R
  <1>0. /\ i \in Slot /\ i \notin Ring /\ Ring' = Ring \cup {i}
        /\ UNCHANGED <<head, worker, wslot>>
        /\ \A k \in Slot \ {i} : job'[k] = job[k] /\ tokens'[k] = tokens[k]
        /\ cur' \in TableSet /\ job'[i].tset = cur' /\ job'[i].waited = "no"
        /\ inUse' = [inUse EXCEPT ![cur'] = @ + 1]
        /\ \/ UNCHANGED jobs
           \/ Len(jobs) < R /\ jobs' = Append(jobs, i) /\ UNCHANGED tokens
      BY PushFacts
  <1> HIDE DEF i
  <1>1. Ring \subseteq Slot
      BY RingFacts
  <1>2. Slots'
      <2>1. \A k \in Slot \ Ring' : tokens'[k] = 0 /\ job'[k].waited = "no"
          BY <1>0 DEF Slots
      <2>2. \A k \in Ring' : job'[k].waited = "yes" => k = head' /\ tokens'[k] = 0
          BY <1>0, <1>1 DEF Slots
      <2>3. \A w \in Worker : worker[w] = "busy" =>
              wslot[w] \in Ring' /\ tokens'[wslot[w]] = 0 /\ job'[wslot[w]].waited = "no"
          BY <1>0, <1>1 DEF Slots
      <2> QED BY <1>0, <2>1, <2>2, <2>3 DEF Slots
  <1>3. Queue'
      <2>0. NoneAlive' = NoneAlive
          BY <1>0 DEF NoneAlive, Alive
      <2> SUFFICES ASSUME ~NoneAlive
                   PROVE  /\ \A k \in 1 .. Len(jobs') :
                               /\ jobs'[k] \in Ring' /\ tokens'[jobs'[k]] = 0
                               /\ job'[jobs'[k]].waited = "no"
                               /\ \A w \in Worker : worker[w] = "busy" => wslot[w] # jobs'[k]
                          /\ \A k, l \in 1 .. Len(jobs') : k # l => jobs'[k] # jobs'[l]
          BY <1>0, <2>0 DEF Queue
      <2>1. ASSUME NEW k \in 1 .. Len(jobs)
            PROVE  /\ jobs[k] \in Ring /\ jobs[k] # i
                   /\ tokens'[jobs[k]] = 0 /\ job'[jobs[k]].waited = "no"
                   /\ \A w \in Worker : worker[w] = "busy" => wslot[w] # jobs[k]
          <3>1. /\ jobs[k] \in Ring /\ tokens[jobs[k]] = 0 /\ job[jobs[k]].waited = "no"
                /\ \A w \in Worker : worker[w] = "busy" => wslot[w] # jobs[k]
              BY DEF Queue
          <3> QED BY <1>0, <1>1, <3>1
      <2>2. \A k, l \in 1 .. Len(jobs) : k # l => jobs[k] # jobs[l]
          BY DEF Queue
      <2>3. CASE UNCHANGED jobs
          BY <1>0, <2>1, <2>2, <2>3
      <2>4. CASE jobs' = Append(jobs, i) /\ UNCHANGED tokens
          <3>1. /\ jobs \in Seq(Slot) /\ Len(jobs) \in Nat /\ Len(jobs') = Len(jobs) + 1
                /\ \A k \in 1 .. Len(jobs) : jobs'[k] = jobs[k]
                /\ jobs'[Len(jobs) + 1] = i
              BY <1>0, <2>4 DEF TypeOK
          <3>2. \A k \in 1 .. Len(jobs') : k \in 1 .. Len(jobs) \/ k = Len(jobs) + 1
              BY <3>1
          <3>3. /\ tokens'[i] = 0 /\ i \in Ring' /\ job'[i].waited = "no"
                /\ \A w \in Worker : worker[w] = "busy" => wslot[w] # i
              BY <1>0, <2>4 DEF Slots
          <3> QED BY <1>0, <2>1, <2>2, <3>1, <3>2, <3>3
      <2> QED BY <1>0, <2>3, <2>4
  <1>4. References'
      <2> SUFFICES ASSUME NEW t \in TableSet
                   PROVE  inUse'[t] = Cardinality(Holders(t)')
          BY DEF References
      <2>1. Holders(t)' = IF t = cur' THEN Holders(t) \cup {i} ELSE Holders(t)
          BY <1>0, <1>1 DEF Holders
      <2>2. IsFiniteSet(Holders(t)) /\ inUse[t] = Cardinality(Holders(t)) /\ inUse[t] \in Nat
          BY HoldersFacts DEF References
      <2>3. i \notin Holders(t)
          BY <1>0 DEF Holders
      <2>4. inUse'[t] = IF t = cur' THEN inUse[t] + 1 ELSE inUse[t]
          BY <1>0 DEF TypeOK
      <2>5. Cardinality(Holders(t) \cup {i}) = Cardinality(Holders(t)) + 1
          BY <2>2, <2>3, FS_AddElement
      <2> QED BY <2>1, <2>2, <2>4, <2>5
  <1> QED BY <1>2, <1>3, <1>4

(* No worker is alive and the ring is empty. *)
LEMMA EmptyRingKeeps ==
  ASSUME NoneAlive', Ring' = {}, \A t \in TableSet : inUse'[t] = 0,
         \A i \in Slot : tokens'[i] = 0 /\ job'[i].waited = "no"
  PROVE  Slots' /\ Queue' /\ References'
  <1>1. Slots'
      BY DEF Slots, NoneAlive, Alive
  <1>2. Queue'
      BY DEF Queue
  <1>3. References'
      <2>1. \A t : Holders(t)' = {}
          BY DEF Holders
      <2> QED BY <2>1, FS_EmptySet DEF References
  <1> QED BY <1>1, <1>2, <1>3

LEMMA PublishKeeps ==
  ASSUME IInv, ResizePublish
  PROVE  Slots' /\ Queue' /\ References'
  <1>1. NoneAlive'
      BY DEF IInv, Generations, ResizePublish, goroutines, NoneAlive, Alive
  <1>2. Ring' = {}
      BY DEF ResizePublish, FreshRing, Ring
  <1>3. \A t \in TableSet : inUse'[t] = 0
      BY DEF ResizePublish, FreshRing
  <1>4. \A i \in Slot : tokens'[i] = 0 /\ job'[i].waited = "no"
      BY DEF ResizePublish, FreshRing, EmptyJob
  <1> QED BY <1>1, <1>2, <1>3, <1>4, EmptyRingKeeps

LEMMA EngageKeeps ==
  ASSUME IInv, Engage
  PROVE  Slots' /\ Queue' /\ References'
  <1> USE DEF IInv
  <1>1. count = 0 /\ Ring = {} /\ Ring' = {}
      BY RingFacts DEF Engage, Positions, Ring
  <1>2. UNCHANGED <<job, tokens, inUse, wslot>>
      BY DEF Engage
  <1>3. \A w \in Worker : worker[w] # "busy" /\ worker'[w] # "busy"
      <2>1. \A w \in Worker : worker[w] # "busy"
          BY <1>1 DEF Slots
      <2> QED BY <2>1 DEF Engage
  <1>4. Slots'
      BY <1>1, <1>2, <1>3 DEF Slots
  <1>5. Queue'
      <2>1. CASE running = "yes" \/ QuitFired
          <3>1. UNCHANGED <<jobs, worker>>
              BY <2>1 DEF Engage
          <3> QED BY <1>1, <1>2, <3>1 DEF Queue, NoneAlive, Alive
      <2>2. CASE ~(running = "yes" \/ QuitFired)
          <3>1. jobs' = <<>>
              BY <2>2 DEF Engage
          <3>2. Len(jobs') = 0
              BY <3>1
          <3> QED BY <3>2 DEF Queue
      <2> QED BY <2>1, <2>2
  <1>6. References'
      BY <1>1, <1>2 DEF References, Holders
  <1> QED BY <1>4, <1>5, <1>6

LEMMA ArmKeeps ==
  ASSUME IInv, RestartArm
  PROVE  Slots' /\ Queue' /\ References'
  <1> USE DEF IInv
  <1>1. UNCHANGED <<job, tokens, head, count, inUse, worker, wslot>> /\ jobs' = <<>>
      BY DEF RestartArm, ring, goroutines
  <1>2. Ring' = Ring
      BY <1>1 DEF Ring
  <1>3. Slots'
      BY <1>1, <1>2 DEF Slots
  <1>4. Queue'
      <2>1. Len(jobs') = 0
          BY <1>1
      <2> QED BY <2>1 DEF Queue
  <1>5. References'
      BY <1>1, <1>2 DEF References, Holders
  <1> QED BY <1>3, <1>4, <1>5

LEMMA QuitKeeps ==
  ASSUME IInv, NEW w \in Worker, WorkerQuits(w)
  PROVE  Slots' /\ Queue' /\ References'
  <1> USE DEF IInv
  <1>1. UNCHANGED <<job, tokens, head, count, inUse, jobs, wslot>>
      BY DEF WorkerQuits, ring, control
  <1>2. Ring' = Ring
      BY <1>1 DEF Ring
  <1>3. \A v \in Worker : /\ worker'[v] = "busy" => worker[v] = "busy"
                          /\ Alive(v)' => Alive(v)
      BY DEF WorkerQuits, TypeOK, Alive
  <1>4. ~NoneAlive' => ~NoneAlive
      BY <1>3 DEF NoneAlive
  <1>5. Slots'
      BY <1>1, <1>2, <1>3 DEF Slots
  <1>6. Queue'
      BY <1>1, <1>2, <1>3, <1>4 DEF Queue
  <1>7. References'
      BY <1>1, <1>2 DEF References, Holders
  <1> QED BY <1>5, <1>6, <1>7

LEMMA TakeJobKeeps ==
  ASSUME IInv, NEW w \in Worker, WorkerTakes(w)
  PROVE  Slots' /\ Queue' /\ References'
  <1> USE DEF IInv
  <1>1. UNCHANGED <<job, tokens, head, count, inUse>>
      BY DEF WorkerTakes, ring
  <1>2. Ring' = Ring
      BY <1>1 DEF Ring
  <1>3. Alive(w) /\ ~NoneAlive
      BY DEF WorkerTakes, Alive, NoneAlive
  <1>4. /\ jobs \in Seq(Slot) /\ Len(jobs) \in Nat /\ Len(jobs) > 0
        /\ Len(jobs') = Len(jobs) - 1
        /\ \A k \in 1 .. Len(jobs') : k + 1 \in 1 .. Len(jobs) /\ jobs'[k] = jobs[k + 1]
        /\ Head(jobs) = jobs[1] /\ 1 \in 1 .. Len(jobs)
      BY DEF WorkerTakes, TypeOK
  <1>5. /\ \A k \in 1 .. Len(jobs) :
             /\ jobs[k] \in Ring /\ tokens[jobs[k]] = 0 /\ job[jobs[k]].waited = "no"
             /\ \A v \in Worker : worker[v] = "busy" => wslot[v] # jobs[k]
        /\ \A k, l \in 1 .. Len(jobs) : k # l => jobs[k] # jobs[l]
      BY <1>3 DEF Queue
  <1>6. \A k \in 1 .. Len(jobs') : jobs'[k] # jobs[1]
      <2> SUFFICES ASSUME NEW k \in 1 .. Len(jobs') PROVE jobs'[k] # jobs[1]
          OBVIOUS
      <2>1. k + 1 \in 1 .. Len(jobs) /\ k + 1 # 1
          BY <1>4
      <2> QED BY <1>4, <1>5, <2>1
  <1>7. \/ worker' = [worker EXCEPT ![w] = "exited"] /\ UNCHANGED wslot
        \/ /\ worker' = [worker EXCEPT ![w] = "busy"]
           /\ wslot' = [wslot EXCEPT ![w] = jobs[1]]
      BY <1>4 DEF WorkerTakes
  <1>8. \A v \in Worker : worker'[v] = "busy" =>
          \/ worker[v] = "busy" /\ v # w /\ wslot'[v] = wslot[v]
          \/ v = w /\ wslot'[v] = jobs[1]
      BY <1>7 DEF TypeOK, WorkerTakes
  <1>9. Slots'
      <2>1. \A v \in Worker : worker'[v] = "busy" =>
              wslot'[v] \in Ring /\ tokens[wslot'[v]] = 0 /\ job[wslot'[v]].waited = "no"
          BY <1>4, <1>5, <1>8 DEF Slots
      <2>2. \A u, v \in Worker : worker'[u] = "busy" /\ worker'[v] = "busy" /\ u # v =>
              wslot'[u] # wslot'[v]
          BY <1>4, <1>5, <1>8 DEF Slots
      <2> QED BY <1>1, <1>2, <2>1, <2>2 DEF Slots
  <1>10. Queue'
      <2>1. \A k \in 1 .. Len(jobs') :
              jobs'[k] \in Ring /\ tokens[jobs'[k]] = 0 /\ job[jobs'[k]].waited = "no"
          <3> SUFFICES ASSUME NEW k \in 1 .. Len(jobs')
                       PROVE  jobs'[k] \in Ring /\ tokens[jobs'[k]] = 0
                              /\ job[jobs'[k]].waited = "no"
              OBVIOUS
          <3>1. k + 1 \in 1 .. Len(jobs) /\ jobs'[k] = jobs[k + 1]
              BY <1>4
          <3> QED BY <1>5, <3>1
      <2>2. \A k \in 1 .. Len(jobs') : \A v \in Worker : worker'[v] = "busy" => wslot'[v] # jobs'[k]
          BY <1>4, <1>5, <1>6, <1>8
      <2>3. \A k, l \in 1 .. Len(jobs') : k # l => jobs'[k] # jobs'[l]
          <3> SUFFICES ASSUME NEW k \in 1 .. Len(jobs'), NEW l \in 1 .. Len(jobs'), k # l
                       PROVE  jobs'[k] # jobs'[l]
              OBVIOUS
          <3>1. k + 1 # l + 1
              BY <1>4
          <3> QED BY <1>4, <1>5, <3>1
      <2> QED BY <1>1, <1>2, <2>1, <2>2, <2>3 DEF Queue
  <1>11. References'
      BY <1>1, <1>2 DEF References, Holders
  <1> QED BY <1>9, <1>10, <1>11

LEMMA DecodeKeeps ==
  ASSUME IInv, NEW w \in Worker, WorkerDecodes(w)
  PROVE  Slots' /\ Queue' /\ References'
  <1> USE DEF IInv
  <1> DEFINE i == wslot[w]
  <1>1. UNCHANGED <<head, count, inUse, jobs, wslot>>
      BY DEF WorkerDecodes, control
  <1>2. Ring' = Ring
      BY <1>1 DEF Ring
  <1>3. /\ worker[w] = "busy" /\ worker' = [worker EXCEPT ![w] = "idle"]
        /\ tokens' = [tokens EXCEPT ![i] = 1]
      BY DEF WorkerDecodes
  <1>4. i \in Ring /\ i \in Slot /\ job[i].waited = "no"
      BY <1>3, RingFacts DEF Slots
  <1>5. \A k \in Slot : job'[k].waited = job[k].waited /\ job'[k].tset = job[k].tset
      <2>1. PICK r, p, v : job' = [job EXCEPT ![i].res = r, ![i].pay = p, ![i].ver = v]
          BY DEF WorkerDecodes
      <2>2. job[i] \in Job
          BY <1>4 DEF TypeOK
      <2> HIDE DEF i
      <2>3. job'[i].waited = job[i].waited /\ job'[i].tset = job[i].tset
          BY <1>4, <2>1, <2>2 DEF TypeOK, Job
      <2>4. \A k \in Slot \ {i} : job'[k] = job[k]
          BY <1>4, <2>1 DEF TypeOK
      <2> QED BY <2>3, <2>4
  <1>6. \A v \in Worker : worker'[v] = "busy" => worker[v] = "busy" /\ v # w /\ wslot[v] # i
      BY <1>3 DEF TypeOK, Slots
  <1> HIDE DEF i
  <1>7. \A k \in Slot : k # i => tokens'[k] = tokens[k]
      BY <1>3, <1>4 DEF TypeOK
  <1>8. Ring \subseteq Slot /\ ~NoneAlive
      BY <1>3, RingFacts DEF NoneAlive, Alive
  <1>9. Slots'
      <2>1. \A k \in Slot \ Ring : tokens'[k] = 0 /\ job'[k].waited = "no"
          BY <1>4, <1>5, <1>7 DEF Slots
      <2>2. \A k \in Ring : job'[k].waited = "yes" => k = head /\ tokens'[k] = 0
          BY <1>4, <1>5, <1>7, <1>8 DEF Slots
      <2>3. \A v \in Worker : worker'[v] = "busy" =>
              wslot[v] \in Ring /\ tokens'[wslot[v]] = 0 /\ job'[wslot[v]].waited = "no"
          BY <1>5, <1>6, <1>7, <1>8 DEF Slots
      <2> QED BY <1>1, <1>2, <1>6, <2>1, <2>2, <2>3 DEF Slots
  <1>10. Queue'
      <2>1. /\ \A k \in 1 .. Len(jobs) :
                 /\ jobs[k] \in Ring /\ tokens[jobs[k]] = 0 /\ job[jobs[k]].waited = "no"
                 /\ \A v \in Worker : worker[v] = "busy" => wslot[v] # jobs[k]
            /\ \A k, l \in 1 .. Len(jobs) : k # l => jobs[k] # jobs[l]
          BY <1>8 DEF Queue
      <2>2. \A k \in 1 .. Len(jobs) : jobs[k] # i
          BY <1>3, <2>1 DEF i
      <2>3. \A k \in 1 .. Len(jobs) : tokens'[jobs[k]] = 0 /\ job'[jobs[k]].waited = "no"
          BY <1>5, <1>7, <1>8, <2>1, <2>2
      <2> QED BY <1>1, <1>2, <1>6, <2>1, <2>3 DEF Queue
  <1>11. References'
      <2>1. \A t : Holders(t)' = Holders(t)
          BY <1>2, <1>5, <1>8 DEF Holders
      <2> QED BY <1>1, <2>1 DEF References
  <1> QED BY <1>9, <1>10, <1>11

LEMMA SlotsStep ==
  ASSUME IInv, [Next]_vars
  PROVE  Slots' /\ Queue' /\ References'
  <1>1. CASE UNCHANGED slots
      <2>1. Ring' = Ring /\ NoneAlive' = NoneAlive /\ \A t : Holders(t)' = Holders(t)
          BY <1>1 DEF slots, Ring, NoneAlive, Alive, Holders
      <2>2. Slots'
          BY <1>1, <2>1 DEF IInv, slots, Slots
      <2>3. Queue'
          BY <1>1, <2>1 DEF IInv, slots, Queue
      <2>4. References'
          BY <1>1, <2>1 DEF IInv, slots, References
      <2> QED BY <2>2, <2>3, <2>4
  <1>2. CASE \E w \in Worker : WorkerStep(w)
      BY <1>2, QuitKeeps, TakeJobKeeps, DecodeKeeps DEF WorkerStep
  <1>3. RingStep
      BY RingSteps
  <1> QED BY <1>1, <1>2, <1>3, PopKeeps, TakeKeeps, PushKeeps, PublishKeeps, EngageKeeps, ArmKeeps
          DEF RingStep

-----------------------------------------------------------------------------
(* Where the traversal stands. *)

LEMMA PositionsBuild ==
  ASSUME IInv, Build
  PROVE  Positions'
  <1> USE DEF IInv, TypeOK, Positions, Resizing, rest, decoder, ring, control, goroutines, closers
  <1>1. CASE NextEntry
      BY <1>1 DEF NextEntry
  <1>2. CASE BuildChain
      BY <1>2 DEF BuildChain
  <1>3. CASE SetSerial
      BY <1>3 DEF SetSerial, BeginMember
  <1>4. CASE SetSame
      BY <1>4 DEF SetSame
  <1>5. CASE SetNew
      BY <1>5 DEF SetNew
  <1>6. CASE ResizeStop
      BY <1>6 DEF ResizeStop
  <1>7. CASE ResizeWait
      BY <1>7 DEF ResizeWait
  <1>8. CASE ResizePublish
      BY <1>8 DEF ResizePublish, FreshRing
  <1>9. CASE Engage
      BY <1>9 DEF Engage, BeginMember
  <1> QED BY <1>1, <1>2, <1>3, <1>4, <1>5, <1>6, <1>7, <1>8, <1>9 DEF Build

LEMMA PositionsDrain ==
  ASSUME IInv, Draining
  PROVE  Positions'
  <1> USE DEF IInv, TypeOK, Positions, Resizing, rest, decoder, ring, control, goroutines, closers
  <1>1. CASE Drain
      BY <1>1 DEF Drain
  <1>2. CASE DrainAbandoned
      BY <1>2 DEF DrainAbandoned
  <1> QED BY <1>1, <1>2 DEF Draining

LEMMA PositionsFill ==
  ASSUME IInv, Filling
  PROVE  Positions'
  <1> USE DEF IInv, TypeOK, Positions, Resizing, rest, decoder, ring, control, goroutines, closers
  <1>1. CASE Fill
      BY <1>1 DEF Fill
  <1>2. CASE TargetReached
      BY <1>2 DEF TargetReached
  <1>3. CASE FillLoop
      BY <1>3 DEF FillLoop
  <1>4. CASE AheadDone
      BY <1>4 DEF AheadDone
  <1>5. CASE ReadFails
      BY <1>5 DEF ReadFails
  <1>6. CASE ReadBlock
      BY <1>6 DEF ReadBlock
  <1>7. CASE Wait
      <2>1. count > 0 /\ UNCHANGED <<head, count>>
          BY <1>7 DEF Wait
      <2>2. CASE pc' = "idle"
          BY <2>2
      <2>3. CASE pc' # "idle" /\ UNCHANGED job
          <3>1. job[head].waited = "yes" /\ pc' \in {"inline", "replay"}
              BY <1>7, <2>3 DEF Wait, Job
          <3> QED BY <2>1, <2>3, <3>1
      <2>4. CASE job' = [job EXCEPT ![head].waited = "yes"] /\ pc' # "idle"
          <3>1. job'[head].waited = "yes" /\ pc' \in {"inline", "replay"}
              BY <1>7, <2>4 DEF Wait, Job
          <3> QED BY <2>1, <3>1
      <2> QED BY <1>7, <2>2, <2>3, <2>4 DEF Wait
  <1>8. CASE Replay
      BY <1>8 DEF Replay
  <1>9. CASE Replayed
      BY <1>9 DEF Replayed, AfterPop
  <1> QED BY <1>1, <1>2, <1>3, <1>4, <1>5, <1>6, <1>7, <1>8, <1>9 DEF Filling

LEMMA PositionsInline ==
  ASSUME IInv, Inlining
  PROVE  Positions'
  <1> USE DEF IInv, TypeOK, Positions, Resizing, rest, decoder, ring, control, goroutines, closers
  <1>1. CASE Adopt
      BY <1>1 DEF Adopt
  <1>2. CASE ReadBlockHeader
      BY <1>2 DEF ReadBlockHeader
  <1>3. CASE DecodeSymbol
      BY <1>3 DEF DecodeSymbol
  <1>4. CASE SymbolCut
      BY <1>4 DEF SymbolCut
  <1>5. CASE SymbolBad
      BY <1>5 DEF SymbolBad
  <1>6. CASE InlineDone
      BY <1>6 DEF InlineDone, AfterPop
  <1>7. CASE SerialDone
      BY <1>7 DEF SerialDone
  <1> QED BY <1>1, <1>2, <1>3, <1>4, <1>5, <1>6, <1>7 DEF Inlining

LEMMA PositionsReset ==
  ASSUME IInv, Reset
  PROVE  Positions'
  <1> USE DEF IInv, TypeOK, Positions, Resizing, rest, decoder, ring, control, goroutines, closers
  <1>1. CASE ResetBegin
      BY <1>1 DEF ResetBegin
  <1>2. CASE ResetLatch
      BY <1>2 DEF ResetLatch
  <1>3. CASE RestartCheck
      BY <1>3 DEF RestartCheck
  <1>4. CASE RestartWait
      BY <1>4 DEF RestartWait
  <1>5. CASE RestartArm
      BY <1>5 DEF RestartArm
  <1> QED BY <1>1, <1>2, <1>3, <1>4, <1>5 DEF Reset

LEMMA PositionsOthers ==
  ASSUME IInv,
         \/ \E w \in Worker : WorkerStep(w)
         \/ \E c \in Closers : CloseBegin(c) \/ CloseStep(c)
  PROVE  Positions'
  <1> USE DEF IInv
  <1>1. UNCHANGED <<pc, head, count>>
      BY DEF WorkerStep, WorkerQuits, WorkerTakes, WorkerDecodes, CloseStep, CloseBegin, CloseLatch,
             CloseStop, CloseWait, ring
  <1>2. job'[head].waited = job[head].waited
      <2>1. CASE UNCHANGED job
          BY <2>1
      <2>2. CASE \E w \in Worker : WorkerDecodes(w)
          <3>1. PICK i, r, p, v : i \in Slot /\ job' = [job EXCEPT ![i].res = r, ![i].pay = p, ![i].ver = v]
              <4>1. PICK w \in Worker : WorkerDecodes(w)
                  BY <2>2
              <4>2. wslot[w] \in Slot
                  BY DEF TypeOK
              <4> QED BY <4>1, <4>2 DEF WorkerDecodes
          <3>2. job[head] \in Job /\ job \in [Slot -> Job] /\ head \in Slot
              BY DEF TypeOK
          <3>3. i # head => job'[head] = job[head]
              BY <3>1, <3>2
          <3>4. i = head => job'[head].waited = job[head].waited
              BY <3>1, <3>2 DEF Job
          <3> QED BY <3>3, <3>4
      <2>3. UNCHANGED job \/ \E w \in Worker : WorkerDecodes(w)
          BY DEF WorkerStep, WorkerQuits, WorkerTakes, CloseStep, CloseBegin, CloseLatch,
                 CloseStop, CloseWait, ring
      <2> QED BY <2>1, <2>2, <2>3
  <1> QED BY <1>1, <1>2 DEF Positions, Resizing

LEMMA PositionsStep ==
  ASSUME IInv, [Next]_vars
  PROVE  Positions'
  <1>1. CASE UNCHANGED vars
      BY <1>1 DEF IInv, Positions, Resizing, vars, ring
  <1> QED BY <1>1, PositionsBuild, PositionsDrain, PositionsFill, PositionsInline, PositionsReset,
             PositionsOthers DEF Next, Traversal

-----------------------------------------------------------------------------
(* The theorems. *)

LEMMA InitInvariant == Init => IInv
  <1> SUFFICES ASSUME Init PROVE IInv
      OBVIOUS
  <1>1. TypeOK
      BY InitTypes
  <1>2. NoneAlive /\ Ring = {}
      BY DEF Init, NoneAlive, Alive, Ring
  <1>3. Channels
      BY DEF Init, Channels, DrainFor, Choosing, Resizing, Restarting
  <1>4. Generations
      BY <1>2 DEF Init, Generations, DrainFor, Alive, NoneAlive, QuitFired
  <1>5. Closing
      BY DEF Init, Closing, Latched, Reached, Choosing, Resizing, DrainFor
  <1>6. Slots
      BY <1>2 DEF Init, Slots, NoneAlive, Alive, EmptyJob
  <1>7. Queue
      BY <1>2 DEF Queue
  <1>8. Positions
      BY DEF Init, Positions, Resizing
  <1>9. References
      <2>1. \A t : Holders(t) = {}
          BY <1>2 DEF Holders
      <2> QED BY <2>1, FS_EmptySet DEF Init, References
  <1> QED BY <1>1, <1>3, <1>4, <1>5, <1>6, <1>7, <1>8, <1>9 DEF IInv

(* The pipeline keeps its ring, its channels, its goroutines and the        *)
(* closing of the Reader in agreement (decoder50_parallel.go).              *)
THEOREM PipelineInvariant == Spec => []IInv
  <1>1. IInv /\ [Next]_vars => IInv'
      BY TypeStep, ControlStep, SlotsStep, PositionsStep DEF IInv
  <1> QED BY <1>1, InitInvariant, PTL DEF Spec

(* Every variable of the pipeline keeps its type: no index leaves the ring  *)
(* and no reference count leaves 0 .. R.                                    *)
THEOREM PipelineTypes == Spec => []TypeOK
  <1>1. IInv => TypeOK
      BY DEF IInv
  <1> QED BY <1>1, PipelineInvariant, PTL

(* A slot is touched by one goroutine at a time, of whatever generation,    *)
(* and by none once it has left the ring (pop, drain, submit).              *)
THEOREM SlotsStayPrivate == Spec => []SlotsPrivate
  <1>1. ASSUME IInv PROVE SlotsPrivate
      <2> USE <1>1 DEF IInv
      <2> SUFFICES ASSUME NEW i \in Slot
                   PROVE  LET held == {w \in Worker : worker[w] = "busy" /\ wslot[w] = i}
                          IN  /\ i \notin Ring => held = {} /\ tokens[i] = 0
                              /\ Cardinality(held) + tokens[i] <= 1
          BY DEF SlotsPrivate
      <2> DEFINE held == {w \in Worker : worker[w] = "busy" /\ wslot[w] = i}
      <2>1. i \notin Ring => held = {} /\ tokens[i] = 0
          BY DEF Slots
      <2>2. tokens[i] \in 0 .. 1
          BY DEF TypeOK
      <2>3. CASE held = {}
          BY <2>1, <2>2, <2>3, FS_EmptySet
      <2>4. CASE held # {}
          <3>1. PICK w \in held : TRUE
              BY <2>4
          <3>2. held = {w}
              BY <3>1 DEF Slots
          <3>3. tokens[i] = 0
              BY <3>1 DEF Slots
          <3>4. Cardinality(held) = 1
              BY <3>2, FS_Singleton
          <3> QED BY <2>1, <3>3, <3>4
      <2> QED BY <2>3, <2>4
  <1> QED BY <1>1, PipelineInvariant, PTL

(* freeTableSet always finds a set: R + 1 sets, and every reference belongs *)
(* to one of at most R jobs in flight.                                      *)
THEOREM TableSetsAlwaysSuffice == Spec => []TableSetsSuffice
  <1>1. IInv => TableSetsSuffice
      BY FreeSetExists DEF IInv, TableSetsSuffice, References, Holders
  <1> QED BY <1>1, PipelineInvariant, PTL

(* A Close leaves no goroutine behind, whatever it raced: the building of a *)
(* member, a change of worker count, a Reset or another Close (stopWorkers).*)
THEOREM CloseLeavesNoWorkers == Spec => []ClosedLeavesNoWorkers
  <1>1. ASSUME IInv PROVE ClosedLeavesNoWorkers
      <2> USE <1>1 DEF IInv
      <2> SUFFICES ASSUME done = "closed", pc = "idle", \A c \in Closers : cpc[c] = "idle"
                   PROVE  \A g \in Gen : Exited(g)
          BY DEF ClosedLeavesNoWorkers
      <2>1. running = "no"
          BY DEF Closing, Reached, Latched
      <2>2. NoneAlive
          BY <2>1 DEF Generations
      <2>3. \A w \in Worker : worker[w] \in {"none", "exited"}
          BY <2>2 DEF NoneAlive, Alive, TypeOK
      <2> QED BY <2>3 DEF Exited, Worker
  <1> QED BY <1>1, PipelineInvariant, PTL

-----------------------------------------------------------------------------
(* Refinement. What the ring, the table sets, the jobs and the window hold, *)
(* in terms of the blocks the serial decoder would have read.               *)


(* How many blocks are ahead of slot i in the ring; the bytes a job decodes *)
(* and the tables it decodes them with.                                     *)
Rank(i) == IF i >= head THEN i - head ELSE i - head + R
Bytes(i) == IF job[i].lent = "yes" THEN buf ELSE own[i]
Loaded(i) == tables[job[i].tset]

(* The traversal's position agrees with the mode it fills the window in.    *)
(* While a member is being built, the last one has ended or been severed    *)
(* and, once init ran, no block is left in the bit reader.                  *)
Building == pc \in {"set", "engage"} \/ Resizing \/ DrainFor("set")
Modes ==
  /\ engaged = "no" => count = 0
  /\ pc \in {"fill", "ahead", "wait", "replay", "inline"} => engaged = "yes"
  /\ pc = "serial" \/ Resizing => engaged = "no"
  /\ pc \in FillPC \ {"idle"} => verdict = "none"
  /\ Building => brLive = "no"
  /\ pc = "scan" \/ Building => verdict \in {"eof", "severed"}
  /\ Restarting => verdict = "severed"
  /\ pc = "inline" => inline = "yes"
  /\ pc = "replay" => inline = "no"

(* The ring holds the last count blocks read, in order. Only the newest may *)
(* be the member's last or sit in the serial buffer, and it references the  *)
(* tables in force.                                                         *)
Order ==
  /\ count <= read
  /\ count = 0 => oversize = "no"
  /\ pendingErr = "yes" => sawLast = "no"
  /\ \A i \in Slot \ Ring : job[i].lent = "no"
  /\ \A i \in Ring :
       /\ job[i].lent = "yes" <=> Big(job[i].shape)
       /\ Bytes(i) = read - count + 1 + Rank(i)
       /\ Rank(i) < count - 1 => ~Big(job[i].shape) /\ job[i].last = "no"
       /\ Rank(i) = count - 1 =>
            /\ job[i].tset = cur /\ job[i].last = sawLast
            /\ oversize = "yes" <=> Big(job[i].shape)

(* The tables of a block are its own or its predecessor's. *)
Chain ==
  \A p, i \in Ring : Rank(i) = Rank(p) + 1 =>
    Loaded(i) = IF job[i].tabs = "yes" THEN Bytes(i) ELSE Loaded(p)

(* A completed job: what the worker made of the block, from its bytes and   *)
(* its tables, or what submit left in its place.                            *)
Answer(shape) == CASE shape[1] = "fits" -> KindOf(shape)
                   [] shape[1] = "overflow" -> "partial"
                   [] OTHER -> "big"
Complete(i) == tokens[i] = 1 \/ job[i].waited = "yes"
Decoded ==
  \A i \in Ring :
    /\ Big(job[i].shape) => Complete(i)
    /\ Complete(i) =>
         \/ job[i].res = "closed" /\ ~Big(job[i].shape)
         \/ /\ job[i].res = Answer(job[i].shape)
            /\ Big(job[i].shape) \/ (job[i].pay = Bytes(i) /\ job[i].ver = Loaded(i))

(* The replay of the oldest job, and the bit reader that takes it over.     *)
Steady == verdict \in {"none", "cut", "eof"} /\ pc \in FillPC
Replaying ==
  /\ idx > 0 \/ inline = "yes" => count > 0 /\ job[head].waited = "yes"
  /\ count > 0 /\ job[head].waited = "yes" => idx <= Items(job[head].res)
  /\ inline = "yes" => idx = Items(job[head].res) /\ job[head].res \in {"partial", "big", "cut"}
  /\ Steady /\ brLive = "yes" =>
       /\ KindOf(br.shape) = "bad" => br.pos < 2
       /\ engaged = "yes" =>
            /\ inline = "yes" /\ br.pay = Bytes(head) /\ dver = Loaded(head)
            /\ br.shape = job[head].shape /\ br.last = job[head].last
            /\ br.tabs = job[head].tabs
       /\ engaged = "no" => br.pay = read

(* What has reached the window: everything before block n, or n's first s   *)
(* steps; a cut block's last step is the cut.                               *)
Between(n) ==
  /\ out.pay = n /\ out.kind # "bad" /\ out.sym >= Serial!Symbols(out.kind)
Standing(n, shape, last, tabs, v, s) ==
  IF s = 0
  THEN Between(n - 1) /\ out.last = "no" /\ v = IF tabs = "yes" THEN n ELSE out.ver
  ELSE out = [pay |-> n, sym |-> IF KindOf(shape) = "ok" THEN s ELSE 1,
              kind |-> KindOf(shape), last |-> last, tabs |-> tabs, ver |-> v]
InForce == IF engaged = "yes" THEN tables[cur] ELSE dver
Progress ==
  /\ out.pay <= read
  /\ verdict = "eof" => out.ver = InForce
  /\ Steady /\ engaged = "yes" /\ count = 0 =>
       /\ brLive = "no" /\ Between(read) /\ out.last = sawLast
       /\ pendingErr = "no" => tables[cur] = out.ver
  /\ Steady /\ engaged = "yes" /\ count > 0 =>
       Standing(Bytes(head), job[head].shape, job[head].last, job[head].tabs, Loaded(head),
                IF brLive = "yes" THEN br.pos ELSE idx)
  /\ Steady /\ engaged = "no" =>
       IF brLive = "yes" THEN Standing(br.pay, br.shape, br.last, br.tabs, dver, br.pos)
       ELSE Between(read) /\ out.last = "no" /\ dver = out.ver

RInv == Modes /\ Order /\ Chain /\ Decoded /\ Replaying /\ Progress

-----------------------------------------------------------------------------
(* Positions in the ring. *)

LEMMA RankFacts ==
  ASSUME TypeOK
  PROVE  /\ head \in Slot /\ Rank(head) = 0 /\ count \in 0 .. R
         /\ \A i \in Slot : Rank(i) \in 0 .. R - 1
         /\ \A i : i \in Ring <=> i \in Slot /\ Rank(i) < count
         /\ \A i, k \in Slot : Rank(i) = Rank(k) => i = k
  <1>1. head \in Slot /\ count \in 0 .. R
      BY DEF TypeOK
  <1>2. Rank(head) = 0
      BY <1>1 DEF Rank, Slot
  <1>3. \A i \in Slot : Rank(i) \in 0 .. R - 1
      BY <1>1, RSize DEF Rank, Slot
  <1>4. \A i : i \in Ring <=> i \in Slot /\ Rank(i) < count
      <2>1. \A i : i \in Ring <=>
              i \in Slot /\ ((head <= i /\ i < head + count) \/ i + R < head + count)
          BY <1>1, SpanMembers, RingIsSpan
      <2> QED BY <1>1, <2>1, RSize DEF Rank, Slot
  <1>5. \A i, k \in Slot : Rank(i) = Rank(k) => i = k
      BY <1>1, RSize DEF Rank, Slot
  <1> QED BY <1>1, <1>2, <1>3, <1>4, <1>5

LEMMA RankPush ==
  ASSUME TypeOK, count < R
  PROVE  Rank((head + count) % R) = count
  <1>1. head + count \in 0 .. 2 * R - 1 /\ head \in Slot /\ count \in 0 .. R
      BY RSize DEF TypeOK, Slot
  <1>2. (head + count) % R = IF head + count < R THEN head + count ELSE head + count - R
      BY <1>1, Wrap, RSize DEF Slot
  <1> QED BY <1>1, <1>2, RSize DEF Rank, Slot

LEMMA RankPop ==
  ASSUME TypeOK, head' = (head + 1) % R
  PROVE  /\ \A i \in Slot \ {head} : Rank(i)' = Rank(i) - 1
         /\ head' \in Slot /\ Rank(head') = 1
  <1>1. head + 1 \in 0 .. 2 * R - 1 /\ head \in Slot
      BY RSize DEF TypeOK, Slot
  <1>2. head' = IF head + 1 < R THEN head + 1 ELSE head + 1 - R
      BY <1>1, Wrap, RSize DEF Slot
  <1>3. head' \in Slot
      BY <1>1, <1>2, RSize DEF Slot
  <1> QED BY <1>1, <1>2, <1>3, RSize DEF Rank, Slot

(* No job in flight references the table set a load goes to. *)
LEMMA LoadTargetIdle ==
  ASSUME IInv
  PROVE  LoadTarget \in TableSet /\ \A i \in Ring : job[i].tset # LoadTarget
  <1> USE DEF IInv
  <1>1. LoadTarget \in TableSet /\ inUse[LoadTarget] = 0
      BY LoadTargetFree
  <1>2. Cardinality(Holders(LoadTarget)) = 0
      BY <1>1 DEF References
  <1>3. Holders(LoadTarget) = {}
      BY <1>2, HoldersFacts, FS_EmptySet
  <1> QED BY <1>1, <1>3 DEF Holders

-----------------------------------------------------------------------------
(* What each step does to the blocks in flight and their tables. *)

store == <<read, job, own, tokens, head, count, tables, cur, pendingErr, sawLast, oversize, buf>>

Popped == PopStep /\ UNCHANGED <<read, own, tables, cur, pendingErr, sawLast, buf>>
Taken == TakeToken /\ UNCHANGED <<read, own, tables, cur, pendingErr, sawLast, oversize, buf>>
Emptied ==
  /\ count' = 0 /\ read' \in Nat /\ oversize' = "no" /\ \A i \in Slot : job'[i].lent = "no"
  /\ pendingErr' = "yes" => sawLast' = "no"

StoreStep ==
  \/ UNCHANGED store \/ Popped \/ Taken \/ Emptied \/ ReadBlock \/ ReadFails
  \/ \E w \in Worker : WorkerDecodes(w)

(* An empty ring holds no job, lent or not. *)
LEMMA RingEmpty ==
  ASSUME IInv, Order, count = 0
  PROVE  Ring = {} /\ oversize = "no" /\ \A i \in Slot : job[i].lent = "no"
  BY RingFacts DEF IInv, Order

LEMMA StoreBuild ==
  ASSUME IInv, RInv, Build
  PROVE  StoreStep
  <1> USE DEF IInv, StoreStep, store, decoder, ring, control, goroutines, closers
  <1>1. CASE NextEntry
      BY <1>1 DEF NextEntry
  <1>2. CASE BuildChain
      BY <1>2 DEF BuildChain
  <1>3. CASE SetSerial
      BY <1>3 DEF SetSerial
  <1>4. CASE SetSame
      BY <1>4 DEF SetSame
  <1>5. CASE SetNew
      BY <1>5 DEF SetNew
  <1>6. CASE ResizeStop
      BY <1>6 DEF ResizeStop
  <1>7. CASE ResizeWait
      BY <1>7 DEF ResizeWait
  <1>8. CASE ResizePublish
      BY <1>8, PipelineAssumption DEF ResizePublish, FreshRing, Emptied, EmptyJob, TypeOK, Block
  <1>9. CASE Engage
      <2>1. count = 0
          BY <1>9 DEF Engage, Positions
      <2> QED BY <1>9, <2>1, RingEmpty, PipelineAssumption DEF RInv, Engage, Emptied, TypeOK, Block
  <1> QED BY <1>1, <1>2, <1>3, <1>4, <1>5, <1>6, <1>7, <1>8, <1>9 DEF Build

LEMMA StoreDrain ==
  ASSUME IInv, Draining
  PROVE  StoreStep
  <1> USE DEF StoreStep, store, decoder, ring, control, goroutines, closers
  <1>1. CASE UNCHANGED slots
      <2>1. count' = count /\ count \in Nat
          BY <1>1, RSize DEF slots, IInv, TypeOK
      <2>2. ~Pop
          BY <2>1 DEF Pop
      <2> QED BY <1>1, <2>2 DEF slots, Draining, Drain, DrainAbandoned
  <1>2. CASE ~UNCHANGED slots
      <2>1. PopStep
          <3>1. CASE Drain
              BY <1>2, <3>1 DEF Drain, PopStep, slots
          <3>2. CASE DrainAbandoned
              <4>1. count > 0 /\ job[head].waited = "no"
                  BY <3>2 DEF IInv, DrainAbandoned, Positions
              <4>2. NoneAlive
                  BY <3>2, ExitedAll DEF DrainAbandoned, DrainMayRelease
              <4> QED BY <3>2, <4>1, <4>2 DEF DrainAbandoned, PopStep
          <3> QED BY <3>1, <3>2 DEF Draining
      <2> QED BY <2>1 DEF Draining, Drain, DrainAbandoned, Popped
  <1> QED BY <1>1, <1>2

LEMMA StoreFill ==
  ASSUME IInv, Filling
  PROVE  StoreStep
  <1> USE DEF IInv, StoreStep, store, rest, decoder, ring, control, goroutines, closers
  <1>1. CASE Fill
      BY <1>1 DEF Fill
  <1>2. CASE TargetReached
      BY <1>2 DEF TargetReached
  <1>3. CASE FillLoop
      BY <1>3 DEF FillLoop
  <1>4. CASE AheadDone
      BY <1>4 DEF AheadDone
  <1>5. CASE ReadFails
      BY <1>5
  <1>6. CASE ReadBlock
      BY <1>6
  <1>7. CASE Wait
      BY <1>7 DEF Wait, Taken, TakeToken
  <1>8. CASE Replay
      BY <1>8 DEF Replay
  <1>9. CASE Replayed
      BY <1>9 DEF Replayed, Popped, PopStep, Positions
  <1> QED BY <1>1, <1>2, <1>3, <1>4, <1>5, <1>6, <1>7, <1>8, <1>9 DEF Filling

LEMMA StoreInline ==
  ASSUME IInv, RInv, Inlining
  PROVE  StoreStep
  <1> USE DEF IInv, StoreStep, store, rest, decoder, ring, control, goroutines, closers
  <1>1. CASE Adopt
      BY <1>1 DEF Adopt
  <1>2. CASE ReadBlockHeader
      <2>1. count = 0
          BY <1>2 DEF ReadBlockHeader, RInv, Modes
      <2>2. read' \in Nat
          BY <1>2, PipelineAssumption DEF ReadBlockHeader, TypeOK, Block
      <2> QED BY <1>2, <2>1, <2>2, RingEmpty DEF ReadBlockHeader, RInv, Emptied, Order
  <1>3. CASE DecodeSymbol
      BY <1>3 DEF DecodeSymbol
  <1>4. CASE SymbolCut
      BY <1>4 DEF SymbolCut
  <1>5. CASE SymbolBad
      BY <1>5 DEF SymbolBad, Popped, PopStep, Positions
  <1>6. CASE InlineDone
      BY <1>6 DEF InlineDone, Popped, PopStep, Positions
  <1>7. CASE SerialDone
      BY <1>7 DEF SerialDone
  <1> QED BY <1>1, <1>2, <1>3, <1>4, <1>5, <1>6, <1>7 DEF Inlining

LEMMA StoreOthers ==
  ASSUME \/ UNCHANGED vars \/ Reset
         \/ \E w \in Worker : WorkerStep(w)
         \/ \E c \in Closers : CloseBegin(c) \/ CloseStep(c)
  PROVE  StoreStep
  <1> USE DEF StoreStep, store, decoder, ring, control, goroutines, closers
  <1>1. CASE UNCHANGED vars
      BY <1>1 DEF vars
  <1>2. CASE Reset
      BY <1>2 DEF Reset, ResetBegin, ResetLatch, RestartCheck, RestartWait, RestartArm
  <1>3. CASE \E w \in Worker : WorkerStep(w)
      BY <1>3 DEF WorkerStep, WorkerQuits, WorkerTakes
  <1>4. CASE \E c \in Closers : CloseBegin(c) \/ CloseStep(c)
      BY <1>4 DEF CloseBegin, CloseStep, CloseLatch, CloseStop, CloseWait
  <1> QED BY <1>1, <1>2, <1>3, <1>4

LEMMA StoreSteps ==
  ASSUME IInv, RInv, [Next]_vars
  PROVE  StoreStep
  BY StoreBuild, StoreDrain, StoreFill, StoreInline, StoreOthers DEF Next, Traversal

-----------------------------------------------------------------------------
(* The ring stays in reading order and the tables stay chained.             *)

LEMMA JobTypes ==
  ASSUME TypeOK, NEW i \in Slot
  PROVE  /\ job[i] \in Job /\ job[i].shape \in Shape /\ job[i].last \in Flag
         /\ job[i].tabs \in Flag /\ job[i].tset \in TableSet /\ job[i].res \in Result
         /\ job[i].waited \in Flag /\ job[i].lent \in Flag
  <1>1. job[i] \in Job
      BY DEF TypeOK
  <1> QED BY <1>1, JobFields

LEMMA PoppedFacts ==
  ASSUME IInv, Order, Popped
  PROVE  /\ head \in Ring /\ head \in Slot /\ count > 0 /\ count' = count - 1
         /\ Ring' = Ring \ {head} /\ Ring \subseteq Slot
         /\ \A i \in Slot \ {head} :
              /\ job'[i] = job[i] /\ tokens'[i] = tokens[i] /\ Rank(i)' = Rank(i) - 1
              /\ Bytes(i)' = Bytes(i) /\ Loaded(i)' = Loaded(i)
         /\ job'[head].lent = "no"
         /\ head' \in Slot /\ Rank(head') = 1
         /\ oversize' = IF Big(job[head].shape) THEN "no" ELSE oversize
  <1> USE DEF IInv, Popped
  <1>1. /\ head \in Ring /\ Ring' = Ring \ {head} /\ Ring \subseteq Slot /\ head \in Slot
        /\ count > 0 /\ count' = count - 1
        /\ \A i \in Slot \ {head} : job'[i] = job[i] /\ tokens'[i] = tokens[i]
      BY PopFacts, RingFacts DEF PopStep, Pop, TypeOK
  <1>2. head' = (head + 1) % R /\ oversize' = IF Big(job[head].shape) THEN "no" ELSE oversize
      BY DEF PopStep, Pop
  <1>3. /\ \A i \in Slot \ {head} : Rank(i)' = Rank(i) - 1
        /\ head' \in Slot /\ Rank(head') = 1
      BY <1>2, RankPop
  <1>4. \A i \in Slot \ {head} : Bytes(i)' = Bytes(i) /\ Loaded(i)' = Loaded(i)
      BY <1>1 DEF Bytes, Loaded
  <1>5. job'[head].lent = "no"
      <2>1. job'[head] = ClearedJob(head)
          BY <1>1 DEF PopStep, Pop, TypeOK
      <2>2. job[head] \in Job /\ job[head].lent \in Flag
          BY <1>1, JobTypes
      <2>3. job[head].lent = "yes" <=> Big(job[head].shape)
          BY <1>1 DEF Order
      <2>4. ClearedJob(head).lent = IF Big(job[head].shape) THEN "no" ELSE job[head].lent
          BY <2>2 DEF ClearedJob, Job
      <2> QED BY <2>1, <2>2, <2>3, <2>4 DEF Flag
  <1> QED BY <1>1, <1>2, <1>3, <1>4, <1>5

LEMMA OrderPopped ==
  ASSUME IInv, RInv, Popped
  PROVE  Order' /\ Chain' /\ Decoded'
  <1> USE DEF IInv, RInv
  <1>0. UNCHANGED <<read, cur, pendingErr, sawLast>>
      BY DEF Popped
  <1>1. /\ head \in Ring /\ head \in Slot /\ count > 0 /\ count' = count - 1
        /\ Ring' = Ring \ {head} /\ Ring \subseteq Slot
        /\ \A i \in Slot \ {head} :
             /\ job'[i] = job[i] /\ tokens'[i] = tokens[i] /\ Rank(i)' = Rank(i) - 1
             /\ Bytes(i)' = Bytes(i) /\ Loaded(i)' = Loaded(i)
        /\ job'[head].lent = "no"
        /\ oversize' = IF Big(job[head].shape) THEN "no" ELSE oversize
      BY PoppedFacts
  <1>2. read \in Nat /\ count \in Nat /\ \A i \in Slot : Rank(i) \in Int
      BY RankFacts, RSize, PipelineAssumption DEF TypeOK, Block
  <1>3. count = 1 => oversize' = "no"
      <2>1. Rank(head) = 0
          BY RankFacts
      <2>2. count = 1 => (oversize = "yes" <=> Big(job[head].shape))
          BY <1>1, <2>1 DEF Order
      <2> QED BY <1>1, <2>2 DEF TypeOK, Flag
  <1>4. count > 1 => oversize' = oversize
      <2>1. Rank(head) = 0
          BY RankFacts
      <2>2. count > 1 => ~Big(job[head].shape)
          BY <1>1, <1>2, <2>1 DEF Order
      <2> QED BY <1>1, <2>2
  <1>5. \A i \in Ring' : i \in Ring /\ i \in Slot \ {head} /\ Rank(i) < count /\ Rank(i) > 0
      BY <1>1, RankFacts
  <1>6. Order'
      <2>1. count' <= read' /\ (count' = 0 => oversize' = "no")
          BY <1>0, <1>1, <1>2, <1>3 DEF Order
      <2>2. pendingErr' = "yes" => sawLast' = "no"
          BY <1>0 DEF Order
      <2>3. \A i \in Slot \ Ring' : job'[i].lent = "no"
          BY <1>1 DEF Order
      <2>4. ASSUME NEW i \in Ring'
            PROVE  /\ job'[i].lent = "yes" <=> Big(job'[i].shape)
                   /\ Bytes(i)' = read' - count' + 1 + Rank(i)'
                   /\ Rank(i)' < count' - 1 => ~Big(job'[i].shape) /\ job'[i].last = "no"
                   /\ Rank(i)' = count' - 1 =>
                        /\ job'[i].tset = cur' /\ job'[i].last = sawLast'
                        /\ oversize' = "yes" <=> Big(job'[i].shape)
          <3>1. /\ i \in Ring /\ i \in Slot \ {head} /\ Rank(i) < count /\ Rank(i) > 0
                /\ job'[i] = job[i] /\ Rank(i)' = Rank(i) - 1 /\ Bytes(i)' = Bytes(i)
              BY <1>1, <1>5
          <3>2. count > 1 /\ Rank(i) \in Int
              BY <1>2, <3>1
          <3>3. oversize' = oversize
              BY <1>4, <3>2
          <3>4. /\ job[i].lent = "yes" <=> Big(job[i].shape)
                /\ Bytes(i) = read - count + 1 + Rank(i)
                /\ Rank(i) < count - 1 => ~Big(job[i].shape) /\ job[i].last = "no"
                /\ Rank(i) = count - 1 =>
                     /\ job[i].tset = cur /\ job[i].last = sawLast
                     /\ oversize = "yes" <=> Big(job[i].shape)
              BY <3>1 DEF Order
          <3> QED BY <1>0, <1>1, <1>2, <3>1, <3>2, <3>3, <3>4
      <2> QED BY <2>1, <2>2, <2>3, <2>4 DEF Order
  <1>7. Chain'
      BY <1>1, <1>2, <1>5 DEF Chain
  <1>8. Decoded'
      BY <1>1, <1>5 DEF Decoded, Complete
  <1> QED BY <1>6, <1>7, <1>8

LEMMA OrderTaken ==
  ASSUME IInv, RInv, Taken
  PROVE  Order' /\ Chain' /\ Decoded'
  <1> USE DEF IInv, RInv
  <1>0. UNCHANGED <<read, own, tables, cur, pendingErr, sawLast, oversize, buf, head, count>>
      BY DEF Taken, TakeToken
  <1>1. head \in Slot /\ Ring \subseteq Slot /\ Ring' = Ring
      BY <1>0, RingFacts, RankFacts DEF Ring
  <1>2. job' = [job EXCEPT ![head].waited = "yes"] /\ tokens' = [tokens EXCEPT ![head] = 0]
        /\ tokens[head] = 1
      BY DEF Taken, TakeToken
  <1>3. \A i \in Slot : /\ job'[i].lent = job[i].lent /\ job'[i].shape = job[i].shape
                        /\ job'[i].last = job[i].last /\ job'[i].tabs = job[i].tabs
                        /\ job'[i].tset = job[i].tset /\ job'[i].res = job[i].res
                        /\ job'[i].pay = job[i].pay /\ job'[i].ver = job[i].ver
                        /\ Complete(i)' = Complete(i)
      BY <1>1, <1>2 DEF TypeOK, Job, Complete
  <1>4. \A i \in Slot : Rank(i)' = Rank(i) /\ Bytes(i)' = Bytes(i) /\ Loaded(i)' = Loaded(i)
      BY <1>0, <1>3 DEF Rank, Bytes, Loaded
  <1>5. Order'
      BY <1>0, <1>1, <1>3, <1>4 DEF Order
  <1>6. Chain'
      BY <1>1, <1>3, <1>4 DEF Chain
  <1>7. Decoded'
      BY <1>1, <1>3, <1>4 DEF Decoded
  <1> QED BY <1>5, <1>6, <1>7

LEMMA OrderEmptied ==
  ASSUME Emptied
  PROVE  Order' /\ Chain' /\ Decoded'
  <1>1. Ring' = {}
      BY DEF Emptied, Ring
  <1> QED BY <1>1 DEF Emptied, Order, Chain, Decoded

LEMMA OrderSame ==
  ASSUME RInv, UNCHANGED store
  PROVE  Order' /\ Chain' /\ Decoded'
  <1> USE DEF RInv, store
  <1>1. Ring' = Ring /\ \A i : /\ Rank(i)' = Rank(i) /\ Bytes(i)' = Bytes(i)
                               /\ Loaded(i)' = Loaded(i) /\ Complete(i)' = Complete(i)
      BY DEF Ring, Rank, Bytes, Loaded, Complete
  <1> QED BY <1>1 DEF Order, Chain, Decoded

LEMMA OrderReadFails ==
  ASSUME IInv, RInv, ReadFails
  PROVE  /\ Order' /\ Chain' /\ Decoded'
         /\ \A k \in Ring : Bytes(k)' = Bytes(k) /\ Loaded(k)' = Loaded(k)
  <1> USE DEF IInv, RInv
  <1>0. /\ UNCHANGED <<read, job, own, tokens, head, count, cur, sawLast, oversize>>
        /\ pendingErr' = "yes" /\ sawLast = "no" /\ oversize = "no"
      BY DEF ReadFails, CanRead
  <1>1. Ring' = Ring /\ Ring \subseteq Slot
      BY <1>0, RingFacts DEF Ring
  <1>2. \A i \in Slot : Rank(i)' = Rank(i) /\ Complete(i)' = Complete(i)
      BY <1>0 DEF Rank, Complete
  <1>3. \A i \in Ring : ~Big(job[i].shape) /\ job[i].lent = "no"
      <2>1. \A i \in Ring : Rank(i) < count - 1 \/ Rank(i) = count - 1
          BY <1>1, RankFacts, RSize
      <2>2. \A i \in Ring : job[i].lent \in Flag
          BY <1>1, JobTypes
      <2> QED BY <1>0, <2>1, <2>2 DEF Order, Flag
  <1>4. \A i \in Ring : Bytes(i)' = Bytes(i)
      BY <1>0, <1>3 DEF Bytes
  <1>5. \A i \in Ring : Loaded(i)' = Loaded(i)
      <2>1. \A i \in Ring : job[i].tset # LoadTarget /\ job[i].tset \in TableSet
          BY <1>1, LoadTargetIdle, JobTypes
      <2>2. UNCHANGED tables \/ tables' = [tables EXCEPT ![LoadTarget] = 0]
          BY DEF ReadFails
      <2> QED BY <1>0, <2>1, <2>2 DEF Loaded, TypeOK
  <1>6. Order'
      BY <1>0, <1>1, <1>2, <1>4 DEF Order
  <1>7. Chain'
      BY <1>0, <1>1, <1>2, <1>4, <1>5 DEF Chain
  <1>8. Decoded'
      BY <1>0, <1>1, <1>2, <1>4, <1>5 DEF Decoded
  <1> QED BY <1>4, <1>5, <1>6, <1>7, <1>8

(* The worker reads the slot's own bytes and the tables the job references: *)
(* a job in the serial buffer never reaches a worker.                       *)
LEMMA OrderDecodes ==
  ASSUME IInv, RInv, NEW w \in Worker, WorkerDecodes(w)
  PROVE  Order' /\ Chain' /\ Decoded'
  <1> USE DEF IInv, RInv
  <1> DEFINE i == wslot[w]
             j == job[i]
  <1>0. UNCHANGED <<read, own, tables, cur, pendingErr, sawLast, oversize, buf, head, count>>
      BY DEF WorkerDecodes, decoder
  <1>1. /\ worker[w] = "busy" /\ tokens[i] = 0
        /\ job' = [job EXCEPT
                   ![i].res = IF j.shape[1] = "fits" THEN KindOf(j.shape) ELSE "partial",
                   ![i].pay = IF j.lent = "yes" THEN buf ELSE own[i],
                   ![i].ver = tables[j.tset]]
        /\ tokens' = [tokens EXCEPT ![i] = 1]
      BY DEF WorkerDecodes
  <1>2. i \in Ring /\ j.waited = "no" /\ Ring \subseteq Slot /\ Ring' = Ring
      BY <1>0, <1>1, RingFacts DEF Slots, Ring
  <1>3. i \in Slot /\ j \in Job /\ j.shape \in Shape
      BY <1>2, JobTypes
  <1>4. ~Big(j.shape)
      BY <1>1, <1>2 DEF Decoded, Complete
  <1> HIDE DEF i
  <1>5. /\ j.shape[1] \in {"fits", "overflow"}
        /\ Answer(j.shape) = IF j.shape[1] = "fits" THEN KindOf(j.shape) ELSE "partial"
      BY <1>3, <1>4, ShapeKind DEF Big, Answer
  <1>6. /\ \A k \in Slot \ {i} : job'[k] = job[k] /\ tokens'[k] = tokens[k]
        /\ tokens'[i] = 1
        /\ job'[i] = [j EXCEPT !.res = Answer(j.shape), !.pay = Bytes(i), !.ver = Loaded(i)]
      BY <1>1, <1>3, <1>5 DEF TypeOK, Bytes, Loaded
  <1>7. \A k \in Slot : /\ job'[k].lent = job[k].lent /\ job'[k].shape = job[k].shape
                        /\ job'[k].last = job[k].last /\ job'[k].tabs = job[k].tabs
                        /\ job'[k].tset = job[k].tset /\ job'[k].waited = job[k].waited
      <2>1. /\ job'[i].lent = j.lent /\ job'[i].shape = j.shape /\ job'[i].last = j.last
            /\ job'[i].tabs = j.tabs /\ job'[i].tset = j.tset /\ job'[i].waited = j.waited
          BY <1>3, <1>6 DEF Job
      <2> QED BY <1>6, <2>1
  <1>8. \A k \in Slot : Rank(k)' = Rank(k) /\ Bytes(k)' = Bytes(k) /\ Loaded(k)' = Loaded(k)
      BY <1>0, <1>7 DEF Rank, Bytes, Loaded
  <1>9. Order'
      BY <1>0, <1>2, <1>7, <1>8 DEF Order
  <1>10. Chain'
      BY <1>2, <1>7, <1>8 DEF Chain
  <1>11. Decoded'
      <2>1. job'[i].res = Answer(j.shape) /\ job'[i].pay = Bytes(i) /\ job'[i].ver = Loaded(i)
          BY <1>3, <1>6 DEF Job
      <2>2. \A k \in Slot \ {i} : Complete(k)' = Complete(k)
          BY <1>6 DEF Complete
      <2> SUFFICES ASSUME NEW k \in Ring
                   PROVE  /\ Big(job'[k].shape) => Complete(k)'
                          /\ Complete(k)' =>
                               \/ job'[k].res = "closed" /\ ~Big(job'[k].shape)
                               \/ /\ job'[k].res = Answer(job'[k].shape)
                                  /\ \/ Big(job'[k].shape)
                                     \/ job'[k].pay = Bytes(k)' /\ job'[k].ver = Loaded(k)'
          BY <1>2 DEF Decoded
      <2>3. CASE k = i
          BY <1>2, <1>4, <1>7, <1>8, <2>1, <2>3
      <2>4. CASE k # i
          <3>1. k \in Slot \ {i} /\ job'[k] = job[k]
              BY <1>2, <1>6, <2>4
          <3> QED BY <1>8, <2>2, <3>1 DEF Decoded
      <2> QED BY <2>3, <2>4
  <1> QED BY <1>9, <1>10, <1>11

(* The block readAhead puts into the ring. *)
LEMMA PushedFacts ==
  ASSUME IInv, RInv, ReadBlock, NEW i, i = (head + count) % R
  PROVE  /\ i \in Slot /\ i \notin Ring /\ Ring' = Ring \cup {i} /\ Rank(i) = count
         /\ UNCHANGED <<head, pendingErr>> /\ count' = count + 1 /\ read' = read + 1
         /\ pendingErr = "no" /\ sawLast = "no" /\ oversize = "no" /\ count < R
         /\ \A k \in Slot \ {i} : job'[k] = job[k] /\ tokens'[k] = tokens[k]
         /\ cur' \in TableSet
         /\ \E shape \in Shape, last, tabs \in Flag :
              /\ IF tabs = "yes" THEN cur' = LoadTarget /\ tables' = [tables EXCEPT ![cur'] = read']
                 ELSE UNCHANGED <<cur, tables>>
              /\ IF Big(shape) THEN buf' = read' /\ UNCHANGED own
                 ELSE own' = [own EXCEPT ![i] = read'] /\ UNCHANGED buf
              /\ oversize' = (IF Big(shape) THEN "yes" ELSE "no") /\ sawLast' = last
              /\ job'[i].shape = shape /\ job'[i].last = last /\ job'[i].tabs = tabs
              /\ job'[i].tset = cur' /\ job'[i].waited = "no"
              /\ job'[i].lent = IF Big(shape) THEN "yes" ELSE "no"
              /\ Big(shape) => tokens'[i] = 1 /\ job'[i].res = "big"
              /\ ~Big(shape) => tokens'[i] = 0 \/ job'[i].res = "closed"
  <1> USE DEF IInv, RInv
  <1>1. /\ i \in Slot /\ i \notin Ring /\ Ring' = Ring \cup {i} /\ cur' \in TableSet
        /\ \A k \in Slot \ {i} : job'[k] = job[k] /\ tokens'[k] = tokens[k]
      BY PushFacts
  <1>2. /\ UNCHANGED <<head, pendingErr>> /\ count' = count + 1 /\ read' = read + 1
        /\ pendingErr = "no" /\ sawLast = "no" /\ oversize = "no" /\ count < R
      BY DEF ReadBlock, CanRead
  <1>3. Rank(i) = count
      BY <1>2, RankPush
  <1>4. job[i].lent = "no" /\ job[i].waited = "no" /\ tokens[i] = 0
      BY <1>1 DEF Order, Slots
  <1>5. PICK shape \in Shapes, last \in Flag, tabs \in Flag :
          /\ IF tabs = "yes" THEN cur' = LoadTarget /\ tables' = [tables EXCEPT ![cur'] = read']
             ELSE UNCHANGED <<cur, tables>>
          /\ IF Big(shape) \/ job[i].lent = "yes" THEN buf' = read' /\ UNCHANGED own
             ELSE own' = [own EXCEPT ![i] = read'] /\ UNCHANGED buf
          /\ oversize' = (IF Big(shape) THEN "yes" ELSE "no") /\ sawLast' = last
          /\ Submit(i, [shape |-> shape, last |-> last, tabs |-> tabs,
                        tset |-> cur', waited |-> job[i].waited, res |-> job[i].res,
                        lent |-> IF Big(shape) THEN "yes" ELSE job[i].lent,
                        pay |-> job[i].pay, ver |-> job[i].ver])
      BY <1>2 DEF ReadBlock
  <1> DEFINE j == [shape |-> shape, last |-> last, tabs |-> tabs,
                   tset |-> cur', waited |-> job[i].waited, res |-> job[i].res,
                   lent |-> IF Big(shape) THEN "yes" ELSE job[i].lent,
                   pay |-> job[i].pay, ver |-> job[i].ver]
  <1>6. Submit(i, j)
      BY <1>5
  <1>7. /\ j.shape = shape /\ j.last = last /\ j.tabs = tabs /\ j.tset = cur' /\ j.waited = "no"
        /\ j.lent = IF Big(shape) THEN "yes" ELSE "no"
        /\ \A r : /\ [j EXCEPT !.res = r].shape = shape /\ [j EXCEPT !.res = r].last = last
                  /\ [j EXCEPT !.res = r].tabs = tabs /\ [j EXCEPT !.res = r].tset = cur'
                  /\ [j EXCEPT !.res = r].waited = "no" /\ [j EXCEPT !.res = r].res = r
                  /\ [j EXCEPT !.res = r].lent = IF Big(shape) THEN "yes" ELSE "no"
      BY <1>4
  <1> HIDE DEF j
  <1>8. \/ /\ Big(shape) /\ job'[i] = [j EXCEPT !.res = "big"] /\ tokens'[i] = 1
        \/ ~Big(shape) /\ job'[i] = j /\ tokens'[i] = 0
        \/ ~Big(shape) /\ job'[i] = [j EXCEPT !.res = "closed"]
      BY <1>1, <1>4, <1>6, <1>7 DEF Submit, TypeOK
  <1>9. /\ job'[i].shape = shape /\ job'[i].last = last /\ job'[i].tabs = tabs
        /\ job'[i].tset = cur' /\ job'[i].waited = "no"
        /\ job'[i].lent = IF Big(shape) THEN "yes" ELSE "no"
        /\ Big(shape) => tokens'[i] = 1 /\ job'[i].res = "big"
        /\ ~Big(shape) => tokens'[i] = 0 \/ job'[i].res = "closed"
      <2>1. CASE Big(shape) /\ job'[i] = [j EXCEPT !.res = "big"] /\ tokens'[i] = 1
          BY <1>7, <2>1
      <2>2. CASE ~Big(shape) /\ job'[i] = j /\ tokens'[i] = 0
          BY <1>7, <2>2
      <2>3. CASE ~Big(shape) /\ job'[i] = [j EXCEPT !.res = "closed"]
          BY <1>7, <2>3
      <2> QED BY <1>8, <2>1, <2>2, <2>3
  <1>10. shape \in Shape
      BY PipelineAssumption
  <1>11. IF Big(shape) THEN buf' = read' /\ UNCHANGED own
         ELSE own' = [own EXCEPT ![i] = read'] /\ UNCHANGED buf
      BY <1>4, <1>5
  <1>12. /\ IF tabs = "yes" THEN cur' = LoadTarget /\ tables' = [tables EXCEPT ![cur'] = read']
            ELSE UNCHANGED <<cur, tables>>
         /\ oversize' = (IF Big(shape) THEN "yes" ELSE "no") /\ sawLast' = last
      BY <1>5
  <1>13. \E s \in Shape, l, t \in Flag :
           /\ IF t = "yes" THEN cur' = LoadTarget /\ tables' = [tables EXCEPT ![cur'] = read']
              ELSE UNCHANGED <<cur, tables>>
           /\ IF Big(s) THEN buf' = read' /\ UNCHANGED own
              ELSE own' = [own EXCEPT ![i] = read'] /\ UNCHANGED buf
           /\ oversize' = (IF Big(s) THEN "yes" ELSE "no") /\ sawLast' = l
           /\ job'[i].shape = s /\ job'[i].last = l /\ job'[i].tabs = t
           /\ job'[i].tset = cur' /\ job'[i].waited = "no"
           /\ job'[i].lent = IF Big(s) THEN "yes" ELSE "no"
           /\ Big(s) => tokens'[i] = 1 /\ job'[i].res = "big"
           /\ ~Big(s) => tokens'[i] = 0 \/ job'[i].res = "closed"
      BY <1>9, <1>10, <1>11, <1>12
  <1> QED BY <1>1, <1>2, <1>3, <1>13

LEMMA OrderPushed ==
  ASSUME IInv, RInv, ReadBlock
  PROVE  /\ Order' /\ Chain' /\ Decoded'
         /\ \A k \in Ring : Bytes(k)' = Bytes(k) /\ Loaded(k)' = Loaded(k)
  <1> USE DEF IInv, RInv
  <1> PICK i : i = (head + count) % R
      OBVIOUS
  <1>0. /\ i \in Slot /\ i \notin Ring /\ Ring' = Ring \cup {i} /\ Rank(i) = count
        /\ UNCHANGED <<head, pendingErr>> /\ count' = count + 1 /\ read' = read + 1
        /\ pendingErr = "no" /\ sawLast = "no" /\ oversize = "no" /\ count < R
        /\ \A k \in Slot \ {i} : job'[k] = job[k] /\ tokens'[k] = tokens[k]
        /\ cur' \in TableSet
      BY PushedFacts
  <1>1. PICK shape \in Shape, last \in Flag, tabs \in Flag :
          /\ IF tabs = "yes" THEN cur' = LoadTarget /\ tables' = [tables EXCEPT ![cur'] = read']
             ELSE UNCHANGED <<cur, tables>>
          /\ IF Big(shape) THEN buf' = read' /\ UNCHANGED own
             ELSE own' = [own EXCEPT ![i] = read'] /\ UNCHANGED buf
          /\ oversize' = (IF Big(shape) THEN "yes" ELSE "no") /\ sawLast' = last
          /\ job'[i].shape = shape /\ job'[i].last = last /\ job'[i].tabs = tabs
          /\ job'[i].tset = cur' /\ job'[i].waited = "no"
          /\ job'[i].lent = IF Big(shape) THEN "yes" ELSE "no"
          /\ Big(shape) => tokens'[i] = 1 /\ job'[i].res = "big"
          /\ ~Big(shape) => tokens'[i] = 0 \/ job'[i].res = "closed"
      BY PushedFacts
  <1>2. /\ Ring \subseteq Slot /\ read \in Nat /\ count \in Nat
        /\ \A k \in Slot : Rank(k) \in Int /\ Rank(k)' = Rank(k)
        /\ \A k \in Ring : Rank(k) < count
      <2>1. TypeOK
          OBVIOUS
      <2>2. \A k \in Slot : Rank(k) \in 0 .. R - 1
          BY <2>1, RankFacts
      <2>3. \A k : k \in Ring <=> k \in Slot /\ Rank(k) < count
          BY <2>1, RankFacts
      <2>4. read \in Nat /\ count \in Nat
          <3>1. read \in 0 .. Blocks /\ count \in 0 .. R
              BY <2>1, RankFacts DEF TypeOK, Block
          <3> QED BY <3>1, RSize, PipelineAssumption
      <2>5. \A k \in Slot : Rank(k) \in Int
          BY <2>2, RSize
      <2>6. \A k \in Slot : Rank(k)' = Rank(k)
          BY <1>0 DEF Rank
      <2> QED BY <2>3, <2>4, <2>5, <2>6
  <1>3. \A k \in Ring : ~Big(job[k].shape) /\ job[k].lent = "no" /\ job[k].last = "no"
      <2>1. \A k \in Ring : Rank(k) < count - 1 \/ Rank(k) = count - 1
          BY <1>2
      <2>2. \A k \in Ring : job[k].lent \in Flag
          BY <1>2, JobTypes
      <2> QED BY <1>0, <2>1, <2>2 DEF Order, Flag
  <1>4. \A k \in Ring : Bytes(k)' = Bytes(k)
      BY <1>0, <1>1, <1>2, <1>3 DEF Bytes, TypeOK
  <1>5. \A k \in Ring : Loaded(k)' = Loaded(k)
      <2>1. \A k \in Ring : job[k].tset # LoadTarget /\ job[k].tset \in TableSet
          BY <1>2, LoadTargetIdle, JobTypes
      <2>2. \A t \in TableSet : t # LoadTarget => tables'[t] = tables[t]
          BY <1>1 DEF TypeOK
      <2>3. \A k \in Ring : job'[k] = job[k]
          BY <1>0, <1>2
      <2> QED BY <2>1, <2>2, <2>3 DEF Loaded
  <1>6. Bytes(i)' = read'
      BY <1>0, <1>1 DEF Bytes, TypeOK
  <1>7. tabs = "yes" => Loaded(i)' = read'
      BY <1>0, <1>1 DEF Loaded, TypeOK
  <1>8. tabs = "no" => Loaded(i)' = tables[cur] /\ cur' = cur
      BY <1>0, <1>1 DEF Loaded
  <1>9. Order'
      <2>1. count' <= read' /\ ~(count' = 0)
          BY <1>0, <1>2 DEF Order
      <2>2. pendingErr' # "yes"
          BY <1>0
      <2>3. \A k \in Slot \ Ring' : job'[k].lent = "no"
          BY <1>0 DEF Order
      <2>4. ASSUME NEW k \in Ring'
            PROVE  /\ job'[k].lent = "yes" <=> Big(job'[k].shape)
                   /\ Bytes(k)' = read' - count' + 1 + Rank(k)'
                   /\ Rank(k)' < count' - 1 => ~Big(job'[k].shape) /\ job'[k].last = "no"
                   /\ Rank(k)' = count' - 1 =>
                        /\ job'[k].tset = cur' /\ job'[k].last = sawLast'
                        /\ oversize' = "yes" <=> Big(job'[k].shape)
          <3>1. CASE k = i
              <4>1. Rank(k)' = count' - 1 /\ ~(Rank(k)' < count' - 1)
                  BY <1>0, <1>2, <3>1
              <4>2. Bytes(k)' = read' - count' + 1 + Rank(k)'
                  BY <1>0, <1>2, <1>6, <3>1
              <4> QED BY <1>1, <3>1, <4>1, <4>2
          <3>2. CASE k # i
              <4>1. k \in Ring /\ k \in Slot \ {i} /\ job'[k] = job[k] /\ Rank(k) < count
                    /\ Rank(k)' = Rank(k) /\ Bytes(k)' = Bytes(k) /\ Rank(k) \in Int
                  BY <1>0, <1>2, <1>4, <3>2
              <4>2. Bytes(k) = read - count + 1 + Rank(k)
                  BY <4>1 DEF Order
              <4>3. job[k].lent = "yes" <=> Big(job[k].shape)
                  BY <4>1 DEF Order
              <4>4. Rank(k)' # count' - 1
                  BY <1>0, <1>2, <4>1
              <4>5. Bytes(k)' = read' - count' + 1 + Rank(k)'
                  BY <1>0, <1>2, <4>1, <4>2
              <4> QED BY <1>3, <4>1, <4>3, <4>4, <4>5
          <3> QED BY <3>1, <3>2
      <2> QED BY <2>1, <2>2, <2>3, <2>4 DEF Order
  <1>10. Chain'
      <2> SUFFICES ASSUME NEW p \in Ring', NEW k \in Ring', Rank(k)' = Rank(p)' + 1
                   PROVE  Loaded(k)' = IF job'[k].tabs = "yes" THEN Bytes(k)' ELSE Loaded(p)'
          BY DEF Chain
      <2>1. p # i
          BY <1>0, <1>2
      <2>2. p \in Ring /\ p \in Slot
          BY <1>0, <1>2, <2>1
      <2>3. CASE k = i
          <3>1. Rank(p) = count - 1
              BY <1>0, <1>2, <2>2, <2>3
          <3>2. job[p].tset = cur
              BY <2>2, <3>1 DEF Order
          <3>3. Loaded(p) = tables[cur]
              BY <3>2 DEF Loaded
          <3> QED BY <1>1, <1>5, <1>6, <1>7, <1>8, <2>2, <2>3, <3>3 DEF Flag
      <2>4. CASE k # i
          <3>1. k \in Ring /\ k \in Slot \ {i} /\ job'[k] = job[k] /\ Rank(k) = Rank(p) + 1
              BY <1>0, <1>2, <2>2, <2>4
          <3>2. Loaded(k) = IF job[k].tabs = "yes" THEN Bytes(k) ELSE Loaded(p)
              BY <2>2, <3>1 DEF Chain
          <3> QED BY <1>4, <1>5, <2>2, <3>1, <3>2
      <2> QED BY <2>3, <2>4
  <1>11. Decoded'
      <2> SUFFICES ASSUME NEW k \in Ring'
                   PROVE  /\ Big(job'[k].shape) => Complete(k)'
                          /\ Complete(k)' =>
                               \/ job'[k].res = "closed" /\ ~Big(job'[k].shape)
                               \/ /\ job'[k].res = Answer(job'[k].shape)
                                  /\ \/ Big(job'[k].shape)
                                     \/ job'[k].pay = Bytes(k)' /\ job'[k].ver = Loaded(k)'
          BY DEF Decoded
      <2>1. CASE k = i
          <3>1. CASE Big(shape)
              <4>1. Answer(shape) = "big"
                  BY <3>1 DEF Big, Answer
              <4> QED BY <1>1, <2>1, <3>1, <4>1 DEF Complete
          <3>2. CASE ~Big(shape)
              BY <1>1, <2>1, <3>2 DEF Complete
          <3> QED BY <3>1, <3>2
      <2>2. CASE k # i
          <3>1. k \in Ring /\ k \in Slot \ {i} /\ job'[k] = job[k] /\ tokens'[k] = tokens[k]
              BY <1>0, <1>2, <2>2
          <3> QED BY <1>4, <1>5, <3>1 DEF Decoded, Complete
      <2> QED BY <2>1, <2>2
  <1> QED BY <1>4, <1>5, <1>9, <1>10, <1>11

LEMMA OrderStep ==
  ASSUME IInv, RInv, [Next]_vars
  PROVE  Order' /\ Chain' /\ Decoded'
  BY StoreSteps, OrderSame, OrderPopped, OrderTaken, OrderEmptied, OrderPushed, OrderReadFails,
     OrderDecodes DEF StoreStep

-----------------------------------------------------------------------------
(* Where the traversal stands, and in which mode. *)

LEMMA ModesBuild ==
  ASSUME IInv, RInv, Build
  PROVE  Modes'
  <1> USE DEF IInv, TypeOK, RInv, Modes, Building, Positions, Resizing, Restarting, DrainFor, FillPC,
              Flag, rest, decoder, ring, control, goroutines, closers
  <1>1. CASE NextEntry
      BY <1>1 DEF NextEntry
  <1>2. CASE BuildChain
      BY <1>2 DEF BuildChain
  <1>3. CASE SetSerial
      BY <1>3 DEF SetSerial, BeginMember
  <1>4. CASE SetSame
      BY <1>4 DEF SetSame
  <1>5. CASE SetNew
      BY <1>5 DEF SetNew
  <1>6. CASE ResizeStop
      BY <1>6 DEF ResizeStop
  <1>7. CASE ResizeWait
      BY <1>7 DEF ResizeWait
  <1>8. CASE ResizePublish
      BY <1>8 DEF ResizePublish, FreshRing
  <1>9. CASE Engage
      BY <1>9 DEF Engage, BeginMember
  <1> QED BY <1>1, <1>2, <1>3, <1>4, <1>5, <1>6, <1>7, <1>8, <1>9 DEF Build

LEMMA ModesDrain ==
  ASSUME IInv, RInv, Draining
  PROVE  Modes'
  <1>1. /\ UNCHANGED <<verdict, brLive, engaged, ret>>
        /\ pc \in {"drain", "drainWait"} /\ ret \in {"set", "rArm"}
        /\ pc' \in {"drain", "drainWait", ret}
      BY DEF IInv, TypeOK, Draining, Drain, DrainAbandoned, decoder, control
  <1>2. count = 0 => count' = 0
      BY DEF IInv, Positions, Draining, Drain, DrainAbandoned
  <1> QED BY <1>1, <1>2 DEF RInv, Modes, Building, Resizing, Restarting, DrainFor, FillPC

LEMMA ModesFill ==
  ASSUME IInv, RInv, Filling
  PROVE  Modes'
  <1> USE DEF IInv, TypeOK, RInv, Modes, Building, Positions, Resizing, Restarting, DrainFor, FillPC,
              Flag, rest, decoder, ring, control, goroutines, closers
  <1>1. CASE Fill
      BY <1>1 DEF Fill
  <1>2. CASE TargetReached
      BY <1>2 DEF TargetReached
  <1>3. CASE FillLoop
      BY <1>3 DEF FillLoop
  <1>4. CASE AheadDone
      BY <1>4 DEF AheadDone
  <1>5. CASE ReadFails
      BY <1>5 DEF ReadFails
  <1>6. CASE ReadBlock
      BY <1>6 DEF ReadBlock
  <1>7. CASE Wait
      BY <1>7 DEF Wait
  <1>8. CASE Replay
      BY <1>8 DEF Replay
  <1>9. CASE Replayed
      BY <1>9 DEF Replayed, AfterPop, Pop
  <1> QED BY <1>1, <1>2, <1>3, <1>4, <1>5, <1>6, <1>7, <1>8, <1>9 DEF Filling

LEMMA ModesInline ==
  ASSUME IInv, RInv, Inlining
  PROVE  Modes'
  <1> USE DEF IInv, TypeOK, RInv, Modes, Building, Positions, Resizing, Restarting, DrainFor, FillPC,
              Flag, rest, decoder, ring, control, goroutines, closers
  <1>1. CASE Adopt
      BY <1>1 DEF Adopt
  <1>2. CASE ReadBlockHeader
      BY <1>2 DEF ReadBlockHeader
  <1>3. CASE DecodeSymbol
      BY <1>3 DEF DecodeSymbol
  <1>4. CASE SymbolCut
      BY <1>4 DEF SymbolCut
  <1>5. CASE SymbolBad
      BY <1>5 DEF SymbolBad
  <1>6. CASE InlineDone
      BY <1>6 DEF InlineDone, AfterPop
  <1>7. CASE SerialDone
      BY <1>7 DEF SerialDone
  <1> QED BY <1>1, <1>2, <1>3, <1>4, <1>5, <1>6, <1>7 DEF Inlining

LEMMA ModesReset ==
  ASSUME IInv, RInv, Reset
  PROVE  Modes'
  <1> USE DEF IInv, TypeOK, RInv, Modes, Building, Resizing, Restarting, DrainFor, FillPC,
              decoder, ring, control, goroutines, closers
  <1>1. CASE ResetBegin
      BY <1>1 DEF ResetBegin
  <1>2. CASE ResetLatch
      BY <1>2 DEF ResetLatch
  <1>3. CASE RestartCheck
      BY <1>3 DEF RestartCheck
  <1>4. CASE RestartWait
      BY <1>4 DEF RestartWait
  <1>5. CASE RestartArm
      BY <1>5 DEF RestartArm
  <1> QED BY <1>1, <1>2, <1>3, <1>4, <1>5 DEF Reset

(* A worker or a Close leaves the traversal's own state alone. *)
traversal == <<pc, ret, engaged, head, count, idx, inline, verdict, out, br, brLive, dver, buf, read,
               own, tables, cur, pendingErr, sawLast, oversize>>

LEMMA OthersFrame ==
  ASSUME \/ UNCHANGED vars
         \/ \E w \in Worker : WorkerStep(w)
         \/ \E c \in Closers : CloseBegin(c) \/ CloseStep(c)
  PROVE  UNCHANGED traversal /\ (UNCHANGED job \/ \E w \in Worker : WorkerDecodes(w))
  <1> USE DEF traversal, decoder, ring, control, goroutines, closers
  <1>1. CASE UNCHANGED vars
      BY <1>1 DEF vars
  <1>2. CASE \E w \in Worker : WorkerStep(w)
      BY <1>2 DEF WorkerStep, WorkerQuits, WorkerTakes, WorkerDecodes
  <1>3. CASE \E c \in Closers : CloseBegin(c) \/ CloseStep(c)
      BY <1>3 DEF CloseBegin, CloseStep, CloseLatch, CloseStop, CloseWait
  <1> QED BY <1>1, <1>2, <1>3

LEMMA ModesStep ==
  ASSUME IInv, RInv, [Next]_vars
  PROVE  Modes'
  <1>1. CASE UNCHANGED traversal
      BY <1>1 DEF RInv, Modes, Building, Resizing, Restarting, DrainFor, traversal
  <1> QED BY <1>1, OthersFrame, ModesBuild, ModesDrain, ModesFill, ModesInline, ModesReset
          DEF Next, Traversal

-----------------------------------------------------------------------------
(* What reaches the window: every step of the pipeline is a step of the     *)
(* serial decoder or leaves its state alone.                                *)

Simulates == [Serial!SNext]_<<out, verdict>>

LEMMA InvariantStep ==
  ASSUME IInv, [Next]_vars
  PROVE  IInv'
  BY TypeStep, ControlStep, SlotsStep, PositionsStep DEF IInv

LEMMA OutTypes ==
  ASSUME TypeOK
  PROVE  /\ out \in [pay: Block, sym: 0 .. 2, kind: {"ok", "cut", "bad"}, last: Flag,
                     tabs: Flag, ver: Block]
         /\ read \in Nat /\ read <= Blocks /\ Blocks \in Nat
         /\ out.pay \in Nat /\ out.sym \in 0 .. 2 /\ out.kind \in {"ok", "cut", "bad"}
  BY PipelineAssumption DEF TypeOK, Block

(* The oldest block in flight. *)
LEMMA HeadFacts ==
  ASSUME IInv, RInv, count > 0
  PROVE  /\ head \in Ring /\ head \in Slot /\ Rank(head) = 0
         /\ Bytes(head) = read - count + 1 /\ Bytes(head) \in Nat
         /\ Bytes(head) >= 1 /\ Bytes(head) <= read
         /\ job[head].last = "yes" => count = 1
         /\ count = 1 => /\ Bytes(head) = read /\ job[head].last = sawLast
                         /\ Loaded(head) = tables[cur]
  <1> USE DEF IInv, RInv
  <1>1. head \in Slot /\ head \in Ring /\ Rank(head) = 0
      BY RankFacts
  <1>2. count \in Nat /\ read \in Nat /\ count <= read
      BY RankFacts, RSize, OutTypes DEF Order
  <1>3. Bytes(head) = read - count + 1
      BY <1>1, <1>2 DEF Order
  <1>4. job[head].last = "yes" => count = 1
      BY <1>1, <1>2 DEF Order
  <1>5. count = 1 => job[head].last = sawLast /\ Loaded(head) = tables[cur]
      BY <1>1, <1>2 DEF Order, Loaded
  <1> QED BY <1>1, <1>2, <1>3, <1>4, <1>5

(* What a completed job holds. *)
LEMMA HeadDecoded ==
  ASSUME IInv, RInv, count > 0, job[head].waited = "yes"
  PROVE  LET j == job[head]
         IN  /\ j.shape \in Shape /\ KindOf(j.shape) \in {"ok", "cut", "bad"}
             /\ Items(j.res) \in 0 .. 2
             /\ j.res \in {"ok", "partial", "cut", "bad", "big", "closed"}
             /\ j.res \in {"ok", "cut", "bad"} => KindOf(j.shape) = j.res
             /\ j.res \in {"ok", "partial", "cut", "bad"} =>
                  j.pay = Bytes(head) /\ j.ver = Loaded(head)
             /\ Items(j.res) = CASE j.res = "ok" -> 2
                                 [] j.res \in {"partial", "cut", "bad"} -> 1
                                 [] OTHER -> 0
  <1> USE DEF IInv, RInv
  <1> DEFINE j == job[head]
  <1>1. head \in Ring /\ head \in Slot
      BY HeadFacts
  <1>2. /\ j.shape \in Shape /\ j.res \in Result
        /\ KindOf(j.shape) \in {"ok", "cut", "bad"} /\ j.shape[1] \in {"fits", "overflow", "big"}
      BY <1>1, JobTypes, ShapeKind
  <1>3. \/ j.res = "closed" /\ ~Big(j.shape)
        \/ /\ j.res = Answer(j.shape)
           /\ Big(j.shape) \/ (j.pay = Bytes(head) /\ j.ver = Loaded(head))
      BY <1>1 DEF Decoded, Complete
  <1>4. /\ Big(j.shape) <=> j.shape[1] = "big"
        /\ j.shape[1] = "fits" => Answer(j.shape) = KindOf(j.shape)
        /\ j.shape[1] = "overflow" => Answer(j.shape) = "partial"
        /\ j.shape[1] = "big" => Answer(j.shape) = "big"
      BY DEF Big, Answer
  <1>5. Items(j.res) \in 0 .. 2
      BY <1>2, ItemsRange
  <1> HIDE DEF j
  <1>6. /\ j.res \in {"ok", "partial", "cut", "bad", "big", "closed"}
        /\ j.res \in {"ok", "cut", "bad"} => KindOf(j.shape) = j.res
        /\ j.res \in {"ok", "partial", "cut", "bad"} => j.pay = Bytes(head) /\ j.ver = Loaded(head)
      BY <1>2, <1>3, <1>4
  <1> QED BY <1>2, <1>5, <1>6 DEF j, Items

(* Steps that stop filling: what the window got is not looked at again      *)
(* before a new member starts, except through the tables left in force.     *)
LEMMA Stopped ==
  ASSUME IInv, IInv', RInv, ~Steady', UNCHANGED out, read' = read,
         \/ UNCHANGED <<job, head, count, idx, inline>>
         \/ idx' = 0 /\ inline' = "no",
         verdict' = "eof" => out.ver = InForce'
  PROVE  Replaying' /\ Progress'
  <1>1. Progress'
      BY DEF RInv, Progress
  <1>2. CASE UNCHANGED <<job, head, count, idx, inline>>
      BY <1>1, <1>2 DEF RInv, Replaying
  <1>3. CASE idx' = 0 /\ inline' = "no"
      <2>1. count' > 0 => Items(job'[head'].res) \in 0 .. 2
          <3>1. count' > 0 => head' \in Slot /\ job'[head'] \in Job
              BY DEF IInv, TypeOK
          <3> QED BY <3>1, ItemsRange, JobFields
      <2> QED BY <1>1, <1>3, <2>1 DEF Replaying
  <1> QED BY <1>2, <1>3

LEMMA SeverStep ==
  ASSUME UNCHANGED out, verdict' \in {verdict, "severed"}
  PROVE  Simulates
  BY DEF Simulates, Serial!SNext, Serial!SSever

LEMMA ProgressBuild ==
  ASSUME IInv, IInv', RInv, Build
  PROVE  Replaying' /\ Progress' /\ Simulates
  <1> USE DEF decoder, ring, control, goroutines, closers, FillPC, Steady
  <1>1. CASE NextEntry
      <2>1. /\ UNCHANGED <<out, read, job, head, count, idx, inline, engaged, tables, cur, dver>>
            /\ pc' = "scan" /\ verdict' \in {verdict, "severed"}
          BY <1>1 DEF NextEntry
      <2>2. verdict' = "eof" => out.ver = InForce'
          BY <2>1 DEF RInv, Progress, InForce
      <2> QED BY <2>1, <2>2, Stopped, SeverStep
  <1>2. CASE BuildChain \/ SetSame \/ ResizeStop \/ ResizeWait
      <2>1. /\ UNCHANGED <<out, verdict, read, job, head, count, idx, inline, engaged, tables, cur,
                           dver>>
            /\ pc' \notin FillPC
          BY <1>2 DEF BuildChain, SetSame, ResizeStop, ResizeWait, IInv, TypeOK
      <2>2. verdict' = "eof" => out.ver = InForce'
          BY <2>1 DEF RInv, Progress, InForce
      <2> QED BY <2>1, <2>2, Stopped, SeverStep
  <1>3. CASE SetNew
      <2>1. /\ UNCHANGED <<out, verdict, read, job, head, count, idx, inline, tables, cur>>
            /\ pc' \notin FillPC /\ engaged' = "no"
            /\ dver' = IF engaged = "yes" THEN tables[cur] ELSE dver
          BY <1>3 DEF SetNew
      <2>2. verdict' = "eof" => out.ver = InForce'
          BY <2>1 DEF RInv, Progress, InForce
      <2> QED BY <2>1, <2>2, Stopped, SeverStep
  <1>4. CASE ResizePublish
      <2>1. /\ UNCHANGED <<out, verdict, read, engaged, dver>> /\ idx' = 0 /\ inline' = "no"
            /\ pc' \notin FillPC
          BY <1>4 DEF ResizePublish, FreshRing
      <2>2. engaged = "no"
          BY <1>4 DEF ResizePublish, Resizing, RInv, Modes
      <2>3. verdict' = "eof" => out.ver = InForce'
          BY <2>1, <2>2 DEF RInv, Progress, InForce
      <2> QED BY <2>1, <2>3, Stopped, SeverStep
  <1>5. CASE SetSerial
      <2>1. /\ count = 0 /\ brLive = "no" /\ verdict \in {"eof", "severed"} /\ engaged' = "no"
            /\ UNCHANGED <<read, job, head, count, idx, inline, brLive>>
            /\ dver' = InForce /\ BeginMember(dver')
          BY <1>5 DEF SetSerial, IInv, Positions, RInv, Modes, Building, InForce
      <2>2. /\ verdict' = "none"
            /\ out' = [pay |-> read, sym |-> 2, kind |-> "ok", last |-> "no", tabs |-> "no",
                       ver |-> dver']
          BY <2>1 DEF BeginMember
      <2>3. Replaying'
          BY <2>1 DEF RInv, Replaying
      <2>4. Progress'
          <3>1. out'.pay = read' /\ out'.last = "no" /\ out'.kind = "ok" /\ out'.sym = 2
                /\ out'.ver = dver'
              BY <2>1, <2>2
          <3>2. Serial!Symbols("ok") = 2
              BY DEF Serial!Symbols
          <3>3. read \in Nat
              BY OutTypes DEF IInv
          <3> QED BY <2>1, <2>2, <3>1, <3>2, <3>3 DEF Progress, Between
      <2>5. Simulates
          <3>1. read \in out.pay .. Blocks /\ dver' \in 0 .. Blocks
              BY OutTypes DEF IInv, RInv, Progress, TypeOK, Block
          <3>2. verdict = "eof" => dver' = out.ver
              BY <2>1 DEF RInv, Progress
          <3> QED BY <2>2, <3>1, <3>2 DEF Simulates, Serial!SNext, Serial!SStart
      <2> QED BY <2>3, <2>4, <2>5
  <1>6. CASE Engage
      <2>1. /\ brLive = "no" /\ verdict \in {"eof", "severed"} /\ engaged' = "yes"
            /\ count' = 0 /\ idx' = 0 /\ inline' = "no" /\ sawLast' = "no"
            /\ UNCHANGED <<read, brLive>> /\ BeginMember(tables'[cur'])
          BY <1>6 DEF Engage, RInv, Modes, Building
      <2>2. /\ verdict' = "none"
            /\ out' = [pay |-> read, sym |-> 2, kind |-> "ok", last |-> "no", tabs |-> "no",
                       ver |-> tables'[cur']]
          BY <2>1 DEF BeginMember
      <2>3. Replaying'
          BY <2>1 DEF Replaying
      <2>4. Progress'
          <3>1. out'.pay = read' /\ out'.last = "no" /\ out'.kind = "ok" /\ out'.sym = 2
                /\ out'.ver = tables'[cur']
              BY <2>1, <2>2
          <3>2. Serial!Symbols("ok") = 2
              BY DEF Serial!Symbols
          <3>3. read \in Nat
              BY OutTypes DEF IInv
          <3> QED BY <2>1, <2>2, <3>1, <3>2, <3>3 DEF Progress, Between
      <2>5. Simulates
          <3>1. read \in out.pay .. Blocks /\ tables'[cur'] \in 0 .. Blocks
              BY OutTypes DEF IInv, RInv, Progress, TypeOK, Block
          <3>2. tables'[cur'] = InForce
              <4>1. CASE engaged = "yes"
                  BY <1>6, <4>1 DEF Engage, SeedsFromSerial, InForce
              <4>2. CASE engaged # "yes"
                  <5>1. cur' \in TableSet /\ tables' = [tables EXCEPT ![cur'] = dver]
                      BY <1>6, <4>2 DEF Engage, SeedsFromSerial, IInv, TypeOK
                  <5> QED BY <4>2, <5>1 DEF InForce, IInv, TypeOK
              <4> QED BY <4>1, <4>2
          <3>3. verdict = "eof" => tables'[cur'] = out.ver
              BY <3>2 DEF RInv, Progress
          <3> QED BY <2>2, <3>1, <3>3 DEF Simulates, Serial!SNext, Serial!SStart
      <2> QED BY <2>3, <2>4, <2>5
  <1> QED BY <1>1, <1>2, <1>3, <1>4, <1>5, <1>6 DEF Build

LEMMA ProgressDrain ==
  ASSUME IInv, IInv', RInv, Draining
  PROVE  Replaying' /\ Progress' /\ Simulates
  <1>1. /\ UNCHANGED <<out, verdict, read, engaged, tables, cur, dver>>
        /\ pc' \in {"drain", "drainWait", "set", "rArm"}
        /\ UNCHANGED <<job, head, count, idx, inline>> \/ (idx' = 0 /\ inline' = "no")
      BY DEF IInv, TypeOK, Draining, Drain, DrainAbandoned, Pop, decoder, control
  <1>2. ~Steady'
      BY <1>1 DEF Steady, FillPC
  <1>3. verdict' = "eof" => out.ver = InForce'
      BY <1>1 DEF RInv, Progress, InForce
  <1> QED BY <1>1, <1>2, <1>3, Stopped, SeverStep

LEMMA ProgressReset ==
  ASSUME IInv, IInv', RInv, Reset
  PROVE  Replaying' /\ Progress' /\ Simulates
  <1>1. /\ UNCHANGED <<out, read, job, head, count, idx, inline>> /\ verdict' = "severed"
      BY DEF Reset, ResetBegin, ResetLatch, RestartCheck, RestartWait, RestartArm, Restarting,
             RInv, Modes, ring
  <1> QED BY <1>1, Stopped, SeverStep DEF Steady

LEMMA ProgressOthers ==
  ASSUME IInv, RInv,
         \/ UNCHANGED vars
         \/ \E w \in Worker : WorkerStep(w)
         \/ \E c \in Closers : CloseBegin(c) \/ CloseStep(c)
  PROVE  Replaying' /\ Progress' /\ Simulates
  <1>1. UNCHANGED traversal /\ (UNCHANGED job \/ \E w \in Worker : WorkerDecodes(w))
      BY OthersFrame
  <1> USE DEF traversal
  <1>2. /\ \A k \in Slot : /\ job'[k].lent = job[k].lent /\ job'[k].shape = job[k].shape
                           /\ job'[k].last = job[k].last /\ job'[k].tabs = job[k].tabs
                           /\ job'[k].tset = job[k].tset /\ job'[k].waited = job[k].waited
        /\ \A k \in Slot : job[k].waited = "yes" => job'[k].res = job[k].res
      <2>1. CASE UNCHANGED job
          BY <2>1
      <2>2. CASE \E w \in Worker : WorkerDecodes(w)
          <3>1. PICK w \in Worker : WorkerDecodes(w)
              BY <2>2
          <3>2. PICK i : i = wslot[w]
              OBVIOUS
          <3>3. i \in Ring /\ i \in Slot /\ job[i].waited = "no"
              BY <3>1, <3>2, RingFacts DEF WorkerDecodes, IInv, Slots
          <3>4. PICK r, p, v : job' = [job EXCEPT ![i].res = r, ![i].pay = p, ![i].ver = v]
              BY <3>1, <3>2 DEF WorkerDecodes
          <3>5. /\ \A k \in Slot \ {i} : job'[k] = job[k]
                /\ job'[i] = [job[i] EXCEPT !.res = r, !.pay = p, !.ver = v]
              BY <3>3, <3>4 DEF IInv, TypeOK
          <3>6. job[i] \in Job
              BY <3>3 DEF IInv, TypeOK
          <3>7. /\ job'[i].lent = job[i].lent /\ job'[i].shape = job[i].shape
                /\ job'[i].last = job[i].last /\ job'[i].tabs = job[i].tabs
                /\ job'[i].tset = job[i].tset /\ job'[i].waited = job[i].waited
              BY <3>5, <3>6 DEF Job
          <3> QED BY <3>3, <3>5, <3>7
      <2> QED BY <1>1, <2>1, <2>2
  <1>3. head \in Slot
      BY DEF IInv, TypeOK
  <1>4. Bytes(head)' = Bytes(head) /\ Loaded(head)' = Loaded(head)
      BY <1>1, <1>2, <1>3 DEF Bytes, Loaded
  <1>5. Replaying'
      BY <1>1, <1>2, <1>3, <1>4 DEF RInv, Replaying, Steady
  <1>6. Progress'
      BY <1>1, <1>2, <1>3, <1>4 DEF RInv, Progress, Steady, Between, Standing, InForce
  <1>7. Simulates
      BY <1>1 DEF Simulates
  <1> QED BY <1>5, <1>6, <1>7

(* Steps that only move the traversal or fill's answer. *)
content == <<out, read, job, own, buf, tables, cur, head, count, idx, inline, engaged, br, brLive,
             dver, sawLast, pendingErr>>

LEMMA Moved ==
  ASSUME RInv, UNCHANGED content, Steady' => Steady, verdict' = "eof" => out.ver = InForce
  PROVE  Replaying' /\ Progress'
  <1> USE DEF RInv, content
  <1>1. Bytes(head)' = Bytes(head) /\ Loaded(head)' = Loaded(head)
      BY DEF Bytes, Loaded
  <1>2. Replaying'
      BY <1>1 DEF Replaying
  <1>3. Progress'
      BY <1>1 DEF Progress, Between, Standing, InForce
  <1> QED BY <1>2, <1>3

(* The oldest block has been written whole and leaves the ring. *)
LEMMA BlockEnds ==
  ASSUME IInv, IInv', RInv, Popped, engaged = "yes", pc \in FillPC, verdict = "none",
         Between(Bytes(head)), out.last = job[head].last, out.ver = Loaded(head),
         AfterPop(job[head].last), UNCHANGED <<out, engaged>>, brLive' = "no"
  PROVE  Replaying' /\ Progress' /\ Simulates
  <1> USE DEF RInv
  <1>1. count > 0 /\ count' = count - 1 /\ idx' = 0 /\ inline' = "no"
        /\ UNCHANGED <<read, tables, cur, sawLast, pendingErr>>
      BY DEF Popped, PopStep, Pop
  <1>2. /\ head \in Ring /\ head \in Slot /\ Rank(head) = 0
        /\ Bytes(head) \in Nat /\ Bytes(head) <= read
        /\ job[head].last = "yes" => count = 1
        /\ count = 1 => /\ Bytes(head) = read /\ job[head].last = sawLast
                        /\ Loaded(head) = tables[cur]
      BY <1>1, HeadFacts
  <1>3. count \in Nat /\ read \in Nat
      BY RankFacts, RSize, OutTypes DEF IInv
  <1>4. verdict' = (IF job[head].last = "yes" THEN "eof" ELSE "none")
      BY DEF AfterPop
  <1>5. Replaying'
      <2>1. count' > 0 => Items(job'[head'].res) \in 0 .. 2
          <3>1. count' > 0 => head' \in Slot /\ job'[head'] \in Job
              BY DEF IInv, TypeOK
          <3> QED BY <3>1, ItemsRange, JobFields
      <2> QED BY <1>1, <2>1 DEF Replaying
  <1>6. Progress'
      <2>1. out'.pay <= read'
          BY <1>1, <1>2 DEF Between
      <2>2. verdict' = "eof" => out'.ver = InForce'
          BY <1>1, <1>2, <1>4 DEF InForce
      <2>3. count' = 0 => /\ Between(read)' /\ out'.last = sawLast' /\ tables'[cur'] = out'.ver
          BY <1>1, <1>2, <1>3 DEF Between
      <2>4. ASSUME count' > 0
            PROVE  /\ Bytes(head)' = Bytes(head) + 1 /\ job[head].last = "no"
                   /\ Loaded(head)' = IF job'[head'].tabs = "yes" THEN Bytes(head)'
                                      ELSE Loaded(head)
          <3>1. PICK n : n = head'
              OBVIOUS
          <3>2. n \in Slot /\ Rank(n) = 1 /\ count > 1 /\ n # head
              BY <1>1, <1>2, <1>3, <2>4, <3>1, PoppedFacts
          <3>3. n \in Ring
              BY <1>3, <3>2, RankFacts DEF IInv
          <3>4. job'[n] = job[n] /\ Bytes(n)' = Bytes(n) /\ Loaded(n)' = Loaded(n)
              BY <3>2, PoppedFacts
          <3>5. Bytes(n) = Bytes(head) + 1
              BY <1>2, <1>3, <3>2, <3>3 DEF Order
          <3>6. Loaded(n) = IF job[n].tabs = "yes" THEN Bytes(n) ELSE Loaded(head)
              BY <1>2, <3>2, <3>3 DEF Chain
          <3>7. job[head].last = "no"
              BY <1>2, <1>3, <3>2 DEF Order
          <3>8. Bytes(head)' = Bytes(n)' /\ Loaded(head)' = Loaded(n)'
              BY <3>1 DEF Bytes, Loaded
          <3> QED BY <3>1, <3>4, <3>5, <3>6, <3>7, <3>8
      <2>5. count' > 0 =>
              Standing(Bytes(head), job[head].shape, job[head].last, job[head].tabs,
                       Loaded(head), IF brLive = "yes" THEN br.pos ELSE idx)'
          BY <1>1, <1>2, <2>4 DEF Standing, Between
      <2>6. engaged' = "yes" /\ count' >= 0
          BY <1>1, <1>3
      <2> QED BY <2>1, <2>2, <2>3, <2>5, <2>6 DEF Progress
  <1>7. Simulates
      BY <1>2, <1>4 DEF Simulates, Serial!SNext, Serial!SReport, Serial!BlockWritten, Between,
                        AfterPop
  <1> QED BY <1>5, <1>6, <1>7

(* Reading ahead does not touch the oldest block. *)
LEMMA ProgressReadFails ==
  ASSUME IInv, RInv, ReadFails
  PROVE  Replaying' /\ Progress' /\ Simulates
  <1> USE DEF RInv
  <1>1. /\ UNCHANGED <<out, verdict, read, job, own, head, count, idx, inline, engaged, br, brLive,
                       dver, sawLast, cur>>
        /\ pendingErr' = "yes" /\ pc = "ahead" /\ pc' = "fill" /\ verdict = "none"
      BY DEF ReadFails, control, Modes, FillPC
  <1>2. Steady
      BY <1>1 DEF Steady, FillPC
  <1>3. count > 0 => Bytes(head)' = Bytes(head) /\ Loaded(head)' = Loaded(head)
      <2>1. count > 0 => head \in Ring
          BY HeadFacts
      <2> QED BY <1>1, <2>1, OrderReadFails DEF Bytes, Loaded
  <1>4. brLive = "yes" => (count > 0 /\ engaged = "yes") \/ engaged # "yes"
      BY <1>2 DEF Replaying
  <1>5. engaged = "yes"
      BY <1>1 DEF Modes
  <1>6. count \in Nat
      BY RankFacts, RSize DEF IInv
  <1>7. Replaying'
      BY <1>1, <1>2, <1>3, <1>4, <1>5 DEF Replaying
  <1>8. Progress'
      BY <1>1, <1>2, <1>3, <1>5, <1>6 DEF Progress, Between, Standing
  <1>9. Simulates
      BY <1>1 DEF Simulates
  <1> QED BY <1>7, <1>8, <1>9

LEMMA ProgressReadBlock ==
  ASSUME IInv, IInv', RInv, ReadBlock
  PROVE  Replaying' /\ Progress' /\ Simulates
  <1> USE DEF RInv
  <1>1. /\ UNCHANGED <<out, verdict, head, idx, inline, engaged, br, brLive, dver, pendingErr, pc>>
        /\ pendingErr = "no" /\ sawLast = "no" /\ pc = "ahead" /\ verdict = "none"
        /\ count' = count + 1 /\ read' = read + 1
      BY DEF ReadBlock, CanRead, Modes, FillPC
  <1>2. Steady /\ engaged = "yes"
      BY <1>1 DEF Steady, FillPC, Modes
  <1>3. count \in Nat /\ read \in Nat
      BY RankFacts, RSize, OutTypes DEF IInv
  <1>4. PICK i : i = (head + count) % R
      OBVIOUS
  <1>5. /\ i \in Slot /\ i \notin Ring /\ Rank(i) = count
        /\ \A k \in Slot \ {i} : job'[k] = job[k]
      BY <1>4, PushedFacts
  <1>6. CASE count > 0
      <2>1. head \in Ring /\ head \in Slot /\ head # i
          BY <1>5, <1>6, HeadFacts
      <2>2. job'[head] = job[head]
          BY <1>5, <2>1
      <2>3. Bytes(head)' = Bytes(head) /\ Loaded(head)' = Loaded(head)
          BY <1>1, <2>1, OrderPushed DEF Bytes, Loaded
      <2>4. Replaying'
          BY <1>1, <1>2, <1>3, <1>6, <2>2, <2>3 DEF Replaying
      <2>5. Progress'
          <3>1. out'.pay <= read' /\ verdict' # "eof" /\ count' # 0
              BY <1>1, <1>3, <1>6, OutTypes DEF IInv, Progress
          <3>2. Standing(Bytes(head), job[head].shape, job[head].last, job[head].tabs,
                         Loaded(head), IF brLive = "yes" THEN br.pos ELSE idx)
              BY <1>2, <1>6 DEF Progress
          <3>3. Standing(Bytes(head), job[head].shape, job[head].last, job[head].tabs,
                         Loaded(head), IF brLive = "yes" THEN br.pos ELSE idx)'
              BY <1>1, <2>2, <2>3, <3>2 DEF Standing, Between
          <3> QED BY <1>1, <1>2, <3>1, <3>3 DEF Progress
      <2> QED BY <1>1, <2>4, <2>5 DEF Simulates
  <1>7. CASE count = 0
      <2>1. i = head
          BY <1>5, <1>7, RankFacts DEF IInv
      <2>2. PICK shape \in Shape, last \in Flag, tabs \in Flag :
              /\ IF tabs = "yes" THEN cur' = LoadTarget /\ tables' = [tables EXCEPT ![cur'] = read']
                 ELSE UNCHANGED <<cur, tables>>
              /\ IF Big(shape) THEN buf' = read' /\ UNCHANGED own
                 ELSE own' = [own EXCEPT ![i] = read'] /\ UNCHANGED buf
              /\ job'[i].tabs = tabs /\ job'[i].tset = cur' /\ job'[i].waited = "no"
              /\ job'[i].lent = IF Big(shape) THEN "yes" ELSE "no"
          BY <1>4, PushedFacts
      <2>3. cur' \in TableSet
          BY DEF IInv, TypeOK
      <2>4. Bytes(head)' = read'
          BY <1>1, <1>5, <2>1, <2>2 DEF Bytes, IInv, TypeOK
      <2>5. /\ tabs = "yes" => Loaded(head)' = read'
            /\ tabs = "no" => Loaded(head)' = tables[cur]
          BY <1>1, <2>1, <2>2, <2>3 DEF Loaded, IInv, TypeOK
      <2>6. idx = 0 /\ inline = "no" /\ brLive = "no"
          BY <1>2, <1>7 DEF IInv, TypeOK, Replaying, Progress, Flag
      <2>7. /\ Between(read) /\ out.last = "no" /\ tables[cur] = out.ver
          BY <1>1, <1>2, <1>7 DEF Progress
      <2>8. Replaying'
          BY <1>1, <2>1, <2>2, <2>6 DEF Replaying
      <2>9. Standing(Bytes(head), job[head].shape, job[head].last, job[head].tabs,
                     Loaded(head), IF brLive = "yes" THEN br.pos ELSE idx)'
          BY <1>1, <1>3, <2>1, <2>2, <2>4, <2>5, <2>6, <2>7 DEF Standing, Between, Flag
      <2>10. Progress'
          BY <1>1, <1>2, <1>3, <1>7, <2>7, <2>9 DEF Progress, Between
      <2> QED BY <1>1, <2>8, <2>10 DEF Simulates
  <1> QED BY <1>3, <1>6, <1>7

LEMMA ProgressWait ==
  ASSUME IInv, IInv', RInv, Wait
  PROVE  Replaying' /\ Progress' /\ Simulates
  <1> USE DEF RInv, rest, decoder, control, goroutines, closers
  <1>1. pc = "wait" /\ verdict = "none" /\ Steady
      BY DEF Wait, Modes, FillPC, Steady
  <1>2. CASE UNCHANGED job /\ verdict' = verdict
      <2>1. UNCHANGED content
          BY <1>2 DEF Wait, content
      <2> QED BY <1>1, <1>2, <2>1, Moved DEF Simulates, content
  <1>3. CASE verdict' = "closed"
      <2>1. ~Steady' /\ UNCHANGED <<out, read, job, head, count, idx, inline>>
          BY <1>1, <1>3 DEF Wait, Steady
      <2>2. Simulates
          BY <1>1, <1>3, <2>1 DEF Simulates, Serial!SNext, Serial!SReport
      <2> QED BY <1>3, <2>1, <2>2, Stopped
  <1>4. CASE job[head].waited = "no" /\ verdict' = verdict
             /\ job' = [job EXCEPT ![head].waited = "yes"]
      <2>1. UNCHANGED <<out, read, own, buf, tables, cur, head, count, idx, inline, engaged, br,
                        brLive, dver, sawLast, pendingErr>>
          BY DEF Wait
      <2>2. head \in Slot /\ job[head] \in Job /\ job'[head] = [job[head] EXCEPT !.waited = "yes"]
          BY <1>4 DEF IInv, TypeOK
      <2>3. /\ job'[head].lent = job[head].lent /\ job'[head].shape = job[head].shape
            /\ job'[head].last = job[head].last /\ job'[head].tabs = job[head].tabs
            /\ job'[head].tset = job[head].tset
            /\ job'[head].res = job[head].res /\ job'[head].waited = "yes"
          BY <2>2 DEF Job
      <2>4. idx = 0 /\ inline = "no" /\ Items(job[head].res) \in 0 .. 2
          <3>1. inline \in Flag /\ idx \in 0 .. 2
              BY DEF IInv, TypeOK
          <3>2. ~(idx > 0) /\ inline # "yes"
              BY <1>4 DEF Replaying
          <3>3. idx = 0 /\ inline = "no"
              BY <3>1, <3>2 DEF Flag
          <3>4. Items(job[head].res) \in 0 .. 2
              BY <2>2, ItemsRange, JobFields
          <3> QED BY <3>3, <3>4
      <2>5. count > 0
          BY <1>1 DEF IInv, Positions
      <2>6. Bytes(head)' = Bytes(head) /\ Loaded(head)' = Loaded(head)
          BY <2>1, <2>3 DEF Bytes, Loaded
      <2>7. Steady'
          BY <1>1, <1>4 DEF Wait, Steady, FillPC
      <2>8. Replaying'
          BY <1>1, <2>1, <2>3, <2>4, <2>5, <2>6 DEF Replaying
      <2>9. Progress'
          BY <1>1, <1>4, <2>1, <2>3, <2>6 DEF Progress, Between, Standing
      <2> QED BY <1>4, <2>1, <2>8, <2>9 DEF Simulates
  <1> QED BY <1>2, <1>3, <1>4 DEF Wait

(* An item of the oldest job is the next symbol of the stream. *)
LEMMA ProgressReplay ==
  ASSUME IInv, IInv', RInv, Replay
  PROVE  Replaying' /\ Progress' /\ Simulates
  <1> USE DEF RInv
  <1> DEFINE j == job[head]
             n == Bytes(head)
  <1>1. /\ pc = "replay" /\ pc' = "replay" /\ verdict = "none" /\ verdict' = "none" /\ Steady
        /\ engaged = "yes" /\ inline = "no"
        /\ count > 0 /\ j.waited = "yes" /\ idx < Items(j.res) /\ idx' = idx + 1
        /\ UNCHANGED <<read, job, own, buf, tables, head, count, inline, engaged, br, brLive, dver>>
      BY DEF Replay, Modes, FillPC, Steady, IInv, Positions, rest, decoder, control
  <1>2. brLive = "no"
      BY <1>1 DEF Replaying, IInv, TypeOK, Flag
  <1>3. /\ j.shape \in Shape /\ KindOf(j.shape) \in {"ok", "cut", "bad"}
        /\ Items(j.res) \in 0 .. 2 /\ j.res \in {"ok", "partial", "cut", "bad"}
        /\ j.pay = n /\ j.ver = Loaded(head)
        /\ Items(j.res) = 2 => KindOf(j.shape) = "ok"
      BY <1>1, HeadDecoded DEF IInv, TypeOK
  <1>4. /\ head \in Slot /\ n \in Nat /\ n >= 1 /\ n <= read /\ read <= Blocks /\ read \in Nat
        /\ Blocks \in Nat
      BY <1>1, HeadFacts, OutTypes DEF IInv
  <1>5. out' = [pay |-> n, sym |-> idx + 1, kind |-> KindOf(j.shape), last |-> j.last,
                tabs |-> j.tabs, ver |-> Loaded(head)]
      BY <1>3 DEF Replay, Emit
  <1>6. Standing(n, j.shape, j.last, j.tabs, Loaded(head), idx)
      BY <1>1, <1>2 DEF Progress, IInv, TypeOK
  <1>7. idx \in {0, 1} /\ (idx = 1 => KindOf(j.shape) = "ok")
      BY <1>1, <1>3 DEF IInv, TypeOK
  <1>8. Bytes(head)' = n /\ Loaded(head)' = Loaded(head)
      BY <1>1 DEF Bytes, Loaded
  <1>9. Simulates
      <2>1. CASE idx = 0
          <3>1. /\ out.pay = n - 1 /\ Serial!BlockWritten /\ out.last = "no" /\ out.kind # "bad"
                /\ Loaded(head) = IF j.tabs = "yes" THEN n ELSE out.ver
              BY <1>6, <2>1 DEF Standing, Between, Serial!BlockWritten
          <3>2. j.last \in {"yes", "no"} /\ j.tabs \in {"yes", "no"}
              BY <1>4, JobTypes DEF IInv, Flag
          <3>3. out.pay < Blocks /\ out.pay + 1 = n
              BY <1>4, <3>1
          <3> QED BY <1>1, <1>3, <1>5, <2>1, <3>1, <3>2, <3>3
                  DEF Simulates, Serial!SNext, Serial!SNextBlock, Serial!BlockKind
      <2>2. CASE idx = 1
          <3>1. out = [pay |-> n, sym |-> 1, kind |-> "ok", last |-> j.last, tabs |-> j.tabs,
                       ver |-> Loaded(head)]
              BY <1>6, <1>7, <2>2 DEF Standing
          <3>2. ~Serial!BlockWritten
              BY <3>1 DEF Serial!BlockWritten, Serial!Symbols
          <3>3. out' = [out EXCEPT !.sym = @ + 1]
              BY <1>5, <1>7, <2>2, <3>1
          <3> QED BY <1>1, <3>2, <3>3 DEF Simulates, Serial!SNext, Serial!SContinueBlock
      <2> QED BY <1>7, <2>1, <2>2
  <1> HIDE DEF j, n
  <1>10. Replaying'
      <2>1. idx + 1 <= Items(j.res)
          BY <1>1, <1>3, <1>7
      <2> QED BY <1>1, <1>2, <2>1 DEF Replaying, j
  <1>11. Progress'
      <2>1. (IF brLive = "yes" THEN br.pos ELSE idx)' = idx + 1 /\ idx + 1 # 0
          BY <1>1, <1>2, <1>7
      <2>2. idx + 1 = IF KindOf(j.shape) = "ok" THEN idx + 1 ELSE 1
          BY <1>7
      <2>3. Standing(Bytes(head), job[head].shape, job[head].last, job[head].tabs,
                     Loaded(head), IF brLive = "yes" THEN br.pos ELSE idx)'
          BY <1>1, <1>5, <1>8, <2>1, <2>2 DEF Standing, j
      <2>4. out'.pay <= read'
          BY <1>1, <1>4, <1>5
      <2> QED BY <1>1, <2>3, <2>4 DEF Progress
  <1> QED BY <1>9, <1>10, <1>11

(* The items of the oldest job are exhausted. *)
LEMMA ProgressReplayed ==
  ASSUME IInv, IInv', RInv, Replayed
  PROVE  Replaying' /\ Progress' /\ Simulates
  <1> USE DEF RInv, rest, decoder, control
  <1> DEFINE j == job[head]
             n == Bytes(head)
  <1>1. /\ pc = "replay" /\ verdict = "none" /\ Steady /\ pc \in FillPC
        /\ engaged = "yes" /\ inline = "no" /\ brLive = "no"
        /\ count > 0 /\ j.waited = "yes" /\ idx = Items(j.res)
        /\ UNCHANGED <<out, read, engaged, br, brLive, dver, buf, own, tables, cur, sawLast,
                       pendingErr>>
      <2>1. /\ pc = "replay" /\ verdict = "none" /\ pc \in FillPC /\ Steady
            /\ engaged = "yes" /\ inline = "no"
            /\ count > 0 /\ j.waited = "yes" /\ idx = Items(j.res)
            /\ UNCHANGED <<out, read, engaged, br, brLive, dver, buf, own, tables, cur, sawLast,
                           pendingErr>>
          BY DEF Replayed, Modes, FillPC, Steady, IInv, Positions
      <2>2. brLive \in Flag
          BY DEF IInv, TypeOK
      <2> QED BY <2>1, <2>2 DEF Replaying, Flag
  <1>2. /\ KindOf(j.shape) \in {"ok", "cut", "bad"}
        /\ j.res \in {"ok", "partial", "cut", "bad", "big", "closed"}
        /\ j.res \in {"ok", "cut", "bad"} => KindOf(j.shape) = j.res
        /\ Items(j.res) = CASE j.res = "ok" -> 2
                            [] j.res \in {"partial", "cut", "bad"} -> 1
                            [] OTHER -> 0
      BY <1>1, HeadDecoded
  <1>3. Standing(n, j.shape, j.last, j.tabs, Loaded(head), idx)
      BY <1>1 DEF Progress
  <1>4. j.res \in {"ok", "cut", "bad"} =>
          out = [pay |-> n, sym |-> IF KindOf(j.shape) = "ok" THEN idx ELSE 1,
                 kind |-> KindOf(j.shape), last |-> j.last, tabs |-> j.tabs,
                 ver |-> Loaded(head)]
      BY <1>1, <1>2, <1>3 DEF Standing
  <1>5. CASE j.res = "ok"
      <2>1. Pop /\ AfterPop(j.last) /\ Popped
          BY <1>1, <1>5 DEF Replayed, Popped, PopStep, goroutines
      <2>2. idx = 2 /\ KindOf(j.shape) = "ok"
          BY <1>1, <1>2, <1>5
      <2>3. Between(n) /\ out.last = j.last /\ out.ver = Loaded(head)
          BY <1>4, <1>5, <2>2 DEF Between, Serial!Symbols
      <2> QED BY <1>1, <2>1, <2>3, BlockEnds
  <1>6. CASE j.res \in {"partial", "big"} \/ j.res = "cut"
      <2>1. /\ inline' = "yes" /\ UNCHANGED <<job, head, count, idx>>
            /\ \/ verdict' = "none" /\ pc' = "inline"
               \/ verdict' = "cut" /\ pc' = "idle" /\ j.res = "cut"
          BY <1>1, <1>6 DEF Replayed
      <2>2. Steady'
          BY <2>1 DEF Steady, FillPC
      <2>3. Bytes(head)' = Bytes(head) /\ Loaded(head)' = Loaded(head)
          BY <1>1, <2>1 DEF Bytes, Loaded
      <2>4. Replaying'
          BY <1>1, <1>2, <1>6, <2>1 DEF Replaying
      <2>5. Progress'
          BY <1>1, <2>1, <2>3 DEF Progress, Between, Standing
      <2>6. Simulates
          <3>1. CASE verdict' = "none"
              BY <1>1, <3>1 DEF Simulates
          <3>2. CASE verdict' = "cut" /\ j.res = "cut"
              <4>1. out.kind = "cut" /\ out.sym = 1
                  BY <1>2, <1>4, <3>2
              <4> QED BY <1>1, <3>2, <4>1 DEF Simulates, Serial!SNext, Serial!SReport,
                                              Serial!BlockWritten, Serial!Symbols
          <3> QED BY <2>1, <3>1, <3>2
      <2> QED BY <2>4, <2>5, <2>6
  <1>7. CASE j.res \in {"bad", "closed"}
      <2>1. /\ idx' = 0 /\ inline' = "no" /\ verdict' = j.res
          BY <1>7 DEF Replayed, Pop
      <2>2. Replaying' /\ Progress'
          BY <1>1, <1>7, <2>1, Stopped DEF Steady
      <2>3. CASE j.res = "bad"
          <3>1. out.kind = "bad" /\ out.sym = 1
              BY <1>2, <1>4, <2>3
          <3> QED BY <1>1, <2>1, <2>2, <2>3, <3>1
                  DEF Simulates, Serial!SNext, Serial!SReport, Serial!BlockWritten, Serial!Symbols
      <2>4. CASE j.res = "closed"
          BY <1>1, <2>1, <2>2, <2>4 DEF Simulates, Serial!SNext, Serial!SReport
      <2> QED BY <1>7, <2>3, <2>4
  <1> QED BY <1>2, <1>5, <1>6, <1>7

LEMMA ProgressFill ==
  ASSUME IInv, IInv', RInv, Filling
  PROVE  Replaying' /\ Progress' /\ Simulates
  <1> USE DEF RInv, rest, decoder, ring, control, Steady, FillPC
  <1>1. CASE Fill
      <2>1. UNCHANGED content /\ verdict' = "none" /\ Steady
            /\ verdict \in {"none", "cut", "eof"}
          BY <1>1 DEF Fill, content
      <2>2. Simulates
          BY <2>1 DEF Simulates, Serial!SNext, Serial!SReadOn, content
      <2> QED BY <2>1, <2>2, Moved
  <1>2. CASE TargetReached \/ AheadDone
      <2>1. UNCHANGED content /\ UNCHANGED verdict /\ Steady /\ verdict = "none"
          BY <1>2 DEF TargetReached, AheadDone, content, Modes
      <2> QED BY <2>1, Moved DEF Simulates, content
  <1>3. CASE FillLoop
      <2>1. UNCHANGED content /\ Steady /\ verdict = "none" /\ engaged = "yes"
          BY <1>3 DEF FillLoop, content, Modes
      <2>2. CASE verdict' = verdict
          BY <2>1, <2>2, Moved DEF Simulates, content
      <2>3. CASE verdict' # verdict
          <3>1. /\ ~(count > 0) /\ ~CanRead
                /\ verdict' = IF pendingErr = "yes" THEN "read" ELSE "eof"
              BY <1>3, <2>3 DEF FillLoop
          <3>2. count = 0 /\ 0 < R
              BY <3>1, RankFacts, RSize DEF IInv
          <3>3. Between(read) /\ out.last = sawLast /\ (pendingErr = "no" => tables[cur] = out.ver)
              BY <2>1, <3>2 DEF Progress
          <3>4. pendingErr \in Flag /\ sawLast \in Flag
              BY DEF IInv, TypeOK
          <3>5. CASE pendingErr = "yes"
              <4>1. out.last = "no"
                  BY <3>3, <3>5 DEF Order
              <4>2. Simulates
                  BY <2>1, <3>1, <3>3, <3>5, <4>1 DEF Simulates, Serial!SNext, Serial!SReport,
                                                     Serial!BlockWritten, Between, content
              <4> QED BY <2>1, <3>1, <3>5, <4>2, Moved
          <3>6. CASE pendingErr = "no"
              <4>1. sawLast = "yes"
                  BY <3>1, <3>2, <3>4, <3>6 DEF CanRead, Order, Flag
              <4>2. Simulates
                  BY <2>1, <3>1, <3>3, <3>6, <4>1 DEF Simulates, Serial!SNext, Serial!SReport,
                                                     Serial!BlockWritten, Between, content
              <4>3. out.ver = InForce
                  BY <2>1, <3>3, <3>6 DEF InForce
              <4> QED BY <2>1, <4>2, <4>3, Moved
          <3> QED BY <3>4, <3>5, <3>6 DEF Flag
      <2> QED BY <2>2, <2>3
  <1> QED BY <1>1, <1>2, <1>3, ProgressReadFails, ProgressReadBlock, ProgressWait, ProgressReplay,
             ProgressReplayed DEF Filling

(* The block in the bit reader: inline, the oldest in flight; serial, the   *)
(* newest read.                                                             *)
LEMMA LiveStanding ==
  ASSUME IInv, RInv, Steady, brLive = "yes"
  PROVE  /\ Standing(br.pay, br.shape, br.last, br.tabs, dver, br.pos)
         /\ br.pay \in Nat /\ br.pay <= read /\ br.pos \in 0 .. 2
         /\ br.last \in Flag /\ br.tabs \in Flag /\ KindOf(br.shape) \in {"ok", "cut", "bad"}
         /\ KindOf(br.shape) = "bad" => br.pos < 2
  <1> USE DEF RInv
  <1>1. br \in Live /\ engaged \in Flag
      BY DEF IInv, TypeOK
  <1>2. /\ br.pos \in 0 .. 2 /\ br.last \in Flag /\ br.tabs \in Flag
        /\ KindOf(br.shape) \in {"ok", "cut", "bad"}
      BY <1>1, ShapeKind DEF Live
  <1>3. KindOf(br.shape) = "bad" => br.pos < 2
      BY DEF Replaying
  <1>4. CASE engaged = "yes"
      <2>1. /\ inline = "yes" /\ br.pay = Bytes(head) /\ dver = Loaded(head)
            /\ br.shape = job[head].shape /\ br.last = job[head].last
            /\ br.tabs = job[head].tabs /\ count > 0
          BY <1>4 DEF Replaying
      <2>2. Standing(br.pay, br.shape, br.last, br.tabs, dver, br.pos)
          BY <1>4, <2>1 DEF Progress
      <2> QED BY <1>2, <1>3, <2>1, <2>2, HeadFacts
  <1>5. CASE engaged = "no"
      BY <1>2, <1>3, <1>5, OutTypes DEF Replaying, Progress, IInv
  <1> QED BY <1>1, <1>4, <1>5 DEF Flag

(* The bit reader moves to position p of its block. *)
LEMMA LiveMoves ==
  ASSUME IInv, IInv', RInv, Steady, Steady', brLive = "yes", NEW p \in 0 .. 2,
         UNCHANGED <<read, job, own, buf, tables, cur, head, count, idx, inline, engaged, brLive,
                     dver, sawLast, pendingErr>>,
         br' = [br EXCEPT !.pos = p], verdict' # "eof",
         KindOf(br.shape) = "bad" => p < 2, out'.pay <= read,
         Standing(br.pay, br.shape, br.last, br.tabs, dver, p)'
  PROVE  Replaying' /\ Progress'
  <1> USE DEF RInv
  <1>1. br \in Live
      BY DEF IInv, TypeOK
  <1>2. /\ br'.pay = br.pay /\ br'.shape = br.shape /\ br'.last = br.last /\ br'.tabs = br.tabs
        /\ br'.pos = p
      BY <1>1 DEF Live
  <1>3. Bytes(head)' = Bytes(head) /\ Loaded(head)' = Loaded(head)
      BY DEF Bytes, Loaded
  <1>4. Replaying'
      BY <1>2, <1>3 DEF Replaying
  <1>5. engaged = "yes" => /\ br.pay = Bytes(head) /\ dver = Loaded(head) /\ count > 0
                           /\ br.shape = job[head].shape /\ br.last = job[head].last
                           /\ br.tabs = job[head].tabs
      BY DEF Replaying
  <1>6. engaged = "yes" =>
          Standing(Bytes(head), job[head].shape, job[head].last, job[head].tabs, Loaded(head),
                   IF brLive = "yes" THEN br.pos ELSE idx)'
      BY <1>2, <1>3, <1>5 DEF Standing, Between
  <1>7. Standing(br.pay, br.shape, br.last, br.tabs, dver, br.pos)'
      BY <1>2 DEF Standing, Between
  <1>8. count' = 0 => engaged' # "yes"
      BY <1>5
  <1>9. Progress'
      BY <1>6, <1>7, <1>8 DEF Progress
  <1> QED BY <1>4, <1>9

(* finishBlockInline takes the oldest block where its job left it. *)
LEMMA ProgressAdopt ==
  ASSUME IInv, IInv', RInv, Adopt
  PROVE  Replaying' /\ Progress' /\ Simulates
  <1> USE DEF RInv
  <1> DEFINE j == job[head]
             p == IF j.res = "cut" THEN 2 ELSE Items(j.res)
  <1>1. /\ pc = "inline" /\ pc' = "inline" /\ brLive = "no" /\ brLive' = "yes"
        /\ verdict = "none" /\ verdict' = "none" /\ engaged = "yes" /\ inline = "yes"
        /\ UNCHANGED <<out, read, job, own, buf, tables, cur, head, count, idx, inline, engaged,
                       sawLast, pendingErr>>
        /\ dver' = Loaded(head)
        /\ br' = [pay |-> Bytes(head), shape |-> j.shape, last |-> j.last, tabs |-> j.tabs,
                  pos |-> p]
      BY DEF Adopt, Modes, FillPC, ring, control, Loaded, Bytes
  <1>2. Steady /\ Steady'
      BY <1>1 DEF Steady, FillPC
  <1>3. count > 0 /\ j.waited = "yes" /\ idx = Items(j.res) /\ j.res \in {"partial", "big", "cut"}
      BY <1>1 DEF Replaying
  <1>4. /\ KindOf(j.shape) \in {"ok", "cut", "bad"}
        /\ j.res = "cut" => KindOf(j.shape) = "cut"
        /\ Items(j.res) = IF j.res = "big" THEN 0 ELSE 1
      BY <1>3, HeadDecoded
  <1>5. Bytes(head)' = Bytes(head) /\ Loaded(head)' = Loaded(head)
      BY <1>1 DEF Bytes, Loaded
  <1>6. Standing(Bytes(head), j.shape, j.last, j.tabs, Loaded(head), idx)
      BY <1>1, <1>2, <1>3 DEF Progress
  <1>7. Standing(Bytes(head), j.shape, j.last, j.tabs, Loaded(head), p)
      BY <1>3, <1>4, <1>6 DEF Standing
  <1>8. /\ br'.pay = Bytes(head) /\ br'.shape = j.shape /\ br'.last = j.last /\ br'.tabs = j.tabs
        /\ br'.pos = p
      BY <1>1
  <1>9. KindOf(j.shape) = "bad" => p < 2
      BY <1>3, <1>4
  <1> HIDE DEF p
  <1>10. Replaying'
      BY <1>1, <1>3, <1>5, <1>8, <1>9 DEF Replaying
  <1>11. Standing(Bytes(head), job[head].shape, job[head].last, job[head].tabs, Loaded(head),
                  IF brLive = "yes" THEN br.pos ELSE idx)'
      BY <1>1, <1>5, <1>7, <1>8 DEF Standing, Between
  <1>12. Progress'
      <2>1. count' # 0 /\ out'.pay <= read'
          BY <1>1, <1>3 DEF Progress
      <2> QED BY <1>1, <1>11, <2>1 DEF Progress
  <1> QED BY <1>1, <1>10, <1>12 DEF Simulates

(* The serial loop reads its next block, or fails to. *)
LEMMA ProgressReadHeader ==
  ASSUME IInv, IInv', RInv, ReadBlockHeader
  PROVE  Replaying' /\ Progress' /\ Simulates
  <1> USE DEF RInv
  <1>1. /\ pc = "serial" /\ brLive = "no" /\ verdict = "none" /\ engaged = "no" /\ engaged' = "no"
        /\ UNCHANGED <<out, job, head, count, idx, inline>>
      BY DEF ReadBlockHeader, Modes, FillPC, Resizing, ring, control
  <1>2. Steady
      BY <1>1 DEF Steady, FillPC
  <1>3. Between(read) /\ out.last = "no" /\ dver = out.ver
      BY <1>1, <1>2 DEF Progress
  <1>4. read \in Nat
      BY OutTypes DEF IInv
  <1>5. CASE brLive' = "yes"
      <2>1. PICK shape \in Shapes, last \in Flag, tabs \in Flag :
              /\ br' = [pay |-> read', shape |-> shape, last |-> last, tabs |-> tabs, pos |-> 0]
              /\ dver' = IF tabs = "yes" THEN read' ELSE dver
          BY <1>1, <1>5 DEF ReadBlockHeader
      <2>2. read' = read + 1 /\ UNCHANGED <<verdict, pc>>
          BY <1>1, <1>5 DEF ReadBlockHeader
      <2>3. br'.pay = read' /\ br'.tabs = tabs /\ br'.pos = 0 /\ br'.pos < 2
          BY <2>1
      <2>4. Replaying'
          BY <1>1, <2>3 DEF Replaying
      <2>5. Standing(br.pay, br.shape, br.last, br.tabs, dver, br.pos)'
          BY <1>1, <1>3, <1>4, <2>1, <2>2, <2>3 DEF Standing, Between
      <2>6. out'.pay <= read' /\ verdict' # "eof"
          BY <1>1, <1>3, <1>4, <2>2 DEF Between
      <2> QED BY <1>1, <1>5, <2>2, <2>4, <2>5, <2>6 DEF Progress, Simulates
  <1>6. CASE brLive' # "yes"
      <2>1. verdict' = "read" /\ read' = read
          BY <1>6 DEF ReadBlockHeader
      <2>2. Simulates
          BY <1>1, <1>3, <2>1 DEF Simulates, Serial!SNext, Serial!SReport, Serial!BlockWritten,
                                  Between
      <2> QED BY <1>1, <2>1, <2>2, Stopped DEF Steady
  <1> QED BY <1>5, <1>6

(* A symbol read from the live block is the next one of the stream. *)
LEMMA ProgressSymbol ==
  ASSUME IInv, IInv', RInv, DecodeSymbol
  PROVE  Replaying' /\ Progress' /\ Simulates
  <1> USE DEF RInv
  <1>0. PICK p : p = br.pos + 1
      OBVIOUS
  <1>1. /\ pc \in {"inline", "serial"} /\ brLive = "yes" /\ verdict = "none" /\ verdict' = "none"
        /\ br.pos < (IF KindOf(br.shape) = "ok" THEN 2 ELSE 1)
        /\ br' = [br EXCEPT !.pos = p]
        /\ UNCHANGED <<read, job, own, buf, tables, cur, head, count, idx, inline, engaged,
                       brLive, dver, sawLast, pendingErr, pc>>
      BY <1>0 DEF DecodeSymbol, Modes, FillPC, ring, control, IInv, TypeOK, Live
  <1>2. Steady /\ Steady'
      BY <1>1 DEF Steady, FillPC
  <1>3. /\ Standing(br.pay, br.shape, br.last, br.tabs, dver, br.pos)
        /\ br.pay \in Nat /\ br.pay <= read /\ br.pos \in 0 .. 2
        /\ br.last \in Flag /\ br.tabs \in Flag /\ KindOf(br.shape) \in {"ok", "cut", "bad"}
      BY <1>1, <1>2, LiveStanding
  <1>4. br.pos \in {0, 1} /\ (br.pos = 1 => KindOf(br.shape) = "ok") /\ p \in {1, 2}
      BY <1>0, <1>1, <1>3
  <1>5. out' = [pay |-> br.pay, sym |-> p, kind |-> KindOf(br.shape), last |-> br.last,
                tabs |-> br.tabs, ver |-> dver]
      BY <1>0 DEF DecodeSymbol, Emit
  <1>6. Simulates
      <2>1. CASE br.pos = 0
          <3>1. /\ out.pay = br.pay - 1 /\ Serial!BlockWritten /\ out.last = "no"
                /\ out.kind # "bad" /\ dver = IF br.tabs = "yes" THEN br.pay ELSE out.ver
              BY <1>3, <2>1 DEF Standing, Between, Serial!BlockWritten
          <3>2. out.pay < Blocks /\ out.pay + 1 = br.pay
              BY <1>3, <3>1, OutTypes DEF IInv
          <3>3. p = 1
              BY <1>0, <2>1
          <3> QED BY <1>1, <1>3, <1>5, <3>1, <3>2, <3>3
                  DEF Simulates, Serial!SNext, Serial!SNextBlock, Serial!BlockKind, Flag
      <2>2. CASE br.pos = 1
          <3>1. out = [pay |-> br.pay, sym |-> 1, kind |-> "ok", last |-> br.last,
                       tabs |-> br.tabs, ver |-> dver]
              BY <1>3, <1>4, <2>2 DEF Standing
          <3>2. ~Serial!BlockWritten
              BY <3>1 DEF Serial!BlockWritten, Serial!Symbols
          <3>3. out' = [out EXCEPT !.sym = @ + 1]
              BY <1>0, <1>4, <1>5, <2>2, <3>1
          <3> QED BY <1>1, <3>2, <3>3 DEF Simulates, Serial!SNext, Serial!SContinueBlock
      <2> QED BY <1>4, <2>1, <2>2
  <1>7. Standing(br.pay, br.shape, br.last, br.tabs, dver, p)'
      <2>1. br'.pay = br.pay /\ br'.shape = br.shape /\ br'.last = br.last /\ br'.tabs = br.tabs
          BY <1>1 DEF IInv, TypeOK, Live
      <2>2. dver' = dver
          BY <1>1
      <2>3. p # 0 /\ p = IF KindOf(br.shape) = "ok" THEN p ELSE 1
          BY <1>0, <1>4
      <2> QED BY <1>5, <2>1, <2>2, <2>3 DEF Standing
  <1>8. KindOf(br.shape) = "bad" => p < 2
      BY <1>0, <1>4
  <1>9. out'.pay <= read /\ p \in 0 .. 2 /\ verdict' # "eof"
      BY <1>1, <1>3, <1>4, <1>5
  <1> QED BY <1>1, <1>2, <1>6, <1>7, <1>8, <1>9, LiveMoves

(* The cut symbol ends fill; the reader stays behind it. *)
LEMMA ProgressCut ==
  ASSUME IInv, IInv', RInv, SymbolCut
  PROVE  Replaying' /\ Progress' /\ Simulates
  <1> USE DEF RInv
  <1>1. /\ pc \in {"inline", "serial"} /\ pc' = "idle" /\ brLive = "yes" /\ verdict = "none"
        /\ verdict' = "cut" /\ KindOf(br.shape) = "cut" /\ br.pos = 1
        /\ br' = [br EXCEPT !.pos = 2]
        /\ UNCHANGED <<out, read, job, own, buf, tables, cur, head, count, idx, inline, engaged,
                       brLive, dver, sawLast, pendingErr>>
      BY DEF SymbolCut, Modes, FillPC, ring, control
  <1>2. Steady /\ Steady'
      BY <1>1 DEF Steady, FillPC
  <1>3. Standing(br.pay, br.shape, br.last, br.tabs, dver, br.pos) /\ br.pay <= read
      BY <1>1, <1>2, LiveStanding
  <1>4. out = [pay |-> br.pay, sym |-> 1, kind |-> "cut", last |-> br.last, tabs |-> br.tabs,
               ver |-> dver]
      BY <1>1, <1>3 DEF Standing
  <1>5. Standing(br.pay, br.shape, br.last, br.tabs, dver, 2)'
      <2>1. br'.pay = br.pay /\ br'.shape = br.shape /\ br'.last = br.last /\ br'.tabs = br.tabs
          BY <1>1 DEF IInv, TypeOK, Live
      <2>2. dver' = dver /\ out' = out
          BY <1>1
      <2> QED BY <1>1, <1>4, <2>1, <2>2 DEF Standing
  <1>6. Replaying' /\ Progress'
      <2>1. out'.pay <= read /\ 2 \in 0 .. 2 /\ KindOf(br.shape) # "bad"
          BY <1>1, <1>3, <1>4
      <2> QED BY <1>1, <1>2, <1>5, <2>1, LiveMoves
  <1>7. Simulates
      BY <1>1, <1>4 DEF Simulates, Serial!SNext, Serial!SReport, Serial!BlockWritten,
                        Serial!Symbols
  <1> QED BY <1>6, <1>7

(* An invalid symbol ends the block, inline with its slot. *)
LEMMA ProgressBad ==
  ASSUME IInv, IInv', RInv, SymbolBad
  PROVE  Replaying' /\ Progress' /\ Simulates
  <1> USE DEF RInv
  <1>1. /\ pc \in {"inline", "serial"} /\ brLive = "yes" /\ verdict = "none" /\ verdict' = "bad"
        /\ KindOf(br.shape) = "bad" /\ br.pos = 1 /\ UNCHANGED <<out, read>>
        /\ UNCHANGED <<job, head, count, idx, inline>> \/ (idx' = 0 /\ inline' = "no")
      BY DEF SymbolBad, Pop, Modes, FillPC
  <1>2. Steady /\ ~Steady'
      BY <1>1 DEF Steady, FillPC
  <1>3. Standing(br.pay, br.shape, br.last, br.tabs, dver, br.pos)
      BY <1>1, <1>2, LiveStanding
  <1>4. out.kind = "bad" /\ out.sym = 1
      BY <1>1, <1>3 DEF Standing
  <1>5. Simulates
      BY <1>1, <1>4 DEF Simulates, Serial!SNext, Serial!SReport, Serial!BlockWritten,
                        Serial!Symbols
  <1> QED BY <1>1, <1>2, <1>5, Stopped

(* Past its last symbol a live block has been written whole. *)
LEMMA LiveWritten ==
  ASSUME IInv, RInv, Steady, brLive = "yes", br.pos = 2
  PROVE  Between(br.pay) /\ out.last = br.last /\ out.ver = dver /\ out.kind # "bad"
  <1>1. /\ Standing(br.pay, br.shape, br.last, br.tabs, dver, br.pos)
        /\ KindOf(br.shape) \in {"ok", "cut", "bad"} /\ KindOf(br.shape) # "bad"
      BY LiveStanding
  <1>2. out = [pay |-> br.pay, sym |-> IF KindOf(br.shape) = "ok" THEN 2 ELSE 1,
               kind |-> KindOf(br.shape), last |-> br.last, tabs |-> br.tabs, ver |-> dver]
      BY <1>1 DEF Standing
  <1> QED BY <1>1, <1>2 DEF Between, Serial!Symbols

LEMMA ProgressInlineDone ==
  ASSUME IInv, IInv', RInv, InlineDone
  PROVE  Replaying' /\ Progress' /\ Simulates
  <1> USE DEF RInv
  <1>1. /\ pc = "inline" /\ pc \in FillPC /\ verdict = "none" /\ brLive = "yes" /\ br.pos = 2
        /\ engaged = "yes" /\ UNCHANGED <<out, engaged>> /\ brLive' = "no"
        /\ Popped /\ AfterPop(job[head].last)
      BY DEF InlineDone, DropsReader, Popped, PopStep, IInv, Positions, Modes, FillPC, control,
             goroutines
  <1>2. Steady
      BY <1>1 DEF Steady
  <1>3. br.pay = Bytes(head) /\ dver = Loaded(head) /\ br.last = job[head].last
      BY <1>1, <1>2 DEF Replaying
  <1> QED BY <1>1, <1>2, <1>3, LiveWritten, BlockEnds

LEMMA ProgressSerialDone ==
  ASSUME IInv, IInv', RInv, SerialDone
  PROVE  Replaying' /\ Progress' /\ Simulates
  <1> USE DEF RInv
  <1>1. /\ pc = "serial" /\ verdict = "none" /\ brLive = "yes" /\ br.pos = 2 /\ engaged = "no"
        /\ UNCHANGED <<out, read, job, own, buf, tables, cur, head, count, idx, inline, engaged,
                       dver, sawLast, pendingErr>>
        /\ pc' \in {"serial", "idle"}
      BY DEF SerialDone, Modes, FillPC, Resizing, ring, control
  <1>2. Steady
      BY <1>1 DEF Steady, FillPC
  <1>3. /\ Between(read) /\ out.last = br.last /\ out.ver = dver /\ out.kind # "bad"
      BY <1>1, <1>2, LiveWritten DEF Replaying
  <1>4. br.last \in Flag
      BY <1>1, <1>2, LiveStanding
  <1>5. CASE br.last = "yes"
      <2>1. verdict' = "eof" /\ UNCHANGED content
          BY <1>1, <1>5 DEF SerialDone, content
      <2>2. Simulates
          BY <1>1, <1>3, <1>5, <2>1 DEF Simulates, Serial!SNext, Serial!SReport,
                                        Serial!BlockWritten, Between
      <2> QED BY <1>1, <1>2, <1>3, <2>1, <2>2, Moved DEF InForce
  <1>6. CASE br.last = "no"
      <2>1. brLive' = "no" /\ verdict' = verdict
          BY <1>1, <1>6 DEF SerialDone
      <2>2. Replaying'
          BY <1>1, <2>1 DEF Replaying
      <2>3. Progress'
          BY <1>1, <1>3, <1>6, <2>1 DEF Progress, Between
      <2> QED BY <1>1, <2>1, <2>2, <2>3 DEF Simulates
  <1> QED BY <1>4, <1>5, <1>6 DEF Flag

LEMMA ProgressInline ==
  ASSUME IInv, IInv', RInv, Inlining
  PROVE  Replaying' /\ Progress' /\ Simulates
  BY ProgressAdopt, ProgressReadHeader, ProgressSymbol, ProgressCut, ProgressBad,
     ProgressInlineDone, ProgressSerialDone DEF Inlining

-----------------------------------------------------------------------------
(* The refinement. *)

LEMMA InitRefinement ==
  ASSUME Init
  PROVE  RInv /\ Serial!SInit
  <1>1. Ring = {}
      BY DEF Init, Ring
  <1>2. Modes
      BY DEF Init, Modes, Building, Resizing, Restarting, DrainFor, FillPC
  <1>3. Order /\ Chain /\ Decoded
      BY <1>1 DEF Init, Order, Chain, Decoded, EmptyJob
  <1>4. Replaying
      BY DEF Init, Replaying, Steady
  <1>5. Progress
      BY DEF Init, Progress, Steady
  <1> QED BY <1>2, <1>3, <1>4, <1>5 DEF RInv, Init, Serial!SInit

LEMMA RefinementStep ==
  ASSUME IInv, RInv, [Next]_vars
  PROVE  RInv' /\ Simulates
  <1>1. IInv'
      BY InvariantStep
  <1>2. Order' /\ Chain' /\ Decoded' /\ Modes'
      BY OrderStep, ModesStep
  <1>3. Replaying' /\ Progress' /\ Simulates
      <2>1. CASE Build
          BY <1>1, <2>1, ProgressBuild
      <2>2. CASE Draining
          BY <1>1, <2>2, ProgressDrain
      <2>3. CASE Filling
          BY <1>1, <2>3, ProgressFill
      <2>4. CASE Inlining
          BY <1>1, <2>4, ProgressInline
      <2>5. CASE Reset
          BY <1>1, <2>5, ProgressReset
      <2>6. CASE \/ UNCHANGED vars
                 \/ \E w \in Worker : WorkerStep(w)
                 \/ \E c \in Closers : CloseBegin(c) \/ CloseStep(c)
          BY <2>6, ProgressOthers
      <2> QED BY <2>1, <2>2, <2>3, <2>4, <2>5, <2>6 DEF Next, Traversal
  <1> QED BY <1>2, <1>3 DEF RInv

(* The order of the ring, the chain of table sets, what a completed job     *)
(* holds and where the window stands hold in every state the traversal, the *)
(* decode goroutines and Close can reach (decoder50_parallel.go).           *)
THEOREM RefinementInvariant == Spec => []RInv
  <1>1. Init => RInv
      BY InitRefinement
  <1>2. IInv /\ RInv /\ [Next]_vars => RInv'
      BY RefinementStep
  <1> QED BY <1>1, <1>2, PipelineInvariant, PTL DEF Spec

(* The block pipeline implements the serial decoder: with any number of     *)
(* workers and any interleaving of fillParallel, the workers, Close, Reset  *)
(* and a change of worker count, the symbols that reach the window and what *)
(* fill reports are ones the serial loop of decoder50.fill could produce.   *)
THEOREM PipelineMatchesSerial == Spec => MatchesSerial
  <1>1. Init => Serial!SInit
      BY InitRefinement
  <1>2. IInv /\ RInv /\ [Next]_vars => [Serial!SNext]_<<out, verdict>>
      BY RefinementStep DEF Simulates
  <1> QED BY <1>1, <1>2, PipelineInvariant, RefinementInvariant, PTL
          DEF Spec, MatchesSerial, Serial!SSpec

=============================================================================
