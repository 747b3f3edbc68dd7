---------------------------- MODULE BlockPipeline ----------------------------
(***************************************************************************)
(* The parallel RAR5 block decoder (decoder50_parallel.go and the job half *)
(* of decoder50_items.go), together with the serial loop it stands in for  *)
(* and switches with (decoder50.go): the traversal goroutine reads blocks  *)
(* ahead into a ring of slots and replays them oldest first, worker        *)
(* goroutines decode them, Reader.Close stops the workers from any         *)
(* goroutine and Reset arms them again.                                    *)
(*                                                                         *)
(* One action is one channel operation, one critical section of mu or      *)
(* pipeMu, or a run of steps the traversal takes on memory nobody else     *)
(* touches. The bytes of a block are its number in reading order, a table  *)
(* set is the number of the block that loaded it, and a block has two      *)
(* symbols: what is left is which payload and which tables a symbol came   *)
(* from, and in what order symbols reach the window.                       *)
(***************************************************************************)
EXTENDS Naturals, Sequences, FiniteSets

CONSTANTS
  Workers,   (* decode goroutines: min(n, maxWorkers)                        *)
  Blocks,    (* bound: blocks read from all member streams                   *)
  Members,   (* bound: members built                                         *)
  Gens,      (* bound: quit channels made                                    *)
  Closers,   (* goroutines that may call Reader.Close                        *)
  Shapes     (* the kinds of block the streams hold, a subset of Shape       *)

(* A block fits a job, overflows its item array or exceeds payloadLimit; it *)
(* decodes, or its second symbol is cut (ErrDecoderOutOfData) or invalid.   *)
Shape == {"fits", "overflow", "big"} \X {"ok", "cut", "bad"}
Big(shape) == shape[1] = "big"
KindOf(shape) == shape[2]

ASSUME PipelineAssumption ==
  /\ Workers \in Nat \ {0} /\ Blocks \in Nat /\ Members \in Nat /\ Gens \in Nat
  /\ Shapes \subseteq Shape

(* newBlockPipeline: R = 2*workers slots, R+1 table sets. *)
R == 2 * Workers
Slot == 0 .. R - 1
TableSet == 0 .. R
Block == 0 .. Blocks
Gen == 0 .. Gens
Worker == Gen \X (1 .. Workers)
Flag == {"yes", "no"}

(* What decodeBlockItems leaves in a job, or submit in its place: how many  *)
(* items, and where the block's reader stands.                              *)
Result == {"none", "ok", "partial", "cut", "bad", "big", "closed"}
Items(res) == CASE res = "ok" -> 2 [] res \in {"partial", "cut", "bad"} -> 1
                [] OTHER -> 0

Job == [shape: Shape, last: Flag, tabs: Flag, tset: TableSet,
        res: Result, waited: Flag, lent: Flag,
        pay: Block, ver: Block]   (* what the worker read: bytes and tables *)
EmptyJob == [shape |-> <<"fits", "ok">>, last |-> "no", tabs |-> "no", tset |-> 0,
             res |-> "none", waited |-> "no", lent |-> "no", pay |-> 0, ver |-> 0]

(* d.br: nil, or the block being read symbol by symbol and how far. *)
Live == [pay: Block, shape: Shape, last: Flag, tabs: Flag, pos: 0 .. 2]
NoBlock == [pay |-> 0, shape |-> <<"fits", "ok">>, last |-> "no", tabs |-> "no", pos |-> 2]

TravPC == {"idle", "scan", "drain", "drainWait", "set", "resizeStop", "resizeWait",
           "resizePublish", "engage", "fill", "ahead", "wait", "replay",
           "inline", "serial", "rLatch", "rCheck", "rWait", "rArm"}

VARIABLES
  read,     (* blocks read so far from all member streams                    *)
  members,  (* members built so far                                          *)
  out, verdict,      (* the last symbol written; what fill last returned     *)
  dver, br, brLive, buf,   (* decoder50: tables, *br, br # nil, payloadBuf   *)
  done,              (* r.done, for the archive in force                     *)
  pid, stopped,      (* d.pipe (0 is nil, a count tells them apart) and      *)
                     (* d.pipeStopped                                        *)
  job, own, tokens,  (* the slots: the job, the bytes of the slot's own      *)
                     (* payload array, and what is in its done channel       *)
  head, count, idx, inline,
  tables, inUse, cur,
  pendingErr, sawLast, oversize, engaged,
  jobs, running,
  gens, quit, fired, (* quit channels made, the one in force, those closed   *)
  worker, wslot,  (* each goroutine: its state, and the slot it decodes      *)
  pc, ret,  (* the traversal, and where drain returns to                    *)
  cpc, cpid (* each Close: its position and the pipeline it read            *)

decoder == <<dver, br, brLive, buf>>
ring    == <<job, own, tokens, head, count, idx, inline, tables, inUse, cur,
             pendingErr, sawLast, oversize>>
control == <<done, pid, stopped, engaged, jobs, gens, quit, fired,
             running>>
closers == <<cpc, cpid>>
goroutines == <<worker, wslot>>
vars == <<read, members, out, verdict, decoder, ring, control, goroutines, pc,
          ret, closers>>

TypeOK ==
  /\ read \in Block /\ members \in 0 .. Members
  /\ out \in [pay: Block, sym: 0 .. 2, kind: {"ok", "cut", "bad"}, last: Flag,
              tabs: Flag, ver: Block]
  /\ verdict \in {"none", "eof", "cut", "bad", "read", "closed", "severed"}
  /\ dver \in Block /\ br \in Live /\ brLive \in Flag /\ buf \in Block
  /\ done \in {"open", "closed"}
  /\ pid \in Nat /\ stopped \in Flag /\ engaged \in Flag /\ running \in Flag
  /\ job \in [Slot -> Job] /\ own \in [Slot -> Block] /\ tokens \in [Slot -> 0 .. 1]
  /\ head \in Slot /\ count \in 0 .. R /\ idx \in 0 .. 2 /\ inline \in Flag
  /\ tables \in [TableSet -> Block] /\ inUse \in [TableSet -> 0 .. R]
  /\ cur \in TableSet
  /\ pendingErr \in Flag /\ sawLast \in Flag /\ oversize \in Flag
  /\ jobs \in Seq(Slot) /\ Len(jobs) <= R
  /\ gens \in Gen /\ quit \in Gen /\ fired \subseteq Gen
  /\ worker \in [Worker -> {"none", "idle", "busy", "exited"}]
  /\ wslot \in [Worker -> Slot]
  /\ pc \in TravPC /\ ret \in {"set", "rArm"}
  /\ cpc \in [Closers -> {"idle", "latch", "stop", "wait"}] /\ cpid \in [Closers -> Nat]

(* newBlockPipeline *)
FreshRing ==
  /\ job' = [i \in Slot |-> EmptyJob] /\ own' = [i \in Slot |-> 0]
  /\ tokens' = [i \in Slot |-> 0]
  /\ head' = 0 /\ count' = 0 /\ idx' = 0 /\ inline' = "no"
  /\ tables' = [t \in TableSet |-> 0] /\ inUse' = [t \in TableSet |-> 0] /\ cur' = 0
  /\ pendingErr' = "no" /\ sawLast' = "no" /\ oversize' = "no"

Init ==
  /\ read = 0 /\ members = 0
  /\ out = [pay |-> 0, sym |-> 2, kind |-> "ok", last |-> "no", tabs |-> "no",
            ver |-> 0]
  /\ verdict = "severed"
  /\ dver = 0 /\ br = NoBlock /\ brLive = "no" /\ buf = 0
  /\ done = "open" /\ pid = 0 /\ stopped = "no" /\ engaged = "no"
  /\ job = [i \in Slot |-> EmptyJob] /\ own = [i \in Slot |-> 0]
  /\ tokens = [i \in Slot |-> 0]
  /\ head = 0 /\ count = 0 /\ idx = 0 /\ inline = "no"
  /\ tables = [t \in TableSet |-> 0] /\ inUse = [t \in TableSet |-> 0] /\ cur = 0
  /\ pendingErr = "no" /\ sawLast = "no" /\ oversize = "no"
  /\ jobs = <<>> /\ gens = 0 /\ quit = 0 /\ fired = {} /\ running = "no"
  /\ worker = [w \in Worker |-> "none"] /\ wslot = [w \in Worker |-> 0]
  /\ pc = "idle" /\ ret = "set"
  /\ cpc = [c \in Closers |-> "idle"] /\ cpid = [c \in Closers |-> 0]

-----------------------------------------------------------------------------
(* Helpers *)

(* chanClosed(quit); quit 0 is the nil channel before the first start. *)
QuitFired == quit \in fired

(* make(chan struct{}), stored as quit. *)
NewQuit == gens' = gens + 1 /\ quit' = gens + 1

(* wg.Wait on generation g returns. *)
Exited(g) == \A w \in 1 .. Workers : worker[<<g, w>>] \in {"none", "exited"}

(* The slots in flight. *)
Ring == {(head + k) % R : k \in 0 .. count - 1}

First(S) == CHOOSE i \in S : \A j \in S : i <= j

(* freeTableSet, a set no job in flight references. *)
FreeTableSets == {t \in TableSet : inUse[t] = 0}

(* pop's release of the table set. The mutant keeps the reference. *)
KeepsTables(i) == inUse
ReleasesTables(i) == [inUse EXCEPT ![job[i].tset] = @ - 1]

(* What pop leaves in the slot: it must not keep the serial buffer it was   *)
(* lent. The mutant keeps it.                                               *)
KeptJob(i) == [job[i] EXCEPT !.waited = "no"]
ClearedJob(i) ==
  [job[i] EXCEPT !.waited = "no", !.lent = IF Big(job[i].shape) THEN "no" ELSE @]

(* pop *)
Pop ==
  /\ inUse' = ReleasesTables(head)
  /\ job' = [job EXCEPT ![head] = ClearedJob(head)]
  /\ oversize' = IF Big(job[head].shape) THEN "no" ELSE oversize
  /\ head' = (head + 1) % R /\ count' = count - 1 /\ idx' = 0 /\ inline' = "no"

(* The end of a block at the head of the ring. *)
AfterPop(last) ==
  IF last = "yes" THEN verdict' = "eof" /\ pc' = "idle"
                  ELSE pc' = "ahead" /\ UNCHANGED verdict

Emit(pay, sym, shape, last, tabs, ver) ==
  out' = [pay |-> pay, sym |-> sym, kind |-> KindOf(shape), last |-> last,
          tabs |-> tabs, ver |-> ver]

-----------------------------------------------------------------------------
(* Building a member's chain: decoder50.init, then setPipeline              *)

(* NextEntry refuses a closed Reader before it scans; a Close may land after. *)
(* The next quit channel has to be within the bound.                        *)
NextEntry ==
  /\ pc = "idle" /\ done = "open" /\ members < Members /\ gens < Gens
  /\ verdict' = IF verdict = "eof" THEN verdict ELSE "severed"
  /\ pc' = "scan"
  /\ UNCHANGED <<read, members, out, decoder, ring, control, goroutines, ret, closers>>

(* init: whatever the last member left in the bit reader and in the ring is *)
(* dropped. The last member was severed or drained by finishActive.         *)
BuildChain ==
  /\ pc = "scan"
  /\ members' = members + 1
  /\ brLive' = "no" /\ br' = NoBlock
  /\ pc' = "drain" /\ ret' = "set"
  /\ UNCHANGED <<read, out, verdict, dver, buf, ring, control, goroutines, closers>>

(* drain, one slot at a time: the job's token, or quit. *)
Drain ==
  /\ pc = "drain"
  /\ \/ /\ count = 0 /\ pc' = ret
        /\ UNCHANGED <<job, tokens, head, count, idx, inline, inUse, oversize>>
     \/ /\ count > 0 /\ job[head].waited = "yes"
        /\ Pop /\ UNCHANGED <<tokens, pc>>
     \/ /\ count > 0 /\ job[head].waited = "no" /\ tokens[head] = 1
        /\ tokens' = [tokens EXCEPT ![head] = 0]
        /\ Pop /\ UNCHANGED pc
     \/ /\ count > 0 /\ job[head].waited = "no" /\ QuitFired
        /\ pc' = "drainWait"
        /\ UNCHANGED <<job, tokens, head, count, idx, inline, inUse, oversize>>
  /\ UNCHANGED <<read, members, out, verdict, decoder, own, tables, cur, pendingErr,
                 sawLast, control, goroutines, ret, closers>>

(* drain's quit arm may go on once the generation has exited. The mutant    *)
(* takes the fired quit for the workers having stopped.                     *)
DrainTrustsQuit == TRUE
DrainMayRelease == Exited(quit)

(* waitWorkers, then the token if there is one, then pop. *)
DrainAbandoned ==
  /\ pc = "drainWait" /\ DrainMayRelease
  /\ tokens' = [tokens EXCEPT ![head] = 0]
  /\ Pop /\ pc' = "drain"
  /\ UNCHANGED <<read, members, out, verdict, decoder, own, tables, cur, pendingErr,
                 sawLast, control, goroutines, ret, closers>>

(* The member is ready to be filled: its first block is the next one read.  *)
BeginMember(ver) ==
  /\ verdict' = "none" /\ pc' = "idle"
  /\ out' = [pay |-> read, sym |-> 2, kind |-> "ok", last |-> "no", tabs |-> "no",
             ver |-> ver]

(* setPipeline(workers <= 1): an engaged pipeline hands its tables back. *)
SetSerial ==
  /\ pc = "set"
  /\ dver' = IF engaged = "yes" THEN tables[cur] ELSE dver
  /\ engaged' = "no"
  /\ BeginMember(dver')
  /\ UNCHANGED <<read, members, br, brLive, buf, ring, done, pid, stopped, jobs, gens, quit,
                 fired, running, goroutines, ret, closers>>

(* setPipeline with the worker count the pipeline already has. *)
SetSame ==
  /\ pc = "set" /\ pid > 0 /\ pc' = "engage"
  /\ UNCHANGED <<read, members, out, verdict, decoder, ring, control, goroutines, ret,
                 closers>>

(* The first pipeline, or another worker count: the old pipeline hands its  *)
(* tables back and is stopped. The new one is modelled with the same size.  *)
SetNew ==
  /\ pc = "set"
  /\ dver' = IF engaged = "yes" THEN tables[cur] ELSE dver
  /\ engaged' = "no"
  /\ pc' = IF pid = 0 THEN "resizePublish" ELSE "resizeStop"
  /\ UNCHANGED <<read, members, out, verdict, br, brLive, buf, ring, done, pid, stopped, jobs,
                 gens, quit, fired, running, goroutines, ret, closers>>

(* stop, under mu; the wait comes after the unlock. *)
ResizeStop ==
  /\ pc = "resizeStop"
  /\ fired' = fired \cup {quit} /\ running' = "no"
  /\ pc' = "resizeWait"
  /\ UNCHANGED <<read, members, out, verdict, decoder, ring, done, pid, stopped, engaged, jobs,
                 gens, quit, goroutines, ret, closers>>

ResizeWait ==
  /\ pc = "resizeWait" /\ Exited(quit)
  /\ pc' = "resizePublish"
  /\ UNCHANGED <<read, members, out, verdict, decoder, ring, control, goroutines, ret,
                 closers>>

(* The latch a Close that came before this pipeline left. The mutant starts *)
(* the workers of a closed Reader.                                          *)
PublishIgnoresStop == FALSE
PublishStopped == stopped = "yes"

(* The new pipeline is stored and the latch read under one pipeMu; a latch  *)
(* that is set stops the pipeline before it has run.                        *)
ResizePublish ==
  /\ pc = "resizePublish"
  /\ pid' = pid + 1 /\ running' = "no" /\ jobs' = <<>>
  /\ FreshRing
  /\ IF PublishStopped THEN NewQuit /\ fired' = fired \cup {quit'}
                       ELSE quit' = 0 /\ UNCHANGED <<gens, fired>>
  /\ pc' = "engage"
  /\ UNCHANGED <<read, members, out, verdict, decoder, done, stopped, engaged, goroutines,
                 ret, closers>>

(* A pipeline that was not engaged takes the serial decoder's tables over.  *)
(* The mutant starts from whatever its own current set holds.               *)
SeedsNothing == UNCHANGED <<cur, tables>>
SeedsFromSerial ==
  IF engaged = "yes" THEN UNCHANGED <<cur, tables>>
  ELSE /\ cur' = First(FreeTableSets)
       /\ tables' = [tables EXCEPT ![cur'] = dver]

(* engage, then start under mu. A fired quit starts nothing. *)
Engage ==
  /\ pc = "engage"
  /\ head' = 0 /\ count' = 0 /\ idx' = 0 /\ inline' = "no"
  /\ pendingErr' = "no" /\ sawLast' = "no"
  /\ SeedsFromSerial
  /\ engaged' = "yes"
  /\ IF running = "yes" \/ QuitFired
     THEN UNCHANGED <<jobs, gens, quit, running, worker>>
     ELSE /\ IF quit = 0 THEN NewQuit ELSE UNCHANGED <<gens, quit>>
          /\ jobs' = <<>> /\ running' = "yes"
          /\ worker' = [w \in Worker |-> IF w[1] = quit' THEN "idle" ELSE worker[w]]
  /\ BeginMember(tables'[cur'])
  /\ UNCHANGED <<read, members, decoder, job, own, tokens, inUse, oversize, done, pid,
                 stopped, fired, wslot, ret, closers>>

-----------------------------------------------------------------------------
(* fillParallel *)

rest == <<read, members, decoder, control, goroutines, ret, closers>>

(* decoder50.Read calls fill on an empty window; Entry.Read does not get    *)
(* there on a closed Reader or on an entry that has failed.                 *)
Fill ==
  /\ pc = "idle" /\ done = "open" /\ verdict \in {"none", "cut", "eof"}
  /\ verdict' = "none"
  /\ pc' = IF engaged = "yes" THEN "fill" ELSE "serial"
  /\ UNCHANGED <<rest, out, ring>>

(* The window stages its fill target: the loop ends where it is. *)
TargetReached ==
  /\ pc \in {"fill", "replay", "inline", "serial"}
  /\ pc' = "idle"
  /\ UNCHANGED <<rest, out, verdict, ring>>

(* readAhead's loop condition. The mutant is off by one at the ring's size. *)
CanReadPastRing == count <= R /\ sawLast = "no" /\ pendingErr = "no" /\ oversize = "no"
CanRead == count < R /\ sawLast = "no" /\ pendingErr = "no" /\ oversize = "no"

FillLoop ==
  /\ pc = "fill"
  /\ IF count > 0 THEN pc' = "wait" /\ UNCHANGED verdict
     ELSE IF CanRead THEN pc' = "ahead" /\ UNCHANGED verdict
     ELSE pc' = "idle" /\ verdict' = IF pendingErr = "yes" THEN "read" ELSE "eof"
  /\ UNCHANGED <<rest, out, ring>>

AheadDone ==
  /\ pc = "ahead" /\ ~CanRead
  /\ pc' = "fill"
  /\ UNCHANGED <<rest, out, verdict, ring>>

(* Where a block's new tables go: the current set if no job references it.  *)
(* The mutant always loads in place.                                        *)
LoadsInPlace == cur
LoadTarget == IF inUse[cur] > 0 THEN First(FreeTableSets) ELSE cur

(* The header, the payload or the tables could not be read; a failed load   *)
(* spoils the set it was aimed at, a failed read the buffer.                *)
ReadFails ==
  /\ pc = "ahead" /\ CanRead
  /\ pendingErr' = "yes"
  /\ \/ UNCHANGED <<buf, tables>>
     \/ buf' = 0 /\ UNCHANGED tables
     \/ tables' = [tables EXCEPT ![LoadTarget] = 0] /\ UNCHANGED buf
  /\ pc' = "fill"
  /\ UNCHANGED <<read, members, out, verdict, dver, br, brLive, job, own, tokens, head,
                 count, idx, inline, inUse, cur, sawLast, oversize, control, goroutines,
                 ret, closers>>

(* submit: an oversize job is complete at once; any other goes to the       *)
(* workers or, once quit has fired, is completed with ErrReaderClosed.      *)
Submit(i, j) ==
  \/ /\ Big(j.shape) /\ tokens[i] = 0
     /\ job' = [job EXCEPT ![i] = [j EXCEPT !.res = "big"]]
     /\ tokens' = [tokens EXCEPT ![i] = 1] /\ UNCHANGED jobs
  \/ /\ ~Big(j.shape) /\ Len(jobs) < R
     /\ job' = [job EXCEPT ![i] = j]
     /\ jobs' = Append(jobs, i) /\ UNCHANGED tokens
  \/ /\ ~Big(j.shape) /\ QuitFired /\ tokens[i] = 0
     /\ job' = [job EXCEPT ![i] = [j EXCEPT !.res = "closed"]]
     /\ tokens' = [tokens EXCEPT ![i] = 1] /\ UNCHANGED jobs

(* One turn of readAhead's loop. The payload goes into the slot's own array *)
(* or, when it is oversize, into the serial buffer.                         *)
ReadBlock ==
  LET i == (head + count) % R
      b == read + 1
  IN  /\ pc = "ahead" /\ CanRead /\ read < Blocks
      /\ read' = b
      /\ \E shape \in Shapes, last, tabs \in Flag :
           /\ IF tabs = "yes"
              THEN cur' = LoadTarget /\ tables' = [tables EXCEPT ![cur'] = b]
              ELSE UNCHANGED <<cur, tables>>
           /\ IF Big(shape) \/ job[i].lent = "yes"
              THEN buf' = b /\ UNCHANGED own
              ELSE own' = [own EXCEPT ![i] = b] /\ UNCHANGED buf
           /\ oversize' = IF Big(shape) THEN "yes" ELSE "no"
           /\ sawLast' = last
           /\ Submit(i, [shape |-> shape, last |-> last, tabs |-> tabs,
                         tset |-> cur', waited |-> job[i].waited, res |-> job[i].res,
                         lent |-> IF Big(shape) THEN "yes" ELSE job[i].lent,
                         pay |-> job[i].pay, ver |-> job[i].ver])
      /\ inUse' = [inUse EXCEPT ![cur'] = @ + 1]
      /\ count' = count + 1
      /\ UNCHANGED <<members, out, verdict, dver, br, brLive, head, idx, inline,
                     pendingErr, done, pid, stopped, engaged, gens, quit, fired, running,
                     goroutines, pc, ret, closers>>

(* wait is released by quit. The mutant waits for the worker alone. *)
WaitsForWorkerOnly == FALSE
WaitSeesQuit == QuitFired

(* wait: the token, or quit; Go takes either when both are ready. *)
Wait ==
  /\ pc = "wait"
  /\ \/ /\ job[head].waited = "yes"
        /\ pc' = (IF inline = "yes" THEN "inline" ELSE "replay")
        /\ UNCHANGED <<job, tokens, verdict>>
     \/ /\ job[head].waited = "no" /\ tokens[head] = 1
        /\ tokens' = [tokens EXCEPT ![head] = 0]
        /\ job' = [job EXCEPT ![head].waited = "yes"]
        /\ pc' = (IF inline = "yes" THEN "inline" ELSE "replay")
        /\ UNCHANGED verdict
     \/ /\ job[head].waited = "no" /\ WaitSeesQuit
        /\ verdict' = "closed" /\ pc' = "idle"
        /\ UNCHANGED <<job, tokens>>
  /\ UNCHANGED <<rest, out, own, head, count, idx, inline, tables, inUse, cur,
                 pendingErr, sawLast, oversize>>

(* replayItems, one item. *)
Replay ==
  LET j == job[head]
  IN  /\ pc = "replay" /\ idx < Items(j.res)
      /\ Emit(j.pay, idx + 1, j.shape, j.last, j.tabs, j.ver)
      /\ idx' = idx + 1
      /\ UNCHANGED <<rest, verdict, job, own, tokens, head, count, inline, tables, inUse,
                     cur, pendingErr, sawLast, oversize, pc>>

(* The items are exhausted: the block ended, is finished inline, or failed. *)
Replayed ==
  LET j == job[head]
  IN  /\ pc = "replay" /\ idx = Items(j.res)
      /\ \/ /\ j.res \in {"none", "ok"} /\ Pop /\ AfterPop(j.last)
         \/ /\ j.res \in {"partial", "big"}
            /\ inline' = "yes" /\ pc' = "inline"
            /\ UNCHANGED <<verdict, job, head, count, idx, inUse, oversize>>
         \/ /\ j.res = "cut"
            /\ inline' = "yes" /\ verdict' = "cut" /\ pc' = "idle"
            /\ UNCHANGED <<job, head, count, idx, inUse, oversize>>
         \/ /\ j.res \in {"bad", "closed"}
            /\ Pop /\ verdict' = j.res /\ pc' = "idle"
      /\ UNCHANGED <<rest, out, own, tokens, tables, cur, pendingErr, sawLast>>

-----------------------------------------------------------------------------
(* The serial symbol loop, which finishBlockInline shares                   *)

(* finishBlockInline takes the block over from the job: the tables are      *)
(* copied and the reader starts where the worker left it. A worker that met *)
(* a cut symbol has consumed it.                                            *)
Adopt ==
  LET j == job[head]
  IN  /\ pc = "inline" /\ brLive = "no"
      /\ brLive' = "yes"
      /\ dver' = tables[j.tset]
      /\ br' = [pay |-> IF j.lent = "yes" THEN buf ELSE own[head],
                shape |-> j.shape, last |-> j.last, tabs |-> j.tabs,
                pos |-> IF j.res = "cut" THEN 2 ELSE Items(j.res)]
      /\ UNCHANGED <<read, members, out, verdict, buf, ring, control, goroutines, pc, ret,
                     closers>>

(* readBlockHeader: the serial decoder reads a block into its one buffer. *)
ReadBlockHeader ==
  /\ pc = "serial" /\ brLive = "no"
  /\ \/ /\ read < Blocks /\ read' = read + 1 /\ buf' = read'
        /\ \E shape \in {s \in Shapes : s[1] = "fits"}, last, tabs \in Flag :
             /\ br' = [pay |-> read', shape |-> shape, last |-> last, tabs |-> tabs,
                       pos |-> 0]
             /\ dver' = IF tabs = "yes" THEN read' ELSE dver
        /\ brLive' = "yes" /\ UNCHANGED <<verdict, pc>>
     \/ /\ verdict' = "read" /\ pc' = "idle"
        /\ dver' \in {dver, 0} /\ buf' \in {buf, 0}
        /\ UNCHANGED <<read, br, brLive>>
  /\ UNCHANGED <<members, out, ring, control, goroutines, ret, closers>>

(* One symbol of the live block reaches the window. *)
DecodeSymbol ==
  /\ pc \in {"inline", "serial"} /\ brLive = "yes"
  /\ br.pos < (IF KindOf(br.shape) = "ok" THEN 2 ELSE 1)
  /\ Emit(br.pay, br.pos + 1, br.shape, br.last, br.tabs, dver)
  /\ br' = [br EXCEPT !.pos = @ + 1]
  /\ UNCHANGED <<read, members, verdict, dver, brLive, buf, ring, control, goroutines, pc,
                 ret, closers>>

(* The symbol is cut: ErrDecoderOutOfData, with the reader kept past it. *)
SymbolCut ==
  /\ pc \in {"inline", "serial"} /\ brLive = "yes"
  /\ KindOf(br.shape) = "cut" /\ br.pos = 1
  /\ br' = [br EXCEPT !.pos = 2]
  /\ verdict' = "cut" /\ pc' = "idle"
  /\ UNCHANGED <<read, members, out, dver, brLive, buf, ring, control, goroutines, ret,
                 closers>>

(* Any other error ends the block; the serial loop keeps its reader.        *)
SymbolBad ==
  /\ pc \in {"inline", "serial"} /\ brLive = "yes"
  /\ KindOf(br.shape) = "bad" /\ br.pos = 1
  /\ verdict' = "bad" /\ pc' = "idle"
  /\ IF pc = "inline" THEN brLive' = "no" /\ br' = NoBlock /\ Pop
     ELSE UNCHANGED <<brLive, br, job, head, count, idx, inline, inUse, oversize>>
  /\ UNCHANGED <<read, members, out, dver, buf, own, tokens, tables, cur, pendingErr,
                 sawLast, control, goroutines, ret, closers>>

(* finishBlockInline clears d.br with the block. The mutant leaves the      *)
(* reader for the next job to adopt.                                        *)
KeepsReader == UNCHANGED <<br, brLive>>
DropsReader == brLive' = "no" /\ br' = NoBlock

InlineDone ==
  /\ pc = "inline" /\ brLive = "yes" /\ br.pos = 2
  /\ DropsReader
  /\ Pop /\ AfterPop(job[head].last)
  /\ UNCHANGED <<read, members, out, dver, buf, own, tokens, tables, cur, pendingErr,
                 sawLast, control, goroutines, ret, closers>>

SerialDone ==
  /\ pc = "serial" /\ brLive = "yes" /\ br.pos = 2
  /\ IF br.last = "yes"
     THEN verdict' = "eof" /\ pc' = "idle" /\ UNCHANGED <<br, brLive>>
     ELSE brLive' = "no" /\ br' = NoBlock /\ UNCHANGED <<verdict, pc>>
  /\ UNCHANGED <<read, members, out, dver, buf, ring, control, goroutines, ret,
                 closers>>

-----------------------------------------------------------------------------
(* The decode goroutines *)

(* Leaving on quit. The mutant only looks at quit when a job arrives. *)
LeavesWithJob(w) == FALSE
LeavesOnQuit(w) == w[1] \in fired

WorkerQuits(w) ==
  /\ worker[w] = "idle" /\ LeavesOnQuit(w)
  /\ worker' = [worker EXCEPT ![w] = "exited"]
  /\ UNCHANGED <<read, members, out, verdict, decoder, ring, control, wslot, pc, ret,
                 closers>>

(* A job is taken off the channel the goroutine was started with; one taken *)
(* after quit fired is dropped and never completed.                         *)
WorkerTakes(w) ==
  /\ worker[w] = "idle" /\ w[1] = quit /\ jobs # <<>>
  /\ jobs' = Tail(jobs)
  /\ IF w[1] \in fired
     THEN worker' = [worker EXCEPT ![w] = "exited"] /\ UNCHANGED wslot
     ELSE /\ worker' = [worker EXCEPT ![w] = "busy"]
          /\ wslot' = [wslot EXCEPT ![w] = Head(jobs)]
  /\ UNCHANGED <<read, members, out, verdict, decoder, ring, done, pid, stopped, engaged, gens,
                 quit, fired, running, pc, ret, closers>>

(* decodeBlockItems, then the token; the send blocks on a full channel. *)
WorkerDecodes(w) ==
  LET i == wslot[w]
      j == job[i]
  IN  /\ worker[w] = "busy" /\ tokens[i] = 0
      /\ worker' = [worker EXCEPT ![w] = "idle"]
      /\ job' = [job EXCEPT
                 ![i].res = IF j.shape[1] = "fits" THEN KindOf(j.shape) ELSE "partial",
                 ![i].pay = IF j.lent = "yes" THEN buf ELSE own[i],
                 ![i].ver = tables[j.tset]]
      /\ tokens' = [tokens EXCEPT ![i] = 1]
      /\ UNCHANGED <<read, members, out, verdict, decoder, own, head, count, idx, inline,
                     tables, inUse, cur, pendingErr, sawLast, oversize, control, wslot,
                     pc, ret, closers>>

-----------------------------------------------------------------------------
(* Reset: severActive and the fresh done channel, then restartWorkers *)

ResetBegin ==
  /\ pc = "idle" /\ gens < Gens
  /\ verdict' = "severed" /\ done' = "open"
  /\ pc' = "rLatch"
  /\ UNCHANGED <<read, members, out, decoder, ring, pid, stopped, engaged, jobs, gens,
                 quit, fired, running, goroutines, ret, closers>>

(* restartWorkers, under pipeMu. *)
ResetLatch ==
  /\ pc = "rLatch"
  /\ stopped' = "no"
  /\ pc' = IF pid = 0 THEN "idle" ELSE "rCheck"
  /\ UNCHANGED <<read, members, out, verdict, decoder, ring, done, pid, engaged, jobs, gens, quit, fired,
                 running, goroutines, ret, closers>>

(* restart leaves a running pipeline as it is. *)
RestartCheck ==
  /\ pc = "rCheck"
  /\ pc' = IF running = "yes" THEN "idle" ELSE "rWait"
  /\ UNCHANGED <<read, members, out, verdict, decoder, ring, control, goroutines, ret,
                 closers>>

RestartWait ==
  /\ pc = "rWait" /\ Exited(quit)
  /\ pc' = "drain" /\ ret' = "rArm"
  /\ UNCHANGED <<read, members, out, verdict, decoder, ring, control, goroutines, closers>>

RestartArm ==
  /\ pc = "rArm"
  /\ jobs' = <<>> /\ NewQuit
  /\ pc' = "idle"
  /\ UNCHANGED <<read, members, out, verdict, decoder, ring, done, pid, stopped, engaged, fired,
                 running, goroutines, ret, closers>>

-----------------------------------------------------------------------------
(* stopWorkers, called by Reader.Close on any goroutine *)

(* The done channel, under volMu. *)
CloseBegin(c) ==
  /\ cpc[c] = "idle"
  /\ done' = "closed"
  /\ cpc' = [cpc EXCEPT ![c] = "latch"]
  /\ UNCHANGED <<read, members, out, verdict, decoder, ring, pid, stopped, engaged, jobs,
                 gens, quit, fired, running, goroutines, pc, ret, cpid>>

(* The latch and the pipeline, under pipeMu. *)
CloseLatch(c) ==
  /\ cpc[c] = "latch"
  /\ stopped' = "yes"
  /\ cpid' = [cpid EXCEPT ![c] = pid]
  /\ cpc' = [cpc EXCEPT ![c] = IF pid = 0 THEN "idle" ELSE "stop"]
  /\ UNCHANGED <<read, members, out, verdict, decoder, ring, done, pid, engaged, jobs, gens,
                 quit, fired, running, goroutines, pc, ret>>

(* stop, under mu. A pipeline that has been replaced is stopped already. *)
CloseStop(c) ==
  /\ cpc[c] = "stop"
  /\ IF cpid[c] # pid
     THEN /\ cpc' = [cpc EXCEPT ![c] = "idle"]
          /\ UNCHANGED <<gens, quit, fired, running>>
     ELSE /\ IF quit = 0 THEN NewQuit ELSE UNCHANGED <<gens, quit>>
          /\ fired' = fired \cup {quit'}
          /\ running' = "no"
          /\ cpc' = [cpc EXCEPT ![c] = IF running = "yes" THEN "wait" ELSE "idle"]
  /\ UNCHANGED <<read, members, out, verdict, decoder, ring, done, pid, stopped, engaged, jobs,
                 goroutines, pc, ret, cpid>>

(* wg.Wait *)
CloseWait(c) ==
  /\ cpc[c] = "wait" /\ \A g \in fired : Exited(g)
  /\ cpc' = [cpc EXCEPT ![c] = "idle"]
  /\ UNCHANGED <<read, members, out, verdict, decoder, ring, control, goroutines, pc, ret,
                 cpid>>

-----------------------------------------------------------------------------
Build == NextEntry \/ BuildChain \/ SetSerial \/ SetSame \/ SetNew \/ ResizeStop \/ ResizeWait
         \/ ResizePublish \/ Engage
Draining == Drain \/ DrainAbandoned
Filling == Fill \/ TargetReached \/ FillLoop \/ AheadDone \/ ReadFails \/ ReadBlock
           \/ Wait \/ Replay \/ Replayed
Inlining == Adopt \/ ReadBlockHeader \/ DecodeSymbol \/ SymbolCut \/ SymbolBad
            \/ InlineDone \/ SerialDone
Reset == ResetBegin \/ ResetLatch \/ RestartCheck \/ RestartWait \/ RestartArm
Traversal == Build \/ Draining \/ Filling \/ Inlining \/ Reset
WorkerStep(w) == WorkerQuits(w) \/ WorkerTakes(w) \/ WorkerDecodes(w)
CloseStep(c) == CloseLatch(c) \/ CloseStop(c) \/ CloseWait(c)

Next ==
  \/ Traversal
  \/ \E w \in Worker : WorkerStep(w)
  \/ \E c \in Closers : CloseBegin(c) \/ CloseStep(c)

Spec == Init /\ [][Next]_vars

(***************************************************************************)
(* Fairness: a goroutine that can run does. Nothing makes the caller build *)
(* another member, read on, Reset or Close; and the source of a block      *)
(* answers (VolumeChain is where it may stall).                            *)
(***************************************************************************)
Fairness ==
  /\ WF_vars(pc # "idle" /\ Traversal)
  /\ \A w \in Worker : WF_vars(WorkerStep(w))
  /\ \A c \in Closers : WF_vars(CloseStep(c))

FairSpec == Spec /\ Fairness
-----------------------------------------------------------------------------
(* Properties *)

(* The pipeline implements the serial decoder: whatever the workers, Close  *)
(* and a change of worker count do, the symbols that reach the window are   *)
(* the stream's, in order, once each, from the right bytes and tables, and  *)
(* an error or the end surfaces only after everything before it             *)
(* (docs/superpowers/specs/2026-10-06-parallel-block-decode-design.md).     *)
Serial == INSTANCE SerialDecode WITH MaxBlock <- Blocks
MatchesSerial == Serial!SSpec

(* A slot that is not in flight belongs to the traversal alone: no token is *)
(* left in its done channel and no goroutine, of any generation, is still   *)
(* decoding into it. A slot in flight has at most one of the two.           *)
SlotsPrivate ==
  \A i \in Slot :
    LET held == {w \in Worker : worker[w] = "busy" /\ wslot[w] = i}
    IN  /\ i \notin Ring => held = {} /\ tokens[i] = 0
        /\ Cardinality(held) + tokens[i] <= 1

(* freeTableSet never panics: whenever readAhead or engage may ask for one, *)
(* a set no job references exists, and the references are exactly the jobs  *)
(* in flight.                                                               *)
TableSetsSuffice ==
  /\ count < R => FreeTableSets # {}
  /\ \A t \in TableSet : inUse[t] = Cardinality({i \in Ring : job[i].tset = t})

(* Once every call has returned on a closed Reader, no decode goroutine is  *)
(* alive, whether Close found a pipeline, none, one being replaced or one   *)
(* that Reset was arming again.                                             *)
ClosedLeavesNoWorkers ==
  done = "closed" /\ pc = "idle" /\ (\A c \in Closers : cpc[c] = "idle") =>
    \A g \in Gen : Exited(g)

(* A fill, a member switch or a Reset always returns: none of them waits    *)
(* for a job that nobody will complete.                                     *)
TraversalReturns == pc # "idle" ~> pc = "idle"

(* stopWorkers returns: every goroutine sees quit after at most a block. *)
CloseReturns == \A c \in Closers : cpc[c] # "idle" ~> cpc[c] = "idle"
=============================================================================
