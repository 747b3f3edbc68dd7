# TLA+ models of rarengine

rarengine is a streaming RAR reader: a caller sends the volumes of an archive on a
channel, calls `NextEntry` for each member and reads the member's bytes; compressed
members may be decoded by worker goroutines, and `Close` may come from any goroutine at
any time. These modules model the parts of it where order, concurrency, failure or ring
arithmetic make testing weak. Every definition follows the Go source; `PROJECT.json`
("map") names the lines of each.

Contents: [inventory](#inventory), [plan](#plan), [modules](#modules),
[runs](#runs), [bounds](#bounds), [fairness](#fairness), [proofs](#proofs),
[findings](#findings), [what is not modelled](#what-is-not-modelled).

## Inventory

| Component | State | Operations | Correct when |
|---|---|---|---|
| Volume chain (`reader.go`, `volume.go`) | the volumes channel, `r.done`, `r.vol`, `r.staging`, each volume's `closeOnce` | receive, stage, read signature, publish, end of volume, `Close`, `Reset` | every stream received is closed exactly once by somebody; a cancellation is never reported as a fault of the archive; `Close` unblocks the traversal; an old `Close` leaves the next archive alone |
| Block pipeline (`decoder50_parallel.go`, `decoder50_items.go`) | ring of jobs, table sets with reference counts, work and done channels, `quit`, `pipeStopped` | `readAhead`, `submit`, `wait`, `pop`, replay, inline finish, `drain`, `setPipeline`, `stop`, re-arm | symbols reach the window as if decoded serially; no goroutine writes a slot the traversal owns; nobody waits for a job nobody will finish; no goroutine survives `Close` |
| Traversal (`reader.go`, `splice.go`, `entry.go`, `list.go`) | `r.vol` and its body, `staged`, `entry`, `fatal`, `damaged`, late-start bookkeeping | `NextEntry`, `Entry.Read`, `dispatch`, `nextVolumePayload`, `finishActive`, `severActive` | no member lost, no foreign byte delivered, no damage reported as a clean end, no solid member decoded on broken history |
| Window (`window.go`, `Reader.sizeWindow`) | `buf`, `r`, `w`, `full`, `wrapped`, `incomplete`; the cap and its latch | `writeByte`, `CopyBytes`, `Read`, `Reset`, `grow`, `BeginFile`, `decommit` | the ring holds the LZ77 history and serves it once, in order |
| Filter queue (`decoder50.go`, `decoder50_items.go`) | `fl`, `outbuf`, the cursors `decoded` and `tot` | `queueFilter`, `Read`, `stageFilterInput` | each filter is applied to exactly its range; `Read` makes progress |
| Member verdicts (`entry.go`) | `done`, `remaining`, the running digests, the header in force | `Read`, `Close`, `finish`, `verifyChecksum` | the bytes are the member's; a short, damaged or unchecked member never ends clean; the verdict names the cause |
| CBC decryption (`crypto.go`) | held-back ciphertext, leftover plaintext, sticky error | `Read` | chunking is invisible, a cut never decays into a clean end |
| Bit reader, Huffman, symbols | bit position, code tables | `ReadBits`, `Init`, `ReadSym`, `readCodeLengthTable` | canonical decoding, no read past the limit |
| Headers (`header.go`, `header4.go`, `vint.go`) | none | parsing | sizes bounded, no overflow |
| Header encryption, passwords (`header_crypt.go`, `verify_password.go`, `reader.go`) | candidates, the latched one, each volume's header key | `SetPasswords`, arm, resolve, derive, `Reset` | only a verified candidate is latched; what a candidate can open is not refused |
| Inspection (`inspect.go`) | none | `VerifyPassword`, `VolumeNumber` | agrees with the traversal |
| BLAKE2sp (`blake2sp.go`) | leaves, partial block | `Write`, `sum` | independent of how writes are cut |
| Assembly kernels, window memory, errors | - | - | not modelled |

How they meet: `NextEntry` runs the scan, which takes volumes from the chain and hands a
file header to `dispatch`; `dispatch` sizes the window and builds a member's reader chain
(splicer, CBC reader, decoder). `Entry.Read` pulls through that chain; when a volume's
payload is spent the splicer itself takes the next volume, so two loops read block headers
and share `r.vol` and `r.staged`. The decoder fills the window serially or from the
pipeline, and its `Read` serves the window through the filter queue. `Close` is the only
concurrent entry point: it shares `volMu` and `r.done` with the traversal and `pipeMu` and
`quit` with the pipeline.

What is hard: streams that are in nobody's field between two critical sections; reads
stalled inside the caller's stream; errors read from a stream because `Close` closed it;
`Reset` replacing what an unfinished `Close` still holds; workers finishing out of order,
tables that cross block and member boundaries, a quit racing a submit; volumes cut or
missing anywhere, members met where a continuation was expected; ring laps, overlapping
copies, "full" against "empty", growth between members; filters announced ahead of the
data they cover; cipher blocks cut by reads and by volumes, hash input in any pieces, headers that
change under a member; a password known for one header and tried on the next. `PROJECT.json` ("hazards") lists each at its line.

## Plan

1. `VolumeChain` - done, proved.
2. `SerialDecode`, `BlockPipeline` - done; every invariant and the refinement proved.
3. `Traversal` - done; every property proved.
4. `Window` - done, proved.
5. `FilterQueue` - done; every safety property proved.
6. `MemberRead`, `Blake2sp` - done: member verdicts in detail, CBC decryption across reads
   and volumes, BLAKE2sp dealing against its definition. Every safety property proved.
7. `Passwords` - done, proved: the password latch, header encryption, inspection against
   the traversal.
8. Left: the pure algorithms (Huffman table construction against the canonical code, vint
   decoding at its width, the bit reader against a bit sequence, the byte transforms of
   `filters.go`), and a damaged table description inside a block (`decoder50.go:156`).

Composition: `BlockPipeline` implements `SerialDecode` (done). `Window` is what
`SerialDecode`'s symbols are written to and what `FilterQueue` counts; `VolumeChain` is
the concurrent shell of the pass that `Traversal` models alone. `MemberRead` is the inside
of one member that `Traversal` counts in units (its outcomes of `verifyChecksum` are chosen
there and derived here), and `Passwords` decides what `Traversal` has as the outcomes
`nokey` and a failed encryption header.

## Modules

A decision that a bug would get wrong is an operator of its own; directly before it stands
a mutated form that no action uses (`PROJECT.json`, "mutants").

**VolumeChain.** The traversal goroutine (`pc`, with `call` naming the exported method),
any number of goroutines in `Close`, and a producer. One action is one `volMu` section,
one channel operation or one call into the caller's stream. `mine` is the stream only the
traversal's locals hold, `cvol` and `cstaged` those a `Close` has taken. Errors carry
their cause, so that an error caused by `Close` can be told from the archive's. A volume's
contents are reduced to the outcomes the scan loops distinguish. Of a member, `entry` keeps
whether it still owes bytes: a stored member's last bytes may come beside an error of its
stream, and `finish` overrides the verdict of a short member only.

**BlockPipeline, SerialDecode.** `SerialDecode` says what the decoder promises:
symbols block by block, once each, from that block's payload and with the tables in force,
errors after everything before them. `BlockPipeline` is the ring (`slots`, `head`,
`count`), the jobs, the table sets and `inUse`, one goroutine per generation and worker,
`quit` as a generation number, `stopWorkers` from any goroutine, and the serial loop it
alternates with. A block is its number, a table set the number of the block that loaded
it, a block has two symbols. `MatchesSerial` is the refinement, `out` and `verdict` being
mapped to themselves.

**Traversal.** One pass, extracting or listing, RAR5 or RAR 1.5-4.x. The archive is chosen
block by block; every arm of `scan`, `handleNonFileBlock`, `dispatch` and
`nextVolumePayload`, every kind of cut, and a caller that reads or abandons at will.
Payload is counted in units. `Reset` starts over with another
archive while the caller keeps Entries of the old one; block numbers run on, so an Entry is
never mistaken for one of the new archive. `Close` is left to VolumeChain.

**Window.** The ring with `CopyBytes` and `Read` one loop iteration at a time, driven by
admission (`sizeWindow`, `BeginFile`), `fill`, `copyMatch`, `finishActive`, `Reset` and
`SetMaxWindow`. `hist` is the reference, every byte an unlimited LZ77 decoder has produced
since the history was discarded; `written` and `taken` count into it.

**FilterQueue.** `decoder50.Read`, `stageFilterInput`, `fill` and `queueFilter` with the
two cursors. A byte is its position; `emitted` records which filter each byte the caller
got went through, `accepted` the filters queued. Both fill paths end in the same
`queueFilter`, so one source of symbols and records stands for them.

**MemberRead, Blake2sp.** `Entry.Read` and `Entry.Close` over the chain of a stored member:
hasher, CBC reader, splice. One action is the code before `e.src.Read`, the code after it,
or one answer of a stream or of the CBC reader, so that `Reader.Close` falls between any
two. A byte is its position in the member, `Garbage` one that is not what was archived;
`cbc` is the reader's held-back input, leftover plaintext, chaining block and recorded
error. The header in force changes at every part, and its digest may cover the member, a
part's packed bytes, or be a MAC. `Blake2sp` has the hasher as operators, with the strided
path apart; a digest is the list of what was compressed into it, and `Blake2spOf` is the
definition of the digest of a whole input, block by block, that it is compared with.

**Passwords.** The candidates, the latch, each volume's header key and the blocks of an
archive, chosen one at a time as `armHeaderDecryption`, `buildChain` and
`handleNonFileBlock` meet them, through any number of volumes, `SetPasswords` and `Reset`.
`VerifyPassword` and `VolumeNumber` are operators over the blocks of the first volume.

The `MC` modules only add small sets and symmetry for TLC.

## Runs

| Run | Shows |
|---|---|
| `close` | two goroutines calling `Close` against a traversal of three volumes: each stream closed at most once (`ClosedAtMostOnce`); `io.EOF` only for a complete archive (`CleanEndIsComplete`); what a stream closed by `Close` answered is never latched or blamed on the archive, and is a member's verdict only where its last byte came with it (`CancelNeverBlamesArchive`) |
| `reset` | two archives with a `Close` overlapping `Reset`: at rest every received stream is closed or open in the live Reader (`NothingLeaked`), the new archive is untouched (`LiveArchiveUntouched`), and `Close` releases the traversal wherever it is blocked (`CloseReleasesTraversal`, liveness) |
| `revive` | violation: finding 1 |
| `pipeline` | one worker, three blocks of every shape over two members with changes of worker count: the pipeline implements the serial decoder (`MatchesSerial`), a free table set always exists (`TableSetsSuffice`) |
| `stop` | two workers, a `Close` at any step, a `Reset` after it: `MatchesSerial`, `SlotsPrivate`, `ClosedLeavesNoWorkers`, and every fill, member switch, `Reset` and `Close` returns (`TraversalReturns`, `CloseReturns`, liveness) |
| `traversal` | four blocks over two volumes, RAR5 and RAR 1.5-4.x, with late starts, gaps, listing and `Reset`: `StagedKeepsVolume`, `OwnUnitsOnly`, `EveryMemberHandedOut`, `CutIsReported`, `LateStartIsReal`, `SolidNeedsWholeHistory`, `NothingAfterFatal` |
| `stagedempty` | violation: finding 2 |
| `torn` | violation: finding 3 |
| `window` | rings of four and five bytes: `HistoryMatches`, `ServesInOrder`, `ReadKeepsPromise`, `WindowFitsMember`, `CapacityMeansCapped`, `SolidKeepsHistory` |
| `filters` | five bytes and three records a member: `FilteredExactly`, `CursorsAgree`, `NoEmptyRead`, and `ReadReturns` (liveness) |
| `member` | one stored member, plain or encrypted, of up to two parts, over streams that fragment, fail, are damaged or end early: its content and nothing else is delivered (`DeliversContent`), a clean end and a mismatch are true (`CleanVerdictIsTrue`), a failure is named (`FailureIsNamed`), a closed Reader stops it (`NothingAfterClose`), every `Read` returns (`ReadReturns`, liveness) |
| `passwords` | archives of two volumes, one after the other, against every list of two candidates: `LatchIsVerified`, `RefusalIsDeserved`, `InspectionAgrees` |

`stagedEmpty = FALSE` for RAR5 in the run `traversal` excludes the one input of finding 2, a
member without payload met by the splice; `stagedempty` shows what it does. Deadlock is
unchecked in `pipeline`, `stop` and `filters`: there the caller may simply have
nothing left to do (a closed Reader, the bound on members reached). The other
runs check it. Type invariants are checked in `window` and `pipeline`;
the other proofs carry types inside their inductive invariants.

## Bounds

- *VolumeChain*: three volumes are one open, one staged and one still queued for `Close`
  to drain; two closers race each other; two archives let one `Close` outlive one `Reset`.
- *BlockPipeline*: `R = 2 * Workers`, so one worker gives a ring of two, which three
  blocks wrap and which holds table sets across a pop; the block shapes include a job that
  overflows and one above the payload limit. Two workers finish out of order. `Gens`
  bounds the quit channels, enough for a resize and a re-arm.
- *Traversal*: three or four headers over two volumes are the shortest archives with a
  split member, a stranger where its continuation should be, and a solid successor; a
  declared size of two against payloads of one unit forces the splice.
- *Window*: smallest size four, longest match two, which is the tight case of
  `2 * MaxMatch <= MinSize`; seven bytes of history lap both ring sizes, and a dictionary
  of five makes the window grow. The proofs cover every other size.
- *FilterQueue*: a filter of three bytes exceeds the fill target of two (staging needs
  several fills), two queued filters reach the limit that the third record exceeds,
  offsets and lengths go one past their limits.

- *MemberRead*: a size of nine is two whole strides of four bytes and an odd byte, so that
  pieces of one and three make `Write` start and end inside a block, on a block and on a
  stride; an encrypted size of five leaves padding in the last cipher block, and a part of
  three bytes ends inside a cipher block. Position two may be damaged: inside a block that
  has a successor.
- *Passwords*: two passwords are one right and one wrong; two candidates give every order of
  those and the empty one; two blocks are an encryption header before a member, or two
  members of which the first has no check value; two volumes arm twice. `Reset` and `SetPasswords`
  may come any number of times. The passwords are interchangeable (symmetry).

## Fairness

- *VolumeChain*: a goroutine that can run does. A read of the caller's stream is owed an
  answer only once that stream has been closed, which is all that `Close`'s comment asks of
  a stream; before that it may stall for ever. The producer and the caller's decision to
  call anything get no fairness.
- *BlockPipeline*: the traversal goroutine inside a call, each worker and each `Close` in
  progress. The member's source answers here; VolumeChain is where it stalls.
- *FilterQueue*: one goroutine inside `Read`; its stream is finite.
- *MemberRead*: the goroutine inside `Read` or `Entry.Close` goes on, and a stream it waits
  for answers with bytes or an error in the end (an `io.Reader` that returns neither for
  ever is outside its contract; one that stalls is VolumeChain's).

## Proofs

TLAPS checks these for every value of the constants: any number of volumes, workers,
blocks, members, candidates, any window, buffer and block size. No constant is assumed to be
more than what the code guarantees; the named assumption of each module says what that is.
Each inductive invariant was checked by TLC on the bounds of a run before it was proved, and
each proof has one lemma per action.

**`VolumeChainProofs`** (assumption `ChainAssumption`: at least one archive, `None` is no
stream). `ClosedAtMostOnce` and `NothingLeaked` are not inductive: whether a stream will be
closed twice depends on who holds it. The inductive invariant `IInv` adds `Custody`: a
stream still in its channel is untouched; one that left it is closed, or is held by
`r.vol`, by the traversal's locals or by a `Close` that claimed it from `r.staging`; two
parties hold the same stream only as a volume, where `closeOnce` admits one of them; what
a drain took off a channel belongs to an archive that is closed or being left. Each action moves a
stream between those places under the lock that its code takes. Theorems: `ChainInvariant`, `TypeCorrect`,
`StreamsClosedOnce`, `NoStreamLeaks`, `LiveArchiveSafe`. What is reported needs a second
layer, `Reporting`, relative to `IInv`: where an error may be in hand and which (`Errors`),
that "no next volume" means an ended channel with nothing left in it, and that an error a
closed stream returned is met only where the Reader is closed (`Causes`); so `latchArchive`
and `NextEntry`, which ask `isClosed` after the error, never take one for the archive's.
`finish` also asks whether the member is short. `InPayload` says that a call in a member's
payload has one that owes bytes, unless the last of them came beside an error of the stream:
that member has everything, and the stream's error is its verdict. Theorems:
`ReportingInvariant`, `CleanEndsComplete`, `ClosingIsNoFault`.

**`WindowProofs`** (assumption `WindowAssumption`: the smallest window has at least two
bytes and twice the longest match, the fill target is positive; rarengine has 256 KiB
against 4100). `IInv` = `TypeOK`, `Ring` (`r` stands `written - taken` behind `w`, what is unread and still to be copied stays
below the ring size, so `full` is never set), `Copying` (the source stands `distance`
behind `w`, and what remains of `hist` repeats at that distance), `History` (the cells
behind `w` against `hist`) and `Sizing` (size, dictionary, cap and latch). `Ring` is what
the fill target buys, `Copying` what makes an overlapping copy tractable: a chunk writes
what the reference has at the same place because the reference repeats.
Theorems: `WindowInvariant`, `TypeCorrect`, `WindowIsHistory`, `OutputInOrder`, `ReadsInFull`, `MemberFits`,
`CapacityVerdictSound`, and the action property `SolidContinues`.

**`BlockPipelineProofs`** (assumption `PipelineAssumption`: at least one worker). Whether a
slot is private depends on who may still answer for it, so `IInv` follows every job: a slot
of the ring is with at most one of a worker, the jobs channel and its done channel, no two
workers share one, and only the oldest may have been waited for (`Slots`, `Queue`,
`Positions`); the references of a table set are
counted by the ring (`References`); the goroutines alive are the generation in force, and
whoever told them to quit waits for them (`Generations`, `Channels`); a `Close` past its
latch has reached the pipeline in force or left the latch for the one about to be published
(`Closing`). The ring is an interval of `Z/R`; that a free table set exists is a pigeonhole
argument over `R` slots and `R + 1` sets. Theorems: `PipelineInvariant`, `PipelineTypes`,
`SlotsStayPrivate`, `TableSetsAlwaysSuffice`, `CloseLeavesNoWorkers`.

The same module then proves the refinement. `PipelineMatchesSerial` states
`MatchesSerial`: `Init` implies `SInit`, and under `IInv` and `RInv` every step of the
pipeline is a step of `SerialDecode` or leaves `out` and `verdict` alone. What a replayed
symbol is depends on what a worker made of a block read long before, so `RInv` follows the
blocks: the ring holds the last `count` blocks in reading order, and only the newest may be
the member's last or sit in the serial buffer (`Order`); the tables of a block are its own
or its predecessor's (`Chain`), so that with `Order` the tables of every job are those the
stream puts in force at its block; a job that is complete holds what its own bytes and its
tables decode to, or what `submit` left in its place (`Decoded`); replay and the bit reader
that takes a block over from it agree on where the block stands (`Replaying`); the window
has everything before the oldest block and its first symbols, the tables a member ends with
are those the next one starts with (`Progress`); the traversal's position fits the mode it
fills in (`Modes`). The steps that move blocks are classified first (`StoreStep`: a pop, a
token taken, a push, a failed read, a worker's answer, an empty ring), so `Order`, `Chain`
and `Decoded` are proved once per kind; `Progress` is proved once per action. `Spec` has no
fairness, so the theorem covers `FairSpec` too. Theorems: `RefinementInvariant`,
`PipelineMatchesSerial`.

**`TraversalProofs`** (assumption `BoundsAssumption`). `Base` holds of every archive: only the
member in progress is read, an end stands until the next call, damage and the late-start
flags mirror what was met, a member lacks what is neither delivered nor in the window. It
gives `CutsAreReported`, `LateStartsAreReal` and `NothingHandedAfterFatal` (an action
property). The rest (`Sources`, `Staging`, `Owing`, `Solid`: whose payload the volume stands
on, that a staged header stands on its own volume, what is still owed to the caller, which
members the window's history holds) is inductive only without the input of finding 2, so
`TraversalInvariant`, `MembersHandedOut`, `UnitsAreOwn`, `StagedStands` and the action
property `SolidHistoryIsWhole` carry the hypothesis `NoStagedEmpty`: no RAR5 member without
payload where a continuation was expected. Without it they are false, which is the finding.

**`FilterQueueProofs`** (assumption `QueueAssumption`). `IInv` relates the two cursors, the
queue and the history variables: queued filters are accepted ones, in order and not behind `tot`
(`Queued`); every accepted filter is queued, being staged, or behind the output (`Accounted`); what
was emitted went through the filter of its position (`Applied`). Theorems: `QueueInvariant`,
`CursorsShareEpoch`, `FiltersExact`, and the action property `ReadDelivers`.

**`PasswordsProofs`** (assumption `PasswordAssumption`: the empty candidate and the two
markers are no password of an archive). `IInv` has what the latch knows, which key the open
volume's headers have, and why the last refusal was made. `InspectionSound` adds
`Inspection`: until a block of the first volume answers, the only candidate has taught the
traversal nothing (`Alone`); once one has, a right candidate opens the rest and a wrong one is
never latched (`Answered`); a stream was refused as starting mid-set exactly when a main
header said so (`Numbered`). Theorems: `PasswordInvariant`, `LatchSound`, `RefusalsSound`,
`InspectionSound`.

**`MemberReadProofs`** (assumption `ReadAssumption`: the cipher's buffer is whole blocks).
What the caller has is only a prefix of what left the streams, so the invariant is about all
of it: `Served`, the bytes delivered, returned and decrypted but not yet asked for, is the
member's content up to the damage, on a block boundary; the ciphertext held back continues it
to the position of the streams; the chaining block is the packed block before it (`Content`).
`CryptBlocks` then gives the right bytes of any number of whole blocks (lemma `Decrypts`),
damage met later lies beyond everything served (`DamageAhead`), and `Take` and `Rest` lose
nothing. `Failing` follows an error from the stream to the verdict, `Closing` bounds what a
Read under way may still deliver. `Checked` ties the verdict to the digests: the hasher's
state is `HashOf` the bytes the CRC ran over, so a BLAKE2sp digest that agrees, like a CRC
that agrees, is that of the archived content. Theorems: `MemberInvariant`,
`ContentDelivered`, `FailuresAreNamed`, `CloseSilences`, `CleanVerdicts`.

**`Blake2spProofs`** (assumption `HashAssumption`: at least one leaf, blocks of at least one
byte; rarengine has 8 and 64). The state of the streaming hasher after input `c` is
`HashOf(c)`, whatever Writes brought it: the whole blocks of `c` dealt in turn, leaf `i`
holding back the last of its own, and the rest of `c` in the buffer. The initial state is that
of no input (`InitIs`); a Write of `p` leads from `HashOf(c)` to `HashOf(c \o p)`
(`HashWriteIs`), by one lemma for a leaf taking a block (`LeafTakes`), one for a block dealt
(`DealNext`), one for a run of them (`DealBlocksNext`) and one for the strided path, where
leaf 0's counter and held block stand for every leaf's because all leaves have had the same
share (`DealStridesNext`); the digest drawn from it is `Blake2spOf(c)` (`HashSumIs`).
Where blocks are dealt one by one the induction is over a number of blocks, as a least
counterexample. Theorems: `AnyWritesOneDigest`, and `DigestTells`: with a collision-free
compression, inputs of one length have one digest only if they are equal.

Every invariant and action property of the passing runs is proved. Only model-checked:

- All liveness: `CloseReleasesTraversal`, `TraversalReturns`, `CloseReturns` and the two
  `ReadReturns`. Fairness and `ENABLED` are outside the prover's reach.
- The three properties that are violated.

Proving corrected the models twice. `Traversal`: `NextEntry` latches an error that is not
`io.EOF` where no next volume comes (`NoNextVolume` had left the latch out). `MemberRead`: the
switch after `e.src.Read` was a `CASE` whose first two guards overlapped, which TLC reads in
order and TLA+ does not.

## Findings

1. **A late `Close` stops the next archive's workers** (`revive`, `reader.go:1419`).
   `Close` calls `dec50.stopWorkers()` after releasing `volMu`; a `Reset` completing in
   between has already re-armed the decoder.
2. **A staged header can lose its volume** (`stagedempty`, `splice.go:203`). The splice
   stages a new member and returns `io.EOF`, which the decoder keeps to itself while its
   window holds bytes; the next `Read` reaches the splice again, and if the staged block
   declares no payload it moves on to the next volume.
3. **A cut inside a compressed member's header does not mark the window incomplete**
   (`torn`, `reader.go:565`), so the solid member opening the next volume is decoded on
   history that lacks the lost member, against `window.BeginFile`'s comment.

An observation without a run: `NextEntry` looks at `r.fatal` again after a scan that found an
entry ("A latch set DURING this call must not be outrun by whatever the scan went on to find",
`reader.go:409`), and not after one that failed. Draining an abandoned solid member
(`splice.go:98`) can latch a failure of the archive; if the scan then finds the channel closed
it returns `io.EOF`, which `latchArchive` passes on without looking at the latch. The caller
sees a clean end, and the error only from a further `NextEntry`. In `Traversal`,
`ret = "eof" => ~r.fatal` fails within ten steps.

## What is not modelled

- Bytes and bits: Huffman codes, bit access, filter transforms, header fields and vints are
  outcomes or counts (step 8 of the plan).
- AES, PBKDF2, HMAC, CRC32 and the BLAKE2s compression function: libraries or arithmetic out
  of TLC's reach. Ciphers, check values and digests are ideal: no collisions.
- `MemberRead` has the chain of a stored member. A compressed member's decoder stands
  between `Entry.Read` and the CBC reader; it is `BlockPipeline`, `Window` and
  `FilterQueue`, and what it makes of an error below it is in `Traversal`.
- Archives encrypted with several passwords. The comment at `reader.go:1004` calls a
  verified candidate "knowledge -- it cannot be wrong for this archive". RAR5 encrypts per
  member, and in an archive with two passwords a member that comes after the latch is
  refused with `ErrWrongPassword` although its own password was among the candidates.
  `RefusalIsDeserved` and `InspectionAgrees` are stated for archives with one password.
- The decryption of a single header, block by block (`header_crypt.go:105`): a header is
  readable with its own key and not otherwise. Read with another key it is refused, or its
  seeming size takes the volume for a cut one; `Passwords` has both, but not the damage this
  records, which is `Traversal`'s.
- In `Passwords` the scan and the splice are one reader of headers, although the code arms a
  volume's key in both: a mistake in only one of them is not told apart.
- Assembly kernels and their generator, `mmap` and `madvise`, time-stamp decoding, error
  texts.
- `window.writeBytes`, which only tests call.
- A damaged table description inside a block: `BlockPipeline` damages symbols. The serial
  and the parallel path keep such an error differently (`decoder50.go:156`).
