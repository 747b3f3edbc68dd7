----------------------------- MODULE FilterQueue -----------------------------
(***************************************************************************)
(* The output side of the RAR5 decoder: decoder50.Read, stageFilterInput   *)
(* and queueFilter (decoder50.go, decoder50_items.go). Symbols arrive      *)
(* ahead of the caller; among them, filter records name a range of the     *)
(* member's output, ahead of what is decoded, that has to be transformed   *)
(* as a whole before the caller sees any of it.                            *)
(*                                                                         *)
(* A byte is its position in the member; what matters of a filter is which *)
(* positions it was applied to. The window is a count of unread bytes      *)
(* (Window shows it serves them in order), the source a stream that may    *)
(* end, break inside a symbol or turn out invalid at any point.            *)
(***************************************************************************)
EXTENDS Naturals, Sequences

CONSTANTS
  MaxQueued,   (* maxQueuedFilters                                         *)
  MaxFilter,   (* maxFilterBlockSize                                       *)
  WinSize,     (* win.size                                                 *)
  Target,      (* win.fillTarget()                                         *)
  MaxMatch,    (* the longest match                                        *)
  Requests,    (* lengths of the buffers the caller reads into             *)
  MaxDecoded,  (* bound: bytes a member decodes to                         *)
  MaxRecords,  (* bound: filter records in a member                        *)
  Members      (* bound: members decoded                                   *)

ASSUME QueueAssumption ==
  /\ MaxQueued \in Nat /\ MaxFilter \in Nat /\ WinSize \in Nat
  /\ Target \in Nat \ {0} /\ MaxMatch \in Nat \ {0}
  /\ MaxDecoded \in Nat /\ MaxRecords \in Nat /\ Members \in Nat
  /\ Requests \subseteq Nat \ {0}

(* A filterBlock; type and parameter select a transformation, not a range. *)
Filter == [start: Nat, length: Nat \ {0}]
NoFilter == [start |-> 0, length |-> 0]

Least(a, b) == IF a <= b THEN a ELSE b

VARIABLES
  avail,    (* window.Available()                                          *)
  decoded, tot,          (* decoder50's cursors                            *)
  fl,       (* the queued filters, oldest first                            *)
  outbuf,   (* len(d.outbuf)                                               *)
  src,      (* the source: "more", or "over" once it only reports io.EOF   *)
  pc,       (* where Read is; "idle" between calls, "ended" after an error *)
  p,        (* len(p) of the Read in progress                              *)
  res,      (* what fill returned                                          *)
  f, got, moved, (* the filter being staged, how much of its input is      *)
            (* there, and whether the last window.Read moved anything      *)
  back,     (* whom fill returns to                                        *)
  ret,      (* the last Read's count                                       *)
  records, members,      (* bounds                                         *)
  accepted, (* ghost: every filter queued for this member                  *)
  emitted   (* ghost: per byte the caller got, the filter applied to it,   *)
            (* NoFilter for none                                           *)

cursors == <<avail, decoded, tot>>
stage   == <<f, got, moved>>
bounds  == <<records, members>>
ghost   == <<accepted, emitted>>
vars    == <<cursors, fl, outbuf, src, pc, p, res, stage, back, ret, bounds, ghost>>

Init ==
  /\ avail = 0 /\ decoded = 0 /\ tot = 0
  /\ fl = <<>> /\ outbuf = 0 /\ src = "over"
  /\ pc = "ended" /\ p = 0 /\ res = "nil" /\ back = "serve" /\ ret = 0
  /\ f = NoFilter /\ got = 0 /\ moved = "no"
  /\ records = 0 /\ members = 0
  /\ accepted = {} /\ emitted = <<>>

-----------------------------------------------------------------------------
(* The previous member ended or was abandoned between two Reads. BeginFile  *)
(* leaves nothing unread and decoder50.init starts a new epoch.             *)
NewMember ==
  /\ pc \in {"idle", "ended"} /\ members < Members
  /\ members' = members + 1 /\ records' = 0
  /\ avail' = 0 /\ decoded' = 0 /\ tot' = 0
  /\ fl' = <<>> /\ outbuf' = 0 /\ src' = "more"
  /\ f' = NoFilter /\ got' = 0 /\ moved' = "no"
  /\ pc' = "idle" /\ ret' = 0
  /\ accepted' = {} /\ emitted' = <<>>
  /\ UNCHANGED <<p, res, back>>

Emit(n, g) == emitted' = emitted \o [i \in 1 .. n |-> g]

Returns(n) == pc' = "idle" /\ ret' = n

Fails == pc' = "ended" /\ ret' = 0 /\ UNCHANGED emitted

-----------------------------------------------------------------------------
(* decoder50.Read *)

(* What is left of a filter's output goes first. *)
ReadOutbuf(n) ==
  /\ pc = "idle" /\ outbuf > 0
  /\ outbuf' = outbuf - Least(n, outbuf)
  /\ Emit(Least(n, outbuf), f)
  /\ Returns(Least(n, outbuf)) /\ p' = n
  /\ UNCHANGED <<cursors, fl, src, res, stage, back, bounds, accepted>>

Read(n) ==
  /\ pc = "idle" /\ outbuf = 0
  /\ p' = n /\ res' = "nil" /\ back' = "serve"
  /\ pc' = IF avail = 0 THEN "fill" ELSE "serve"
  /\ UNCHANGED <<cursors, fl, outbuf, src, stage, ret, bounds, ghost>>

(* An error of fill other than the end of the data ends the member. *)
ServeFails ==
  /\ pc = "serve" /\ (res = "bad" \/ avail = 0)
  /\ Fails
  /\ UNCHANGED <<cursors, fl, outbuf, src, p, res, stage, back, bounds, accepted>>

Gap == IF fl = <<>> THEN avail ELSE Head(fl).start - tot

Due == fl # <<>> /\ Head(fl).start <= tot

(* No filter is due: what lies ahead of it is copied from the window. *)
ServeWindow ==
  /\ pc = "serve" /\ res # "bad" /\ avail > 0 /\ ~Due
  /\ LET n == Least(Gap, Least(avail, p)) IN
     /\ avail' = avail - n /\ tot' = tot + n
     /\ Emit(n, NoFilter) /\ Returns(n)
  /\ UNCHANGED <<decoded, fl, outbuf, src, p, res, stage, back, bounds, accepted>>

(* A filter is due: it leaves the queue and its input is staged. *)
ServeFilter ==
  /\ pc = "serve" /\ res # "bad" /\ avail > 0 /\ Due
  /\ f' = Head(fl) /\ fl' = Tail(fl) /\ got' = 0 /\ moved' = "no"
  /\ pc' = "stage"
  /\ UNCHANGED <<cursors, outbuf, src, p, res, back, ret, bounds, ghost>>

-----------------------------------------------------------------------------
(* stageFilterInput *)

(* window.Read takes what there is; if that is not all, fill is next. *)
Stage ==
  /\ pc = "stage"
  /\ LET n == Least(f.length - got, avail) IN
     /\ got' = got + n /\ avail' = avail - n
     /\ moved' = IF n > 0 THEN "yes" ELSE "no"
     /\ pc' = IF got + n = f.length THEN "apply" ELSE "fill"
  /\ back' = "filled"
  /\ UNCHANGED <<decoded, tot, fl, outbuf, src, p, res, f, ret, bounds, ghost>>

NeverStarved == FALSE

(* Nothing moved and nothing came: the block ends past the data. *)
Starved == moved = "no" /\ avail = 0

StageFilled ==
  /\ pc = "filled"
  /\ IF res = "bad" \/ Starved THEN Fails
     ELSE pc' = "stage" /\ UNCHANGED <<ret, emitted>>
  /\ UNCHANGED <<cursors, fl, outbuf, src, p, res, stage, back, bounds, accepted>>

NeverOverlaps == FALSE

(* A filter that starts inside the block just staged would have to be       *)
(* applied to its output; it is refused.                                    *)
Overlaps == fl # <<>> /\ Head(fl).start < f.start + f.length

Apply ==
  /\ pc = "apply"
  /\ got' = 0
  /\ IF Overlaps
       THEN Fails /\ UNCHANGED <<tot, outbuf>>
       ELSE /\ tot' = tot + f.length
            /\ outbuf' = f.length - Least(p, f.length)
            /\ Emit(Least(p, f.length), f) /\ Returns(Least(p, f.length))
  /\ UNCHANGED <<avail, decoded, fl, src, p, res, f, moved, back, bounds, accepted>>

-----------------------------------------------------------------------------
(* fill *)

CountsLiteralOnly(n) == IF n = 1 THEN decoded + 1 ELSE decoded

(* decodeSymbol and replayMatch count what they write. *)
CountsAll(n) == decoded + n

FillSymbol(n) ==
  /\ pc = "fill" /\ src = "more" /\ avail < Target
  /\ decoded + n <= MaxDecoded
  /\ avail' = avail + n /\ decoded' = CountsAll(n)
  /\ UNCHANGED <<tot, fl, outbuf, src, pc, p, res, stage, back, ret, bounds, ghost>>

(* A filter starts offset bytes past the decode head. *)
StartOf(offset) == decoded + offset

(* queueFilter's refusals, an unknown type aside. *)
Refused(offset, length) ==
  \/ Len(fl) >= MaxQueued
  \/ length > MaxFilter \/ offset > WinSize
  \/ fl # <<>> /\ StartOf(offset) < fl[Len(fl)].start

QueuesEmpty(length) == TRUE

(* A zero-length block is dropped. *)
Queues(length) == length > 0

(* A record that passes may still name an unknown type (ErrUnknownFilter).  *)
FillFilter(offset, length) ==
  /\ pc = "fill" /\ src = "more" /\ avail < Target /\ records < MaxRecords
  /\ records' = records + 1
  /\ LET g == [start |-> StartOf(offset), length |-> length] IN
     \/ /\ ~Refused(offset, length)
        /\ fl' = IF Queues(length) THEN Append(fl, g) ELSE fl
        /\ accepted' = IF length > 0 THEN accepted \cup {g} ELSE accepted
        /\ UNCHANGED <<res, pc>>
     \/ /\ res' = "bad" /\ pc' = back
        /\ UNCHANGED <<fl, accepted>>
  /\ UNCHANGED <<cursors, outbuf, src, p, stage, back, ret, members, emitted>>

(* The target is staged. *)
FillStaged ==
  /\ pc = "fill" /\ avail >= Target
  /\ res' = "nil" /\ pc' = back
  /\ UNCHANGED <<cursors, fl, outbuf, src, p, stage, back, ret, bounds, ghost>>

(* The stream ended, broke inside a symbol (ErrDecoderOutOfData: decoding   *)
(* may go on behind it), or is invalid.                                     *)
FillStops ==
  /\ pc = "fill" /\ avail < Target
  /\ \/ res' = "eof" /\ src' = "over"
     \/ res' = "cut" /\ src = "more" /\ UNCHANGED src
     \/ res' = "bad" /\ src = "more" /\ UNCHANGED src
  /\ pc' = back
  /\ UNCHANGED <<cursors, fl, outbuf, p, stage, back, ret, bounds, ghost>>

-----------------------------------------------------------------------------
Fill ==
  \/ \E n \in 1 .. MaxMatch : FillSymbol(n)
  \/ \E offset \in 0 .. WinSize + 1, length \in 0 .. MaxFilter + 1 : FillFilter(offset, length)
  \/ FillStaged \/ FillStops

Output == ServeFails \/ ServeWindow \/ ServeFilter \/ Stage \/ StageFilled \/ Apply

Next ==
  \/ NewMember
  \/ \E n \in Requests : ReadOutbuf(n) \/ Read(n)
  \/ Output \/ Fill

Spec == Init /\ [][Next]_vars

(* Read runs on one goroutine and its source answers. The stream is finite: *)
(* the bounds on bytes and records make fill reach its target or an end.    *)
(* The caller may stop reading at any time.                                 *)
Fairness == WF_vars(Output \/ Fill)

FairSpec == Spec /\ Fairness
-----------------------------------------------------------------------------
(* The types. *)
TypeOK ==
  /\ avail \in Nat /\ decoded \in Nat /\ tot \in Nat
  /\ fl \in Seq(Filter) /\ Len(fl) <= MaxQueued
  /\ outbuf \in Nat /\ src \in {"more", "over"}
  /\ pc \in {"idle", "fill", "serve", "stage", "filled", "apply", "ended"}
  /\ p \in Nat /\ res \in {"nil", "eof", "cut", "bad"}
  /\ f \in Filter \cup {NoFilter} /\ got \in Nat /\ moved \in {"yes", "no"}
  /\ back \in {"serve", "filled"} /\ ret \in Nat
  /\ records \in 0 .. MaxRecords /\ members \in 0 .. Members

Covers(g, q) == g.start <= q /\ q < g.start + g.length

(* The caller gets every byte once and in order, transformed by exactly the *)
(* filter that was queued for its position: none is applied late, early,    *)
(* twice or to a range shifted by what was decoded ahead, and nothing of an *)
(* abandoned member's filter output reaches the next member.                *)
FilteredExactly ==
  /\ Len(emitted) + outbuf = tot
  /\ \A i \in 1 .. Len(emitted) :
       \A g \in accepted : Covers(g, i - 1) => emitted[i] = g
  /\ \A i \in 1 .. Len(emitted) :
       emitted[i] # NoFilter => emitted[i] \in accepted /\ Covers(emitted[i], i - 1)

(* The two cursors share an epoch: what is decoded and not yet output is in *)
(* the window or staged as a filter's input. A filter's start is computed   *)
(* from the one and compared with the other.                                *)
CursorsAgree == pc # "ended" => decoded = tot + got + avail

(* A Read of a non-empty buffer that reports no error delivers something,   *)
(* as io.Reader requires and Entry.Read relies on.                          *)
NoEmptyRead == [][pc # "idle" /\ pc' = "idle" /\ members' = members => ret' > 0]_vars

(* Read returns, also when a filter's block is larger than the fill target  *)
(* or longer than the data that is left.                                    *)
ReadReturns == (pc \notin {"idle", "ended"}) ~> (pc \in {"idle", "ended"})
=============================================================================
