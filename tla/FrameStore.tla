----------------------------- MODULE FrameStore -----------------------------
(***************************************************************************)
(* MemoryFrameStoreAccess: where the pixels of a capture live.  Frames are *)
(* in the heap (pinned or encoded) under a byte ceiling, or spilled to a   *)
(* sink that outlives the process.  One action per call that can change    *)
(* state; a refusal that changes nothing is a stuttering step.             *)
(*                                                                         *)
(* Bytes are a pair <<size, pixels>>.  The text of a refusal (and with it  *)
(* spill_refusal_, which only words one) and TierGeneration, which passes  *)
(* the sink's answer up, are left out; SpillHost has the generation.       *)
(***************************************************************************)
EXTENDS Integers

CONSTANTS
  MaxId,      \* bound: identities handed out are 1..MaxId
  MaxPins,    \* bound: nested pins of one frame
  Sizes,      \* byte sizes a frame can have
  Pixels,     \* what a frame of any size can show
  Zeroed,     \* the pixels of a newly allocated frame
  HashOf,     \* HashBytes, as a function of the bytes
  Ceiling,    \* heap_ceiling: bytes of frames the heap may hold
  HasSink,    \* whether the composition root passed a spill sink
  NoBytes,    \* the empty vector of a spilled frame; a sink without a copy
  NoFrame, Lost   \* what FrameArchive calls an absent and a lost frame

Frame == 1..MaxId
Bytes == Sizes \X Pixels
SizeOf(b) == b[1]
NoHash == 0   \* FrameRef::contentHash of a document's frame: nothing sets it

(* The sizes are positive, and the 64-bit FNV-1a hash of distinct frames of *)
(* one capture is taken not to collide.                                     *)
ASSUME FrameStoreAssumption ==
  /\ MaxId \in Nat \ {0} /\ MaxPins \in Nat \ {0} /\ Ceiling \in Nat
  /\ Sizes \subseteq Nat \ {0}
  /\ Zeroed \in Pixels
  /\ HasSink \in BOOLEAN
  /\ HashOf \in [Bytes -> Nat]
  /\ \A a, b \in Bytes : HashOf[a] = HashOf[b] => a = b
  /\ NoBytes \notin Bytes /\ NoFrame \notin Bytes /\ Lost \notin Bytes
  /\ NoFrame # Lost

VARIABLES
  entries,    \* the map, Gone where it has no key
  heapUsed,   \* heap_used_
  spilled,    \* spilled_
  nextId,     \* next_id_
  sink        \* the sink's copy of each frame

vars == <<entries, heapUsed, spilled, nextId, sink>>

HeapTiers == {"HeapPinned", "HeapEncoded"}
Entry ==
  [size : Nat, bytes : Bytes \cup {NoBytes}, spilledHash : Nat, inSink : BOOLEAN,
   sinkCopyIntact : BOOLEAN, residency : HeapTiers \cup {"Spilled", "Gone"}, pins : Nat]

NoEntry ==
  [size |-> 0, bytes |-> NoBytes, spilledHash |-> NoHash, inSink |-> FALSE,
   sinkCopyIntact |-> FALSE, residency |-> "Gone", pins |-> 0]

IsHeapTier(residency) == residency \in HeapTiers
Find(f) == entries[f].residency # "Gone"
Resident(f) == IsHeapTier(entries[f].residency)
IsSpilled(f) == entries[f].residency = "Spilled"

Init ==
  /\ entries = [f \in Frame |-> NoEntry]
  /\ heapUsed = 0
  /\ spilled = 0
  /\ nextId = 1
  /\ sink = [f \in Frame |-> NoBytes]

-----------------------------------------------------------------------------
(* Fault: the tier is set without moving the bytes between the totals. *)
ReclassifyTierOnly(f, e, target) ==
  /\ entries' = [entries EXCEPT ![f] = [e EXCEPT !.residency = target]]
  /\ UNCHANGED <<heapUsed, spilled>>

(* Files the entry e under f in the tier target, and moves its bytes between *)
(* the two totals when the tier is another one.                              *)
Reclassify(f, e, target) ==
  /\ entries' = [entries EXCEPT ![f] = [e EXCEPT !.residency = target]]
  /\ \/ /\ IsHeapTier(e.residency) <=> IsHeapTier(target)
        /\ UNCHANGED <<heapUsed, spilled>>
     \/ /\ ~IsHeapTier(e.residency) /\ IsHeapTier(target)
        /\ spilled' = spilled - e.size
        /\ heapUsed' = heapUsed + e.size
     \/ /\ IsHeapTier(e.residency) /\ ~IsHeapTier(target)
        /\ heapUsed' = heapUsed - e.size
        /\ spilled' = spilled + e.size

(* ISpillSink::Read fills the whole buffer or fails. *)
Fits(copy, e) == copy \in Bytes /\ SizeOf(copy) = e.size
Readable(f) == Fits(sink[f], entries[f])

(* FaultIn: the ceiling first, then a whole read, which vouches for the copy. *)
CanFaultIn(f) ==
  IsSpilled(f) => heapUsed + entries[f].size <= Ceiling /\ Readable(f)

FaultedIn(f) ==
  IF IsSpilled(f)
  THEN [entries[f] EXCEPT !.bytes = sink[f], !.spilledHash = HashOf[sink[f]],
                          !.sinkCopyIntact = TRUE]
  ELSE entries[f]

-----------------------------------------------------------------------------
Allocate(size) ==
  /\ nextId <= MaxId
  /\ heapUsed + size <= Ceiling
  /\ entries' = [entries EXCEPT ![nextId] =
                   [NoEntry EXCEPT !.size = size, !.bytes = <<size, Zeroed>>,
                                   !.residency = "HeapEncoded"]]
  /\ heapUsed' = heapUsed + size
  /\ nextId' = nextId + 1
  /\ UNCHANGED <<spilled, sink>>

Pin(f) ==
  /\ Find(f) /\ CanFaultIn(f)
  /\ entries[f].pins < MaxPins
  /\ Reclassify(f, [FaultedIn(f) EXCEPT !.pins = @ + 1], "HeapPinned")
  /\ UNCHANGED <<nextId, sink>>

(* The holder of a pin writes through the span Pin handed it. *)
Fill(f, pixels) ==
  /\ entries[f].pins > 0
  /\ entries' = [entries EXCEPT ![f].bytes = <<entries[f].size, pixels>>]
  /\ UNCHANGED <<heapUsed, spilled, nextId, sink>>

(* Fault: the last pin is given back and the tier stays pinned. *)
ReleaseStaysPinned(f) ==
  /\ entries[f].pins > 0
  /\ Reclassify(f, [entries[f] EXCEPT !.pins = @ - 1], entries[f].residency)
  /\ UNCHANGED <<nextId, sink>>

Release(f) ==
  /\ entries[f].pins > 0
  /\ LET e == [entries[f] EXCEPT !.pins = @ - 1]
     IN  Reclassify(f, e, IF e.pins = 0 THEN "HeapEncoded" ELSE e.residency)
  /\ UNCHANGED <<nextId, sink>>

Demotable(f) == Find(f) /\ entries[f].pins = 0

(* Demote(f, HeapEncoded): a spilled frame is faulted in first. *)
DemoteToHeap(f) ==
  /\ Demotable(f) /\ CanFaultIn(f)
  /\ Reclassify(f, FaultedIn(f), "HeapEncoded")
  /\ UNCHANGED <<nextId, sink>>

(* Fault: a copy is trusted although the holder of a pin wrote since. *)
CopyStandsByFlag(f) == entries[f].sinkCopyIntact

(* The copy the sink already has is these very bytes: the write is skipped. *)
CopyStands(f) ==
  entries[f].sinkCopyIntact /\ HashOf[entries[f].bytes] = entries[f].spilledHash

(* Demote(f, Spilled) of a resident frame, in its three outcomes. *)
PutBack(f) ==
  /\ HasSink /\ Demotable(f) /\ Resident(f)
  /\ CopyStands(f)
  /\ Reclassify(f, [entries[f] EXCEPT !.bytes = NoBytes], "Spilled")
  /\ UNCHANGED <<nextId, sink>>

(* Fault: the hash stays that of the bytes the frame was last read with. *)
SpillKeepsHash(f) ==
  /\ HasSink /\ Demotable(f) /\ Resident(f)
  /\ ~CopyStands(f)
  /\ sink' = [sink EXCEPT ![f] = entries[f].bytes]
  /\ Reclassify(f, [entries[f] EXCEPT !.bytes = NoBytes, !.inSink = TRUE], "Spilled")
  /\ UNCHANGED nextId

Spill(f) ==
  /\ HasSink /\ Demotable(f) /\ Resident(f)
  /\ ~CopyStands(f)
  /\ sink' = [sink EXCEPT ![f] = entries[f].bytes]
  /\ Reclassify(f, [entries[f] EXCEPT !.bytes = NoBytes, !.inSink = TRUE,
                                      !.spilledHash = HashOf[entries[f].bytes]], "Spilled")
  /\ UNCHANGED nextId

(* Fault: a refused write is taken to have left the earlier copy alone. *)
SpillRefusedTrusting(f) ==
  /\ HasSink /\ Demotable(f) /\ Resident(f)
  /\ ~CopyStands(f)
  /\ \E left \in {sink[f], NoBytes} : sink' = [sink EXCEPT ![f] = left]
  /\ UNCHANGED <<entries, heapUsed, spilled, nextId>>

(* A refused write may have cost the sink its earlier copy of the frame. *)
SpillRefused(f) ==
  /\ HasSink /\ Demotable(f) /\ Resident(f)
  /\ ~CopyStands(f)
  /\ \E left \in {sink[f], NoBytes} : sink' = [sink EXCEPT ![f] = left]
  /\ entries' = [entries EXCEPT ![f].sinkCopyIntact = FALSE]
  /\ UNCHANGED <<heapUsed, spilled, nextId>>

(* Fault: the counter is not stepped past an adopted identity. *)
AdoptKeepsCounter(f, size) ==
  /\ HasSink /\ ~Find(f)
  /\ entries' = [entries EXCEPT ![f] =
                   [NoEntry EXCEPT !.size = size, !.spilledHash = NoHash, !.inSink = TRUE,
                                   !.residency = "Spilled"]]
  /\ spilled' = spilled + size
  /\ UNCHANGED <<heapUsed, nextId, sink>>

(* A frame of a session document, under the identity the document gave it.  *)
(* A frame already held and still in the sink is accepted as it stands.     *)
Adopt(f, size) ==
  /\ HasSink /\ ~Find(f)
  /\ entries' = [entries EXCEPT ![f] =
                   [NoEntry EXCEPT !.size = size, !.spilledHash = NoHash, !.inSink = TRUE,
                                   !.residency = "Spilled"]]
  /\ spilled' = spilled + size
  /\ nextId' = IF f >= nextId THEN f + 1 ELSE nextId
  /\ UNCHANGED <<heapUsed, sink>>

(* Fault: the store is emptied under a frame somebody holds. *)
UnpinnedUnchecked == TRUE

Unpinned == \A f \in Frame : entries[f].pins = 0

Clear ==
  /\ Unpinned
  /\ entries' = [f \in Frame |-> NoEntry]
  /\ heapUsed' = 0
  /\ spilled' = 0
  /\ sink' = [f \in Frame |-> NoBytes]
  /\ UNCHANGED nextId

(* Refused is not untouched: the sink may have given copies up. *)
ClearRefused ==
  /\ HasSink /\ Unpinned
  /\ \E kept \in SUBSET Frame :
       sink' = [f \in Frame |-> IF f \in kept THEN sink[f] ELSE NoBytes]
  /\ entries' = [f \in Frame |-> [entries[f] EXCEPT !.sinkCopyIntact = FALSE]]
  /\ UNCHANGED <<heapUsed, spilled, nextId>>

Forget(f) ==
  /\ Demotable(f)
  /\ sink' = IF entries[f].inSink THEN [sink EXCEPT ![f] = NoBytes] ELSE sink
  /\ IF Resident(f)
     THEN heapUsed' = heapUsed - entries[f].size /\ UNCHANGED spilled
     ELSE spilled' = spilled - entries[f].size /\ UNCHANGED heapUsed
  /\ entries' = [entries EXCEPT ![f] = NoEntry]
  /\ UNCHANGED nextId

(* The process dies and another starts over what the sink kept. *)
Restart ==
  /\ entries' = [f \in Frame |-> NoEntry]
  /\ heapUsed' = 0
  /\ spilled' = 0
  /\ nextId' = 1
  /\ \E kept \in SUBSET Frame :
       sink' = [f \in Frame |-> IF f \in kept THEN sink[f] ELSE NoBytes]

FrameStep(f) ==
  \/ Pin(f) \/ Release(f) \/ DemoteToHeap(f) \/ PutBack(f)
  \/ Spill(f) \/ SpillRefused(f) \/ Forget(f)
  \/ \E pixels \in Pixels : Fill(f, pixels)
  \/ \E size \in Sizes : Adopt(f, size)

Next ==
  \/ \E size \in Sizes : Allocate(size)
  \/ \E f \in Frame : FrameStep(f)
  \/ Clear \/ ClearRefused \/ Restart

Spec == Init /\ [][Next]_vars

-----------------------------------------------------------------------------
(* A resident frame has bytes of its own size, and is pinned exactly while  *)
(* pins are out; a spilled one has none and is the sink's.                  *)
Shape(e) ==
  \/ e = NoEntry
  \/ /\ IsHeapTier(e.residency)
     /\ e.size \in Sizes /\ e.bytes \in Bytes /\ SizeOf(e.bytes) = e.size
     /\ e.pins > 0 <=> e.residency = "HeapPinned"
  \/ /\ e.residency = "Spilled"
     /\ e.size \in Sizes /\ e.bytes = NoBytes /\ e.inSink /\ e.pins = 0

(* The types, and the shape of every entry. *)
TypeOK ==
  /\ entries \in [Frame -> Entry]
  /\ \A f \in Frame : Shape(entries[f])
  /\ heapUsed \in Nat /\ spilled \in Nat
  /\ nextId \in 1..(MaxId + 1)
  /\ sink \in [Frame -> Bytes \cup {NoBytes}]

(* weight is added up, by a running tally over the identities that never    *)
(* falls, to total.                                                         *)
AddsUpTo(weight, total) ==
  \E tally \in [0..MaxId -> 0..total] :
    /\ tally[0] = 0 /\ tally[MaxId] = total
    /\ \A f \in Frame : tally[f] = tally[f - 1] + weight[f]
    /\ \A i, j \in 0..MaxId : i <= j => tally[i] <= tally[j]

HeapBytes(e) == IF IsHeapTier(e.residency) THEN e.size ELSE 0
SpilledBytes(e) == IF e.residency = "Spilled" THEN e.size ELSE 0

(* The two running totals are the sums they stand for, whatever calls were  *)
(* made and refused, and the heap never holds more than the ceiling: the    *)
(* totals are kept by difference, in six calls, and Budget() is trusted.    *)
BudgetExact ==
  /\ AddsUpTo([f \in Frame |-> HeapBytes(entries[f])], heapUsed)
  /\ AddsUpTo([f \in Frame |-> SpilledBytes(entries[f])], spilled)
  /\ heapUsed <= Ceiling

(* Pin promises its span until Release: no call on any frame, and no Clear, *)
(* takes a pinned frame's bytes away; only as many Releases as Pins do.     *)
PinOutlivesEveryCall ==
  [][\A f \in Frame :
       entries[f].pins > 0 /\ ~Restart =>
         \/ entries'[f].residency = "HeapPinned" /\ entries'[f].bytes # NoBytes
         \/ entries[f].pins = 1 /\ entries'[f].residency = "HeapEncoded"]_vars

(* The copy a put-back is allowed to count on is there and is what its hash *)
(* says: the flag is dropped by every call that may cost the sink the copy. *)
Vouched(e, copy) ==
  IsHeapTier(e.residency) /\ e.sinkCopyIntact =>
    e.inSink /\ Fits(copy, e) /\ HashOf[copy] = e.spilledHash

CopyVouchedFor == \A f \in Frame : Vouched(entries[f], sink[f])

(* ContentHash answers for a spilled frame with the hash of what the sink   *)
(* holds, unless the frame was adopted and never read since (the 0 of its   *)
(* document) or its copy is gone.                                           *)
Honest(e, copy) ==
  e.residency = "Spilled" /\ Fits(copy, e) /\ e.spilledHash # NoHash =>
    e.spilledHash = HashOf[copy]

HashHonest == \A f \in Frame : Honest(entries[f], sink[f])

(* Every identity still to be issued is free, also after frames were        *)
(* adopted under the identities of an earlier process.                      *)
IdentitiesFresh == \A f \in Frame : f >= nextId => ~Find(f)

(* What a holder of the frame would read, and the promise it keeps. *)
ContentOf(f) ==
  IF ~Find(f) THEN NoFrame
  ELSE IF Resident(f) THEN entries[f].bytes
  ELSE IF Readable(f) THEN sink[f] ELSE Lost

Archive == INSTANCE FrameArchive WITH
  Content <- Bytes,
  Blank <- Sizes \X {Zeroed},
  content <- [f \in Frame |-> ContentOf(f)],
  inHand <- {f \in Frame : Resident(f)}

(* The store implements the archive: tiers, the skipped write, a refused    *)
(* write and a refused clear never change or lose what a frame holds.       *)
KeepsEveryFrame == Archive!Spec
=============================================================================
