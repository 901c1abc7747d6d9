-------------------------- MODULE FrameStoreProofs --------------------------
(***************************************************************************)
(* Theorems about the frame store, for every number of frames, every set   *)
(* of sizes and every ceiling.  IInv is inductive; almost every action     *)
(* rewrites one entry, so the induction rests on one lemma about that      *)
(* (OneEntry) and one about the running totals (TallyUpdate).              *)
(***************************************************************************)
EXTENDS FrameStore, TLAPS

IInv == TypeOK /\ BudgetExact /\ CopyVouchedFor /\ HashHonest /\ IdentitiesFresh

-----------------------------------------------------------------------------
(* What the assumptions say of sizes and bytes. *)
LEMMA SizeFacts == \A s \in Sizes : s \in Nat /\ s > 0
BY FrameStoreAssumption

(* Bytes are told from the markers, and each has a size and a hash. *)
LEMMA BytesFacts ==
  /\ \A b \in Bytes : SizeOf(b) \in Sizes
  /\ \A s \in Sizes, p \in Pixels : <<s, p>> \in Bytes /\ SizeOf(<<s, p>>) = s
  /\ \A b \in Bytes : HashOf[b] \in Nat
  /\ NoBytes \notin Bytes
BY FrameStoreAssumption DEF Bytes, SizeOf

(* The absent entry is well shaped, weighs nothing and vouches for nothing. *)
LEMMA NoEntryFacts ==
  /\ NoEntry \in Entry /\ Shape(NoEntry) /\ NoEntry.residency = "Gone"
  /\ HeapBytes(NoEntry) = 0 /\ SpilledBytes(NoEntry) = 0
  /\ \A copy : Vouched(NoEntry, copy) /\ Honest(NoEntry, copy)
BY DEF NoEntry, Entry, Shape, HeapTiers, IsHeapTier, NoHash, HeapBytes, SpilledBytes,
   Vouched, Honest

(* What an entry is, from its residency alone. *)
LEMMA ShapeFacts ==
  ASSUME NEW e \in Entry, Shape(e)
  PROVE  /\ e.size \in Nat /\ e.pins \in Nat /\ e.spilledHash \in Nat
         /\ IsHeapTier(e.residency) =>
              /\ e.size \in Sizes /\ e.bytes \in Bytes /\ SizeOf(e.bytes) = e.size
              /\ e.pins > 0 <=> e.residency = "HeapPinned"
         /\ e.residency = "Spilled" =>
              e.size \in Sizes /\ e.bytes = NoBytes /\ e.inSink /\ e.pins = 0
         /\ e.residency = "Gone" => e = NoEntry
         /\ e.pins > 0 => e.residency = "HeapPinned"
BY DEF Entry, Shape, NoEntry, IsHeapTier, HeapTiers

-----------------------------------------------------------------------------
(* A running total that adds up still does when one weight changes and the  *)
(* total follows by the difference; and it never falls below the weight.    *)
LEMMA TallyUpdate ==
  ASSUME NEW w \in [Frame -> Nat], NEW total \in Nat, AddsUpTo(w, total),
         NEW f \in Frame, NEW n \in Nat
  PROVE  /\ total - w[f] + n \in Nat
         /\ AddsUpTo([w EXCEPT ![f] = n], total - w[f] + n)
<1> DEFINE new == total - w[f] + n
<1>1. PICK tally \in [0..MaxId -> 0..total] :
        /\ tally[0] = 0 /\ tally[MaxId] = total
        /\ \A g \in Frame : tally[g] = tally[g - 1] + w[g]
        /\ \A i, j \in 0..MaxId : i <= j => tally[i] <= tally[j]
  BY DEF AddsUpTo
<1>2. MaxId \in Nat /\ MaxId > 0 /\ f \in 1..MaxId /\ w[f] \in Nat
  BY FrameStoreAssumption DEF Frame
<1>3. ASSUME NEW i \in 0..MaxId PROVE tally[i] \in Nat /\ tally[i] <= total
  BY <1>1
<1>4. ASSUME NEW i \in 0..MaxId, i >= f PROVE tally[i] >= w[f]
  <2>1. f - 1 \in 0..MaxId /\ f \in 0..MaxId
    BY <1>2
  <2>2. tally[f] = tally[f - 1] + w[f] /\ tally[f] <= tally[i]
    BY <1>1, <1>2, <1>4, <2>1
  <2>3. tally[f - 1] \in Nat /\ tally[f] \in Nat /\ tally[i] \in Nat
    BY <1>3, <2>1
  <2> QED
    BY <1>2, <2>2, <2>3
<1>5. ASSUME NEW i \in 0..MaxId, i < f PROVE tally[i] <= total - w[f]
  <2>1. f - 1 \in 0..MaxId /\ f \in 0..MaxId /\ i <= f - 1 
    BY <1>2, <1>5
  <2>2. tally[f] = tally[f - 1] + w[f] /\ tally[i] <= tally[f - 1] /\ tally[f] <= total
    BY <1>1, <1>2, <1>3, <2>1
  <2> QED
    BY <1>2, <1>3, <2>1, <2>2
<1>6. new \in Nat
  BY <1>2, <1>3, <1>4
<1> DEFINE t == [i \in 0..MaxId |-> IF i < f THEN tally[i] ELSE tally[i] - w[f] + n]
<1>7. t \in [0..MaxId -> 0..new]
  BY <1>2, <1>3, <1>4, <1>5, <1>6
<1>8. t[0] = 0 /\ t[MaxId] = new
  BY <1>1, <1>2
<1>9. \A g \in Frame : t[g] = t[g - 1] + [w EXCEPT ![f] = n][g]
  <2> TAKE g \in Frame
  <2>1. g \in 0..MaxId /\ g - 1 \in 0..MaxId /\ w[g] \in Nat /\ tally[g] = tally[g - 1] + w[g]
    BY <1>1, <1>2 DEF Frame
  <2>2. tally[g] \in Nat /\ tally[g - 1] \in Nat
    BY <1>3, <2>1
  <2>3. CASE g < f
    BY <1>2, <2>1, <2>2, <2>3
  <2>4. CASE g = f
    BY <1>2, <2>1, <2>2, <2>4
  <2>5. CASE g > f
    BY <1>2, <2>1, <2>2, <2>5
  <2> QED
    BY <1>2, <2>1, <2>3, <2>4, <2>5
<1>10. \A i, j \in 0..MaxId : i <= j => t[i] <= t[j]
  <2> SUFFICES ASSUME NEW i \in 0..MaxId, NEW j \in 0..MaxId, i <= j PROVE t[i] <= t[j]
    OBVIOUS
  <2>1. CASE i < f /\ j >= f
    <3>1. tally[i] <= tally[f - 1] /\ tally[f] = tally[f - 1] + w[f] /\ tally[f] <= tally[j]
      BY <1>1, <1>2, <2>1
    <3> QED
      BY <1>2, <1>3, <2>1, <3>1
  <2>2. CASE ~(i < f /\ j >= f)
    BY <1>1, <1>2, <1>3, <2>2
  <2> QED
    BY <2>1, <2>2
<1>11. AddsUpTo([w EXCEPT ![f] = n], new)
  BY <1>7, <1>8, <1>9, <1>10 DEF AddsUpTo
<1> QED
  BY <1>6, <1>11

(* No frames weigh nothing. *)
LEMMA NothingAddsUp ==
  ASSUME NEW w \in [Frame -> {0}]
  PROVE  AddsUpTo(w, 0)
<1> DEFINE t == [i \in 0..MaxId |-> 0]
<1>1. /\ t \in [0..MaxId -> 0..0] /\ t[0] = 0 /\ t[MaxId] = 0
      /\ \A f \in Frame : t[f] = t[f - 1] + w[f]
      /\ \A i, j \in 0..MaxId : i <= j => t[i] <= t[j]
  BY FrameStoreAssumption DEF Frame
<1> QED
  BY <1>1 DEF AddsUpTo

-----------------------------------------------------------------------------
(* A step that rewrites one entry to a well-shaped one, moves the totals by *)
(* the difference and touches no other frame's copy keeps the invariant.    *)
LEMMA OneEntry ==
  ASSUME IInv, NEW f \in Frame, NEW e \in Entry, Shape(e),
         entries' = [entries EXCEPT ![f] = e],
         heapUsed' = heapUsed - HeapBytes(entries[f]) + HeapBytes(e),
         spilled' = spilled - SpilledBytes(entries[f]) + SpilledBytes(e),
         heapUsed' <= Ceiling,
         sink' \in [Frame -> Bytes \cup {NoBytes}],
         \A g \in Frame \ {f} : sink'[g] = sink[g],
         Vouched(e, sink'[f]), Honest(e, sink'[f]),
         nextId' \in 1..(MaxId + 1), nextId' >= nextId,
         e.residency # "Gone" => f < nextId'
  PROVE  IInv'
<1>1. entries \in [Frame -> Entry] /\ nextId \in Nat /\ \A g \in Frame : Shape(entries[g])
  BY FrameStoreAssumption DEF IInv, TypeOK
<1>2. /\ entries'[f] = e
      /\ \A g \in Frame \ {f} : entries'[g] = entries[g]
      /\ entries' \in [Frame -> Entry]
  BY <1>1
<1>3. HeapBytes(e) \in Nat /\ SpilledBytes(e) \in Nat
  BY ShapeFacts DEF HeapBytes, SpilledBytes
<1>4. \A g \in Frame : HeapBytes(entries[g]) \in Nat /\ SpilledBytes(entries[g]) \in Nat
  BY <1>1 DEF HeapBytes, SpilledBytes, Entry
<1>5. BudgetExact' /\ heapUsed' \in Nat /\ spilled' \in Nat
  <2> DEFINE hw == [g \in Frame |-> HeapBytes(entries[g])]
             sw == [g \in Frame |-> SpilledBytes(entries[g])]
  <2>1. hw \in [Frame -> Nat] /\ sw \in [Frame -> Nat]
    BY <1>4
  <2>2. AddsUpTo(hw, heapUsed) /\ AddsUpTo(sw, spilled)
    BY DEF IInv, BudgetExact
  <2>3. heapUsed \in Nat /\ spilled \in Nat
    BY DEF IInv, TypeOK
  <2>4. [g \in Frame |-> HeapBytes(entries'[g])] = [hw EXCEPT ![f] = HeapBytes(e)]
    BY <1>2
  <2>5. [g \in Frame |-> SpilledBytes(entries'[g])] = [sw EXCEPT ![f] = SpilledBytes(e)]
    BY <1>2
  <2>6. hw[f] = HeapBytes(entries[f]) /\ sw[f] = SpilledBytes(entries[f])
    OBVIOUS
  <2> HIDE DEF hw, sw
  <2>7. heapUsed' \in Nat /\ AddsUpTo([hw EXCEPT ![f] = HeapBytes(e)], heapUsed')
    BY <1>3, <2>1, <2>2, <2>3, <2>6, TallyUpdate
  <2>8. spilled' \in Nat /\ AddsUpTo([sw EXCEPT ![f] = SpilledBytes(e)], spilled')
    BY <1>3, <2>1, <2>2, <2>3, <2>6, TallyUpdate
  <2>9. AddsUpTo([g \in Frame |-> HeapBytes(entries'[g])], heapUsed')
    BY <2>4, <2>7
  <2>10. AddsUpTo([g \in Frame |-> SpilledBytes(entries'[g])], spilled')
    BY <2>5, <2>8
  <2> QED
    BY <2>7, <2>8, <2>9, <2>10 DEF BudgetExact, AddsUpTo
<1>6. TypeOK'
  BY <1>1, <1>2, <1>5 DEF TypeOK
<1>7. CopyVouchedFor' /\ HashHonest'
  <2>1. ASSUME NEW g \in Frame \ {f}
        PROVE  Vouched(entries'[g], sink'[g]) /\ Honest(entries'[g], sink'[g])
    BY <1>2 DEF IInv, CopyVouchedFor, HashHonest
  <2> QED
    BY <1>2, <2>1 DEF CopyVouchedFor, HashHonest
<1>8. IdentitiesFresh'
  <2> SUFFICES ASSUME NEW g \in Frame, g >= nextId' PROVE entries'[g].residency = "Gone"
    BY DEF IdentitiesFresh, Find
  <2>1. CASE g = f
    BY <1>2, <2>1 DEF Frame
  <2>2. CASE g # f
    <3>1. g >= nextId
      BY <1>1 DEF Frame
    <3> QED
      BY <1>2, <2>2, <3>1 DEF IInv, IdentitiesFresh, Find
  <2> QED
    BY <2>1, <2>2
<1> QED
  BY <1>5, <1>6, <1>7, <1>8 DEF IInv

(* The invariant, spelled out at one frame. *)
LEMMA AtFrame ==
  ASSUME IInv, NEW f \in Frame
  PROVE  /\ entries[f] \in Entry /\ Shape(entries[f])
         /\ Vouched(entries[f], sink[f]) /\ Honest(entries[f], sink[f])
         /\ sink \in [Frame -> Bytes \cup {NoBytes}]
         /\ sink[f] \in Bytes \cup {NoBytes}
         /\ heapUsed \in Nat /\ heapUsed <= Ceiling /\ spilled \in Nat
         /\ nextId \in 1..(MaxId + 1) /\ nextId \in Nat /\ f \in Nat
         /\ Find(f) => f < nextId
BY FrameStoreAssumption DEF IInv, TypeOK, BudgetExact, CopyVouchedFor, HashHonest,
   IdentitiesFresh, Frame

(* FaultIn hands back an entry of the same size and tier, with bytes, and   *)
(* its copy vouched for.                                                    *)
LEMMA FaultedInFacts ==
  ASSUME IInv, NEW f \in Frame, Find(f), CanFaultIn(f)
  PROVE  LET e == FaultedIn(f) IN
         /\ e \in Entry /\ e.size = entries[f].size /\ e.residency = entries[f].residency
         /\ e.pins = entries[f].pins
         /\ e.size \in Sizes /\ e.bytes \in Bytes /\ SizeOf(e.bytes) = e.size
         /\ e.sinkCopyIntact =>
              e.inSink /\ Fits(sink[f], e) /\ HashOf[sink[f]] = e.spilledHash
<1>1. /\ entries[f] \in Entry /\ Shape(entries[f]) /\ Vouched(entries[f], sink[f])
      /\ sink[f] \in Bytes \cup {NoBytes}
  BY AtFrame
<1>2. CASE IsSpilled(f)
  <2>1. sink[f] \in Bytes /\ SizeOf(sink[f]) = entries[f].size /\ HashOf[sink[f]] \in Nat
    BY <1>2, BytesFacts DEF CanFaultIn, Readable, Fits
  <2> QED
    BY <1>1, <1>2, <2>1, ShapeFacts DEF FaultedIn, Entry, Fits, IsSpilled
<1>3. CASE ~IsSpilled(f)
  <2>1. IsHeapTier(entries[f].residency)
    BY <1>1, <1>3 DEF Find, IsSpilled, IsHeapTier, HeapTiers, Entry
  <2> QED
    BY <1>1, <1>3, <2>1, ShapeFacts DEF FaultedIn, Vouched
<1> QED
  BY <1>2, <1>3

-----------------------------------------------------------------------------
(* One lemma per action: it keeps the inductive invariant. *)
LEMMA InitIInv == Init => IInv
<1> SUFFICES ASSUME Init PROVE IInv
  OBVIOUS
<1>1. TypeOK
  BY NoEntryFacts, FrameStoreAssumption DEF Init, TypeOK
<1>2. BudgetExact
  <2> DEFINE hw == [f \in Frame |-> HeapBytes(entries[f])]
             sw == [f \in Frame |-> SpilledBytes(entries[f])]
  <2>1. hw \in [Frame -> {0}] /\ sw \in [Frame -> {0}]
    BY NoEntryFacts DEF Init
  <2>2. AddsUpTo(hw, 0) /\ AddsUpTo(sw, 0)
    BY <2>1, NothingAddsUp
  <2> QED
    BY <2>2, FrameStoreAssumption DEF Init, BudgetExact
<1>3. CopyVouchedFor /\ HashHonest /\ IdentitiesFresh
  BY NoEntryFacts DEF Init, CopyVouchedFor, HashHonest, IdentitiesFresh, Find
<1> QED
  BY <1>1, <1>2, <1>3 DEF IInv

(* The same for a step that is a Reclassify: the tier the entry goes to     *)
(* says what it must have.                                                  *)
LEMMA ReclassifyIInv ==
  ASSUME IInv, NEW f \in Frame, Find(f), NEW e \in Entry, NEW target \in HeapTiers \cup {"Spilled"},
         e.size = entries[f].size, e.residency = entries[f].residency,
         Reclassify(f, e, target), nextId' = nextId,
         sink' \in [Frame -> Bytes \cup {NoBytes}],
         \A g \in Frame \ {f} : sink'[g] = sink[g],
         target \in HeapTiers =>
           /\ IsSpilled(f) => heapUsed + e.size <= Ceiling
           /\ e.bytes \in Bytes /\ SizeOf(e.bytes) = e.size
           /\ e.pins > 0 <=> target = "HeapPinned"
           /\ e.sinkCopyIntact =>
                e.inSink /\ Fits(sink'[f], e) /\ HashOf[sink'[f]] = e.spilledHash,
         target = "Spilled" =>
           /\ e.bytes = NoBytes /\ e.inSink /\ e.pins = 0
           /\ Fits(sink'[f], e) /\ e.spilledHash # NoHash => e.spilledHash = HashOf[sink'[f]]
  PROVE  IInv'
<1> DEFINE new == [e EXCEPT !.residency = target]
<1>1. /\ new \in Entry /\ entries' = [entries EXCEPT ![f] = new]
      /\ heapUsed' = heapUsed - HeapBytes(entries[f]) + HeapBytes(new)
      /\ spilled' = spilled - SpilledBytes(entries[f]) + SpilledBytes(new)
      /\ heapUsed' <= Ceiling
  <2>1. /\ new \in Entry /\ new.size = e.size /\ new.residency = target
        /\ entries' = [entries EXCEPT ![f] = new]
    BY DEF Entry, Reclassify
  <2>2. /\ entries[f] \in Entry /\ heapUsed \in Nat /\ spilled \in Nat
        /\ heapUsed <= Ceiling /\ Ceiling \in Nat /\ e.size \in Nat
    BY AtFrame, FrameStoreAssumption DEF Entry
  <2>3. e.residency \in HeapTiers \cup {"Spilled"}
    BY <2>2 DEF Find, Entry
  <2>4. IsSpilled(f) /\ IsHeapTier(target) => heapUsed + e.size <= Ceiling
    BY DEF IsHeapTier
  <2> HIDE DEF new
  <2>5. /\ HeapBytes(entries[f]) = IF IsHeapTier(e.residency) THEN e.size ELSE 0
        /\ SpilledBytes(entries[f]) = IF IsHeapTier(e.residency) THEN 0 ELSE e.size
        /\ HeapBytes(new) = IF IsHeapTier(target) THEN e.size ELSE 0
        /\ SpilledBytes(new) = IF IsHeapTier(target) THEN 0 ELSE e.size
    BY <2>1, <2>3 DEF HeapBytes, SpilledBytes, IsHeapTier, HeapTiers
  <2>6. IsHeapTier(target) /\ ~IsHeapTier(e.residency) => IsSpilled(f)
    BY <2>3 DEF IsHeapTier, IsSpilled
  <2>7. \/ /\ IsHeapTier(e.residency) <=> IsHeapTier(target)
           /\ heapUsed' = heapUsed /\ spilled' = spilled
        \/ /\ ~IsHeapTier(e.residency) /\ IsHeapTier(target)
           /\ spilled' = spilled - e.size /\ heapUsed' = heapUsed + e.size
        \/ /\ IsHeapTier(e.residency) /\ ~IsHeapTier(target)
           /\ heapUsed' = heapUsed - e.size /\ spilled' = spilled + e.size
    BY DEF Reclassify
  <2> QED
    BY <2>1, <2>2, <2>4, <2>5, <2>6, <2>7
<1>2. /\ new.residency = target /\ new.size = e.size /\ new.bytes = e.bytes
      /\ new.pins = e.pins /\ new.inSink = e.inSink /\ new.spilledHash = e.spilledHash
      /\ new.sinkCopyIntact = e.sinkCopyIntact
  BY DEF Entry
<1>3. e.size \in Sizes
  <2>1. entries[f] \in Entry /\ Shape(entries[f]) /\ entries[f].residency # "Gone"
    BY AtFrame DEF Find
  <2>2. IsHeapTier(entries[f].residency) \/ entries[f].residency = "Spilled"
    BY <2>1 DEF Entry, IsHeapTier
  <2> QED
    BY <2>1, <2>2, ShapeFacts
<1> HIDE DEF new
<1>4. Shape(new)
  BY <1>2, <1>3 DEF Shape, IsHeapTier, HeapTiers
<1>5. Vouched(new, sink'[f]) /\ Honest(new, sink'[f]) /\ new.residency # "Gone"
  BY <1>2 DEF Vouched, Honest, IsHeapTier, HeapTiers, Fits
<1>6. nextId' \in 1..(MaxId + 1) /\ nextId' >= nextId /\ f < nextId'
  BY AtFrame
<1> QED
  BY <1>1, <1>4, <1>5, <1>6, OneEntry

(* Allocate: the next identity is free, and the ceiling was checked first. *)
LEMMA AllocateIInv == ASSUME IInv, NEW size \in Sizes, Allocate(size) PROVE IInv'
<1> DEFINE e == [NoEntry EXCEPT !.size = size, !.bytes = <<size, Zeroed>>,
                                !.residency = "HeapEncoded"]
<1>1. nextId \in Frame
  BY FrameStoreAssumption DEF Allocate, IInv, TypeOK, Frame
<1>2. entries[nextId] = NoEntry
  BY <1>1, AtFrame, ShapeFacts DEF Find
<1>3. size \in Nat /\ <<size, Zeroed>> \in Bytes /\ SizeOf(<<size, Zeroed>>) = size
  BY BytesFacts, SizeFacts, FrameStoreAssumption
<1>4. /\ e \in Entry /\ e.size = size /\ e.bytes = <<size, Zeroed>> /\ e.pins = 0
      /\ e.residency = "HeapEncoded" /\ e.sinkCopyIntact = FALSE
  BY <1>3, NoEntryFacts DEF NoEntry, Entry, HeapTiers
<1>5. entries' = [entries EXCEPT ![nextId] = e]
  BY DEF Allocate
<1> HIDE DEF e
<1>6. Shape(e) /\ HeapBytes(e) = size /\ SpilledBytes(e) = 0 /\ e.residency # "Gone"
  BY <1>3, <1>4 DEF Shape, HeapBytes, SpilledBytes, IsHeapTier, HeapTiers
<1>7. Vouched(e, sink'[nextId]) /\ Honest(e, sink'[nextId])
  BY <1>4 DEF Vouched, Honest
<1>8. /\ heapUsed' = heapUsed - HeapBytes(entries[nextId]) + HeapBytes(e)
      /\ spilled' = spilled - SpilledBytes(entries[nextId]) + SpilledBytes(e)
      /\ heapUsed' <= Ceiling
  BY <1>1, <1>2, <1>3, <1>6, NoEntryFacts, AtFrame DEF Allocate
<1>9. /\ sink' \in [Frame -> Bytes \cup {NoBytes}]
      /\ \A g \in Frame \ {nextId} : sink'[g] = sink[g]
      /\ nextId' \in 1..(MaxId + 1) /\ nextId' >= nextId /\ nextId < nextId'
  BY <1>1, AtFrame, FrameStoreAssumption DEF Allocate
<1> QED
  BY <1>1, <1>4, <1>5, <1>6, <1>7, <1>8, <1>9, OneEntry

(* Pin: a spilled frame is faulted in under the ceiling. *)
LEMMA PinIInv == ASSUME IInv, NEW f \in Frame, Pin(f) PROVE IInv'
<1> DEFINE e == [FaultedIn(f) EXCEPT !.pins = @ + 1]
<1>1. Find(f) /\ CanFaultIn(f) /\ Reclassify(f, e, "HeapPinned") /\ nextId' = nextId /\ sink' = sink
  BY DEF Pin
<1>2. /\ e \in Entry /\ e.size = entries[f].size /\ e.residency = entries[f].residency
      /\ e.bytes \in Bytes /\ SizeOf(e.bytes) = e.size /\ e.pins > 0
      /\ e.sinkCopyIntact => e.inSink /\ Fits(sink[f], e) /\ HashOf[sink[f]] = e.spilledHash
  BY <1>1, FaultedInFacts DEF Entry, Fits
<1>3. IsSpilled(f) => heapUsed + e.size <= Ceiling
  BY <1>1, <1>2 DEF CanFaultIn
<1> HIDE DEF e
<1> QED
  BY <1>1, <1>2, <1>3, ReclassifyIInv, AtFrame DEF HeapTiers

(* Writing through a pin changes bytes and neither total. *)
LEMMA FillIInv ==
  ASSUME IInv, NEW f \in Frame, NEW pixels \in Pixels, Fill(f, pixels) PROVE IInv'
<1> DEFINE e == [entries[f] EXCEPT !.bytes = <<entries[f].size, pixels>>]
<1>1. /\ entries[f] \in Entry /\ Shape(entries[f]) /\ entries[f].pins > 0
      /\ Vouched(entries[f], sink[f])
  BY AtFrame DEF Fill
<1>2. entries[f].residency = "HeapPinned" /\ entries[f].size \in Sizes
  BY <1>1, ShapeFacts DEF IsHeapTier, HeapTiers
<1>3. <<entries[f].size, pixels>> \in Bytes /\ SizeOf(<<entries[f].size, pixels>>) = entries[f].size
  BY <1>2, BytesFacts
<1>4. /\ e \in Entry /\ e.bytes = <<entries[f].size, pixels>> /\ e.size = entries[f].size
      /\ e.pins = entries[f].pins /\ e.residency = "HeapPinned" /\ e.inSink = entries[f].inSink
      /\ e.sinkCopyIntact = entries[f].sinkCopyIntact /\ e.spilledHash = entries[f].spilledHash
      /\ entries' = [entries EXCEPT ![f] = e]
  BY <1>1, <1>2, <1>3 DEF Entry, Fill, IInv, TypeOK
<1> HIDE DEF e
<1>5. Shape(e) /\ Vouched(e, sink[f]) /\ Honest(e, sink[f]) /\ e.residency # "Gone"
  BY <1>1, <1>2, <1>3, <1>4 DEF Shape, Vouched, Honest, Fits, IsHeapTier, HeapTiers
<1>6. HeapBytes(e) = HeapBytes(entries[f]) /\ SpilledBytes(e) = SpilledBytes(entries[f])
      /\ HeapBytes(e) \in Nat /\ SpilledBytes(e) \in Nat
  BY <1>1, <1>2, <1>4, SizeFacts DEF HeapBytes, SpilledBytes, IsHeapTier, HeapTiers
<1>7. /\ heapUsed' = heapUsed - HeapBytes(entries[f]) + HeapBytes(e)
      /\ spilled' = spilled - SpilledBytes(entries[f]) + SpilledBytes(e)
      /\ heapUsed' <= Ceiling
  BY <1>6, AtFrame DEF Fill
<1>8. nextId' = nextId /\ sink' = sink /\ f < nextId
  BY <1>2, AtFrame DEF Fill, Find
<1>9. /\ sink' \in [Frame -> Bytes \cup {NoBytes}] /\ \A g \in Frame \ {f} : sink'[g] = sink[g]
      /\ nextId' \in 1..(MaxId + 1) /\ nextId' >= nextId /\ f < nextId'
  BY <1>8, AtFrame
<1>10. Vouched(e, sink'[f]) /\ Honest(e, sink'[f])
  BY <1>5, <1>8
<1> QED
  BY <1>4, <1>5, <1>7, <1>9, <1>10, OneEntry

(* Release: the tier follows the last pin. *)
LEMMA ReleaseIInv == ASSUME IInv, NEW f \in Frame, Release(f) PROVE IInv'
<1> DEFINE e == [entries[f] EXCEPT !.pins = @ - 1]
           target == IF e.pins = 0 THEN "HeapEncoded" ELSE e.residency
<1>1. /\ entries[f] \in Entry /\ Shape(entries[f]) /\ entries[f].pins > 0
      /\ Vouched(entries[f], sink[f])
      /\ Reclassify(f, e, target) /\ nextId' = nextId /\ sink' = sink
  BY AtFrame DEF Release
<1>2. entries[f].residency = "HeapPinned" /\ Find(f) /\ ~IsSpilled(f)
  BY <1>1, ShapeFacts DEF Find, IsSpilled
<1>3. /\ e \in Entry /\ e.size = entries[f].size /\ e.residency = entries[f].residency
      /\ e.bytes = entries[f].bytes /\ e.inSink = entries[f].inSink /\ e.pins \in Nat
      /\ e.sinkCopyIntact = entries[f].sinkCopyIntact /\ e.spilledHash = entries[f].spilledHash
  BY <1>1 DEF Entry
<1>4. e.bytes \in Bytes /\ SizeOf(e.bytes) = e.size
  BY <1>1, <1>2, <1>3, ShapeFacts DEF IsHeapTier, HeapTiers
<1> HIDE DEF e
<1>5. target \in HeapTiers /\ (e.pins > 0 <=> target = "HeapPinned")
  BY <1>2, <1>3 DEF HeapTiers
<1>6. e.sinkCopyIntact => e.inSink /\ Fits(sink[f], e) /\ HashOf[sink[f]] = e.spilledHash
  BY <1>1, <1>2, <1>3 DEF Vouched, Fits, IsHeapTier, HeapTiers
<1> HIDE DEF target
<1> QED
  BY <1>1, <1>2, <1>3, <1>4, <1>5, <1>6, ReclassifyIInv, AtFrame DEF HeapTiers

(* Demote to the heap, from either side. *)
LEMMA DemoteToHeapIInv == ASSUME IInv, NEW f \in Frame, DemoteToHeap(f) PROVE IInv'
<1> DEFINE e == FaultedIn(f)
<1>1. /\ Find(f) /\ CanFaultIn(f) /\ entries[f].pins = 0
      /\ Reclassify(f, e, "HeapEncoded") /\ nextId' = nextId /\ sink' = sink
  BY DEF DemoteToHeap, Demotable
<1>2. /\ e \in Entry /\ e.size = entries[f].size /\ e.residency = entries[f].residency
      /\ e.bytes \in Bytes /\ SizeOf(e.bytes) = e.size /\ e.pins = 0
      /\ e.sinkCopyIntact => e.inSink /\ Fits(sink[f], e) /\ HashOf[sink[f]] = e.spilledHash
  BY <1>1, FaultedInFacts
<1>3. IsSpilled(f) => heapUsed + e.size <= Ceiling
  BY <1>1, <1>2 DEF CanFaultIn
<1> HIDE DEF e
<1> QED
  BY <1>1, <1>2, <1>3, ReclassifyIInv, AtFrame DEF HeapTiers

(* Demote to the sink of a resident frame: what both ways there start from. *)
LEMMA LeavesHeap ==
  ASSUME IInv, NEW f \in Frame, Demotable(f), Resident(f)
  PROVE  /\ Find(f) /\ ~IsSpilled(f) /\ entries[f].pins = 0
         /\ entries[f].bytes \in Bytes /\ SizeOf(entries[f].bytes) = entries[f].size
         /\ HashOf[entries[f].bytes] \in Nat
BY AtFrame, ShapeFacts, BytesFacts DEF Demotable, Resident, IsSpilled, IsHeapTier, HeapTiers

(* The skipped write: the copy in the sink is what the frame held. *)
LEMMA PutBackIInv == ASSUME IInv, NEW f \in Frame, PutBack(f) PROVE IInv'
<1> DEFINE e == [entries[f] EXCEPT !.bytes = NoBytes]
<1>1. /\ Demotable(f) /\ Resident(f) /\ CopyStands(f) /\ Find(f) /\ entries[f].pins = 0
      /\ Reclassify(f, e, "Spilled") /\ nextId' = nextId /\ sink' = sink
  BY DEF PutBack, Demotable
<1>2. entries[f] \in Entry /\ Vouched(entries[f], sink[f])
  BY AtFrame
<1>3. /\ e \in Entry /\ e.size = entries[f].size /\ e.residency = entries[f].residency
      /\ e.bytes = NoBytes /\ e.pins = 0 /\ e.inSink = entries[f].inSink
      /\ e.spilledHash = entries[f].spilledHash
  BY <1>1, <1>2 DEF Entry
<1>4. entries[f].inSink /\ HashOf[sink[f]] = entries[f].spilledHash
  BY <1>1, <1>2 DEF CopyStands, Vouched, Resident
<1> HIDE DEF e
<1> QED
  BY <1>1, <1>3, <1>4, ReclassifyIInv, AtFrame DEF HeapTiers

(* The write that succeeded: the copy and its hash are of the same bytes. *)
LEMMA SpillIInv == ASSUME IInv, NEW f \in Frame, Spill(f) PROVE IInv'
<1> DEFINE e == [entries[f] EXCEPT !.bytes = NoBytes, !.inSink = TRUE,
                                   !.spilledHash = HashOf[entries[f].bytes]]
<1>1. /\ Demotable(f) /\ Resident(f) /\ Reclassify(f, e, "Spilled") /\ nextId' = nextId
      /\ sink' = [sink EXCEPT ![f] = entries[f].bytes]
  BY DEF Spill
<1>2. /\ Find(f) /\ entries[f].pins = 0 /\ entries[f].bytes \in Bytes
      /\ HashOf[entries[f].bytes] \in Nat /\ entries[f] \in Entry
      /\ sink \in [Frame -> Bytes \cup {NoBytes}]
  BY <1>1, LeavesHeap, AtFrame
<1>3. /\ e \in Entry /\ e.size = entries[f].size /\ e.residency = entries[f].residency
      /\ e.bytes = NoBytes /\ e.pins = 0 /\ e.inSink
      /\ e.spilledHash = HashOf[entries[f].bytes]
  BY <1>2 DEF Entry
<1>4. /\ sink' \in [Frame -> Bytes \cup {NoBytes}] /\ sink'[f] = entries[f].bytes
      /\ \A g \in Frame \ {f} : sink'[g] = sink[g]
  BY <1>1, <1>2
<1> HIDE DEF e
<1> QED
  BY <1>1, <1>2, <1>3, <1>4, ReclassifyIInv DEF HeapTiers

(* The write that was refused: nothing vouches for the copy any more. *)
LEMMA SpillRefusedIInv == ASSUME IInv, NEW f \in Frame, SpillRefused(f) PROVE IInv'
<1> DEFINE e == [entries[f] EXCEPT !.sinkCopyIntact = FALSE]
<1>1. /\ Demotable(f) /\ Resident(f) /\ nextId' = nextId /\ UNCHANGED <<heapUsed, spilled>>
      /\ \E left \in {sink[f], NoBytes} : sink' = [sink EXCEPT ![f] = left]
  BY DEF SpillRefused
<1>2. entries[f] \in Entry /\ Shape(entries[f]) /\ Find(f) /\ ~IsSpilled(f) /\ f < nextId
  BY <1>1, LeavesHeap, AtFrame
<1>3. /\ e \in Entry /\ e.size = entries[f].size /\ e.residency = entries[f].residency
      /\ e.bytes = entries[f].bytes /\ e.pins = entries[f].pins /\ e.sinkCopyIntact = FALSE
      /\ entries' = [entries EXCEPT ![f] = e]
  BY <1>2 DEF Entry, SpillRefused
<1> HIDE DEF e
<1>4. Shape(e) /\ Vouched(e, sink'[f]) /\ Honest(e, sink'[f]) /\ e.residency # "Gone"
  BY <1>1, <1>2, <1>3, ShapeFacts DEF Shape, Vouched, Honest, Resident,
     IsSpilled, IsHeapTier, HeapTiers
<1>5. HeapBytes(e) = HeapBytes(entries[f]) /\ SpilledBytes(e) = SpilledBytes(entries[f])
      /\ HeapBytes(e) \in Nat /\ SpilledBytes(e) \in Nat
  BY <1>2, <1>3, ShapeFacts DEF HeapBytes, SpilledBytes
<1>6. /\ sink' \in [Frame -> Bytes \cup {NoBytes}]
      /\ \A g \in Frame \ {f} : sink'[g] = sink[g]
  BY <1>1, AtFrame
<1>7. /\ heapUsed' = heapUsed - HeapBytes(entries[f]) + HeapBytes(e)
      /\ spilled' = spilled - SpilledBytes(entries[f]) + SpilledBytes(e)
      /\ heapUsed' <= Ceiling
  BY <1>1, <1>5, AtFrame
<1>8. nextId' \in 1..(MaxId + 1) /\ nextId' >= nextId /\ f < nextId'
  BY <1>1, <1>2, AtFrame
<1> QED
  BY <1>3, <1>4, <1>6, <1>7, <1>8, OneEntry

(* Adopt: the counter is past the identity it took back. *)
LEMMA AdoptIInv == ASSUME IInv, NEW f \in Frame, NEW size \in Sizes, Adopt(f, size) PROVE IInv'
<1> DEFINE e == [NoEntry EXCEPT !.size = size, !.spilledHash = NoHash, !.inSink = TRUE,
                                !.residency = "Spilled"]
<1>1. entries[f] = NoEntry
  BY AtFrame, ShapeFacts DEF Adopt, Find
<1>2. size \in Nat
  BY SizeFacts
<1>3. /\ e \in Entry /\ e.size = size /\ e.bytes = NoBytes /\ e.pins = 0 /\ e.inSink
      /\ e.residency = "Spilled" /\ e.spilledHash = NoHash
  BY <1>2, NoEntryFacts DEF NoEntry, Entry, NoHash
<1>4. entries' = [entries EXCEPT ![f] = e]
  BY DEF Adopt
<1> HIDE DEF e
<1>5. Shape(e) /\ HeapBytes(e) = 0 /\ SpilledBytes(e) = size /\ e.residency # "Gone"
  BY <1>2, <1>3 DEF Shape, HeapBytes, SpilledBytes, IsHeapTier, HeapTiers
<1>6. Vouched(e, sink'[f]) /\ Honest(e, sink'[f])
  BY <1>3 DEF Vouched, Honest, IsHeapTier, HeapTiers
<1>7. /\ heapUsed' = heapUsed - HeapBytes(entries[f]) + HeapBytes(e)
      /\ spilled' = spilled - SpilledBytes(entries[f]) + SpilledBytes(e)
      /\ heapUsed' <= Ceiling
  BY <1>1, <1>2, <1>5, NoEntryFacts, AtFrame DEF Adopt
<1>8. /\ sink' = sink /\ nextId' \in 1..(MaxId + 1) /\ nextId' >= nextId /\ f < nextId'
  BY AtFrame, FrameStoreAssumption DEF Adopt, Frame
<1> QED
  BY <1>3, <1>4, <1>5, <1>6, <1>7, <1>8, AtFrame, OneEntry

(* Forget: the total of the tier the frame was in gives up its bytes. *)
LEMMA ForgetIInv == ASSUME IInv, NEW f \in Frame, Forget(f) PROVE IInv'
<1>1. /\ entries[f] \in Entry /\ Shape(entries[f]) /\ Find(f) /\ entries[f].size \in Nat
      /\ heapUsed \in Nat /\ heapUsed <= Ceiling /\ spilled \in Nat
  BY AtFrame, ShapeFacts DEF Forget, Demotable
<1>2. /\ entries' = [entries EXCEPT ![f] = NoEntry] /\ nextId' = nextId
      /\ sink' = IF entries[f].inSink THEN [sink EXCEPT ![f] = NoBytes] ELSE sink
  BY DEF Forget
<1>3. /\ sink' \in [Frame -> Bytes \cup {NoBytes}]
      /\ \A g \in Frame \ {f} : sink'[g] = sink[g]
  BY <1>2, AtFrame
<1>4. /\ heapUsed' = heapUsed - HeapBytes(entries[f]) + HeapBytes(NoEntry)
      /\ spilled' = spilled - SpilledBytes(entries[f]) + SpilledBytes(NoEntry)
      /\ heapUsed' <= Ceiling
  <2>1. CASE Resident(f)
    <3>1. HeapBytes(entries[f]) = entries[f].size /\ SpilledBytes(entries[f]) = 0
      BY <2>1 DEF Resident, HeapBytes, SpilledBytes, IsHeapTier, HeapTiers
    <3>2. heapUsed' = heapUsed - entries[f].size /\ spilled' = spilled
      BY <2>1 DEF Forget
    <3> QED
      BY <1>1, <3>1, <3>2, NoEntryFacts, FrameStoreAssumption
  <2>2. CASE ~Resident(f)
    <3>1. HeapBytes(entries[f]) = 0 /\ SpilledBytes(entries[f]) = entries[f].size
      BY <1>1, <2>2 DEF Resident, HeapBytes, SpilledBytes, IsHeapTier, Find, Entry
    <3>2. spilled' = spilled - entries[f].size /\ heapUsed' = heapUsed
      BY <2>2 DEF Forget
    <3> QED
      BY <1>1, <3>1, <3>2, NoEntryFacts
  <2> QED
    BY <2>1, <2>2
<1>5. nextId' \in 1..(MaxId + 1) /\ nextId' >= nextId
  BY <1>2, AtFrame
<1> QED
  BY <1>2, <1>3, <1>4, <1>5, NoEntryFacts, OneEntry

(* A cleared store, or a new process, has no entries at all. *)
LEMMA NoEntriesIInv ==
  ASSUME entries' = [f \in Frame |-> NoEntry], heapUsed' = 0, spilled' = 0,
         nextId' \in 1..(MaxId + 1), sink' \in [Frame -> Bytes \cup {NoBytes}]
  PROVE  IInv'
<1>1. TypeOK'
  BY NoEntryFacts DEF TypeOK
<1>2. BudgetExact'
  <2> DEFINE hw == [f \in Frame |-> HeapBytes(entries'[f])]
             sw == [f \in Frame |-> SpilledBytes(entries'[f])]
  <2>1. hw \in [Frame -> {0}] /\ sw \in [Frame -> {0}]
    BY NoEntryFacts
  <2>2. AddsUpTo(hw, 0) /\ AddsUpTo(sw, 0)
    BY <2>1, NothingAddsUp
  <2> QED
    BY <2>2, FrameStoreAssumption DEF BudgetExact, AddsUpTo
<1>3. CopyVouchedFor' /\ HashHonest' /\ IdentitiesFresh'
  BY NoEntryFacts DEF CopyVouchedFor, HashHonest, IdentitiesFresh, Find
<1> QED
  BY <1>1, <1>2, <1>3 DEF IInv

(* Clear: nothing is left. *)
LEMMA ClearIInv == ASSUME IInv, Clear PROVE IInv'
<1>1. nextId' \in 1..(MaxId + 1)
  BY DEF Clear, IInv, TypeOK
<1>2. sink' \in [Frame -> Bytes \cup {NoBytes}]
  BY DEF Clear
<1> QED
  BY <1>1, <1>2, NoEntriesIInv DEF Clear

(* A new process starts with nothing, over whatever the sink kept. *)
LEMMA RestartIInv == ASSUME IInv, Restart PROVE IInv'
<1>1. nextId' \in 1..(MaxId + 1)
  BY FrameStoreAssumption DEF Restart
<1>2. sink' \in [Frame -> Bytes \cup {NoBytes}]
  BY DEF Restart, IInv, TypeOK
<1> QED
  BY <1>1, <1>2, NoEntriesIInv DEF Restart

(* A refused Clear: copies may be gone, so none is vouched for. *)
LEMMA ClearRefusedIInv == ASSUME IInv, ClearRefused PROVE IInv'
<1>1. PICK kept \in SUBSET Frame :
        sink' = [f \in Frame |-> IF f \in kept THEN sink[f] ELSE NoBytes]
  BY DEF ClearRefused
<1>2. /\ entries' = [f \in Frame |-> [entries[f] EXCEPT !.sinkCopyIntact = FALSE]]
      /\ UNCHANGED <<heapUsed, spilled, nextId>>
  BY DEF ClearRefused
<1>3. sink' \in [Frame -> Bytes \cup {NoBytes}] /\ \A f \in Frame : sink'[f] \in {sink[f], NoBytes}
  BY <1>1 DEF IInv, TypeOK
<1>4. ASSUME NEW f \in Frame
      PROVE  /\ entries'[f] \in Entry /\ Shape(entries'[f])
             /\ entries'[f].residency = entries[f].residency
             /\ HeapBytes(entries'[f]) = HeapBytes(entries[f])
             /\ SpilledBytes(entries'[f]) = SpilledBytes(entries[f])
             /\ Vouched(entries'[f], sink'[f]) /\ Honest(entries'[f], sink'[f])
  <2> DEFINE e == [entries[f] EXCEPT !.sinkCopyIntact = FALSE]
  <2>1. entries[f] \in Entry /\ Shape(entries[f]) /\ Honest(entries[f], sink[f])
    BY AtFrame
  <2>2. /\ e \in Entry /\ e.size = entries[f].size /\ e.residency = entries[f].residency
        /\ e.bytes = entries[f].bytes /\ e.pins = entries[f].pins /\ e.inSink = entries[f].inSink
        /\ e.spilledHash = entries[f].spilledHash /\ e.sinkCopyIntact = FALSE
        /\ entries'[f] = e
    BY <1>2, <2>1 DEF Entry
  <2> HIDE DEF e
  <2>3. entries[f] = NoEntry => e = NoEntry
    <3>1. e = [size |-> e.size, bytes |-> e.bytes, spilledHash |-> e.spilledHash,
               inSink |-> e.inSink, sinkCopyIntact |-> e.sinkCopyIntact,
               residency |-> e.residency, pins |-> e.pins]
      BY <2>2 DEF Entry
    <3>2. entries[f] = NoEntry =>
            /\ e.size = 0 /\ e.bytes = NoBytes /\ e.spilledHash = NoHash /\ e.inSink = FALSE
            /\ e.sinkCopyIntact = FALSE /\ e.residency = "Gone" /\ e.pins = 0
      BY <2>2 DEF NoEntry
    <3> QED
      BY <3>1, <3>2 DEF NoEntry
  <2>4. Shape(e)
    BY <2>1, <2>2, <2>3 DEF Shape
  <2>5. Vouched(e, sink'[f])
    BY <2>2 DEF Vouched
  <2>6. Honest(e, sink'[f])
    BY <1>3, <2>1, <2>2, BytesFacts DEF Honest, Fits
  <2> QED
    BY <2>2, <2>4, <2>5, <2>6 DEF HeapBytes, SpilledBytes
<1>5. TypeOK'
  <2>1. entries' \in [Frame -> Entry]
    BY <1>2, <1>4
  <2> QED
    BY <1>2, <1>3, <1>4, <2>1 DEF IInv, TypeOK
<1>6. BudgetExact'
  <2>1. /\ [f \in Frame |-> HeapBytes(entries'[f])] = [f \in Frame |-> HeapBytes(entries[f])]
        /\ [f \in Frame |-> SpilledBytes(entries'[f])] = [f \in Frame |-> SpilledBytes(entries[f])]
    BY <1>4
  <2>2. /\ AddsUpTo([f \in Frame |-> HeapBytes(entries[f])], heapUsed)
        /\ AddsUpTo([f \in Frame |-> SpilledBytes(entries[f])], spilled)
        /\ heapUsed <= Ceiling
    BY DEF IInv, BudgetExact
  <2> QED
    BY <1>2, <2>1, <2>2 DEF BudgetExact, AddsUpTo
<1>7. CopyVouchedFor' /\ HashHonest'
  BY <1>4 DEF CopyVouchedFor, HashHonest
<1>8. IdentitiesFresh'
  BY <1>2, <1>4 DEF IInv, IdentitiesFresh, Find
<1> QED
  BY <1>5, <1>6, <1>7, <1>8 DEF IInv

(* Steps of others change nothing here. *)
LEMMA StutterIInv == IInv /\ UNCHANGED vars => IInv'
BY DEF vars, IInv, TypeOK, BudgetExact, AddsUpTo, CopyVouchedFor, HashHonest, IdentitiesFresh, Find

(* Every call keeps the inductive invariant. *)
LEMMA NextIInv == IInv /\ [Next]_vars => IInv'
<1> SUFFICES ASSUME IInv, [Next]_vars PROVE IInv'
  OBVIOUS
<1>1. ASSUME NEW size \in Sizes, Allocate(size) PROVE IInv'
  BY <1>1, AllocateIInv
<1>2. ASSUME NEW f \in Frame, FrameStep(f) PROVE IInv'
  BY <1>2, PinIInv, ReleaseIInv, DemoteToHeapIInv, PutBackIInv, SpillIInv, SpillRefusedIInv,
     ForgetIInv, FillIInv, AdoptIInv DEF FrameStep
<1>3. CASE Clear \/ ClearRefused \/ Restart
  BY <1>3, ClearIInv, ClearRefusedIInv, RestartIInv
<1>4. CASE UNCHANGED vars
  BY <1>4, StutterIInv
<1> QED
  BY <1>1, <1>2, <1>3, <1>4 DEF Next

(* Every state MemoryFrameStoreAccess can reach, through any sequence of    *)
(* calls, refusals and restarts, satisfies the inductive invariant.         *)
THEOREM Invariant == Spec => []IInv
BY InitIInv, NextIInv, PTL DEF Spec

-----------------------------------------------------------------------------
(* Types and shapes: every entry the store ever holds is consistent with    *)
(* the tier it is in, for every call of memory_frame_store_access.cpp.      *)
THEOREM TypeCorrect == Spec => []TypeOK
BY Invariant, PTL DEF IInv

(* Budget() tells the truth and the heap ceiling is never exceeded, through *)
(* every sequence of allocations, pins, demotions, refusals and restarts.   *)
THEOREM BudgetCorrect == Spec => []BudgetExact
BY Invariant, PTL DEF IInv

(* The skipped write of Demote is sound: the copy it counts on is there.    *)
THEOREM SkippedWriteSound == Spec => []CopyVouchedFor
BY Invariant, PTL DEF IInv

(* ContentHash is that of the bytes a frame has now, wherever they are,     *)
(* though that of a spilled frame is remembered and not computed.           *)
THEOREM HashesCorrect == Spec => []HashHonest
BY Invariant, PTL DEF IInv

(* No identity is issued while a frame, adopted or allocated, holds it.     *)
THEOREM IdentitiesCorrect == Spec => []IdentitiesFresh
BY Invariant, PTL DEF IInv

-----------------------------------------------------------------------------
(* What Pin promises: a frame that is pinned before a step is still mapped  *)
(* after it, whatever the step, unless its last pin was released.           *)
PinKept(f) ==
  entries[f].pins > 0 /\ ~Restart =>
    \/ entries'[f].residency = "HeapPinned" /\ entries'[f].bytes # NoBytes
    \/ entries[f].pins = 1 /\ entries'[f].residency = "HeapEncoded"

(* A step that rewrites another frame's entry leaves this one mapped. *)
LEMMA OtherFramePinned ==
  ASSUME IInv, NEW f \in Frame, entries[f].pins > 0,
         NEW g \in Frame, NEW e, entries' = [entries EXCEPT ![g] = e], g # f
  PROVE  entries'[f].residency = "HeapPinned" /\ entries'[f].bytes # NoBytes
<1>1. entries[f] \in Entry /\ Shape(entries[f]) /\ entries'[f] = entries[f]
  BY AtFrame DEF IInv, TypeOK
<1> QED
  BY <1>1, ShapeFacts, BytesFacts DEF IsHeapTier, HeapTiers

(* One step at a time: only its last Release unmaps a pinned frame. *)
LEMMA NextPinKept ==
  ASSUME IInv, [Next]_vars, NEW f \in Frame
  PROVE  PinKept(f)
<1> SUFFICES ASSUME entries[f].pins > 0, ~Restart
             PROVE  \/ entries'[f].residency = "HeapPinned" /\ entries'[f].bytes # NoBytes
                    \/ entries[f].pins = 1 /\ entries'[f].residency = "HeapEncoded"
  BY DEF PinKept
<1>1. /\ entries[f] \in Entry /\ Shape(entries[f]) /\ entries \in [Frame -> Entry]
      /\ entries[f].residency = "HeapPinned" /\ entries[f].bytes \in Bytes
      /\ entries[f].bytes # NoBytes /\ entries[f].pins \in Nat /\ Find(f) /\ ~IsSpilled(f)
  BY AtFrame, ShapeFacts, BytesFacts DEF IsHeapTier, HeapTiers, Find, IsSpilled, IInv, TypeOK
<1>2. ASSUME NEW size \in Sizes, Allocate(size) PROVE entries'[f] = entries[f]
  <2>1. f # nextId
    BY <1>1, AtFrame
  <2> QED
    BY <1>1, <1>2, <2>1 DEF Allocate
<1>3. ASSUME NEW g \in Frame, FrameStep(g)
      PROVE  \/ entries'[f].residency = "HeapPinned" /\ entries'[f].bytes # NoBytes
             \/ entries[f].pins = 1 /\ entries'[f].residency = "HeapEncoded"
  <2>1. CASE g # f
    <3>1. \E e : entries' = [entries EXCEPT ![g] = e]
      BY <1>3 DEF FrameStep, Pin, Release, DemoteToHeap, PutBack, Spill, SpillRefused, Forget,
         Fill, Adopt, Reclassify
    <3> QED
      BY <2>1, <3>1, OtherFramePinned
  <2>2. CASE g = f
    <3>1. CASE Pin(g)
      <4>1. FaultedIn(f) = entries[f]
        BY <1>1 DEF FaultedIn
      <4> QED
        BY <1>1, <2>2, <3>1, <4>1 DEF Pin, Reclassify, Entry
    <3>2. CASE Release(g)
      <4> DEFINE e == [entries[f] EXCEPT !.pins = @ - 1]
      <4>1. /\ e.pins = entries[f].pins - 1 /\ e.residency = "HeapPinned"
            /\ e.bytes = entries[f].bytes
        BY <1>1 DEF Entry
      <4> QED
        BY <1>1, <2>2, <3>2 DEF Release, Reclassify, Entry
    <3>3. ASSUME NEW pixels \in Pixels, Fill(g, pixels)
          PROVE  entries'[f].residency = "HeapPinned" /\ entries'[f].bytes # NoBytes
      BY <1>1, <2>2, <3>3, BytesFacts, ShapeFacts DEF Fill, Entry, IsHeapTier, HeapTiers
    <3>4. ~(DemoteToHeap(g) \/ PutBack(g) \/ Spill(g) \/ SpillRefused(g) \/ Forget(g))
      BY <1>1, <2>2 DEF DemoteToHeap, PutBack, Spill, SpillRefused, Forget, Demotable
    <3>5. ~(\E size \in Sizes : Adopt(g, size))
      BY <1>1, <2>2 DEF Adopt
    <3> QED
      BY <1>3, <3>1, <3>2, <3>3, <3>4, <3>5 DEF FrameStep
  <2> QED
    BY <2>1, <2>2
<1>4. ~(Clear \/ ClearRefused)
  BY <1>1 DEF Clear, ClearRefused, Unpinned
<1>5. CASE UNCHANGED vars
  BY <1>1, <1>5 DEF vars
<1> QED
  BY <1>1, <1>2, <1>3, <1>4, <1>5 DEF Next

(* A span handed out by Pin stays valid until its Release. *)
THEOREM PinsCorrect == Spec => PinOutlivesEveryCall
<1>1. IInv /\ [Next]_vars => [\A f \in Frame : PinKept(f)]_vars
  BY NextPinKept
<1>2. Spec => [][\A f \in Frame : PinKept(f)]_vars
  BY <1>1, Invariant, PTL DEF Spec
<1> QED
  BY <1>2 DEF PinOutlivesEveryCall, PinKept

-----------------------------------------------------------------------------
(* The archive's view of one frame, from its entry and the sink's copy. *)
Reads(e, copy) ==
  IF e.residency = "Gone" THEN NoFrame
  ELSE IF IsHeapTier(e.residency) THEN e.bytes
  ELSE IF Fits(copy, e) THEN copy ELSE Lost

content == [f \in Frame |-> ContentOf(f)]
inHand == {f \in Frame : Resident(f)}

(* A frame reads as its bytes, as lost, or as no frame, by its tier alone. *)
LEMMA ContentFacts ==
  ASSUME IInv, NEW f \in Frame
  PROVE  /\ content[f] = Reads(entries[f], sink[f])
         /\ content[f] \in Bytes \cup {Lost, NoFrame}
         /\ content[f] # NoFrame <=> Find(f)
         /\ Resident(f) => content[f] = entries[f].bytes /\ content[f] \in Bytes
         /\ f \in inHand <=> Resident(f)
<1>1. entries[f] \in Entry /\ Shape(entries[f]) /\ sink[f] \in Bytes \cup {NoBytes}
  BY AtFrame
<1>2. content[f] = Reads(entries[f], sink[f]) /\ (f \in inHand <=> Resident(f))
  BY DEF content, inHand, Reads, ContentOf, Find, Resident, Readable
<1>3. Resident(f) => entries[f].bytes \in Bytes /\ Find(f)
  BY <1>1, ShapeFacts DEF Resident, Find, IsHeapTier, HeapTiers
<1> QED
  BY <1>1, <1>2, <1>3, FrameStoreAssumption DEF Reads, Find, Resident, Fits

(* A step that touches one frame changes what that frame reads as, and      *)
(* whether it is in hand, and nothing else of the archive.                  *)
LEMMA OneContent ==
  ASSUME NEW f \in Frame,
         \A g \in Frame \ {f} : entries'[g] = entries[g] /\ sink'[g] = sink[g]
  PROVE  /\ content' = [content EXCEPT ![f] = Reads(entries'[f], sink'[f])]
         /\ inHand' = IF IsHeapTier(entries'[f].residency) THEN inHand \cup {f} ELSE inHand \ {f}
<1>1. ASSUME NEW g \in Frame PROVE ContentOf(g)' = Reads(entries'[g], sink'[g])
  BY DEF Reads, ContentOf, Find, Resident, Readable
<1>2. ASSUME NEW g \in Frame PROVE ContentOf(g) = Reads(entries[g], sink[g])
  BY DEF Reads, ContentOf, Find, Resident, Readable
<1>3. content' = [content EXCEPT ![f] = Reads(entries'[f], sink'[f])]
  BY <1>1, <1>2 DEF content
<1>4. \A g \in Frame : g \in inHand' <=> IF g = f THEN IsHeapTier(entries'[f].residency)
                                                  ELSE g \in inHand
  BY DEF inHand, Resident
<1>5. inHand' \subseteq Frame /\ inHand \subseteq Frame
  BY DEF inHand
<1> QED
  BY <1>3, <1>4, <1>5

(* A frame that reads the same in another tier of the heap. *)
LEMMA BringMaps ==
  ASSUME IInv, NEW f \in Frame, NEW e \in Entry, content[f] \in Bytes,
         entries' = [entries EXCEPT ![f] = e], sink' = sink,
         IsHeapTier(e.residency), e.bytes = content[f]
  PROVE  Archive!Bring(f)
<1>1. entries'[f] = e /\ \A g \in Frame \ {f} : entries'[g] = entries[g] /\ sink'[g] = sink[g]
  BY DEF IInv, TypeOK
<1>2. content' = [content EXCEPT ![f] = Reads(e, sink'[f])] /\ inHand' = inHand \cup {f}
  BY <1>1, OneContent
<1>3. Reads(e, sink'[f]) = content[f]
  BY DEF Reads, IsHeapTier, HeapTiers
<1>4. content' = content
  BY <1>2, <1>3 DEF content
<1> QED
  BY <1>2, <1>4 DEF Archive!Bring, content, inHand

(* Pin, Demote to the heap: a spilled frame comes back as the sink has it.  *)
LEMMA FaultInMaps ==
  ASSUME IInv, NEW f \in Frame, Find(f), CanFaultIn(f), NEW e \in Entry, sink' = sink,
         e.bytes = FaultedIn(f).bytes, IsHeapTier(e.residency),
         entries' = [entries EXCEPT ![f] = e]
  PROVE  Archive!Bring(f)
<1>1. FaultedIn(f).bytes \in Bytes
  BY FaultedInFacts
<1>2. content[f] = FaultedIn(f).bytes
  <2>1. entries[f] \in Entry /\ content[f] = Reads(entries[f], sink[f])
    BY AtFrame, ContentFacts
  <2>2. CASE IsSpilled(f)
    BY <2>1, <2>2 DEF FaultedIn, Entry, Reads, IsSpilled, CanFaultIn, Readable, IsHeapTier, HeapTiers
  <2>3. CASE ~IsSpilled(f)
    BY <2>1, <2>3 DEF FaultedIn, Entry, Reads, IsSpilled, Find, IsHeapTier
  <2> QED
    BY <2>2, <2>3
<1> QED
  BY <1>1, <1>2, BringMaps

(* A resident frame whose copy in the sink is what it reads as. *)
LEMMA PutAwayMaps ==
  ASSUME IInv, NEW f \in Frame, NEW e \in Entry, Resident(f),
         entries' = [entries EXCEPT ![f] = e], e.residency = "Spilled",
         e.size = entries[f].size, sink'[f] = entries[f].bytes,
         \A g \in Frame \ {f} : sink'[g] = sink[g]
  PROVE  Archive!PutAway(f)
<1>1. entries'[f] = e /\ \A g \in Frame \ {f} : entries'[g] = entries[g]
  BY DEF IInv, TypeOK
<1>2. /\ content' = [content EXCEPT ![f] = Reads(e, sink'[f])]
      /\ inHand' = inHand \ {f}
  BY <1>1, OneContent DEF IsHeapTier, HeapTiers
<1>3. entries[f].bytes \in Bytes /\ SizeOf(entries[f].bytes) = entries[f].size
  BY AtFrame, ShapeFacts DEF Resident
<1>4. Reads(e, sink'[f]) = content[f]
  BY <1>3, ContentFacts DEF Reads, IsHeapTier, HeapTiers, Fits
<1>5. content' = content
  BY <1>2, <1>4 DEF content
<1> QED
  BY <1>2, <1>5, ContentFacts DEF Archive!PutAway, content, inHand

(* Every step of the store on one frame is the archive's, or none of it. *)
LEMMA FrameStepMaps ==
  ASSUME IInv, NEW f \in Frame, FrameStep(f)
  PROVE  [Archive!Next]_(Archive!vars)
<1> USE DEF Archive!Next, Archive!vars
<1>1. /\ entries[f] \in Entry /\ Shape(entries[f]) /\ entries \in [Frame -> Entry]
      /\ Vouched(entries[f], sink[f]) /\ sink \in [Frame -> Bytes \cup {NoBytes}]
  BY AtFrame DEF IInv, TypeOK
<1>2. CASE Pin(f)
  <2> DEFINE d == [FaultedIn(f) EXCEPT !.pins = @ + 1]
             e == [d EXCEPT !.residency = "HeapPinned"]
  <2>1. Find(f) /\ CanFaultIn(f) /\ sink' = sink
    BY <1>2 DEF Pin
  <2>2. FaultedIn(f) \in Entry
    BY <2>1, FaultedInFacts
  <2>3. entries' = [entries EXCEPT ![f] = e]
    BY <1>2, <2>2 DEF Pin, Reclassify
  <2>4. e \in Entry /\ e.bytes = FaultedIn(f).bytes /\ IsHeapTier(e.residency)
    <3>1. d \in Entry /\ d.bytes = FaultedIn(f).bytes
      BY <2>2 DEF Entry
    <3> HIDE DEF d
    <3> QED
      BY <3>1 DEF Entry, IsHeapTier, HeapTiers
  <2> HIDE DEF d, e
  <2>5. Archive!Bring(f)
    BY <2>1, <2>3, <2>4, FaultInMaps
  <2> QED
    BY <2>5
<1>3. CASE DemoteToHeap(f)
  <2> DEFINE e == [FaultedIn(f) EXCEPT !.residency = "HeapEncoded"]
  <2>1. Find(f) /\ CanFaultIn(f) /\ sink' = sink
    BY <1>3 DEF DemoteToHeap, Demotable
  <2>2. FaultedIn(f) \in Entry
    BY <2>1, FaultedInFacts
  <2>3. entries' = [entries EXCEPT ![f] = e]
    BY <1>3 DEF DemoteToHeap, Reclassify
  <2>4. e \in Entry /\ e.bytes = FaultedIn(f).bytes /\ IsHeapTier(e.residency)
    BY <2>2 DEF Entry, IsHeapTier, HeapTiers
  <2> HIDE DEF e
  <2>5. Archive!Bring(f)
    BY <2>1, <2>3, <2>4, FaultInMaps
  <2> QED
    BY <2>5
<1>4. CASE Release(f)
  <2>1. /\ entries[f].residency = "HeapPinned" /\ Resident(f) /\ entries[f].pins \in Nat
        /\ entries[f].pins > 0
    BY <1>1, <1>4, ShapeFacts DEF Release, Resident, IsHeapTier, HeapTiers
  <2> DEFINE d == [entries[f] EXCEPT !.pins = @ - 1]
             e == [d EXCEPT !.residency = IF d.pins = 0 THEN "HeapEncoded" ELSE d.residency]
  <2>2. e \in Entry /\ e.bytes = entries[f].bytes /\ IsHeapTier(e.residency)
    <3>1. d \in Entry /\ d.bytes = entries[f].bytes /\ d.residency = "HeapPinned"
      BY <1>1, <2>1 DEF Entry
    <3> HIDE DEF d
    <3> QED
      BY <3>1 DEF Entry, IsHeapTier, HeapTiers
  <2>3. entries' = [entries EXCEPT ![f] = e] /\ sink' = sink
    BY <1>4 DEF Release, Reclassify
  <2> HIDE DEF d, e
  <2>4. Archive!Bring(f)
    BY <2>1, <2>2, <2>3, BringMaps, ContentFacts
  <2> QED
    BY <2>4
<1>5. CASE PutBack(f)
  <2> DEFINE e == [entries[f] EXCEPT !.bytes = NoBytes, !.residency = "Spilled"]
  <2>1. Resident(f) /\ CopyStands(f) /\ sink' = sink
    BY <1>5 DEF PutBack
  <2>2. e \in Entry /\ e.residency = "Spilled" /\ e.size = entries[f].size
    BY <1>1 DEF Entry
  <2>3. entries' = [entries EXCEPT ![f] = e]
    BY <1>5 DEF PutBack, Reclassify
  <2>4. sink[f] = entries[f].bytes
    <3>1. sink[f] \in Bytes /\ HashOf[sink[f]] = HashOf[entries[f].bytes]
      BY <1>1, <2>1 DEF Vouched, CopyStands, Resident, Fits
    <3>2. entries[f].bytes \in Bytes
      BY <1>1, <2>1, ShapeFacts DEF Resident
    <3> QED
      BY <3>1, <3>2, FrameStoreAssumption
  <2> HIDE DEF e
  <2>5. Archive!PutAway(f)
    BY <2>1, <2>2, <2>3, <2>4, PutAwayMaps
  <2> QED
    BY <2>5
<1>6. CASE Spill(f)
  <2> DEFINE e == [entries[f] EXCEPT !.bytes = NoBytes, !.inSink = TRUE,
                     !.spilledHash = HashOf[entries[f].bytes], !.residency = "Spilled"]
  <2>1. Resident(f) /\ sink' = [sink EXCEPT ![f] = entries[f].bytes]
    BY <1>6 DEF Spill
  <2>2. HashOf[entries[f].bytes] \in Nat
    BY <1>1, <2>1, ShapeFacts, BytesFacts DEF Resident
  <2>3. e \in Entry /\ e.residency = "Spilled" /\ e.size = entries[f].size
    BY <1>1, <2>2 DEF Entry
  <2>4. entries' = [entries EXCEPT ![f] = e]
    BY <1>6 DEF Spill, Reclassify
  <2>5. sink'[f] = entries[f].bytes /\ \A g \in Frame \ {f} : sink'[g] = sink[g]
    BY <1>1, <2>1
  <2> HIDE DEF e
  <2>6. Archive!PutAway(f)
    BY <2>1, <2>3, <2>4, <2>5, PutAwayMaps
  <2> QED
    BY <2>6
<1>7. CASE SpillRefused(f)
  <2>1. /\ Resident(f) /\ \A g \in Frame \ {f} : sink'[g] = sink[g]
        /\ entries' = [entries EXCEPT ![f].sinkCopyIntact = FALSE]
    BY <1>1, <1>7 DEF SpillRefused
  <2>2. /\ entries'[f].residency = entries[f].residency /\ entries'[f].bytes = entries[f].bytes
        /\ \A g \in Frame \ {f} : entries'[g] = entries[g]
    BY <1>1, <2>1 DEF Entry
  <2>3. Reads(entries'[f], sink'[f]) = entries[f].bytes
    BY <2>1, <2>2 DEF Reads, Resident, IsHeapTier, HeapTiers
  <2>4. content' = [content EXCEPT ![f] = entries[f].bytes] /\ inHand' = inHand \cup {f}
    BY <2>1, <2>2, <2>3, OneContent DEF Resident
  <2>5. content[f] = entries[f].bytes /\ f \in inHand
    BY <2>1, ContentFacts
  <2>6. content' = content /\ inHand' = inHand
    BY <2>4, <2>5 DEF content
  <2> QED
    BY <2>6 DEF content, inHand
<1>8. CASE Forget(f)
  <2>1. Find(f) /\ entries' = [entries EXCEPT ![f] = NoEntry]
        /\ \A g \in Frame \ {f} : sink'[g] = sink[g]
    BY <1>1, <1>8 DEF Forget, Demotable
  <2>2. Reads(entries'[f], sink'[f]) = NoFrame /\ ~IsHeapTier(entries'[f].residency)
    BY <1>1, <2>1, NoEntryFacts DEF Reads, IsHeapTier, HeapTiers
  <2>3. content' = [content EXCEPT ![f] = NoFrame] /\ inHand' = inHand \ {f}
    BY <1>1, <2>1, <2>2, OneContent
  <2>4. Archive!Forget(f)
    BY <2>1, <2>3, ContentFacts DEF Archive!Forget, content, inHand
  <2> QED
    BY <2>4
<1>9. ASSUME NEW pixels \in Pixels, Fill(f, pixels) PROVE Archive!Fill(f)
  <2> DEFINE c == <<entries[f].size, pixels>>
  <2>1. Resident(f) /\ c \in Bytes
    BY <1>1, <1>9, ShapeFacts, BytesFacts DEF Fill, Resident, IsHeapTier, HeapTiers
  <2>2. /\ entries'[f].bytes = c /\ entries'[f].residency = entries[f].residency
        /\ \A g \in Frame \ {f} : entries'[g] = entries[g] /\ sink'[g] = sink[g]
    BY <1>1, <1>9 DEF Fill, Entry
  <2> HIDE DEF c
  <2>3. Reads(entries'[f], sink'[f]) = c /\ IsHeapTier(entries'[f].residency)
    BY <2>1, <2>2 DEF Reads, Resident, IsHeapTier, HeapTiers
  <2>4. content' = [content EXCEPT ![f] = c] /\ inHand' = inHand \cup {f}
    BY <2>2, <2>3, OneContent
  <2>5. f \in inHand
    BY <2>1, ContentFacts
  <2>6. inHand' = inHand
    BY <2>4, <2>5
  <2> QED
    BY <2>1, <2>4, <2>5, <2>6 DEF Archive!Fill, content, inHand
<1>10. ASSUME NEW size \in Sizes, Adopt(f, size) PROVE Archive!Adopt(f)
  <2>1. ~Find(f) /\ sink' = sink
    BY <1>10 DEF Adopt
  <2>2. entries'[f].residency = "Spilled" /\ \A g \in Frame \ {f} : entries'[g] = entries[g]
    BY <1>1, <1>10 DEF Adopt, NoEntry
  <2> DEFINE c == Reads(entries'[f], sink'[f])
  <2>3. c \in Bytes \cup {Lost} /\ ~IsHeapTier(entries'[f].residency)
    BY <2>2 DEF Reads, IsHeapTier, HeapTiers, Fits
  <2>4. content' = [content EXCEPT ![f] = c] /\ inHand' = inHand \ {f}
    BY <2>1, <2>2, <2>3, OneContent
  <2> HIDE DEF c
  <2>5. content[f] = NoFrame /\ f \notin inHand
    BY <1>1, <2>1, ContentFacts DEF Find, Resident, IsHeapTier, HeapTiers
  <2>6. inHand' = inHand
    BY <2>4, <2>5
  <2> QED
    BY <2>3, <2>4, <2>5, <2>6 DEF Archive!Adopt, content, inHand
<1> QED
  BY <1>2, <1>3, <1>4, <1>5, <1>6, <1>7, <1>8, <1>9, <1>10 DEF FrameStep

(* A store emptied by a Clear, or by the end of its process. *)
LEMMA EmptiedMaps ==
  ASSUME entries' = [f \in Frame |-> NoEntry]
  PROVE  Archive!ForgetAll
<1>1. ASSUME NEW f \in Frame
      PROVE  ContentOf(f)' = NoFrame /\ ~Resident(f)'
  BY NoEntryFacts DEF ContentOf, Find, Resident, IsHeapTier, HeapTiers
<1> QED
  BY <1>1 DEF Archive!ForgetAll

(* A refused Clear costs copies, and only of frames out of the heap. *)
LEMMA ClearRefusedMaps ==
  ASSUME IInv, ClearRefused
  PROVE  Archive!LoseCopies
<1>1. PICK kept \in SUBSET Frame :
        sink' = [f \in Frame |-> IF f \in kept THEN sink[f] ELSE NoBytes]
  BY DEF ClearRefused
<1> DEFINE gone == {f \in Frame : content[f] # NoFrame /\ f \notin inHand /\ content'[f] = Lost}
<1>2. ASSUME NEW f \in Frame
      PROVE  /\ content'[f] = IF f \in gone THEN Lost ELSE content[f]
             /\ f \in inHand' <=> f \in inHand
  <2>1. /\ entries[f] \in Entry /\ content[f] = Reads(entries[f], sink[f])
        /\ Find(f) <=> content[f] # NoFrame
        /\ f \in inHand <=> Resident(f)
    BY AtFrame, ContentFacts
  <2>2. entries'[f] = [entries[f] EXCEPT !.sinkCopyIntact = FALSE]
    BY DEF ClearRefused
  <2>3. /\ entries'[f].residency = entries[f].residency /\ entries'[f].size = entries[f].size
        /\ entries'[f].bytes = entries[f].bytes
    BY <2>1, <2>2 DEF Entry
  <2>4. content'[f] = Reads(entries'[f], sink'[f])
    BY DEF content, Reads, ContentOf, Find, Resident, Readable
  <2>5. f \in inHand' <=> f \in inHand
    BY <2>3 DEF inHand, Resident
  <2>6. sink'[f] \in {sink[f], NoBytes}
    BY <1>1
  <2>7. ~Find(f) => content'[f] = NoFrame
    BY <2>3, <2>4 DEF Reads, Find
  <2>8. Resident(f) => content'[f] = content[f]
    BY <2>1, <2>3, <2>4 DEF Reads, Resident, Find, IsHeapTier, HeapTiers
  <2>9. Find(f) /\ ~Resident(f) => content'[f] \in {content[f], Lost}
    BY <2>1, <2>3, <2>4, <2>6, BytesFacts DEF Reads, Resident, Find, Fits
  <2> QED
    BY <2>1, <2>5, <2>7, <2>8, <2>9
<1>3. content' = [f \in Frame |-> IF f \in gone THEN Lost ELSE content[f]]
  BY <1>2 DEF content
<1>4. inHand' = inHand
  BY <1>2 DEF inHand
<1>5. gone \in SUBSET {f \in Frame : content[f] # NoFrame /\ f \notin inHand}
  OBVIOUS
<1> HIDE DEF gone
<1> QED
  BY <1>3, <1>4, <1>5 DEF Archive!LoseCopies, content, inHand

(* A new frame: its identity is free and it reads as blank. *)
LEMMA AllocateMaps ==
  ASSUME IInv, NEW size \in Sizes, Allocate(size)
  PROVE  nextId \in Frame /\ Archive!Allocate(nextId)
<1> DEFINE c == <<size, Zeroed>>
<1>1. nextId \in Frame /\ entries \in [Frame -> Entry]
  BY FrameStoreAssumption DEF Allocate, IInv, TypeOK, Frame
<1>2. ~Find(nextId)
  BY <1>1, FrameStoreAssumption DEF IInv, IdentitiesFresh, Frame
<1>3. /\ entries'[nextId].bytes = c /\ entries'[nextId].residency = "HeapEncoded"
      /\ \A g \in Frame \ {nextId} : entries'[g] = entries[g] /\ sink'[g] = sink[g]
  BY <1>1 DEF Allocate, NoEntry
<1> HIDE DEF c
<1>4. Reads(entries'[nextId], sink'[nextId]) = c /\ IsHeapTier(entries'[nextId].residency)
  BY <1>3 DEF Reads, IsHeapTier, HeapTiers
<1>5. content' = [content EXCEPT ![nextId] = c] /\ inHand' = inHand \cup {nextId}
  BY <1>1, <1>3, <1>4, OneContent
<1>6. content[nextId] = NoFrame
  BY <1>1, <1>2, ContentFacts
<1>7. c \in Sizes \X {Zeroed}
  BY DEF c
<1> QED
  BY <1>1, <1>5, <1>6, <1>7 DEF Archive!Allocate, content, inHand

(* Every step of the store is a step of the archive, or leaves it alone. *)
LEMMA NextMaps == IInv /\ [Next]_vars => [Archive!Next]_(Archive!vars)
<1> SUFFICES ASSUME IInv, [Next]_vars PROVE [Archive!Next]_(Archive!vars)
  OBVIOUS
<1>1. ASSUME NEW size \in Sizes, Allocate(size) PROVE Archive!Next
  BY <1>1, AllocateMaps DEF Archive!Next
<1>2. ASSUME NEW f \in Frame, FrameStep(f) PROVE [Archive!Next]_(Archive!vars)
  BY <1>2, FrameStepMaps
<1>3. CASE Clear \/ Restart
  BY <1>3, EmptiedMaps DEF Clear, Restart, Archive!Next
<1>4. CASE ClearRefused
  BY <1>4, ClearRefusedMaps DEF Archive!Next
<1>5. CASE UNCHANGED vars
  BY <1>5 DEF vars, Archive!vars, ContentOf, Find, Resident, Readable
<1> QED
  BY <1>1, <1>2, <1>3, <1>4, <1>5 DEF Next

(* Where the tiers' bookkeeping is empty, so is the archive. *)
LEMMA InitMaps == Init => Archive!Init
<1> SUFFICES ASSUME Init PROVE Archive!Init
  OBVIOUS
<1>1. ASSUME NEW f \in Frame PROVE ContentOf(f) = NoFrame /\ ~Resident(f)
  BY NoEntryFacts DEF Init, ContentOf, Find, Resident, IsHeapTier, HeapTiers
<1> QED
  BY <1>1 DEF Archive!Init

(* The store implements the archive: whatever tier a frame is in, and       *)
(* whatever a sink refused, loses or was spared writing, a holder reads the *)
(* bytes last written, or is told that they are lost.                       *)
THEOREM ImplementsArchive == Spec => KeepsEveryFrame
<1>1. Spec => Archive!Init /\ [][Archive!Next]_(Archive!vars)
  BY InitMaps, NextMaps, Invariant, PTL DEF Spec
<1> QED
  BY <1>1 DEF KeepsEveryFrame, Archive!Spec
=============================================================================
