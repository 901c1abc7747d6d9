------------------------- MODULE CaptureSessionProofs -------------------------
(***************************************************************************)
(* Theorems about a capture session over its store, tier and documents,    *)
(* for any projects and cells, any length of burst, and any bounds on what *)
(* happens.  None of the properties is inductive: a document that is read  *)
(* back after a crash was written at some earlier time, so the induction   *)
(* says of what is durable what the properties say of what is in memory,   *)
(* and how the one may lag behind the other.                               *)
(***************************************************************************)
EXTENDS CaptureSession, FiniteSetTheorems, WellFoundedInduction, TLAPS

(* What the session in progress took, and what a document says was taken. *)
All == Everywhere(candidates) \cup pending
Took(document) == Everywhere(document.candidates)
Noted == IF InTier(active, documents[active]) THEN Took(documents[active]) ELSE {}
Past == All \cup Noted

(* No document is of a tier there has not been yet, one project at most has  *)
(* a document of the tier there is, which in a session is the session's, and *)
(* what is durable of it is an earlier one of this process or the one it     *)
(* loaded.                                                                   *)
Generations ==
  \A p \in Projects :
    /\ documents[p] # NoDocument => documents[p].generation <= minted
    /\ durable.documents[p] # NoDocument => durable.documents[p].generation <= minted
OneCapture ==
  /\ \A p, q \in Projects : InTier(p, documents[p]) /\ InTier(q, documents[q]) => p = q
  /\ active # NoProject => \A p \in Projects : InTier(p, documents[p]) => p = active
  /\ \A p \in Projects : InTier(p, durable.documents[p]) =>
       /\ InTier(p, documents[p])
       /\ durable.documents[p].nextCandidate <= documents[p].nextCandidate
       /\ \A c \in Took(durable.documents[p]) :
            c \in Took(documents[p]) \/ c.frame < nextFrame

(* A document of the tier has what it names told apart, and counted. *)
Counted(document) ==
  /\ \A c \in Took(document) :
       c.ours /\ c.id < document.nextCandidate /\ c.frame <= taken
  /\ \A c, d \in Took(document) : c # d => c.id # d.id /\ c.frame # d.frame
  /\ document.nextCandidate \in 1..(taken + 1)
AllCounted ==
  \A p \in Projects :
    /\ InTier(p, documents[p]) => Counted(documents[p])
    /\ InTier(p, durable.documents[p]) => Counted(durable.documents[p])

(* Whatever a document names, the session that goes on from it has behind it.*)
Adopted ==
  \A p \in Projects : active = p /\ InTier(p, documents[p]) =>
    \A c \in Took(documents[p]) : c.frame < nextFrame

(* A candidate shows its own exposure or nothing, in the tier or wherever;   *)
(* the tier's copy of what the session took is never another's.              *)
Fine(c) == PixelsOf(c.frame) \in {c.shot, NoPixels}
Safe(c) == sink[c.frame] \in {c.shot, NoPixels}
AllFine ==
  /\ \A c \in All : Fine(c)
  /\ \A c \in Everywhere(candidates) : c.ours => Safe(c)
  /\ \A p \in Projects :
       /\ InTier(p, documents[p]) => \A c \in Took(documents[p]) : Fine(c) /\ Safe(c)
       /\ InTier(p, durable.documents[p]) =>
            \A c \in Took(durable.documents[p]) : Fine(c) /\ Safe(c)

(* A burst's frames are the session's own, held by nobody else and no        *)
(* candidate's yet; what of a cell is not the session's is a caller's.       *)
Firing ==
  \A c \in pending :
    c.ours /\ c.frame \notin pinned /\ \A d \in Everywhere(candidates) \cup Noted : c.frame # d.frame
Callers == \A c \in Everywhere(candidates) : c.ours \/ c.frame \in offered

(* A pick is of an exposure that was made. *)
PicksTaken ==
  \A p \in Projects, n \in Nodes : picks[p][n].id <= taken /\ durable.picks[p][n].id <= taken

IInv ==
  /\ TypeOK /\ Generations /\ OneCapture /\ DocumentInStep /\ Adopted
  /\ IdentitiesUnique /\ AllCounted /\ AllFine /\ Firing /\ Callers /\ NothingLeaks
  /\ PicksTaken

(* What the picks rest on besides: no identity a pick names, in memory or    *)
(* durable, is to be issued again; and whichever of its documents is looked  *)
(* at, an identity is of one candidate; a burst's frames are not picked yet. *)
PastPicks ==
  /\ active # NoProject => \A n \in Nodes :
       /\ picks[active][n].id < nextCandidate
       /\ InTier(active, documents[active]) => picks[active][n].id < documents[active].nextCandidate
  /\ \A p \in Projects, n \in Nodes :
       \/ durable.picks[p][n] = picks[p][n]
       \/ /\ durable.picks[p][n].id < nextCandidate
          /\ \A q \in Projects : InTier(q, documents[q]) =>
               durable.picks[p][n].id < documents[q].nextCandidate
OneEach ==
  \A p \in Projects : InTier(p, durable.documents[p]) =>
    \A c \in Took(durable.documents[p]),
       d \in Took(documents[p]) \cup (IF active = p THEN All ELSE {}) :
      c.id = d.id => c = d
Shown(p, n) ==
  (IF active = p THEN candidates[n] \cup pending ELSE {}) \cup
  (IF InTier(p, documents[p]) THEN documents[p].candidates[n] ELSE {}) \cup
  (IF InTier(p, durable.documents[p]) THEN durable.documents[p].candidates[n] ELSE {})
Picked(p, n) == {picks[p][n], durable.picks[p][n]}
PicksStay ==
  \A p \in Projects, n \in Nodes : \A pick \in Picked(p, n), c \in Shown(p, n) :
    c.id = pick.id => c.shot = pick.shot

PicksHeld == OneEach /\ (unstepped \/ (PastPicks /\ PicksStay))

PickIInv == IInv /\ PicksHeld

-----------------------------------------------------------------------------
(* The store, by what it would show of each frame and which frames it knows. *)
ShownBy(s, copies, f) == IF s.heap[f] # NoPixels THEN s.heap[f] ELSE copies[f]

(* A store in which a frame is in the heap or spilled, not both. *)
Sorted(s) == s \in Store /\ \A f \in s.cold : ~InHeap(s, f)

(* The empty store and the empty tier are of their types, and show nothing.*)
LEMMA Emptied ==
  /\ Sorted(EmptyStore) /\ EmptySink \in Copies
  /\ \A f \in Frame : ~Known(EmptyStore, f) /\ EmptySink[f] = NoPixels
BY DEF Sorted, Store, Copies, EmptyStore, EmptySink, InHeap, Known

(* Pinning what a cell holds changes where frames are and not what they show.*)
LEMMA HeatedShows ==
  ASSUME NEW s, Sorted(s), NEW cell, sink \in Copies
  PROVE  /\ Sorted(Heated(s, cell))
         /\ \A f \in Frame :
              /\ Known(Heated(s, cell), f) <=> Known(s, f)
              /\ ShownBy(Heated(s, cell), sink, f) = ShownBy(s, sink, f)
              /\ InHeap(s, f) => InHeap(Heated(s, cell), f)
<1> DEFINE back == {f \in s.cold \cap FramesOf(cell) : sink[f] # NoPixels}
           h == [f \in Frame |-> IF f \in back THEN sink[f] ELSE s.heap[f]]
           c == s.cold \ back
<1>1. /\ s.heap \in Copies /\ s.cold \in SUBSET Frame
      /\ \A f \in s.cold : s.heap[f] = NoPixels
  BY DEF Sorted, Store, InHeap
<1>2. Heated(s, cell) = [heap |-> h, cold |-> c]
  BY DEF Heated
<1>3. back \subseteq s.cold /\ \A f \in back : sink[f] # NoPixels
  OBVIOUS
<1> HIDE DEF back
<1>4. h \in Copies /\ c \in SUBSET Frame
  BY <1>1, <1>3 DEF Copies
<1>5. \A f \in Frame : h[f] = IF f \in back THEN sink[f] ELSE s.heap[f]
  OBVIOUS
<1>6. \A f \in c : h[f] = NoPixels
  BY <1>1, <1>5
<1> HIDE DEF h
<1>7. Sorted(Heated(s, cell))
  BY <1>2, <1>4, <1>6 DEF Sorted, Store, InHeap
<1>8. \A f \in Frame :
        /\ Known(Heated(s, cell), f) <=> Known(s, f)
        /\ ShownBy(Heated(s, cell), sink, f) = ShownBy(s, sink, f)
        /\ InHeap(s, f) => InHeap(Heated(s, cell), f)
  BY <1>1, <1>2, <1>3, <1>5 DEF Known, InHeap, ShownBy
<1> QED
  BY <1>7, <1>8

(* A new frame is in the heap, and the only one that is another. *)
LEMMA WithFrameShows ==
  ASSUME NEW s, Sorted(s), NEW f \in Frame, ~Known(s, f), NEW shot \in Shot
  PROVE  /\ Sorted(WithFrame(s, f, shot))
         /\ \A g \in Frame : Known(WithFrame(s, f, shot), g) <=> Known(s, g) \/ g = f
         /\ \A g \in Frame \ {f} :
              /\ InHeap(WithFrame(s, f, shot), g) <=> InHeap(s, g)
              /\ \A copies : ShownBy(WithFrame(s, f, shot), copies, g) = ShownBy(s, copies, g)
         /\ \A copies : ShownBy(WithFrame(s, f, shot), copies, f) = shot
         /\ InHeap(WithFrame(s, f, shot), f)
<1> DEFINE t == WithFrame(s, f, shot)
<1>1. /\ s.heap \in Copies /\ s.cold \in SUBSET Frame /\ f \notin s.cold
      /\ \A g \in s.cold : s.heap[g] = NoPixels
  BY DEF Sorted, Store, InHeap, Known
<1>2. t.heap = [s.heap EXCEPT ![f] = shot] /\ t.cold = s.cold /\ t \in Store
  BY <1>1 DEF WithFrame, Sorted, Store, Copies
<1>3. t.heap[f] = shot /\ shot # NoPixels /\ \A g \in Frame \ {f} : t.heap[g] = s.heap[g]
  BY <1>1, <1>2, MarkersAssumption DEF Copies
<1> HIDE DEF t
<1>4. Sorted(t)
  BY <1>1, <1>2, <1>3 DEF Sorted, InHeap
<1>5. \A g \in Frame : Known(t, g) <=> Known(s, g) \/ g = f
  BY <1>2, <1>3 DEF Known, InHeap
<1> QED
  BY <1>3, <1>4, <1>5 DEF ShownBy, InHeap, t

(* Forgotten frames are gone from the store and the tier, the others as they *)
(* were.                                                                     *)
LEMMA WithoutShows ==
  ASSUME NEW s, Sorted(s), NEW copies \in Copies, NEW gone
  PROVE  /\ Sorted(Without(s, gone)) /\ SinkWithout(copies, gone) \in Copies
         /\ \A f \in Frame :
              /\ Known(Without(s, gone), f) <=> Known(s, f) /\ f \notin gone
              /\ InHeap(Without(s, gone), f) <=> InHeap(s, f) /\ f \notin gone
              /\ f \in gone => ShownBy(Without(s, gone), SinkWithout(copies, gone), f) = NoPixels
              /\ f \notin gone => ShownBy(Without(s, gone), SinkWithout(copies, gone), f)
                                  = ShownBy(s, copies, f)
              /\ SinkWithout(copies, gone)[f] = IF f \in gone THEN NoPixels ELSE copies[f]
<1> DEFINE t == Without(s, gone)
           k == SinkWithout(copies, gone)
<1>1. /\ s.heap \in Copies /\ s.cold \in SUBSET Frame
      /\ \A g \in s.cold : s.heap[g] = NoPixels
  BY DEF Sorted, Store, InHeap
<1>2. /\ t.heap \in Copies /\ t.cold = s.cold \ gone /\ k \in Copies /\ t \in Store
      /\ \A f \in Frame : t.heap[f] = IF f \in gone THEN NoPixels ELSE s.heap[f]
      /\ \A f \in Frame : k[f] = IF f \in gone THEN NoPixels ELSE copies[f]
  BY <1>1 DEF Without, SinkWithout, Store, Copies
<1> HIDE DEF t, k
<1>3. Sorted(t)
  BY <1>1, <1>2 DEF Sorted, InHeap
<1> QED
  BY <1>2, <1>3 DEF Known, InHeap, ShownBy, t, k

(* Cooling a cell, whatever the tier refuses: every frame shows what it did, *)
(* and what left the heap, or was refused, is in the tier so or not at all.  *)
LEMMA CooledShows ==
  ASSUME NEW s, Sorted(s), NEW copies \in Copies, NEW cell \in SUBSET Candidate,
         StoreAfter(s, copies, cell)
  PROVE  /\ Sorted(store') /\ sink' \in Copies
         /\ \A f \in Frame :
              /\ Known(store', f) <=> Known(s, f)
              /\ ShownBy(store', sink', f) = ShownBy(s, copies, f)
              /\ sink'[f] \in {copies[f], NoPixels, ShownBy(s, copies, f)}
              /\ f \in pinned /\ InHeap(s, f) => InHeap(store', f)
         /\ \A c \in cell : c.ours /\ c.frame \notin pinned /\ InHeap(s, c.frame) =>
              sink'[c.frame] \in {NoPixels, ShownBy(s, copies, c.frame)}
<1>1. PICK refused \in SUBSET Refusable(s, copies, cell) :
        /\ store' = Cooled(s, cell, refused)
        /\ sink' = SinkCooled(s, copies, cell, refused)
  BY DEF StoreAfter
<1> DEFINE able == Coolable(s, cell)
           down == able \ refused
<1>2. /\ s.heap \in Copies /\ s.cold \in SUBSET Frame
      /\ \A g \in s.cold : s.heap[g] = NoPixels
  BY DEF Sorted, Store, InHeap
<1>3. /\ \A f \in able : f \in Frame /\ s.heap[f] # NoPixels /\ f \notin pinned
      /\ \A c \in cell : c.ours /\ c.frame \notin pinned /\ InHeap(s, c.frame) => c.frame \in able
      /\ refused \subseteq able
  BY <1>1 DEF Coolable, Candidate, InHeap, Refusable
<1>4. /\ store'.heap = [f \in Frame |-> IF f \in down THEN NoPixels ELSE s.heap[f]]
      /\ store'.cold = s.cold \cup down
      /\ store' = [heap |-> store'.heap, cold |-> store'.cold]
      /\ sink' = [f \in Frame |-> IF f \in refused THEN NoPixels
                                  ELSE IF f \in able THEN s.heap[f] ELSE copies[f]]
  BY <1>1 DEF Cooled, SinkCooled
<1> HIDE DEF able
<1>5. /\ store'.heap \in Copies /\ store'.cold \in SUBSET Frame /\ sink' \in Copies
      /\ \A f \in Frame : store'.heap[f] = IF f \in down THEN NoPixels ELSE s.heap[f]
      /\ \A f \in Frame : sink'[f] = IF f \in refused THEN NoPixels
                                     ELSE IF f \in able THEN s.heap[f] ELSE copies[f]
  BY <1>2, <1>3, <1>4 DEF Copies
<1>6. Sorted(store')
  <2>1. store' \in Store
    BY <1>4, <1>5 DEF Store
  <2>2. \A f \in store'.cold : store'.heap[f] = NoPixels
    BY <1>2, <1>3, <1>4, <1>5
  <2> QED
    BY <2>1, <2>2 DEF Sorted, InHeap
<1>7. \A f \in Frame :
        /\ Known(store', f) <=> Known(s, f)
        /\ ShownBy(store', sink', f) = ShownBy(s, copies, f)
        /\ sink'[f] \in {copies[f], NoPixels, ShownBy(s, copies, f)}
        /\ f \in pinned /\ InHeap(s, f) => InHeap(store', f)
  BY <1>2, <1>3, <1>4, <1>5 DEF Known, InHeap, ShownBy
<1>8. ASSUME NEW c \in cell, c.ours, c.frame \notin pinned, InHeap(s, c.frame)
      PROVE  sink'[c.frame] \in {NoPixels, ShownBy(s, copies, c.frame)}
  <2>1. c.frame \in able /\ c.frame \in Frame
    BY <1>3, <1>8
  <2> QED
    BY <1>3, <1>5, <2>1 DEF ShownBy
<1> QED
  BY <1>5, <1>6, <1>7, <1>8

-----------------------------------------------------------------------------
(* What IInv says of a session in progress: the document of the tier is its  *)
(* own if there is one, and whatever a document or the store names was       *)
(* issued by it.                                                             *)
LEMMA InSession ==
  ASSUME IInv, active # NoProject
  PROVE  /\ active \in Projects
         /\ \A p \in Projects : InTier(p, documents[p]) => p = active
         /\ \A p \in Projects : InTier(p, durable.documents[p]) =>
              p = active /\ InTier(active, documents[active])
         /\ InTier(active, documents[active]) =>
              /\ documents[active].nextCandidate <= nextCandidate
              /\ \A c \in Took(documents[active]) :
                   /\ c.ours /\ c.frame < nextFrame /\ c.frame <= taken
                   /\ c.id < documents[active].nextCandidate
                   /\ Fine(c) /\ Safe(c)
         /\ InTier(active, durable.documents[active]) =>
              /\ durable.documents[active].nextCandidate <= documents[active].nextCandidate
              /\ \A c \in Took(durable.documents[active]) :
                   /\ c.ours /\ c.frame < nextFrame /\ c.frame <= taken
                   /\ c.id < durable.documents[active].nextCandidate
                   /\ Fine(c) /\ Safe(c)
         /\ \A f \in Frame : Known(store, f) =>
              f < nextFrame /\ (f \in FramesOf(All) \/ f \in offered \/ f \in stranded)
<1> USE DEF IInv
<1>1. active \in Projects
  BY DEF TypeOK
<1>3. \A p \in Projects : InTier(p, documents[p]) => p = active
  BY <1>1 DEF OneCapture
<1>4. \A p \in Projects : InTier(p, durable.documents[p]) => p = active /\ InTier(active, documents[active])
  BY <1>3 DEF OneCapture
<1>6. ASSUME InTier(active, documents[active])
      PROVE  /\ documents[active].nextCandidate <= nextCandidate
             /\ \A c \in Took(documents[active]) :
                  /\ c.ours /\ c.frame < nextFrame /\ c.frame <= taken
                  /\ c.id < documents[active].nextCandidate
                  /\ Fine(c) /\ Safe(c)
  <2>1. documents[active].nextCandidate <= nextCandidate
    BY <1>6 DEF DocumentInStep
  <2>2. ASSUME NEW c \in Took(documents[active])
        PROVE  /\ c.ours /\ c.frame < nextFrame /\ c.frame <= taken
               /\ c.id < documents[active].nextCandidate
               /\ Fine(c) /\ Safe(c)
    <3>1. c.ours /\ c.frame <= taken /\ c.id < documents[active].nextCandidate
      BY <1>1, <1>6 DEF AllCounted, Counted
    <3>2. Fine(c) /\ Safe(c)
      BY <1>1, <1>6 DEF AllFine
    <3>3. c.frame < nextFrame
      BY <1>1, <1>6 DEF Adopted
    <3> QED
      BY <3>1, <3>2, <3>3
  <2> QED
    BY <2>1, <2>2
<1>7. ASSUME InTier(active, durable.documents[active])
      PROVE  /\ durable.documents[active].nextCandidate <= documents[active].nextCandidate
             /\ \A c \in Took(durable.documents[active]) :
                  /\ c.ours /\ c.frame < nextFrame /\ c.frame <= taken
                  /\ c.id < durable.documents[active].nextCandidate
                  /\ Fine(c) /\ Safe(c)
  <2>1. durable.documents[active].nextCandidate <= documents[active].nextCandidate
    BY <1>1, <1>7 DEF OneCapture
  <2>2. ASSUME NEW c \in Took(durable.documents[active])
        PROVE  /\ c.ours /\ c.frame < nextFrame /\ c.frame <= taken
               /\ c.id < durable.documents[active].nextCandidate
               /\ Fine(c) /\ Safe(c)
    <3>1. c.ours /\ c.frame <= taken /\ c.id < durable.documents[active].nextCandidate
      BY <1>1, <1>7 DEF AllCounted, Counted
    <3>2. Fine(c) /\ Safe(c)
      BY <1>1, <1>7 DEF AllFine
    <3>3. c \in Took(documents[active]) \/ c.frame < nextFrame
      BY <1>1, <1>7 DEF OneCapture
    <3>4. c.frame < nextFrame
      BY <1>1, <1>4, <1>6, <1>7, <3>3
    <3> QED
      BY <3>1, <3>2, <3>4
  <2> QED
    BY <2>1, <2>2
<1>8. ASSUME NEW f \in Frame, Known(store, f)
      PROVE  f < nextFrame /\ (f \in FramesOf(All) \/ f \in offered \/ f \in stranded)
  <2>1. f < nextFrame
    BY <1>8 DEF IdentitiesUnique
  <2>2. f \in FramesOf(All) \/ f \in offered \/ f \in stranded
    BY <1>8 DEF NothingLeaks, All
  <2> QED
    BY <2>1, <2>2
<1> QED
  BY <1>1, <1>3, <1>4, <1>6, <1>7, <1>8

(* What every call of a session in progress comes to.  It leaves the session *)
(* with cells, which it may then end; "added" is the exposure it made, if it *)
(* made one and keeps it.                                                    *)
Grown == nextCandidate' = nextCandidate + 1 /\ nextFrame' = nextFrame + 1 /\ taken' = taken + 1
Made(added) ==
  \/ UNCHANGED <<nextCandidate, nextFrame, taken>> /\ added = {}
  \/ taken < MaxShots /\ Grown /\ \E ours \in BOOLEAN : added \in SUBSET {Taken(ours)}

(* What a checkpoint may come to: the document is what the session is left   *)
(* with, or it is behind, as an earlier checkpoint of the same call or of an *)
(* earlier one left it.                                                      *)
Ours(cells) == [n \in Nodes |-> {c \in cells[n] : c.ours}]
Written(cells) ==
  /\ behind' \in BOOLEAN /\ (active' = NoProject => ~behind')
  /\ \/ \E kept \in {cells, candidates} :
          WriteDocument(active, tier, kept, nextCandidate') /\ (behind' \/ kept = cells)
     \/ /\ UNCHANGED documents
        /\ active' # NoProject /\ ~behind' =>
             ~behind /\ \A n \in Nodes : Ours(cells)[n] = Ours(candidates)[n]

Left(cells, added) ==
  /\ cells \in [Nodes -> SUBSET Candidate]
  /\ \A n \in Nodes : cells[n] \subseteq candidates[n] \cup pending \cup added
  /\ pending' \subseteq pending \cup added /\ Cardinality(pending') < FrameCount
  /\ pending' \cap Everywhere(cells) = {} /\ \A c \in pending' : c.ours
  /\ \A c \in added : c \in Everywhere(cells) => c.ours \/ c.frame \in offered'
  /\ offered \subseteq offered' /\ offered' \subseteq Frame
  /\ firing' \in Nodes \cup {NoNode} /\ (firing' = NoNode => pending' = {})
  /\ \/ active' = active /\ candidates' = cells /\ stranded' = stranded
     \/ /\ active' = NoProject /\ candidates' = NoCandidates /\ firing' = NoNode
        /\ stranded \subseteq stranded' /\ stranded' \subseteq Frame
        /\ \A c \in Everywhere(cells) : c.ours =>
             \/ c.frame \in stranded'
             \/ /\ documents'[active] # NoDocument /\ documents'[active].generation = tier
                /\ c.frame \in FramesOf(Took(documents'[active]))

Stored(cells, added) ==
  /\ Sorted(store') /\ sink' \in Copies
  /\ \A f \in pinned : InHeap(store', f)
  /\ \A f \in Frame : Known(store', f) =>
       /\ Known(store, f) \/ (f = nextFrame /\ Grown)
       /\ f \in FramesOf(Everywhere(cells) \cup pending') \/ f \in offered' \/ f \in stranded
  /\ \A f \in Frame \ {nextFrame} :
       /\ ShownBy(store', sink', f) \in {ShownBy(store, sink, f), NoPixels}
       /\ sink'[f] \in {sink[f], NoPixels, ShownBy(store, sink, f)}
  /\ \A c \in added : ShownBy(store', sink', c.frame) \in {c.shot, NoPixels}
  /\ \A c \in Everywhere(cells) : c.ours =>
       c \in Everywhere(candidates) \/ sink'[c.frame] \in {c.shot, NoPixels}

SessionStep(cells, added) ==
  /\ active # NoProject /\ UNCHANGED <<pinned, tier, minted, picks, durable, unstepped>>
  /\ Made(added) /\ Written(cells) /\ Left(cells, added) /\ Stored(cells, added)

(* A counter one ahead of some number at most: what is below it is at most   *)
(* that number, what is not above it is a counter of the kind.               *)
LEMMA AheadOf ==
  \A m \in Nat : \A next \in 1..(m + 1) :
    /\ next \in Nat /\ m + 1 \in Nat
    /\ \A k \in Nat : k < next => k <= m
    /\ \A k \in Nat \ {0} : k <= next => k \in 1..(m + 1)
    /\ \A n \in Nat : m <= n => next \in 1..(n + 1)
OBVIOUS

(* The counters never fall behind, and an exposure that was made is new.     *)
LEMMA MadeNew ==
  ASSUME IInv, NEW added, Made(added), active # NoProject
  PROVE  /\ taken' \in 0..MaxShots /\ taken \in 0..MaxShots /\ taken <= taken'
         /\ nextCandidate \in Nat /\ nextFrame \in Nat
         /\ nextCandidate' \in 1..(taken' + 1) /\ nextCandidate <= nextCandidate'
         /\ nextFrame' \in 1..(taken' + 1) /\ nextFrame <= nextFrame'
         /\ added \subseteq Candidate
         /\ \A c \in added :
              /\ c.id = nextCandidate /\ c.frame = nextFrame
              /\ c.id < nextCandidate' /\ c.frame < nextFrame'
         /\ \A c, d \in added : c = d
         /\ \A c \in All :
              /\ c \in Candidate /\ c.frame \in Frame /\ c.id \in Nat
              /\ c.id < nextCandidate /\ c.frame < nextFrame
<1>1. /\ taken \in 0..MaxShots /\ nextCandidate \in 1..(taken + 1) /\ nextFrame \in 1..(taken + 1)
  BY DEF IInv, TypeOK
<1>2. MaxShots \in Nat
  BY CaptureAssumption
<1>3. All \subseteq Candidate
  BY DEF IInv, TypeOK, All, Everywhere
<1>4. \A c \in All : c.id < nextCandidate /\ c.frame < nextFrame
  BY DEF IInv, IdentitiesUnique, All
<1>5. \A c \in Candidate : c.frame \in Frame /\ c.id \in Nat
  BY <1>2 DEF Candidate
<1>6. CASE UNCHANGED <<nextCandidate, nextFrame, taken>> /\ added = {}
  BY <1>1, <1>2, <1>3, <1>4, <1>5, <1>6
<1>7. CASE taken < MaxShots /\ Grown /\ \E ours \in BOOLEAN : added \in SUBSET {Taken(ours)}
  <2>1. PICK ours \in BOOLEAN : added \in SUBSET {Taken(ours)}
    BY <1>7
  <2>2. taken + 1 \in Shot /\ nextFrame \in Frame /\ nextCandidate \in 1..(MaxShots + 1)
    BY <1>1, <1>2, <1>7 DEF Shot, Frame
  <2>3. Taken(ours) \in Candidate
    BY <2>2 DEF Taken, Candidate
  <2>4. Taken(ours).id = nextCandidate /\ Taken(ours).frame = nextFrame
    BY DEF Taken
  <2>5. \A c \in added : c = Taken(ours)
    BY <2>1
  <2> HIDE DEF Taken
  <2>6. nextCandidate' = nextCandidate + 1 /\ nextFrame' = nextFrame + 1 /\ taken' = taken + 1
    BY <1>7 DEF Grown
  <2>7. /\ taken' \in 0..MaxShots /\ nextCandidate' \in 1..(taken' + 1)
        /\ nextFrame' \in 1..(taken' + 1)
        /\ nextCandidate < nextCandidate' /\ nextFrame < nextFrame'
        /\ nextCandidate <= nextCandidate' /\ nextFrame <= nextFrame' /\ taken <= taken'
    BY <1>1, <1>2, <1>7, <2>6
  <2>8. added \subseteq Candidate /\ \A c, d \in added : c = d
    BY <2>3, <2>5
  <2>9. \A c \in added : c.id = nextCandidate /\ c.frame = nextFrame
    BY <2>4, <2>5
  <2> HIDE DEF Taken
  <2>10. \A c \in added : c.id < nextCandidate' /\ c.frame < nextFrame'
    BY <2>7, <2>9
  <2>11. \A c \in All : c \in Candidate /\ c.frame \in Frame /\ c.id \in Nat
    BY <1>3, <1>5
  <2>12. nextCandidate \in Nat /\ nextFrame \in Nat
    BY <1>1
  <2> QED
    BY <1>4, <2>7, <2>8, <2>9, <2>10, <2>11, <2>12, <1>1
<1> QED
  BY <1>6, <1>7 DEF Made

(* What is noted of the session was issued by it.                            *)
LEMMA PastIs ==
  ASSUME IInv, active # NoProject
  PROVE  \A c \in Past : /\ c.id \in Nat /\ c.frame \in Nat /\ nextFrame \in Nat
                         /\ c.id < nextCandidate /\ c.frame < nextFrame
<1>1. \A c \in All : /\ c.id \in Nat /\ c.frame \in Nat
                     /\ c.id < nextCandidate /\ c.frame < nextFrame
  BY DEF IInv, TypeOK, IdentitiesUnique, All, Everywhere, Candidate, Frame
<1>2. nextCandidate \in Nat /\ nextFrame \in Nat
  BY CaptureAssumption DEF IInv, TypeOK
<1>3. ASSUME NEW c \in Noted
      PROVE  c.id \in Nat /\ c.frame \in Nat /\ c.id < nextCandidate /\ c.frame < nextFrame
  <2>1. InTier(active, documents[active]) /\ c \in Took(documents[active]) /\ active \in Projects
    BY <1>3, InSession DEF Noted
  <2>2. documents[active] \in Document
    BY <2>1 DEF IInv, TypeOK, Documents, InTier
  <2>3. c \in Candidate
    BY <2>1, <2>2 DEF Document, Took, Everywhere
  <2>4. c.id \in Nat /\ c.frame \in Nat /\ documents[active].nextCandidate \in Nat
    BY <2>2, <2>3, CaptureAssumption DEF Candidate, Frame, Document
  <2>5. /\ c.id < documents[active].nextCandidate /\ documents[active].nextCandidate <= nextCandidate
        /\ c.frame < nextFrame
    BY <2>1, InSession
  <2> QED
    BY <1>2, <2>4, <2>5
<1> QED
  BY <1>1, <1>2, <1>3 DEF Past

(* Whoever is left, or is named by the document, was there or is new: so     *)
(* identities stay apart.                                                    *)
LEMMA StillUnique ==
  ASSUME IInv, NEW cells, NEW added, SessionStep(cells, added)
  PROVE  /\ Everywhere(cells) \cup pending' \subseteq All \cup added
         /\ Everywhere(cells) \cup pending' \subseteq Candidate
         /\ All \subseteq Past
         /\ \A c, d \in Past \cup added : c # d => c.id # d.id /\ c.frame # d.frame
         /\ \A c \in Past \cup added : c.id < nextCandidate' /\ c.frame < nextFrame'
<1> DEFINE left == Everywhere(cells) \cup pending'
           written == Noted
<1>0. Past = All \cup written
  BY DEF Past
<1>1. active # NoProject /\ Made(added) /\ Left(cells, added)
  BY DEF SessionStep
<1>2. left \subseteq All \cup added
  BY <1>1 DEF Left, Everywhere, All
<1>3. added \subseteq Candidate /\ All \subseteq Candidate
  BY <1>1, MadeNew
<1>4. \A c, d \in All : c # d => c.id # d.id /\ c.frame # d.frame
  BY DEF IInv, IdentitiesUnique, All
<1>5. \A c \in All, d \in added : c.id # d.id /\ c.frame # d.frame
  BY <1>1, MadeNew DEF Frame
<1>6. \A c, d \in added : c = d
  BY <1>1, MadeNew
<1>7. \A c \in All \cup added : c.id < nextCandidate' /\ c.frame < nextFrame'
  <2>1. \A c \in All : c.id < nextCandidate' /\ c.frame < nextFrame'
    BY <1>1, MadeNew DEF Frame
  <2> QED
    BY <1>1, <2>1, MadeNew
<1>8. ASSUME NEW c \in written
      PROVE  /\ c.id \in Nat /\ c.frame \in Nat
             /\ c.id < nextCandidate /\ c.frame < nextFrame
             /\ \A d \in written \cup All : c # d => c.id # d.id /\ c.frame # d.frame
  <2>1. InTier(active, documents[active]) /\ c \in Took(documents[active]) /\ active \in Projects
    BY <1>1, <1>8, InSession DEF Noted
  <2>2. documents[active] \in Document /\ Counted(documents[active])
    BY <2>1 DEF IInv, TypeOK, Documents, InTier, AllCounted
  <2>3. c \in Candidate
    BY <2>1, <2>2 DEF Document, Took, Everywhere
  <2>4. c.id \in Nat /\ c.frame \in Nat /\ documents[active].nextCandidate \in Nat
    BY <2>2, <2>3, CaptureAssumption DEF Candidate, Frame, Document
  <2>5. /\ c.id < documents[active].nextCandidate /\ documents[active].nextCandidate <= nextCandidate
        /\ c.frame < nextFrame
    BY <1>1, <2>1, InSession
  <2>6. nextCandidate \in Nat /\ nextFrame \in Nat
    BY <1>1, MadeNew
  <2>7. c.id < nextCandidate
    BY <2>4, <2>5, <2>6
  <2>8. \A d \in Took(documents[active]) : c # d => c.id # d.id /\ c.frame # d.frame
    BY <2>1, <2>2 DEF Counted
  <2>9. \A d \in All : c # d => c.id # d.id /\ c.frame # d.frame
    BY <1>1, <2>1 DEF IInv, DocumentInStep, All, Took
  <2> QED
    BY <2>4, <2>5, <2>7, <2>8, <2>9 DEF Noted
<1> HIDE DEF written
<1>9. \A c \in written, d \in added : c.id # d.id /\ c.frame # d.frame
  <2>1. nextCandidate \in Nat /\ nextFrame \in Nat
        /\ \A d \in added : d.id = nextCandidate /\ d.frame = nextFrame
    BY <1>1, MadeNew
  <2> QED
    BY <1>8, <2>1
<1>10. \A c \in written : c.id < nextCandidate' /\ c.frame < nextFrame'
  <2>1. /\ nextCandidate \in Nat /\ nextFrame \in Nat
        /\ nextCandidate <= nextCandidate' /\ nextFrame <= nextFrame'
        /\ nextCandidate' \in 1..(taken' + 1) /\ nextFrame' \in 1..(taken' + 1)
        /\ taken' \in 0..MaxShots
    BY <1>1, MadeNew
  <2>2. nextCandidate' \in Nat /\ nextFrame' \in Nat
    BY <2>1, CaptureAssumption
  <2> QED
    BY <1>8, <2>1, <2>2
<1>11. \A c, d \in Past \cup added : c # d => c.id # d.id /\ c.frame # d.frame
  BY <1>0, <1>4, <1>5, <1>6, <1>8, <1>9
<1>12. \A c \in Past \cup added : c.id < nextCandidate' /\ c.frame < nextFrame'
  BY <1>0, <1>7, <1>10
<1> QED
  BY <1>0, <1>2, <1>3, <1>11, <1>12

(* After any call the document of the session is as it was, or says what of  *)
(* it is ours, now or before the call, under a counter that went up or       *)
(* stayed; and no other document was touched.                                *)
LEMMA SessionWritten ==
  ASSUME IInv, NEW cells, NEW added, SessionStep(cells, added)
  PROVE  /\ documents' \in Documents
         /\ \A p \in Projects : p # active => documents'[p] = documents[p]
         /\ \/ documents'[active] = documents[active]
            \/ /\ InTier(active, documents'[active])
               /\ documents'[active].nextCandidate = nextCandidate'
         /\ InTier(active, documents[active]) =>
              /\ InTier(active, documents'[active])
              /\ documents[active].nextCandidate \in Nat
              /\ documents[active].nextCandidate <= documents'[active].nextCandidate
         /\ InTier(active, documents'[active]) =>
              /\ documents'[active].nextCandidate \in Nat \ {0}
              /\ documents'[active].nextCandidate <= nextCandidate'
              /\ \A c \in Took(documents'[active]) :
                   /\ c \in Past \cup added /\ c \in Candidate /\ c.ours
                   /\ c.id < documents'[active].nextCandidate
                   /\ \/ InTier(active, documents[active]) /\ c \in Took(documents[active])
                      \/ c \in Everywhere(candidates) \cup Everywhere(cells)
              /\ \A n \in Nodes : documents'[active].candidates[n] \subseteq
                   candidates[n] \cup cells[n] \cup
                   (IF InTier(active, documents[active]) THEN documents[active].candidates[n] ELSE {})
         /\ active' # NoProject /\ ~behind' =>
              /\ InTier(active, documents'[active])
              /\ \A n \in Nodes : documents'[active].candidates[n] = {c \in cells[n] : c.ours}
<1>1. active # NoProject /\ active \in Projects /\ Made(added) /\ Left(cells, added)
      /\ Written(cells)
  BY InSession DEF SessionStep
<1>2. documents \in Documents
  BY DEF IInv, TypeOK
<1>3. /\ nextCandidate \in Nat /\ nextCandidate' \in Nat \ {0} /\ nextCandidate <= nextCandidate'
  <2>1. taken' \in Nat
    BY <1>1, MadeNew, CaptureAssumption
  <2>2. nextCandidate' \in 1..(taken' + 1) /\ nextCandidate \in Nat /\ nextCandidate <= nextCandidate'
    BY <1>1, MadeNew
  <2> QED
    BY <2>1, <2>2
<1>4. InTier(active, documents[active]) =>
        /\ documents[active] \in Document /\ documents[active].nextCandidate \in Nat \ {0}
        /\ documents[active].nextCandidate <= nextCandidate
        /\ documents[active].nextCandidate <= nextCandidate'
        /\ documents[active].nextCandidate <= documents[active].nextCandidate
        /\ \A c \in Took(documents[active]) :
             c \in Candidate /\ c.ours /\ c.id < documents[active].nextCandidate
  <2>1. ASSUME InTier(active, documents[active])
        PROVE  documents[active] \in Document /\ documents[active].nextCandidate \in Nat \ {0}
    <3>1. documents[active] \in Document
      BY <1>1, <1>2, <2>1 DEF Documents, InTier
    <3>2. documents[active].nextCandidate \in 1..(taken + 1) /\ taken \in Nat
      BY <1>1, <2>1, CaptureAssumption DEF IInv, AllCounted, Counted, TypeOK
    <3> QED
      BY <3>1, <3>2
  <2>2. ASSUME InTier(active, documents[active]), NEW c \in Took(documents[active])
        PROVE  c \in Candidate /\ c.ours /\ c.id < documents[active].nextCandidate
    BY <1>1, <2>1, <2>2, InSession DEF Document, Took, Everywhere
  <2>3. InTier(active, documents[active]) => documents[active].nextCandidate <= nextCandidate
    BY <1>1, InSession
  <2> QED
    BY <1>3, <2>1, <2>2, <2>3
<1>5. CASE UNCHANGED documents
            /\ (active' # NoProject /\ ~behind' =>
                  ~behind /\ \A n \in Nodes : Ours(cells)[n] = Ours(candidates)[n])
  <2>1. InTier(active, documents'[active]) <=> InTier(active, documents[active])
    BY <1>5
  <2>2. ASSUME active' # NoProject, ~behind'
        PROVE  /\ InTier(active, documents'[active])
               /\ \A n \in Nodes : documents'[active].candidates[n] = {c \in cells[n] : c.ours}
    <3>1. \A n \in Nodes : {c \in cells[n] : c.ours} = {c \in candidates[n] : c.ours}
      BY <1>5, <2>2 DEF Ours
    <3>2. InTier(active, documents[active]) /\
          \A n \in Nodes : documents[active].candidates[n] = {c \in candidates[n] : c.ours}
      BY <1>1, <1>5, <2>2 DEF IInv, DocumentInStep
    <3> QED
      BY <1>5, <2>1, <3>1, <3>2
  <2>3. InTier(active, documents[active]) => Took(documents[active]) \subseteq Past
    BY DEF Past, Noted
  <2> QED
    BY <1>2, <1>4, <1>5, <2>1, <2>2, <2>3
<1>6. ASSUME NEW kept \in {cells, candidates},
             WriteDocument(active, tier, kept, nextCandidate'), behind' \/ kept = cells
      PROVE  /\ documents' \in Documents
             /\ \A p \in Projects : p # active => documents'[p] = documents[p]
             /\ InTier(active, documents'[active])
             /\ documents'[active].nextCandidate = nextCandidate'
             /\ \A n \in Nodes : documents'[active].candidates[n] = {c \in kept[n] : c.ours}
             /\ \A c \in Took(documents'[active]) :
                  /\ c \in Past \cup added /\ c \in Candidate /\ c.ours
                  /\ c.id < documents'[active].nextCandidate
                  /\ c \in Everywhere(candidates) \cup Everywhere(cells)
  <2> DEFINE doc == [generation |-> tier, nextCandidate |-> nextCandidate',
                     candidates |-> [n \in Nodes |-> {c \in kept[n] : c.ours}]]
  <2>1. documents' = [documents EXCEPT ![active] = doc]
    BY <1>6 DEF WriteDocument
  <2>2. tier \in 1..MaxGeneration
    BY CaptureAssumption DEF IInv, TypeOK
  <2>3. kept \in [Nodes -> SUBSET Candidate]
    BY <1>1, <1>6, MadeNew DEF Left, IInv, TypeOK
  <2>4. [n \in Nodes |-> {c \in kept[n] : c.ours}] \in [Nodes -> SUBSET Candidate]
    BY <2>3
  <2>5. doc \in Document
    BY <1>3, <2>2, <2>4 DEF Document
  <2>6. /\ doc.generation = tier /\ doc.nextCandidate = nextCandidate'
        /\ \A n \in Nodes : doc.candidates[n] = {c \in kept[n] : c.ours}
    OBVIOUS
  <2> HIDE DEF doc
  <2>7. documents' \in Documents /\ documents'[active] = doc
        /\ \A p \in Projects : p # active => documents'[p] = documents[p]
    BY <1>1, <1>2, <2>1, <2>5 DEF Documents
  <2>8. InTier(active, documents'[active])
    BY <2>5, <2>6, <2>7, MarkersAssumption DEF InTier
  <2>9. \A c \in Took(documents'[active]) : c \in Everywhere(kept) /\ c.ours
    BY <2>6, <2>7 DEF Took, Everywhere
  <2>10. Everywhere(kept) \subseteq All \cup added /\ Everywhere(kept) \subseteq Candidate
    <3>1. CASE kept = cells
      BY <3>1, StillUnique
    <3>2. CASE kept = candidates
      BY <2>3, <3>2 DEF All, Everywhere
    <3> QED
      BY <1>6, <3>1, <3>2
  <2>11. \A c \in Everywhere(kept) : c \in Past \cup added /\ c.id < nextCandidate'
    BY <2>10, StillUnique
  <2>12. Everywhere(kept) \subseteq Everywhere(candidates) \cup Everywhere(cells)
    BY <1>6
  <2> QED
    BY <2>6, <2>7, <2>8, <2>9, <2>10, <2>11, <2>12
<1>7. CASE \E kept \in {cells, candidates} :
             WriteDocument(active, tier, kept, nextCandidate') /\ (behind' \/ kept = cells)
  <2>1. PICK kept \in {cells, candidates} :
          WriteDocument(active, tier, kept, nextCandidate') /\ (behind' \/ kept = cells)
    BY <1>7
  <2>2. /\ documents' \in Documents
        /\ \A p \in Projects : p # active => documents'[p] = documents[p]
        /\ InTier(active, documents'[active])
        /\ documents'[active].nextCandidate = nextCandidate'
        /\ \A n \in Nodes : documents'[active].candidates[n] = {c \in kept[n] : c.ours}
        /\ \A c \in Took(documents'[active]) :
             /\ c \in Past \cup added /\ c \in Candidate /\ c.ours
             /\ c.id < documents'[active].nextCandidate
             /\ c \in Everywhere(candidates) \cup Everywhere(cells)
    BY <1>6, <2>1
  <2>3. nextCandidate' <= nextCandidate'
    BY <1>3
  <2>4. \A n \in Nodes : documents'[active].candidates[n] \subseteq candidates[n] \cup cells[n]
    BY <2>1, <2>2
  <2>5. active' # NoProject /\ ~behind' =>
          \A n \in Nodes : documents'[active].candidates[n] = {c \in cells[n] : c.ours}
    BY <2>1, <2>2
  <2> QED
    BY <1>3, <1>4, <2>2, <2>3, <2>4, <2>5
<1> QED
  BY <1>1, <1>5, <1>7 DEF Written

(* The types are kept.                                                       *)
LEMMA SessionTypes ==
  ASSUME IInv, NEW cells, NEW added, SessionStep(cells, added)
  PROVE  TypeOK'
<1>1. active # NoProject /\ Made(added) /\ Left(cells, added) /\ Stored(cells, added)
      /\ UNCHANGED <<pinned, tier, minted, picks, durable, unstepped>> /\ Written(cells)
  BY DEF SessionStep
<1>2. TypeOK
  BY DEF IInv
<1>3. (active \in Projects \cup {NoProject} /\ candidates \in [Nodes -> SUBSET Candidate])'
  BY <1>1, <1>2 DEF Left, TypeOK, NoCandidates
<1>4. active' = NoProject => candidates' = NoCandidates /\ firing' = NoNode
  BY <1>1 DEF Left
<1>5. firing' \in Nodes \cup {NoNode} /\ (firing' = NoNode => pending' = {})
      /\ Cardinality(pending') < FrameCount
  BY <1>1 DEF Left
<1>6. pending' \subseteq Candidate /\ IsFiniteSet(pending')
  <2>1. IsFiniteSet(pending)
    BY <1>2 DEF TypeOK
  <2>2. IsFiniteSet(added)
    <3>1. added = {} \/ \E ours \in BOOLEAN : added \subseteq {Taken(ours)}
      BY <1>1 DEF Made
    <3> QED
      BY <3>1, FS_EmptySet, FS_Singleton, FS_Subset
  <2>3. IsFiniteSet(pending \cup added)
    BY <2>1, <2>2, FS_Union
  <2>4. pending' \subseteq pending \cup added
    BY <1>1 DEF Left
  <2> QED
    BY <2>3, <2>4, FS_Subset, StillUnique
<1>7. taken' \in 0..MaxShots /\ nextCandidate' \in 1..(taken' + 1) /\ nextFrame' \in 1..(taken' + 1)
  BY <1>1, MadeNew
<1>8. store' \in Store /\ (\A f \in store'.cold : ~InHeap(store', f)) /\ sink' \in Copies
      /\ (\A f \in pinned' : InHeap(store', f)) /\ pinned' \subseteq Frame
  BY <1>1, <1>2 DEF Stored, Sorted, TypeOK
<1>9. offered' \subseteq Frame
  BY <1>1 DEF Left
<1>10. minted' \in 1..MaxGeneration /\ tier' \in 1..minted' /\ picks' \in Picks
       /\ durable' \in [documents : Documents, picks : Picks]
  BY <1>1, <1>2 DEF TypeOK
<1>11. documents' \in Documents
  BY SessionWritten
<1>12. behind' \in BOOLEAN /\ (active' = NoProject => ~behind')
  BY <1>1 DEF Written
<1>13. stranded' \subseteq Frame /\ unstepped' \in BOOLEAN
  BY <1>1, <1>2 DEF Left, TypeOK
<1> QED
  BY <1>3, <1>4, <1>5, <1>6, <1>7, <1>8, <1>9, <1>10, <1>11, <1>12, <1>13 DEF TypeOK

(* The documents are still of tiers there have been, one of them of this.    *)
LEMMA SessionDocuments ==
  ASSUME IInv, NEW cells, NEW added, SessionStep(cells, added)
  PROVE  Generations' /\ OneCapture' /\ DocumentInStep' /\ Adopted'
<1>1. /\ active # NoProject /\ active \in Projects /\ Made(added) /\ Left(cells, added)
      /\ tier' = tier /\ minted' = minted /\ durable' = durable
  BY InSession DEF SessionStep
<1>2. /\ \A p \in Projects : p # active => documents'[p] = documents[p]
      /\ documents'[active] = documents[active] \/ InTier(active, documents'[active])
      /\ InTier(active, documents[active]) =>
           /\ InTier(active, documents'[active])
           /\ documents[active].nextCandidate \in Nat
           /\ documents[active].nextCandidate <= documents'[active].nextCandidate
      /\ InTier(active, documents'[active]) =>
           /\ documents'[active].nextCandidate \in Nat
           /\ documents'[active].nextCandidate <= nextCandidate'
           /\ \A c \in Took(documents'[active]) : c \in Past \cup added
  BY SessionWritten
<1>3. Generations'
  <2>1. tier <= minted
    BY CaptureAssumption DEF IInv, TypeOK
  <2> QED
    BY <1>1, <1>2, <2>1 DEF IInv, Generations, InTier
<1>4. \A p \in Projects : InTier(p, documents'[p]) => p = active
  BY <1>1, <1>2, InSession DEF InTier
<1>5. ASSUME NEW p \in Projects, InTier(p, durable.documents[p])
      PROVE  /\ p = active /\ InTier(p, documents'[p])
             /\ durable.documents[p].nextCandidate <= documents'[p].nextCandidate
             /\ \A c \in Took(durable.documents[p]) : c.frame < nextFrame'
  <2>1. p = active /\ InTier(active, durable.documents[active])
        /\ InTier(active, documents[active])
    BY <1>1, <1>5, InSession
  <2>2. /\ durable.documents[active].nextCandidate <= documents[active].nextCandidate
        /\ \A c \in Took(durable.documents[active]) : c.frame < nextFrame
    BY <1>1, <2>1, InSession
  <2>3. durable.documents[active].nextCandidate \in Nat
    BY <1>1, <2>1, CaptureAssumption DEF IInv, AllCounted, Counted, TypeOK
  <2>4. ASSUME NEW c \in Took(durable.documents[active]) PROVE c.frame < nextFrame'
    <3>1. c.frame \in Frame
      BY <1>1, <2>1 DEF IInv, TypeOK, Documents, Document, InTier, Took, Everywhere, Candidate
    <3>2. nextFrame \in Nat /\ nextFrame <= nextFrame' /\ nextFrame' \in Nat
      BY <1>1, MadeNew, CaptureAssumption
    <3> QED
      BY <2>2, <3>1, <3>2, CaptureAssumption DEF Frame
  <2>5. documents'[active].nextCandidate \in Nat /\ documents[active].nextCandidate \in Nat
        /\ documents[active].nextCandidate <= documents'[active].nextCandidate
    BY <1>2, <2>1
  <2>6. durable.documents[active].nextCandidate <= documents'[active].nextCandidate
    BY <2>2, <2>3, <2>5
  <2> QED
    BY <1>2, <2>1, <2>4, <2>6
<1>6. OneCapture'
  <2>1. active' = active \/ active' = NoProject
    BY <1>1 DEF Left
  <2> QED
    BY <1>1, <1>4, <1>5, <2>1 DEF OneCapture, InTier, Took
<1>7. DocumentInStep'
  <2>1. ASSUME active' # NoProject PROVE active' = active /\ candidates' = cells
    BY <1>1, <2>1 DEF Left
  <2>2. active' # NoProject /\ ~behind' =>
          /\ InTier(active, documents'[active])
          /\ \A n \in Nodes : documents'[active].candidates[n] = {c \in cells[n] : c.ours}
    BY SessionWritten
  <2>3. ASSUME InTier(active, documents'[active]),
               NEW c \in Took(documents'[active]), NEW d \in Everywhere(cells) \cup pending',
               c.id = d.id \/ c.frame = d.frame
        PROVE  c = d
    <3>1. c \in Past \cup added /\ d \in Past \cup added
      BY <1>2, <2>3, StillUnique
    <3> QED
      BY <2>3, <3>1, StillUnique
  <2> QED
    BY <1>1, <1>2, <2>1, <2>2, <2>3 DEF DocumentInStep, InTier, Took
<1>8. Adopted'
  <2>1. InTier(active, documents'[active]) =>
          \A c \in Took(documents'[active]) : c.frame < nextFrame'
    BY <1>2, StillUnique
  <2> QED
    BY <1>1, <1>4, <2>1 DEF Adopted, InTier, Took
<1> QED
  BY <1>3, <1>6, <1>7, <1>8

(* Identities stay apart, in the session and in whatever document of it.     *)
LEMMA SessionIdentities ==
  ASSUME IInv, NEW cells, NEW added, SessionStep(cells, added)
  PROVE  IdentitiesUnique' /\ AllCounted'
<1>1. /\ active # NoProject /\ active \in Projects /\ Made(added)
      /\ Left(cells, added) /\ Stored(cells, added)
      /\ tier' = tier /\ durable' = durable
  BY InSession DEF SessionStep
<1>2. /\ Everywhere(cells) \cup pending' \subseteq Past \cup added
      /\ Everywhere(cells) \cup pending' \subseteq Candidate
      /\ \A c, d \in Past \cup added : c # d => c.id # d.id /\ c.frame # d.frame
      /\ \A c \in Past \cup added : c.id < nextCandidate' /\ c.frame < nextFrame'
  BY StillUnique
<1>3. Everywhere(candidates') \subseteq Everywhere(cells)
  BY <1>1 DEF Left, Everywhere, NoCandidates
<1>4. \A f \in Frame : Known(store', f) => f < nextFrame'
  <2>1. nextFrame \in Nat /\ nextFrame' \in Nat /\ nextFrame <= nextFrame'
    BY <1>1, MadeNew, CaptureAssumption
  <2>2. ASSUME NEW f \in Frame, Known(store', f) PROVE f < nextFrame'
    <3>1. Known(store, f) \/ (f = nextFrame /\ Grown)
      BY <1>1, <2>2 DEF Stored
    <3>2. CASE Known(store, f)
      BY <1>1, <2>1, <3>2, InSession, CaptureAssumption DEF Frame
    <3>3. CASE f = nextFrame /\ Grown
      BY <2>1, <3>3 DEF Grown
    <3> QED
      BY <3>1, <3>2, <3>3
  <2> QED
    BY <2>2
<1>5. IdentitiesUnique'
  BY <1>2, <1>3, <1>4 DEF IdentitiesUnique
<1>6. /\ taken \in Nat /\ taken' \in Nat /\ taken <= taken'
      /\ nextFrame' \in 1..(taken' + 1) /\ nextCandidate' \in 1..(taken' + 1)
  BY <1>1, MadeNew, CaptureAssumption
<1>7. ASSUME InTier(active, documents'[active]), NEW p \in Projects, p = active
      PROVE  Counted(documents[p])'
  <2>1. /\ documents'[active].nextCandidate \in Nat \ {0}
        /\ documents'[active].nextCandidate <= nextCandidate'
        /\ \A c \in Took(documents'[active]) :
             /\ c \in Past \cup added /\ c \in Candidate /\ c.ours
             /\ c.id < documents'[active].nextCandidate
    BY <1>7, SessionWritten
  <2>2. documents'[active].nextCandidate \in 1..(taken' + 1)
    BY <1>6, <2>1, AheadOf
  <2>3. \A c, d \in Took(documents'[active]) : c # d => c.id # d.id /\ c.frame # d.frame
    BY <1>2, <2>1
  <2>4. ASSUME NEW c \in Took(documents'[active]) PROVE c.frame <= taken'
    <3>1. c.frame < nextFrame' /\ c \in Candidate
      BY <1>2, <2>1
    <3>2. c.frame \in Nat
      BY <3>1, CaptureAssumption DEF Candidate, Frame
    <3> QED
      BY <1>6, <3>1, <3>2, AheadOf
  <2> QED
    BY <1>7, <2>1, <2>2, <2>3, <2>4 DEF Counted, Took
<1>8. ASSUME NEW p \in Projects, InTier(p, durable.documents[p])
      PROVE  Counted(durable.documents[p])'
  <2>1. Counted(durable.documents[p])
    BY <1>8 DEF IInv, AllCounted
  <2>2. durable.documents[p] \in Document
    BY <1>8 DEF IInv, TypeOK, Documents, InTier
  <2>3. \A c \in Took(durable.documents[p]) : c.frame \in Nat
    BY <2>2, CaptureAssumption DEF Document, Took, Everywhere, Candidate, Frame
  <2>4. \A c \in Took(durable.documents[p]) : c.frame <= taken'
    BY <1>6, <2>1, <2>3 DEF Counted
  <2>5. durable.documents[p].nextCandidate \in 1..(taken' + 1)
    BY <1>6, <2>1 DEF Counted
  <2> QED
    BY <1>1, <2>1, <2>4, <2>5 DEF Counted, Took
<1>9. AllCounted'
  <2>1. \A p \in Projects : InTier(p, documents'[p]) => p = active
    BY <1>1, InSession, SessionWritten DEF InTier
  <2> QED
    BY <1>1, <1>7, <1>8, <2>1 DEF AllCounted, InTier
<1> QED
  BY <1>5, <1>9

(* What a candidate shows, before a call and after it, by what the store and *)
(* the tier have of its frame.                                               *)
LEMMA FineShows ==
  /\ \A f : PixelsOf(f) = ShownBy(store, sink, f)
  /\ \A f : PixelsOf(f)' = ShownBy(store', sink', f)
BY DEF PixelsOf, ShownBy, InHeap

(* A call of the session leaves what was its own its own.                    *)
LEMMA SessionFine ==
  ASSUME IInv, NEW cells, NEW added, SessionStep(cells, added)
  PROVE  AllFine'
<1>1. /\ active # NoProject /\ active \in Projects /\ Made(added)
      /\ Left(cells, added) /\ Stored(cells, added)
      /\ tier' = tier /\ durable' = durable
  BY InSession DEF SessionStep
<1>2. /\ Everywhere(cells) \cup pending' \subseteq All \cup added
      /\ Everywhere(cells) \cup pending' \subseteq Candidate
  BY StillUnique
<1>3. Everywhere(candidates') \subseteq Everywhere(cells)
  BY <1>1 DEF Left, Everywhere, NoCandidates
<1>4. ASSUME NEW c \in Candidate, Fine(c), c.frame # nextFrame
      PROVE  /\ Fine(c)'
             /\ Safe(c) => Safe(c)'
  <2>1. c.frame \in Frame \ {nextFrame}
    BY <1>4 DEF Candidate
  <2>2. /\ ShownBy(store', sink', c.frame) \in {ShownBy(store, sink, c.frame), NoPixels}
        /\ sink'[c.frame] \in {sink[c.frame], NoPixels, ShownBy(store, sink, c.frame)}
    BY <1>1, <2>1 DEF Stored
  <2>3. ShownBy(store, sink, c.frame) \in {c.shot, NoPixels}
    BY <1>4, FineShows DEF Fine
  <2>4. PixelsOf(c.frame)' \in {c.shot, NoPixels}
    BY <2>2, <2>3, FineShows
  <2> QED
    BY <2>2, <2>3, <2>4 DEF Fine, Safe
<1>5. \A c \in All : c.frame # nextFrame /\ c \in Candidate /\ Fine(c)
  BY <1>1, MadeNew DEF IInv, AllFine, Frame
<1>6. \A c \in All : Fine(c)'
  BY <1>4, <1>5
<1>7. \A c \in added : Fine(c)'
  BY <1>1, FineShows DEF Stored, Fine
<1>8. \A c \in Everywhere(cells) \cup pending' : Fine(c)'
  BY <1>2, <1>6, <1>7
<1>9. \A c \in Everywhere(candidates) : c.ours => Fine(c)' /\ Safe(c)'
  BY <1>4, <1>5 DEF IInv, AllFine, All
<1>10. \A c \in Everywhere(cells) : c.ours => Fine(c)' /\ Safe(c)'
  BY <1>1, <1>8, <1>9 DEF Stored, Safe
<1>11. ASSUME NEW c \in Candidate, c.frame < nextFrame, Fine(c), Safe(c)
       PROVE  Fine(c)' /\ Safe(c)'
  <2>1. nextFrame \in Nat
    BY <1>1, MadeNew
  <2>2. c.frame # nextFrame
    BY <1>11, <2>1
  <2> QED
    BY <1>4, <1>11, <2>2
<1>12. ASSUME InTier(active, documents'[active]), NEW c \in Took(documents'[active])
       PROVE  Fine(c)' /\ Safe(c)'
  <2>1. /\ c \in Candidate /\ c.ours
        /\ \/ InTier(active, documents[active]) /\ c \in Took(documents[active])
           \/ c \in Everywhere(candidates) \cup Everywhere(cells)
    BY <1>12, SessionWritten
  <2>2. CASE InTier(active, documents[active]) /\ c \in Took(documents[active])
    BY <1>1, <1>11, <2>1, <2>2, InSession
  <2> QED
    BY <1>9, <1>10, <2>1, <2>2
<1>13. ASSUME NEW p \in Projects, InTier(p, durable.documents[p]),
              NEW c \in Took(durable.documents[p])
       PROVE  Fine(c)' /\ Safe(c)'
  <2>1. p = active /\ c.frame < nextFrame /\ Fine(c) /\ Safe(c)
    BY <1>1, <1>13, InSession
  <2>2. c \in Candidate
    BY <1>13 DEF IInv, TypeOK, Documents, Document, InTier, Took, Everywhere
  <2> QED
    BY <1>11, <2>1, <2>2
<1>14. \A p \in Projects : InTier(p, documents'[p]) => p = active
  BY <1>1, InSession, SessionWritten DEF InTier
<1>15. \A c \in All' : Fine(c)'
  BY <1>3, <1>8 DEF All
<1>16. \A c \in Everywhere(candidates') : c.ours => Safe(c)'
  BY <1>3, <1>10
<1> QED
  BY <1>1, <1>12, <1>13, <1>14, <1>15, <1>16 DEF AllFine, InTier, Took

(* A burst's frames are its own still, a caller's its caller's, and nothing  *)
(* is left behind that nobody names but what could not be written down.      *)
LEMMA SessionNames ==
  ASSUME IInv, NEW cells, NEW added, SessionStep(cells, added)
  PROVE  Firing' /\ Callers' /\ NothingLeaks'
<1>1. /\ active # NoProject /\ active \in Projects /\ Made(added)
      /\ Left(cells, added) /\ Stored(cells, added)
      /\ tier' = tier /\ pinned' = pinned
  BY InSession DEF SessionStep
<1>2. /\ Everywhere(cells) \cup pending' \subseteq All \cup added
      /\ Everywhere(cells) \cup pending' \subseteq Past \cup added /\ Noted \subseteq Past
      /\ \A c, d \in Past \cup added : c # d => c.id # d.id /\ c.frame # d.frame
  BY StillUnique DEF Past
<1>3. Everywhere(candidates') \subseteq Everywhere(cells)
  BY <1>1 DEF Left, Everywhere, NoCandidates
<1>4. \A f \in pinned : f < nextFrame /\ f \in Frame
  BY <1>1, InSession DEF IInv, TypeOK, Known
<1>5. Firing'
  <2>1. \A c \in pending' : c.ours
    BY <1>1 DEF Left
  <2>2. ASSUME NEW c \in pending', NEW d \in Everywhere(cells) PROVE c.frame # d.frame
    BY <1>1, <1>2 DEF Left
  <2>3. ASSUME NEW c \in pending' PROVE c.frame \notin pinned
    <3>1. CASE c \in pending
      BY <3>1 DEF IInv, Firing
    <3>2. CASE c \in added
      BY <1>1, <1>4, <3>2, MadeNew
    <3> QED
      BY <1>1, <3>1, <3>2 DEF Left
  <2>4. ASSUME NEW c \in pending', NEW d \in Everywhere(candidates) \cup Noted
        PROVE  c.frame # d.frame
    <3>1. CASE c \in pending
      BY <3>1 DEF IInv, Firing
    <3>2. CASE c \in added
      <4>1. d \in Past /\ d.frame # nextFrame
        <5>1. d \in Past
          BY <1>2 DEF Past, All
        <5>2. d.frame < nextFrame /\ d.frame \in Nat /\ nextFrame \in Nat
          BY <1>1, <5>1, PastIs
        <5> QED
          BY <5>1, <5>2
      <4> QED
        BY <1>1, <3>2, <4>1, MadeNew
    <3> QED
      BY <1>1, <3>1, <3>2 DEF Left
  <2>5. ASSUME NEW c \in pending', InTier(active, documents'[active]),
               NEW d \in Took(documents'[active])
        PROVE  c.frame # d.frame
    <3>1. \/ InTier(active, documents[active]) /\ d \in Took(documents[active])
          \/ d \in Everywhere(candidates) \cup Everywhere(cells)
      BY <2>5, SessionWritten
    <3>2. d \in Noted \cup Everywhere(candidates) \cup Everywhere(cells)
      BY <3>1 DEF Noted
    <3> QED
      BY <2>2, <2>4, <3>2
  <2>6. pending' # {} => active' = active
    BY <1>1 DEF Left
  <2> QED
    BY <1>1, <1>3, <2>1, <2>2, <2>3, <2>5, <2>6 DEF Firing, Noted, InTier, Took
<1>6. \A c \in Everywhere(cells) : c.ours \/ c.frame \in offered'
  <2>1. \A c \in All : c.ours \/ c.frame \in offered
    BY DEF IInv, Firing, Callers, All
  <2> QED
    BY <1>1, <1>2, <2>1 DEF Left
<1>7. Callers'
  BY <1>3, <1>6 DEF Callers
<1>8. ASSUME NEW f \in Frame, Known(store', f)
      PROVE  \/ f \in FramesOf(Everywhere(candidates') \cup pending')
             \/ f \in offered' \cup stranded'
             \/ active' = NoProject /\ \E p \in Projects : InTier(p, documents[p])' /\ f \in Named(p)'
  <2>0. f \in FramesOf(Everywhere(cells) \cup pending') \/ f \in offered' \/ f \in stranded
    BY <1>1, <1>8 DEF Stored
  <2>1. CASE active' = active /\ candidates' = cells /\ stranded' = stranded
    BY <2>0, <2>1
  <2>2. CASE /\ active' = NoProject /\ firing' = NoNode /\ stranded \subseteq stranded'
             /\ \A c \in Everywhere(cells) : c.ours =>
                  \/ c.frame \in stranded'
                  \/ /\ documents'[active] # NoDocument /\ documents'[active].generation = tier
                     /\ c.frame \in FramesOf(Took(documents'[active]))
    <3>1. pending' = {}
      BY <1>1, <2>2 DEF Left
    <3>2. f \in FramesOf(Everywhere(cells)) \/ f \in offered' \/ f \in stranded'
      BY <2>0, <2>2, <3>1
    <3>3. ASSUME f \in FramesOf(Everywhere(cells)), f \notin offered', f \notin stranded',
                 NEW p \in Projects, p = active
          PROVE  InTier(p, documents[p])' /\ f \in Named(p)'
      <4>1. PICK c \in Everywhere(cells) : c.frame = f
        BY <3>3 DEF FramesOf
      <4>2. /\ documents'[p] # NoDocument /\ documents'[p].generation = tier
            /\ f \in FramesOf(Took(documents'[p]))
        BY <1>6, <2>2, <3>3, <4>1
      <4>3. f \in Named(p)'
        BY <4>2 DEF Named, FramesOf, Took, Everywhere
      <4> QED
        BY <1>1, <4>2, <4>3 DEF InTier
    <3> QED
      BY <1>1, <2>2, <3>2, <3>3
  <2> QED
    BY <1>1, <2>1, <2>2 DEF Left
<1>9. NothingLeaks'
  BY <1>8 DEF NothingLeaks, InTier, Everywhere, FramesOf
<1> QED
  BY <1>5, <1>7, <1>9

(* The invariant is kept by every call of a session in progress. *)
LEMMA SessionKeeps ==
  ASSUME IInv, NEW cells, NEW added, SessionStep(cells, added)
  PROVE  IInv'
<1>1. TypeOK' /\ Generations' /\ OneCapture' /\ DocumentInStep' /\ Adopted'
  BY SessionTypes, SessionDocuments
<1>2. IdentitiesUnique' /\ AllCounted' /\ AllFine'
  BY SessionIdentities, SessionFine
<1>3. Firing' /\ Callers' /\ NothingLeaks'
  BY SessionNames
<1>4. PicksTaken'
  <2>1. /\ picks' = picks /\ durable' = durable /\ Made(added) /\ active # NoProject
    BY DEF SessionStep
  <2>2. taken \in Nat /\ taken' \in Nat /\ taken <= taken'
    BY <2>1, MadeNew, CaptureAssumption
  <2>3. ASSUME NEW p \in Projects, NEW n \in Nodes
        PROVE  picks[p][n].id <= taken' /\ durable.picks[p][n].id <= taken'
    <3>1. picks[p][n].id <= taken /\ durable.picks[p][n].id <= taken
      BY DEF IInv, PicksTaken
    <3>2. picks[p][n] \in Pick /\ durable.picks[p][n] \in Pick
      BY DEF IInv, TypeOK, Picks
    <3>3. picks[p][n].id \in Nat /\ durable.picks[p][n].id \in Nat
      BY <3>2, CaptureAssumption DEF Pick
    <3> QED
      BY <2>2, <3>1, <3>3
  <2> QED
    BY <2>1, <2>3 DEF PicksTaken
<1> QED
  BY <1>1, <1>2, <1>3, <1>4 DEF IInv

-----------------------------------------------------------------------------
(* The calls of a session in progress, one after the other.  What they need  *)
(* of the state before:                                                      *)
LEMMA Before ==
  ASSUME IInv
  PROVE  /\ Sorted(store) /\ sink \in Copies /\ pinned \subseteq Frame
         /\ \A f \in pinned : InHeap(store, f)
         /\ candidates \in [Nodes -> SUBSET Candidate] /\ pending \subseteq Candidate
         /\ \A c \in Candidate : c.frame \in Frame
         /\ firing \in Nodes \cup {NoNode} /\ (firing # NoNode => active # NoProject)
         /\ taken \in 0..MaxShots /\ offered \subseteq Frame
         /\ Cardinality(pending) < FrameCount /\ Cardinality({}) < FrameCount
         /\ IsFiniteSet(pending)
         /\ \A c \in pending : c.ours /\ c.frame \notin pinned
         /\ pending \cap Everywhere(candidates) = {}
         /\ taken < MaxShots => nextFrame \in Frame /\ taken + 1 \in Shot
         /\ nextFrame \in Frame => ~Known(store, nextFrame)
         /\ \A f \in Frame : ~Known(store, f) => ShownBy(store, sink, f) = sink[f]
<1>1. TypeOK
  BY DEF IInv
<1>2. Sorted(store) /\ sink \in Copies /\ \A f \in pinned : InHeap(store, f)
  BY <1>1 DEF TypeOK, Sorted
<1>3. firing # NoNode => active # NoProject
  BY <1>1 DEF TypeOK
<1>4. FrameCount \in Nat \ {0} /\ MaxShots \in Nat
  BY CaptureAssumption
<1>5. Cardinality({}) < FrameCount
  BY <1>4, FS_EmptySet
<1>6. taken < MaxShots => nextFrame \in Frame /\ taken + 1 \in Shot
  BY <1>1, <1>4 DEF TypeOK, Frame, Shot
<1>7. nextFrame \in Frame => ~Known(store, nextFrame)
  BY <1>4 DEF IInv, IdentitiesUnique, Frame
<1>8. pending \cap Everywhere(candidates) = {}
  BY DEF IInv, Firing
<1>9. \A c \in Candidate : c.frame \in Frame
  BY DEF Candidate
<1> QED
  BY <1>1, <1>2, <1>3, <1>5, <1>6, <1>7, <1>8, <1>9 DEF TypeOK, IInv, Firing, ShownBy, Known, InHeap

(* A store that shows of every frame what the session's shows: the session's *)
(* own, what ranking looked at, or either with the next frame, of the next   *)
(* exposure, in its heap.                                                    *)
Looked(s, fresh) ==
  /\ Sorted(s)
  /\ \A f \in Frame \ {nextFrame} :
       /\ Known(s, f) <=> Known(store, f)
       /\ ShownBy(s, sink, f) = ShownBy(store, sink, f)
       /\ InHeap(store, f) => InHeap(s, f)
  /\ nextFrame \in Frame =>
       /\ Known(s, nextFrame) => fresh
       /\ fresh => Known(s, nextFrame) /\ ShownBy(s, sink, nextFrame) = taken + 1

(* The stores the calls go through are such stores.                          *)
LEMMA AllLooked ==
  ASSUME IInv, NEW cell
  PROVE  /\ Looked(store, FALSE) /\ Looked(Heated(store, cell), FALSE)
         /\ taken < MaxShots => Looked(WithFrame(Heated(store, cell), nextFrame, taken + 1), TRUE)
<1>1. Sorted(store) /\ sink \in Copies /\ (nextFrame \in Frame => ~Known(store, nextFrame))
      /\ (taken < MaxShots => nextFrame \in Frame /\ taken + 1 \in Shot)
  BY Before
<1>2. Looked(store, FALSE)
  BY <1>1 DEF Looked
<1>3. Looked(Heated(store, cell), FALSE)
  BY <1>1, HeatedShows DEF Looked
<1>4. ASSUME taken < MaxShots
      PROVE  Looked(WithFrame(Heated(store, cell), nextFrame, taken + 1), TRUE)
  <2> DEFINE h == Heated(store, cell)
             w == WithFrame(h, nextFrame, taken + 1)
  <2>1. Sorted(h) /\ ~Known(h, nextFrame) /\ nextFrame \in Frame /\ taken + 1 \in Shot
    BY <1>1, <1>4, HeatedShows
  <2>2. \A f \in Frame :
          /\ Known(h, f) <=> Known(store, f)
          /\ ShownBy(h, sink, f) = ShownBy(store, sink, f)
          /\ InHeap(store, f) => InHeap(h, f)
    BY <1>1, HeatedShows
  <2> HIDE DEF h
  <2>3. /\ Sorted(w)
        /\ \A g \in Frame : Known(w, g) <=> Known(h, g) \/ g = nextFrame
        /\ \A g \in Frame \ {nextFrame} :
             (InHeap(w, g) <=> InHeap(h, g)) /\ ShownBy(w, sink, g) = ShownBy(h, sink, g)
        /\ ShownBy(w, sink, nextFrame) = taken + 1
    BY <2>1, WithFrameShows
  <2> HIDE DEF w
  <2>4. Looked(w, TRUE)
    BY <2>1, <2>2, <2>3 DEF Looked
  <2> QED
    BY <2>4 DEF w, h
<1> QED
  BY <1>2, <1>3, <1>4

(* A call that goes on, and checkpoints what it leaves or nothing at all.    *)
LEMMA Checkpointed ==
  ASSUME active # NoProject, active' = active, NEW cells,
         Checkpoint(active, tier, cells, nextCandidate')
  PROVE  Written(cells)
BY DEF Checkpoint, Written

LEMMA NotCheckpointed ==
  ASSUME IInv, active # NoProject, UNCHANGED <<active, documents, behind>>
  PROVE  Written(candidates)
BY DEF Written, IInv, TypeOK

(* Forgetting nothing and cooling nothing leaves a store and a tier alone.   *)
LEMMA LeftAlone ==
  ASSUME NEW s, Sorted(s), NEW copies \in Copies
  PROVE  /\ Without(s, {}) = s /\ SinkWithout(copies, {}) = copies
         /\ store' = s /\ sink' = copies => StoreAfter(s, copies, {})
<1>1. s \in Store /\ s.heap \in Copies /\ s = [heap |-> s.heap, cold |-> s.cold]
  BY DEF Sorted, Store
<1>2. [f \in Frame |-> s.heap[f]] = s.heap /\ [f \in Frame |-> copies[f]] = copies
  BY <1>1 DEF Copies
<1>3. Without(s, {}) = s
  BY <1>1, <1>2 DEF Without
<1>4. SinkWithout(copies, {}) = copies
  BY <1>2 DEF SinkWithout
<1>5. Coolable(s, {}) = {} /\ Refusable(s, copies, {}) = {}
  BY DEF Coolable, Refusable
<1>6. Cooled(s, {}, {}) = s
  BY <1>1, <1>2, <1>5 DEF Cooled
<1>7. SinkCooled(s, copies, {}, {}) = copies
  BY <1>2, <1>5 DEF SinkCooled
<1> QED
  BY <1>3, <1>4, <1>5, <1>6, <1>7 DEF StoreAfter

(* From such a store frames nobody holds are forgotten, and a cell cooled.   *)
LEMMA Forgets ==
  ASSUME IInv, active # NoProject, NEW s, NEW fresh, Looked(s, fresh),
         NEW gone, gone \cap pinned = {}, NEW cell \in SUBSET Candidate,
         StoreAfter(Without(s, gone), SinkWithout(sink, gone), cell)
  PROVE  /\ Sorted(store') /\ sink' \in Copies
         /\ \A f \in pinned : InHeap(store', f)
         /\ \A f \in Frame : Known(store', f) <=> Known(s, f) /\ f \notin gone
         /\ \A f \in Frame :
              /\ ShownBy(store', sink', f) \in {ShownBy(s, sink, f), NoPixels}
              /\ sink'[f] \in {sink[f], NoPixels, ShownBy(s, sink, f)}
         /\ \A c \in cell : c.ours /\ c.frame \notin pinned =>
              sink'[c.frame] \in {NoPixels, ShownBy(s, sink, c.frame)}
<1> DEFINE t == Without(s, gone)
           k == SinkWithout(sink, gone)
<1>1. Sorted(s) /\ sink \in Copies /\ pinned \subseteq Frame
  BY Before DEF Looked
<1>2. /\ Sorted(t) /\ k \in Copies
      /\ \A f \in Frame :
           /\ Known(t, f) <=> Known(s, f) /\ f \notin gone
           /\ InHeap(t, f) <=> InHeap(s, f) /\ f \notin gone
           /\ f \in gone => ShownBy(t, k, f) = NoPixels
           /\ f \notin gone => ShownBy(t, k, f) = ShownBy(s, sink, f)
           /\ k[f] = IF f \in gone THEN NoPixels ELSE sink[f]
  BY <1>1, WithoutShows
<1> HIDE DEF t, k
<1>3. /\ Sorted(store') /\ sink' \in Copies
      /\ \A f \in Frame :
           /\ Known(store', f) <=> Known(t, f)
           /\ ShownBy(store', sink', f) = ShownBy(t, k, f)
           /\ sink'[f] \in {k[f], NoPixels, ShownBy(t, k, f)}
           /\ f \in pinned /\ InHeap(t, f) => InHeap(store', f)
      /\ \A c \in cell : c.ours /\ c.frame \notin pinned /\ InHeap(t, c.frame) =>
           sink'[c.frame] \in {NoPixels, ShownBy(t, k, c.frame)}
  BY <1>2, CooledShows DEF t, k
<1>4. ASSUME NEW f \in pinned PROVE InHeap(store', f)
  <2>1. f \in Frame /\ InHeap(store, f) /\ f # nextFrame
    BY Before DEF Known
  <2>2. InHeap(s, f)
    BY <2>1 DEF Looked
  <2> QED
    BY <1>2, <1>3, <2>1, <2>2
<1>5. \A f \in Frame :
        /\ ShownBy(store', sink', f) \in {ShownBy(s, sink, f), NoPixels}
        /\ sink'[f] \in {sink[f], NoPixels, ShownBy(s, sink, f)}
  BY <1>2, <1>3
<1>6. ASSUME NEW c \in cell, c.ours, c.frame \notin pinned
      PROVE  sink'[c.frame] \in {NoPixels, ShownBy(s, sink, c.frame)}
  <2>1. c.frame \in Frame
    BY Before
  <2>2. CASE InHeap(t, c.frame)
    BY <1>2, <1>3, <1>6, <2>1, <2>2
  <2>3. CASE ~InHeap(t, c.frame)
    <3>1. ShownBy(t, k, c.frame) = k[c.frame]
      BY <2>3 DEF ShownBy, InHeap
    <3> QED
      BY <1>2, <1>3, <2>1, <3>1
  <2> QED
    BY <2>2, <2>3
<1> QED
  BY <1>2, <1>3, <1>4, <1>5, <1>6

(* So the store comes out right when what is not forgotten keeps a name and  *)
(* what a cell takes up is cooled with it.                                   *)
LEMMA StoredBy ==
  ASSUME IInv, active # NoProject, NEW s, NEW fresh \in BOOLEAN, Looked(s, fresh),
         NEW gone, gone \cap pinned = {}, NEW cell \in SUBSET Candidate,
         StoreAfter(Without(s, gone), SinkWithout(sink, gone), cell),
         NEW cells, NEW added, Made(added), fresh => Grown,
         added # {} => fresh, \A c \in added : c.shot = taken + 1,
         offered \subseteq offered',
         \A c \in All : c.frame \in gone \/ c \in Everywhere(cells) \cup pending',
         fresh => \/ nextFrame \in gone \/ nextFrame \in offered'
                  \/ \E c \in Everywhere(cells) \cup pending' : c.frame = nextFrame,
         \A c \in Everywhere(cells) : c.ours =>
           \/ c \in Everywhere(candidates)
           \/ c \in cell /\ c.frame \notin pinned /\ c \in pending \cup added
  PROVE  Stored(cells, added)
<1>1. /\ Sorted(store') /\ sink' \in Copies
      /\ \A f \in pinned : InHeap(store', f)
      /\ \A f \in Frame : Known(store', f) <=> Known(s, f) /\ f \notin gone
      /\ \A f \in Frame :
           /\ ShownBy(store', sink', f) \in {ShownBy(s, sink, f), NoPixels}
           /\ sink'[f] \in {sink[f], NoPixels, ShownBy(s, sink, f)}
      /\ \A c \in cell : c.ours /\ c.frame \notin pinned =>
           sink'[c.frame] \in {NoPixels, ShownBy(s, sink, c.frame)}
  BY Forgets
<1>2. \A f \in Frame \ {nextFrame} :
        (Known(s, f) <=> Known(store, f)) /\ ShownBy(s, sink, f) = ShownBy(store, sink, f)
  BY DEF Looked
<1>3. nextFrame \in Frame =>
        /\ Known(s, nextFrame) => fresh
        /\ fresh => ShownBy(s, sink, nextFrame) = taken + 1
  BY DEF Looked
<1>4. ASSUME NEW f \in Frame, Known(store', f)
      PROVE  /\ Known(store, f) \/ (f = nextFrame /\ Grown)
             /\ f \in FramesOf(Everywhere(cells) \cup pending') \/ f \in offered' \/ f \in stranded
  <2>1. Known(s, f) /\ f \notin gone
    BY <1>1, <1>4
  <2>2. CASE f = nextFrame
    BY <1>3, <2>1, <2>2 DEF FramesOf
  <2>3. CASE f # nextFrame
    <3>1. Known(store, f)
      BY <1>2, <2>1, <2>3
    <3>2. f \in FramesOf(All) \/ f \in offered \/ f \in stranded
      BY <3>1, InSession
    <3> QED
      BY <2>1, <3>1, <3>2 DEF FramesOf
  <2> QED
    BY <2>2, <2>3
<1>5. \A f \in Frame \ {nextFrame} :
        /\ ShownBy(store', sink', f) \in {ShownBy(store, sink, f), NoPixels}
        /\ sink'[f] \in {sink[f], NoPixels, ShownBy(store, sink, f)}
  BY <1>1, <1>2
<1>6. \A c \in added : c.frame = nextFrame /\ c.frame \in Frame /\ c \in Candidate
  BY MadeNew DEF Candidate
<1>7. \A c \in added : ShownBy(s, sink, c.frame) = c.shot
  BY <1>3, <1>6
<1>8. \A c \in added : ShownBy(store', sink', c.frame) \in {c.shot, NoPixels}
  BY <1>1, <1>6, <1>7
<1>9. ASSUME NEW c \in pending PROVE ShownBy(s, sink, c.frame) \in {c.shot, NoPixels}
  <2>1. c \in All /\ Fine(c)
    BY DEF IInv, AllFine, All
  <2>2. c.frame \in Frame /\ c.frame < nextFrame /\ nextFrame \in Nat
    BY <2>1, MadeNew
  <2>3. c.frame \in Frame \ {nextFrame}
    BY <2>2
  <2> QED
    BY <1>2, <2>1, <2>3, FineShows DEF Fine
<1>10. ASSUME NEW c \in Everywhere(cells), c.ours, c \notin Everywhere(candidates)
       PROVE  sink'[c.frame] \in {c.shot, NoPixels}
  <2>1. c \in cell /\ c.frame \notin pinned /\ c \in pending \cup added
    BY <1>10
  <2>2. sink'[c.frame] \in {NoPixels, ShownBy(s, sink, c.frame)}
    BY <1>1, <1>10, <2>1
  <2> QED
    BY <1>7, <1>9, <2>1, <2>2
<1> QED
  BY <1>1, <1>4, <1>5, <1>8, <1>10 DEF Stored

(* Arming a burst. *)
LEMMA ArmBurstIs ==
  ASSUME IInv, NEW node \in Nodes, ArmBurst(node)
  PROVE  SessionStep(candidates, {})
<1>1. /\ active # NoProject /\ pending = {} /\ pending' = {} /\ firing' = node
      /\ UNCHANGED <<active, candidates, nextCandidate, nextFrame, taken>>
      /\ UNCHANGED <<documents, pinned, tier, minted, picks, durable, store, sink, offered>>
      /\ UNCHANGED <<behind, stranded, unstepped>>
  BY DEF ArmBurst, frames, disk, ghosts, IInv, TypeOK
<1>2. Made({}) /\ Written(candidates)
  BY <1>1, NotCheckpointed DEF Made
<1>3. Left(candidates, {})
  BY <1>1, Before, MarkersAssumption DEF Left
<1>4. StoreAfter(Without(store, {}), SinkWithout(sink, {}), {})
  BY <1>1, Before, LeftAlone
<1>5. Looked(store, FALSE)
  BY AllLooked
<1>6. /\ {} \cap pinned = {} /\ {} \in SUBSET Candidate /\ offered \subseteq offered'
      /\ \A c \in {} : c.shot = taken + 1
      /\ \A c \in All : c.frame \in {} \/ c \in Everywhere(candidates) \cup pending'
  BY <1>1 DEF All
<1>7. Stored(candidates, {})
  BY <1>1, <1>2, <1>4, <1>5, <1>6, StoredBy
<1> QED
  BY <1>1, <1>2, <1>3, <1>7 DEF SessionStep

(* Giving a burst up: its frames are held by nobody, the cells keep theirs.  *)
LEMMA RolledBack ==
  ASSUME IInv
  PROVE  /\ FramesOf(pending) \cap pinned = {}
         /\ \A c \in All : c.frame \in FramesOf(pending) \/ c \in Everywhere(candidates)
         /\ \A node \in Nodes : candidates[node] \in SUBSET Candidate
         /\ {} \in SUBSET Candidate
BY Before DEF FramesOf, All

(* A burst given up between two frames. *)
LEMMA DropBurstIs ==
  ASSUME IInv, DropBurst
  PROVE  SessionStep(candidates, {})
<1>1. /\ active # NoProject /\ firing \in Nodes /\ pending' = {} /\ firing' = NoNode
      /\ UNCHANGED <<active, candidates, nextCandidate, nextFrame, taken>>
      /\ UNCHANGED <<pinned, tier, minted, picks, durable, offered, stranded, unstepped>>
      /\ Checkpoint(active, tier, candidates, nextCandidate)
      /\ StoreAfter(Without(store, FramesOf(pending)), SinkWithout(sink, FramesOf(pending)),
                    candidates[firing])
  BY Before DEF DropBurst
<1>2. Made({}) /\ Written(candidates)
  BY <1>1, Checkpointed DEF Made
<1>3. Left(candidates, {})
  BY <1>1, Before DEF Left
<1>4. Looked(store, FALSE)
  BY AllLooked
<1>5. /\ FramesOf(pending) \cap pinned = {} /\ candidates[firing] \in SUBSET Candidate
      /\ offered \subseteq offered'
      /\ \A c \in {} : c.shot = taken + 1
      /\ \A c \in All : c.frame \in FramesOf(pending) \/ c \in Everywhere(candidates) \cup pending'
  BY <1>1, RolledBack
<1>6. Stored(candidates, {})
  BY <1>1, <1>2, <1>4, <1>5, StoredBy
<1> QED
  BY <1>1, <1>2, <1>3, <1>6 DEF SessionStep

(* A burst given up over the frame it had just taken. *)
LEMMA DropBurstAfterFrameIs ==
  ASSUME IInv, DropBurstAfterFrame
  PROVE  SessionStep(candidates, {})
<1>1. /\ active # NoProject /\ firing \in Nodes /\ pending' = {} /\ firing' = NoNode
      /\ taken < MaxShots /\ Grown
      /\ UNCHANGED <<active, candidates, pinned, tier, minted, picks, durable, offered>>
      /\ UNCHANGED <<stranded, unstepped>>
      /\ Checkpoint(active, tier, candidates, nextCandidate')
  BY Before DEF DropBurstAfterFrame, Grown
<1>2. PICK looked \in {store, Heated(store, candidates[firing])} :
        StoreAfter(Without(looked, FramesOf(pending)), SinkWithout(sink, FramesOf(pending)),
                   candidates[firing])
  BY DEF DropBurstAfterFrame
<1>3. Made({}) /\ Written(candidates)
  BY <1>1, Checkpointed DEF Made
<1>4. Left(candidates, {})
  BY <1>1, Before DEF Left
<1>5. Looked(looked, FALSE)
  BY <1>2, AllLooked
<1>6. /\ FramesOf(pending) \cap pinned = {} /\ candidates[firing] \in SUBSET Candidate
      /\ offered \subseteq offered'
      /\ \A c \in {} : c.shot = taken + 1
      /\ \A c \in All : c.frame \in FramesOf(pending) \/ c \in Everywhere(candidates) \cup pending'
  BY <1>1, RolledBack
<1>7. Stored(candidates, {})
  BY <1>1, <1>2, <1>3, <1>5, <1>6, StoredBy
<1> QED
  BY <1>1, <1>3, <1>4, <1>7 DEF SessionStep

(* What a session ends with is written down, or stranded.                    *)
LEMMA EndNames ==
  ASSUME IInv, active # NoProject,
         \/ WriteDocument(active, tier, candidates, nextCandidate) /\ UNCHANGED stranded
         \/ UNCHANGED documents /\ stranded' = stranded \cup Unnamed
  PROVE  /\ stranded \subseteq stranded' /\ stranded' \subseteq Frame
         /\ \A c \in Everywhere(candidates) : c.ours =>
              \/ c.frame \in stranded'
              \/ /\ documents'[active] # NoDocument /\ documents'[active].generation = tier
                 /\ c.frame \in FramesOf(Took(documents'[active]))
<1>1. /\ stranded \subseteq Frame /\ documents \in Documents /\ active \in Projects
      /\ candidates \in [Nodes -> SUBSET Candidate]
      /\ tier \in 1..MaxGeneration /\ nextCandidate \in Nat
  <2>1. TypeOK /\ MaxShots \in Nat /\ MaxGeneration \in Nat
    BY CaptureAssumption DEF IInv
  <2> QED
    BY <2>1, InSession DEF TypeOK
<1>2. \A c \in Everywhere(candidates) : c.frame \in Frame
  BY <1>1, Before DEF Everywhere
<1>3. CASE WriteDocument(active, tier, candidates, nextCandidate) /\ UNCHANGED stranded
  <2> DEFINE doc == [generation |-> tier, nextCandidate |-> nextCandidate,
                     candidates |-> [n \in Nodes |-> {c \in candidates[n] : c.ours}]]
  <2>1. [n \in Nodes |-> {c \in candidates[n] : c.ours}] \in [Nodes -> SUBSET Candidate]
    BY <1>1
  <2>2. doc \in Document /\ doc.generation = tier
        /\ \A n \in Nodes : doc.candidates[n] = {c \in candidates[n] : c.ours}
    BY <1>1, <2>1 DEF Document
  <2>3. documents' = [documents EXCEPT ![active] = doc]
    BY <1>3 DEF WriteDocument
  <2> HIDE DEF doc
  <2>4. documents'[active] = doc /\ doc # NoDocument
    BY <1>1, <2>2, <2>3, MarkersAssumption DEF Documents
  <2>5. \A c \in Everywhere(candidates) : c.ours => c.frame \in FramesOf(Took(documents'[active]))
    BY <2>2, <2>4 DEF Took, Everywhere, FramesOf
  <2> QED
    BY <1>1, <1>3, <2>2, <2>4, <2>5
<1>4. CASE UNCHANGED documents /\ stranded' = stranded \cup Unnamed
  <2>1. Unnamed \subseteq Frame
    BY <1>2 DEF Unnamed
  <2>2. ASSUME NEW c \in Everywhere(candidates), c.ours, c.frame \notin Unnamed
        PROVE  InTier(active, documents[active]) /\ c.frame \in Named(active)
    BY <2>2 DEF Unnamed
  <2> QED
    BY <1>1, <1>4, <2>1, <2>2 DEF InTier, Named, Took
<1> QED
  BY <1>3, <1>4

(* Ending the session. *)
LEMMA EndIs ==
  ASSUME IInv, End
  PROVE  SessionStep(candidates, {})
<1> DEFINE cell == IF firing = NoNode THEN {} ELSE candidates[firing]
<1>1. /\ active # NoProject /\ pending' = {} /\ firing' = NoNode
      /\ active' = NoProject /\ candidates' = NoCandidates
      /\ UNCHANGED <<nextCandidate, nextFrame, taken>>
      /\ UNCHANGED <<pinned, tier, minted, picks, durable, offered, unstepped>> /\ behind' = FALSE
      /\ \/ WriteDocument(active, tier, candidates, nextCandidate) /\ UNCHANGED stranded
         \/ UNCHANGED documents /\ stranded' = stranded \cup Unnamed
      /\ StoreAfter(Without(store, FramesOf(pending)), SinkWithout(sink, FramesOf(pending)), cell)
  BY DEF End
<1>2. Made({}) /\ Written(candidates)
  BY <1>1 DEF Made, Written
<1>3. Left(candidates, {})
  <2>1. /\ stranded \subseteq stranded' /\ stranded' \subseteq Frame
        /\ \A c \in Everywhere(candidates) : c.ours =>
             \/ c.frame \in stranded'
             \/ /\ documents'[active] # NoDocument /\ documents'[active].generation = tier
                /\ c.frame \in FramesOf(Took(documents'[active]))
    BY <1>1, EndNames
  <2> QED
    BY <1>1, <2>1, Before DEF Left
<1>4. Looked(store, FALSE)
  BY AllLooked
<1>5. /\ FramesOf(pending) \cap pinned = {} /\ cell \in SUBSET Candidate
      /\ offered \subseteq offered'
      /\ \A c \in {} : c.shot = taken + 1
      /\ \A c \in All : c.frame \in FramesOf(pending) \/ c \in Everywhere(candidates) \cup pending'
  BY <1>1, RolledBack, Before
<1> HIDE DEF cell
<1>6. Stored(candidates, {})
  BY <1>1, <1>2, <1>4, <1>5, StoredBy
<1> QED
  BY <1>1, <1>2, <1>3, <1>6 DEF SessionStep

(* A frame of somebody else's that nobody could rank. *)
LEMMA OfferRefusedIs ==
  ASSUME IInv, NEW node \in Nodes, OfferRefused(node)
  PROVE  SessionStep(candidates, {})
<1> DEFINE s == WithFrame(Heated(store, candidates[node]), nextFrame, taken + 1)
<1>1. /\ active # NoProject /\ taken < MaxShots /\ Grown
      /\ UNCHANGED <<active, candidates, firing, pending, pinned, tier, minted, picks, durable,
                     documents, behind, stranded, unstepped>>
      /\ offered' = offered \cup {nextFrame}
      /\ StoreAfter(s, sink, candidates[node])
  BY DEF OfferRefused, Grown, disk, ghosts
<1>2. Made({}) /\ Written(candidates)
  BY <1>1, NotCheckpointed DEF Made
<1>3. Left(candidates, {})
  <2>1. firing = NoNode => pending = {}
    BY DEF IInv, TypeOK
  <2> QED
    BY <1>1, <2>1, Before DEF Left
<1>4. Looked(s, TRUE)
  BY <1>1, AllLooked
<1> HIDE DEF s
<1>5. Without(s, {}) = s /\ SinkWithout(sink, {}) = sink
  BY <1>4, LeftAlone, Before DEF Looked
<1>6. /\ {} \cap pinned = {} /\ candidates[node] \in SUBSET Candidate
      /\ offered \subseteq offered' /\ nextFrame \in offered'
      /\ \A c \in {} : c.shot = taken + 1
      /\ \A c \in All : c.frame \in {} \/ c \in Everywhere(candidates) \cup pending'
  BY <1>1, RolledBack DEF All
<1>7. Stored(candidates, {})
  BY <1>1, <1>2, <1>4, <1>5, <1>6, StoredBy
<1> QED
  BY <1>1, <1>2, <1>3, <1>7 DEF SessionStep

(* The exposure a call makes is nobody's yet.                                *)
LEMMA TakenIsNew ==
  ASSUME IInv, active # NoProject, taken < MaxShots, Grown, NEW ours \in BOOLEAN
  PROVE  /\ Made({Taken(ours)}) /\ Taken(ours) \in Candidate
         /\ Taken(ours).frame = nextFrame /\ Taken(ours).shot = taken + 1
         /\ Taken(ours).ours = ours
         /\ Taken(ours) \notin All /\ nextFrame \notin pinned
<1>1. Made({Taken(ours)})
  BY DEF Made
<1>2. Taken(ours) \in Candidate /\ \A c \in All : c.frame < nextFrame /\ c.frame \in Frame
  BY <1>1, MadeNew
<1>3. Taken(ours).frame = nextFrame /\ Taken(ours).shot = taken + 1 /\ Taken(ours).ours = ours
  BY DEF Taken
<1>4. nextFrame \in Frame /\ ~Known(store, nextFrame)
  BY Before
<1>5. nextFrame \notin pinned
  BY <1>4, Before DEF Known
<1>6. \A c \in All : c.frame # nextFrame
  BY <1>2, <1>4, CaptureAssumption DEF Frame
<1>7. Taken(ours) \notin All
  BY <1>3, <1>6
<1> QED
  BY <1>1, <1>2, <1>3, <1>5, <1>7

(* A frame of the burst, short of its count. *)
LEMMA TakeFrameIs ==
  ASSUME IInv, TakeFrame
  PROVE  SessionStep(candidates, {Taken(TRUE)})
<1> DEFINE s == WithFrame(Heated(store, candidates[firing]), nextFrame, taken + 1)
           new == Taken(TRUE)
<1>1. /\ active # NoProject /\ taken < MaxShots /\ Grown /\ firing # NoNode
      /\ UNCHANGED <<active, candidates, firing, pinned, tier, minted, picks, durable,
                     documents, offered, sink, behind, stranded, unstepped>>
      /\ pending' = pending \cup {new} /\ store' = s
      /\ Cardinality(pending) + 1 < FrameCount
  BY Before DEF TakeFrame, Grown, disk, ghosts
<1>2. /\ Made({new}) /\ new \in Candidate /\ new.frame = nextFrame /\ new.shot = taken + 1
      /\ new.ours = TRUE /\ new \notin All /\ nextFrame \notin pinned
  BY <1>1, TakenIsNew
<1> HIDE DEF new
<1>3. Written(candidates)
  BY <1>1, NotCheckpointed
<1>4. Cardinality(pending') < FrameCount
  <2>1. new \notin pending /\ IsFiniteSet(pending)
    BY <1>2, Before DEF All
  <2>2. Cardinality(pending \cup {new}) = Cardinality(pending) + 1
    BY <2>1, FS_AddElement
  <2> QED
    BY <1>1, <2>2
<1>5. Left(candidates, {new})
  <2>1. pending' \cap Everywhere(candidates) = {} /\ \A c \in pending' : c.ours
    BY <1>1, <1>2, Before DEF All
  <2> QED
    BY <1>1, <1>2, <1>4, <2>1, Before DEF Left
<1>6. Looked(s, TRUE)
  BY <1>1, AllLooked
<1> HIDE DEF s
<1>7. StoreAfter(Without(s, {}), SinkWithout(sink, {}), {})
  BY <1>1, <1>6, LeftAlone, Before DEF Looked
<1>8. /\ {} \cap pinned = {} /\ {} \in SUBSET Candidate
      /\ offered \subseteq offered'
      /\ \A c \in {new} : c.shot = taken + 1
      /\ \A c \in All : c.frame \in {} \/ c \in Everywhere(candidates) \cup pending'
      /\ \E c \in Everywhere(candidates) \cup pending' : c.frame = nextFrame
  BY <1>1, <1>2 DEF All
<1>9. Stored(candidates, {new})
  BY <1>1, <1>2, <1>6, <1>7, <1>8, StoredBy
<1>10. SessionStep(candidates, {new})
  BY <1>1, <1>2, <1>3, <1>5, <1>9 DEF SessionStep
<1> QED
  BY <1>10 DEF new

(* Discarding a cell, with the burst there is at it. *)
LEMMA RetakeIs ==
  ASSUME IInv, NEW node \in Nodes, Retake(node)
  PROVE  SessionStep([candidates EXCEPT ![node] = @ \ Discarded(node)], {})
<1> DEFINE rolledBack == IF firing = node THEN FramesOf(pending) ELSE {}
           gone == rolledBack \cup FramesOf(Discarded(node))
           cells == [candidates EXCEPT ![node] = @ \ Discarded(node)]
<1>1. /\ active # NoProject /\ candidates' = cells
      /\ UNCHANGED <<active, nextCandidate, nextFrame, taken, pinned, tier, minted, picks,
                     durable, offered, stranded, unstepped>>
      /\ store' = Without(store, gone) /\ sink' = SinkWithout(sink, gone)
      /\ \/ Checkpoint(active, tier, candidates', nextCandidate)
         \/ WriteDocument(active, tier, candidates, nextCandidate) /\ behind' = TRUE
      /\ firing' = (IF firing = node THEN NoNode ELSE firing)
      /\ pending' = (IF firing = node THEN {} ELSE pending)
  BY DEF Retake
<1>2. /\ cells \in [Nodes -> SUBSET Candidate]
      /\ cells[node] = candidates[node] \ Discarded(node)
      /\ \A n \in Nodes : n # node => cells[n] = candidates[n]
  BY Before
<1>3. gone \cap pinned = {}
  BY RolledBack DEF Discarded, FramesOf
<1>4. \A c \in All : c.frame \in gone \/ c \in Everywhere(cells) \cup pending'
  <2>1. \A c \in pending : c.frame \in gone \/ c \in pending'
    BY <1>1 DEF FramesOf
  <2>2. ASSUME NEW n \in Nodes, NEW c \in candidates[n]
        PROVE  c.frame \in gone \/ c \in Everywhere(cells)
    BY <1>2 DEF FramesOf, Everywhere
  <2> QED
    BY <2>1, <2>2 DEF All, Everywhere
<1> HIDE DEF cells, gone
<1>5. Made({}) /\ Written(cells)
  <2>1. CASE Checkpoint(active, tier, candidates', nextCandidate)
    BY <1>1, <2>1, Checkpointed DEF Made
  <2>2. CASE WriteDocument(active, tier, candidates, nextCandidate) /\ behind' = TRUE
    BY <1>1, <2>2 DEF Made, Written
  <2> QED
    BY <1>1, <2>1, <2>2
<1>6. \A n \in Nodes : cells[n] \subseteq candidates[n]
  BY <1>2
<1>7. Everywhere(cells) \subseteq Everywhere(candidates)
  BY <1>6 DEF Everywhere
<1>8. Left(cells, {})
  <2>1. pending' \subseteq pending /\ Cardinality(pending') < FrameCount
    BY <1>1, Before
  <2>2. firing' \in Nodes \cup {NoNode} /\ (firing' = NoNode => pending' = {})
    BY <1>1 DEF IInv, TypeOK
  <2>3. pending' \cap Everywhere(cells) = {} /\ \A c \in pending' : c.ours
    BY <1>7, <2>1, Before
  <2> QED
    BY <1>1, <1>2, <1>6, <2>1, <2>2, <2>3, Before DEF Left
<1>9. Looked(store, FALSE)
  BY AllLooked
<1>10. Sorted(Without(store, gone)) /\ SinkWithout(sink, gone) \in Copies
  BY Before, WithoutShows
<1>11. StoreAfter(Without(store, gone), SinkWithout(sink, gone), {})
  BY <1>1, <1>10, LeftAlone
<1>12. /\ {} \in SUBSET Candidate /\ offered \subseteq offered'
       /\ \A c \in {} : c.shot = taken + 1
       /\ \A c \in Everywhere(cells) : c \in Everywhere(candidates)
  BY <1>1, <1>7
<1>13. Stored(cells, {})
  BY <1>1, <1>3, <1>4, <1>5, <1>9, <1>11, <1>12, StoredBy
<1>14. SessionStep(cells, {})
  BY <1>1, <1>5, <1>8, <1>13 DEF SessionStep
<1> QED
  BY <1>14 DEF cells

(* What a trim gives up: ours, and held by nobody. *)
LEMMA TrimmedIs ==
  ASSUME NEW tail
  PROVE  /\ \A c \in Trimmed(tail) : c.ours
         /\ FramesOf(Trimmed(tail)) \cap pinned = {}
BY DEF Trimmed, FramesOf

(* The burst is full and the cell takes it. *)
LEMMA FillCellIs ==
  ASSUME IInv, FillCell
  PROVE  \E cells, added : SessionStep(cells, added)
<1> DEFINE s == WithFrame(Heated(store, candidates[firing]), nextFrame, taken + 1)
           new == Taken(TRUE)
           cell == candidates[firing] \cup pending \cup {new}
<1>1. /\ active # NoProject /\ taken < MaxShots /\ Grown /\ firing \in Nodes
      /\ UNCHANGED <<active, pinned, tier, minted, picks, durable, offered, stranded, unstepped>>
      /\ firing' = NoNode /\ pending' = {}
      /\ Checkpoint(active, tier, candidates', nextCandidate')
  BY Before DEF FillCell, Grown
<1>2. PICK tail \in Tails(cell) :
        /\ candidates' = [candidates EXCEPT ![firing] = cell \ Trimmed(tail)]
        /\ StoreAfter(Without(s, FramesOf(Trimmed(tail))),
                      SinkWithout(sink, FramesOf(Trimmed(tail))), cell \ Trimmed(tail))
  BY DEF FillCell
<1> DEFINE gone == Trimmed(tail)
           cells == [candidates EXCEPT ![firing] = cell \ gone]
<1>3. /\ Made({new}) /\ new \in Candidate /\ new.frame = nextFrame /\ new.shot = taken + 1
      /\ new.ours = TRUE /\ new \notin All /\ nextFrame \notin pinned
  BY <1>1, TakenIsNew
<1>4. FramesOf(gone) \cap pinned = {}
  BY TrimmedIs
<1> HIDE DEF new, gone
<1>5. /\ cells \in [Nodes -> SUBSET Candidate] /\ cells[firing] = cell \ gone
      /\ \A n \in Nodes : n # firing => cells[n] = candidates[n]
      /\ cell \ gone \in SUBSET Candidate
  <2>1. cell \in SUBSET Candidate
    BY <1>1, <1>3, Before
  <2> QED
    BY <1>1, <2>1, Before
<1>6. \A c \in All : c.frame \in FramesOf(gone) \/ c \in Everywhere(cells) \cup pending'
  <2>1. \A c \in cell : c.frame \in FramesOf(gone) \/ c \in Everywhere(cells)
    BY <1>1, <1>5 DEF FramesOf, Everywhere
  <2>2. \A n \in Nodes : \A c \in candidates[n] : c \in cell \/ c \in Everywhere(cells)
    BY <1>5 DEF Everywhere
  <2> QED
    BY <2>1, <2>2 DEF All, Everywhere
<1>7. nextFrame \in FramesOf(gone) \/ \E c \in Everywhere(cells) \cup pending' : c.frame = nextFrame
  <2>1. CASE new \in gone
    BY <1>3, <2>1 DEF FramesOf
  <2>2. CASE new \notin gone
    BY <1>1, <1>3, <1>5, <2>2 DEF Everywhere
  <2> QED
    BY <2>1, <2>2
<1>8. \A c \in Everywhere(cells) : c.ours =>
        \/ c \in Everywhere(candidates)
        \/ c \in cell \ gone /\ c.frame \notin pinned /\ c \in pending \cup {new}
  <2>1. ASSUME NEW n \in Nodes, NEW c \in cells[n], c \notin Everywhere(candidates)
        PROVE  c \in cell \ gone /\ c.frame \notin pinned /\ c \in pending \cup {new}
    <3>1. n = firing
      BY <1>5, <2>1 DEF Everywhere
    <3>2. c \in cell \ gone /\ c \in pending \cup {new}
      BY <1>1, <1>5, <2>1, <3>1 DEF Everywhere
    <3> QED
      BY <1>3, <3>2, Before
  <2> QED
    BY <2>1 DEF Everywhere
<1>9. \A n \in Nodes : cells[n] \subseteq candidates[n] \cup pending \cup {new}
  BY <1>1, <1>5
<1>10. candidates' = cells
  BY <1>2 DEF gone
<1>11. StoreAfter(Without(s, FramesOf(gone)), SinkWithout(sink, FramesOf(gone)), cell \ gone)
  BY <1>2 DEF gone
<1>12. Looked(s, TRUE)
  BY <1>1, AllLooked
<1> DEFINE rest == cell \ gone
<1> HIDE DEF cells, s, rest
<1>13. /\ offered \subseteq offered'
       /\ \A c \in {new} : c.shot = taken + 1
       /\ rest \in SUBSET Candidate
       /\ \A c \in Everywhere(cells) : c.ours =>
            \/ c \in Everywhere(candidates)
            \/ c \in rest /\ c.frame \notin pinned /\ c \in pending \cup {new}
       /\ StoreAfter(Without(s, FramesOf(gone)), SinkWithout(sink, FramesOf(gone)), rest)
  BY <1>1, <1>3, <1>5, <1>8, <1>11 DEF rest
<1> HIDE DEF cell
<1>14. Stored(cells, {new})
  BY <1>1, <1>3, <1>4, <1>6, <1>7, <1>12, <1>13, StoredBy
<1>15. Written(cells)
  BY <1>1, <1>10, Checkpointed
<1>16. Left(cells, {new})
  BY <1>1, <1>3, <1>5, <1>9, <1>10, Before DEF Left
<1> QED
  BY <1>1, <1>3, <1>14, <1>15, <1>16 DEF SessionStep

(* A frame of somebody else's joins a cell. *)
LEMMA OfferFrameIs ==
  ASSUME IInv, NEW node \in Nodes, OfferFrame(node)
  PROVE  \E cells, added : SessionStep(cells, added)
<1> DEFINE s == WithFrame(Heated(store, candidates[node]), nextFrame, taken + 1)
           new == Taken(FALSE)
           cell == candidates[node] \cup {new}
<1>1. /\ active # NoProject /\ taken < MaxShots /\ Grown
      /\ UNCHANGED <<active, firing, pending, pinned, tier, minted, picks, durable, stranded,
                     unstepped>>
      /\ offered' = offered \cup {nextFrame}
      /\ Checkpoint(active, tier, candidates', nextCandidate')
  BY DEF OfferFrame, Grown
<1>2. PICK tail \in Tails(cell) :
        /\ candidates' = [candidates EXCEPT ![node] = cell \ Trimmed(tail)]
        /\ StoreAfter(Without(s, FramesOf(Trimmed(tail))),
                      SinkWithout(sink, FramesOf(Trimmed(tail))), cell \ Trimmed(tail))
  BY DEF OfferFrame
<1> DEFINE gone == Trimmed(tail)
           cells == [candidates EXCEPT ![node] = cell \ gone]
<1>3. /\ Made({new}) /\ new \in Candidate /\ new.frame = nextFrame /\ new.shot = taken + 1
      /\ new.ours = FALSE /\ new \notin All /\ nextFrame \notin pinned
  BY <1>1, TakenIsNew
<1>4. FramesOf(gone) \cap pinned = {}
  BY TrimmedIs
<1> HIDE DEF new, gone
<1>5. /\ cells \in [Nodes -> SUBSET Candidate] /\ cells[node] = cell \ gone
      /\ \A n \in Nodes : n # node => cells[n] = candidates[n]
      /\ cell \ gone \in SUBSET Candidate
  <2>1. cell \in SUBSET Candidate
    BY <1>3, Before
  <2> QED
    BY <2>1, Before
<1>6. \A c \in All : c.frame \in FramesOf(gone) \/ c \in Everywhere(cells) \cup pending'
  <2>1. \A c \in cell : c.frame \in FramesOf(gone) \/ c \in Everywhere(cells)
    BY <1>5 DEF FramesOf, Everywhere
  <2>2. \A n \in Nodes : \A c \in candidates[n] : c \in cell \/ c \in Everywhere(cells)
    BY <1>5 DEF Everywhere
  <2> QED
    BY <1>1, <2>1, <2>2 DEF All, Everywhere
<1>7. \A n \in Nodes : cells[n] \subseteq candidates[n] \cup {new}
  BY <1>5
<1>8. \A c \in Everywhere(cells) : c.ours => c \in Everywhere(candidates)
  BY <1>3, <1>7 DEF Everywhere
<1>9. candidates' = cells
  BY <1>2 DEF gone
<1>10. StoreAfter(Without(s, FramesOf(gone)), SinkWithout(sink, FramesOf(gone)), cell \ gone)
  BY <1>2 DEF gone
<1>11. Looked(s, TRUE)
  BY <1>1, AllLooked
<1> DEFINE rest == cell \ gone
<1> HIDE DEF cells, s, rest
<1>12. /\ offered \subseteq offered' /\ nextFrame \in offered'
       /\ \A c \in {new} : c.shot = taken + 1
       /\ rest \in SUBSET Candidate
       /\ StoreAfter(Without(s, FramesOf(gone)), SinkWithout(sink, FramesOf(gone)), rest)
  BY <1>1, <1>3, <1>5, <1>10 DEF rest
<1> HIDE DEF cell
<1>13. Stored(cells, {new})
  BY <1>1, <1>3, <1>4, <1>6, <1>8, <1>11, <1>12, StoredBy
<1>14. Written(cells)
  BY <1>1, <1>9, Checkpointed
<1>15. Left(cells, {new})
  <2>1. pending' \cap Everywhere(cells) = {}
    BY <1>1, <1>3, <1>7, Before DEF Everywhere, All
  <2>2. offered' \subseteq Frame
    BY <1>1, Before
  <2>3. firing' \in Nodes \cup {NoNode} /\ (firing' = NoNode => pending' = {})
    BY <1>1 DEF IInv, TypeOK
  <2> QED
    BY <1>1, <1>3, <1>5, <1>7, <1>9, <2>1, <2>2, <2>3, Before DEF Left
<1> QED
  BY <1>1, <1>3, <1>13, <1>14, <1>15 DEF SessionStep

-----------------------------------------------------------------------------
(* The largest of some counters is one of them, and none is above it.        *)
LEMMA TopOf ==
  ASSUME NEW n \in Nat, NEW S, S \subseteq 1..n, S # {}
  PROVE  Max(S) \in S /\ \A y \in S : y <= Max(S)
<1> DEFINE Above == {k \in Nat : \A y \in S : y <= k}
           R == OpToRel(<, Nat)
<1>1. n \in Above /\ Above \subseteq Nat
  OBVIOUS
<1>2. PICK top \in Above : \A k \in Above : ~(<<k, top>> \in R)
  BY <1>1, NatLessThanWellFounded, WFMin
<1>3. \A k \in Above : ~(k < top)
  BY <1>1, <1>2 DEF OpToRel
<1> HIDE DEF R
<1>4. top \in S
  <2>1. CASE top \notin S
    <3>1. PICK y \in S : TRUE
      OBVIOUS
    <3>2. \A x \in S : x \in Nat /\ x > 0 /\ x <= top /\ x # top
      BY <2>1
    <3>3. top \in Nat /\ top > 0 /\ top - 1 \in Nat /\ top - 1 < top
      BY <3>1, <3>2
    <3>4. \A x \in S : x <= top - 1
      BY <3>2, <3>3
    <3> QED
      BY <1>3, <3>3, <3>4
  <2> QED
    BY <2>1
<1>5. \A y \in S : top >= y
  OBVIOUS
<1> QED
  BY <1>4, <1>5 DEF Max

(* No pick's identity is left to be issued, and none is passed over twice.   *)
LEMMA PastEveryPickIs ==
  ASSUME IInv, NEW p \in Projects, NEW next \in 1..(taken + 1)
  PROVE  /\ PastEveryPick(p, next) \in 1..(taken + 1) /\ next <= PastEveryPick(p, next)
         /\ \A n \in Nodes : picks[p][n].id < PastEveryPick(p, next)
<1> DEFINE S == {next} \cup {picks[p][n].id + 1 : n \in Nodes}
<1>1. taken \in Nat
  BY CaptureAssumption DEF IInv, TypeOK
<1>2. \A n \in Nodes : picks[p][n].id \in Nat /\ picks[p][n].id <= taken
  <2>1. picks \in [Projects -> [Nodes -> Pick]] /\ MaxShots \in Nat
    BY CaptureAssumption DEF IInv, TypeOK, Picks
  <2> QED
    BY <2>1 DEF IInv, PicksTaken, Pick
<1>3. S \subseteq 1..(taken + 1) /\ next \in S /\ taken + 1 \in Nat
  BY <1>1, <1>2
<1>4. Max(S) \in S /\ \A y \in S : y <= Max(S)
  BY <1>3, TopOf
<1>5. Max(S) \in 1..(taken + 1) /\ next <= Max(S)
  BY <1>3, <1>4
<1>6. ASSUME NEW n \in Nodes PROVE picks[p][n].id < Max(S)
  <2>1. picks[p][n].id + 1 <= Max(S)
    BY <1>4
  <2> QED
    BY <1>1, <1>2, <1>5, <2>1
<1> QED
  BY <1>5, <1>6 DEF PastEveryPick

(* The store's counter is past what it had, and past every frame taken back. *)
LEMMA NextFrameAfterIs ==
  ASSUME IInv, NEW adopted, \A f \in adopted : f \in Frame /\ f <= taken
  PROVE  /\ NextFrameAfter(adopted) \in 1..(taken + 1) /\ nextFrame <= NextFrameAfter(adopted)
         /\ \A f \in adopted : f < NextFrameAfter(adopted)
<1> DEFINE S == {nextFrame} \cup {f + 1 : f \in adopted}
<1>1. taken \in Nat /\ nextFrame \in 1..(taken + 1)
  BY CaptureAssumption DEF IInv, TypeOK
<1>2. \A f \in adopted : f \in Nat /\ f >= 1 /\ f <= taken
  BY CaptureAssumption DEF Frame
<1>3. S \subseteq 1..(taken + 1) /\ nextFrame \in S /\ taken + 1 \in Nat
  BY <1>1, <1>2
<1>4. Max(S) \in S /\ \A y \in S : y <= Max(S)
  BY <1>3, TopOf
<1>5. Max(S) \in 1..(taken + 1) /\ nextFrame <= Max(S)
  BY <1>3, <1>4
<1>6. ASSUME NEW f \in adopted PROVE f < Max(S)
  <2>1. f + 1 <= Max(S)
    BY <1>4
  <2> QED
    BY <1>1, <1>2, <1>5, <2>1
<1> QED
  BY <1>5, <1>6 DEF NextFrameAfter

(* Between sessions nothing is held; and no document is of a tier to come.   *)
LEMMA Idle ==
  ASSUME IInv
  PROVE  /\ active = NoProject => /\ candidates = NoCandidates /\ firing = NoNode
                                  /\ pending = {} /\ All = {}
         /\ Everywhere(NoCandidates) = {} /\ NoCandidates \in [Nodes -> SUBSET Candidate]
         /\ minted \in Nat /\ minted # minted + 1
         /\ minted < MaxGeneration => minted + 1 \in 1..MaxGeneration /\ minted + 1 \in 1..(minted + 1)
         /\ \A p \in Projects :
              /\ documents[p] # NoDocument => documents[p].generation # minted + 1
              /\ durable.documents[p] # NoDocument => durable.documents[p].generation # minted + 1
<1>1. minted \in 1..MaxGeneration /\ MaxGeneration \in Nat /\ documents \in Documents
      /\ durable.documents \in Documents
  BY CaptureAssumption DEF IInv, TypeOK
<1>2. \A p \in Projects :
        /\ documents[p] # NoDocument =>
             documents[p].generation \in Nat /\ documents[p].generation <= minted
        /\ durable.documents[p] # NoDocument =>
             durable.documents[p].generation \in Nat /\ durable.documents[p].generation <= minted
  BY <1>1 DEF IInv, Generations, Documents, Document
<1>3. Everywhere(NoCandidates) = {} /\ NoCandidates \in [Nodes -> SUBSET Candidate]
  BY DEF Everywhere, NoCandidates
<1>4. active = NoProject => candidates = NoCandidates /\ firing = NoNode /\ pending = {} /\ All = {}
  BY <1>3 DEF IInv, TypeOK, All
<1>5. \A p \in Projects :
        /\ documents[p] # NoDocument => documents[p].generation # minted + 1
        /\ durable.documents[p] # NoDocument => durable.documents[p].generation # minted + 1
  BY <1>1, <1>2
<1> QED
  BY <1>1, <1>3, <1>4, <1>5

(* A session begins in a tier that was emptied, and its document is the only *)
(* one of it.                                                                *)
LEMMA BeginIs ==
  ASSUME IInv, NEW project \in Projects, Begin(project)
  PROVE  /\ active = NoProject /\ active' = project /\ candidates' = NoCandidates
         /\ store' = EmptyStore /\ sink' = EmptySink /\ pinned' = {} /\ offered' = {}
         /\ minted' = minted + 1 /\ tier' = minted + 1 /\ minted < MaxGeneration
         /\ UNCHANGED <<firing, pending, nextFrame, picks, durable, taken, unstepped>>
         /\ behind' \in BOOLEAN /\ stranded' = {} /\ active' # NoProject
         /\ firing = NoNode /\ pending = {}
         /\ nextCandidate' = PastEveryPick(project, nextCandidate)
         /\ nextCandidate' \in 1..(taken + 1) /\ nextCandidate <= nextCandidate'
         /\ \A n \in Nodes : picks[project][n].id < nextCandidate'
         /\ documents' \in Documents
         /\ \/ behind' /\ documents'[project] = documents[project]
            \/ /\ documents'[project] # NoDocument /\ documents'[project].generation = minted + 1
               /\ documents'[project].nextCandidate = nextCandidate'
               /\ \A n \in Nodes : documents'[project].candidates[n] = {}
         /\ \A p \in Projects : p # project => documents'[p] = documents[p]
<1> DEFINE doc == [generation |-> tier', nextCandidate |-> nextCandidate',
                   candidates |-> [n \in Nodes |-> {c \in NoCandidates[n] : c.ours}]]
<1>1. /\ active = NoProject /\ active' = project /\ candidates' = NoCandidates
      /\ store' = EmptyStore /\ sink' = EmptySink /\ pinned' = {} /\ offered' = {}
      /\ minted' = minted + 1 /\ tier' = minted + 1 /\ minted < MaxGeneration
      /\ UNCHANGED <<firing, pending, nextFrame, picks, durable, taken, unstepped>>
      /\ behind' \in BOOLEAN /\ stranded' = {}
      /\ nextCandidate' = PastEveryPick(project, nextCandidate)
      /\ (behind' /\ documents' = documents) \/ documents' = [documents EXCEPT ![project] = doc]
  BY DEF Begin, CanBegin, Checkpoint, WriteDocument
<1>2. firing = NoNode /\ pending = {}
  BY <1>1, Idle
<1>3. nextCandidate \in 1..(taken + 1) /\ documents \in Documents
  BY DEF IInv, TypeOK
<1>4. /\ nextCandidate' \in 1..(taken + 1) /\ nextCandidate <= nextCandidate'
      /\ \A n \in Nodes : picks[project][n].id < nextCandidate'
  BY <1>1, <1>3, PastEveryPickIs
<1>5. taken \in Nat
  BY CaptureAssumption DEF IInv, TypeOK
<1>6. nextCandidate' \in Nat
  BY <1>4, <1>5
<1>7. tier' \in 1..MaxGeneration
  BY <1>1, Idle
<1>8. [n \in Nodes |-> {c \in NoCandidates[n] : c.ours}] \in [Nodes -> SUBSET Candidate]
      /\ \A n \in Nodes : [k \in Nodes |-> {c \in NoCandidates[k] : c.ours}][n] = {}
  BY DEF NoCandidates
<1>9. doc \in Document /\ doc.generation = minted + 1 /\ doc.nextCandidate = nextCandidate'
      /\ \A n \in Nodes : doc.candidates[n] = {}
  BY <1>1, <1>6, <1>7, <1>8 DEF Document
<1> HIDE DEF doc
<1>10. /\ documents' \in Documents
       /\ (behind' /\ documents'[project] = documents[project]) \/ documents'[project] = doc
       /\ \A p \in Projects : p # project => documents'[p] = documents[p]
  BY <1>1, <1>3, <1>9 DEF Documents
<1> QED
  BY <1>1, <1>2, <1>4, <1>9, <1>10, MarkersAssumption

(* A new capture empties the tier, the store and the session at once. *)
LEMMA BeginKeeps ==
  ASSUME IInv, NEW project \in Projects, Begin(project)
  PROVE  IInv'
<1>1. TypeOK'
  <2>1. TypeOK
    BY DEF IInv
  <2>2. EmptyStore \in Store /\ EmptySink \in Copies /\ \A f \in EmptyStore.cold : ~InHeap(EmptyStore, f)
    BY Emptied DEF Sorted
  <2>3. minted' \in 1..MaxGeneration /\ tier' \in 1..minted'
    BY BeginIs, Idle
  <2>4. nextCandidate' \in 1..(taken' + 1) /\ nextFrame' \in 1..(taken' + 1)
    BY <2>1, BeginIs DEF TypeOK
  <2> QED
    BY <2>1, <2>2, <2>3, <2>4, BeginIs, Idle DEF TypeOK
<1>2. \A p \in Projects : documents'[p] # NoDocument /\ documents'[p].generation = tier' =>
        p = project /\ documents'[p].nextCandidate = nextCandidate'
        /\ \A n \in Nodes : documents'[p].candidates[n] = {}
  BY BeginIs, Idle
<1>3. \A p \in Projects : durable'.documents[p] # NoDocument => durable'.documents[p].generation # tier'
  BY BeginIs, Idle
<1>4. Generations'
  <2>1. \A p \in Projects :
          /\ documents[p] # NoDocument =>
               documents[p].generation \in Nat /\ documents[p].generation <= minted
          /\ durable.documents[p] # NoDocument =>
               durable.documents[p].generation \in Nat /\ durable.documents[p].generation <= minted
    BY DEF IInv, Generations, TypeOK, Documents, Document
  <2>2. \A g \in Nat : g <= minted => g <= minted + 1
    BY Idle
  <2>3. minted + 1 <= minted + 1
    BY Idle
  <2>4. \A p \in Projects : documents'[p] # NoDocument => documents'[p].generation <= minted'
    BY <2>1, <2>2, <2>3, BeginIs
  <2>5. \A p \in Projects :
          durable'.documents[p] # NoDocument => durable'.documents[p].generation <= minted'
    BY <2>1, <2>2, BeginIs
  <2> QED
    BY <2>4, <2>5 DEF Generations
<1>5. OneCapture'
  BY <1>2, <1>3, BeginIs DEF OneCapture, InTier
<1>6. DocumentInStep'
  <2>1. taken \in Nat
    BY CaptureAssumption DEF IInv, TypeOK
  <2>2. nextCandidate' <= nextCandidate'
    BY <2>1, BeginIs
  <2>3. ~behind' => /\ documents'[project] # NoDocument /\ documents'[project].generation = tier'
                    /\ \A n \in Nodes : documents'[project].candidates[n] = {}
    BY BeginIs
  <2>4. active' = project /\ candidates' = NoCandidates
    BY BeginIs
  <2> QED
    BY <1>2, <2>2, <2>3, <2>4 DEF DocumentInStep, InTier, NoCandidates, Everywhere
<1>61. Adopted'
  BY <1>2 DEF Adopted, InTier, Took, Everywhere
<1>7. IdentitiesUnique'
  BY BeginIs, Idle, Emptied DEF IdentitiesUnique
<1>8. \A p \in Projects : InTier(p, documents[p])' => Took(documents[p])' = {}
  BY <1>2, BeginIs DEF InTier, Took, Everywhere
<1>9. \A p \in Projects : ~InTier(p, durable.documents[p])'
  BY <1>3 DEF InTier
<1>10. AllCounted'
  <2>1. \A p \in Projects : InTier(p, documents[p])' => (documents[p].nextCandidate \in 1..(taken + 1))'
    BY <1>2, BeginIs DEF InTier
  <2> QED
    BY <1>8, <1>9, <2>1 DEF AllCounted, Counted
<1>11. AllFine'
  BY <1>8, <1>9, BeginIs, Idle DEF AllFine, All, NoCandidates, Everywhere
<1>12. Firing' /\ Callers'
  BY BeginIs, Idle DEF Firing, Callers
<1>13. NothingLeaks'
  BY BeginIs, Emptied DEF NothingLeaks
<1>14. PicksTaken'
  BY BeginIs DEF IInv, PicksTaken
<1> QED
  BY <1>1, <1>4, <1>5, <1>6, <1>61, <1>7, <1>10, <1>11, <1>12, <1>13, <1>14 DEF IInv

(* Refused for want of a pose: the tier was emptied all the same. *)
LEMMA BeginUntrackedKeeps ==
  ASSUME IInv, BeginUntracked
  PROVE  IInv'
<1>1. /\ active = NoProject /\ active' = NoProject /\ candidates' = NoCandidates
      /\ firing' = NoNode /\ pending' = {}
      /\ store' = EmptyStore /\ sink' = EmptySink /\ pinned' = {} /\ offered' = {}
      /\ minted' = minted + 1 /\ tier' = minted + 1 /\ minted < MaxGeneration
      /\ UNCHANGED <<nextCandidate, nextFrame, documents, picks, durable, taken, behind, unstepped>>
      /\ stranded' = {}
  BY Idle DEF BeginUntracked, CanBegin, session, disk
<1>2. TypeOK'
  <2>1. TypeOK
    BY DEF IInv
  <2>2. EmptyStore \in Store /\ EmptySink \in Copies /\ \A f \in EmptyStore.cold : ~InHeap(EmptyStore, f)
    BY Emptied DEF Sorted
  <2>3. minted' \in 1..MaxGeneration /\ tier' \in 1..minted'
    BY <1>1, Idle
  <2>4. nextCandidate' \in 1..(taken' + 1) /\ nextFrame' \in 1..(taken' + 1)
    BY <1>1, <2>1 DEF TypeOK
  <2>5. pending' \subseteq Candidate /\ IsFiniteSet(pending') /\ Cardinality(pending') < FrameCount
    BY <1>1, FS_EmptySet, Before
  <2> QED
    BY <1>1, <2>1, <2>2, <2>3, <2>4, <2>5, Idle DEF TypeOK
<1>3. \A p \in Projects :
        ~InTier(p, documents[p])' /\ ~InTier(p, durable.documents[p])'
  BY <1>1, Idle DEF InTier
<1>4. Generations'
  <2>1. \A p \in Projects :
          /\ documents[p] # NoDocument =>
               documents[p].generation \in Nat /\ documents[p].generation <= minted
          /\ durable.documents[p] # NoDocument =>
               durable.documents[p].generation \in Nat /\ durable.documents[p].generation <= minted
    BY DEF IInv, Generations, TypeOK, Documents, Document
  <2>2. \A g \in Nat : g <= minted => g <= minted + 1
    BY Idle
  <2> QED
    BY <1>1, <2>1, <2>2 DEF Generations
<1>5. OneCapture' /\ AllCounted' /\ DocumentInStep' /\ Adopted'
  BY <1>1, <1>3, MarkersAssumption DEF OneCapture, AllCounted, DocumentInStep, Adopted
<1>6. IdentitiesUnique'
  BY <1>1, Idle, Emptied DEF IdentitiesUnique
<1>7. AllFine' /\ Firing' /\ Callers'
  BY <1>1, <1>3, Idle DEF AllFine, All, Firing, Callers
<1>8. NothingLeaks'
  BY <1>1, Emptied DEF NothingLeaks
<1>9. PicksTaken'
  BY <1>1 DEF IInv, PicksTaken
<1> QED
  BY <1>2, <1>4, <1>5, <1>6, <1>7, <1>8, <1>9 DEF IInv

(* Frames a document names are taken back: they show what they showed.       *)
LEMMA Adopts ==
  ASSUME IInv, NEW project \in Projects, CanResume(project),
         NEW adopted, adopted \subseteq Named(project), \A f \in adopted : Adoptable(f),
         store' = [store EXCEPT !.cold = @ \cup adopted],
         nextFrame' = NextFrameAfter(adopted), UNCHANGED <<sink, pinned, taken>>
  PROVE  /\ active = NoProject /\ InTier(project, documents[project])
         /\ documents[project] \in Document /\ Counted(documents[project])
         /\ adopted \subseteq Frame /\ Sorted(store')
         /\ \A f \in pinned' : InHeap(store', f)
         /\ \A f \in Frame : Known(store', f) <=> Known(store, f) \/ f \in adopted
         /\ \A f : PixelsOf(f)' = PixelsOf(f)
         /\ nextFrame' \in 1..(taken' + 1) /\ nextFrame <= nextFrame'
         /\ \A f \in Frame : Known(store', f) => f < nextFrame'
         /\ \A f \in adopted : f < nextFrame'
<1>1. active = NoProject /\ InTier(project, documents[project])
  BY DEF CanResume, InTier
<1>2. documents[project] \in Document /\ Counted(documents[project])
  BY <1>1 DEF IInv, TypeOK, Documents, InTier, AllCounted
<1>3. \A f \in adopted : f \in Frame /\ f <= taken
  <2>1. \A c \in Took(documents[project]) : c \in Candidate
    BY <1>2 DEF Document, Took, Everywhere
  <2> QED
    BY <1>2, <2>1, Before DEF Named, FramesOf, Counted, Took
<1>4. /\ nextFrame' \in 1..(taken' + 1) /\ nextFrame <= nextFrame'
      /\ \A f \in adopted : f < nextFrame'
  BY <1>3, NextFrameAfterIs
<1>5. /\ store \in Store /\ store.heap \in Copies /\ store.cold \subseteq Frame
      /\ \A f \in store.cold : ~InHeap(store, f)
  BY Before DEF Sorted, Store
<1>6. store'.heap = store.heap /\ store'.cold = store.cold \cup adopted /\ store' \in Store
  BY <1>3, <1>5 DEF Store
<1>7. \A f : InHeap(store', f) <=> InHeap(store, f)
  BY <1>6 DEF InHeap
<1>8. Sorted(store')
  BY <1>5, <1>6, <1>7 DEF Sorted, Adoptable
<1>9. \A f \in Frame : Known(store', f) <=> Known(store, f) \/ f \in adopted
  BY <1>6, <1>7 DEF Known
<1>10. \A f : PixelsOf(f)' = PixelsOf(f)
  BY <1>6, <1>7 DEF PixelsOf
<1>11. ASSUME NEW f \in Frame, Known(store', f) PROVE f < nextFrame'
  <2>1. CASE f \in adopted
    BY <1>4, <2>1
  <2>2. CASE Known(store, f)
    <3>1. f < nextFrame /\ nextFrame \in Nat /\ nextFrame' \in Nat /\ f \in Nat
      <4>1. taken \in Nat /\ nextFrame \in 1..(taken + 1)
        BY CaptureAssumption DEF IInv, TypeOK
      <4> QED
        BY <1>4, <2>2, <4>1, CaptureAssumption DEF IInv, IdentitiesUnique, Frame
    <3> QED
      BY <1>4, <3>1
  <2> QED
    BY <1>9, <1>11, <2>1, <2>2
<1>12. \A f \in pinned' : InHeap(store', f)
  BY <1>7, Before
<1>13. adopted \subseteq Frame
  BY <1>3
<1> QED
  BY <1>1, <1>2, <1>4, <1>8, <1>9, <1>10, <1>11, <1>12, <1>13

(* Refused part of the way: what was taken back is the document's still. *)
LEMMA ResumeRefusedKeeps ==
  ASSUME IInv, NEW project \in Projects, ResumeRefused(project)
  PROVE  IInv'
<1>1. /\ CanResume(project)
      /\ UNCHANGED <<active, candidates, firing, pending, nextCandidate, pinned, offered, sink,
                     tier, minted, documents, picks, durable, taken, behind, stranded, unstepped>>
  BY DEF ResumeRefused, session, disk, ghosts
<1>2. PICK adopted \in SUBSET {f \in Named(project) : Adoptable(f)} :
        /\ store' = [store EXCEPT !.cold = @ \cup adopted]
        /\ nextFrame' = NextFrameAfter(adopted)
  BY DEF ResumeRefused
<1>3. /\ active = NoProject /\ InTier(project, documents[project])
      /\ adopted \subseteq Frame /\ Sorted(store')
      /\ \A f \in pinned' : InHeap(store', f)
      /\ \A f \in Frame : Known(store', f) <=> Known(store, f) \/ f \in adopted
      /\ \A f : PixelsOf(f)' = PixelsOf(f)
      /\ nextFrame' \in 1..(taken' + 1) /\ nextFrame <= nextFrame'
      /\ \A f \in Frame : Known(store', f) => f < nextFrame'
  BY <1>1, <1>2, Adopts
<1>4. TypeOK'
  <2>1. TypeOK
    BY DEF IInv
  <2> QED
    BY <1>1, <1>3, <2>1 DEF TypeOK, Sorted
<1>5. Generations' /\ DocumentInStep' /\ Adopted' /\ AllCounted' /\ PicksTaken' /\ Firing' /\ Callers'
  BY <1>1, <1>3, MarkersAssumption
  DEF IInv, Generations, DocumentInStep, Adopted, AllCounted, Counted, PicksTaken, Firing, Noted, Callers,
              InTier, Took
<1>6. OneCapture'
  <2>1. ASSUME NEW p \in Projects, InTier(p, durable.documents[p]),
               NEW c \in Took(durable.documents[p]), c.frame < nextFrame
        PROVE  c.frame < nextFrame'
    <3>1. c.frame \in Frame
      BY <2>1 DEF IInv, TypeOK, Documents, Document, InTier, Took, Everywhere, Candidate
    <3>2. taken \in Nat /\ nextFrame \in 1..(taken + 1) /\ taken' = taken
      BY <1>1, CaptureAssumption DEF IInv, TypeOK
    <3>3. c.frame \in Nat /\ nextFrame \in Nat /\ nextFrame' \in Nat
      BY <1>3, <3>1, <3>2, CaptureAssumption DEF Frame
    <3> QED
      BY <1>3, <2>1, <3>3
  <2> QED
    BY <1>1, <2>1 DEF IInv, OneCapture, InTier, Took
<1>7. IdentitiesUnique'
  BY <1>1, <1>3, Idle DEF IInv, IdentitiesUnique
<1>8. AllFine'
  BY <1>1, <1>3 DEF IInv, AllFine, Fine, Safe, All, InTier, Took
<1>9. NothingLeaks'
  <2>1. \A f \in adopted : f \in Named(project)
    BY <1>2
  <2> QED
    BY <1>1, <1>3, <2>1 DEF IInv, NothingLeaks, Named, InTier
<1> QED
  BY <1>4, <1>5, <1>6, <1>7, <1>8, <1>9 DEF IInv

(* A session is taken up again: it is what its document says, under counters *)
(* past whatever was issued before.                                          *)
LEMMA ResumeIs ==
  ASSUME IInv, NEW project \in Projects, Resume(project)
  PROVE  /\ active = NoProject /\ active' = project /\ project # NoProject
         /\ InTier(project, documents[project]) /\ Counted(documents[project])
         /\ candidates' = documents[project].candidates
         /\ candidates' \in [Nodes -> SUBSET Candidate]
         /\ UNCHANGED <<firing, pending, pinned, offered, sink, tier, minted, picks, durable, taken,
                        stranded>>
         /\ behind' \in BOOLEAN /\ unstepped' = (unstepped \/ behind')
         /\ firing = NoNode /\ pending = {}
         /\ nextCandidate' = PastEveryPick(project, documents[project].nextCandidate)
         /\ nextCandidate' \in 1..(taken + 1)
         /\ documents[project].nextCandidate \in 1..(taken + 1) /\ taken \in Nat
         /\ documents[project].nextCandidate <= nextCandidate'
         /\ \A n \in Nodes : picks[project][n].id < nextCandidate'
         /\ documents' \in Documents
         /\ documents'[project] # NoDocument /\ documents'[project].generation = tier
         /\ documents'[project].nextCandidate \in {documents[project].nextCandidate, nextCandidate'}
         /\ ~behind' => documents'[project].nextCandidate = nextCandidate'
         /\ \A n \in Nodes : documents'[project].candidates[n] = candidates'[n]
         /\ Took(documents'[project]) = Took(documents[project])
         /\ \A p \in Projects : p # project => documents'[p] = documents[p]
<1> DEFINE old == documents[project]
           cells == [n \in Nodes |-> {c \in candidates'[n] : c.ours}]
           doc == [generation |-> tier, nextCandidate |-> nextCandidate', candidates |-> cells]
<1>1. /\ CanResume(project) /\ active' = project
      /\ candidates' = old.candidates
      /\ UNCHANGED <<firing, pending, pinned, offered, sink, tier, minted, picks, durable, taken,
                     stranded>>
      /\ behind' \in BOOLEAN /\ unstepped' = (unstepped \/ behind')
      /\ nextCandidate' = PastEveryPick(project, old.nextCandidate)
      /\ \/ documents' = [documents EXCEPT ![project] = doc]
         \/ documents' = documents /\ (behind' \/ nextCandidate' = old.nextCandidate)
  BY DEF Resume, Checkpoint, WriteDocument
<1>2. active = NoProject /\ InTier(project, old) /\ documents \in Documents /\ taken \in Nat
  BY <1>1, CaptureAssumption DEF CanResume, InTier, IInv, TypeOK
<1>3. old \in Document /\ Counted(old)
  BY <1>2 DEF IInv, Documents, InTier, AllCounted
<1>4. candidates' \in [Nodes -> SUBSET Candidate] /\ old.generation = tier
  BY <1>1, <1>2, <1>3 DEF Document, InTier
<1>5. old.nextCandidate \in 1..(taken + 1)
  BY <1>3 DEF Counted
<1>6. /\ nextCandidate' \in 1..(taken + 1) /\ old.nextCandidate <= nextCandidate'
      /\ \A n \in Nodes : picks[project][n].id < nextCandidate'
  BY <1>1, <1>5, PastEveryPickIs
<1>7. \A n \in Nodes : cells[n] = candidates'[n]
  BY <1>1, <1>3 DEF Counted, Took, Everywhere
<1>8. cells = candidates'
  BY <1>4, <1>7
<1>9. doc \in Document /\ doc.nextCandidate = nextCandidate' /\ doc.generation = tier
      /\ doc.candidates = candidates'
  <2>1. tier \in 1..MaxGeneration
    BY <1>3, <1>4 DEF Document
  <2>2. nextCandidate' \in Nat
    BY <1>2, <1>6
  <2> QED
    BY <1>4, <1>8, <2>1, <2>2 DEF Document
<1> HIDE DEF doc
<1>10. /\ documents' \in Documents
       /\ documents'[project] \in Document /\ documents'[project].generation = tier
       /\ documents'[project].nextCandidate \in {old.nextCandidate, nextCandidate'}
       /\ ~behind' => documents'[project].nextCandidate = nextCandidate'
       /\ documents'[project].candidates = candidates'
       /\ \A p \in Projects : p # project => documents'[p] = documents[p]
  <2>1. CASE documents' = [documents EXCEPT ![project] = doc]
    <3>2. documents' \in Documents /\ documents'[project] = doc
          /\ \A p \in Projects : p # project => documents'[p] = documents[p]
      BY <1>2, <1>9, <2>1 DEF Documents
    <3> QED
      BY <1>9, <3>2
  <2>2. CASE documents' = documents /\ (behind' \/ nextCandidate' = old.nextCandidate)
    BY <1>1, <1>2, <1>3, <1>4, <2>2
  <2> QED
    BY <1>1, <2>1, <2>2
<1>11. Took(documents'[project]) = Took(old)
  BY <1>1, <1>10 DEF Took
<1> QED
  BY <1>1, <1>2, <1>3, <1>4, <1>5, <1>6, <1>10, <1>11, Idle, MarkersAssumption

(* A resume takes back what the document names and the tier still has. *)
LEMMA ResumeKeeps ==
  ASSUME IInv, NEW project \in Projects, Resume(project)
  PROVE  IInv'
<1> DEFINE old == documents[project]
           adopted == Named(project)
<1>1. /\ active = NoProject /\ active' = project /\ project # NoProject
      /\ InTier(project, old) /\ Counted(old)
      /\ candidates' = old.candidates
      /\ candidates' \in [Nodes -> SUBSET Candidate]
      /\ UNCHANGED <<firing, pending, pinned, offered, sink, tier, minted, picks, durable, taken,
                     stranded>>
      /\ behind' \in BOOLEAN /\ unstepped' = (unstepped \/ behind')
      /\ firing = NoNode /\ pending = {}
      /\ nextCandidate' \in 1..(taken + 1)
      /\ old.nextCandidate \in 1..(taken + 1) /\ taken \in Nat
      /\ old.nextCandidate <= nextCandidate'
      /\ documents' \in Documents
      /\ documents'[project] # NoDocument /\ documents'[project].generation = tier
      /\ documents'[project].nextCandidate \in {old.nextCandidate, nextCandidate'}
      /\ ~behind' => documents'[project].nextCandidate = nextCandidate'
      /\ \A n \in Nodes : documents'[project].candidates[n] = candidates'[n]
      /\ Took(documents'[project]) = Took(old)
      /\ \A p \in Projects : p # project => documents'[p] = documents[p]
  BY ResumeIs
<1>2. /\ CanResume(project) /\ \A f \in adopted : Adoptable(f)
      /\ store' = [store EXCEPT !.cold = @ \cup adopted]
      /\ nextFrame' = NextFrameAfter(adopted)
  BY DEF Resume
<1>3. /\ adopted \subseteq Frame /\ Sorted(store')
      /\ \A f \in pinned' : InHeap(store', f)
      /\ \A f \in Frame : Known(store', f) <=> Known(store, f) \/ f \in adopted
      /\ \A f : PixelsOf(f)' = PixelsOf(f)
      /\ nextFrame' \in 1..(taken' + 1) /\ nextFrame <= nextFrame'
      /\ \A f \in Frame : Known(store', f) => f < nextFrame'
      /\ \A f \in adopted : f < nextFrame'
  BY <1>1, <1>2, Adopts
<1>4. \A c \in Took(old) : c.frame \in adopted
  BY DEF Took, Named, FramesOf
<1>5. Everywhere(candidates') = Took(old) /\ \A c \in Took(old) : c.ours
  BY <1>1 DEF Everywhere, Took, Counted
<1>6. \A p \in Projects : documents'[p] # NoDocument /\ documents'[p].generation = tier => p = project
  BY <1>1 DEF IInv, OneCapture, InTier
<1>7. \A p \in Projects : InTier(p, durable.documents[p]) => p = project
  BY <1>1 DEF IInv, OneCapture
<1>8. TypeOK'
  <2>1. TypeOK
    BY DEF IInv
  <2> QED
    BY <1>1, <1>3, <2>1 DEF TypeOK, Sorted
<1>9. Generations'
  BY <1>1, CaptureAssumption DEF IInv, Generations, InTier
<1>10. OneCapture'
  <2>1. ASSUME InTier(project, durable.documents[project])
        PROVE  /\ durable.documents[project].nextCandidate <= documents'[project].nextCandidate
               /\ \A c \in Took(durable.documents[project]) :
                    c \in Took(documents'[project]) \/ c.frame < nextFrame'
    <3>1. /\ durable.documents[project].nextCandidate <= old.nextCandidate
          /\ \A c \in Took(durable.documents[project]) : c \in Took(old) \/ c.frame < nextFrame
      BY <2>1 DEF IInv, OneCapture
    <3>2. durable.documents[project] \in Document
      BY <2>1 DEF IInv, TypeOK, Documents, InTier
    <3>3. durable.documents[project].nextCandidate \in Nat
          /\ \A c \in Took(durable.documents[project]) : c.frame \in Nat
      BY <3>2, CaptureAssumption DEF Document, Took, Everywhere, Candidate, Frame
    <3>4. nextCandidate' \in Nat /\ old.nextCandidate \in Nat
      BY <1>1
    <3>5. nextFrame \in Nat /\ nextFrame' \in Nat
      BY <1>1, <1>3 DEF IInv, TypeOK
    <3>6. durable.documents[project].nextCandidate <= documents'[project].nextCandidate
      BY <1>1, <3>1, <3>3, <3>4
    <3> QED
      BY <1>1, <1>3, <3>1, <3>3, <3>5, <3>6
  <2> QED
    BY <1>1, <1>6, <1>7, <2>1 DEF OneCapture, InTier
<1>11. DocumentInStep'
  <2>1. documents'[project].nextCandidate <= nextCandidate'
    BY <1>1
  <2>2. \A n \in Nodes : candidates'[n] = {c \in candidates'[n] : c.ours}
    BY <1>5 DEF Everywhere
  <2>3. \A c, d \in Took(old) : c.id = d.id \/ c.frame = d.frame => c = d
    BY <1>1 DEF Counted
  <2>4. Everywhere(documents'[project].candidates) = Took(old)
    BY <1>1 DEF Took
  <2>5. Everywhere(candidates') \cup pending' = Took(old)
    BY <1>1, <1>5
  <2> QED
    BY <1>1, <2>1, <2>2, <2>3, <2>4, <2>5 DEF DocumentInStep, InTier
<1>111. Adopted'
  BY <1>1, <1>3, <1>4, <1>6 DEF Adopted, InTier, Took
<1>12. \A c \in Took(old) : c.id < nextCandidate'
  <2>1. \A c \in Took(old) : c.id < old.nextCandidate
    BY <1>1 DEF Counted
  <2>2. \A c \in Took(old) : c \in Candidate
    BY <1>1, <1>5 DEF Everywhere
  <2>3. \A c \in Took(old) : c.id \in Nat
    BY <2>2, CaptureAssumption DEF Candidate
  <2>4. nextCandidate' \in Nat /\ old.nextCandidate \in Nat
    BY <1>1
  <2> QED
    BY <1>1, <2>1, <2>3, <2>4
<1>13. IdentitiesUnique'
  BY <1>1, <1>3, <1>4, <1>5, <1>12 DEF IdentitiesUnique, Counted
<1>14. AllCounted'
  <2>1. Counted(documents[project])'
    <3>1. \A c \in Took(old) : c.frame <= taken'
      BY <1>1 DEF Counted
    <3>2. \A c \in Took(old) : c.id < old.nextCandidate
      BY <1>1 DEF Counted
    <3> QED
      BY <1>1, <1>5, <1>12, <3>1, <3>2 DEF Counted, Took
  <2>2. \A p \in Projects : InTier(p, durable.documents[p]) => Counted(durable.documents[p])'
    BY <1>1 DEF IInv, AllCounted, Counted, Took
  <2> QED
    BY <1>1, <1>6, <2>1, <2>2 DEF AllCounted, InTier
<1>15. AllFine'
  <2>1. \A c : (Fine(c) <=> Fine(c)') /\ (Safe(c) <=> Safe(c)')
    BY <1>1, <1>3 DEF Fine, Safe
  <2>2. \A c \in Took(old) : Fine(c) /\ Safe(c)
    BY <1>1 DEF IInv, AllFine
  <2>3. \A p \in Projects : InTier(p, durable.documents[p]) =>
          \A c \in Took(durable.documents[p]) : Fine(c) /\ Safe(c)
    BY DEF IInv, AllFine
  <2> QED
    BY <1>1, <1>5, <1>6, <2>1, <2>2, <2>3 DEF AllFine, All, InTier, Took
<1>16. Firing' /\ Callers'
  BY <1>1, <1>5 DEF Firing, Callers
<1>17. NothingLeaks'
  <2>1. ASSUME NEW f \in Frame, Known(store', f)
        PROVE  f \in FramesOf(Everywhere(candidates')) \/ f \in offered' \cup stranded'
    <3>1. CASE f \in adopted
      BY <1>5, <3>1 DEF Named, FramesOf, Took
    <3>2. CASE Known(store, f)
      <4>1. \/ f \in FramesOf(All) \/ f \in offered \cup stranded
            \/ \E p \in Projects : InTier(p, documents[p]) /\ f \in Named(p)
        BY <3>2 DEF IInv, NothingLeaks, All
      <4>2. f \notin FramesOf(All)
        BY <1>1, Idle DEF FramesOf
      <4>3. \A p \in Projects : InTier(p, documents[p]) => p = project
        BY <1>1 DEF IInv, OneCapture
      <4> QED
        BY <1>1, <3>1, <4>1, <4>2, <4>3
    <3> QED
      BY <1>3, <2>1, <3>1, <3>2
  <2> QED
    BY <1>1, <2>1 DEF NothingLeaks
<1>18. PicksTaken'
  BY <1>1 DEF IInv, PicksTaken
<1> QED
  BY <1>8, <1>9, <1>10, <1>11, <1>111, <1>13, <1>14, <1>15, <1>16, <1>17, <1>18 DEF IInv

-----------------------------------------------------------------------------
(* A frame that moves between the heap and the tier and shows what it did    *)
(* disturbs nothing.                                                         *)
LEMMA MovedKeeps ==
  ASSUME IInv, UNCHANGED <<session, nextFrame, offered, sink, tier, minted, disk, ghosts, taken>>,
         Sorted(store'), \A f \in Frame : Known(store', f) <=> Known(store, f),
         \A f \in Frame : PixelsOf(f)' = PixelsOf(f),
         pinned' \subseteq Frame, \A f \in pinned' : InHeap(store', f),
         \A c \in pending : c.frame \notin pinned'
  PROVE  IInv'
<1>1. UNCHANGED <<active, candidates, firing, pending, nextCandidate, nextFrame, offered, sink,
                  tier, minted, documents, picks, durable, taken, behind, stranded, unstepped>>
  BY DEF session, disk, ghosts
<1>2. TypeOK'
  <2>1. TypeOK
    BY DEF IInv
  <2> QED
    BY <1>1, <2>1 DEF TypeOK, Sorted
<1>3. Generations' /\ OneCapture' /\ DocumentInStep' /\ Adopted' /\ AllCounted' /\ PicksTaken'
      /\ Callers'
  BY <1>1 DEF IInv, Generations, OneCapture, DocumentInStep, Adopted, AllCounted, Counted, PicksTaken,
              Callers, InTier, Took
<1>4. IdentitiesUnique' /\ Firing' /\ NothingLeaks'
  BY <1>1 DEF IInv, IdentitiesUnique, Firing, Noted, Took, NothingLeaks, InTier, Named
<1>5. AllFine'
  <2>1. \A c \in Candidate : (Fine(c) <=> Fine(c)') /\ (Safe(c) <=> Safe(c)')
    BY <1>1, Before DEF Fine, Safe
  <2>2. All \subseteq Candidate
    BY Before DEF All, Everywhere
  <2>3. \A p \in Projects :
          /\ InTier(p, documents[p]) => Took(documents[p]) \subseteq Candidate
          /\ InTier(p, durable.documents[p]) => Took(durable.documents[p]) \subseteq Candidate
    BY DEF IInv, TypeOK, Documents, Document, InTier, Took, Everywhere
  <2>4. \A c \in All : Fine(c)'
    BY <2>1, <2>2 DEF IInv, AllFine
  <2>5. \A p \in Projects : InTier(p, documents[p]) =>
          \A c \in Took(documents[p]) : Fine(c)' /\ Safe(c)'
    BY <2>1, <2>3 DEF IInv, AllFine
  <2>6. \A p \in Projects : InTier(p, durable.documents[p]) =>
          \A c \in Took(durable.documents[p]) : Fine(c)' /\ Safe(c)'
    BY <2>1, <2>3 DEF IInv, AllFine
  <2>7. \A c \in Everywhere(candidates) : c.ours => Safe(c)'
    BY <2>1, <2>2 DEF IInv, AllFine, All
  <2> QED
    BY <1>1, <2>4, <2>5, <2>6, <2>7 DEF AllFine, All, InTier, Took
<1> QED
  BY <1>2, <1>3, <1>4, <1>5 DEF IInv

(* A build keeps a pin; the burst in progress is not what it read. *)
LEMMA HoldFrameKeeps ==
  ASSUME IInv, NEW project \in Projects, HoldFrame(project)
  PROVE  IInv'
<1>1. /\ InTier(project, documents[project])
      /\ UNCHANGED <<session, nextFrame, offered, sink, tier, minted, disk, ghosts, taken>>
  BY DEF HoldFrame, InTier
<1>2. PICK f \in Named(project) :
        /\ InHeap(store, f) \/ (f \in store.cold /\ sink[f] # NoPixels)
        /\ pinned' = pinned \cup {f}
        /\ store' = [heap |-> [store.heap EXCEPT ![f] = IF InHeap(store, f) THEN @ ELSE sink[f]],
                     cold |-> store.cold \ {f}]
  BY DEF HoldFrame
<1>3. f \in Frame /\ \A c \in pending : c.frame # f
  <2>1. PICK c \in Took(documents[project]) : c.frame = f
    BY DEF Named, FramesOf, Took
  <2>2. c \in Candidate
    BY <1>1 DEF IInv, TypeOK, Documents, Document, InTier, Took, Everywhere
  <2>3. CASE active = NoProject
    BY <2>1, <2>2, <2>3, Idle, Before
  <2>4. CASE active # NoProject
    <3>1. project = active
      BY <1>1, <2>4, InSession
    <3>2. c \in Noted
      BY <1>1, <2>1, <3>1 DEF Noted
    <3> QED
      BY <2>1, <2>2, <3>2, Before DEF IInv, Firing
  <2> QED
    BY <2>3, <2>4
<1>4. /\ store.heap \in Copies /\ store.cold \subseteq Frame /\ sink \in Copies
      /\ \A g \in store.cold : store.heap[g] = NoPixels
  BY Before DEF Sorted, Store, InHeap
<1>5. /\ store'.cold = store.cold \ {f} /\ store' \in Store
      /\ store'.heap[f] = (IF InHeap(store, f) THEN store.heap[f] ELSE sink[f])
      /\ \A g \in Frame \ {f} : store'.heap[g] = store.heap[g]
  BY <1>2, <1>3, <1>4 DEF Store, Copies
<1>6. store'.heap[f] # NoPixels /\ PixelsOf(f)' = PixelsOf(f)
  BY <1>1, <1>2, <1>5 DEF InHeap, PixelsOf
<1>7. Sorted(store')
  BY <1>4, <1>5 DEF Sorted, InHeap
<1>8. \A g \in Frame : Known(store', g) <=> Known(store, g)
  BY <1>2, <1>5, <1>6 DEF Known, InHeap
<1>9. \A g \in Frame : PixelsOf(g)' = PixelsOf(g)
  BY <1>1, <1>5, <1>6 DEF PixelsOf, InHeap
<1>10. pinned' \subseteq Frame /\ \A g \in pinned' : InHeap(store', g)
  BY <1>2, <1>3, <1>5, <1>6, Before DEF InHeap
<1>11. \A c \in pending : c.frame \notin pinned'
  BY <1>2, <1>3, Before
<1> QED
  BY <1>1, <1>7, <1>8, <1>9, <1>10, <1>11, MovedKeeps

(* And gives it back, in the heap or to the tier that has a copy of it. *)
LEMMA LetGoKeeps ==
  ASSUME IInv, LetGo
  PROVE  IInv'
<1>1. UNCHANGED <<session, nextFrame, offered, sink, tier, minted, disk, ghosts, taken>>
  BY DEF LetGo
<1>2. PICK f \in pinned :
        /\ pinned' = pinned \ {f}
        /\ \/ UNCHANGED store
           \/ /\ sink[f] = store.heap[f]
              /\ store' = [heap |-> [store.heap EXCEPT ![f] = NoPixels],
                           cold |-> store.cold \cup {f}]
  BY DEF LetGo
<1>3. /\ Sorted(store) /\ f \in Frame /\ InHeap(store, f) /\ pinned' \subseteq Frame
      /\ \A c \in pending : c.frame \notin pinned'
  BY <1>2, Before
<1>4. /\ store.heap \in Copies /\ store.cold \subseteq Frame
      /\ \A g \in store.cold : store.heap[g] = NoPixels
  BY <1>3 DEF Sorted, Store, InHeap
<1>5. CASE UNCHANGED store
  BY <1>1, <1>2, <1>3, <1>5, MovedKeeps, Before DEF PixelsOf
<1>6. CASE /\ sink[f] = store.heap[f]
           /\ store' = [heap |-> [store.heap EXCEPT ![f] = NoPixels],
                        cold |-> store.cold \cup {f}]
  <2>1. /\ store'.cold = store.cold \cup {f} /\ store' \in Store /\ store'.heap[f] = NoPixels
        /\ \A g \in Frame \ {f} : store'.heap[g] = store.heap[g]
    BY <1>3, <1>4, <1>6 DEF Store, Copies
  <2>2. Sorted(store')
    BY <1>4, <2>1 DEF Sorted, InHeap
  <2>3. \A g \in Frame : Known(store', g) <=> Known(store, g)
    BY <1>3, <2>1 DEF Known, InHeap
  <2>4. \A g \in Frame : PixelsOf(g)' = PixelsOf(g)
    BY <1>1, <1>3, <1>6, <2>1 DEF PixelsOf, InHeap
  <2>5. \A g \in pinned' : InHeap(store', g)
    BY <1>2, <2>1, Before DEF InHeap
  <2> QED
    BY <1>1, <1>3, <2>2, <2>3, <2>4, <2>5, MovedKeeps
<1> QED
  BY <1>2, <1>5, <1>6

(* A pick is recorded, of a candidate that was issued. *)
LEMMA SetSelectionIs ==
  ASSUME IInv, NEW node \in Nodes, SetSelection(node)
  PROVE  /\ active # NoProject /\ active \in Projects
         /\ UNCHANGED <<active, candidates, firing, pending, nextCandidate, store, pinned,
                        nextFrame, offered, sink, tier, minted, documents, durable, taken, behind,
                        stranded, unstepped>>
         /\ documents[active] # NoDocument /\ picks' \in Picks
         /\ \E c \in candidates[node] :
              /\ c \in Candidate /\ c.id <= taken /\ c.id < documents[active].nextCandidate
              /\ picks'[active][node] = [id |-> c.id, shot |-> c.shot]
         /\ \A p \in Projects, n \in Nodes :
              (p = active /\ n = node) \/ picks'[p][n] = picks[p][n]
<1>1. /\ active # NoProject
      /\ UNCHANGED <<active, candidates, firing, pending, nextCandidate, store, pinned,
                     nextFrame, offered, sink, tier, minted, documents, durable, taken, behind,
                     stranded, unstepped>>
      /\ documents[active] # NoDocument
  BY DEF SetSelection, session, frames, ghosts
<1>2. PICK c \in candidates[node] :
        /\ c.id < documents[active].nextCandidate
        /\ picks' = [picks EXCEPT ![active][node] = [id |-> c.id, shot |-> c.shot]]
  BY DEF SetSelection
<1>3. active \in Projects /\ picks \in [Projects -> [Nodes -> Pick]]
      /\ taken \in 0..MaxShots /\ MaxShots \in Nat /\ nextCandidate \in 1..(taken + 1)
  BY <1>1, CaptureAssumption DEF IInv, TypeOK, Picks
<1>4. c \in Candidate /\ c.id < nextCandidate
  BY Before DEF IInv, IdentitiesUnique, Everywhere
<1>5. c.id <= taken /\ c.id \in 0..MaxShots /\ c.shot \in 0..MaxShots
  BY <1>3, <1>4 DEF Candidate, Shot
<1> DEFINE pick == [id |-> c.id, shot |-> c.shot]
<1>6. pick \in Pick
  BY <1>5 DEF Pick
<1> HIDE DEF pick
<1>7. picks' = [picks EXCEPT ![active][node] = pick]
  BY <1>2 DEF pick
<1>8. picks' \in [Projects -> [Nodes -> Pick]] /\ picks'[active][node] = pick
      /\ \A p \in Projects, n \in Nodes : (p = active /\ n = node) \/ picks'[p][n] = picks[p][n]
  BY <1>3, <1>6, <1>7
<1> QED
  BY <1>1, <1>2, <1>3, <1>4, <1>5, <1>8 DEF Picks, pick

(* A pick is of what the document names, and goes into the same document. *)
LEMMA SetSelectionKeeps ==
  ASSUME IInv, NEW node \in Nodes, SetSelection(node)
  PROVE  IInv'
<1>1. UNCHANGED <<active, candidates, firing, pending, nextCandidate, store, pinned,
                  nextFrame, offered, sink, tier, minted, documents, durable, taken, behind, stranded,
                  unstepped>>
  BY SetSelectionIs
<1>2. TypeOK'
  <2>1. TypeOK
    BY DEF IInv
  <2> QED
    BY <1>1, <2>1, SetSelectionIs DEF TypeOK
<1>3. /\ Generations' /\ OneCapture' /\ DocumentInStep' /\ Adopted' /\ AllCounted'
      /\ IdentitiesUnique' /\ AllFine' /\ Firing' /\ Callers' /\ NothingLeaks'
  <2>1. Generations' /\ OneCapture' /\ DocumentInStep' /\ Adopted' /\ AllCounted'
    BY <1>1 DEF IInv, Generations, OneCapture, DocumentInStep, Adopted, AllCounted, Counted, InTier,
                Took
  <2>2. IdentitiesUnique' /\ Firing' /\ Callers' /\ NothingLeaks'
    BY <1>1 DEF IInv, IdentitiesUnique, Firing, Noted, Callers, NothingLeaks, InTier, Took, Named
  <2>3. AllFine'
    BY <1>1 DEF IInv, AllFine, Fine, Safe, PixelsOf, InTier, Took, All
  <2> QED
    BY <2>1, <2>2, <2>3
<1>4. PicksTaken'
  <2>1. ASSUME NEW p \in Projects, NEW n \in Nodes PROVE picks'[p][n].id <= taken
    <3>1. CASE p = active /\ n = node
      <4>1. PICK c \in candidates[node] :
              c.id <= taken /\ picks'[active][node] = [id |-> c.id, shot |-> c.shot]
        BY SetSelectionIs
      <4> QED
        BY <3>1, <4>1
    <3>2. CASE picks'[p][n] = picks[p][n]
      BY <3>2 DEF IInv, PicksTaken
    <3> QED
      BY <3>1, <3>2, SetSelectionIs
  <2> QED
    BY <1>1, <2>1 DEF IInv, PicksTaken
<1> QED
  BY <1>2, <1>3, <1>4 DEF IInv

(* A document or a pick becomes durable: it is then what it is in memory.    *)
LEMMA FlushIs ==
  ASSUME IInv, NEW project \in Projects, Flush(project)
  PROVE  /\ UNCHANGED <<active, candidates, firing, pending, nextCandidate, store, pinned,
                        nextFrame, offered, sink, tier, minted, documents, picks, taken, behind,
                        stranded, unstepped>>
         /\ durable' \in [documents : Documents, picks : Picks]
         /\ \A p \in Projects : \/ durable'.documents[p] = durable.documents[p]
                                \/ durable'.documents[p] = documents[p]
         /\ \A p \in Projects, n \in Nodes : \/ durable'.picks[p][n] = durable.picks[p][n]
                                             \/ durable'.picks[p][n] = picks[p][n]
<1>1. UNCHANGED <<active, candidates, firing, pending, nextCandidate, store, pinned,
                  nextFrame, offered, sink, tier, minted, documents, picks, taken, behind, stranded,
                  unstepped>>
  BY DEF Flush, session, frames, ghosts
<1>2. /\ durable \in [documents : Documents, picks : Picks]
      /\ documents \in Documents /\ picks \in Picks
  BY DEF IInv, TypeOK
<1>3. CASE durable' = [durable EXCEPT !.documents[project] = documents[project]]
  <2>1. /\ durable'.documents = [durable.documents EXCEPT ![project] = documents[project]]
        /\ durable'.picks = durable.picks
        /\ durable' = [documents |-> durable'.documents, picks |-> durable'.picks]
    BY <1>2, <1>3
  <2>2. durable'.documents \in Documents
    BY <1>2, <2>1 DEF Documents
  <2> QED
    BY <1>1, <1>2, <2>1, <2>2 DEF Documents
<1>4. CASE \E n \in Nodes : durable' = [durable EXCEPT !.picks[project][n] = picks[project][n]]
  <2>1. PICK n \in Nodes : durable' = [durable EXCEPT !.picks[project][n] = picks[project][n]]
    BY <1>4
  <2>2. /\ durable'.picks = [durable.picks EXCEPT ![project][n] = picks[project][n]]
        /\ durable'.documents = durable.documents
        /\ durable' = [documents |-> durable'.documents, picks |-> durable'.picks]
    BY <1>2, <2>1
  <2>3. picks[project][n] \in Pick /\ durable.picks \in [Projects -> [Nodes -> Pick]]
    BY <1>2 DEF Picks
  <2>4. durable'.picks \in [Projects -> [Nodes -> Pick]]
        /\ \A p \in Projects, k \in Nodes : \/ durable'.picks[p][k] = durable.picks[p][k]
                                            \/ durable'.picks[p][k] = picks[p][k]
    BY <2>2, <2>3
  <2> QED
    BY <1>1, <1>2, <2>2, <2>4 DEF Picks
<1> QED
  BY <1>3, <1>4 DEF Flush

(* A flush copies memory to the disk. *)
LEMMA FlushKeeps ==
  ASSUME IInv, NEW project \in Projects, Flush(project)
  PROVE  IInv'
<1>1. UNCHANGED <<active, candidates, firing, pending, nextCandidate, store, pinned,
                  nextFrame, offered, sink, tier, minted, documents, picks, taken, behind, stranded,
                  unstepped>>
  BY FlushIs
<1>2. \A p \in Projects : \/ durable'.documents[p] = durable.documents[p]
                          \/ durable'.documents[p] = documents[p]
  BY FlushIs
<1>3. TypeOK'
  <2>1. TypeOK
    BY DEF IInv
  <2> QED
    BY <1>1, <2>1, FlushIs DEF TypeOK
<1>4. DocumentInStep' /\ Adopted' /\ IdentitiesUnique' /\ Firing' /\ Callers' /\ NothingLeaks'
  BY <1>1 DEF IInv, DocumentInStep, Adopted, Took, IdentitiesUnique, Firing, Noted, Callers, NothingLeaks, InTier, Named
<1>5. Generations'
  BY <1>1, <1>2 DEF IInv, Generations
<1>6. OneCapture'
  <2>1. ASSUME NEW p \in Projects, InTier(p, documents[p])
        PROVE  documents[p].nextCandidate <= documents[p].nextCandidate
    <3>1. documents[p].nextCandidate \in Nat
      BY <2>1 DEF IInv, TypeOK, Documents, Document, InTier
    <3> QED
      BY <3>1
  <2>2. ASSUME NEW p \in Projects, InTier(p, durable'.documents[p])
        PROVE  /\ InTier(p, documents[p])
               /\ durable'.documents[p].nextCandidate <= documents[p].nextCandidate
               /\ \A c \in Took(durable'.documents[p]) :
                    c \in Took(documents[p]) \/ c.frame < nextFrame
    <3>1. CASE durable'.documents[p] = documents[p]
      BY <2>1, <2>2, <3>1
    <3>2. CASE durable'.documents[p] = durable.documents[p]
      BY <2>2, <3>2 DEF IInv, OneCapture
    <3> QED
      BY <1>2, <3>1, <3>2
  <2> QED
    BY <1>1, <2>2 DEF IInv, OneCapture, InTier, Took
<1>7. AllCounted'
  <2>1. \A p \in Projects : InTier(p, durable'.documents[p]) => Counted(durable'.documents[p])
    BY <1>2 DEF IInv, AllCounted
  <2> QED
    BY <1>1, <2>1 DEF IInv, AllCounted, Counted, InTier, Took
<1>8. AllFine'
  <2>1. \A p \in Projects : InTier(p, durable'.documents[p]) =>
          \A c \in Took(durable'.documents[p]) : Fine(c) /\ Safe(c)
    BY <1>2 DEF IInv, AllFine
  <2> QED
    BY <1>1, <2>1 DEF IInv, AllFine, Fine, Safe, PixelsOf, All, InTier, Took
<1>9. PicksTaken'
  BY <1>1, FlushIs DEF IInv, PicksTaken
<1> QED
  BY <1>3, <1>4, <1>5, <1>6, <1>7, <1>8, <1>9 DEF IInv

(* The process ends; the next one reads what was durable of the tier there   *)
(* was, and that is nothing where the tier was lost.                         *)
LEMMA CrashIs ==
  ASSUME IInv, Crash
  PROVE  /\ active' = NoProject /\ candidates' = NoCandidates /\ firing' = NoNode
         /\ pending' = {} /\ nextCandidate' = 1
         /\ store' = EmptyStore /\ pinned' = {} /\ nextFrame' = 1 /\ offered' = {}
         /\ documents' = durable.documents /\ picks' = durable.picks
         /\ durable' = durable /\ taken' = taken
         /\ behind' = FALSE /\ stranded' = {} /\ unstepped' = unstepped
         /\ \A p \in Projects : InTier(p, durable.documents[p])' =>
              /\ InTier(p, durable.documents[p])
              /\ sink' = sink /\ tier' = tier
         /\ minted <= minted' /\ minted' \in 1..MaxGeneration /\ tier' \in 1..minted'
         /\ sink' \in Copies
<1>1. /\ active' = NoProject /\ candidates' = NoCandidates /\ firing' = NoNode
      /\ pending' = {} /\ nextCandidate' = 1
      /\ store' = EmptyStore /\ pinned' = {} /\ nextFrame' = 1 /\ offered' = {}
      /\ documents' = durable.documents /\ picks' = durable.picks
      /\ durable' = durable /\ taken' = taken
      /\ behind' = FALSE /\ stranded' = {} /\ unstepped' = unstepped
  BY DEF Crash
<1>2. minted \in 1..MaxGeneration /\ tier \in 1..minted /\ sink \in Copies /\ MaxGeneration \in Nat
  BY CaptureAssumption DEF IInv, TypeOK
<1>3. CASE UNCHANGED <<sink, tier, minted>>
  BY <1>1, <1>2, <1>3 DEF InTier
<1>4. CASE minted < MaxGeneration /\ minted' = minted + 1 /\ tier' = minted' /\ sink' = EmptySink
  <2>1. minted' \in 1..MaxGeneration /\ tier' \in 1..minted' /\ minted <= minted'
    BY <1>2, <1>4
  <2>2. \A p \in Projects : ~InTier(p, durable.documents[p])'
    BY <1>1, <1>4, Idle DEF InTier
  <2> QED
    BY <1>1, <1>4, <2>1, <2>2, Emptied
<1> QED
  BY <1>3, <1>4 DEF Crash

(* A process that ends leaves some documents as they were on the disk. *)
LEMMA CrashKeeps ==
  ASSUME IInv, Crash
  PROVE  IInv'
<1>1. /\ active' = NoProject /\ candidates' = NoCandidates /\ firing' = NoNode
      /\ pending' = {} /\ nextCandidate' = 1
      /\ store' = EmptyStore /\ pinned' = {} /\ nextFrame' = 1 /\ offered' = {}
      /\ documents' = durable.documents /\ picks' = durable.picks
      /\ durable' = durable /\ taken' = taken
      /\ behind' = FALSE /\ stranded' = {} /\ unstepped' = unstepped
      /\ minted <= minted' /\ minted' \in 1..MaxGeneration /\ tier' \in 1..minted'
      /\ sink' \in Copies
  BY CrashIs
<1>2. \A p \in Projects : InTier(p, durable.documents[p])' =>
        InTier(p, durable.documents[p]) /\ sink' = sink /\ tier' = tier
  BY CrashIs
<1>3. TypeOK'
  <2>1. TypeOK
    BY DEF IInv
  <2>2. EmptyStore \in Store /\ \A f \in EmptyStore.cold : ~InHeap(EmptyStore, f)
    BY Emptied DEF Sorted
  <2>3. taken \in Nat
    BY <2>1, CaptureAssumption DEF TypeOK
  <2>4. 1 \in 1..(taken + 1)
    BY <2>3
  <2>5. pending' \subseteq Candidate /\ IsFiniteSet(pending') /\ Cardinality(pending') < FrameCount
    BY <1>1, FS_EmptySet, Before
  <2> QED
    BY <1>1, <2>1, <2>2, <2>4, <2>5, Idle DEF TypeOK
<1>4. Generations'
  <2>1. minted \in Nat /\ minted' \in Nat
    BY <1>1, CaptureAssumption DEF IInv, TypeOK
  <2>2. \A p \in Projects : durable.documents[p] # NoDocument =>
          durable.documents[p].generation \in Nat /\ durable.documents[p].generation <= minted
    BY DEF IInv, Generations, TypeOK, Documents, Document
  <2>3. \A p \in Projects : durable.documents[p] # NoDocument =>
          durable.documents[p].generation <= minted'
    BY <1>1, <2>1, <2>2
  <2> QED
    BY <1>1, <2>3 DEF Generations
<1>5. \A p \in Projects : InTier(p, durable.documents[p])' =>
        Counted(durable.documents[p]) /\ InTier(p, documents[p])
  BY <1>2 DEF IInv, AllCounted, OneCapture
<1>6. OneCapture'
  <2>1. \A p, q \in Projects :
          InTier(p, durable.documents[p])' /\ InTier(q, durable.documents[q])' => p = q
    BY <1>5 DEF IInv, OneCapture
  <2>2. taken \in Nat
    BY CaptureAssumption DEF IInv, TypeOK
  <2>3. \A p \in Projects : InTier(p, durable.documents[p])' =>
          durable.documents[p].nextCandidate <= durable.documents[p].nextCandidate
    BY <1>5, <2>2 DEF Counted
  <2> QED
    BY <1>1, <2>1, <2>3 DEF OneCapture, InTier, Took
<1>7. DocumentInStep' /\ Adopted'
  BY <1>1, MarkersAssumption DEF DocumentInStep, Adopted
<1>8. IdentitiesUnique'
  BY <1>1, Idle, Emptied DEF IdentitiesUnique
<1>9. AllCounted'
  BY <1>1, <1>5 DEF AllCounted, Counted, InTier, Took
<1>10. AllFine'
  <2>1. ASSUME NEW p \in Projects, InTier(p, durable.documents[p])',
               NEW c \in Took(durable.documents[p])
        PROVE  Fine(c)' /\ Safe(c)'
    <3>1. c \in Candidate
      BY <1>2, <2>1 DEF IInv, TypeOK, Documents, Document, InTier, Took, Everywhere
    <3>2. c.frame \in Frame /\ Safe(c) /\ sink' = sink
      BY <1>2, <2>1, <3>1, Before DEF IInv, AllFine
    <3>3. PixelsOf(c.frame)' = sink[c.frame]
      BY <1>1, <3>2, Emptied DEF PixelsOf, Known
    <3> QED
      BY <3>2, <3>3 DEF Fine, Safe
  <2> QED
    BY <1>1, <2>1, Idle DEF AllFine, All, InTier, Took
<1>11. Firing' /\ Callers'
  BY <1>1, Idle DEF Firing, Callers
<1>12. NothingLeaks'
  BY <1>1, Emptied DEF NothingLeaks
<1>13. PicksTaken'
  BY <1>1 DEF IInv, PicksTaken
<1> QED
  BY <1>3, <1>4, <1>6, <1>7, <1>8, <1>9, <1>10, <1>11, <1>12, <1>13 DEF IInv

-----------------------------------------------------------------------------
(* The invariant holds at the start and is kept by every step.               *)
LEMMA IInvInit == ASSUME Init PROVE IInv
<1>1. /\ active = NoProject /\ candidates = NoCandidates
      /\ firing = NoNode /\ pending = {} /\ nextCandidate = 1
      /\ store = EmptyStore /\ pinned = {} /\ nextFrame = 1 /\ offered = {}
      /\ sink = EmptySink /\ tier = 1 /\ minted = 1
      /\ documents = [p \in Projects |-> NoDocument]
      /\ picks = [p \in Projects |-> [n \in Nodes |-> NoPick]]
      /\ durable = [documents |-> documents, picks |-> picks]
      /\ taken = 0 /\ behind = FALSE /\ stranded = {} /\ unstepped = FALSE
  BY DEF Init
<1>2. Everywhere(NoCandidates) = {} /\ NoCandidates \in [Nodes -> SUBSET Candidate]
  BY DEF Everywhere, NoCandidates
<1>3. TypeOK
  <2>1. MaxShots \in Nat /\ FrameCount \in Nat \ {0} /\ MaxGeneration \in Nat \ {0}
    BY CaptureAssumption
  <2>2. NoPick \in Pick
    BY <2>1 DEF NoPick, Pick
  <2>3. documents \in Documents /\ picks \in Picks
    BY <1>1, <2>2 DEF Documents, Picks
  <2>4. IsFiniteSet({}) /\ Cardinality({}) = 0
    BY FS_EmptySet
  <2>5. 1 \in 1..(0 + 1) /\ 0 \in 0..MaxShots /\ 1 \in 1..MaxGeneration /\ 0 < FrameCount
    BY <2>1
  <2>6. durable \in [documents : Documents, picks : Picks]
    BY <1>1, <2>3
  <2>7. EmptyStore \in Store /\ (\A f \in EmptyStore.cold : ~InHeap(EmptyStore, f))
        /\ EmptySink \in Copies
    BY Emptied DEF Sorted
  <2>8. /\ active \in Projects \cup {NoProject} /\ candidates \in [Nodes -> SUBSET Candidate]
        /\ firing \in Nodes \cup {NoNode} /\ pending \subseteq Candidate
        /\ offered \subseteq Frame /\ pinned \subseteq Frame
    BY <1>1, <1>2
  <2>9. behind \in BOOLEAN /\ ~behind /\ stranded \subseteq Frame /\ unstepped \in BOOLEAN
    BY <1>1
  <2> QED
    BY <1>1, <2>3, <2>4, <2>5, <2>6, <2>7, <2>8, <2>9 DEF TypeOK
<1>4. \A p \in Projects : documents[p] = NoDocument /\ durable.documents[p] = NoDocument
  BY <1>1
<1>5. Generations /\ OneCapture /\ DocumentInStep /\ Adopted /\ AllCounted
  BY <1>1, <1>4, MarkersAssumption DEF Adopted, Generations, OneCapture, DocumentInStep, AllCounted, InTier
<1>6. IdentitiesUnique /\ NothingLeaks
  BY <1>1, <1>2, Emptied DEF IdentitiesUnique, NothingLeaks
<1>7. AllFine /\ Firing /\ Callers
  BY <1>1, <1>2, <1>4 DEF AllFine, All, Firing, Callers, InTier
<1>8. PicksTaken
  BY <1>1 DEF PicksTaken, NoPick
<1> QED
  BY <1>3, <1>5, <1>6, <1>7, <1>8 DEF IInv

(* Every step keeps the inductive invariant, one lemma per call. *)
LEMMA IInvStep == ASSUME IInv, [Next]_vars PROVE IInv'
<1>1. ASSUME NEW p \in Projects, Begin(p) \/ Resume(p) \/ ResumeRefused(p) \/ HoldFrame(p) \/ Flush(p)
      PROVE  IInv'
  BY <1>1, BeginKeeps, ResumeKeeps, ResumeRefusedKeeps, HoldFrameKeeps, FlushKeeps
<1>2. ASSUME NEW n \in Nodes,
             ArmBurst(n) \/ OfferFrame(n) \/ OfferRefused(n) \/ Retake(n) \/ SetSelection(n)
      PROVE  IInv'
  <2>1. CASE ArmBurst(n) \/ OfferRefused(n) \/ Retake(n)
    BY <2>1, ArmBurstIs, OfferRefusedIs, RetakeIs, SessionKeeps
  <2>2. CASE OfferFrame(n)
    BY <2>2, OfferFrameIs, SessionKeeps
  <2>3. CASE SetSelection(n)
    BY <2>3, SetSelectionKeeps
  <2> QED
    BY <1>2, <2>1, <2>2, <2>3
<1>3. CASE AdvanceBurst
  BY <1>3, DropBurstIs, DropBurstAfterFrameIs, TakeFrameIs, FillCellIs, SessionKeeps
     DEF AdvanceBurst
<1>4. CASE BeginUntracked \/ LetGo \/ Crash
  BY <1>4, BeginUntrackedKeeps, LetGoKeeps, CrashKeeps
<1>5. CASE End
  BY <1>5, EndIs, SessionKeeps
<1>6. CASE UNCHANGED vars
  <2>1. UNCHANGED <<session, nextFrame, offered, sink, tier, minted, disk, ghosts, taken>>
        /\ UNCHANGED <<store, pinned>>
    BY <1>6 DEF vars, frames
  <2>2. \A f : PixelsOf(f)' = PixelsOf(f)
    BY <2>1 DEF PixelsOf, InHeap
  <2> QED
    BY <2>1, <2>2, Before, MovedKeeps
<1> QED
  BY <1>1, <1>2, <1>3, <1>4, <1>5, <1>6 DEF Next

(* The inductive invariant holds in every reachable state. *)
LEMMA Inductive == Spec => []IInv
BY IInvInit, IInvStep, PTL DEF Spec

(* However sessions, refusals, crashes and lost tiers come, every variable   *)
(* stays in its type, a frame is in the heap or spilled and held only in the *)
(* heap, and no counter is ahead of the exposures made.                      *)
THEOREM TypesHold == Spec => []TypeOK
<1>1. IInv => TypeOK
  BY DEF IInv
<1> QED
  BY Inductive, <1>1, PTL

(* No candidate ever shows another's pixels: not in the session, and not in  *)
(* a document that is read back, however late it was written and whatever    *)
(* the tier refused or lost (CaptureSessionManager's Resume and Cool over    *)
(* the store's Adopt and the sink's token).                                  *)
THEOREM EachShowsItsOwn == Spec => []OwnPixels
<1>1. IInv => OwnPixels
  BY DEF IInv, AllFine, OwnPixels, All, Fine, Safe, Took
<1> QED
  BY Inductive, <1>1, PTL

(* No two candidates of a session share an identity or a frame, also across  *)
(* a resume, and neither counter is behind what was issued (next_candidate_  *)
(* and the store's next_id_).                                                *)
THEOREM IssuedOnce == Spec => []IdentitiesUnique
<1>1. IInv => IdentitiesUnique
  BY DEF IInv
<1> QED
  BY Inductive, <1>1, PTL

(* The document of the session in progress is of this tier and names what    *)
(* the session took and kept, after every call whose checkpoint landed.      *)
(* After one that wrote nothing it is an earlier document, and where it is   *)
(* of this tier its counter is not ahead of the session's and it gives no    *)
(* candidate's identity or frame to another (Checkpoint).                    *)
THEOREM WrittenAsItIs == Spec => []DocumentInStep
<1>1. IInv => DocumentInStep
  BY DEF IInv
<1> QED
  BY Inductive, <1>1, PTL

(* Whatever the store holds, somebody can name and so give back: no burst,   *)
(* trim, retake or refused resume leaves a frame behind.  Only a session     *)
(* whose checkpoint at its end wrote nothing does: what it kept and no       *)
(* document of the tier names (End).                                         *)
THEOREM NothingIsLeft == Spec => []NothingLeaks
<1>1. IInv => NothingLeaks
  BY DEF IInv
<1> QED
  BY Inductive, <1>1, PTL

-----------------------------------------------------------------------------
(* A pick keeps naming its exposure.  The session's calls first: what they   *)
(* issue is past every pick there is.                                        *)
LEMMA SessionPicks ==
  ASSUME PickIInv, NEW cells, NEW added, SessionStep(cells, added)
  PROVE  PicksHeld'
<1> USE DEF PickIInv
<1>1. /\ active # NoProject /\ active \in Projects /\ Made(added) /\ Left(cells, added)
      /\ tier' = tier /\ durable' = durable /\ picks' = picks /\ unstepped' = unstepped
  BY InSession DEF SessionStep
<1>2. /\ \A p \in Projects : p # active => documents'[p] = documents[p]
      /\ \/ documents'[active] = documents[active]
         \/ /\ InTier(active, documents'[active])
            /\ documents'[active].nextCandidate = nextCandidate'
      /\ InTier(active, documents'[active]) =>
           /\ \A c \in Took(documents'[active]) : c \in Past \cup added
           /\ \A n \in Nodes : documents'[active].candidates[n] \subseteq
                candidates[n] \cup cells[n] \cup
                (IF InTier(active, documents[active]) THEN documents[active].candidates[n] ELSE {})
  BY SessionWritten
<1>3. nextCandidate \in Nat /\ nextCandidate' \in Nat /\ nextCandidate <= nextCandidate'
      /\ \A c \in added : c.id = nextCandidate
  <2>1. taken' \in Nat /\ nextCandidate' \in 1..(taken' + 1)
    BY <1>1, MadeNew, CaptureAssumption
  <2> QED
    BY <1>1, <2>1, MadeNew, AheadOf
<1>4. \A p \in Projects, n \in Nodes : picks[p][n].id \in Nat /\ durable.picks[p][n].id \in Nat
  BY CaptureAssumption DEF IInv, TypeOK, Picks, Pick
<1>5. \A p \in Projects : InTier(p, documents[p])' => p = active
  BY <1>1, <1>2, InSession DEF InTier
<1>6. \A p \in Projects : InTier(p, durable.documents[p]) => p = active
  BY <1>1, InSession
<1>7. ASSUME ~unstepped PROVE PastPicks'
  <2>0. PastPicks
    BY <1>7 DEF PicksHeld
  <2>1. ASSUME NEW n \in Nodes
        PROVE  /\ picks[active][n].id < nextCandidate'
               /\ InTier(active, documents'[active]) =>
                    picks[active][n].id < documents'[active].nextCandidate
    <3>1. /\ picks[active][n].id < nextCandidate
          /\ InTier(active, documents[active]) =>
               picks[active][n].id < documents[active].nextCandidate
      BY <1>1, <2>0 DEF PastPicks
    <3>2. picks[active][n].id < nextCandidate'
      BY <1>1, <1>3, <1>4, <3>1
    <3> QED
      BY <1>2, <3>1, <3>2
  <2>2. ASSUME NEW p \in Projects, NEW n \in Nodes, durable.picks[p][n] # picks[p][n]
        PROVE  /\ durable.picks[p][n].id < nextCandidate'
               /\ InTier(active, documents'[active]) =>
                    durable.picks[p][n].id < documents'[active].nextCandidate
    <3>1. /\ durable.picks[p][n].id < nextCandidate
          /\ InTier(active, documents[active]) =>
               durable.picks[p][n].id < documents[active].nextCandidate
      BY <1>1, <2>0, <2>2 DEF PastPicks
    <3>2. durable.picks[p][n].id < nextCandidate'
      BY <1>3, <1>4, <3>1
    <3> QED
      BY <1>2, <3>1, <3>2
  <2>3. active' = active \/ active' = NoProject
    BY <1>1 DEF Left
  <2> QED
    BY <1>1, <1>5, <2>1, <2>2, <2>3 DEF PastPicks, InTier
<1>8. ASSUME ~unstepped, NEW n \in Nodes, NEW pick \in Picked(active, n)
      PROVE  pick.id < nextCandidate
  <2>1. picks[active][n].id < nextCandidate
    BY <1>1, <1>8 DEF PicksHeld, PastPicks
  <2>2. durable.picks[active][n] = picks[active][n] \/ durable.picks[active][n].id < nextCandidate
    BY <1>1, <1>8 DEF PicksHeld, PastPicks
  <2> QED
    BY <2>1, <2>2 DEF Picked
<1>9. \A c \in Everywhere(cells) \cup pending' : c \in Past \cup added
  BY StillUnique
<1>10. OneEach'
  <2>1. ASSUME InTier(active, durable.documents[active]),
               NEW c \in Took(durable.documents[active]),
               NEW d \in Past \cup added, c.id = d.id
        PROVE  c = d
    <3>1. CASE d \in All
      BY <1>1, <2>1, <3>1 DEF PicksHeld, OneEach
    <3>2. CASE d \in Noted
      BY <1>1, <2>1, <3>2 DEF PicksHeld, OneEach, Noted
    <3>3. CASE d \in added
      <4>1. /\ c.id < durable.documents[active].nextCandidate
            /\ durable.documents[active].nextCandidate <= documents[active].nextCandidate
            /\ InTier(active, documents[active])
            /\ documents[active].nextCandidate <= nextCandidate
        BY <1>1, <2>1, InSession
      <4>2. durable.documents[active] \in Document /\ documents[active] \in Document
        BY <1>1, <2>1, <4>1 DEF IInv, TypeOK, Documents, InTier
      <4>3. c.id \in Nat /\ durable.documents[active].nextCandidate \in Nat
            /\ documents[active].nextCandidate \in Nat
        BY <4>2, CaptureAssumption DEF Document, Took, Everywhere, Candidate
      <4> QED
        BY <1>3, <2>1, <3>3, <4>1, <4>3
    <3> QED
      BY <2>1, <3>1, <3>2, <3>3 DEF Past
  <2>2. InTier(active, documents'[active]) \/ ~InTier(active, durable.documents[active])
    BY <1>1, InSession, SessionWritten
  <2>3. \A c : InTier(active, documents'[active]) /\ c \in Took(documents'[active]) =>
          c \in Past \cup added
    BY <1>2
  <2>4. All' \subseteq Past \cup added
    BY <1>1, <1>9, Idle DEF Left, All
  <2> QED
    BY <1>1, <1>6, <2>1, <2>2, <2>3, <2>4 DEF OneEach, InTier, Took
<1>11. ASSUME ~unstepped PROVE PicksStay'
  <2>0. PicksStay
    BY <1>11 DEF PicksHeld
  <2>1. ASSUME NEW n \in Nodes, NEW c \in Shown(active, n) \cup added,
               NEW pick \in Picked(active, n), c.id = pick.id
        PROVE  c.shot = pick.shot
    <3>1. CASE c \in Shown(active, n)
      BY <1>1, <2>0, <2>1, <3>1 DEF PicksStay
    <3>2. CASE c \in added
      <4>1. pick.id < nextCandidate
        BY <1>8, <1>11
      <4> QED
        BY <1>3, <2>1, <3>2, <4>1
    <3> QED
      BY <3>1, <3>2
  <2>2. \A n \in Nodes :
          /\ candidates[n] \cup pending \subseteq Shown(active, n)
          /\ cells[n] \subseteq candidates[n] \cup pending \cup added
          /\ pending' \subseteq pending \cup added
          /\ InTier(active, documents[active]) =>
               documents[active].candidates[n] \subseteq Shown(active, n)
          /\ InTier(active, durable.documents[active]) =>
               durable.documents[active].candidates[n] \subseteq Shown(active, n)
    BY <1>1 DEF Shown, Left
  <2>3. ASSUME NEW p \in Projects, NEW n \in Nodes, NEW c \in Shown(p, n)'
        PROVE  p = active /\ c \in Shown(active, n) \cup added
    <3>1. CASE active' = p /\ c \in candidates'[n] \cup pending'
      <4>1. active' = active /\ candidates' = cells
        BY <1>1, <3>1, MarkersAssumption DEF Left
      <4> QED
        BY <2>2, <3>1, <4>1
    <3>2. CASE InTier(p, documents[p])' /\ c \in documents'[p].candidates[n]
      <4>1. p = active /\ InTier(active, documents'[active])
        BY <1>1, <1>5, <3>2 DEF InTier
      <4>2. c \in candidates[n] \cup cells[n] \cup
              (IF InTier(active, documents[active]) THEN documents[active].candidates[n] ELSE {})
        BY <1>2, <3>2, <4>1
      <4> QED
        BY <2>2, <4>1, <4>2
    <3>3. CASE InTier(p, durable.documents[p])' /\ c \in durable'.documents[p].candidates[n]
      <4>1. InTier(p, durable.documents[p]) /\ p = active
        BY <1>1, <1>6, <3>3 DEF InTier
      <4> QED
        BY <1>1, <2>2, <3>3, <4>1
    <3> QED
      BY <2>3, <3>1, <3>2, <3>3 DEF Shown
  <2>4. \A p \in Projects, n \in Nodes : Picked(p, n)' = Picked(p, n)
    BY <1>1 DEF Picked
  <2> QED
    BY <2>1, <2>3, <2>4 DEF PicksStay
<1> QED
  BY <1>1, <1>7, <1>10, <1>11 DEF PicksHeld

(* A new session starts past the picks of its project, and nothing durable   *)
(* is of its tier yet.                                                       *)
LEMMA BeginPicks ==
  ASSUME PickIInv, NEW project \in Projects, Begin(project)
  PROVE  PicksHeld'
<1> USE DEF PickIInv
<1>1. /\ active = NoProject /\ active' = project /\ candidates' = NoCandidates
      /\ tier' = minted + 1 /\ UNCHANGED <<pending, picks, durable, taken, unstepped>>
      /\ pending = {} /\ taken \in Nat
      /\ nextCandidate' \in 1..(taken + 1) /\ nextCandidate <= nextCandidate'
      /\ nextCandidate \in 1..(taken + 1)
      /\ \A n \in Nodes : picks[project][n].id < nextCandidate'
      /\ \/ documents'[project] = documents[project]
         \/ /\ documents'[project].nextCandidate = nextCandidate'
            /\ \A n \in Nodes : documents'[project].candidates[n] = {}
      /\ \A p \in Projects : p # project => documents'[p] = documents[p]
  BY BeginIs, CaptureAssumption DEF IInv, TypeOK
<1>2. \A p \in Projects : InTier(p, documents[p])' =>
        /\ p = project /\ documents'[p].nextCandidate = nextCandidate'
        /\ \A n \in Nodes : documents'[p].candidates[n] = {}
  BY <1>1, Idle DEF InTier
<1>3. \A p \in Projects : ~InTier(p, durable.documents[p])'
  BY <1>1, Idle DEF InTier
<1>4. \A p \in Projects, n \in Nodes : durable.picks[p][n].id \in Nat
  BY CaptureAssumption DEF IInv, TypeOK, Picks, Pick
<1>5. ASSUME ~unstepped PROVE PastPicks'
  <2>1. ASSUME NEW p \in Projects, NEW n \in Nodes, durable.picks[p][n] # picks[p][n]
        PROVE  durable.picks[p][n].id < nextCandidate'
    <3>1. durable.picks[p][n].id < nextCandidate
      BY <1>5, <2>1 DEF PicksHeld, PastPicks
    <3> QED
      BY <1>1, <1>4, <3>1
  <2> QED
    BY <1>1, <1>2, <2>1 DEF PastPicks
<1>6. OneEach'
  BY <1>3 DEF OneEach
<1>7. PicksStay'
  <2>1. \A p \in Projects, n \in Nodes : Shown(p, n)' = {}
    BY <1>1, <1>2, <1>3 DEF Shown, NoCandidates
  <2> QED
    BY <2>1 DEF PicksStay
<1> QED
  BY <1>1, <1>5, <1>6, <1>7 DEF PicksHeld

(* In a tier of no document there is nothing a pick could name. *)
LEMMA BeginUntrackedPicks ==
  ASSUME PickIInv, BeginUntracked
  PROVE  PicksHeld'
<1> USE DEF PickIInv
<1>1. /\ active = NoProject /\ active' = NoProject
      /\ tier' = minted + 1 /\ UNCHANGED <<nextCandidate, documents, picks, durable, unstepped>>
  BY DEF BeginUntracked, CanBegin, session, disk
<1>2. \A p \in Projects : ~InTier(p, documents[p])' /\ ~InTier(p, durable.documents[p])'
  BY <1>1, Idle DEF InTier
<1>3. ASSUME ~unstepped PROVE PastPicks'
  BY <1>1, <1>2, <1>3, MarkersAssumption DEF PicksHeld, PastPicks
<1>4. OneEach'
  BY <1>2 DEF OneEach
<1>5. \A p \in Projects, n \in Nodes : Shown(p, n)' = {}
  BY <1>1, <1>2, MarkersAssumption DEF Shown
<1> QED
  BY <1>1, <1>3, <1>4, <1>5 DEF PicksHeld, PicksStay

(* A session that is taken up is its document, with a counter past the       *)
(* picks.                                                                    *)
LEMMA ResumePicks ==
  ASSUME PickIInv, NEW project \in Projects, Resume(project)
  PROVE  PicksHeld'
<1> USE DEF PickIInv
<1> DEFINE old == documents[project]
<1>1. /\ active = NoProject /\ active' = project
      /\ InTier(project, old)
      /\ candidates' = old.candidates
      /\ UNCHANGED <<pending, tier, picks, durable, taken>>
      /\ unstepped' = (unstepped \/ behind') /\ behind' \in BOOLEAN
      /\ pending = {} /\ taken \in Nat
      /\ nextCandidate' \in 1..(taken + 1) /\ old.nextCandidate \in 1..(taken + 1)
      /\ old.nextCandidate <= nextCandidate'
      /\ \A n \in Nodes : picks[project][n].id < nextCandidate'
      /\ ~behind' => documents'[project].nextCandidate = nextCandidate'
      /\ \A n \in Nodes : documents'[project].candidates[n] = candidates'[n]
      /\ Took(documents'[project]) = Took(old)
      /\ \A p \in Projects : p # project => documents'[p] = documents[p]
  BY ResumeIs
<1>2. \A p \in Projects : InTier(p, documents[p])' => p = project
  BY <1>1 DEF IInv, OneCapture, InTier
<1>3. \A p \in Projects : InTier(p, durable.documents[p])' <=> InTier(p, durable.documents[p])
  BY <1>1 DEF InTier
<1>4. \A p \in Projects, n \in Nodes : durable.picks[p][n].id \in Nat
  BY CaptureAssumption DEF IInv, TypeOK, Picks, Pick
<1>5. ASSUME ~unstepped' PROVE PastPicks'
  <2>1. ASSUME NEW p \in Projects, NEW n \in Nodes, durable.picks[p][n] # picks[p][n]
        PROVE  durable.picks[p][n].id < nextCandidate'
    <3>1. durable.picks[p][n].id < old.nextCandidate
      BY <1>1, <1>5, <2>1 DEF PicksHeld, PastPicks
    <3> QED
      BY <1>1, <1>4, <3>1
  <2> QED
    BY <1>1, <1>2, <1>5, <2>1 DEF PastPicks
<1>6. OneEach'
  <2>1. All' = Took(old)
    BY <1>1 DEF All, Took
  <2>2. \A p \in Projects : InTier(p, durable.documents[p]) => p = project
    BY <1>1 DEF IInv, OneCapture
  <2> QED
    BY <1>1, <1>3, <2>1, <2>2 DEF PicksHeld, OneEach, Took
<1>7. ASSUME ~unstepped PROVE PicksStay'
  <2>1. \A p \in Projects, n \in Nodes : Shown(p, n)' \subseteq Shown(p, n)
    BY <1>1, <1>2, <1>3 DEF Shown
  <2>2. \A p \in Projects, n \in Nodes : Picked(p, n)' = Picked(p, n)
    BY <1>1 DEF Picked
  <2> QED
    BY <1>7, <2>1, <2>2 DEF PicksHeld, PicksStay
<1> QED
  BY <1>1, <1>5, <1>6, <1>7 DEF PicksHeld

(* The pick made is of a candidate on show, and no other bears its identity. *)
LEMMA SetSelectionPicks ==
  ASSUME PickIInv, NEW node \in Nodes, SetSelection(node)
  PROVE  PicksHeld'
<1> USE DEF PickIInv
<1>1. /\ active # NoProject /\ active \in Projects
      /\ UNCHANGED <<active, candidates, pending, nextCandidate, tier, documents, durable, unstepped>>
      /\ \A p \in Projects, n \in Nodes :
           (p = active /\ n = node) \/ picks'[p][n] = picks[p][n]
  BY SetSelectionIs
<1>2. PICK c \in candidates[node] :
        /\ c \in Candidate /\ c.id < documents[active].nextCandidate
        /\ picks'[active][node] = [id |-> c.id, shot |-> c.shot]
  BY SetSelectionIs
<1>3. picks'[active][node].id = c.id /\ picks'[active][node].shot = c.shot
  BY <1>2
<1>4. c \in All /\ c \in Everywhere(candidates)
  BY DEF All, Everywhere
<1>5. ASSUME ~unstepped PROVE PastPicks'
  <2>0. PastPicks
    BY <1>5 DEF PicksHeld
  <2>1. c.id < nextCandidate
    BY <1>4 DEF IInv, IdentitiesUnique
  <2>2. \A n \in Nodes :
          /\ picks'[active][n].id < nextCandidate
          /\ InTier(active, documents[active]) => picks'[active][n].id < documents[active].nextCandidate
    BY <1>1, <1>2, <1>3, <2>0, <2>1 DEF PastPicks
  <2>3. ASSUME NEW p \in Projects, NEW n \in Nodes, durable.picks[p][n] # picks'[p][n]
        PROVE  /\ durable.picks[p][n].id < nextCandidate
               /\ InTier(active, documents[active]) =>
                    durable.picks[p][n].id < documents[active].nextCandidate
    <3>1. CASE durable.picks[p][n] # picks[p][n]
      BY <1>1, <2>0, <3>1 DEF PastPicks
    <3>2. CASE durable.picks[p][n] = picks[p][n]
      <4>1. p = active
        BY <1>1, <2>3, <3>2
      <4> QED
        BY <1>1, <2>0, <3>2, <4>1 DEF PastPicks
    <3> QED
      BY <3>1, <3>2
  <2>4. \A p \in Projects : InTier(p, documents[p]) => p = active
    BY <1>1, InSession
  <2> QED
    BY <1>1, <2>2, <2>3, <2>4 DEF PastPicks, InTier
<1>6. OneEach'
  BY <1>1 DEF PicksHeld, OneEach, InTier, All, Took
<1>7. ASSUME ~unstepped PROVE PicksStay'
  <2>1. \A p \in Projects, n \in Nodes : Shown(p, n)' = Shown(p, n)
    BY <1>1 DEF Shown, InTier
  <2>2. ASSUME NEW d \in Shown(active, node), d.id = c.id PROVE d = c
    <3>1. CASE d \in candidates[node] \cup pending
      <4>1. d \in All
        BY <3>1 DEF All, Everywhere
      <4> QED
        BY <1>4, <2>2, <4>1 DEF IInv, IdentitiesUnique, All
    <3>2. CASE InTier(active, documents[active]) /\ d \in documents[active].candidates[node]
      <4>1. d \in Took(documents[active])
        BY <3>2 DEF Took, Everywhere
      <4> QED
        BY <1>1, <1>4, <2>2, <3>2, <4>1 DEF IInv, DocumentInStep, Took
    <3>3. CASE InTier(active, durable.documents[active])
               /\ d \in durable.documents[active].candidates[node]
      <4>1. d \in Took(durable.documents[active])
        BY <3>3 DEF Took, Everywhere
      <4> QED
        BY <1>1, <1>4, <2>2, <3>3, <4>1 DEF PicksHeld, OneEach
    <3> QED
      BY <2>2, <3>1, <3>2, <3>3 DEF Shown
  <2>3. \A p \in Projects, n \in Nodes : \A pick \in Picked(p, n)' :
          \/ pick \in Picked(p, n)
          \/ p = active /\ n = node /\ pick = picks'[active][node]
    BY <1>1 DEF Picked
  <2> QED
    BY <1>3, <1>7, <2>1, <2>2, <2>3 DEF PicksHeld, PicksStay
<1> QED
  BY <1>1, <1>5, <1>6, <1>7 DEF PicksHeld

(* What becomes durable was so in memory. *)
LEMMA FlushPicks ==
  ASSUME PickIInv, NEW project \in Projects, Flush(project)
  PROVE  PicksHeld'
<1> USE DEF PickIInv
<1>1. /\ UNCHANGED <<active, candidates, pending, nextCandidate, tier, documents, picks, unstepped>>
      /\ \A p \in Projects : \/ durable'.documents[p] = durable.documents[p]
                             \/ durable'.documents[p] = documents[p]
      /\ \A p \in Projects, n \in Nodes : \/ durable'.picks[p][n] = durable.picks[p][n]
                                          \/ durable'.picks[p][n] = picks[p][n]
  BY FlushIs
<1>2. ASSUME ~unstepped PROVE PastPicks'
  BY <1>1, <1>2 DEF PicksHeld, PastPicks, InTier
<1>3. OneEach'
  <2>1. ASSUME NEW p \in Projects, InTier(p, documents[p]),
               NEW c \in Took(documents[p]),
               NEW d \in Took(documents[p]) \cup (IF active = p THEN All ELSE {}), c.id = d.id
        PROVE  c = d
    <3>1. CASE d \in Took(documents[p])
      BY <2>1, <3>1 DEF IInv, AllCounted, Counted
    <3>2. CASE active = p /\ d \in All
      <4>1. active # NoProject
        BY <3>2, MarkersAssumption
      <4> QED
        BY <2>1, <3>2, <4>1 DEF IInv, DocumentInStep, All, Took
    <3> QED
      BY <2>1, <3>1, <3>2
  <2>2. ASSUME NEW p \in Projects, InTier(p, durable'.documents[p]),
               NEW c \in Took(durable'.documents[p]),
               NEW d \in Took(documents[p]) \cup (IF active = p THEN All ELSE {}), c.id = d.id
        PROVE  c = d
    <3>1. CASE durable'.documents[p] = durable.documents[p]
      BY <2>2, <3>1 DEF PicksHeld, OneEach
    <3>2. CASE durable'.documents[p] = documents[p]
      BY <2>1, <2>2, <3>2
    <3> QED
      BY <1>1, <3>1, <3>2
  <2> QED
    BY <1>1, <2>2 DEF OneEach, InTier, All, Took
<1>4. ASSUME ~unstepped PROVE PicksStay'
  <2>1. \A p \in Projects, n \in Nodes : Shown(p, n)' \subseteq Shown(p, n)
    BY <1>1 DEF Shown, InTier
  <2>2. \A p \in Projects, n \in Nodes : Picked(p, n)' \subseteq Picked(p, n)
    BY <1>1 DEF Picked
  <2> QED
    BY <1>4, <2>1, <2>2 DEF PicksHeld, PicksStay
<1> QED
  BY <1>1, <1>2, <1>3, <1>4 DEF PicksHeld

(* What the next process reads is what was durable. *)
LEMMA CrashPicks ==
  ASSUME PickIInv, Crash
  PROVE  PicksHeld'
<1> USE DEF PickIInv
<1>1. /\ active' = NoProject /\ documents' = durable.documents /\ picks' = durable.picks
      /\ durable' = durable /\ unstepped' = unstepped
      /\ \A p \in Projects : InTier(p, durable.documents[p])' => InTier(p, durable.documents[p])
  BY CrashIs
<1>2. PastPicks'
  BY <1>1, MarkersAssumption DEF PastPicks
<1>3. OneEach'
  <2>1. \A p \in Projects : InTier(p, durable.documents[p]) => Counted(durable.documents[p])
    BY DEF IInv, AllCounted
  <2> QED
    BY <1>1, <2>1, MarkersAssumption DEF OneEach, InTier, Counted, Took
<1>4. ASSUME ~unstepped PROVE PicksStay'
  <2>1. \A p \in Projects, n \in Nodes : Shown(p, n)' \subseteq Shown(p, n)
    BY <1>1, MarkersAssumption DEF Shown, InTier
  <2>2. \A p \in Projects, n \in Nodes : Picked(p, n)' \subseteq Picked(p, n)
    BY <1>1 DEF Picked
  <2> QED
    BY <1>4, <2>1, <2>2 DEF PicksHeld, PicksStay
<1> QED
  BY <1>1, <1>2, <1>3, <1>4 DEF PicksHeld

(* And a call that changes only where frames are changes no pick. *)
LEMMA OtherPicks ==
  ASSUME PickIInv, UNCHANGED <<session, tier, disk, ghosts>>
  PROVE  PicksHeld'
<1>1. UNCHANGED <<active, candidates, pending, nextCandidate, tier, documents, picks, durable,
                  unstepped>>
  BY DEF session, disk, ghosts
<1> QED
  BY <1>1 DEF PickIInv, PicksHeld, PastPicks, OneEach, PicksStay, Shown, Picked, InTier, All, Took

(* Every step keeps the picks behind the counters. *)
LEMMA PickIInvStep == ASSUME PickIInv, [Next]_vars PROVE PickIInv'
<1>0. IInv /\ IInv'
  BY IInvStep DEF PickIInv
<1> SUFFICES PicksHeld'
  BY <1>0 DEF PickIInv
<1>1. ASSUME NEW p \in Projects, Begin(p) \/ Resume(p) \/ ResumeRefused(p) \/ HoldFrame(p) \/ Flush(p)
      PROVE  PicksHeld'
  <2>1. CASE ResumeRefused(p) \/ HoldFrame(p)
    BY <2>1, OtherPicks DEF ResumeRefused, HoldFrame
  <2> QED
    BY <1>1, <2>1, BeginPicks, ResumePicks, FlushPicks
<1>2. ASSUME NEW n \in Nodes,
             ArmBurst(n) \/ OfferFrame(n) \/ OfferRefused(n) \/ Retake(n) \/ SetSelection(n)
      PROVE  PicksHeld'
  <2>1. CASE ArmBurst(n) \/ OfferRefused(n) \/ Retake(n)
    BY <1>0, <2>1, ArmBurstIs, OfferRefusedIs, RetakeIs, SessionPicks
  <2>2. CASE OfferFrame(n)
    BY <1>0, <2>2, OfferFrameIs, SessionPicks
  <2>3. CASE SetSelection(n)
    BY <2>3, SetSelectionPicks
  <2> QED
    BY <1>2, <2>1, <2>2, <2>3
<1>3. CASE AdvanceBurst
  BY <1>0, <1>3, DropBurstIs, DropBurstAfterFrameIs, TakeFrameIs, FillCellIs, SessionPicks
     DEF AdvanceBurst
<1>4. CASE BeginUntracked \/ Crash
  BY <1>4, BeginUntrackedPicks, CrashPicks
<1>5. CASE LetGo
  BY <1>5, OtherPicks DEF LetGo
<1>6. CASE End
  BY <1>0, <1>6, EndIs, SessionPicks
<1>7. CASE UNCHANGED vars
  BY <1>7, OtherPicks DEF vars, frames
<1> QED
  BY <1>1, <1>2, <1>3, <1>4, <1>5, <1>6, <1>7 DEF Next

(* Nothing is picked at first. *)
LEMMA PickIInvInit == ASSUME Init PROVE PickIInv
<1>1. IInv
  BY IInvInit
<1>2. /\ active = NoProject
      /\ \A p \in Projects : documents[p] = NoDocument /\ durable.documents[p] = NoDocument
      /\ \A p \in Projects, n \in Nodes : durable.picks[p][n] = picks[p][n]
  BY DEF Init
<1>3. PastPicks /\ OneEach
  BY <1>2, MarkersAssumption DEF PastPicks, OneEach, InTier
<1>4. PicksStay
  BY <1>2, MarkersAssumption DEF PicksStay, Shown, InTier
<1> QED
  BY <1>1, <1>3, <1>4 DEF PickIInv, PicksHeld

(* A pick keeps naming the exposure it was made of, in whatever capture of   *)
(* the project follows and whichever of its documents is read back: no other *)
(* candidate comes to bear its identity (PastEveryPick in Begin and Resume,  *)
(* and SetSelection's wait for the checkpoint), unless the counter that a    *)
(* resume stepped past a pick was never written down.                        *)
THEOREM PicksHold == Spec => []PickNeverMoves
<1>1. PickIInv => PickNeverMoves
  BY DEF PickIInv, PicksHeld, PicksStay, PickNeverMoves, PickAlwaysNames, Shown, Picked
<1> QED
  BY PickIInvInit, PickIInvStep, <1>1, PTL DEF Spec
=============================================================================
