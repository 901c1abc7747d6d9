--------------------------- MODULE CaptureSession ---------------------------
(***************************************************************************)
(* CaptureSessionManager over what it shares with the rest of the app: the *)
(* frame store, the spill tier behind it, and the documents of a project,  *)
(* which become durable some time after they are written.                  *)
(*                                                                         *)
(* Every call of the manager is synchronous, so it is one action.  The tab *)
(* can be killed between any two; the next process finds the tier as it    *)
(* was (or lost, under a new token: SpillSink) and whichever documents had *)
(* been flushed by then.  The store is FrameStore with sizes, tiers of the *)
(* heap and hashes left out.                                               *)
(*                                                                         *)
(* A candidate carries the exposure it is of ("shot"), which the code does *)
(* not know; it is what the properties compare a frame's pixels with.      *)
(* Guidance, the dwell and burst timing are Aiming's and the camera's      *)
(* locks CameraPath's, so a tick of a burst may here at any time be due,   *)
(* fail, or find the camera off its cell.                                  *)
(***************************************************************************)
EXTENDS Naturals, FiniteSetsExt

CONSTANTS
  Projects, Nodes,
  FrameCount,     \* frames a burst takes
  MaxPerCell,     \* kMostCandidatesPerCell
  MaxShots,       \* bound: exposures
  MaxGeneration,  \* bound: tokens of the tier
  MaxCrashes,     \* bound: processes after the first
  MaxOffered,     \* bound: frames of callers the store holds
  MaxHeld,        \* bound: frames somebody else holds at once
  NoProject, NoNode, NoDocument, NoPixels

ASSUME CaptureAssumption ==
  /\ FrameCount \in Nat \ {0} /\ MaxPerCell \in Nat \ {0}
  /\ MaxShots \in Nat /\ MaxGeneration \in Nat \ {0} /\ MaxCrashes \in Nat
  /\ MaxOffered \in Nat /\ MaxHeld \in Nat

VARIABLES
  active,         \* the project of the session in progress
  candidates,     \* candidates_: what each cell holds
  firing,         \* the cell a burst is armed at
  pending,        \* the burst's frames so far
  nextCandidate,  \* next_candidate_
  store,          \* the frame store of this process: heap and cold
  pinned,         \* frames somebody else holds: a build that kept a pin
  nextFrame,      \* the store's next_id_
  offered,        \* frames that are a caller's and not this manager's
  sink,           \* the tier's copies
  tier,           \* the tier's token
  documents,      \* the session document of each project, as this tab reads it
  picks,          \* the recorded pick of each cell, likewise
  durable,        \* the documents and picks a next process would load
  behind,         \* ghost: the last checkpoint of the session wrote nothing
  stranded,       \* ghost: frames a session kept whose last checkpoint wrote nothing
  unstepped,      \* ghost: a resume stepped past a pick and its checkpoint wrote nothing
  minted, taken, crashes   \* tokens minted, exposures made, processes ended

session == <<active, candidates, firing, pending, nextCandidate>>
frames == <<store, pinned, nextFrame, offered, sink, tier, minted>>
disk == <<documents, picks, durable>>
ghosts == <<behind, stranded, unstepped>>
vars == <<session, frames, disk, ghosts, taken, crashes>>

Frame == 1..MaxShots
Shot == 1..MaxShots
Candidate == [id : 1..(MaxShots + 1), frame : Frame, shot : Shot, ours : BOOLEAN]
Document == [generation : 1..MaxGeneration, nextCandidate : Nat,
             candidates : [Nodes -> SUBSET Candidate]]
NoPick == [id |-> 0, shot |-> 0]
Pick == [id : 0..MaxShots, shot : 0..MaxShots]

ASSUME MarkersAssumption ==
  /\ NoProject \notin Projects /\ NoNode \notin Nodes
  /\ NoDocument \notin Document /\ NoPixels \notin Shot

Copies == [Frame -> Shot \cup {NoPixels}]
Store == [heap : Copies, cold : SUBSET Frame]
Documents == [Projects -> Document \cup {NoDocument}]
Picks == [Projects -> [Nodes -> Pick]]

FramesOf(cell) == {c.frame : c \in cell}
Everywhere(cells) == UNION {cells[n] : n \in Nodes}
NoCandidates == [n \in Nodes |-> {}]
EmptyStore == [heap |-> [f \in Frame |-> NoPixels], cold |-> {}]
EmptySink == [f \in Frame |-> NoPixels]

InHeap(s, f) == s.heap[f] # NoPixels
Known(s, f) == InHeap(s, f) \/ f \in s.cold

Init ==
  /\ active = NoProject /\ candidates = NoCandidates
  /\ firing = NoNode /\ pending = {} /\ nextCandidate = 1
  /\ store = EmptyStore /\ pinned = {} /\ nextFrame = 1 /\ offered = {}
  /\ sink = EmptySink /\ tier = 1 /\ minted = 1
  /\ documents = [p \in Projects |-> NoDocument]
  /\ picks = [p \in Projects |-> [n \in Nodes |-> NoPick]]
  /\ durable = [documents |-> documents, picks |-> picks]
  /\ behind = FALSE /\ stranded = {} /\ unstepped = FALSE
  /\ taken = 0 /\ crashes = 0

-----------------------------------------------------------------------------
(* The frame store's calls, as the manager makes them.                      *)

(* Allocate and fill, by the camera's port or by whoever offers a frame. *)
WithFrame(s, f, shot) == [s EXCEPT !.heap[f] = shot]

Without(s, gone) ==
  [heap |-> [f \in Frame |-> IF f \in gone THEN NoPixels ELSE s.heap[f]],
   cold |-> s.cold \ gone]

(* Forget of the frames in gone takes the tier's copies with them. *)
SinkWithout(copies, gone) == [f \in Frame |-> IF f \in gone THEN NoPixels ELSE copies[f]]

(* Scoring and ranking pin what they look at, which faults it in. *)
Heated(s, cell) ==
  LET back == {f \in s.cold \cap FramesOf(cell) : sink[f] # NoPixels}
  IN  [heap |-> [f \in Frame |-> IF f \in back THEN sink[f] ELSE s.heap[f]],
       cold |-> s.cold \ back]

(* Cool: a frame of ours leaves the heap, unless somebody holds it or the   *)
(* tier refuses to write it, which costs the tier any earlier copy.         *)
Coolable(s, cell) ==
  {c.frame : c \in {d \in cell : d.ours /\ InHeap(s, d.frame) /\ d.frame \notin pinned}}

Refusable(s, copies, cell) == {f \in Coolable(s, cell) : copies[f] # s.heap[f]}

Cooled(s, cell, refused) ==
  LET down == Coolable(s, cell) \ refused
  IN  [heap |-> [f \in Frame |-> IF f \in down THEN NoPixels ELSE s.heap[f]],
       cold |-> s.cold \cup down]

SinkCooled(s, copies, cell, refused) ==
  [f \in Frame |-> IF f \in refused THEN NoPixels
                   ELSE IF f \in Coolable(s, cell) THEN s.heap[f] ELSE copies[f]]

(* Every call that ends in Cool ends in this, with s what it left so far. *)
StoreAfter(s, copies, cell) ==
  \E refused \in SUBSET Refusable(s, copies, cell) :
    /\ store' = Cooled(s, cell, refused)
    /\ sink' = SinkCooled(s, copies, cell, refused)

-----------------------------------------------------------------------------
(* What this session took, under the token of the tier it is in. *)
WriteDocument(project, generation, cells, next) ==
  documents' = [documents EXCEPT ![project] =
    [generation |-> generation, nextCandidate |-> next,
     candidates |-> [n \in Nodes |-> {c \in cells[n] : c.ours}]]]

(* Checkpoint: nothing is written when the tier cannot say which it is, and  *)
(* a refused write is nobody's: the earlier document stays.                  *)
Checkpoint(project, generation, cells, next) ==
  \/ WriteDocument(project, generation, cells, next) /\ behind' = FALSE
  \/ UNCHANGED documents /\ behind' = TRUE

(* Fault: the picks of earlier captures are not looked at. *)
PastNoPick(project, next) == next

(* No identity a recorded pick names is issued again. *)
PastEveryPick(project, next) == Max({next} \cup {picks[project][n].id + 1 : n \in Nodes})

(* Begin: the tier is emptied last, and the document replaced with it. *)
CanBegin == active = NoProject /\ pinned = {} /\ minted < MaxGeneration

Begin(project) ==
  /\ CanBegin
  /\ store' = EmptyStore /\ sink' = EmptySink
  /\ minted' = minted + 1 /\ tier' = minted'
  /\ active' = project
  /\ candidates' = NoCandidates
  /\ nextCandidate' = PastEveryPick(project, nextCandidate)
  /\ Checkpoint(project, tier', NoCandidates, nextCandidate')
  /\ offered' = {} /\ stranded' = {}
  /\ UNCHANGED <<firing, pending, pinned, nextFrame, picks, durable, unstepped, taken,
                 crashes>>

(* The one refusal after the tier was emptied: no pose to start from. *)
BeginUntracked ==
  /\ CanBegin
  /\ store' = EmptyStore /\ sink' = EmptySink
  /\ minted' = minted + 1 /\ tier' = minted'
  /\ offered' = {} /\ stranded' = {}
  /\ UNCHANGED <<session, pinned, nextFrame, disk, behind, unstepped, taken, crashes>>

(* Fault: whichever capture the tier holds is taken for the document's. *)
CanResumeAnyTier(project) == active = NoProject /\ documents[project] # NoDocument

(* Resume: a document of this very tier, every frame of it taken back. *)
CanResume(project) ==
  /\ active = NoProject
  /\ documents[project] # NoDocument
  /\ documents[project].generation = tier

InTier(project, document) == document # NoDocument /\ document.generation = tier
Named(project) == FramesOf(Everywhere(documents[project].candidates))
Adoptable(f) == ~InHeap(store, f)
(* Fault: the store would issue the identities it has just taken back. *)
NextFrameUnstepped(adopted) == nextFrame

NextFrameAfter(adopted) == Max({nextFrame} \cup {f + 1 : f \in adopted})

Resume(project) ==
  /\ CanResume(project)
  /\ \A f \in Named(project) : Adoptable(f)
  /\ store' = [store EXCEPT !.cold = @ \cup Named(project)]
  /\ nextFrame' = NextFrameAfter(Named(project))
  /\ active' = project
  /\ candidates' = documents[project].candidates
  /\ nextCandidate' = PastEveryPick(project, documents[project].nextCandidate)
  /\ IF nextCandidate' # documents[project].nextCandidate
     THEN Checkpoint(project, tier, candidates', nextCandidate')
     ELSE UNCHANGED documents /\ behind' = FALSE
  /\ unstepped' = (unstepped \/ behind')
  /\ UNCHANGED <<firing, pending, pinned, offered, sink, tier, minted, picks, durable,
                 stranded, taken, crashes>>

(* Refused while adopting, or by the camera after it: what was taken back stays. *)
ResumeRefused(project) ==
  /\ CanResume(project)
  /\ \E adopted \in SUBSET {f \in Named(project) : Adoptable(f)} :
       /\ store' = [store EXCEPT !.cold = @ \cup adopted]
       /\ nextFrame' = NextFrameAfter(adopted)
  /\ UNCHANGED <<session, pinned, offered, sink, tier, minted, disk, ghosts, taken, crashes>>

-----------------------------------------------------------------------------
ArmBurst(node) ==
  /\ active # NoProject /\ firing = NoNode
  /\ firing' = node
  /\ pending' = {}
  /\ UNCHANGED <<active, candidates, nextCandidate, frames, disk, ghosts, taken, crashes>>

(* Fault: the burst is given up and its frames are not. *)
DropBurstKeepingFrames ==
  /\ firing # NoNode
  /\ StoreAfter(store, sink, candidates[firing])
  /\ firing' = NoNode /\ pending' = {}
  /\ Checkpoint(active, tier, candidates, nextCandidate)
  /\ UNCHANGED <<active, candidates, nextCandidate, pinned, nextFrame, offered, tier, minted,
                 picks, durable, stranded, unstepped, taken, crashes>>

(* Disarm, rolling back: the burst's frames go, and the cell is cooled.  A   *)
(* tick that failed, found the camera elsewhere or got no frame, a retake    *)
(* of the cell, and End, all come to this.                                   *)
DropBurst ==
  /\ firing # NoNode
  /\ StoreAfter(Without(store, FramesOf(pending)), SinkWithout(sink, FramesOf(pending)),
                candidates[firing])
  /\ firing' = NoNode /\ pending' = {}
  /\ Checkpoint(active, tier, candidates, nextCandidate)
  /\ UNCHANGED <<active, candidates, nextCandidate, pinned, nextFrame, offered, tier, minted,
                 picks, durable, stranded, unstepped, taken, crashes>>

(* A frame was taken and could not be scored, or the burst not ranked. *)
DropBurstAfterFrame ==
  /\ firing # NoNode /\ taken < MaxShots
  /\ nextCandidate' = nextCandidate + 1 /\ nextFrame' = nextFrame + 1 /\ taken' = taken + 1
  /\ \E looked \in {store, Heated(store, candidates[firing])} :
       StoreAfter(Without(looked, FramesOf(pending)), SinkWithout(sink, FramesOf(pending)),
                  candidates[firing])
  /\ firing' = NoNode /\ pending' = {}
  /\ Checkpoint(active, tier, candidates, nextCandidate')
  /\ UNCHANGED <<active, candidates, pinned, offered, tier, minted, picks, durable, stranded,
                 unstepped, crashes>>

Taken(ours) == [id |-> nextCandidate, frame |-> nextFrame, shot |-> taken + 1, ours |-> ours]

(* A tick that takes a frame and leaves the burst short of its count. *)
TakeFrame ==
  /\ firing # NoNode /\ taken < MaxShots
  /\ Cardinality(pending) + 1 < FrameCount
  /\ pending' = pending \cup {Taken(TRUE)}
  /\ store' = WithFrame(Heated(store, candidates[firing]), nextFrame, taken + 1)
  /\ nextCandidate' = nextCandidate + 1 /\ nextFrame' = nextFrame + 1 /\ taken' = taken + 1
  /\ UNCHANGED <<active, candidates, firing, pinned, offered, sink, tier, minted, disk, ghosts,
                 crashes>>

(* Trim: past the first MaxPerCell of whatever order the ranking gave, what  *)
(* is ours is forgotten, unless somebody holds it.                           *)
Tails(cell) == kSubset(Max({0, Cardinality(cell) - MaxPerCell}), cell)
Trimmed(tail) == {c \in tail : c.ours /\ c.frame \notin pinned}

(* The tick that fills the burst: the cell takes it, ranked and trimmed. *)
FillCell ==
  /\ firing # NoNode /\ taken < MaxShots
  /\ Cardinality(pending) + 1 = FrameCount
  /\ LET cell == candidates[firing] \cup pending \cup {Taken(TRUE)}
         s == WithFrame(Heated(store, candidates[firing]), nextFrame, taken + 1)
     IN  \E tail \in Tails(cell) :
           LET gone == Trimmed(tail)
           IN  /\ candidates' = [candidates EXCEPT ![firing] = cell \ gone]
               /\ StoreAfter(Without(s, FramesOf(gone)), SinkWithout(sink, FramesOf(gone)),
                             cell \ gone)
  /\ nextCandidate' = nextCandidate + 1 /\ nextFrame' = nextFrame + 1 /\ taken' = taken + 1
  /\ firing' = NoNode /\ pending' = {}
  /\ Checkpoint(active, tier, candidates', nextCandidate')
  /\ UNCHANGED <<active, pinned, offered, tier, minted, picks, durable, stranded, unstepped,
                 crashes>>

(* AdvanceBurst, in whatever way the tick comes out. *)
AdvanceBurst == DropBurst \/ DropBurstAfterFrame \/ TakeFrame \/ FillCell

(* A frame of somebody else's joins a cell: ranked with it, never ours. *)
OfferFrame(node) ==
  /\ active # NoProject /\ taken < MaxShots /\ Cardinality(offered) < MaxOffered
  /\ LET cell == candidates[node] \cup {Taken(FALSE)}
         s == WithFrame(Heated(store, candidates[node]), nextFrame, taken + 1)
     IN  \E tail \in Tails(cell) :
           LET gone == Trimmed(tail)
           IN  /\ candidates' = [candidates EXCEPT ![node] = cell \ gone]
               /\ StoreAfter(Without(s, FramesOf(gone)), SinkWithout(sink, FramesOf(gone)),
                             cell \ gone)
  /\ offered' = offered \cup {nextFrame}
  /\ nextCandidate' = nextCandidate + 1 /\ nextFrame' = nextFrame + 1 /\ taken' = taken + 1
  /\ Checkpoint(active, tier, candidates', nextCandidate')
  /\ UNCHANGED <<active, firing, pending, pinned, tier, minted, picks, durable, stranded,
                 unstepped, crashes>>

(* Nobody could score or rank it: the frame stays its caller's. *)
OfferRefused(node) ==
  /\ active # NoProject /\ taken < MaxShots /\ Cardinality(offered) < MaxOffered
  /\ nextCandidate' = nextCandidate + 1 /\ nextFrame' = nextFrame + 1 /\ taken' = taken + 1
  /\ StoreAfter(WithFrame(Heated(store, candidates[node]), nextFrame, taken + 1), sink,
                candidates[node])
  /\ offered' = offered \cup {nextFrame}
  /\ UNCHANGED <<active, candidates, firing, pending, pinned, tier, minted, disk, ghosts,
                 crashes>>

(* Discard: what the store refuses to forget stays. *)
Discarded(node) == {c \in candidates[node] : c.frame \notin pinned}

(* Fault: a retake that discards a cell is not written down. *)
RetakeUnwritten(node) ==
  /\ active # NoProject /\ firing # node
  /\ LET gone == Discarded(node)
     IN  /\ candidates' = [candidates EXCEPT ![node] = @ \ gone]
         /\ store' = Without(store, FramesOf(gone))
         /\ sink' = SinkWithout(sink, FramesOf(gone))
  /\ UNCHANGED <<active, firing, pending, nextCandidate, pinned, nextFrame, offered, tier,
                 minted, disk, ghosts, taken, crashes>>

(* RequestRetake, replacing: a burst at the cell is dropped first, with a    *)
(* checkpoint of its own that may be the last to land.  Without replace it   *)
(* is DropBurst or nothing.                                                  *)
Retake(node) ==
  /\ active # NoProject
  /\ LET rolledBack == IF firing = node THEN FramesOf(pending) ELSE {}
         gone == Discarded(node)
         forgotten == rolledBack \cup FramesOf(gone)
     IN  /\ candidates' = [candidates EXCEPT ![node] = @ \ gone]
         /\ store' = Without(store, forgotten)
         /\ sink' = SinkWithout(sink, forgotten)
  /\ firing' = IF firing = node THEN NoNode ELSE firing
  /\ pending' = IF firing = node THEN {} ELSE pending
  /\ \/ Checkpoint(active, tier, candidates', nextCandidate)
     \/ /\ firing = node
        /\ WriteDocument(active, tier, candidates, nextCandidate) /\ behind' = TRUE
  /\ UNCHANGED <<active, nextCandidate, pinned, nextFrame, offered, tier, minted, picks,
                 durable, stranded, unstepped, taken, crashes>>

(* The frames no document of the tier names when a session ends unwritten. *)
Unnamed ==
  {c.frame : c \in {d \in Everywhere(candidates) : d.ours}} \
  (IF InTier(active, documents[active]) THEN Named(active) ELSE {})

End ==
  /\ active # NoProject
  /\ LET rolledBack == FramesOf(pending)
         cell == IF firing = NoNode THEN {} ELSE candidates[firing]
     IN  StoreAfter(Without(store, rolledBack), SinkWithout(sink, rolledBack), cell)
  /\ \/ WriteDocument(active, tier, candidates, nextCandidate) /\ UNCHANGED stranded
     \/ UNCHANGED documents /\ stranded' = stranded \cup Unnamed
  /\ active' = NoProject /\ candidates' = NoCandidates
  /\ firing' = NoNode /\ pending' = {} /\ behind' = FALSE
  /\ UNCHANGED <<nextCandidate, pinned, nextFrame, offered, tier, minted, picks, durable,
                 unstepped, taken, crashes>>

-----------------------------------------------------------------------------
(* SetSelection, from the strip of the session: a candidate on show that the *)
(* counter of the project's document, of whichever capture, is ahead of.     *)
SetSelection(node) ==
  /\ active # NoProject /\ documents[active] # NoDocument
  /\ \E c \in candidates[node] :
       /\ c.id < documents[active].nextCandidate
       /\ picks' = [picks EXCEPT ![active][node] = [id |-> c.id, shot |-> c.shot]]
  /\ UNCHANGED <<session, frames, documents, durable, ghosts, taken, crashes>>

(* A document of the capture is read by a build, which may be left holding   *)
(* a frame it could not give back, and gives it back later.                  *)
HoldFrame(project) ==
  /\ Cardinality(pinned) < MaxHeld
  /\ documents[project] # NoDocument /\ documents[project].generation = tier
  /\ \E f \in Named(project) :
       /\ InHeap(store, f) \/ (f \in store.cold /\ sink[f] # NoPixels)
       /\ pinned' = pinned \cup {f}
       /\ store' = [heap |-> [store.heap EXCEPT ![f] = IF InHeap(store, f) THEN @ ELSE sink[f]],
                    cold |-> store.cold \ {f}]
  /\ UNCHANGED <<session, nextFrame, offered, sink, tier, minted, disk, ghosts, taken, crashes>>

LetGo ==
  /\ \E f \in pinned :
       /\ pinned' = pinned \ {f}
       /\ \/ UNCHANGED store
          \/ /\ sink[f] = store.heap[f]
             /\ store' = [heap |-> [store.heap EXCEPT ![f] = NoPixels],
                          cold |-> store.cold \cup {f}]
  /\ UNCHANGED <<session, nextFrame, offered, sink, tier, minted, disk, ghosts, taken, crashes>>

(* One document, or one pick, becomes durable, while a process is left to    *)
(* load it.                                                                  *)
Flush(project) ==
  /\ crashes < MaxCrashes
  /\ \/ durable' = [durable EXCEPT !.documents[project] = documents[project]]
     \/ \E n \in Nodes : durable' = [durable EXCEPT !.picks[project][n] = picks[project][n]]
  /\ UNCHANGED <<session, frames, documents, picks, ghosts, taken, crashes>>

(* The tab dies.  The tier is there, or was lost and says so. *)
Crash ==
  /\ crashes < MaxCrashes
  /\ crashes' = crashes + 1
  /\ active' = NoProject /\ candidates' = NoCandidates
  /\ firing' = NoNode /\ pending' = {} /\ nextCandidate' = 1
  /\ store' = EmptyStore /\ pinned' = {} /\ nextFrame' = 1 /\ offered' = {}
  /\ behind' = FALSE /\ stranded' = {}
  /\ documents' = durable.documents /\ picks' = durable.picks
  /\ \/ UNCHANGED <<sink, tier, minted>>
     \/ /\ minted < MaxGeneration
        /\ minted' = minted + 1 /\ tier' = minted' /\ sink' = EmptySink
  /\ UNCHANGED <<durable, unstepped, taken>>

Next ==
  \/ \E p \in Projects : Begin(p) \/ Resume(p) \/ ResumeRefused(p) \/ HoldFrame(p) \/ Flush(p)
  \/ \E n \in Nodes :
       ArmBurst(n) \/ OfferFrame(n) \/ OfferRefused(n) \/ Retake(n) \/ SetSelection(n)
  \/ AdvanceBurst
  \/ BeginUntracked \/ End \/ LetGo \/ Crash

Spec == Init /\ [][Next]_vars

-----------------------------------------------------------------------------
(* The types; a frame is in the heap or spilled, and pinned only in the heap; *)
(* no counter is ahead of the exposures made.                                *)
TypeOK ==
  /\ active \in Projects \cup {NoProject}
  /\ candidates \in [Nodes -> SUBSET Candidate]
  /\ active = NoProject => candidates = NoCandidates /\ firing = NoNode
  /\ firing \in Nodes \cup {NoNode} /\ (firing = NoNode => pending = {})
  /\ pending \subseteq Candidate /\ IsFiniteSet(pending) /\ Cardinality(pending) < FrameCount
  /\ taken \in 0..MaxShots
  /\ nextCandidate \in 1..(taken + 1) /\ nextFrame \in 1..(taken + 1)
  /\ store \in Store /\ \A f \in store.cold : ~InHeap(store, f)
  /\ sink \in Copies
  /\ pinned \subseteq Frame /\ \A f \in pinned : InHeap(store, f)
  /\ offered \subseteq Frame
  /\ minted \in 1..MaxGeneration /\ tier \in 1..minted
  /\ documents \in Documents /\ picks \in Picks
  /\ durable \in [documents : Documents, picks : Picks]
  /\ behind \in BOOLEAN /\ (active = NoProject => ~behind)
  /\ stranded \subseteq Frame /\ unstepped \in BOOLEAN

(* What a frame of a candidate would show, now or once it is adopted. *)
PixelsOf(f) == IF InHeap(store, f) THEN store.heap[f] ELSE sink[f]

(* A candidate shows its own exposure or nothing, never another's: in the    *)
(* session, and in every document a session or a build of this or the next   *)
(* process would still take, however late documents are flushed.             *)
OwnPixels ==
  /\ \A c \in Everywhere(candidates) \cup pending : PixelsOf(c.frame) \in {c.shot, NoPixels}
  /\ \A p \in Projects : InTier(p, documents[p]) =>
       \A c \in Everywhere(documents[p].candidates) : PixelsOf(c.frame) \in {c.shot, NoPixels}
  /\ \A p \in Projects : InTier(p, durable.documents[p]) =>
       \A c \in Everywhere(durable.documents[p].candidates) : sink[c.frame] \in {c.shot, NoPixels}

(* Identities are issued once to a session: frames and candidates of all     *)
(* cells are told apart by them, and both counters are ahead of them.        *)
IdentitiesUnique ==
  LET all == Everywhere(candidates) \cup pending
  IN  /\ \A c, d \in all : c # d => c.id # d.id /\ c.frame # d.frame
      /\ \A c \in all : c.id < nextCandidate /\ c.frame < nextFrame
      /\ \A f \in Frame : Known(store, f) => f < nextFrame

(* A pick always names the frame it was made on (ADR 0070): in whatever      *)
(* capture of the project, no other candidate comes to bear its identity.    *)
PickAlwaysNames ==
  \A p \in Projects, n \in Nodes :
    LET pick == picks[p][n]
        shown == (IF active = p THEN candidates[n] ELSE {}) \cup
                 (IF InTier(p, documents[p]) THEN documents[p].candidates[n] ELSE {})
    IN  \A c \in shown : c.id = pick.id => c.shot = pick.shot

(* So it does for as long as every resume that stepped past a pick had its   *)
(* stepped counter written down: through crashes, late flushes, documents    *)
(* and picks that are lost, and refused checkpoints of every other kind.     *)
PickNeverMoves == unstepped \/ PickAlwaysNames

(* A build reads the document and the strip shows the session: the document  *)
(* names exactly what the session took and kept, once its last checkpoint    *)
(* has landed.  Behind it, the document is an earlier one of the capture: it *)
(* may lack a candidate or name one let go of, but never another candidate   *)
(* under an identity, or with a frame, that the session uses.                *)
DocumentInStep ==
  active # NoProject =>
    /\ ~behind =>
         /\ InTier(active, documents[active])
         /\ \A n \in Nodes :
              documents[active].candidates[n] = {c \in candidates[n] : c.ours}
    /\ InTier(active, documents[active]) =>
         /\ documents[active].nextCandidate <= nextCandidate
         /\ \A c \in Everywhere(documents[active].candidates),
               d \in Everywhere(candidates) \cup pending :
              c.id = d.id \/ c.frame = d.frame => c = d

(* Whatever the store holds can still be named by somebody, so it can be     *)
(* given back: a candidate, a burst, a caller or, once the session is over,  *)
(* a document of this tier.  Only what a session kept and could not write    *)
(* down by its end is named by nobody, until the store is cleared.           *)
NothingLeaks ==
  \A f \in Frame : Known(store, f) =>
    \/ f \in FramesOf(Everywhere(candidates) \cup pending)
    \/ f \in offered \cup stranded
    \/ active = NoProject /\ \E p \in Projects : InTier(p, documents[p]) /\ f \in Named(p)
=============================================================================
