---------------------------- MODULE PanoramaBuild ----------------------------
(***************************************************************************)
(* PanoramaBuildManager over the frame store it shares with the capture:   *)
(* a build borrows the capture's frames, makes frames of its own, and must *)
(* leave the store as it found it, in a store that may decline any call    *)
(* and is emptied by a new capture between two polls.                      *)
(*                                                                         *)
(* A call of the manager is synchronous, so it is one action, and what its *)
(* many calls of the store can come to is a set of outcomes.  A frame is   *)
(* named <<kind, capture, cell>>: the store never reuses an identity.      *)
(* Frames are read, and pairs estimated, in any order.  Geometry, the      *)
(* document's own checks in Start (CaptureSession has the document), gaps  *)
(* and progress figures are left out, as is an engine's roll-back of an    *)
(* answer it did not finish: a refusal there is heard by nobody.           *)
(***************************************************************************)
EXTENDS Naturals, FiniteSets

CONSTANTS
  Cell,         \* the cells of a capture
  MaxCaptures,  \* bound: captures, each emptying the store of the last
  MaxPins,      \* bound: pins on a frame that an engine or a page's read adds one to
  Situations,   \* what a build may find around it
  NoBuild, NoCell

Calls == {"ResidencyOf", "Release", "Demote", "Forget"}

ASSUME PanoramaAssumption ==
  /\ IsFiniteSet(Cell) /\ MaxCaptures \in Nat \ {0}
  /\ MaxPins \in Nat
  /\ Situations \subseteq [frames : 0..Cardinality(Cell), captures : 1..MaxCaptures,
                           held : Nat, refuses : SUBSET Calls]

VARIABLES
  situation,\* how many frames a capture has and how many captures follow, how
            \* many pins somebody else may hold, which calls the store may decline
  build,    \* build_
  store,    \* the tier and the pins of every frame
  capture,  \* which capture the store holds
  held,     \* the pins somebody else holds on the capture's frames
  home      \* the tier somebody else last left each of them in

vars == <<situation, build, store, capture, held, home>>
others == <<situation, capture, held, home>>
Refuses == situation.refuses

Made == {"descriptors", "keypoints"}
Frame == (({"frame"} \cup Made) \X (1..MaxCaptures) \X Cell)
         \cup ({"preview"} \X (1..MaxCaptures) \X {NoCell})
TakenIn(g, c) == <<"frame", g, c>>
Taken(c) == TakenIn(capture, c)
PreviewOf(b) == <<"preview", b.capture, NoCell>>
FeaturesOf(b, c) == {<<kind, b.capture, c>> : kind \in Made}

Gone == [tier |-> "Gone", pins |-> 0]
InHeap(pins) == [tier |-> "Heap", pins |-> pins]

(* ResidencyOf; "Gone" is its NotFound. *)
Residency(s) ==
  IF s.tier = "Heap" THEN IF s.pins > 0 THEN "HeapPinned" ELSE "HeapEncoded"
  ELSE s.tier

Unfinished == {"Features", "PairwiseMatching", "GlobalSolve", "CoverageCheck", "Projecting"}
Finished == {"Complete", "Failed"}
Misplaced == [frame : Frame, found : {"HeapPinned", "HeapEncoded", "Spilled"}, pinOwed : BOOLEAN]
Build ==
  [capture : 1..MaxCaptures, stage : Unfinished \cup Finished, frames : SUBSET Cell,
   unread : SUBSET Cell, pairs : SUBSET SUBSET Cell, features : SUBSET Frame,
   preview : SUBSET Frame, misplaced : SUBSET Misplaced]

ASSUME MarkersAssumption == NoBuild \notin Build

Running == build # NoBuild /\ build.stage \in Unfinished

NewFrames(g) ==
  {[f \in Frame |-> IF f \in {TakenIn(g, c) : c \in cells} THEN InHeap(0) ELSE Gone] :
   cells \in {S \in SUBSET Cell : Cardinality(S) = situation.frames}}

Init ==
  /\ situation \in Situations
  /\ build = NoBuild /\ capture = 1
  /\ store \in NewFrames(1)
  /\ held = [c \in Cell |-> 0] /\ home = [c \in Cell |-> "Heap"]

-----------------------------------------------------------------------------
(* What a call of the store that may be declined adds to the outcomes. *)
WhenRefused(call, refuses, outcome) == {outcome : r \in refuses \cap {call}}

(* One outcome for each member of S, out of options[x]. *)
Choices(S, options) ==
  {o \in [S -> UNION {options[x] : x \in S}] : \A x \in S : o[x] \in options[x]}

(* PutBack's first half: the pin an engine could not release, paid once. *)
PaysPin(s, owed, refuses) ==
  IF owed /\ Residency(s) = "HeapPinned"
  THEN {[s |-> [s EXCEPT !.pins = @ - 1], owed |-> FALSE, ok |-> TRUE]}
       \cup WhenRefused("ResidencyOf", refuses,
              [s |-> [s EXCEPT !.pins = @ - 1], owed |-> FALSE, ok |-> FALSE])
       \cup WhenRefused("Release", refuses, [s |-> s, owed |-> TRUE, ok |-> FALSE])
  ELSE {[s |-> s, owed |-> FALSE, ok |-> TRUE]}

(* Its second half: only a frame still warm and held by nobody is cooled. *)
CoolsBack(o, found, refuses) ==
  IF o.ok /\ Residency(o.s) = "HeapEncoded" /\ found = "Spilled"
  THEN {[o EXCEPT !.s.tier = "Spilled"]} \cup WhenRefused("Demote", refuses, [o EXCEPT !.ok = FALSE])
  ELSE {o}

PutBack(s, m, refuses) ==
  WhenRefused("ResidencyOf", refuses, [s |-> s, owed |-> m.pinOwed, ok |-> FALSE])
  \cup IF s = Gone THEN {[s |-> s, owed |-> m.pinOwed, ok |-> TRUE]}
       ELSE UNION {CoolsBack(o, m.found, refuses) : o \in PaysPin(s, m.pinOwed, refuses)}

(* PutBackOrKeep, and the loop of Release, over frames out of place. *)
PutBackAll(M, st, refuses) ==
  LET frames == {m.frame : m \in M}
      Of(f) == CHOOSE m \in M : m.frame = f
  IN  {[store |-> [f \in Frame |-> IF f \in frames THEN o[Of(f)].s ELSE st[f]],
        misplaced |-> {[m EXCEPT !.pinOwed = o[m].owed] : m \in {n \in M : ~o[n].ok}}] :
       o \in Choices(M, [m \in M |-> PutBack(st[m.frame], m, refuses)])}

(* Fault: every pin on a borrowed frame is taken to be the engine's. *)
OwesAnyPin(st, frames) ==
  {[frame |-> f, found |-> Residency(st[f]), pinOwed |-> TRUE] : f \in frames}

(* Where frames lent to an engine were found; a pin found is not the build's. *)
Lent(st, frames) ==
  {[frame |-> f, found |-> Residency(st[f]), pinOwed |-> Residency(st[f]) # "HeapPinned"] :
   f \in frames}

(* Fault: one pin is released, however many calls borrowed the frame. *)
DiscardOnePin(s, refuses) ==
  IF s.pins > 1 THEN {[s |-> [s EXCEPT !.pins = @ - 1], ok |-> TRUE]}
  ELSE {[s |-> Gone, ok |-> TRUE]}

(* Fault: a frame a new capture took away is one the store declined. *)
DiscardOnlyHeld(s, refuses) == {[s |-> Gone, ok |-> s # Gone]}

(* Every pin released and the frame forgotten, or a refusal on the way. *)
Discard(s, refuses) ==
  {[s |-> Gone, ok |-> TRUE]} \cup
  {[s |-> [s EXCEPT !.pins = left], ok |-> FALSE] :
   left \in {n \in 0..s.pins : \/ "ResidencyOf" \in refuses
                               \/ "Release" \in refuses /\ n > 0
                               \/ "Forget" \in refuses /\ n = 0 /\ s # Gone}}

DiscardAll(frames, st, refuses) ==
  {[store |-> [f \in Frame |-> IF f \in frames THEN o[f].s ELSE st[f]],
    refused |-> {f \in frames : ~o[f].ok}] :
   o \in Choices(frames, [f \in frames |-> Discard(st[f], refuses)])}

ForgetFeatures(b, st, refuses) ==
  {[b |-> [b EXCEPT !.features = d.refused], store |-> d.store, ok |-> d.refused = {}] :
   d \in DiscardAll(b.features, st, refuses)}

(* Fault: the handle is dropped before the store has agreed. *)
GiveBackPreviewFirst(b, st, refuses) ==
  {[b |-> [b EXCEPT !.preview = {}], store |-> d.store, ok |-> d.refused = {}] :
   d \in DiscardAll(b.preview, st, refuses)}

GiveBackPreview(b, st, refuses) ==
  {[b |-> [b EXCEPT !.preview = d.refused], store |-> d.store, ok |-> d.refused = {}] :
   d \in DiscardAll(b.preview, st, refuses)}

(* Release(build): everything is tried, the first refusal is the answer. *)
GiveBack(b, st, refuses) ==
  UNION {UNION {
    {[b |-> [p.b EXCEPT !.misplaced = m.misplaced], store |-> m.store,
      ok |-> f.ok /\ p.ok /\ m.misplaced = {}] :
     m \in PutBackAll(b.misplaced, p.store, refuses)} :
   p \in GiveBackPreview(f.b, f.store, refuses)} :
  f \in ForgetFeatures(b, st, refuses)}

-----------------------------------------------------------------------------
(* The pins an engine that has read a frame with so many leaves on it. *)
Leaves(pins) ==
  {pins} \cup IF pins < MaxPins THEN WhenRefused("Release", Refuses, pins + 1) ELSE {}

(* ExtractFeatures of the engine: the frame is read, or cannot be; then it  *)
(* may be refused, have nothing in it, or be answered with two new frames.  *)
Extraction(b, st, c) ==
  LET f == TakenIn(b.capture, c)
      read == {[st EXCEPT ![f] = InHeap(left)] : left \in Leaves(st[f].pins)}
  IN  {[store |-> r, features |-> {}, ok |-> ok] : r \in read \cup {st}, ok \in {FALSE}}
      \cup {[store |-> r, features |-> {}, ok |-> TRUE] : r \in read}
      \cup {[store |-> [g \in Frame |-> IF g \in FeaturesOf(b, c) THEN InHeap(left[g[1]])
                                        ELSE r[g]],
             features |-> FeaturesOf(b, c), ok |-> TRUE] :
            r \in read, left \in [Made -> Leaves(0)]}

(* Report: the stage is named for the step the next poll does. *)
Following ==
  [Features |-> "GlobalSolve", PairwiseMatching |-> "GlobalSolve",
   GlobalSolve |-> "CoverageCheck", CoverageCheck |-> "Projecting", Projecting |-> "Complete"]

Report(b) ==
  [b EXCEPT !.stage = IF b.unread # {} THEN "Features"
                      ELSE IF b.pairs # {} THEN "PairwiseMatching" ELSE Following[b.stage]]

(* Poll: a step that fails gives back the features and ends the build. *)
Poll(outcomes) ==
  /\ \E o \in outcomes :
       IF o.ok THEN build' = Report(o.b) /\ store' = o.store
       ELSE \E given \in ForgetFeatures(o.b, o.store, Refuses) :
              build' = [given.b EXCEPT !.stage = "Failed"] /\ store' = given.store
  /\ UNCHANGED others

Fails(b, st) == [b |-> b, store |-> st, ok |-> FALSE]
CannotAsk(b, st) == WhenRefused("ResidencyOf", Refuses, Fails(b, st))

(* Fault: the step answers for the extraction and not for the put-back. *)
ExtractIgnoringPutBack(b, st, c) ==
  LET f == TakenIn(b.capture, c)
  IN  IF st[f] = Gone THEN {Fails(b, st)}
      ELSE CannotAsk(b, st) \cup
           UNION {{[b |-> [b EXCEPT !.unread = @ \ {c}, !.features = @ \cup e.features,
                                    !.misplaced = @ \cup p.misplaced],
                    store |-> p.store, ok |-> e.ok] :
                   p \in PutBackAll(Lent(st, {f}), e.store, Refuses)} :
                  e \in Extraction(b, st, c)}

ExtractOne(b, st, c) ==
  LET f == TakenIn(b.capture, c)
  IN  IF st[f] = Gone THEN {Fails(b, st)}
      ELSE CannotAsk(b, st) \cup
           UNION {{[b |-> [b EXCEPT !.unread = @ \ {c}, !.features = @ \cup e.features,
                                    !.misplaced = @ \cup p.misplaced],
                    store |-> p.store, ok |-> e.ok /\ p.misplaced = {}] :
                   p \in PutBackAll(Lent(st, {f}), e.store, Refuses)} :
                  e \in Extraction(b, st, c)}

ExtractFeatures ==
  /\ Running /\ build.stage = "Features"
  /\ \E c \in build.unread : Poll(ExtractOne(build, store, c))

(* The four frames of a pair, when both cells have something to match. *)
Borrowed(b, pair) ==
  LET both == UNION {FeaturesOf(b, c) : c \in pair}
  IN  IF both \subseteq b.features THEN both ELSE {}

Estimated(b, st, pair) ==
  LET rest == [b EXCEPT !.pairs = @ \ {pair}]
      frames == Borrowed(b, pair)
      kept == {f \in frames : st[f] # Gone}
  IN  {[b |-> rest, ok |-> ok,
        store |-> [f \in Frame |-> IF f \in kept THEN InHeap(left[f]) ELSE st[f]]] :
       left \in Choices(kept, [f \in kept |-> Leaves(st[f].pins)]),
       ok \in IF frames = {} THEN {TRUE} ELSE IF kept # frames THEN {FALSE} ELSE BOOLEAN}

(* The last pair's step also gives the features back, and answers for that. *)
EstimateOne(b, st, pair) ==
  UNION {IF o.ok /\ o.b.pairs = {} THEN ForgetFeatures(o.b, o.store, Refuses) ELSE {o} :
         o \in Estimated(b, st, pair)}

EstimatePair ==
  /\ Running /\ build.stage = "PairwiseMatching"
  /\ \E pair \in build.pairs : Poll(EstimateOne(build, store, pair))

(* With no pair the features are still here; otherwise there are none.      *)
(* Refine may decline.                                                      *)
Solve ==
  /\ Running /\ build.stage = "GlobalSolve"
  /\ Poll({[o EXCEPT !.ok = o.ok /\ solved] :
           o \in ForgetFeatures(build, store, Refuses), solved \in BOOLEAN})

JudgeGaps ==
  /\ Running /\ build.stage = "CoverageCheck"
  /\ Poll({[b |-> build, store |-> store, ok |-> TRUE]})

-----------------------------------------------------------------------------
(* RenderPreview's GiveBack of a frame, declined: still pinned, or warm. *)
NotGivenBack(s) ==
  {InHeap(left) : left \in Leaves(s.pins) \ {s.pins}}
  \cup IF s.pins = 0 THEN WhenRefused("Demote", Refuses, InHeap(0)) ELSE {}

(* The stores a refused RenderPreview leaves: at most one frame out of      *)
(* place, and its answer given back or handed over.                         *)
RefusedPreview(b, st, frames) ==
  LET lent == {st} \cup UNION {{[st EXCEPT ![f] = s] : s \in NotGivenBack(st[f])} : f \in frames}
      answers == {Gone} \cup WhenRefused("Release", Refuses, InHeap(1))
                 \cup WhenRefused("Forget", Refuses, InHeap(0))
  IN  {[l EXCEPT ![PreviewOf(b)] = a] : l \in lent, a \in answers}

(* Compose after a refusal: the capture is put right, then the answer given *)
(* back.                                                                    *)
PutRight(b, st, frames, after) ==
  UNION {{Fails(g.b, g.store) :
          g \in GiveBackPreview(
                  [b EXCEPT !.misplaced = p.misplaced,
                            !.preview = {f \in {PreviewOf(b)} : after[f] # Gone}],
                  p.store, Refuses)} :
         p \in PutBackAll(Lent(st, frames), after, Refuses)}

ComposeOne(b, st) ==
  LET frames == {TakenIn(b.capture, c) : c \in b.frames}
  IN  IF \E f \in frames : st[f] = Gone THEN {Fails(b, st)}
      ELSE CannotAsk(b, st)
           \cup {[b |-> [b EXCEPT !.preview = {PreviewOf(b)}],
                  store |-> [st EXCEPT ![PreviewOf(b)] = InHeap(0)], ok |-> TRUE]}
           \cup UNION {PutRight(b, st, frames, after) : after \in RefusedPreview(b, st, frames)}

Compose ==
  /\ Running /\ build.stage = "Projecting"
  /\ Poll(ComposeOne(build, store))

-----------------------------------------------------------------------------
Pairs(frames) == {p \in SUBSET frames : Cardinality(p) = 2}

NewBuild(frames, pairs) ==
  [capture |-> capture, stage |-> "Features", frames |-> frames, unread |-> frames,
   pairs |-> pairs, features |-> {}, preview |-> {}, misplaced |-> {}]

(* Start: the finished build is released last, and stands if it cannot be. *)
Start ==
  /\ ~Running
  /\ LET frames == {c \in Cell : store[Taken(c)] # Gone}
     IN  /\ frames # {}
         /\ \E pairs \in SUBSET Pairs(frames) :
              \E o \in IF build = NoBuild THEN {[b |-> NoBuild, store |-> store, ok |-> TRUE]}
                       ELSE GiveBack(build, store, Refuses) :
                build' = (IF o.ok THEN NewBuild(frames, pairs) ELSE o.b) /\ store' = o.store
  /\ UNCHANGED others

Cancel ==
  /\ build # NoBuild
  /\ \E o \in GiveBack(build, store, Refuses) :
       /\ build' = IF o.ok THEN NoBuild
                   ELSE IF build.stage = "Complete" THEN o.b
                   ELSE [o.b EXCEPT !.stage = "Failed"]
       /\ store' = o.store
  /\ UNCHANGED others

(* PanoramaPreview whose pin the store would not release. *)
PanoramaPreview ==
  /\ build # NoBuild /\ build.stage = "Complete" /\ "Release" \in Refuses
  /\ \E f \in build.preview :
       /\ store[f] # Gone /\ store[f].pins < MaxPins
       /\ store' = [store EXCEPT ![f].pins = @ + 1]
  /\ UNCHANGED <<build, others>>

-----------------------------------------------------------------------------
(* The rest of the app, between two calls: the capture cools and warms its  *)
(* frames and discards some, a holder pins them, a new capture empties the  *)
(* store.                                                                   *)
Cool(c) ==
  /\ Residency(store[Taken(c)]) = "HeapEncoded"
  /\ store' = [store EXCEPT ![Taken(c)].tier = "Spilled"]
  /\ home' = [home EXCEPT ![c] = "Spilled"]
  /\ UNCHANGED <<situation, build, capture, held>>

Warm(c) ==
  /\ store[Taken(c)].tier = "Spilled"
  /\ store' = [store EXCEPT ![Taken(c)].tier = "Heap"]
  /\ home' = [home EXCEPT ![c] = "Heap"]
  /\ UNCHANGED <<situation, build, capture, held>>

RetakeDiscards(c) ==
  /\ store[Taken(c)] # Gone /\ store[Taken(c)].pins = 0
  /\ store' = [store EXCEPT ![Taken(c)] = Gone]
  /\ UNCHANGED <<build, others>>

Hold(c) ==
  /\ store[Taken(c)] # Gone /\ held[c] < situation.held
  /\ store' = [store EXCEPT ![Taken(c)] = InHeap(@.pins + 1)]
  /\ home' = [home EXCEPT ![c] = IF store[Taken(c)].tier = "Heap" THEN @ ELSE "Heap"]
  /\ held' = [held EXCEPT ![c] = @ + 1]
  /\ UNCHANGED <<situation, build, capture>>

LetGo(c) ==
  /\ held[c] > 0 /\ store[Taken(c)].pins > 0
  /\ store' = [store EXCEPT ![Taken(c)].pins = @ - 1]
  /\ held' = [held EXCEPT ![c] = @ - 1]
  /\ UNCHANGED <<situation, build, capture, home>>

NewCapture ==
  /\ capture < situation.captures
  /\ \A f \in Frame : store[f].pins = 0
  /\ capture' = capture + 1
  /\ store' \in NewFrames(capture + 1)
  /\ home' = [c \in Cell |-> "Heap"]
  /\ UNCHANGED <<situation, build, held>>

Next ==
  \/ Start \/ ExtractFeatures \/ EstimatePair \/ Solve \/ JudgeGaps \/ Compose
  \/ Cancel \/ PanoramaPreview \/ NewCapture
  \/ \E c \in Cell : Cool(c) \/ Warm(c) \/ RetakeDiscards(c) \/ Hold(c) \/ LetGo(c)

Spec == Init /\ [][Next]_vars

-----------------------------------------------------------------------------
(* The types; a frame out of the heap is not pinned. *)
TypeOK ==
  /\ situation \in Situations /\ build \in Build \cup {NoBuild}
  /\ DOMAIN store = Frame
  /\ \A f \in Frame : /\ store[f].tier \in {"Gone", "Heap", "Spilled"} /\ store[f].pins \in Nat
                      /\ store[f].pins > 0 => store[f].tier = "Heap"
  /\ capture \in 1..MaxCaptures
  /\ held \in [Cell -> 0..situation.held] /\ home \in [Cell -> {"Heap", "Spilled"}]

(* Nothing of a build is left in st: none of the frames it made, no pin of  *)
(* an engine, and no frame of the capture warmer than it was last left.     *)
InPlace(st) ==
  \A c \in Cell : LET s == st[Taken(c)]
                  IN  s.pins = held[c] /\ ~(s.tier = "Heap" /\ home[c] = "Spilled")

(* With a holder about, an engine's pin on a frame found pinned may outlive  *)
(* the build: what stands where is then the holder's business.               *)
Restored(st) ==
  /\ \A f \in Frame : st[f] # Gone => f = TakenIn(capture, f[3])
  /\ situation.held = 0 => InPlace(st)

(* Once the store declines nothing, one Cancel (or the next Start) makes it *)
(* what it was, whichever calls it declined before, also when a new capture *)
(* emptied it in between and when somebody pins what was borrowed: nothing  *)
(* is leaked, and a build is never stranded on frames that are gone.        *)
Recoverable ==
  IF build = NoBuild THEN Restored(store)
  ELSE \A o \in GiveBack(build, store, {}) : o.ok /\ Restored(o.store)

(* A build that goes on has put every frame it read back where it was: one  *)
(* the store would not put back ends the build, so that a sphere larger     *)
(* than the heap never piles up in it.                                      *)
InPlaceWhileRunning == Running /\ situation.held = 0 => InPlace(store)

(* "The finished build stands": a complete build names its panorama, which  *)
(* is in the store unless a new capture has emptied it, and nothing else.   *)
FinishedStands ==
  build # NoBuild /\ build.stage = "Complete" =>
    /\ build.preview = {PreviewOf(build)}
    /\ build.features = {} /\ build.misplaced = {}
    /\ build.capture = capture => store[PreviewOf(build)] # Gone

(* Pin promises its holder the mapping until their own Release: whatever a  *)
(* build releases, now or in a later retry, is a pin an engine left.        *)
HoldersKeepTheirPins == \A c \in Cell : store[Taken(c)].pins >= held[c]
=============================================================================
