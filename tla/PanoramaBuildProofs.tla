------------------------- MODULE PanoramaBuildProofs -------------------------
(***************************************************************************)
(* Theorems about a build over the store it shares with the capture, for   *)
(* any cells, captures, holders, and whichever calls the store declines.   *)
(*                                                                         *)
(* Recoverable speaks of what a Cancel would come to, so the induction     *)
(* says what such a Cancel relies on: who answers for every frame in the   *)
(* store, and what is written down of every frame out of place.            *)
(***************************************************************************)
EXTENDS PanoramaBuild, TLAPS

(* What the store may hold of a frame: only what is in the heap is pinned. *)
Slots ==
  {s \in [tier : {"Gone", "Heap", "Spilled"}, pins : Nat] : s.pins > 0 => s.tier = "Heap"}
Stores == [Frame -> Slots]

(* A frame as somebody else left it in tier h; and one that is not, of      *)
(* which m says what to do about it.                                        *)
Still(s, h) == s.pins = 0 /\ ~(s.tier = "Heap" /\ h = "Spilled")
Strays(s, m, h) ==
  /\ s.pins <= 1 /\ (s.pins = 1 => m.pinOwed)
  /\ s.tier = "Heap" /\ h = "Spilled" => m.found = "Spilled"

(* Every frame in the store is the capture's or, in the heap, one of those  *)
(* made.                                                                    *)
Accounts(made, st) ==
  \A f \in Frame : \/ st[f] = Gone \/ \E c \in Cell : f = Taken(c)
                   \/ f \in made /\ st[f].tier = "Heap"

(* With no holder about, a frame is in its place or among those written     *)
(* down.                                                                    *)
Placed(M, st) ==
  situation.held = 0 =>
    \A c \in Cell :
      \/ Still(st[Taken(c)], home[c])
      \/ \E m \in M : m.frame = Taken(c) /\ Strays(st[Taken(c)], m, home[c])

(* Where the store can say where a frame is, a pin owed is one beside those *)
(* of the holders.                                                          *)
Keeps(M, st) ==
  "ResidencyOf" \notin Refuses =>
    \A c \in Cell :
      /\ st[Taken(c)].pins >= held[c]
      /\ \A m \in M : m.frame = Taken(c) /\ m.pinOwed => st[Taken(c)].pins > held[c]

(* The store, with the frames made and those written down as out of place;  *)
(* without a build, or after one, there are none of either.                 *)
Stocked(made, M, st) ==
  st \in Stores /\ Accounts(made, st) /\ Placed(M, st) /\ Keeps(M, st)
Clear(st) == Stocked({}, {}, st)

(* What a build holds: frames it made, and what it borrowed of its capture, *)
(* each once.                                                               *)
Borrows(g, M) ==
  /\ M \subseteq Misplaced
  /\ \A m \in M : \E c \in Cell : m.frame = TakenIn(g, c)
  /\ \A m, n \in M : m.frame = n.frame => m = n

Shaped(b) ==
  /\ b \in Build /\ b.capture <= capture
  /\ \A f \in b.features : f[1] \in Made
  /\ b.preview \subseteq {PreviewOf(b)}
  /\ Borrows(b.capture, b.misplaced)

Sane(b, st) == Shaped(b) /\ Stocked(b.features \cup b.preview, b.misplaced, st)

(* How far a build is: nothing is out of place while it goes on, and what   *)
(* a stage was to do is done in the next.                                   *)
Phase(b, st) ==
  /\ b.stage \in Unfinished => b.misplaced = {} /\ b.preview = {}
  /\ b.stage \in Unfinished \ {"Features"} => b.unread = {}
  /\ b.stage \in {"GlobalSolve", "CoverageCheck", "Projecting"} => b.pairs = {}
  /\ b.stage \in {"CoverageCheck", "Projecting"} => b.features = {}
  /\ b.stage = "Complete" =>
       /\ b.features = {} /\ b.misplaced = {} /\ b.preview = {PreviewOf(b)}
       /\ b.capture = capture => st[PreviewOf(b)] # Gone

Around ==
  /\ situation \in Situations /\ capture \in 1..MaxCaptures
  /\ held \in [Cell -> 0..situation.held] /\ home \in [Cell -> {"Heap", "Spilled"}]

BuildIInv ==
  /\ Around
  /\ IF build = NoBuild THEN Clear(store) ELSE Sane(build, store) /\ Phase(build, store)

-----------------------------------------------------------------------------
(* Frames are told apart by what they are of. *)
LEMMA Names ==
  /\ \A g \in 1..MaxCaptures, c \in Cell :
       /\ TakenIn(g, c) \in Frame /\ TakenIn(g, c)[1] = "frame"
       /\ TakenIn(g, c)[2] = g /\ TakenIn(g, c)[3] = c
  /\ \A g \in 1..MaxCaptures : <<"preview", g, NoCell>> \in Frame
  /\ \A g \in 1..MaxCaptures, c \in Cell, kind \in Made : <<kind, g, c>> \in Frame
  /\ "frame" \notin Made /\ "preview" \notin Made
BY DEF TakenIn, Frame, Made

(* A frame out of the store is not pinned, and nowhere. *)
LEMMA SlotFacts ==
  ASSUME NEW s \in Slots
  PROVE  /\ s.pins \in Nat /\ s.tier \in {"Gone", "Heap", "Spilled"}
         /\ s = [tier |-> s.tier, pins |-> s.pins]
         /\ (s = Gone <=> s.tier = "Gone") /\ (s = Gone => s.pins = 0)
         /\ (s.pins > 0 => s.tier = "Heap")
BY DEF Slots, Gone

(* What the store may hold of a frame, as the code makes it. *)
LEMMA SlotsMade ==
  /\ Gone \in Slots /\ \A n \in Nat : InHeap(n) \in Slots /\ InHeap(n) # Gone
  /\ \A s \in Slots : s.pins = 0 => [s EXCEPT !.tier = "Spilled"] \in Slots
  /\ \A s \in Slots : \A n \in Nat : n <= s.pins => [s EXCEPT !.pins = n] \in Slots
BY DEF Slots, Gone, InHeap

(* A frame given back is gone or refused, and what is refused is still there. *)
LEMMA DiscardIs ==
  ASSUME NEW s \in Slots, NEW refuses, NEW o \in Discard(s, refuses)
  PROVE  /\ o.s \in Slots /\ o.ok \in BOOLEAN
         /\ o.ok => o.s = Gone
         /\ ~o.ok => (o.s = Gone <=> s = Gone)
         /\ s = Gone => o.s = Gone
         /\ o.s = Gone \/ o.s.tier = s.tier
         /\ refuses = {} => o.ok
<1>1. CASE o = [s |-> Gone, ok |-> TRUE]
  BY <1>1, SlotsMade
<1>2. ASSUME NEW left \in 0..s.pins, o = [s |-> [s EXCEPT !.pins = left], ok |-> FALSE],
             \/ "ResidencyOf" \in refuses
             \/ "Release" \in refuses /\ left > 0
             \/ "Forget" \in refuses /\ left = 0 /\ s # Gone
      PROVE  /\ o.s \in Slots /\ o.ok \in BOOLEAN /\ ~o.ok
             /\ (o.s = Gone <=> s = Gone) /\ o.s.tier = s.tier
             /\ refuses # {}
  <2>1. left \in Nat /\ left <= s.pins
    BY SlotFacts
  <2>2. o.s = [s EXCEPT !.pins = left] /\ o.s \in Slots /\ o.s.tier = s.tier
    BY <1>2, <2>1, SlotsMade, SlotFacts
  <2>3. o.s = Gone <=> s = Gone
    BY <2>2, SlotFacts
  <2> QED
    BY <1>2, <2>2, <2>3
<1> QED
  BY <1>1, <1>2 DEF Discard

(* The same of a set of frames; the rest of the store is left alone. *)
Discards(d, frames, st, refuses) ==
  /\ d.store \in Stores /\ d.refused \in SUBSET frames
  /\ \A f \in Frame : f \notin frames => d.store[f] = st[f]
  /\ \A f \in Frame : st[f] = Gone => d.store[f] = Gone
  /\ \A f \in frames : f \notin d.refused => d.store[f] = Gone
  /\ \A f \in frames : f \in d.refused /\ st[f] # Gone => d.store[f] # Gone
  /\ \A f \in Frame : d.store[f] = Gone \/ d.store[f].tier = st[f].tier
  /\ refuses = {} => d.refused = {}

(* Discarding frame by frame is discarding them all. *)
LEMMA DiscardAllIs ==
  ASSUME NEW frames \in SUBSET Frame, NEW st \in Stores, NEW refuses,
         NEW d \in DiscardAll(frames, st, refuses)
  PROVE  Discards(d, frames, st, refuses)
<1>1. PICK o \in Choices(frames, [f \in frames |-> Discard(st[f], refuses)]) :
        d = [store |-> [f \in Frame |-> IF f \in frames THEN o[f].s ELSE st[f]],
             refused |-> {f \in frames : ~o[f].ok}]
  BY DEF DiscardAll
<1>2. \A f \in frames : o[f] \in Discard(st[f], refuses)
  BY <1>1 DEF Choices
<1>3. \A f \in frames : st[f] \in Slots
  BY DEF Stores
<1>4. \A f \in frames :
        /\ o[f].s \in Slots
        /\ o[f].ok => o[f].s = Gone
        /\ ~o[f].ok => (o[f].s = Gone <=> st[f] = Gone)
        /\ st[f] = Gone => o[f].s = Gone
        /\ o[f].s = Gone \/ o[f].s.tier = st[f].tier
        /\ refuses = {} => o[f].ok
  BY <1>2, <1>3, DiscardIs
<1>5. /\ d.store = [f \in Frame |-> IF f \in frames THEN o[f].s ELSE st[f]]
      /\ d.refused = {f \in frames : ~o[f].ok}
  BY <1>1
<1>6. d.store \in Stores
  BY <1>4, <1>5 DEF Stores
<1>7. \A f \in Frame : d.store[f] = IF f \in frames THEN o[f].s ELSE st[f]
  BY <1>5
<1> QED
  BY <1>4, <1>5, <1>6, <1>7 DEF Discards

-----------------------------------------------------------------------------
(* A pin taken off a pinned frame; and a frame on which none is owed. *)
Paid(s) == [s EXCEPT !.pins = @ - 1]
Unowed(t) == [s |-> t, owed |-> FALSE, ok |-> TRUE]

(* A pin paid leaves the frame where it is. *)
LEMMA PaidIs ==
  ASSUME NEW s \in Slots, s.pins > 0
  PROVE  /\ Paid(s) \in Slots /\ Paid(s).pins = s.pins - 1 /\ Paid(s).tier = s.tier
         /\ Paid(s) # Gone /\ Paid(s).tier # "Gone" /\ s # Gone
<1>1. s.pins \in Nat /\ s.pins - 1 \in Nat /\ s.pins - 1 <= s.pins /\ s.tier = "Heap"
  BY SlotFacts
<1>2. Paid(s) = [s EXCEPT !.pins = s.pins - 1] /\ Paid(s).pins = s.pins - 1 /\ Paid(s).tier = s.tier
  BY SlotFacts DEF Paid
<1> QED
  BY <1>1, <1>2, SlotsMade DEF Gone

(* What putting one frame back may come to: before anything is known; or,   *)
(* its pin paid or not owed any more, the frame cooled, left alone or       *)
(* refused; or with the pin still owed.                                     *)
Owing(s, m) == m.pinOwed /\ s.pins > 0

(* PutBack, outcome by outcome. *)
LEMMA PutBackComesTo ==
  ASSUME NEW s \in Slots, NEW m, m.pinOwed \in BOOLEAN, NEW refuses,
         NEW o \in PutBack(s, m, refuses)
  PROVE  \/ "ResidencyOf" \in refuses /\ o = [s |-> s, owed |-> m.pinOwed, ok |-> FALSE]
         \/ s = Gone /\ o = [s |-> s, owed |-> m.pinOwed, ok |-> TRUE]
         \/ Owing(s, m) /\ "Release" \in refuses /\ o = [s |-> s, owed |-> TRUE, ok |-> FALSE]
         \/ Owing(s, m) /\ "ResidencyOf" \in refuses /\ o = [s |-> Paid(s), owed |-> FALSE, ok |-> FALSE]
         \/ Owing(s, m) /\ o \in CoolsBack(Unowed(Paid(s)), m.found, refuses)
         \/ ~Owing(s, m) /\ s # Gone /\ o \in CoolsBack(Unowed(s), m.found, refuses)
<1> DEFINE unsure == [s |-> Paid(s), owed |-> FALSE, ok |-> FALSE]
           kept == [s |-> s, owed |-> TRUE, ok |-> FALSE]
<1>1. Residency(s) = "HeapPinned" <=> s.pins > 0
  BY SlotFacts DEF Residency
<1>2. ASSUME s # Gone, NEW q \in PaysPin(s, m.pinOwed, refuses),
             o \in CoolsBack(q, m.found, refuses)
      PROVE  \/ Owing(s, m) /\ "Release" \in refuses /\ o = kept
             \/ Owing(s, m) /\ "ResidencyOf" \in refuses /\ o = unsure
             \/ Owing(s, m) /\ o \in CoolsBack(Unowed(Paid(s)), m.found, refuses)
             \/ ~Owing(s, m) /\ s # Gone /\ o \in CoolsBack(Unowed(s), m.found, refuses)
  <2>1. CASE Owing(s, m)
    <3>1. \/ q = Unowed(Paid(s))
          \/ q = unsure /\ "ResidencyOf" \in refuses
          \/ q = kept /\ "Release" \in refuses
      BY <1>1, <1>2, <2>1 DEF PaysPin, WhenRefused, Unowed, Paid, Owing
    <3>2. q = unsure => o = q
      BY <1>2 DEF CoolsBack
    <3>3. q = kept => o = q
      BY <1>2 DEF CoolsBack
    <3> QED
      BY <1>2, <2>1, <3>1, <3>2, <3>3
  <2>2. CASE ~Owing(s, m)
    <3>1. q = Unowed(s)
      BY <1>1, <1>2, <2>2 DEF PaysPin, Unowed, Owing
    <3> QED
      BY <1>2, <2>2, <3>1
  <2> QED
    BY <2>1, <2>2
<1> QED
  BY <1>2 DEF PutBack, WhenRefused

(* Cooling changes nothing of a frame but that it is spilled. *)
Cooled(o, t, found, refuses) ==
  /\ o.s \in Slots /\ o.s # Gone /\ o.ok \in BOOLEAN /\ o.owed = FALSE
  /\ o.s.pins = t.pins /\ (o.s.tier = "Heap" => t.tier = "Heap")
  /\ o.ok => ~(o.s.tier = "Heap" /\ o.s.pins = 0 /\ found = "Spilled")
  /\ ~o.ok => o.s = t
  /\ refuses = {} => o.ok

(* PutBack's second half only spills, or is refused. *)
LEMMA CoolsBackIs ==
  ASSUME NEW t \in Slots, t # Gone, NEW found, NEW refuses,
         NEW o \in CoolsBack(Unowed(t), found, refuses)
  PROVE  Cooled(o, t, found, refuses)
<1> DEFINE warm == Residency(t) = "HeapEncoded" /\ found = "Spilled"
           cold == [t EXCEPT !.tier = "Spilled"]
<1>1. Residency(t) = "HeapEncoded" <=> t.tier = "Heap" /\ t.pins = 0
  BY SlotFacts DEF Residency
<1>2. CASE ~warm
  <2>1. o = [s |-> t, owed |-> FALSE, ok |-> TRUE]
    BY <1>2 DEF CoolsBack, Unowed
  <2>2. ~(t.tier = "Heap" /\ t.pins = 0 /\ found = "Spilled")
    BY <1>1, <1>2
  <2> QED
    BY <2>1, <2>2 DEF Cooled
<1>3. CASE warm
  <2>1. \/ o = [s |-> cold, owed |-> FALSE, ok |-> TRUE]
        \/ o = [s |-> t, owed |-> FALSE, ok |-> FALSE] /\ refuses # {}
    BY <1>3 DEF CoolsBack, WhenRefused, Unowed
  <2>2. t.pins = 0 /\ t.tier = "Heap"
    BY <1>1, <1>3
  <2>3. cold \in Slots /\ cold.pins = t.pins /\ cold.tier = "Spilled" /\ cold # Gone
    BY <2>2, SlotsMade, SlotFacts DEF Gone
  <2> HIDE DEF cold
  <2>5. CASE o = [s |-> cold, owed |-> FALSE, ok |-> TRUE]
    BY <2>2, <2>3, <2>5 DEF Cooled
  <2>6. CASE o = [s |-> t, owed |-> FALSE, ok |-> FALSE] /\ refuses # {}
    BY <2>6 DEF Cooled
  <2> QED
    BY <2>1, <2>5, <2>6
<1> QED
  BY <1>2, <1>3

(* One frame put back: it is in the store or not as it was; a pin is taken  *)
(* off it at most once, and only where one is owed.                         *)
PaidOnce(o, s, m, refuses) ==
  /\ o.s \in Slots /\ o.ok \in BOOLEAN /\ o.owed \in BOOLEAN
  /\ o.s = Gone <=> s = Gone
  /\ o.owed /\ ~o.ok => m.pinOwed /\ o.s = s /\ ("ResidencyOf" \notin refuses => s.pins > 0)
  /\ o.s.pins # s.pins => m.pinOwed /\ s.pins > 0 /\ o.s.pins = s.pins - 1 /\ ~o.owed
  /\ refuses = {} => o.ok

(* PutBack pays a pin at most once, and none that is not owed. *)
LEMMA PutBackIs ==
  ASSUME NEW s \in Slots, NEW m, m.pinOwed \in BOOLEAN, NEW refuses,
         NEW o \in PutBack(s, m, refuses)
  PROVE  PaidOnce(o, s, m, refuses)
<1>1. Owing(s, m) => /\ Paid(s) \in Slots /\ Paid(s).pins = s.pins - 1 /\ Paid(s) # Gone
                     /\ s # Gone /\ m.pinOwed /\ s.pins > 0
  BY PaidIs DEF Owing
<1>2. CASE "ResidencyOf" \in refuses /\ o = [s |-> s, owed |-> m.pinOwed, ok |-> FALSE]
  BY <1>2 DEF PaidOnce
<1>3. CASE s = Gone /\ o = [s |-> s, owed |-> m.pinOwed, ok |-> TRUE]
  BY <1>3 DEF PaidOnce
<1>4. CASE Owing(s, m) /\ "Release" \in refuses /\ o = [s |-> s, owed |-> TRUE, ok |-> FALSE]
  BY <1>1, <1>4 DEF PaidOnce
<1>5. CASE Owing(s, m) /\ "ResidencyOf" \in refuses /\ o = [s |-> Paid(s), owed |-> FALSE, ok |-> FALSE]
  <2> DEFINE p == Paid(s)
  <2>1. p \in Slots /\ p.pins = s.pins - 1 /\ p # Gone /\ o = [s |-> p, owed |-> FALSE, ok |-> FALSE]
    BY <1>1, <1>5
  <2> HIDE DEF p
  <2> QED
    BY <1>1, <1>5, <2>1 DEF PaidOnce
<1>6. CASE Owing(s, m) /\ o \in CoolsBack(Unowed(Paid(s)), m.found, refuses)
  <2>1. Cooled(o, Paid(s), m.found, refuses)
    BY <1>1, <1>6, CoolsBackIs
  <2>2. o.s.pins = s.pins - 1 /\ o.s # Gone
    BY <1>1, <1>6, <2>1 DEF Cooled
  <2> QED
    BY <1>1, <1>6, <2>1, <2>2 DEF Cooled, PaidOnce
<1>7. CASE ~Owing(s, m) /\ s # Gone /\ o \in CoolsBack(Unowed(s), m.found, refuses)
  <2>1. Cooled(o, s, m.found, refuses)
    BY <1>7, CoolsBackIs
  <2> QED
    BY <1>7, <2>1 DEF Cooled, PaidOnce
<1> QED
  BY <1>2, <1>3, <1>4, <1>5, <1>6, <1>7, PutBackComesTo

(* Put back, a frame is where it was; not put back, it is still written     *)
(* down as what it is.                                                      *)
PlacedBack(o, m, h) ==
  /\ o.ok => Still(o.s, h)
  /\ ~o.ok => /\ o.s.pins <= 1 /\ (o.s.pins = 1 => o.owed)
              /\ o.s.tier = "Heap" /\ h = "Spilled" => m.found = "Spilled"

(* PutBack leaves a frame at home, or what it owes written down. *)
LEMMA PutBackPlaces ==
  ASSUME NEW s \in Slots, NEW m, m.pinOwed \in BOOLEAN, NEW h, NEW refuses,
         Strays(s, m, h), NEW o \in PutBack(s, m, refuses)
  PROVE  PlacedBack(o, m, h)
<1>0. /\ s.pins \in {0, 1} /\ (s.pins = 1 => m.pinOwed)
      /\ (s.tier = "Heap" /\ h = "Spilled" => m.found = "Spilled")
  BY SlotFacts DEF Strays
<1>1. Owing(s, m) => Paid(s) \in Slots /\ Paid(s).pins = 0 /\ Paid(s).tier = s.tier /\ Paid(s) # Gone
  BY <1>0, PaidIs DEF Owing
<1>2. CASE "ResidencyOf" \in refuses /\ o = [s |-> s, owed |-> m.pinOwed, ok |-> FALSE]
  BY <1>0, <1>2 DEF PlacedBack
<1>3. CASE s = Gone /\ o = [s |-> s, owed |-> m.pinOwed, ok |-> TRUE]
  BY <1>3 DEF PlacedBack, Still, Gone
<1>4. CASE Owing(s, m) /\ "Release" \in refuses /\ o = [s |-> s, owed |-> TRUE, ok |-> FALSE]
  BY <1>0, <1>4 DEF PlacedBack
<1>5. CASE Owing(s, m) /\ "ResidencyOf" \in refuses /\ o = [s |-> Paid(s), owed |-> FALSE, ok |-> FALSE]
  <2> DEFINE p == Paid(s)
  <2>1. p.pins = 0 /\ p.tier = s.tier /\ o = [s |-> p, owed |-> FALSE, ok |-> FALSE]
    BY <1>1, <1>5
  <2> HIDE DEF p
  <2> QED
    BY <1>0, <2>1 DEF PlacedBack
<1>6. ASSUME NEW t \in Slots, t # Gone, t.pins = 0, t.tier = s.tier,
             o \in CoolsBack(Unowed(t), m.found, refuses)
      PROVE  PlacedBack(o, m, h)
  <2>1. Cooled(o, t, m.found, refuses)
    BY <1>6, CoolsBackIs
  <2> QED
    BY <1>0, <1>6, <2>1 DEF Still, Cooled, PlacedBack
<1>7. CASE Owing(s, m) /\ o \in CoolsBack(Unowed(Paid(s)), m.found, refuses)
  BY <1>1, <1>6, <1>7
<1>8. CASE ~Owing(s, m) /\ s # Gone /\ o \in CoolsBack(Unowed(s), m.found, refuses)
  <2>1. s.pins = 0
    BY <1>0, <1>8 DEF Owing
  <2> QED
    BY <1>6, <1>8, <2>1
<1> QED
  BY <1>2, <1>3, <1>4, <1>5, <1>7, <1>8, PutBackComesTo

-----------------------------------------------------------------------------
(* Frames written down, put back one by one. *)
BackBy(o, r, M, st, refuses) ==
  /\ \A m \in M : o[m] \in PutBack(st[m.frame], m, refuses)
  /\ r.store = [f \in Frame |-> r.store[f]]
  /\ \A m \in M : r.store[m.frame] = o[m].s
  /\ \A f \in Frame : (\A m \in M : m.frame # f) => r.store[f] = st[f]
  /\ r.misplaced = {[m EXCEPT !.pinOwed = o[m].owed] : m \in {n \in M : ~o[n].ok}}

(* The loop over frames written down is a PutBack of each. *)
LEMMA PutBackAllIs ==
  ASSUME NEW g, NEW M, Borrows(g, M), NEW st \in Stores, NEW refuses,
         NEW r \in PutBackAll(M, st, refuses)
  PROVE  \E o : BackBy(o, r, M, st, refuses)
<1> DEFINE frames == {m.frame : m \in M}
           Of(f) == CHOOSE m \in M : m.frame = f
<1>1. PICK o \in Choices(M, [m \in M |-> PutBack(st[m.frame], m, refuses)]) :
        r = [store |-> [f \in Frame |-> IF f \in frames THEN o[Of(f)].s ELSE st[f]],
             misplaced |-> {[m EXCEPT !.pinOwed = o[m].owed] : m \in {n \in M : ~o[n].ok}}]
  BY DEF PutBackAll
<1>2. \A m \in M : o[m] \in PutBack(st[m.frame], m, refuses)
  BY <1>1 DEF Choices
<1>3. \A m \in M : Of(m.frame) = m /\ m.frame \in Frame
  BY DEF Borrows, Misplaced
<1>4. /\ r.store = [f \in Frame |-> IF f \in frames THEN o[Of(f)].s ELSE st[f]]
      /\ r.misplaced = {[m EXCEPT !.pinOwed = o[m].owed] : m \in {n \in M : ~o[n].ok}}
  BY <1>1
<1>5. \A f \in Frame : r.store[f] = IF f \in frames THEN o[Of(f)].s ELSE st[f]
  BY <1>4
<1>a. \A m \in M : m.frame \in frames
  OBVIOUS
<1>b. \A m \in M : r.store[m.frame] = o[m].s
  BY <1>3, <1>5, <1>a
<1>6. \A f \in Frame : (\A m \in M : m.frame # f) => r.store[f] = st[f]
  BY <1>5
<1>7. r.store = [f \in Frame |-> r.store[f]]
  BY <1>4
<1>8. BackBy(o, r, M, st, refuses)
  BY <1>2, <1>4, <1>b, <1>6, <1>7 DEF BackBy
<1> QED
  BY <1>8

(* What comes of it: only the frames written down are touched, none comes   *)
(* or goes, and those that stay out of place stay written down.             *)
BackTo(r, M, st, refuses) ==
  /\ r.store \in Stores
  /\ \A f \in Frame : r.store[f] = Gone <=> st[f] = Gone
  /\ \A f \in Frame : (\A m \in M : m.frame # f) => r.store[f] = st[f]
  /\ M = {} => r.misplaced = {}
  /\ refuses = {} => r.misplaced = {}

(* So it touches those frames alone. *)
LEMMA PutBackAllGoes ==
  ASSUME NEW g, NEW M, Borrows(g, M), NEW st \in Stores, NEW refuses,
         NEW r \in PutBackAll(M, st, refuses)
  PROVE  BackTo(r, M, st, refuses) /\ Borrows(g, r.misplaced)
<1>1. PICK o : BackBy(o, r, M, st, refuses)
  BY PutBackAllIs
<1>2. \A m \in M : /\ m.frame \in Frame /\ m.pinOwed \in BOOLEAN /\ st[m.frame] \in Slots
                   /\ m \in Misplaced
  BY DEF Borrows, Misplaced, Stores
<1>3. \A m \in M : PaidOnce(o[m], st[m.frame], m, refuses)
  BY <1>1, <1>2, PutBackIs DEF BackBy
<1>4. r.store \in Stores
  <2>1. \A m \in M : r.store[m.frame] \in Slots
    BY <1>1, <1>3 DEF BackBy, PaidOnce
  <2>2. \A f \in Frame : r.store[f] \in Slots
    BY <1>1, <2>1 DEF BackBy, Stores
  <2>3. r.store = [f \in Frame |-> r.store[f]]
    BY <1>1 DEF BackBy
  <2> QED
    BY <2>2, <2>3 DEF Stores
<1>5. \A f \in Frame : r.store[f] = Gone <=> st[f] = Gone
  BY <1>1, <1>3 DEF BackBy, PaidOnce
<1>6. M = {} => r.misplaced = {}
  BY <1>1 DEF BackBy
<1>7. refuses = {} => r.misplaced = {}
  BY <1>1, <1>3 DEF BackBy, PaidOnce
<1>8. \A m \in M : /\ [m EXCEPT !.pinOwed = o[m].owed] \in Misplaced
                   /\ [m EXCEPT !.pinOwed = o[m].owed].frame = m.frame
  BY <1>2, <1>3 DEF PaidOnce, Misplaced
<1> DEFINE Later(m) == [m EXCEPT !.pinOwed = o[m].owed]
<1> HIDE DEF Later
<1>9. Borrows(g, r.misplaced)
  <2>1. r.misplaced = {Later(m) : m \in {n \in M : ~o[n].ok}}
    BY <1>1 DEF BackBy, Later
  <2>2. \A m \in M : Later(m) \in Misplaced /\ Later(m).frame = m.frame
    BY <1>8 DEF Later
  <2>3. \A x \in r.misplaced : \E m \in M : x = Later(m)
    BY <2>1
  <2>4. \A x, y \in r.misplaced : x.frame = y.frame => x = y
    BY <2>2, <2>3 DEF Borrows
  <2>5. \A x \in r.misplaced : x \in Misplaced /\ \E c \in Cell : x.frame = TakenIn(g, c)
    BY <2>2, <2>3 DEF Borrows
  <2> QED
    BY <2>4, <2>5 DEF Borrows
<1> QED
  BY <1>1, <1>4, <1>5, <1>6, <1>7, <1>9 DEF BackBy, BackTo

(* What is written down of a frame somebody holds may be that a pin is owed *)
(* on it once an engine has left one.                                       *)
MayOwe(M, st) ==
  "ResidencyOf" \notin Refuses =>
    \A c \in Cell :
      /\ st[Taken(c)].pins >= held[c]
      /\ \A m \in M : m.frame = Taken(c) /\ m.pinOwed =>
           st[Taken(c)].pins = 0 \/ st[Taken(c)].pins > held[c]

(* With no holder about, frames put back stay accounted for. *)
LEMMA PutBackPlacesAll ==
  ASSUME Around, NEW g, NEW M, Borrows(g, M), NEW st \in Stores, Placed(M, st), NEW refuses,
         NEW r \in PutBackAll(M, st, refuses)
  PROVE  Placed(r.misplaced, r.store)
<1> SUFFICES ASSUME situation.held = 0, NEW c \in Cell
             PROVE  \/ Still(r.store[Taken(c)], home[c])
                    \/ \E m \in r.misplaced : /\ m.frame = Taken(c)
                                              /\ Strays(r.store[Taken(c)], m, home[c])
  BY DEF Placed
<1> DEFINE f == Taken(c)
           h == home[c]
<1>1. PICK o : BackBy(o, r, M, st, refuses)
  BY PutBackAllIs
<1>2. f \in Frame /\ st[f] \in Slots
  BY Names DEF Around, Taken, Stores
<1>3. Still(st[f], h) \/ \E m \in M : m.frame = f /\ Strays(st[f], m, h)
  BY DEF Placed
<1> HIDE DEF f, h
<1>4. CASE \A m \in M : m.frame # f
  <2>1. r.store[f] = st[f] /\ Still(st[f], h)
    BY <1>1, <1>2, <1>3, <1>4 DEF BackBy
  <2> QED
    BY <2>1 DEF f, h
<1>5. ASSUME NEW m \in M, m.frame = f
      PROVE  \/ Still(r.store[f], h)
             \/ \E n \in r.misplaced : n.frame = f /\ Strays(r.store[f], n, h)
  <2>1. Still(st[f], h) => Strays(st[f], m, h)
    BY DEF Still, Strays
  <2>2. Strays(st[f], m, h)
    BY <1>3, <1>5, <2>1 DEF Borrows
  <2>3. m \in Misplaced /\ m.pinOwed \in BOOLEAN
    BY DEF Borrows, Misplaced
  <2>4. o[m] \in PutBack(st[f], m, refuses) /\ r.store[f] = o[m].s
    BY <1>1, <1>5 DEF BackBy
  <2>5. PlacedBack(o[m], m, h) /\ PaidOnce(o[m], st[f], m, refuses)
    BY <1>2, <2>2, <2>3, <2>4, PutBackPlaces, PutBackIs
  <2>6. CASE o[m].ok
    BY <2>4, <2>5, <2>6 DEF PlacedBack
  <2>7. CASE ~o[m].ok
    <3> DEFINE n == [m EXCEPT !.pinOwed = o[m].owed]
    <3>1. n \in r.misplaced
      BY <1>1, <2>7 DEF BackBy
    <3>2. n.frame = f /\ n.found = m.found /\ n.pinOwed = o[m].owed
      BY <1>5, <2>3 DEF Misplaced
    <3> HIDE DEF n
    <3>3. Strays(r.store[f], n, h)
      BY <2>4, <2>5, <2>7, <3>2 DEF PlacedBack, Strays
    <3> QED
      BY <3>1, <3>2, <3>3
  <2> QED
    BY <2>5, <2>6, <2>7 DEF PaidOnce
<1> QED
  BY <1>4, <1>5 DEF f, h

(* With a holder about, frames put back keep the holder's pins. *)
LEMMA PutBackKeeps ==
  ASSUME Around, NEW g, NEW M, Borrows(g, M), NEW st \in Stores, MayOwe(M, st),
         NEW refuses \in SUBSET Refuses, NEW r \in PutBackAll(M, st, refuses)
  PROVE  Keeps(r.misplaced, r.store)
<1> SUFFICES ASSUME "ResidencyOf" \notin Refuses, NEW c \in Cell
             PROVE  /\ r.store[Taken(c)].pins >= held[c]
                    /\ \A m \in r.misplaced : m.frame = Taken(c) /\ m.pinOwed =>
                         r.store[Taken(c)].pins > held[c]
  BY DEF Keeps
<1> DEFINE f == Taken(c)
           h == held[c]
<1>1. PICK o : BackBy(o, r, M, st, refuses)
  BY PutBackAllIs
<1>2. f \in Frame /\ st[f] \in Slots /\ st[f].pins \in Nat /\ h \in Nat
  <2>1. f \in Frame
    BY Names DEF Around, Taken
  <2>2. situation.held \in Nat
    BY PanoramaAssumption DEF Around
  <2>3. h \in Nat
    BY <2>2 DEF Around
  <2> QED
    BY <2>1, <2>3, SlotFacts DEF Stores
<1>3. /\ st[f].pins >= h
      /\ \A m \in M : m.frame = f /\ m.pinOwed => st[f].pins = 0 \/ st[f].pins > h
  BY DEF MayOwe
<1>x. "ResidencyOf" \notin refuses
  OBVIOUS
<1> HIDE DEF f, h
<1>4. ASSUME NEW m \in M, m.frame = f
      PROVE  r.store[f].pins >= h /\ (o[m].owed /\ ~o[m].ok => r.store[f].pins > h)
  <2>1. m.pinOwed \in BOOLEAN
    BY DEF Borrows, Misplaced
  <2>2. o[m] \in PutBack(st[f], m, refuses) /\ r.store[f] = o[m].s
    BY <1>1, <1>4 DEF BackBy
  <2>3. PaidOnce(o[m], st[f], m, refuses)
    BY <1>2, <2>1, <2>2, PutBackIs
  <2> QED
    BY <1>2, <1>3, <1>4, <1>x, <2>2, <2>3 DEF PaidOnce
<1>5. (\A m \in M : m.frame # f) => r.store[f].pins >= h
  BY <1>1, <1>2, <1>3 DEF BackBy
<1>6. ASSUME NEW n \in r.misplaced, n.frame = f, n.pinOwed
      PROVE  r.store[f].pins > h
  <2>1. PICK m \in M : ~o[m].ok /\ n = [m EXCEPT !.pinOwed = o[m].owed]
    BY <1>1 DEF BackBy
  <2>2. n.frame = m.frame /\ n.pinOwed = o[m].owed
    BY <2>1 DEF Borrows, Misplaced
  <2> QED
    BY <1>4, <1>6, <2>1, <2>2
<1> QED
  BY <1>4, <1>5, <1>6 DEF f, h

-----------------------------------------------------------------------------
(* Frames made and given back: the rest of the store is as it was. *)
LEMMA DiscardStocked ==
  ASSUME Around, NEW made, NEW M, NEW st, Stocked(made, M, st), NEW refuses,
         NEW frames \in SUBSET Frame, \A f \in frames : f[1] # "frame",
         NEW d \in DiscardAll(frames, st, refuses),
         NEW left, made \ frames \subseteq left, d.refused \subseteq left
  PROVE  Stocked(left, M, d.store)
<1>1. st \in Stores
  BY DEF Stocked
<1>2. /\ d.store \in Stores
      /\ \A f \in Frame : f \notin frames => d.store[f] = st[f]
      /\ \A f \in Frame : st[f] = Gone => d.store[f] = Gone
      /\ \A f \in frames : f \notin d.refused => d.store[f] = Gone
      /\ \A f \in Frame : d.store[f] = Gone \/ d.store[f].tier = st[f].tier
  <2>1. Discards(d, frames, st, refuses)
    BY <1>1, DiscardAllIs
  <2> QED
    BY <2>1 DEF Discards
<1>3. \A c \in Cell : d.store[Taken(c)] = st[Taken(c)]
  BY <1>2, Names DEF Around, Taken
<1>4. Placed(M, d.store) /\ Keeps(M, d.store)
  BY <1>3 DEF Stocked, Placed, Keeps
<1>5. Accounts(left, d.store)
  <2> SUFFICES ASSUME NEW f \in Frame, d.store[f] # Gone, \A c \in Cell : f # Taken(c)
               PROVE  f \in left /\ d.store[f].tier = "Heap"
    BY DEF Accounts
  <2>1. f \in made /\ st[f].tier = "Heap"
    BY <1>2 DEF Stocked, Accounts
  <2> QED
    BY <1>2, <2>1
<1> QED
  BY <1>2, <1>4, <1>5 DEF Stocked

(* What a build is otherwise. *)
Alike(x, b) ==
  /\ x.capture = b.capture /\ x.stage = b.stage /\ x.frames = b.frames
  /\ x.unread = b.unread /\ x.pairs = b.pairs

Forgotten(o, b, st, refuses) ==
  /\ Sane(o.b, o.store) /\ Alike(o.b, b) /\ o.ok \in BOOLEAN
  /\ o.b.preview = b.preview /\ o.b.misplaced = b.misplaced
  /\ o.ok <=> o.b.features = {}
  /\ b.features = {} => o.ok
  /\ refuses = {} => o.ok
  /\ \A f \in Frame : f \notin b.features => o.store[f] = st[f]

(* ForgetFeatures leaves a build in order, whatever is declined. *)
LEMMA ForgetFeaturesIs ==
  ASSUME Around, NEW b, NEW st, Sane(b, st), NEW refuses, NEW o \in ForgetFeatures(b, st, refuses)
  PROVE  Forgotten(o, b, st, refuses)
<1>1. PICK d \in DiscardAll(b.features, st, refuses) :
        o = [b |-> [b EXCEPT !.features = d.refused], store |-> d.store, ok |-> d.refused = {}]
  BY DEF ForgetFeatures
<1>2. b \in Build /\ b.features \in SUBSET Frame /\ st \in Stores /\ \A f \in b.features : f[1] # "frame"
  BY Names DEF Sane, Shaped, Stocked, Build
<1>3. /\ d.refused \in SUBSET b.features
      /\ \A f \in Frame : f \notin b.features => d.store[f] = st[f]
      /\ refuses = {} => d.refused = {}
  <2>1. Discards(d, b.features, st, refuses)
    BY <1>2, DiscardAllIs
  <2> QED
    BY <2>1 DEF Discards
<1>4. Stocked(d.refused \cup b.preview, b.misplaced, d.store)
  BY <1>2, <1>3, DiscardStocked DEF Sane
<1> DEFINE x == [b EXCEPT !.features = d.refused]
<1>5. /\ x \in Build /\ Alike(x, b) /\ x.features = d.refused
      /\ x.preview = b.preview /\ x.misplaced = b.misplaced
  BY <1>2, <1>3 DEF Build, Alike
<1>6. o.b = x /\ o.store = d.store /\ o.ok = (d.refused = {})
  BY <1>1
<1> HIDE DEF x
<1>7. Shaped(x)
  BY <1>2, <1>3, <1>5 DEF Sane, Shaped, Alike, PreviewOf
<1>8. Sane(x, d.store)
  BY <1>4, <1>5, <1>7 DEF Sane
<1>9. b.features = {} => d.refused = {}
  BY <1>3
<1> QED
  BY <1>3, <1>5, <1>6, <1>8, <1>9 DEF Forgotten

(* A preview not given back is still there. *)
Unshown(o, b, st, refuses) ==
  /\ Sane(o.b, o.store) /\ Alike(o.b, b) /\ o.ok \in BOOLEAN
  /\ o.b.features = b.features /\ o.b.misplaced = b.misplaced
  /\ o.b.preview \subseteq b.preview /\ (o.ok <=> o.b.preview = {})
  /\ refuses = {} => o.ok
  /\ \A f \in o.b.preview : st[f] # Gone => o.store[f] # Gone

(* GiveBackPreview leaves a build in order, whatever is declined. *)
LEMMA GiveBackPreviewIs ==
  ASSUME Around, NEW b, NEW st, Sane(b, st), NEW refuses, NEW o \in GiveBackPreview(b, st, refuses)
  PROVE  Unshown(o, b, st, refuses)
<1>1. PICK d \in DiscardAll(b.preview, st, refuses) :
        o = [b |-> [b EXCEPT !.preview = d.refused], store |-> d.store, ok |-> d.refused = {}]
  BY DEF GiveBackPreview
<1>2. b \in Build /\ b.preview \in SUBSET Frame /\ st \in Stores /\ \A f \in b.preview : f[1] # "frame"
  BY DEF Sane, Shaped, Stocked, Build, PreviewOf
<1>3. /\ d.refused \in SUBSET b.preview
      /\ \A f \in b.preview : f \in d.refused /\ st[f] # Gone => d.store[f] # Gone
      /\ refuses = {} => d.refused = {}
  <2>1. Discards(d, b.preview, st, refuses)
    BY <1>2, DiscardAllIs
  <2> QED
    BY <2>1 DEF Discards
<1>4. Stocked(b.features \cup d.refused, b.misplaced, d.store)
  BY <1>2, <1>3, DiscardStocked DEF Sane
<1> DEFINE x == [b EXCEPT !.preview = d.refused]
<1>5. /\ x \in Build /\ Alike(x, b) /\ x.preview = d.refused
      /\ x.features = b.features /\ x.misplaced = b.misplaced
  BY <1>2, <1>3 DEF Build, Alike
<1>6. o.b = x /\ o.store = d.store /\ o.ok = (d.refused = {})
  BY <1>1
<1> HIDE DEF x
<1>7. Shaped(x)
  BY <1>2, <1>3, <1>5 DEF Sane, Shaped, Alike, PreviewOf
<1>8. Sane(x, d.store)
  BY <1>4, <1>5, <1>7 DEF Sane
<1> QED
  BY <1>3, <1>5, <1>6, <1>8 DEF Unshown

(* Frames put back leave the store in order. *)
LEMMA PutBackStocked ==
  ASSUME Around, NEW g, NEW made, NEW M, Borrows(g, M), NEW st \in Stores,
         Accounts(made, st), Placed(M, st), MayOwe(M, st),
         \A f \in made : f[1] # "frame",
         NEW refuses \in SUBSET Refuses, NEW r \in PutBackAll(M, st, refuses)
  PROVE  Stocked(made, r.misplaced, r.store)
<1>1. BackTo(r, M, st, refuses)
  BY PutBackAllGoes
<1>2. Placed(r.misplaced, r.store) /\ Keeps(r.misplaced, r.store)
  BY PutBackPlacesAll, PutBackKeeps
<1>3. Accounts(made, r.store)
  <2> SUFFICES ASSUME NEW f \in Frame, r.store[f] # Gone, \A c \in Cell : f # Taken(c)
               PROVE  f \in made /\ r.store[f].tier = "Heap"
    BY DEF Accounts
  <2>1. f \in made /\ st[f].tier = "Heap"
    BY <1>1 DEF BackTo, Accounts
  <2>2. \A m \in M : m.frame # f
    BY <2>1 DEF Borrows, TakenIn
  <2> QED
    BY <1>1, <2>1, <2>2 DEF BackTo
<1> QED
  BY <1>1, <1>2, <1>3 DEF Stocked, BackTo

(* Everything a build holds, tried: what it is left with is still in order,  *)
(* nothing where every call was heard, and a panorama that would not go is   *)
(* still the build's.                                                        *)
Whole(b) == b.features = {} /\ b.misplaced = {} /\ b.preview = {PreviewOf(b)}
GivenBack(o, b, st, refuses) ==
  /\ Sane(o.b, o.store) /\ Alike(o.b, b) /\ o.ok \in BOOLEAN
  /\ o.ok => o.b.features = {} /\ o.b.preview = {} /\ o.b.misplaced = {}
  /\ refuses = {} => o.ok
  /\ Whole(b) /\ ~o.ok => /\ Whole(o.b)
                          /\ st[PreviewOf(b)] # Gone => o.store[PreviewOf(b)] # Gone

(* Release leaves a build in order, whatever is declined. *)
LEMMA GiveBackIs ==
  ASSUME Around, NEW b, NEW st, Sane(b, st), NEW refuses \in SUBSET Refuses,
         NEW o \in GiveBack(b, st, refuses)
  PROVE  GivenBack(o, b, st, refuses)
<1> DEFINE Answer(f, p, m) == [b |-> [p.b EXCEPT !.misplaced = m.misplaced], store |-> m.store,
                               ok |-> f.ok /\ p.ok /\ m.misplaced = {}]
<1>a. PICK f \in ForgetFeatures(b, st, refuses) :
        \E p \in GiveBackPreview(f.b, f.store, refuses) :
          \E m \in PutBackAll(b.misplaced, p.store, refuses) : o = Answer(f, p, m)
  BY DEF GiveBack
<1>b. PICK p \in GiveBackPreview(f.b, f.store, refuses) :
        \E m \in PutBackAll(b.misplaced, p.store, refuses) : o = Answer(f, p, m)
  BY <1>a
<1>1. PICK m \in PutBackAll(b.misplaced, p.store, refuses) : o = Answer(f, p, m)
  BY <1>b
<1>2. Forgotten(f, b, st, refuses)
  BY ForgetFeaturesIs
<1>3. Unshown(p, f.b, f.store, refuses)
  <2>1. Sane(f.b, f.store)
    BY <1>2 DEF Forgotten
  <2> QED
    BY <2>1, GiveBackPreviewIs
<1>4. Sane(p.b, p.store) /\ p.b.misplaced = b.misplaced /\ p.b.capture = b.capture /\ Alike(p.b, b)
  BY <1>2, <1>3 DEF Forgotten, Unshown, Alike
<1> DEFINE made == p.b.features \cup p.b.preview
<1>5. /\ Borrows(b.capture, b.misplaced) /\ p.store \in Stores /\ Accounts(made, p.store)
      /\ Placed(b.misplaced, p.store) /\ MayOwe(b.misplaced, p.store)
  BY <1>4 DEF Sane, Shaped, Stocked, Keeps, MayOwe
<1>6. \A x \in made : x[1] # "frame"
  BY <1>4, Names DEF Sane, Shaped, PreviewOf
<1>7. BackTo(m, b.misplaced, p.store, refuses) /\ Borrows(b.capture, m.misplaced)
  BY <1>5, PutBackAllGoes
<1>8. Stocked(made, m.misplaced, m.store)
  BY <1>5, <1>6, PutBackStocked
<1> DEFINE x == [p.b EXCEPT !.misplaced = m.misplaced]
<1>9. /\ x \in Build /\ Alike(x, b) /\ x.misplaced = m.misplaced
      /\ x.features = p.b.features /\ x.preview = p.b.preview
  BY <1>4, <1>7 DEF Sane, Shaped, Borrows, Build, Alike
<1>10. o.b = x /\ o.store = m.store /\ o.ok = (f.ok /\ p.ok /\ m.misplaced = {})
  BY <1>1
<1> HIDE DEF x
<1>11. Sane(x, m.store)
  <2>1. Shaped(x)
    BY <1>4, <1>7, <1>9 DEF Sane, Shaped, Alike, PreviewOf
  <2> QED
    BY <1>8, <1>9, <2>1 DEF Sane
<1>12. o.ok => x.features = {} /\ x.preview = {} /\ x.misplaced = {}
  BY <1>2, <1>3, <1>9, <1>10 DEF Forgotten, Unshown
<1>13. refuses = {} => o.ok
  BY <1>2, <1>3, <1>7, <1>10 DEF Forgotten, Unshown, BackTo
<1>14. ASSUME Whole(b), ~o.ok
       PROVE  Whole(x) /\ (st[PreviewOf(b)] # Gone => m.store[PreviewOf(b)] # Gone)
  <2>1. f.ok /\ f.b.features = {} /\ m.misplaced = {}
    BY <1>2, <1>7, <1>14 DEF Forgotten, BackTo, Whole
  <2>2. ~p.ok
    BY <1>10, <1>14, <2>1
  <2>3. p.b.preview = {PreviewOf(b)}
    BY <1>2, <1>3, <1>14, <2>2 DEF Forgotten, Unshown, Whole
  <2>4. PreviewOf(b) \in Frame /\ PreviewOf(b) \notin b.features
    BY <1>4, <1>14, Names DEF Sane, Shaped, Build, PreviewOf, Whole, Alike
  <2>5. f.store[PreviewOf(b)] = st[PreviewOf(b)]
    BY <1>2, <2>4 DEF Forgotten
  <2>6. f.store[PreviewOf(b)] # Gone => m.store[PreviewOf(b)] # Gone
    BY <1>3, <1>7, <2>3, <2>4 DEF Unshown, BackTo
  <2>7. PreviewOf(x) = PreviewOf(b)
    BY <1>9 DEF Alike, PreviewOf
  <2>8. x.features = {}
    BY <1>3, <1>9, <2>1 DEF Unshown
  <2> QED
    BY <1>9, <2>1, <2>3, <2>5, <2>6, <2>7, <2>8 DEF Whole
<1> QED
  BY <1>9, <1>10, <1>11, <1>12, <1>13, <1>14 DEF GivenBack

(* Nothing held is nothing left. *)
LEMMA ClearIs ==
  ASSUME NEW b, NEW st, Sane(b, st), b.features = {}, b.preview = {}, b.misplaced = {}
  PROVE  Clear(st)
<1>1. b.features \cup b.preview = {}
  OBVIOUS
<1> QED
  BY <1>1 DEF Sane, Clear

(* A store without a build is as the capture left it. *)
LEMMA ClearRestores ==
  ASSUME Around, NEW st, Clear(st)
  PROVE  Restored(st)
<1>1. \A f \in Frame : st[f] # Gone => f = TakenIn(capture, f[3])
  BY DEF Clear, Stocked, Accounts, Taken, TakenIn
<1>2. situation.held = 0 => InPlace(st)
  BY DEF Clear, Stocked, Placed, Still, InPlace, Around
<1> QED
  BY <1>1, <1>2 DEF Restored

-----------------------------------------------------------------------------
(* An engine leaves a frame it reads as it is, or in the heap, with at most *)
(* one more pin on it.                                                      *)
ReadOnly(frames, st, after) ==
  /\ after \in Stores
  /\ \A f \in Frame : f[1] = "frame" =>
       \/ after[f] = st[f]
       \/ f \in frames /\ after[f] \in {InHeap(st[f].pins), InHeap(st[f].pins + 1)}

(* An engine leaves at most one pin of its own. *)
LEMMA LeavesIs ==
  ASSUME NEW pins \in Nat, NEW n \in Leaves(pins)
  PROVE  n \in Nat /\ n \in {pins, pins + 1}
BY DEF Leaves, WhenRefused

(* So what is written down of the frames lent says where they belong. *)
LentRight(g, M, after) == Borrows(g, M) /\ Placed(M, after) /\ MayOwe(M, after)

(* Lent writes down, before an engine reads, all that PutBack needs. *)
LEMMA LentIs ==
  ASSUME Around, NEW g \in 1..MaxCaptures, NEW cells \in SUBSET Cell, NEW st \in Stores,
         Placed({}, st), Keeps({}, st), NEW after,
         \A c \in cells : st[TakenIn(g, c)] # Gone,
         ReadOnly({TakenIn(g, c) : c \in cells}, st, after)
  PROVE  LentRight(g, Lent(st, {TakenIn(g, c) : c \in cells}), after)
<1> DEFINE frames == {TakenIn(g, c) : c \in cells}
           M == Lent(st, frames)
<1>1. \A f \in frames : f \in Frame /\ st[f] \in Slots /\ st[f] # Gone
  BY Names DEF Stores
<1>2. \A f \in frames : Residency(st[f]) \in {"HeapPinned", "HeapEncoded", "Spilled"}
  BY <1>1, SlotFacts DEF Residency
<1>3. \A m \in M : /\ m.frame \in frames /\ m.found = Residency(st[m.frame])
                   /\ m.pinOwed = (Residency(st[m.frame]) # "HeapPinned")
                   /\ m = [frame |-> m.frame, found |-> Residency(st[m.frame]),
                           pinOwed |-> Residency(st[m.frame]) # "HeapPinned"]
  BY DEF Lent
<1>4. \A f \in frames : [frame |-> f, found |-> Residency(st[f]),
                         pinOwed |-> Residency(st[f]) # "HeapPinned"] \in M
  BY DEF Lent
<1>5. Borrows(g, M)
  <2>1. M \subseteq Misplaced
    <3> HIDE DEF M, frames
    <3> SUFFICES ASSUME NEW m \in M
                 PROVE  m \in Misplaced
      OBVIOUS
    <3> DEFINE which == m.frame
               where == Residency(st[which])
               owed == where # "HeapPinned"
    <3>1. /\ which \in Frame /\ where \in {"HeapPinned", "HeapEncoded", "Spilled"}
          /\ owed \in BOOLEAN
      BY <1>1, <1>2, <1>3
    <3>2. m = [frame |-> which, found |-> where, pinOwed |-> owed]
      BY <1>3
    <3> HIDE DEF which, where, owed
    <3>3. [frame |-> which, found |-> where, pinOwed |-> owed] \in Misplaced
      BY <3>1 DEF Misplaced
    <3> QED
      BY <3>2, <3>3
  <2>2. \A m \in M : \E c \in Cell : m.frame = TakenIn(g, c)
    BY <1>3
  <2>3. \A m, n \in M : m.frame = n.frame => m = n
    BY <1>3
  <2> HIDE DEF M
  <2> QED
    BY <2>1, <2>2, <2>3 DEF Borrows
<1> HIDE DEF M
<1>6. \A f \in frames : Residency(st[f]) # "HeapPinned" <=> st[f].pins = 0
  BY <1>1, SlotFacts DEF Residency
<1>7. \A c \in Cell : /\ Taken(c) \in Frame /\ Taken(c)[1] = "frame"
                      /\ st[Taken(c)] \in Slots /\ st[Taken(c)].pins \in Nat
  BY Names, SlotFacts DEF Around, Taken, Stores
<1>8. ASSUME NEW c \in Cell
      PROVE  \/ after[Taken(c)] = st[Taken(c)]
             \/ /\ Taken(c) \in frames
                /\ after[Taken(c)] \in {InHeap(st[Taken(c)].pins), InHeap(st[Taken(c)].pins + 1)}
  BY <1>7 DEF ReadOnly
<1>9. Placed(M, after)
  <2> SUFFICES ASSUME situation.held = 0, NEW c \in Cell
               PROVE  \/ Still(after[Taken(c)], home[c])
                      \/ \E m \in M : m.frame = Taken(c) /\ Strays(after[Taken(c)], m, home[c])
    BY DEF Placed
  <2> DEFINE f == Taken(c)
             h == home[c]
  <2>1. Still(st[f], h)
    BY DEF Placed
  <2>2. CASE after[f] = st[f]
    BY <2>1, <2>2
  <2>3. CASE f \in frames /\ after[f] \in {InHeap(st[f].pins), InHeap(st[f].pins + 1)}
    <3> DEFINE m == [frame |-> f, found |-> Residency(st[f]),
                     pinOwed |-> Residency(st[f]) # "HeapPinned"]
    <3>1. m \in M /\ m.frame = f
      BY <1>4, <2>3
    <3>2. st[f].pins = 0
      BY <2>1 DEF Still
    <3>3. m.pinOwed = TRUE
      BY <1>6, <2>3, <3>2
    <3>4. h = "Spilled" => m.found = "Spilled"
      BY <1>7, <2>1, <2>3, <1>1, SlotFacts DEF Still, Residency
    <3>5. after[f].pins <= 1
      BY <2>3, <3>2 DEF InHeap
    <3> HIDE DEF m
    <3>6. Strays(after[f], m, h)
      BY <3>3, <3>4, <3>5 DEF Strays
    <3> QED
      BY <3>1, <3>6
  <2> QED
    BY <1>8, <2>2, <2>3
<1>10. MayOwe(M, after)
  <2> SUFFICES ASSUME "ResidencyOf" \notin Refuses, NEW c \in Cell
               PROVE  /\ after[Taken(c)].pins >= held[c]
                      /\ \A m \in M : m.frame = Taken(c) /\ m.pinOwed =>
                           after[Taken(c)].pins = 0 \/ after[Taken(c)].pins > held[c]
    BY DEF MayOwe
  <2> DEFINE f == Taken(c)
             h == held[c]
             n == st[f].pins
  <2>0. situation.held \in Nat
    BY PanoramaAssumption DEF Around
  <2>1. n >= h /\ h \in Nat /\ n \in Nat
    BY <1>7, <2>0 DEF Keeps, Around
  <2>2. after[f].pins \in {n, n + 1}
    BY <1>8 DEF InHeap
  <2>3. ASSUME NEW m \in M, m.frame = f, m.pinOwed
        PROVE  n = 0
    BY <1>3, <1>6, <2>3
  <2> HIDE DEF f, h, n
  <2>4. after[f].pins >= h
    BY <2>1, <2>2
  <2>5. n = 0 => after[f].pins = 0 \/ after[f].pins > h
    BY <2>1, <2>2
  <2> QED
    BY <2>3, <2>4, <2>5 DEF f, h
<1> QED
  BY <1>5, <1>9, <1>10 DEF LentRight, M

(* An engine's answer to an extraction: the frame read, and frames made. *)
Extracted(e, b, st, c) ==
  /\ ReadOnly({TakenIn(b.capture, c)}, st, e.store) /\ e.ok \in BOOLEAN
  /\ e.features \in SUBSET FeaturesOf(b, c)
  /\ Accounts(b.features \cup e.features \cup b.preview, e.store)

(* One frame read is a store read only. *)
LEMMA ReadIs ==
  ASSUME NEW st \in Stores, NEW f \in Frame, st[f] # Gone,
         NEW left \in Leaves(st[f].pins)
  PROVE  /\ [st EXCEPT ![f] = InHeap(left)] \in Stores
         /\ ReadOnly({f}, st, [st EXCEPT ![f] = InHeap(left)])
         /\ ReadOnly({f}, st, st)
<1>1. st[f].pins \in Nat
  BY SlotFacts DEF Stores
<1>2. left \in Nat /\ left \in {st[f].pins, st[f].pins + 1}
  BY <1>1, LeavesIs
<1>3. InHeap(left) \in Slots
  BY <1>2, SlotsMade
<1>4. [st EXCEPT ![f] = InHeap(left)] \in Stores
  BY <1>3 DEF Stores
<1>5. ReadOnly({f}, st, [st EXCEPT ![f] = InHeap(left)])
  BY <1>2, <1>4 DEF ReadOnly, Stores
<1> QED
  BY <1>4, <1>5 DEF ReadOnly

(* ExtractFeatures of the engine reads one frame and makes its two. *)
LEMMA ExtractionIs ==
  ASSUME Around, NEW b, NEW st, Sane(b, st), NEW c \in Cell,
         st[TakenIn(b.capture, c)] # Gone, NEW e \in Extraction(b, st, c)
  PROVE  Extracted(e, b, st, c)
<1> DEFINE f == TakenIn(b.capture, c)
           made == b.features \cup b.preview
           read == {[st EXCEPT ![f] = InHeap(left)] : left \in Leaves(st[f].pins)}
           Filled(r, left) == [x \in Frame |-> IF x \in FeaturesOf(b, c) THEN InHeap(left[x[1]])
                                               ELSE r[x]]
<1>1. b.capture \in 1..MaxCaptures /\ st \in Stores /\ Accounts(made, st)
  BY DEF Sane, Shaped, Stocked, Build
<1>2. f \in Frame /\ st[f] # Gone
  BY <1>1, Names
<1>3. /\ f \notin made /\ \E k \in Cell : f = Taken(k)
      /\ \A x \in FeaturesOf(b, c) : x \in Frame /\ x[1] \in Made /\ x[1] # "frame"
  <2>1. f \notin made
    BY <1>1, Names DEF Sane, Shaped, PreviewOf
  <2>2. \E k \in Cell : f = Taken(k)
    BY <1>1, <1>2, <2>1 DEF Accounts
  <2>3. \A x \in FeaturesOf(b, c) : x \in Frame /\ x[1] \in Made /\ x[1] # "frame"
    BY <1>1, Names DEF FeaturesOf
  <2> QED
    BY <2>1, <2>2, <2>3
<1>4. \A r \in read \cup {st} : r \in Stores /\ ReadOnly({f}, st, r) /\ Accounts(made, r)
  <2>1. ASSUME NEW left \in Leaves(st[f].pins)
        PROVE  LET r == [st EXCEPT ![f] = InHeap(left)]
               IN  r \in Stores /\ ReadOnly({f}, st, r) /\ Accounts(made, r)
    <3> DEFINE r == [st EXCEPT ![f] = InHeap(left)]
    <3>1. r \in Stores /\ ReadOnly({f}, st, r)
      BY <1>1, <1>2, ReadIs
    <3>2. \A x \in Frame : x # f => r[x] = st[x]
      BY <1>1 DEF Stores
    <3> HIDE DEF r
    <3>3. Accounts(made, r)
      BY <1>1, <1>3, <3>2 DEF Accounts
    <3> QED
      BY <3>1, <3>3 DEF r
  <2>2. ReadOnly({f}, st, st)
    BY <1>1 DEF ReadOnly
  <2> QED
    BY <1>1, <2>1, <2>2
<1>5. \/ /\ e.store \in read \cup {st} /\ e.features = {} /\ e.ok \in BOOLEAN
      \/ /\ e.features = FeaturesOf(b, c) /\ e.ok = TRUE
         /\ \E r \in read, left \in [Made -> Leaves(0)] : e.store = Filled(r, left)
  <2>1. \/ \E r \in read \cup {st}, ok \in {FALSE} : e = [store |-> r, features |-> {}, ok |-> ok]
        \/ \E r \in read : e = [store |-> r, features |-> {}, ok |-> TRUE]
        \/ \E r \in read, left \in [Made -> Leaves(0)] :
             e = [store |-> Filled(r, left), features |-> FeaturesOf(b, c), ok |-> TRUE]
    BY DEF Extraction
  <2> HIDE DEF read, Filled
  <2>2. ASSUME NEW r \in read \cup {st}, NEW ok \in BOOLEAN,
               e = [store |-> r, features |-> {}, ok |-> ok]
        PROVE  e.store \in read \cup {st} /\ e.features = {} /\ e.ok \in BOOLEAN
    BY <2>2
  <2>3. ASSUME NEW r \in read, NEW left \in [Made -> Leaves(0)],
               e = [store |-> Filled(r, left), features |-> FeaturesOf(b, c), ok |-> TRUE]
        PROVE  e.features = FeaturesOf(b, c) /\ e.ok = TRUE /\ e.store = Filled(r, left)
    BY <2>3
  <2> QED
    BY <2>1, <2>2, <2>3
<1>6. CASE e.store \in read \cup {st} /\ e.features = {} /\ e.ok \in BOOLEAN
  <2>1. b.features \cup e.features \cup b.preview = made
    BY <1>6
  <2>2. ReadOnly({f}, st, e.store) /\ Accounts(made, e.store)
    BY <1>4, <1>6
  <2> QED
    BY <1>6, <2>1, <2>2 DEF Extracted
<1>7. ASSUME NEW r \in read, NEW left \in [Made -> Leaves(0)], e.store = Filled(r, left),
             e.features = FeaturesOf(b, c), e.ok = TRUE
      PROVE  Extracted(e, b, st, c)
  <2>1. r \in Stores /\ ReadOnly({f}, st, r) /\ Accounts(made, r)
    BY <1>4
  <2>2. \A x \in FeaturesOf(b, c) : /\ InHeap(left[x[1]]) \in Slots
                                    /\ InHeap(left[x[1]]).tier = "Heap"
    BY <1>3, SlotsMade, LeavesIs DEF InHeap
  <2>3. /\ e.store = [x \in Frame |-> e.store[x]]
        /\ \A x \in FeaturesOf(b, c) : e.store[x] \in Slots /\ e.store[x].tier = "Heap"
        /\ \A x \in Frame : x \notin FeaturesOf(b, c) => e.store[x] = r[x]
    BY <1>3, <1>7, <2>2
  <2>4. e.store \in Stores
    BY <2>1, <2>3 DEF Stores
  <2>5. ReadOnly({f}, st, e.store)
    BY <1>3, <2>1, <2>3, <2>4 DEF ReadOnly
  <2>6. Accounts(b.features \cup e.features \cup b.preview, e.store)
    BY <1>7, <2>1, <2>3 DEF Accounts
  <2> QED
    BY <1>7, <2>5, <2>6 DEF Extracted
<1> QED
  BY <1>5, <1>6, <1>7

-----------------------------------------------------------------------------
(* A call of the manager leaves alone what is around it, so the build and   *)
(* the store it ends with are judged by what was there before.              *)
Ends(b, st) == IF b = NoBuild THEN Clear(st) ELSE Sane(b, st) /\ Phase(b, st)

(* The invariant holds after a call that ends in order. *)
LEMMA CallKeeps ==
  ASSUME Around, Ends(build', store'), UNCHANGED others
  PROVE  BuildIInv'
<1>1. UNCHANGED <<situation, capture, held, home>>
  BY DEF others
<1>2. Around'
  BY <1>1 DEF Around
<1>3. Clear(store') => Clear(store)'
  BY <1>1 DEF Clear, Stocked, Accounts, Placed, Keeps, Refuses, Taken, TakenIn
<1>4. Sane(build', store') => Sane(build, store)'
  BY <1>1 DEF Sane, Shaped, Stocked, Accounts, Placed, Keeps, Refuses, Taken, TakenIn
<1>5. Phase(build', store') => Phase(build, store)'
  BY <1>1 DEF Phase, PreviewOf
<1> QED
  BY <1>2, <1>3, <1>4, <1>5 DEF Ends, BuildIInv

(* What a step of a poll may come to: in order either way, and where it is  *)
(* answered for, as far as the stage then reported says.                    *)
Outcome(o) ==
  Sane(o.b, o.store) /\ o.ok \in BOOLEAN /\ (o.ok => Phase(Report(o.b), o.store))

(* Report changes the stage and nothing else. *)
LEMMA ReportIs ==
  ASSUME NEW b, NEW st, Sane(b, st), b.stage \in Unfinished
  PROVE  /\ Sane(Report(b), st) /\ Report(b) # NoBuild
         /\ Report(b).stage = IF b.unread # {} THEN "Features"
                              ELSE IF b.pairs # {} THEN "PairwiseMatching" ELSE Following[b.stage]
         /\ Report(b).capture = b.capture /\ Report(b).unread = b.unread
         /\ Report(b).pairs = b.pairs /\ Report(b).features = b.features
         /\ Report(b).preview = b.preview /\ Report(b).misplaced = b.misplaced
<1> DEFINE stage == IF b.unread # {} THEN "Features"
                    ELSE IF b.pairs # {} THEN "PairwiseMatching" ELSE Following[b.stage]
           x == [b EXCEPT !.stage = stage]
<1>1. b \in Build /\ stage \in Unfinished \cup Finished
  BY DEF Sane, Shaped, Following, Unfinished, Finished
<1>2. Report(b) = x
  BY DEF Report
<1> HIDE DEF stage
<1>3. /\ x \in Build /\ x.stage = stage /\ x.capture = b.capture /\ x.unread = b.unread
      /\ x.pairs = b.pairs /\ x.features = b.features
      /\ x.preview = b.preview /\ x.misplaced = b.misplaced
  BY <1>1 DEF Build
<1> HIDE DEF x
<1>4. Sane(x, st)
  BY <1>3 DEF Sane, Shaped, PreviewOf
<1>5. x # NoBuild
  BY <1>3, MarkersAssumption
<1> QED
  BY <1>2, <1>3, <1>4, <1>5 DEF stage

(* A build that ended: nothing more is asked of it than that it is in order. *)
LEMMA FailedIs ==
  ASSUME NEW b, NEW st, Sane(b, st)
  PROVE  Ends([b EXCEPT !.stage = "Failed"], st)
<1> DEFINE x == [b EXCEPT !.stage = "Failed"]
<1>1. b \in Build
  BY DEF Sane, Shaped
<1>2. /\ x \in Build /\ x.stage = "Failed" /\ x.capture = b.capture
      /\ x.features = b.features /\ x.preview = b.preview /\ x.misplaced = b.misplaced
  BY <1>1 DEF Build, Finished
<1> HIDE DEF x
<1>3. Sane(x, st)
  BY <1>2 DEF Sane, Shaped, PreviewOf
<1>4. Phase(x, st)
  BY <1>2 DEF Phase, Unfinished
<1> QED
  BY <1>2, <1>3, <1>4, MarkersAssumption DEF Ends, x

(* A poll keeps the invariant if its step does. *)
LEMMA PollKeeps ==
  ASSUME Around, NEW outcomes, \A o \in outcomes : Outcome(o) /\ o.b.stage \in Unfinished,
         Poll(outcomes)
  PROVE  BuildIInv'
<1>1. UNCHANGED others
  BY DEF Poll
<1>2. PICK o \in outcomes :
        IF o.ok THEN build' = Report(o.b) /\ store' = o.store
        ELSE \E given \in ForgetFeatures(o.b, o.store, Refuses) :
               build' = [given.b EXCEPT !.stage = "Failed"] /\ store' = given.store
  BY DEF Poll
<1>3. Sane(o.b, o.store) /\ o.b.stage \in Unfinished /\ (o.ok => Phase(Report(o.b), o.store))
  BY DEF Outcome
<1>4. CASE o.ok
  <2>1. Sane(Report(o.b), o.store) /\ Report(o.b) # NoBuild
    BY <1>3, ReportIs
  <2>2. Ends(build', store')
    BY <1>2, <1>3, <1>4, <2>1 DEF Ends
  <2> QED
    BY <1>1, <2>2, CallKeeps
<1>5. CASE ~o.ok
  <2>1. PICK given \in ForgetFeatures(o.b, o.store, Refuses) :
          build' = [given.b EXCEPT !.stage = "Failed"] /\ store' = given.store
    BY <1>2, <1>5
  <2>2. Forgotten(given, o.b, o.store, Refuses)
    BY <1>3, ForgetFeaturesIs
  <2>3. Sane(given.b, given.store)
    BY <2>2 DEF Forgotten
  <2>4. Ends([given.b EXCEPT !.stage = "Failed"], given.store)
    BY <2>3, FailedIs
  <2> QED
    BY <1>1, <2>1, <2>4, CallKeeps
<1> QED
  BY <1>4, <1>5

-----------------------------------------------------------------------------
(* The steps of a poll.  A build that goes on, and one that is refused. *)
OnIts(b, st, stage) == Sane(b, st) /\ Phase(b, st) /\ b.stage = stage
Step(o) == Outcome(o) /\ o.b.stage \in Unfinished

(* A step that fails before it has done anything is in order. *)
LEMMA FailsIs ==
  ASSUME NEW b, NEW st, Sane(b, st), b.stage \in Unfinished, NEW o, o = Fails(b, st)
  PROVE  Step(o)
BY DEF Step, Outcome, Fails

(* The frame read is put back, or the build that cannot put it back ends. *)
LEMMA ExtractOneIs ==
  ASSUME Around, NEW b, NEW st, OnIts(b, st, "Features"), NEW c \in b.unread,
         NEW o \in ExtractOne(b, st, c)
  PROVE  Step(o)
<1> DEFINE f == TakenIn(b.capture, c)
           M == Lent(st, {f})
<1>1. /\ Sane(b, st) /\ b \in Build /\ c \in Cell /\ b.stage \in Unfinished /\ st \in Stores
      /\ b.capture \in 1..MaxCaptures /\ b.misplaced = {} /\ b.preview = {} /\ b.stage = "Features"
  BY DEF OnIts, Phase, Sane, Shaped, Stocked, Build, Unfinished
<1>2. CASE o = Fails(b, st)
  BY <1>1, <1>2, FailsIs
<1>3. ASSUME st[f] # Gone, NEW e \in Extraction(b, st, c),
             NEW p \in PutBackAll(M, e.store, Refuses),
             o = [b |-> [b EXCEPT !.unread = @ \ {c}, !.features = @ \cup e.features,
                                  !.misplaced = @ \cup p.misplaced],
                  store |-> p.store, ok |-> e.ok /\ p.misplaced = {}]
      PROVE  Step(o)
  <2>1. Extracted(e, b, st, c)
    BY <1>1, <1>3, ExtractionIs
  <2> DEFINE made == b.features \cup e.features \cup b.preview
  <2>2. LentRight(b.capture, M, e.store)
    <3>1. Placed({}, st) /\ Keeps({}, st)
      BY <1>1 DEF Sane, Stocked
    <3>2. {f} = {TakenIn(b.capture, k) : k \in {c}}
      OBVIOUS
    <3>3. ReadOnly({f}, st, e.store)
      BY <2>1 DEF Extracted
    <3> HIDE DEF f
    <3>4. \A k \in {c} : st[TakenIn(b.capture, k)] # Gone
      BY <1>3 DEF f
    <3>5. LentRight(b.capture, Lent(st, {TakenIn(b.capture, k) : k \in {c}}), e.store)
      BY <1>1, <3>1, <3>2, <3>3, <3>4, LentIs
    <3> QED
      BY <3>2, <3>5
  <2>3. e.store \in Stores /\ Accounts(made, e.store) /\ e.ok \in BOOLEAN
    BY <2>1 DEF Extracted, ReadOnly
  <2>4. \A x \in made : x[1] # "frame"
    BY <1>1, <2>1, Names DEF Sane, Shaped, Extracted, FeaturesOf
  <2> HIDE DEF M
  <2>5. Stocked(made, p.misplaced, p.store)
    BY <2>2, <2>3, <2>4, PutBackStocked DEF LentRight
  <2>6. Borrows(b.capture, p.misplaced)
    BY <2>2, <2>3, PutBackAllGoes DEF LentRight
  <2> DEFINE x == [b EXCEPT !.unread = @ \ {c}, !.features = @ \cup e.features,
                            !.misplaced = @ \cup p.misplaced]
  <2>7. /\ x \in Build /\ x.capture = b.capture /\ x.stage = b.stage
        /\ x.features = b.features \cup e.features /\ x.preview = b.preview
        /\ x.misplaced = p.misplaced
    <3>1. e.features \in SUBSET Frame
      BY <1>1, <2>1, Names DEF Extracted, FeaturesOf
    <3>2. p.misplaced \in SUBSET Misplaced
      BY <2>6 DEF Borrows
    <3> QED
      BY <1>1, <3>1, <3>2 DEF Build
  <2>8. o.b = x /\ o.store = p.store /\ o.ok = (e.ok /\ p.misplaced = {})
    BY <1>3
  <2> HIDE DEF x
  <2>9. Sane(x, p.store)
    <3>1. \A y \in x.features : y[1] \in Made
      BY <1>1, <2>1, <2>7 DEF Sane, Shaped, Extracted, FeaturesOf
    <3>2. Shaped(x)
      BY <1>1, <2>6, <2>7, <3>1 DEF Sane, Shaped, PreviewOf
    <3>3. made = x.features \cup x.preview
      BY <2>7
    <3> QED
      BY <2>5, <2>7, <3>2, <3>3 DEF Sane
  <2>10. x.stage \in Unfinished
    BY <1>1, <2>7
  <2>11. o.ok => Phase(Report(x), p.store)
    <3>1. Report(x).stage = IF x.unread # {} THEN "Features"
                            ELSE IF x.pairs # {} THEN "PairwiseMatching" ELSE "GlobalSolve"
      BY <1>1, <2>7, <2>9, <2>10, ReportIs DEF Following
    <3>2. /\ Report(x).unread = x.unread /\ Report(x).pairs = x.pairs
          /\ Report(x).preview = {} /\ Report(x).misplaced = p.misplaced
      BY <1>1, <2>7, <2>9, <2>10, ReportIs
    <3> QED
      BY <2>8, <3>1, <3>2 DEF Phase, Unfinished
  <2> QED
    BY <2>3, <2>8, <2>9, <2>10, <2>11 DEF Step, Outcome
<1> QED
  <2>1. \/ o = Fails(b, st)
        \/ /\ st[f] # Gone
           /\ \E e \in Extraction(b, st, c) : \E p \in PutBackAll(M, e.store, Refuses) :
                o = [b |-> [b EXCEPT !.unread = @ \ {c}, !.features = @ \cup e.features,
                                     !.misplaced = @ \cup p.misplaced],
                     store |-> p.store, ok |-> e.ok /\ p.misplaced = {}]
    BY DEF ExtractOne, CannotAsk, WhenRefused
  <2> QED
    BY <1>2, <1>3, <2>1

(* A pair estimated touches only frames the build has made. *)
LEMMA EstimatedIs ==
  ASSUME Around, NEW b, NEW st, OnIts(b, st, "PairwiseMatching"), NEW pair,
         NEW o \in Estimated(b, st, pair)
  PROVE  /\ Sane(o.b, o.store) /\ o.ok \in BOOLEAN /\ o.b.stage = "PairwiseMatching"
         /\ o.b.unread = {} /\ o.b.misplaced = {} /\ o.b.preview = {}
<1> DEFINE rest == [b EXCEPT !.pairs = @ \ {pair}]
           frames == Borrowed(b, pair)
           kept == {f \in frames : st[f] # Gone}
           made == b.features \cup b.preview
<1>1. /\ Sane(b, st) /\ b \in Build /\ st \in Stores /\ b.features \subseteq Frame
      /\ b.misplaced = {} /\ b.preview = {} /\ b.unread = {} /\ b.stage = "PairwiseMatching"
      /\ Accounts(made, st) /\ Placed({}, st) /\ Keeps({}, st)
  BY DEF OnIts, Phase, Sane, Shaped, Stocked, Build, Unfinished
<1> DEFINE said == IF frames = {} THEN {TRUE} ELSE IF kept # frames THEN {FALSE} ELSE BOOLEAN
           choices == Choices(kept, [f \in kept |-> Leaves(st[f].pins)])
           Answer(left, ok) ==
             [b |-> rest, ok |-> ok,
              store |-> [f \in Frame |-> IF f \in kept THEN InHeap(left[f]) ELSE st[f]]]
<1>a. Estimated(b, st, pair) = {Answer(left, ok) : left \in choices, ok \in said}
  BY DEF Estimated
<1> HIDE DEF Answer, choices, said
<1>b. PICK left \in choices, ok \in said : o = Answer(left, ok)
  BY <1>a
<1> USE DEF Answer, choices, said
<1>2. /\ left \in Choices(kept, [f \in kept |-> Leaves(st[f].pins)])
      /\ o = [b |-> rest, ok |-> ok,
              store |-> [f \in Frame |-> IF f \in kept THEN InHeap(left[f]) ELSE st[f]]]
  BY <1>b
<1> HIDE DEF Answer, choices
<1>x. ok \in BOOLEAN
  OBVIOUS
<1> HIDE DEF said
<1>3. \A f \in kept : f \in b.features /\ f \in Frame /\ f[1] # "frame"
  BY <1>1, Names DEF Borrowed, Sane, Shaped
<1>4. \A f \in kept : InHeap(left[f]) \in Slots /\ InHeap(left[f]).tier = "Heap"
  <2> SUFFICES ASSUME NEW f \in kept
               PROVE  InHeap(left[f]) \in Slots /\ InHeap(left[f]).tier = "Heap"
    OBVIOUS
  <2>1. left[f] \in Leaves(st[f].pins)
    BY <1>2 DEF Choices
  <2>2. st[f].pins \in Nat
    BY <1>1, <1>3, SlotFacts DEF Stores
  <2> QED
    BY <2>1, <2>2, LeavesIs, SlotsMade DEF InHeap
<1>5. /\ rest \in Build /\ rest.capture = b.capture /\ rest.stage = b.stage
      /\ rest.features = b.features /\ rest.preview = b.preview
      /\ rest.misplaced = b.misplaced /\ rest.unread = b.unread
  BY <1>1 DEF Build
<1>6. /\ o.b = rest /\ o.ok = ok
      /\ o.store = [f \in Frame |-> IF f \in kept THEN InHeap(left[f]) ELSE st[f]]
  BY <1>2
<1> HIDE DEF rest, kept
<1>7. /\ \A f \in Frame : f \in kept => o.store[f] \in Slots /\ o.store[f].tier = "Heap"
      /\ \A f \in Frame : f \notin kept => o.store[f] = st[f]
  BY <1>4, <1>6
<1>8. o.store \in Stores
  BY <1>1, <1>6, <1>7 DEF Stores
<1>9. \A c \in Cell : o.store[Taken(c)] = st[Taken(c)]
  <2> SUFFICES ASSUME NEW c \in Cell
               PROVE  o.store[Taken(c)] = st[Taken(c)]
    OBVIOUS
  <2>1. Taken(c) \in Frame /\ Taken(c)[1] = "frame"
    BY Names DEF Around, Taken
  <2> QED
    BY <1>3, <1>7, <2>1
<1>10. Stocked(made, {}, o.store)
  <2>1. Placed({}, o.store) /\ Keeps({}, o.store)
    BY <1>1, <1>9 DEF Placed, Keeps
  <2>2. Accounts(made, o.store)
    BY <1>1, <1>3, <1>7 DEF Accounts
  <2> QED
    BY <1>8, <2>1, <2>2 DEF Stocked
<1>11. Sane(rest, o.store)
  BY <1>1, <1>5, <1>10 DEF Sane, Shaped, PreviewOf
<1> QED
  BY <1>1, <1>5, <1>6, <1>11, <1>x

(* The last pair gives the features back as well. *)
LEMMA EstimateOneIs ==
  ASSUME Around, NEW b, NEW st, OnIts(b, st, "PairwiseMatching"), NEW pair,
         NEW o \in EstimateOne(b, st, pair)
  PROVE  Step(o)
<1>1. PICK q \in Estimated(b, st, pair) :
        o \in IF q.ok /\ q.b.pairs = {} THEN ForgetFeatures(q.b, q.store, Refuses) ELSE {q}
  BY DEF EstimateOne
<1>2. /\ Sane(q.b, q.store) /\ q.ok \in BOOLEAN /\ q.b.stage = "PairwiseMatching"
      /\ q.b.unread = {} /\ q.b.misplaced = {} /\ q.b.preview = {}
  BY EstimatedIs
<1>3. q.ok /\ q.b.pairs = {} => Forgotten(o, q.b, q.store, Refuses)
  BY <1>1, <1>2, ForgetFeaturesIs
<1>4. /\ Sane(o.b, o.store) /\ o.ok \in BOOLEAN /\ o.b.stage = "PairwiseMatching"
      /\ o.b.unread = {} /\ o.b.misplaced = {} /\ o.b.preview = {}
  <2>1. CASE q.ok /\ q.b.pairs = {}
    BY <1>2, <1>3, <2>1 DEF Forgotten, Alike
  <2>2. CASE ~(q.ok /\ q.b.pairs = {})
    <3>1. o = q
      BY <1>1, <2>2
    <3> QED
      BY <1>2, <3>1
  <2> QED
    BY <2>1, <2>2
<1>5. o.b.stage \in Unfinished
  BY <1>4 DEF Unfinished
<1>6. /\ Report(o.b).stage = IF o.b.pairs # {} THEN "PairwiseMatching" ELSE "GlobalSolve"
      /\ Report(o.b).unread = {} /\ Report(o.b).misplaced = {} /\ Report(o.b).preview = {}
      /\ Report(o.b).pairs = o.b.pairs
  BY <1>4, <1>5, ReportIs DEF Following
<1>7. Phase(Report(o.b), o.store)
  BY <1>6 DEF Phase
<1> QED
  BY <1>4, <1>5, <1>7 DEF Step, Outcome

(* Solving gives the features back, whatever Refine says. *)
LEMMA SolveIs ==
  ASSUME Around, NEW b, NEW st, OnIts(b, st, "GlobalSolve"), NEW solved \in BOOLEAN,
         NEW q \in ForgetFeatures(b, st, Refuses), NEW o, o = [q EXCEPT !.ok = q.ok /\ solved]
  PROVE  Step(o)
<1>1. /\ Sane(b, st) /\ b.stage = "GlobalSolve" /\ b.unread = {} /\ b.pairs = {}
      /\ b.misplaced = {} /\ b.preview = {}
  BY DEF OnIts, Phase, Unfinished
<1>2. Forgotten(q, b, st, Refuses)
  BY <1>1, ForgetFeaturesIs
<1>3. o.b = q.b /\ o.store = q.store /\ o.ok = (q.ok /\ solved)
  BY DEF ForgetFeatures
<1>4. /\ Sane(o.b, o.store) /\ o.ok \in BOOLEAN /\ o.b.stage = "GlobalSolve"
      /\ o.b.unread = {} /\ o.b.pairs = {} /\ o.b.misplaced = {} /\ o.b.preview = {}
      /\ (o.ok => o.b.features = {})
  BY <1>1, <1>2, <1>3 DEF Forgotten, Alike
<1>5. o.b.stage \in Unfinished
  BY <1>4 DEF Unfinished
<1>6. /\ Report(o.b).stage = "CoverageCheck"
      /\ Report(o.b).unread = {} /\ Report(o.b).misplaced = {} /\ Report(o.b).preview = {}
      /\ Report(o.b).pairs = {} /\ Report(o.b).features = o.b.features
  BY <1>4, <1>5, ReportIs DEF Following
<1>7. o.ok => Phase(Report(o.b), o.store)
  BY <1>4, <1>6 DEF Phase
<1> QED
  BY <1>4, <1>5, <1>7 DEF Step, Outcome

(* The gaps are judged of the solution alone. *)
LEMMA JudgeGapsIs ==
  ASSUME NEW b, NEW st, OnIts(b, st, "CoverageCheck"),
         NEW o, o = [b |-> b, store |-> st, ok |-> TRUE]
  PROVE  Step(o)
<1>1. /\ Sane(b, st) /\ b.stage = "CoverageCheck" /\ b.unread = {} /\ b.pairs = {}
      /\ b.misplaced = {} /\ b.preview = {} /\ b.features = {} /\ b.stage \in Unfinished
  BY DEF OnIts, Phase, Unfinished
<1>2. /\ Report(b).stage = "Projecting"
      /\ Report(b).unread = {} /\ Report(b).misplaced = {} /\ Report(b).preview = {}
      /\ Report(b).pairs = {} /\ Report(b).features = {}
  BY <1>1, ReportIs DEF Following
<1>3. Phase(Report(b), st)
  BY <1>2 DEF Phase
<1> QED
  BY <1>1, <1>3 DEF Step, Outcome

-----------------------------------------------------------------------------
(* A preview refused: the frames lent are read and no more, and its answer  *)
(* is gone, or in the heap.                                                 *)
Shown(b, after) == {f \in {PreviewOf(b)} : after[f] # Gone}

(* A refused RenderPreview leaves no more than that. *)
LEMMA RefusedPreviewIs ==
  ASSUME Around, NEW b, NEW st, OnIts(b, st, "Projecting"),
         \A c \in b.frames : st[TakenIn(b.capture, c)] # Gone,
         NEW after \in RefusedPreview(b, st, {TakenIn(b.capture, c) : c \in b.frames})
  PROVE  /\ ReadOnly({TakenIn(b.capture, c) : c \in b.frames}, st, after)
         /\ Accounts(Shown(b, after), after)
<1> DEFINE frames == {TakenIn(b.capture, c) : c \in b.frames}
           out == PreviewOf(b)
           lent == {st} \cup UNION {{[st EXCEPT ![f] = s] : s \in NotGivenBack(st[f])} : f \in frames}
           answers == {Gone} \cup WhenRefused("Release", Refuses, InHeap(1))
                      \cup WhenRefused("Forget", Refuses, InHeap(0))
<1>1. /\ st \in Stores /\ b.capture \in 1..MaxCaptures /\ b.frames \subseteq Cell
      /\ Accounts({}, st)
  <2>1. b.features \cup b.preview = {}
    BY DEF OnIts, Phase, Unfinished
  <2> QED
    BY <2>1 DEF OnIts, Sane, Shaped, Stocked, Build
<1>2. out \in Frame /\ out[1] = "preview"
  BY <1>1, Names DEF PreviewOf
<1>3. \A f \in frames : f \in Frame /\ f[1] = "frame" /\ st[f] # Gone /\ st[f].pins \in Nat
  BY <1>1, Names, SlotFacts DEF Stores
<1>4. PICK l \in lent, a \in answers : after = [l EXCEPT ![out] = a]
  BY DEF RefusedPreview
<1>5. a \in Slots /\ (a = Gone \/ a.tier = "Heap")
  BY <1>4, SlotsMade DEF WhenRefused, InHeap
<1> HIDE DEF out, answers
<1>6. ASSUME NEW f \in frames, NEW s \in NotGivenBack(st[f])
      PROVE  s \in Slots /\ s \in {InHeap(st[f].pins), InHeap(st[f].pins + 1)}
  <2>1. \/ \E left \in Leaves(st[f].pins) : s = InHeap(left)
        \/ s = InHeap(st[f].pins)
    BY <1>6 DEF NotGivenBack, WhenRefused
  <2> QED
    BY <1>3, <2>1, LeavesIs, SlotsMade
<1>7. /\ l \in Stores
      /\ \A x \in Frame : \/ l[x] = st[x]
                          \/ x \in frames /\ l[x] \in {InHeap(st[x].pins), InHeap(st[x].pins + 1)}
  <2>1. CASE l = st
    BY <1>1, <2>1
  <2>2. ASSUME NEW f \in frames, NEW s \in NotGivenBack(st[f]), l = [st EXCEPT ![f] = s]
        PROVE  /\ l \in Stores
               /\ \A x \in Frame : \/ l[x] = st[x]
                                   \/ /\ x \in frames
                                      /\ l[x] \in {InHeap(st[x].pins), InHeap(st[x].pins + 1)}
    <3> HIDE DEF frames
    <3>1. s \in Slots /\ s \in {InHeap(st[f].pins), InHeap(st[f].pins + 1)}
      BY <1>6
    <3>2. l \in Stores
      BY <1>1, <2>2, <3>1 DEF Stores
    <3>3. \A x \in Frame : l[x] = IF x = f THEN s ELSE st[x]
      BY <1>1, <2>2 DEF Stores
    <3> QED
      BY <3>1, <3>2, <3>3
  <2> QED
    BY <1>4, <2>1, <2>2
<1>8. /\ after \in Stores /\ after[out] = a
      /\ \A x \in Frame : x # out => after[x] = l[x]
  BY <1>2, <1>4, <1>5, <1>7 DEF Stores
<1>9. ReadOnly(frames, st, after)
  BY <1>2, <1>7, <1>8 DEF ReadOnly
<1>10. Accounts(Shown(b, after), after)
  <2> SUFFICES ASSUME NEW x \in Frame, after[x] # Gone, \A c \in Cell : x # Taken(c)
               PROVE  x \in Shown(b, after) /\ after[x].tier = "Heap"
    BY DEF Accounts
  <2>1. st[x] = Gone
    BY <1>1 DEF Accounts
  <2>2. x = out
    BY <1>3, <1>7, <1>8, <2>1
  <2> QED
    BY <1>5, <1>8, <2>2 DEF Shown, out
<1> QED
  BY <1>9, <1>10

(* The panorama is made, or the capture is put right and the answer given    *)
(* back, as far as the store lets it.                                        *)
LEMMA ComposeOneIs ==
  ASSUME Around, NEW b, NEW st, OnIts(b, st, "Projecting"), NEW o \in ComposeOne(b, st)
  PROVE  Step(o)
<1> DEFINE frames == {TakenIn(b.capture, c) : c \in b.frames}
           out == PreviewOf(b)
<1>1. /\ Sane(b, st) /\ b \in Build /\ b.stage \in Unfinished /\ st \in Stores
      /\ b.capture \in 1..MaxCaptures /\ b.frames \in SUBSET Cell /\ b.stage = "Projecting"
      /\ b.misplaced = {} /\ b.preview = {} /\ b.features = {} /\ b.unread = {} /\ b.pairs = {}
      /\ Accounts({}, st) /\ Placed({}, st) /\ Keeps({}, st) /\ b.capture <= capture
  <2>1. b.features \cup b.preview = {}
    BY DEF OnIts, Phase, Unfinished
  <2> QED
    BY <2>1 DEF OnIts, Phase, Sane, Shaped, Stocked, Build, Unfinished
<1>2. out \in Frame /\ out[1] = "preview"
  BY <1>1, Names DEF PreviewOf
<1>3. CASE o = Fails(b, st)
  BY <1>1, <1>3, FailsIs
<1>4. CASE o = [b |-> [b EXCEPT !.preview = {out}], store |-> [st EXCEPT ![out] = InHeap(0)],
                ok |-> TRUE]
  <2> DEFINE x == [b EXCEPT !.preview = {out}]
             t == [st EXCEPT ![out] = InHeap(0)]
  <2>1. /\ x \in Build /\ x.capture = b.capture /\ x.stage = b.stage /\ x.preview = {out}
        /\ x.features = {} /\ x.misplaced = {} /\ x.unread = {} /\ x.pairs = {}
    BY <1>1, <1>2 DEF Build
  <2>2. t \in Stores /\ t[out] = InHeap(0) /\ \A f \in Frame : f # out => t[f] = st[f]
    BY <1>1, <1>2, SlotsMade DEF Stores
  <2>3. o.b = x /\ o.store = t /\ o.ok = TRUE
    BY <1>4
  <2> HIDE DEF x, t
  <2>4. \A c \in Cell : t[Taken(c)] = st[Taken(c)]
    BY <1>2, <2>2, Names DEF Around, Taken
  <2>5. Placed({}, t) /\ Keeps({}, t)
    BY <1>1, <2>4 DEF Placed, Keeps
  <2>6. Accounts({out}, t)
    <3>1. t[out].tier = "Heap"
      BY <2>2 DEF InHeap
    <3> QED
      BY <1>1, <2>2, <3>1 DEF Accounts
  <2>7. Stocked({out}, {}, t)
    BY <2>2, <2>5, <2>6 DEF Stocked
  <2>8. PreviewOf(x) = out
    BY <2>1 DEF PreviewOf
  <2>9. Sane(x, t)
    <3>1. Shaped(x)
      BY <1>1, <2>1, <2>8 DEF Shaped, Borrows
    <3>2. x.features \cup x.preview = {out}
      BY <2>1
    <3> QED
      BY <2>1, <2>7, <3>1, <3>2 DEF Sane
  <2>10. x.stage \in Unfinished
    BY <1>1, <2>1
  <2>11. /\ Report(x).stage = "Complete" /\ Report(x).features = {}
         /\ Report(x).misplaced = {} /\ Report(x).preview = {out}
         /\ Report(x).capture = b.capture
    BY <1>1, <2>1, <2>9, <2>10, ReportIs DEF Following
  <2>12. PreviewOf(Report(x)) = out /\ t[out] # Gone
    BY <2>2, <2>11, SlotsMade DEF PreviewOf
  <2> HIDE DEF out
  <2>13. Phase(Report(x), t)
    BY <2>11, <2>12 DEF Phase, Unfinished
  <2> QED
    BY <2>3, <2>9, <2>10, <2>13 DEF Step, Outcome
<1>5. ASSUME \A f \in frames : st[f] # Gone, NEW after \in RefusedPreview(b, st, frames),
             o \in PutRight(b, st, frames, after)
      PROVE  Step(o)
  <2> DEFINE M == Lent(st, frames)
             made == Shown(b, after)
  <2>1. \A c \in b.frames : st[TakenIn(b.capture, c)] # Gone
    BY <1>5
  <2>2. ReadOnly(frames, st, after) /\ Accounts(made, after)
    BY <1>5, <2>1, RefusedPreviewIs
  <2>3. LentRight(b.capture, M, after)
    BY <1>1, <2>1, <2>2, LentIs
  <2>4. after \in Stores /\ \A x \in made : x[1] # "frame"
    BY <1>2, <2>2 DEF ReadOnly, Shown
  <2> DEFINE Left(p) == [b EXCEPT !.misplaced = p.misplaced, !.preview = made]
  <2>5. PICK p \in PutBackAll(M, after, Refuses) :
          \E g \in GiveBackPreview(Left(p), p.store, Refuses) : o = Fails(g.b, g.store)
    BY <1>5 DEF PutRight, Shown
  <2>6. PICK g \in GiveBackPreview(Left(p), p.store, Refuses) : o = Fails(g.b, g.store)
    BY <2>5
  <2> HIDE DEF M
  <2>7. Stocked(made, p.misplaced, p.store) /\ Borrows(b.capture, p.misplaced)
    BY <2>2, <2>3, <2>4, PutBackStocked, PutBackAllGoes DEF LentRight
  <2> DEFINE x == Left(p)
  <2>8. /\ x \in Build /\ x.capture = b.capture /\ x.stage = b.stage /\ x.preview = made
        /\ x.features = {} /\ x.misplaced = p.misplaced
    <3>1. made \in SUBSET Frame /\ p.misplaced \in SUBSET Misplaced
      BY <1>2, <2>7 DEF Shown, Borrows
    <3> HIDE DEF made
    <3> QED
      BY <1>1, <3>1 DEF Build
  <2>9. g \in GiveBackPreview(x, p.store, Refuses)
    BY <2>6
  <2> HIDE DEF x, Left
  <2>10. Sane(x, p.store)
    <3>1. PreviewOf(x) = PreviewOf(b)
      BY <2>8 DEF PreviewOf
    <3>2. Shaped(x)
      BY <1>1, <2>7, <2>8, <3>1 DEF Shaped, Shown
    <3>3. x.features \cup x.preview = made
      BY <2>8
    <3> QED
      BY <2>7, <2>8, <3>2, <3>3 DEF Sane
  <2>11. Unshown(g, x, p.store, Refuses)
    BY <2>9, <2>10, GiveBackPreviewIs
  <2>12. Sane(g.b, g.store) /\ g.b.stage \in Unfinished
    BY <1>1, <2>8, <2>11 DEF Unshown, Alike
  <2> QED
    BY <2>6, <2>12, FailsIs
<1> QED
  <2>1. \/ o = Fails(b, st)
        \/ o = [b |-> [b EXCEPT !.preview = {out}], store |-> [st EXCEPT ![out] = InHeap(0)],
                ok |-> TRUE]
        \/ /\ \A f \in frames : st[f] # Gone
           /\ \E after \in RefusedPreview(b, st, frames) : o \in PutRight(b, st, frames, after)
    BY DEF ComposeOne, CannotAsk, WhenRefused
  <2> QED
    BY <1>3, <1>4, <1>5, <2>1

-----------------------------------------------------------------------------
(* The calls of the manager. *)
LEMMA PollsKeep ==
  ASSUME BuildIInv, ExtractFeatures \/ EstimatePair \/ Solve \/ JudgeGaps \/ Compose
  PROVE  BuildIInv'
<1>1. Around /\ Running /\ OnIts(build, store, build.stage) /\ build # NoBuild
  BY DEF ExtractFeatures, EstimatePair, Solve, JudgeGaps, Compose, Running, BuildIInv, OnIts
<1>2. CASE ExtractFeatures
  <2>1. build.stage = "Features"
    BY <1>2 DEF ExtractFeatures
  <2>2. PICK c \in build.unread : Poll(ExtractOne(build, store, c))
    BY <1>2 DEF ExtractFeatures
  <2>3. \A o \in ExtractOne(build, store, c) : Step(o)
    BY <1>1, <2>1, ExtractOneIs
  <2> QED
    BY <1>1, <2>2, <2>3, PollKeeps DEF Step
<1>3. CASE EstimatePair
  <2>1. build.stage = "PairwiseMatching"
    BY <1>3 DEF EstimatePair
  <2>2. PICK pair \in build.pairs : Poll(EstimateOne(build, store, pair))
    BY <1>3 DEF EstimatePair
  <2>3. \A o \in EstimateOne(build, store, pair) : Step(o)
    BY <1>1, <2>1, EstimateOneIs
  <2> QED
    BY <1>1, <2>2, <2>3, PollKeeps DEF Step
<1>4. CASE Solve
  <2> DEFINE outcomes == {[o EXCEPT !.ok = o.ok /\ solved] :
                          o \in ForgetFeatures(build, store, Refuses), solved \in BOOLEAN}
  <2>1. build.stage = "GlobalSolve" /\ Poll(outcomes)
    BY <1>4 DEF Solve
  <2>2. \A o \in outcomes : Step(o)
    BY <1>1, <2>1, SolveIs
  <2> HIDE DEF outcomes
  <2> QED
    BY <1>1, <2>1, <2>2, PollKeeps DEF Step
<1>5. CASE JudgeGaps
  <2> DEFINE outcomes == {[b |-> build, store |-> store, ok |-> TRUE]}
  <2>1. build.stage = "CoverageCheck" /\ Poll(outcomes)
    BY <1>5 DEF JudgeGaps
  <2>2. \A o \in outcomes : Step(o)
    BY <1>1, <2>1, JudgeGapsIs
  <2> HIDE DEF outcomes
  <2> QED
    BY <1>1, <2>1, <2>2, PollKeeps DEF Step
<1>6. CASE Compose
  <2>1. build.stage = "Projecting" /\ Poll(ComposeOne(build, store))
    BY <1>6 DEF Compose
  <2>2. \A o \in ComposeOne(build, store) : Step(o)
    BY <1>1, <2>1, ComposeOneIs
  <2> QED
    BY <1>1, <2>1, <2>2, PollKeeps DEF Step
<1> QED
  BY <1>2, <1>3, <1>4, <1>5, <1>6

(* A build begins with nothing of its own; a finished one stands if it      *)
(* cannot be released.                                                      *)
LEMMA StandsIs ==
  ASSUME NEW b, NEW st, OnIts(b, st, "Complete"), NEW o, GivenBack(o, b, st, Refuses), ~o.ok
  PROVE  Ends(o.b, o.store)
<1>1. Sane(b, st) /\ Whole(b) /\ (b.capture = capture => st[PreviewOf(b)] # Gone)
  BY DEF OnIts, Phase, Whole
<1>2. Sane(o.b, o.store) /\ Alike(o.b, b) /\ Whole(o.b) /\ o.b.stage = "Complete"
  BY <1>1 DEF GivenBack, OnIts, Alike
<1>3. PreviewOf(o.b) = PreviewOf(b) /\ o.b.capture = b.capture
  BY <1>2 DEF Alike, PreviewOf
<1>4. o.b.capture = capture => o.store[PreviewOf(o.b)] # Gone
  BY <1>1, <1>3 DEF GivenBack
<1>5. Phase(o.b, o.store)
  BY <1>2, <1>4 DEF Phase, Whole, Unfinished
<1>6. o.b # NoBuild
  BY <1>2, MarkersAssumption DEF Sane, Shaped
<1> QED
  BY <1>2, <1>5, <1>6 DEF Ends

(* A new build owes nothing to the store it finds. *)
LEMMA NewBuildIs ==
  ASSUME Around, NEW st, Clear(st), NEW frames \in SUBSET Cell, NEW pairs \in SUBSET Pairs(frames)
  PROVE  Ends(NewBuild(frames, pairs), st)
<1> DEFINE x == NewBuild(frames, pairs)
<1>1. pairs \in SUBSET SUBSET Cell
  BY DEF Pairs
<1>2. x \in Build
  BY <1>1 DEF NewBuild, Build, Around, Unfinished
<1>3. /\ x.capture = capture /\ x.stage = "Features" /\ x.features = {} /\ x.preview = {}
      /\ x.misplaced = {} /\ x.features \cup x.preview = {}
  BY DEF NewBuild
<1> HIDE DEF x
<1>4. Sane(x, st)
  BY <1>2, <1>3 DEF Sane, Shaped, Borrows, Clear, Around
<1>5. Phase(x, st)
  BY <1>3 DEF Phase, Unfinished
<1> QED
  BY <1>2, <1>4, <1>5, MarkersAssumption DEF Ends, x

(* Start begins on a store put in order, or leaves the finished build. *)
LEMMA StartKeeps ==
  ASSUME BuildIInv, Start
  PROVE  BuildIInv'
<1> DEFINE frames == {c \in Cell : store[Taken(c)] # Gone}
<1>1. Around /\ ~Running /\ UNCHANGED others
  BY DEF Start, BuildIInv
<1>2. PICK pairs \in SUBSET Pairs(frames) :
        \E o \in IF build = NoBuild THEN {[b |-> NoBuild, store |-> store, ok |-> TRUE]}
                 ELSE GiveBack(build, store, Refuses) :
          build' = (IF o.ok THEN NewBuild(frames, pairs) ELSE o.b) /\ store' = o.store
  BY DEF Start
<1> HIDE DEF frames
<1>3. frames \in SUBSET Cell
  BY DEF frames
<1>4. CASE build = NoBuild
  <2>1. build' = NewBuild(frames, pairs) /\ store' = store
    BY <1>2, <1>4
  <2>2. Clear(store)
    BY <1>4 DEF BuildIInv
  <2>3. Ends(NewBuild(frames, pairs), store)
    BY <1>1, <1>3, <2>2, NewBuildIs
  <2> QED
    BY <1>1, <2>1, <2>3, CallKeeps
<1>5. CASE build # NoBuild
  <2>1. Sane(build, store) /\ Phase(build, store) /\ build.stage \in Finished
    BY <1>1, <1>5 DEF BuildIInv, Running, Sane, Shaped, Build
  <2>2. PICK o \in GiveBack(build, store, Refuses) :
          build' = (IF o.ok THEN NewBuild(frames, pairs) ELSE o.b) /\ store' = o.store
    BY <1>2, <1>5
  <2>3. GivenBack(o, build, store, Refuses)
    BY <1>1, <2>1, GiveBackIs
  <2>4. CASE o.ok
    <3>1. Clear(o.store)
      BY <2>3, <2>4, ClearIs DEF GivenBack
    <3>2. Ends(NewBuild(frames, pairs), o.store)
      BY <1>1, <1>3, <3>1, NewBuildIs
    <3> QED
      BY <1>1, <2>2, <2>4, <3>2, CallKeeps
  <2>5. CASE ~o.ok
    <3>1. Ends(o.b, o.store)
      <4>1. CASE build.stage = "Complete"
        BY <2>1, <2>3, <2>5, <4>1, StandsIs DEF OnIts
      <4>2. CASE build.stage = "Failed"
        <5>1. Sane(o.b, o.store) /\ o.b.stage = "Failed"
          BY <2>3, <4>2 DEF GivenBack, Alike
        <5>2. Phase(o.b, o.store)
          BY <5>1 DEF Phase, Unfinished
        <5> QED
          BY <5>1, <5>2, MarkersAssumption DEF Ends, Sane, Shaped
      <4> QED
        BY <2>1, <4>1, <4>2 DEF Finished
    <3> QED
      BY <1>1, <2>2, <2>5, <3>1, CallKeeps
  <2> QED
    BY <2>3, <2>4, <2>5 DEF GivenBack
<1> QED
  BY <1>4, <1>5

(* Cancel ends the build, or keeps what it could not give back. *)
LEMMA CancelKeeps ==
  ASSUME BuildIInv, Cancel
  PROVE  BuildIInv'
<1>1. Around /\ build # NoBuild /\ UNCHANGED others /\ Sane(build, store) /\ Phase(build, store)
  BY DEF Cancel, BuildIInv
<1>2. PICK o \in GiveBack(build, store, Refuses) :
        /\ build' = IF o.ok THEN NoBuild
                    ELSE IF build.stage = "Complete" THEN o.b
                    ELSE [o.b EXCEPT !.stage = "Failed"]
        /\ store' = o.store
  BY DEF Cancel
<1>3. GivenBack(o, build, store, Refuses)
  BY <1>1, GiveBackIs
<1>4. CASE o.ok
  <2>1. Clear(o.store)
    BY <1>3, <1>4, ClearIs DEF GivenBack
  <2>2. Ends(build', store')
    BY <1>2, <1>4, <2>1 DEF Ends
  <2> QED
    BY <1>1, <2>2, CallKeeps
<1>5. CASE ~o.ok
  <2>1. build.stage = "Complete" => Ends(o.b, o.store)
    BY <1>1, <1>3, <1>5, StandsIs DEF OnIts
  <2>2. Ends([o.b EXCEPT !.stage = "Failed"], o.store)
    BY <1>3, FailedIs DEF GivenBack
  <2>3. Ends(build', store')
    BY <1>2, <1>5, <2>1, <2>2
  <2> QED
    BY <1>1, <2>3, CallKeeps
<1> QED
  BY <1>3, <1>4, <1>5 DEF GivenBack

-----------------------------------------------------------------------------
(* The rest of the app, between two calls.  What it does to a frame of the  *)
(* capture in slot s, with home h and k holders, troubles no build: the     *)
(* frame is where it was left, and no holder's pin is taken.                *)
Untroubled(s, h, k, s2, h2, k2) ==
  /\ situation.held = 0 => Still(s2, h2) \/ (s2 = s /\ h2 = h)
  /\ s2.pins + k >= s.pins + k2

(* A frame untroubled stays placed, and its holders keep their pins. *)
LEMMA UntroubledIs ==
  ASSUME NEW s, NEW h, NEW k \in Nat, NEW s2, NEW h2, NEW k2 \in Nat,
         s.pins \in Nat, s2.pins \in Nat, Untroubled(s, h, k, s2, h2, k2)
  PROVE  /\ situation.held = 0 /\ Still(s, h) => Still(s2, h2)
         /\ \A m : situation.held = 0 /\ Strays(s, m, h) => Still(s2, h2) \/ Strays(s2, m, h2)
         /\ s.pins >= k => s2.pins >= k2
         /\ s.pins > k => s2.pins > k2
<1>1. /\ s.pins >= k => s2.pins >= k2
      /\ s.pins > k => s2.pins > k2
  BY DEF Untroubled
<1>2. situation.held = 0 => Still(s2, h2) \/ (s2 = s /\ h2 = h)
  BY DEF Untroubled
<1> QED
  BY <1>1, <1>2

(* What the store owes, with a build or without. *)
Owned == IF build = NoBuild THEN {} ELSE build.features \cup build.preview
Astray == IF build = NoBuild THEN {} ELSE build.misplaced

(* The invariant, with the store's part and the build's part apart. *)
LEMMA InTwo ==
  /\ BuildIInv => /\ Around /\ Stocked(Owned, Astray, store)
                  /\ build # NoBuild => Shaped(build) /\ Phase(build, store)
  /\ (/\ Around /\ Stocked(Owned, Astray, store)
      /\ build # NoBuild => Shaped(build) /\ Phase(build, store)) => BuildIInv
<1>1. CASE build = NoBuild
  BY <1>1 DEF BuildIInv, Owned, Astray, Clear
<1>2. CASE build # NoBuild
  BY <1>2 DEF BuildIInv, Owned, Astray, Sane
<1> QED
  BY <1>1, <1>2

(* The capture's frames are frames, and its holders are counted. *)
LEMMA TakenNames ==
  ASSUME Around
  PROVE  /\ situation.held \in Nat
         /\ \A c \in Cell : Taken(c) \in Frame /\ Taken(c)[1] = "frame" /\ Taken(c)[3] = c
         /\ \A c \in Cell : held[c] \in Nat
<1>1. situation.held \in Nat
  BY PanoramaAssumption DEF Around
<1> QED
  BY <1>1, Names DEF Around, Taken

(* Frames untroubled keep the invariant. *)
LEMMA AroundKeeps ==
  ASSUME BuildIInv, Around', UNCHANGED <<situation, build, capture>>, store' \in Stores,
         \A f \in Frame : (\A c \in Cell : f # Taken(c)) => store'[f] = store[f],
         \A c \in Cell : Untroubled(store[Taken(c)], home[c], held[c],
                                    store'[Taken(c)], home'[c], held'[c])
  PROVE  BuildIInv'
<1>1. /\ Around /\ Stocked(Owned, Astray, store)
      /\ build # NoBuild => Shaped(build) /\ Phase(build, store)
  BY InTwo
<1>2. ASSUME NEW c \in Cell
      PROVE  /\ store[Taken(c)] \in Slots /\ store[Taken(c)].pins \in Nat
             /\ store'[Taken(c)].pins \in Nat
             /\ held[c] \in Nat /\ held'[c] \in Nat /\ Taken(c)' = Taken(c)
  <2>1. Taken(c) \in Frame /\ held[c] \in Nat /\ situation.held \in Nat
    BY <1>1, TakenNames
  <2>2. store[Taken(c)] \in Slots /\ store'[Taken(c)] \in Slots
    BY <1>1, <2>1 DEF Stocked, Stores
  <2>3. held'[c] \in Nat
    BY <2>1 DEF Around
  <2>4. Taken(c)' = Taken(c)
    BY DEF Taken, TakenIn
  <2> QED
    BY <2>1, <2>2, <2>3, <2>4, SlotFacts
<1>3. ASSUME NEW c \in Cell
      PROVE  /\ situation.held = 0 /\ Still(store[Taken(c)], home[c])
                  => Still(store'[Taken(c)], home'[c])
             /\ \A m : situation.held = 0 /\ Strays(store[Taken(c)], m, home[c])
                  => Still(store'[Taken(c)], home'[c]) \/ Strays(store'[Taken(c)], m, home'[c])
             /\ store[Taken(c)].pins >= held[c] => store'[Taken(c)].pins >= held'[c]
             /\ store[Taken(c)].pins > held[c] => store'[Taken(c)].pins > held'[c]
  <2>1. Untroubled(store[Taken(c)], home[c], held[c], store'[Taken(c)], home'[c], held'[c])
    OBVIOUS
  <2> QED
    BY <1>2, <2>1, UntroubledIs
<1>4. Owned' = Owned /\ Astray' = Astray /\ Refuses' = Refuses
  BY DEF Owned, Astray, Refuses
<1>5. Placed(Astray, store)'
  BY <1>1, <1>2, <1>3, <1>4 DEF Stocked, Placed
<1>6. Keeps(Astray, store)'
  BY <1>1, <1>2, <1>3, <1>4 DEF Stocked, Keeps
<1>7. Accounts(Owned, store)'
  <2>1. \A f \in Frame : \/ store'[f] = Gone \/ \E c \in Cell : f = Taken(c)
                         \/ f \in Owned /\ store'[f].tier = "Heap"
    BY <1>1 DEF Stocked, Accounts
  <2> QED
    BY <1>2, <1>4, <2>1 DEF Accounts
<1>8. Stocked(Owned, Astray, store)'
  BY <1>5, <1>6, <1>7 DEF Stocked
<1>9. ASSUME build # NoBuild
      PROVE  Shaped(build)' /\ Phase(build, store)'
  <2>1. Shaped(build) /\ Phase(build, store)
    BY <1>1, <1>9
  <2>2. PreviewOf(build) \in Frame /\ \A c \in Cell : PreviewOf(build) # Taken(c)
    BY <2>1, Names DEF Shaped, Build, PreviewOf, Taken, TakenIn
  <2>3. store'[PreviewOf(build)] = store[PreviewOf(build)] /\ PreviewOf(build)' = PreviewOf(build)
    BY <2>2 DEF PreviewOf
  <2>4. Shaped(build)'
    BY <2>1 DEF Shaped, PreviewOf
  <2>5. Phase(build, store)'
    BY <2>1, <2>3 DEF Phase
  <2> QED
    BY <2>4, <2>5
<1>10. (/\ Around /\ Stocked(Owned, Astray, store)
        /\ build # NoBuild => Shaped(build) /\ Phase(build, store))'
  BY <1>8, <1>9
<1> QED
  BY <1>10, InTwo, PTL

(* One frame of the capture's is changed, and what is around it. *)
OneTroubled(c, s2) ==
  /\ s2 \in Slots /\ store' = [store EXCEPT ![Taken(c)] = s2]
  /\ UNCHANGED <<situation, build, capture>>
  /\ Untroubled(store[Taken(c)], home[c], held[c], s2, home'[c], held'[c])
  /\ \A k \in Cell : k # c => home'[k] = home[k] /\ held'[k] = held[k]

(* One frame untroubled keeps the invariant. *)
LEMMA OneKeeps ==
  ASSUME BuildIInv, Around', NEW c \in Cell, NEW s2, OneTroubled(c, s2)
  PROVE  BuildIInv'
<1>1. Around /\ store \in Stores
  BY DEF BuildIInv, Clear, Sane, Stocked
<1>2. \A k \in Cell : /\ Taken(k) \in Frame /\ (Taken(k) = Taken(c) => k = c)
                      /\ store[Taken(k)].pins \in Nat /\ held[k] \in Nat
  <2>1. \A k \in Cell : Taken(k) \in Frame /\ (Taken(k) = Taken(c) => k = c) /\ held[k] \in Nat
    BY <1>1, TakenNames
  <2> QED
    BY <1>1, <2>1, SlotFacts DEF Stores
<1>3. /\ store' \in Stores /\ store'[Taken(c)] = s2
      /\ \A f \in Frame : f # Taken(c) => store'[f] = store[f]
  BY <1>1, <1>2 DEF OneTroubled, Stores
<1>4. ASSUME NEW k \in Cell
      PROVE  Untroubled(store[Taken(k)], home[k], held[k], store'[Taken(k)], home'[k], held'[k])
  <2>1. CASE k = c
    BY <1>3, <2>1 DEF OneTroubled
  <2>2. CASE k # c
    <3>1. store'[Taken(k)] = store[Taken(k)] /\ home'[k] = home[k] /\ held'[k] = held[k]
      BY <1>2, <1>3, <2>2 DEF OneTroubled
    <3>2. Untroubled(store[Taken(k)], home[k], held[k], store[Taken(k)], home[k], held[k])
      BY <1>2 DEF Untroubled
    <3> QED
      BY <3>1, <3>2
  <2> QED
    BY <2>1, <2>2
<1>5. UNCHANGED <<situation, build, capture>>
  BY DEF OneTroubled
<1> QED
  BY <1>3, <1>4, <1>5, AroundKeeps

(* The arithmetic of a pin taken and one let go. *)
LEMMA Untroubles ==
  ASSUME situation.held \in Nat, NEW s \in Slots, NEW h, NEW k \in Nat
  PROVE  /\ s.pins = 0 => Untroubled(s, h, k, [s EXCEPT !.tier = "Spilled"], "Spilled", k)
         /\ s.tier = "Spilled" => Untroubled(s, h, k, [s EXCEPT !.tier = "Heap"], "Heap", k)
         /\ s.pins = 0 => Untroubled(s, h, k, Gone, h, k)
         /\ \A h2 : situation.held > 0 => Untroubled(s, h, k, InHeap(s.pins + 1), h2, k + 1)
         /\ situation.held > 0 /\ s.pins > 0 /\ k > 0 =>
              Untroubled(s, h, k, [s EXCEPT !.pins = @ - 1], h, k - 1)
<1>1. /\ s.pins \in Nat /\ s = [tier |-> s.tier, pins |-> s.pins]
      /\ (s.pins > 0 => s.tier = "Heap")
  BY SlotFacts
<1>2. /\ [s EXCEPT !.tier = "Spilled"].pins = s.pins /\ [s EXCEPT !.tier = "Spilled"].tier = "Spilled"
      /\ [s EXCEPT !.tier = "Heap"].pins = s.pins
      /\ [s EXCEPT !.pins = @ - 1].pins = s.pins - 1
  BY <1>1 DEF Slots
<1>3. s.pins = 0 => Untroubled(s, h, k, [s EXCEPT !.tier = "Spilled"], "Spilled", k)
  BY <1>1, <1>2 DEF Untroubled, Still
<1>4. s.tier = "Spilled" => Untroubled(s, h, k, [s EXCEPT !.tier = "Heap"], "Heap", k)
  BY <1>1, <1>2 DEF Untroubled, Still
<1>5. s.pins = 0 => Untroubled(s, h, k, Gone, h, k)
  BY <1>1 DEF Untroubled, Still, Gone
<1>6. ASSUME NEW h2, situation.held > 0
      PROVE  Untroubled(s, h, k, InHeap(s.pins + 1), h2, k + 1)
  <2>1. situation.held # 0
    BY <1>6
  <2> QED
    BY <1>1, <2>1 DEF Untroubled, InHeap
<1>7. ASSUME situation.held > 0, s.pins > 0, k > 0
      PROVE  Untroubled(s, h, k, [s EXCEPT !.pins = @ - 1], h, k - 1)
  BY <1>1, <1>2, <1>7 DEF Untroubled
<1> QED
  BY <1>3, <1>4, <1>5, <1>6, <1>7

(* Cooling, warming, discarding, holding and letting go keep it. *)
LEMMA CaptureKeeps ==
  ASSUME BuildIInv, NEW c \in Cell,
         Cool(c) \/ Warm(c) \/ RetakeDiscards(c) \/ Hold(c) \/ LetGo(c)
  PROVE  BuildIInv'
<1> DEFINE s == store[Taken(c)]
           h == home[c]
           k == held[c]
<1>1. Around /\ store \in Stores
  BY DEF BuildIInv, Clear, Sane, Stocked
<1>2. /\ s \in Slots /\ s.pins \in Nat /\ (s.pins > 0 => s.tier = "Heap") /\ (s = Gone <=> s.tier = "Gone")
      /\ s.tier \in {"Gone", "Heap", "Spilled"} /\ k \in Nat /\ situation.held \in Nat
      /\ home \in [Cell -> {"Heap", "Spilled"}] /\ held \in [Cell -> 0..situation.held]
      /\ s = [tier |-> s.tier, pins |-> s.pins]
  <2>1. Taken(c) \in Frame /\ k \in Nat /\ situation.held \in Nat
    BY <1>1, TakenNames
  <2>2. s \in Slots
    BY <1>1, <2>1 DEF Stores
  <2> QED
    BY <1>1, <2>1, <2>2, SlotFacts DEF Around
<1>3. CASE Cool(c)
  <2>1. s.pins = 0 /\ s.tier = "Heap"
    BY <1>2, <1>3 DEF Cool, Residency
  <2> DEFINE s2 == [s EXCEPT !.tier = "Spilled"]
  <2>2. s2 \in Slots
    BY <1>2, <2>1, SlotsMade
  <2>3. store' = [store EXCEPT ![Taken(c)] = s2]
    BY <1>3 DEF Cool
  <2>4. /\ home' = [home EXCEPT ![c] = "Spilled"] /\ UNCHANGED <<situation, build, capture, held>>
    BY <1>3 DEF Cool
  <2>5. Around' /\ home'[c] = "Spilled" /\ \A j \in Cell : j # c => home'[j] = home[j]
    BY <1>1, <1>2, <2>4 DEF Around
  <2>6. Untroubled(s, h, k, s2, "Spilled", k)
    BY <1>2, <2>1, Untroubles
  <2> HIDE DEF s2
  <2>7. OneTroubled(c, s2)
    BY <2>2, <2>3, <2>4, <2>5, <2>6 DEF OneTroubled
  <2> QED
    BY <2>5, <2>7, OneKeeps
<1>4. CASE Warm(c)
  <2>1. s.tier = "Spilled" /\ s.pins = 0
    BY <1>2, <1>4 DEF Warm
  <2> DEFINE s2 == [s EXCEPT !.tier = "Heap"]
  <2>2. s2 \in Slots
    BY <1>2 DEF Slots
  <2>3. store' = [store EXCEPT ![Taken(c)] = s2]
    BY <1>4 DEF Warm
  <2>4. /\ home' = [home EXCEPT ![c] = "Heap"] /\ UNCHANGED <<situation, build, capture, held>>
    BY <1>4 DEF Warm
  <2>5. Around' /\ home'[c] = "Heap" /\ \A j \in Cell : j # c => home'[j] = home[j]
    BY <1>1, <1>2, <2>4 DEF Around
  <2>6. Untroubled(s, h, k, s2, "Heap", k)
    BY <1>2, <2>1, Untroubles
  <2> HIDE DEF s2
  <2>7. OneTroubled(c, s2)
    BY <2>2, <2>3, <2>4, <2>5, <2>6 DEF OneTroubled
  <2> QED
    BY <2>5, <2>7, OneKeeps
<1>5. CASE RetakeDiscards(c)
  <2>1. /\ s.pins = 0 /\ store' = [store EXCEPT ![Taken(c)] = Gone]
        /\ UNCHANGED <<situation, build, capture, held, home>>
    BY <1>5 DEF RetakeDiscards, others
  <2>2. Untroubled(s, h, k, Gone, h, k)
    BY <1>2, <2>1, Untroubles
  <2>3. Around' /\ OneTroubled(c, Gone)
    BY <1>1, <2>1, <2>2, SlotsMade DEF OneTroubled, Around
  <2> QED
    BY <2>3, OneKeeps
<1>6. CASE Hold(c)
  <2>1. k < situation.held /\ situation.held > 0
    BY <1>2, <1>6 DEF Hold
  <2> DEFINE s2 == InHeap(s.pins + 1)
             h2 == IF s.tier = "Heap" THEN h ELSE "Heap"
  <2>2. /\ store' = [store EXCEPT ![Taken(c)] = s2] /\ home' = [home EXCEPT ![c] = h2]
        /\ held' = [held EXCEPT ![c] = k + 1] /\ UNCHANGED <<situation, build, capture>>
    BY <1>6 DEF Hold
  <2>3. s2 \in Slots /\ h2 \in {"Heap", "Spilled"} /\ k + 1 \in 0..situation.held
    BY <1>2, <2>1, SlotsMade
  <2>4. Untroubled(s, h, k, s2, h2, k + 1)
    BY <1>2, <2>1, Untroubles
  <2> HIDE DEF s2, h2
  <2>5. /\ Around' /\ home'[c] = h2 /\ held'[c] = k + 1
        /\ \A j \in Cell : j # c => home'[j] = home[j] /\ held'[j] = held[j]
    BY <1>1, <1>2, <2>2, <2>3 DEF Around
  <2>6. OneTroubled(c, s2)
    BY <2>2, <2>3, <2>4, <2>5 DEF OneTroubled
  <2> QED
    BY <2>5, <2>6, OneKeeps
<1>7. CASE LetGo(c)
  <2>1. k > 0 /\ s.pins > 0 /\ k <= situation.held /\ situation.held > 0
    BY <1>2, <1>7 DEF LetGo
  <2> DEFINE s2 == [s EXCEPT !.pins = @ - 1]
  <2>2. /\ store' = [store EXCEPT ![Taken(c)] = s2]
        /\ held' = [held EXCEPT ![c] = k - 1] /\ UNCHANGED <<situation, build, capture, home>>
    BY <1>7 DEF LetGo
  <2>3. s2 \in Slots /\ k - 1 \in 0..situation.held
    <3>1. s2 \in Slots
      BY <2>1, <1>2, PaidIs DEF Paid
    <3> QED
      BY <1>2, <2>1, <3>1
  <2>4. Untroubled(s, h, k, s2, h, k - 1)
    BY <1>2, <2>1, Untroubles
  <2> HIDE DEF s2
  <2>5. /\ Around' /\ home'[c] = h /\ held'[c] = k - 1
        /\ \A j \in Cell : j # c => home'[j] = home[j] /\ held'[j] = held[j]
    BY <1>1, <1>2, <2>2, <2>3 DEF Around
  <2>6. OneTroubled(c, s2)
    BY <2>2, <2>3, <2>4, <2>5 DEF OneTroubled
  <2> QED
    BY <2>5, <2>6, OneKeeps
<1> QED
  BY <1>3, <1>4, <1>5, <1>6, <1>7

-----------------------------------------------------------------------------
(* The frames a capture begins with: its own, in the heap and not pinned. *)
LEMMA NewFramesIs ==
  ASSUME NEW g, NEW st \in NewFrames(g)
  PROVE  /\ st \in Stores
         /\ \A f \in Frame : st[f].pins = 0 /\ (st[f] = Gone \/ \E c \in Cell : f = TakenIn(g, c))
<1>1. PICK cells \in SUBSET Cell :
        st = [f \in Frame |-> IF f \in {TakenIn(g, c) : c \in cells} THEN InHeap(0) ELSE Gone]
  BY DEF NewFrames
<1>2. \A f \in Frame : \/ st[f] = InHeap(0) /\ \E c \in Cell : f = TakenIn(g, c)
                       \/ st[f] = Gone
  BY <1>1
<1>3. InHeap(0) \in Slots /\ InHeap(0).pins = 0 /\ Gone \in Slots /\ Gone.pins = 0
  BY SlotsMade DEF InHeap, Gone
<1>4. st \in Stores
  BY <1>1, <1>2, <1>3 DEF Stores
<1> QED
  BY <1>2, <1>3, <1>4

(* A new capture finds nothing of an old build: its frames have other names. *)
LEMMA NewCaptureKeeps ==
  ASSUME BuildIInv, NewCapture
  PROVE  BuildIInv'
<1>1. /\ Around /\ Stocked(Owned, Astray, store)
      /\ build # NoBuild => Shaped(build) /\ Phase(build, store)
  BY InTwo
<1>2. /\ capture < situation.captures /\ capture' = capture + 1
      /\ \A f \in Frame : store[f].pins = 0
      /\ store' \in NewFrames(capture + 1) /\ home' = [c \in Cell |-> "Heap"]
      /\ UNCHANGED <<situation, build, held>>
  BY DEF NewCapture
<1>3. capture \in Nat /\ capture + 1 \in 1..MaxCaptures
  <2>1. situation.captures \in 1..MaxCaptures
    BY <1>1, PanoramaAssumption DEF Around
  <2>2. capture \in 1..MaxCaptures
    BY <1>1 DEF Around
  <2> QED
    BY <1>2, <2>1, <2>2, PanoramaAssumption
<1>4. Around'
  BY <1>1, <1>2, <1>3 DEF Around
<1>5. /\ store' \in Stores
      /\ \A f \in Frame : /\ store'[f].pins = 0
                          /\ store'[f] = Gone \/ \E c \in Cell : f = TakenIn(capture + 1, c)
  BY <1>2, NewFramesIs
<1>6. \A c \in Cell : /\ TakenIn(capture + 1, c) = Taken(c)' /\ Taken(c)' \in Frame
                      /\ Taken(c)'[2] = capture + 1
  BY <1>2, <1>3, Names DEF Taken
<1>7. Owned' = Owned /\ Astray' = Astray /\ Refuses' = Refuses
  BY <1>2 DEF Owned, Astray, Refuses
<1>8. Accounts(Owned, store)'
  BY <1>5, <1>6 DEF Accounts
<1>9. Placed(Astray, store)'
  <2>1. \A c \in Cell : home'[c] # "Spilled" /\ store'[Taken(c)'].pins = 0
    BY <1>2, <1>5, <1>6
  <2> QED
    BY <2>1 DEF Placed, Still
<1>10. build # NoBuild => build.capture \in Nat /\ build.capture <= capture
  BY <1>1, PanoramaAssumption DEF Shaped, Build
<1>11. \A m \in Astray : \A c \in Cell : m.frame # Taken(c)'
  <2> SUFFICES ASSUME NEW m \in Astray, NEW c \in Cell
               PROVE  m.frame # Taken(c)'
    OBVIOUS
  <2>1. build # NoBuild /\ m \in build.misplaced
    BY DEF Astray
  <2>2. build.capture \in 1..MaxCaptures
    BY <1>1, <2>1 DEF Shaped, Build
  <2>3. PICK k \in Cell : m.frame = TakenIn(build.capture, k)
    BY <1>1, <2>1 DEF Shaped, Borrows
  <2>4. m.frame[2] = build.capture
    BY <2>2, <2>3, Names
  <2>5. build.capture # capture + 1
    BY <1>3, <1>10, <2>1
  <2> QED
    BY <1>6, <2>4, <2>5
<1>12. Keeps(Astray, store)'
  <2>1. ASSUME "ResidencyOf" \notin Refuses, NEW c \in Cell
        PROVE  store'[Taken(c)'].pins >= held[c]
    <3>1. store[Taken(c)].pins = 0 /\ held[c] \in Nat
      BY <1>1, <1>2, TakenNames
    <3>2. store[Taken(c)].pins >= held[c]
      BY <1>1, <2>1 DEF Stocked, Keeps
    <3>3. held[c] = 0
      BY <3>1, <3>2
    <3>4. store'[Taken(c)'].pins = 0
      BY <1>5, <1>6
    <3> QED
      BY <3>3, <3>4
  <2> QED
    BY <1>2, <1>7, <1>11, <2>1 DEF Keeps
<1>13. Stocked(Owned, Astray, store)'
  BY <1>5, <1>8, <1>9, <1>12 DEF Stocked
<1>14. ASSUME build # NoBuild
       PROVE  Shaped(build)' /\ Phase(build, store)'
  <2>1. Shaped(build) /\ Phase(build, store)
    BY <1>1, <1>14
  <2>2. build.capture <= capture' /\ build.capture # capture'
    BY <1>2, <1>3, <1>10, <1>14
  <2>3. Shaped(build)'
    BY <1>2, <2>1, <2>2 DEF Shaped, PreviewOf
  <2>4. Phase(build, store)'
    BY <1>2, <2>1, <2>2 DEF Phase, PreviewOf
  <2> QED
    BY <2>3, <2>4
<1>15. (/\ Around /\ Stocked(Owned, Astray, store)
        /\ build # NoBuild => Shaped(build) /\ Phase(build, store))'
  BY <1>2, <1>4, <1>13, <1>14
<1> QED
  BY <1>15, InTwo, PTL

(* A pin left on the panorama is on a frame the build still has. *)
LEMMA PreviewKeeps ==
  ASSUME BuildIInv, PanoramaPreview
  PROVE  BuildIInv'
<1>1. /\ Around /\ build # NoBuild /\ Sane(build, store) /\ Phase(build, store)
      /\ build.stage = "Complete" /\ UNCHANGED <<build, others>>
  BY DEF BuildIInv, PanoramaPreview
<1>2. PICK f \in build.preview :
        store[f] # Gone /\ store' = [store EXCEPT ![f].pins = @ + 1]
  BY DEF PanoramaPreview
<1>3. /\ store \in Stores /\ build.capture \in 1..MaxCaptures /\ f = PreviewOf(build)
      /\ Accounts(build.features \cup build.preview, store)
      /\ Placed(build.misplaced, store) /\ Keeps(build.misplaced, store)
  BY <1>1, <1>2 DEF Sane, Shaped, Stocked, Build
<1>4. f \in Frame /\ f[1] = "preview"
  BY <1>3, Names DEF PreviewOf
<1>5. store[f] \in Slots /\ \A c \in Cell : f # Taken(c)
  BY <1>3, <1>4 DEF Stores, Taken, TakenIn
<1>6. store[f].tier = "Heap"
  BY <1>2, <1>3, <1>4, <1>5 DEF Accounts
<1> DEFINE s2 == [store[f] EXCEPT !.pins = @ + 1]
           t == [store EXCEPT ![f] = s2]
<1>7. store' = t
  BY <1>2
<1>8. s2 \in Slots /\ s2.tier = "Heap" /\ s2 # Gone
  <2>1. store[f].pins \in Nat /\ store[f] = [tier |-> store[f].tier, pins |-> store[f].pins]
    BY <1>5, SlotFacts
  <2>2. s2 = [tier |-> "Heap", pins |-> store[f].pins + 1]
    BY <1>6, <2>1
  <2> QED
    BY <2>1, <2>2 DEF Slots, Gone
<1> HIDE DEF s2
<1>9. t \in Stores /\ t[f] = s2 /\ \A g \in Frame : g # f => t[g] = store[g]
  BY <1>3, <1>4, <1>8 DEF Stores
<1> HIDE DEF t
<1>10. \A c \in Cell : t[Taken(c)] = store[Taken(c)]
  BY <1>1, <1>5, <1>9, TakenNames
<1>11. Stocked(build.features \cup build.preview, build.misplaced, t)
  <2>1. Placed(build.misplaced, t) /\ Keeps(build.misplaced, t)
    BY <1>3, <1>10 DEF Placed, Keeps
  <2>2. Accounts(build.features \cup build.preview, t)
    BY <1>2, <1>3, <1>8, <1>9 DEF Accounts
  <2> QED
    BY <1>9, <2>1, <2>2 DEF Stocked
<1>12. Ends(build, t)
  <2>1. Sane(build, t)
    BY <1>1, <1>11 DEF Sane
  <2>2. Phase(build, t)
    BY <1>1, <1>3, <1>8, <1>9 DEF Phase, Unfinished
  <2> QED
    BY <1>1, <2>1, <2>2 DEF Ends
<1> QED
  BY <1>1, <1>7, <1>12, CallKeeps

(* A store with a capture and no build satisfies it. *)
LEMMA InitKeeps ==
  ASSUME Init
  PROVE  BuildIInv
<1>1. /\ situation \in Situations /\ build = NoBuild /\ capture = 1 /\ store \in NewFrames(1)
      /\ held = [c \in Cell |-> 0] /\ home = [c \in Cell |-> "Heap"]
  BY DEF Init
<1>2. situation.held \in Nat /\ 1 \in 1..MaxCaptures
  BY <1>1, PanoramaAssumption
<1>3. Around
  BY <1>1, <1>2 DEF Around
<1>4. /\ store \in Stores
      /\ \A f \in Frame : /\ store[f].pins = 0
                          /\ store[f] = Gone \/ \E c \in Cell : f = TakenIn(1, c)
  BY <1>1, NewFramesIs
<1>5. Accounts({}, store)
  BY <1>1, <1>4 DEF Accounts, Taken
<1>6. \A c \in Cell : store[Taken(c)].pins = 0 /\ held[c] = 0 /\ home[c] = "Heap"
  BY <1>1, <1>3, <1>4, TakenNames
<1>7. Placed({}, store) /\ Keeps({}, store)
  BY <1>6 DEF Placed, Still, Keeps
<1> QED
  BY <1>1, <1>3, <1>4, <1>5, <1>7 DEF BuildIInv, Clear, Stocked

(* The induction: every step of the manager, the engines and the capture     *)
(* keeps who answers for each frame, and what is written down of it.         *)
THEOREM BuildHolds == Spec => []BuildIInv
<1>1. Init => BuildIInv
  BY InitKeeps
<1>2. BuildIInv /\ [Next]_vars => BuildIInv'
  <2> SUFFICES ASSUME BuildIInv, [Next]_vars
               PROVE  BuildIInv'
    OBVIOUS
  <2>1. CASE Start
    BY <2>1, StartKeeps
  <2>2. CASE ExtractFeatures \/ EstimatePair \/ Solve \/ JudgeGaps \/ Compose
    BY <2>2, PollsKeep
  <2>3. CASE Cancel
    BY <2>3, CancelKeeps
  <2>4. CASE PanoramaPreview
    BY <2>4, PreviewKeeps
  <2>5. CASE NewCapture
    BY <2>5, NewCaptureKeeps
  <2>6. CASE \E c \in Cell : Cool(c) \/ Warm(c) \/ RetakeDiscards(c) \/ Hold(c) \/ LetGo(c)
    BY <2>6, CaptureKeeps
  <2>7. CASE UNCHANGED vars
    <3>1. UNCHANGED <<situation, build, store, capture, held, home>>
      BY <2>7 DEF vars
    <3>2. Ends(build', store')
      BY <3>1 DEF BuildIInv, Ends
    <3> QED
      BY <3>1, <3>2, CallKeeps DEF BuildIInv, others
  <2> QED
    BY <2>1, <2>2, <2>3, <2>4, <2>5, <2>6, <2>7 DEF Next
<1> QED
  BY <1>1, <1>2, PTL DEF Spec

(* Type correctness: the build's bookkeeping, the frames' tiers and pins.    *)
THEOREM TypesHold == Spec => []TypeOK
<1>1. BuildIInv => TypeOK
  <2> SUFFICES ASSUME BuildIInv
               PROVE  TypeOK
    OBVIOUS
  <2>1. Around /\ store \in Stores /\ build \in Build \cup {NoBuild}
    BY DEF BuildIInv, Clear, Sane, Shaped, Stocked
  <2>2. \A f \in Frame : store[f] \in Slots
    BY <2>1 DEF Stores
  <2>3. \A f \in Frame : /\ store[f].tier \in {"Gone", "Heap", "Spilled"} /\ store[f].pins \in Nat
                         /\ store[f].pins > 0 => store[f].tier = "Heap"
    BY <2>2, SlotFacts
  <2>4. DOMAIN store = Frame
    BY <2>1 DEF Stores
  <2> QED
    BY <2>1, <2>3, <2>4 DEF TypeOK, Around
<1> QED
  BY <1>1, BuildHolds, PTL

(* Whatever calls the store declined on the way, once it declines none one   *)
(* Cancel leaves it without a frame of the build's, a pin of an engine's or  *)
(* a frame warmer than the capture left it: nothing is ever leaked.          *)
THEOREM AlwaysRecoverable == Spec => []Recoverable
<1>1. BuildIInv => Recoverable
  <2> SUFFICES ASSUME BuildIInv
               PROVE  Recoverable
    OBVIOUS
  <2>1. CASE build = NoBuild
    BY <2>1, ClearRestores DEF BuildIInv, Recoverable
  <2>2. CASE build # NoBuild
    <3>1. Around /\ Sane(build, store)
      BY <2>2 DEF BuildIInv
    <3>2. ASSUME NEW o \in GiveBack(build, store, {})
          PROVE  o.ok /\ Restored(o.store)
      <4>1. GivenBack(o, build, store, {})
        BY <3>1, <3>2, GiveBackIs
      <4>2. o.ok /\ Clear(o.store)
        BY <4>1, ClearIs DEF GivenBack
      <4> QED
        BY <3>1, <4>2, ClearRestores
    <3> QED
      BY <2>2, <3>2 DEF Recoverable
  <2> QED
    BY <2>1, <2>2
<1> QED
  BY <1>1, BuildHolds, PTL

(* While a build goes on, every frame it has read is back where it was: the  *)
(* sphere never piles up in the heap.                                        *)
THEOREM ReadAndPutBack == Spec => []InPlaceWhileRunning
<1>1. BuildIInv => InPlaceWhileRunning
  <2> SUFFICES ASSUME BuildIInv, Running, situation.held = 0
               PROVE  InPlace(store)
    BY DEF InPlaceWhileRunning
  <2>1. Around /\ Placed({}, store)
    BY DEF BuildIInv, Running, Phase, Sane, Stocked
  <2>2. \A c \in Cell : held[c] = 0
    BY <2>1, TakenNames DEF Around
  <2>3. \A c \in Cell : Still(store[Taken(c)], home[c])
    BY <2>1 DEF Placed
  <2> QED
    BY <2>2, <2>3 DEF InPlace, Still
<1> QED
  BY <1>1, BuildHolds, PTL

(* A complete build names its panorama and owes nothing; a Start that could  *)
(* not release it leaves it standing.                                        *)
THEOREM FinishedBuildStands == Spec => []FinishedStands
<1>1. BuildIInv => FinishedStands
  BY DEF BuildIInv, FinishedStands, Phase
<1> QED
  BY <1>1, BuildHolds, PTL

(* No build takes a holder's pin, now or in a later retry, wherever the      *)
(* store can say where a frame is (PanoramaOwed shows what happens where it  *)
(* cannot).                                                                  *)
THEOREM HoldersKeep ==
  Spec => []("ResidencyOf" \notin Refuses \/ situation.held = 0 => HoldersKeepTheirPins)
<1>1. BuildIInv => ("ResidencyOf" \notin Refuses \/ situation.held = 0 => HoldersKeepTheirPins)
  <2> SUFFICES ASSUME BuildIInv, "ResidencyOf" \notin Refuses \/ situation.held = 0
               PROVE  HoldersKeepTheirPins
    OBVIOUS
  <2>1. Around /\ Stocked(Owned, Astray, store)
    BY InTwo
  <2>2. CASE "ResidencyOf" \notin Refuses
    BY <2>1, <2>2 DEF Stocked, Keeps, HoldersKeepTheirPins
  <2>3. CASE situation.held = 0
    <3>1. \A c \in Cell : held[c] = 0 /\ store[Taken(c)] \in Slots
      BY <2>1, <2>3, TakenNames DEF Around, Stocked, Stores
    <3> QED
      BY <3>1, SlotFacts DEF HoldersKeepTheirPins
  <2> QED
    BY <2>2, <2>3
<1> QED
  BY <1>1, BuildHolds, PTL
=============================================================================
