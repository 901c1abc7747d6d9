------------------------------- MODULE Aiming -------------------------------
(***************************************************************************)
(* How CaptureSessionManager gets a cell its frames: guidance on every     *)
(* tick, the dwell that offers a burst, the arm the page brings back some  *)
(* time later, and the burst, paced by ticks against a camera that makes   *)
(* frames at its own rate.                                                 *)
(*                                                                         *)
(* Time passes between ticks, each of which brings however much of it      *)
(* passed, whatever samples arrived, and the phone wherever it has been    *)
(* turned to.  A frame is the direction it was taken in.  What becomes of  *)
(* frames in the store is CaptureSession's, how locks reach the camera     *)
(* CameraPath's: here releasing them may be refused.                       *)
(***************************************************************************)
EXTENDS CoveragePlanner

CONSTANTS
  Lens, Cone, Overlap,   \* the plan's spec
  Cell,        \* and the cells it is laid in
  Headings,    \* bound: the directions the phone is turned to
  Lapses,      \* bound: how much time passes between two ticks
  Periods,     \* bound: how often the camera makes a frame, as locks leave it
  DwellFull,   \* kDwellNs
  Credit,      \* kMaxDwellCreditNs
  FrameCount, Interval, Settle,   \* the BurstSpec
  NoCell

ASSUME AimingAssumption ==
  /\ Headings \subseteq Direction /\ Lapses \subseteq Nat \ {0} /\ Periods \subseteq Nat \ {0}
  /\ DwellFull \in Nat \ {0} /\ Credit \in 1..DwellFull
  /\ FrameCount \in Nat \ {0} /\ Interval \in Nat /\ Settle \in Nat
  /\ NoCell \notin Cell

VARIABLES
  active,     \* a session is in progress
  pose,       \* where the phone looks, and whether anything measured it
  captured,   \* the frames of each cell
  dwell,      \* dwell_node_ and dwell_ns_
  idle,       \* time since dwell_marked_ns_, as far as it matters
  held,       \* what of this dwell was witnessed: what its ticks with samples
              \* may vouch for, and time
  offer,      \* the cell of an arm the page has out
  firing,     \* burst_node_, while firing_
  pending,    \* the burst's frames
  wait,       \* time left to next_frame_ns_
  rate,       \* the period the session takes the camera to have; 0: not said
  camera,     \* during a burst: its period, the age of its latest frame, and
              \* whether the burst has yet to take it
  repeated    \* at a rate the session knew, a burst took a frame twice, or one
              \* from before its locks

vars == <<active, pose, captured, dwell, idle, held, offer, firing, pending, wait, rate,
          camera, repeated>>

(* A session is begun on a plan the planner laid. *)
ASSUME PlannedAssumption ==
  /\ Lens \in Nat /\ Cone \in Nat /\ Overlap \in 0..(Tenths - 1)
  /\ Cell = Plan([half |-> Lens, cone |-> Cone, overlap |-> Overlap]) /\ Cell # NoPlan

(* The pose: the identity while nothing anchored it, measured since, or one *)
(* no solve would take, which reads as facing the identity whatever it      *)
(* claims.                                                                  *)
Unanchored == [at |-> 0, sense |-> "none"]
Defective == [at |-> 0, sense |-> "defective"]
Pose == [at : Headings, sense : {"measured"}] \cup {Defective}
IsMeasured(p) == p.sense = "measured"
AimOf(p) == [at |-> p.at, measured |-> IsMeasured(p)]

NoFrames == [c \in Cell |-> {}]
NoDwell == [node |-> NoCell, ns |-> 0]
Unwatched == [period |-> Min(Periods), age |-> 0, fresh |-> FALSE]
Unheld == [vouched |-> 0, span |-> 0]
Capped(n, cap) == IF n > cap THEN cap ELSE n
Least(a, b) == IF a < b THEN a ELSE b
Most(a, b) == IF a < b THEN b ELSE a

Init ==
  /\ active = FALSE
  /\ pose = Unanchored
  /\ captured = NoFrames
  /\ dwell = NoDwell /\ idle = 0 /\ held = Unheld
  /\ offer = NoCell
  /\ firing = NoCell /\ pending = {} /\ wait = 0 /\ repeated = FALSE
  /\ rate = 0 /\ camera = Unwatched

-----------------------------------------------------------------------------
(* CameraFramePeriodNs floors both waits of a burst. *)
BurstIntervalNs(r) == Most(Interval, r)

(* Fault: only what the caller asked for is waited for. *)
BurstSettleAsked(r) == Settle

BurstSettleNs(r) == Most(Settle, r)

(* The camera goes on making frames; the burst finds its latest one. *)
Aged(cam, lapse) ==
  [cam EXCEPT !.age = (@ + lapse) % cam.period, !.fresh = @ \/ cam.age + lapse >= cam.period]

(* Begin and Resume: a capture emptied or taken back, nothing measured yet. *)
Begin ==
  /\ ~active
  /\ active' = TRUE
  /\ captured' \in {NoFrames, captured}
  /\ pose' = Unanchored
  /\ rate' \in Periods \cup {0}
  /\ UNCHANGED <<dwell, idle, held, offer, firing, pending, wait, camera, repeated>>

ResetDwell == dwell' = NoDwell /\ idle' = 0 /\ held' = Unheld

(* Disarm: the burst is over, whatever became of its frames. *)
Disarm == firing' = NoCell /\ pending' = {} /\ wait' = 0 /\ camera' = Unwatched

End ==
  /\ active
  /\ active' = FALSE
  /\ Disarm
  /\ rate' = 0
  /\ ResetDwell
  /\ UNCHANGED <<pose, captured, offer, repeated>>

(* RequestRetake, replacing what the cell holds. *)
Retake(cell) ==
  /\ active
  /\ captured' = [captured EXCEPT ![cell] = {}]
  /\ IF firing = cell THEN Disarm ELSE UNCHANGED <<firing, pending, wait, camera>>
  /\ UNCHANGED <<active, pose, dwell, idle, held, offer, rate, repeated>>

-----------------------------------------------------------------------------
(* Whether the camera looks at a cell, as the arm and every frame ask. *)
Aimed(p, cell) == Apart(p.at, cell) <= Cone

(* The page's arm gets to ArmBurst, which answers it either way. *)
CanArm(cell) ==
  /\ active /\ firing = NoCell
  /\ IsMeasured(pose)
  /\ Aimed(pose, cell)

(* The locks go on, after which the camera has a rate of its own, and is    *)
(* asked for it: no answer, or one that says nothing, keeps the last.       *)
ArmBurst(cell) ==
  /\ offer = cell /\ CanArm(cell)
  /\ firing' = cell /\ pending' = {}
  /\ \E p \in Periods, age \in 0..(Max(Periods) - 1) :
       /\ age < p
       /\ camera' = [period |-> p, age |-> age, fresh |-> FALSE]
  /\ rate' \in {rate, camera'.period}
  /\ wait' = BurstSettleNs(rate')
  /\ offer' = NoCell
  /\ UNCHANGED <<active, pose, captured, dwell, idle, held, repeated>>

(* Refused by one of its guards, by the camera's locks, or lost on the way. *)
ArmRefused ==
  /\ offer # NoCell
  /\ offer' = NoCell
  /\ UNCHANGED <<active, pose, captured, dwell, idle, held, firing, pending, wait, rate,
                 camera, repeated>>

-----------------------------------------------------------------------------
(* OnMotion.  A batch with samples leaves the pose wherever the engine says. *)
Moves(sampled) == IF sampled THEN pose' \in Pose \cup {pose} ELSE UNCHANGED pose

Located == Locate(AimOf(pose'), Cell, Cone, Holes(Cell, captured))

(* Fault: the mark moves only with a sample, and a stall is banked. *)
CreditedSinceSample(lapse, sampled) ==
  [ns |-> IF sampled THEN idle + lapse ELSE 0, idle |-> IF sampled THEN 0 ELSE idle + lapse]

(* Fault: what a late tick brings is not credited at all. *)
CreditedUnlessLate(lapse, sampled) ==
  [ns |-> IF sampled /\ idle + lapse <= Credit THEN idle + lapse ELSE 0, idle |-> 0]

(* What a tick adds to a dwell: only one with samples, and no more than a   *)
(* tick may; the mark moves with every tick.                                *)
Credited(lapse, sampled) ==
  [ns |-> IF sampled THEN Least(idle + lapse, Credit) ELSE 0, idle |-> 0]

(* The dwell of a tick that completed: anew where the cell or the action is *)
(* another, more where it is not, and offered and started over when full.   *)
Dwells(lapse, sampled, action, target) ==
  LET holding == action = "HoldStill"
      credited == Credited(lapse, sampled)
      ns == IF holding /\ dwell.node = target THEN dwell.ns + credited.ns ELSE 0
      fires == holding /\ ns >= DwellFull
  IN  /\ idle' = Capped(credited.idle, Credit + 1)
      /\ dwell' = [node |-> IF holding THEN target ELSE NoCell, ns |-> IF fires THEN 0 ELSE ns]
      /\ held' = IF fires \/ ~holding \/ dwell.node # target THEN Unheld
                 ELSE [vouched |-> Capped(held.vouched + (IF sampled THEN Credit ELSE 0), DwellFull),
                       span |-> Capped(held.span + lapse, DwellFull)]
      /\ offer' = IF fires /\ offer = NoCell THEN target ELSE offer

(* A tick that answers an error before the dwell: its mark stays. *)
NoDwells(lapse) ==
  /\ idle' = Capped(idle + lapse, Credit + 1)
  /\ held' = IF dwell.node = NoCell THEN held
             ELSE [held EXCEPT !.span = Capped(@ + lapse, DwellFull)]
  /\ UNCHANGED <<dwell, offer>>

(* Fault: the deadline is set anew by every tick that waits for it. *)
LaterAnew(lapse) == wait

Later(lapse) == IF wait > lapse THEN wait - lapse ELSE 0

Guide(lapse, sampled) ==
  /\ firing = NoCell
  /\ Moves(sampled)
  /\ Dwells(lapse, sampled, Located.action, Located.target)
  /\ UNCHANGED <<active, captured, firing, pending, wait, rate, camera, repeated>>

(* AdvanceBurst before the next frame is due. *)
NotDue(lapse, sampled) ==
  /\ firing # NoCell /\ Later(lapse) > 0
  /\ Moves(sampled)
  /\ wait' = Later(lapse)
  /\ camera' = Aged(camera, lapse)
  /\ Dwells(lapse, sampled, "Firing", firing)
  /\ UNCHANGED <<active, captured, firing, pending, rate, repeated>>

Due(lapse, sampled) ==
  /\ firing # NoCell /\ Later(lapse) = 0
  /\ Moves(sampled)

(* Fault: only the arm asks where the camera looks. *)
UncheckedWhileFiring == TRUE

(* OnArmedCell, of every frame. *)
OnArmedCell == Aimed(pose', firing)

OffCell(lapse, sampled) ==
  /\ Due(lapse, sampled) /\ pose'.sense # "defective" /\ ~OnArmedCell
  /\ Disarm
  /\ \/ Dwells(lapse, sampled, "TooFast", firing)
     \/ NoDwells(lapse)
  /\ UNCHANGED <<active, captured, rate, repeated>>

TakesFrame(lapse, sampled) ==
  /\ Due(lapse, sampled) /\ pose'.sense # "defective" /\ OnArmedCell
  /\ repeated' = (repeated \/ (rate = camera.period /\ ~Aged(camera, lapse).fresh))

TakeFrame(lapse, sampled) ==
  /\ TakesFrame(lapse, sampled) /\ Cardinality(pending) + 1 < FrameCount
  /\ pending' = pending \cup {[n |-> Cardinality(pending), at |-> pose'.at]}
  /\ wait' = BurstIntervalNs(rate)
  /\ camera' = [Aged(camera, lapse) EXCEPT !.fresh = FALSE]
  /\ Dwells(lapse, sampled, "Firing", firing)
  /\ UNCHANGED <<active, captured, firing, rate>>

(* The burst is the cell's; a release of the locks that is refused is the   *)
(* tick's error, and the frames are kept all the same.                      *)
FillCell(lapse, sampled) ==
  /\ TakesFrame(lapse, sampled) /\ Cardinality(pending) + 1 = FrameCount
  /\ captured' = [captured EXCEPT ![firing] = @ \cup {p.at : p \in pending} \cup {pose'.at}]
  /\ Disarm
  /\ \/ Dwells(lapse, sampled, "CellDone", firing)
     \/ NoDwells(lapse)
  /\ UNCHANGED <<active, rate>>

(* Abandon: whatever failed, the burst is rolled back. *)
TickFails(lapse) ==
  /\ Moves(TRUE)
  /\ Disarm
  /\ NoDwells(lapse)
  /\ UNCHANGED <<active, captured, rate, repeated>>

Completes(lapse, sampled) ==
  \/ Guide(lapse, sampled) \/ NotDue(lapse, sampled) \/ OffCell(lapse, sampled)
  \/ TakeFrame(lapse, sampled) \/ FillCell(lapse, sampled)

OnMotion ==
  active /\ \E lapse \in Lapses :
    (\E sampled \in BOOLEAN : Completes(lapse, sampled)) \/ TickFails(lapse)

Next ==
  \/ Begin \/ End \/ OnMotion \/ ArmRefused
  \/ \E cell \in Cell : ArmBurst(cell) \/ Retake(cell)

Spec == Init /\ [][Next]_vars

(* The page ticks on every animation frame of a session, and whatever fails *)
(* in between, ticks its sensor delivered to go on being answered.          *)
FairSpec == Spec /\ WF_vars(active /\ \E lapse \in Lapses : Completes(lapse, TRUE))

-----------------------------------------------------------------------------
(* A dwell counts no more than was witnessed: what ticks with samples may   *)
(* vouch for, and the time since the cell was first held.                   *)
DwellEarned == dwell.ns <= Least(held.vouched, held.span)

(* Where the session knows the camera's rate, a burst's frames are each an  *)
(* exposure of their own, made since its locks went on.                     *)
OwnExposures == ~repeated

(* When guidance calls the sphere done, every direction is in some cell's   *)
(* frame, whichever frame of each cell is chosen for it.                    *)
DoneMeansCovered ==
  Holes(Cell, captured) = {} =>
    \A d \in Direction : \E c \in Cell :
      captured[c] # {} /\ \A at \in captured[c] : Images(at, Lens, d)

(* No burst stays armed, holding the locks and every other cell up. *)
BurstEnds == firing # NoCell ~> firing = NoCell

(* A phone held on a cell that wants it is offered a burst, and, where the  *)
(* arm was refused, offered again.                                          *)
Holding ==
  active /\ firing = NoCell
    /\ Locate(AimOf(pose), Cell, Cone, Holes(Cell, captured)).action = "HoldStill"
HeldIsOffered ==
  \A c \in Cell : <>[](Holding /\ pose.at \in Aims(c, Cone)) => []<>(offer # NoCell)
=============================================================================
