-------------------------------- MODULE Sweep --------------------------------
(***************************************************************************)
(* What a plan promises: a capture of every cell, each by a frame aimed    *)
(* anywhere its cone accepts, sees everything; and so does a build that    *)
(* placed only some of the frames, or found the lens narrower than the     *)
(* plan's, once every gap it reports is filled.                            *)
(***************************************************************************)
EXTENDS CoveragePlanner

CONSTANTS Lenses, Cones, Overlaps   \* what plans are asked for

ASSUME SweepAssumption ==
  Lenses \subseteq Nat /\ Cones \subseteq Nat /\ Overlaps \subseteq 0..(Tenths - 1)

VARIABLES
  spec,     \* what the plan is asked for
  plan,     \* the cells, or NoPlan
  lens,     \* what the camera really sees, which the solve finds
  taken,    \* the capture's frames: where each cell's was aimed
  placed,   \* aims of the frames the build placed, or filled since
  gaps,     \* what is left of the build's gaps
  judged    \* whether a build has judged them

sweepVars == <<spec, plan, lens, taken, placed, gaps, judged>>

Planned == plan # NoPlan

SweepInit ==
  /\ spec \in PlanSpec(Lenses, Cones, Overlaps)
  /\ plan = Plan(spec)
  /\ lens \in 1..spec.half
  /\ taken = {} /\ placed = {} /\ gaps = {} /\ judged = FALSE

(* A burst of a cell, taken anywhere the cone accepts. *)
Take(cell) ==
  /\ ~judged /\ \A t \in taken : t.cell # cell
  /\ \E aim \in Aims(cell, spec.cone) : taken' = taken \cup {[cell |-> cell, aim |-> aim]}
  /\ UNCHANGED <<spec, plan, lens, placed, gaps, judged>>

(* JudgeGaps: of the frames the solve could place, through its lens. *)
JudgeGaps ==
  /\ Planned /\ ~judged
  /\ placed' \in SUBSET {t.aim : t \in taken}
  /\ gaps' = FindGaps(placed', lens, spec.cone)
  /\ judged' = TRUE /\ taken' = {}
  /\ UNCHANGED <<spec, plan, lens>>

(* A frame aimed at a gap, anywhere in the same cone. *)
Fill ==
  /\ judged /\ gaps # NoGaps
  /\ \E gap \in gaps : \E aim \in Aims(gap, spec.cone) :
       placed' = placed \cup {aim} /\ gaps' = gaps \ {gap}
  /\ UNCHANGED <<spec, plan, lens, taken, judged>>

SweepNext ==
  \/ Planned /\ \E cell \in plan : Take(cell)
  \/ JudgeGaps
  \/ Fill

SweepSpec == SweepInit /\ [][SweepNext]_sweepVars

-----------------------------------------------------------------------------
Seen(aims) == \A d \in Direction : \E aim \in aims : Images(aim, lens, d)

(* A capture with a frame for every cell sees every direction, the ones the *)
(* plan was never asked at included, wherever in its cone each was aimed;   *)
(* and aiming at every gap a build reports closes the sphere, whatever was  *)
(* placed before and however wrong the lens the plan was laid with.         *)
SeesEverything ==
  /\ Planned /\ {t.cell : t \in taken} = plan /\ lens = spec.half
       => Seen({t.aim : t \in taken})
  /\ judged /\ gaps = {} => Seen(placed)
=============================================================================
