--------------------------- MODULE CoveragePlanner ---------------------------
(***************************************************************************)
(* RingsCoveragePlannerEngine on the horizon: directions are those of a    *)
(* circle, a cell is named by the direction it is laid at, and a frame     *)
(* images what is within half its lens of where it is aimed.               *)
(*                                                                         *)
(* The engine asks its questions at samples: every Grain-th direction and, *)
(* of the aims a cone accepts, its middle and its edges.  The directions   *)
(* and the aims between them are what the margins are for, so they are in  *)
(* the model and the engine does not look at them.  A plan with caps, and  *)
(* the roll it asks for, are left out.                                     *)
(***************************************************************************)
EXTENDS Naturals, Integers, FiniteSetsExt

CONSTANTS
  Turn,       \* directions on the horizon
  Grain,      \* how far apart the directions asked are
  Margin,     \* kMarginDeg: how much smaller the frame asked about is
  Between,    \* kBetweenDeg: how far around a direction a frame must cover it
  MaxCells,   \* kMaxCells
  NoPlan, NoGaps   \* refusals

Direction == 0..(Turn - 1)
Sample == {d \in Direction : d % Grain = 0}

(* The directions asked are nearer than the margins for what is between     *)
(* them; a refusal is no set of cells or gaps.                              *)
ASSUME PlannerAssumption ==
  /\ Turn \in Nat \ {0} /\ Grain \in 1..Turn /\ Turn % Grain = 0
  /\ Margin \in Nat /\ Grain <= 2 * Margin
  /\ Between \in Nat /\ Grain <= 2 * Between
  /\ MaxCells \in Nat \ {0}
  /\ \A cells \in SUBSET Direction : cells \notin {NoPlan, NoGaps}

(* AngleBetweenDirections; and the way from one direction to another. *)
Offset(from, to) == ((to - from + Turn \div 2) % Turn) - Turn \div 2
Apart(d, e) == LET o == Offset(d, e) IN IF o < 0 THEN -o ELSE o

(* A lens is half of its field of view, an overlap in tenths of it. *)
Tenths == 10
PlanSpec(lenses, cones, overlaps) == [half : lenses, cone : cones, overlap : overlaps]

Aims(cell, cone) == {d \in Direction : Apart(cell, d) <= cone}
Images(aim, half, d) == Apart(aim, d) <= half

-----------------------------------------------------------------------------
(* LayRings: as many cells as steps go into the turn, evenly spaced. *)
CellsFor(step) == (Turn + step - 1) \div step
LayRings(step) == {(Turn * k) \div CellsFor(step) : k \in 0..(CellsFor(step) - 1)}

(* Fault: a frame is asked about as if it were always aimed at its cell. *)
CompleteInTheBestCase(cells, spec) ==
  \A d \in Sample : \E c \in cells : Images(c, spec.half - Margin, d)

(* Every direction asked is in some cell's frame, however that is aimed. *)
CompleteInTheWorstCase(cells, spec) ==
  \A d \in Sample : \E c \in cells :
    \A aim \in {c, (c + spec.cone) % Turn, (c - spec.cone) % Turn} :
      Images(aim, spec.half - Margin, d)

(* What Plan refuses before it lays anything. *)
SpecRefused(spec) ==
  \/ spec.cone = 0 \/ spec.half = 0 \/ 4 * spec.half > Turn
  \/ spec.cone + Margin >= spec.half

(* Plan: laid by the overlap, and tighter until it is complete or has too   *)
(* many cells.                                                              *)
Plan(spec) ==
  LET first == Max({1, (2 * spec.half * (Tenths - spec.overlap)) \div Tenths})
      ends == {s \in 1..first : CellsFor(s) > MaxCells
                                  \/ CompleteInTheWorstCase(LayRings(s), spec)}
  IN  IF SpecRefused(spec) \/ ends = {} \/ CellsFor(Max(ends)) > MaxCells
      THEN NoPlan ELSE LayRings(Max(ends))

-----------------------------------------------------------------------------
(* Evaluate: a cell is covered by any frame filed under it. *)
Holes(cells, captured) == {c \in cells : captured[c] = {}}

Nearest(among, looking) ==
  CHOOSE c \in among : \A e \in among :
    Apart(looking, c) < Apart(looking, e) \/ (Apart(looking, c) = Apart(looking, e) /\ c <= e)

Inside(cells, cone, pose) ==
  {c \in cells : pose.measured /\ Apart(pose.at, c) <= cone}

GuidanceAction ==
  {"Seek", "HoldStill", "Fire", "Firing", "CellDone", "TooFast", "AlreadyCaptured", "SphereDone"}

(* Locate: the cell the camera is inside, captured or not; else the nearest *)
(* that is missing; else the nearest.                                       *)
Locate(pose, cells, cone, holes) ==
  LET inside == Inside(cells, cone, pose)
      target == Nearest(IF inside # {} THEN inside ELSE IF holes # {} THEN holes ELSE cells,
                        pose.at)
  IN  [aimKnown |-> pose.measured, target |-> target,
       action |-> IF holes = {} THEN "SphereDone"
                  ELSE IF inside = {} THEN "Seek"
                  ELSE IF target \in holes THEN "HoldStill" ELSE "AlreadyCaptured"]

-----------------------------------------------------------------------------
(* Fault: a direction asked is covered, whatever is around it. *)
CoveredAtTheDirection(aims, half, d) == \E aim \in aims : Images(aim, half, d)

(* FindGaps.  A direction is covered where one frame covers it and what is  *)
(* around it.                                                               *)
CoveredBy(aims, half, d) ==
  \E aim \in aims : \A e \in {d, (d + Between) % Turn, (d - Between) % Turn} :
    Images(aim, half, e)

OpenAt(aims, half) == {d \in Sample : ~CoveredBy(aims, half, d)}

(* What a fill frame covers wherever in the cone it is aimed. *)
Reach(half, cone) == half - cone - Between

(* The middle of what is open within reach of the seed. *)
Middle(seed, near) ==
  (seed + SumSet({Offset(seed, d) : d \in near}) \div Cardinality(near)) % Turn

(* From the first direction still open, aimed at the middle of what is open *)
(* around it, taking what is within reach of that.                          *)
Targets(open, reach) ==
  LET gathered[left \in SUBSET open] ==
        IF left = {} THEN {}
        ELSE LET seed == Min(left)
                 aim == Middle(seed, {d \in left : Apart(seed, d) <= reach})
             IN  {aim} \cup gathered[{d \in left : Apart(aim, d) > reach}]
  IN  gathered[open]

(* Refused where a fill frame reaches less than the directions are apart. *)
FindGaps(aims, half, cone) ==
  IF Reach(half, cone) < Grain THEN NoGaps ELSE Targets(OpenAt(aims, half), Reach(half, cone))
=============================================================================
