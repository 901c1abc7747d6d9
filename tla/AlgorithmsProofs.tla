---------------------------- MODULE AlgorithmsProofs ----------------------------
(***************************************************************************)
(* Theorems about the algorithms: the planner and the sweep, the capture   *)
(* loop that aims by them, the facade's codec and the pose engine.         *)
(***************************************************************************)
EXTENDS Aiming, Sweep, Facade, PoseTracking, FiniteSetTheorems, SequenceTheorems,
        WellFoundedInduction, TLAPS

-----------------------------------------------------------------------------
(* Induction, stated of sets, so that it can be cited. *)
LEMMA InductiveSet ==
  ASSUME NEW S \in SUBSET Nat, 0 \in S, \A n \in S : n + 1 \in S
  PROVE  \A n \in Nat : n \in S
<1> DEFINE out == Nat \ S
           R == OpToRel(<, Nat)
<1>1. CASE out = {}
  BY <1>1
<1>2. CASE out # {}
  <2>1. PICK n \in out : \A k \in out : ~(<<k, n>> \in R)
    BY <1>2, NatLessThanWellFounded, WFMin
  <2>2. \A k \in out : ~(k < n)
    BY <2>1 DEF OpToRel
  <2> HIDE DEF R
  <2>3. n \in Nat /\ n # 0 /\ n - 1 \in Nat /\ n - 1 < n
    BY <2>1
  <2>4. n - 1 \in S
    BY <2>2, <2>3
  <2>5. (n - 1) + 1 \in S
    BY <2>4
  <2> QED
    BY <2>1, <2>3, <2>5
<1> QED
  BY <1>1, <1>2

(* A recursion over the subsets of a set that always goes on with less.     *)
Descends(next, S) ==
  /\ next \in [SUBSET S -> SUBSET S]
  /\ \A s \in SUBSET S : s # {} => next[s] \subseteq s /\ next[s] # s

Recurs(g, S, base, next, step) ==
  \A s \in SUBSET S : g[s] = IF s = {} THEN base ELSE step[s][g[next[s]]]

(* Where the set is finite, there is a function that computes it. *)
LEMMA RecursionOnSubsets ==
  ASSUME NEW S, IsFiniteSet(S), NEW V, NEW base \in V,
         NEW next, Descends(next, S), NEW step \in [SUBSET S -> [V -> V]]
  PROVE  \E g \in [SUBSET S -> V] : Recurs(g, S, base, next, step)
<1> DEFINE Is(g, s) == g[s] = IF s = {} THEN base ELSE step[s][g[next[s]]]
           Small(n) == {s \in SUBSET S : Cardinality(s) <= n}
           Good == {n \in Nat : \E g \in [SUBSET S -> V] : \A s \in Small(n) : Is(g, s)}
<1> USE DEF Descends
<1>1. \A s \in SUBSET S : IsFiniteSet(s) /\ Cardinality(s) \in Nat
  BY FS_Subset, FS_CardinalityType
<1>2. \A s \in SUBSET S : Cardinality(s) = 0 <=> s = {}
  BY <1>1, FS_EmptySet
<1>3. \A s \in SUBSET S : s # {} => next[s] \in SUBSET S /\ Cardinality(next[s]) < Cardinality(s)
  BY <1>1, FS_Subset
<1>4. 0 \in Good
  <2> DEFINE g == [s \in SUBSET S |-> base]
  <2>1. \A s \in Small(0) : s = {}
    BY <1>1, <1>2
  <2>2. g \in [SUBSET S -> V] /\ \A s \in Small(0) : Is(g, s)
    BY <2>1
  <2> QED
    BY <2>2
<1>5. ASSUME NEW n \in Good PROVE n + 1 \in Good
  <2>1. PICK g \in [SUBSET S -> V] : \A s \in Small(n) : Is(g, s)
    OBVIOUS
  <2> DEFINE h == [s \in SUBSET S |-> IF s \in Small(n) THEN g[s]
                                      ELSE step[s][g[next[s]]]]
  <2>2. h \in [SUBSET S -> V]
    OBVIOUS
  <2>3. \A s \in SUBSET S : s # {} /\ s \in Small(n + 1) => next[s] \in Small(n)
    BY <1>1, <1>3
  <2>4. \A s \in Small(n) : h[s] = g[s]
    OBVIOUS
  <2>5. {} \in Small(n)
    BY <1>2, <1>1
  <2>6. ASSUME NEW s \in Small(n + 1) PROVE Is(h, s)
    <3>1. CASE s = {}
      BY <2>1, <2>4, <2>5, <3>1
    <3>2. CASE s # {}
      <4>1. next[s] \in Small(n) /\ h[next[s]] = g[next[s]]
        BY <2>3, <2>4, <3>2
      <4>2. h[s] = step[s][g[next[s]]]
        BY <2>1, <3>2
      <4> QED
        BY <3>2, <4>1, <4>2
    <3> QED
      BY <3>1, <3>2
  <2>7. n + 1 \in Nat
    OBVIOUS
  <2> HIDE DEF h, Is, Small
  <2> QED
    BY <2>2, <2>6, <2>7
<1>6. Cardinality(S) \in Good
  <2>1. Good \in SUBSET Nat
    OBVIOUS
  <2> HIDE DEF Good
  <2> QED
    BY <1>1, <1>4, <1>5, <2>1, InductiveSet
<1>7. SUBSET S = Small(Cardinality(S))
  BY FS_Subset
<1> QED
  BY <1>6, <1>7 DEF Recurs

(* Induction over the subsets of a finite set. *)
LEMMA InductiveSubsets ==
  ASSUME NEW S, IsFiniteSet(S), NEW Q,
         \A s \in SUBSET S : (\A t \in SUBSET s : t # s => t \in Q) => s \in Q
  PROVE  S \in Q
<1> DEFINE Good == {n \in Nat : \A s \in SUBSET S : Cardinality(s) <= n => s \in Q}
<1>1. \A s \in SUBSET S : IsFiniteSet(s) /\ Cardinality(s) \in Nat
  BY FS_Subset, FS_CardinalityType
<1>2. \A s \in SUBSET S : \A t \in SUBSET s : t # s => Cardinality(t) < Cardinality(s)
  BY <1>1, FS_Subset
<1>3. 0 \in Good
  <2>1. ASSUME NEW s \in SUBSET S, Cardinality(s) <= 0 PROVE s \in Q
    <3>1. \A t \in SUBSET s : t = s
      BY <1>1, <1>2, <2>1
    <3> QED
      BY <3>1
  <2> QED
    BY <2>1
<1>4. ASSUME NEW n \in Good PROVE n + 1 \in Good
  <2>1. ASSUME NEW s \in SUBSET S, Cardinality(s) <= n + 1 PROVE s \in Q
    <3>1. \A t \in SUBSET s : t # s => Cardinality(t) <= n
      BY <1>1, <1>2, <2>1
    <3> QED
      BY <3>1
  <2> QED
    BY <2>1
<1>5. Good \in SUBSET Nat
  OBVIOUS
<1>6. Cardinality(S) \in Good
  <2> HIDE DEF Good
  <2> QED
    BY <1>1, <1>3, <1>4, <1>5, InductiveSet
<1> QED
  BY <1>1, <1>6

(* Sets of numbers that are bounded have a largest. *)
LEMMA LargestOf ==
  ASSUME NEW n \in Nat, NEW S, S \subseteq 1..n, S # {}
  PROVE  Max(S) \in S
<1> DEFINE Above == {k \in Nat : \A y \in S : y <= k}
           R == OpToRel(<, Nat)
<1>1. n \in Above /\ Above \subseteq Nat
  OBVIOUS
<1>2. PICK top \in Above : \A k \in Above : ~(<<k, top>> \in R)
  BY <1>1, NatLessThanWellFounded, WFMin
<1>3. \A k \in Above : ~(k < top)
  BY <1>1, <1>2 DEF OpToRel
<1> HIDE DEF R
<1>4. top \in S
  <2>1. CASE top \notin S
    <3>1. PICK y \in S : TRUE
      OBVIOUS
    <3>2. \A x \in S : x \in Nat /\ x > 0 /\ x <= top /\ x # top
      BY <2>1
    <3>3. top \in Nat /\ top > 0 /\ top - 1 \in Nat /\ top - 1 < top
      BY <3>1, <3>2
    <3>4. \A x \in S : x <= top - 1
      BY <3>2, <3>3
    <3> QED
      BY <1>3, <3>3, <3>4
  <2> QED
    BY <2>1
<1>5. \A y \in S : top >= y
  OBVIOUS
<1> QED
  BY <1>4, <1>5 DEF Max

-----------------------------------------------------------------------------
(* The circle.  How far apart two directions are is the shorter way round.  *)
LEMMA Wraps ==
  ASSUME NEW n \in Int, NEW d \in Nat \ {0}
  PROVE  /\ n % d \in 0..(d - 1)
         /\ (0 <= n /\ n < d) => n % d = n
         /\ (n < 0 /\ -d <= n) => n % d = n + d
         /\ (d <= n /\ n < 2 * d) => n % d = n - d
OBVIOUS

Shorter(x) == IF 2 * x <= Turn THEN x ELSE Turn - x
Way(d, e) == IF d <= e THEN e - d ELSE d - e

(* The angle between two directions, on a circle of any size, is the shorter way round. *)
LEMMA ApartIs ==
  ASSUME NEW d \in Direction, NEW e \in Direction
  PROVE  Apart(d, e) = Shorter(Way(d, e)) /\ Apart(d, e) \in Nat
<1> DEFINE H == Turn \div 2
           v == e - d + H
<1>1. /\ Turn \in Nat \ {0} /\ d \in Nat /\ d < Turn /\ e \in Nat /\ e < Turn
      /\ H \in Nat /\ 2 * H <= Turn /\ Turn <= 2 * H + 1
  BY PlannerAssumption DEF Direction
<1>7. v \in Int /\ -Turn <= v /\ v < 2 * Turn
  BY <1>1
<1>8. \A n \in Int : /\ (0 <= n /\ n < Turn) => n % Turn = n
                     /\ (n < 0 /\ -Turn <= n) => n % Turn = n + Turn
                     /\ (Turn <= n /\ n < 2 * Turn) => n % Turn = n - Turn
  BY <1>1, Wraps
<1>2. /\ (0 <= v /\ v < Turn) => v % Turn = v
      /\ v < 0 => v % Turn = v + Turn
      /\ Turn <= v => v % Turn = v - Turn
  BY <1>7, <1>8
<1>3. Offset(d, e) = (v % Turn) - H
  BY DEF Offset
<1> HIDE DEF H
<1>4. Offset(d, e) = e - d \/ Offset(d, e) = e - d + Turn \/ Offset(d, e) = e - d - Turn
  BY <1>1, <1>2, <1>3
<1>5. -H <= Offset(d, e) /\ Offset(d, e) < Turn - H
  BY <1>1, <1>2, <1>3
<1>6. Apart(d, e) = IF Offset(d, e) < 0 THEN -Offset(d, e) ELSE Offset(d, e)
  BY DEF Apart
<1> QED
  BY <1>1, <1>4, <1>5, <1>6 DEF Shorter, Way

(* As far from here to there as from there to here; and a detour is no      *)
(* shorter.                                                                 *)
LEMMA ApartIsADistance ==
  ASSUME NEW d \in Direction, NEW e \in Direction, NEW f \in Direction
  PROVE  Apart(d, e) = Apart(e, d) /\ Apart(d, f) <= Apart(d, e) + Apart(e, f)
<1>1. Turn \in Nat /\ d \in Nat /\ d < Turn /\ e \in Nat /\ e < Turn /\ f \in Nat /\ f < Turn
  BY PlannerAssumption DEF Direction
<1> QED
  BY <1>1, ApartIs DEF Shorter, Way

(* A direction has one that was asked half a grain from it, or nearer. *)
LEMMA AskedNearby ==
  ASSUME NEW d \in Direction, NEW near \in Nat, Grain <= 2 * near
  PROVE  \E s \in Sample : Apart(s, d) <= near
<1> DEFINE r == d % Grain
           q == d \div Grain
           m == Turn \div Grain
<1>1. Turn \in Nat \ {0} /\ Grain \in Nat \ {0} /\ d \in Nat /\ d < Turn
  BY PlannerAssumption DEF Direction
<1>2. q \in Nat /\ r \in Nat /\ r < Grain /\ d = q * Grain + r /\ m \in Nat /\ Turn = m * Grain
  BY <1>1, PlannerAssumption
<1>3. q < m
  BY <1>1, <1>2
<1>4. \A k \in Nat : (k * Grain) % Grain = 0
  BY <1>1
<1> HIDE DEF r, q, m
<1>5. CASE r <= near
  <2> DEFINE s == q * Grain
  <2>1. s \in Nat /\ s <= d /\ d - s = r
    BY <1>1, <1>2
  <2>2. s \in Direction /\ s \in Sample
    BY <1>1, <1>2, <1>4, <2>1 DEF Direction, Sample
  <2> HIDE DEF s
  <2>3. Apart(s, d) <= near
    BY <1>1, <1>2, <1>5, <2>1, <2>2, ApartIs DEF Shorter, Way
  <2> QED
    BY <2>2, <2>3
<1>6. CASE r > near
  <2> DEFINE t == (q + 1) * Grain
  <2>1. t \in Nat /\ t = q * Grain + Grain /\ t <= Turn /\ (q + 1 = m \/ t < Turn)
    <3>1. CASE q + 1 = m
      BY <1>1, <1>2, <3>1
    <3>2. CASE q + 1 < m
      <4>1. (q + 2) * Grain <= m * Grain
        BY <1>1, <1>2, <3>2
      <4> QED
        BY <1>1, <1>2, <4>1
    <3> QED
      BY <1>2, <1>3, <3>1, <3>2
  <2>2. t > d /\ t - d <= near
    BY <1>1, <1>2, <1>6, <2>1
  <2>3. CASE t < Turn
    <3>1. t \in Direction /\ t \in Sample
      BY <1>1, <1>2, <1>4, <2>1, <2>3 DEF Direction, Sample
    <3> HIDE DEF t
    <3>2. Apart(t, d) <= near
      BY <1>1, <2>1, <2>2, <3>1, ApartIs DEF Shorter, Way
    <3> QED
      BY <3>1, <3>2
  <2>4. CASE t = Turn
    <3>1. 0 \in Direction /\ 0 \in Sample
      BY <1>1, <1>4 DEF Direction, Sample
    <3> HIDE DEF t
    <3>2. Apart(0, d) <= near
      BY <1>1, <2>2, <2>4, <3>1, ApartIs DEF Shorter, Way
    <3> QED
      BY <3>1, <3>2
  <2> QED
    BY <1>1, <2>1, <2>3, <2>4
<1> QED
  BY <1>1, <1>2, <1>5, <1>6

(* A step past either end of the circle comes in at the other. *)
LEMMA WrapsOnce ==
  ASSUME NEW n \in Int, -Turn <= n, n < 2 * Turn
  PROVE  n % Turn \in Direction /\ n % Turn \in {n, n - Turn, n + Turn}
<1>1. Turn \in Nat \ {0}
  BY PlannerAssumption
<1>2. n % Turn \in 0..(Turn - 1)
  BY <1>1, Wraps
<1>3. CASE n < 0
  BY <1>1, <1>2, <1>3, Wraps DEF Direction
<1>4. CASE 0 <= n /\ n < Turn
  BY <1>1, <1>2, <1>4, Wraps DEF Direction
<1>5. CASE Turn <= n
  BY <1>1, <1>2, <1>5, Wraps DEF Direction
<1> QED
  BY <1>1, <1>3, <1>4, <1>5

(* Where the ends and the middle of a cone see a direction, all of it does:  *)
(* a frame sees less than a half of the horizon.                            *)
LEMMA InTheCone ==
  ASSUME NEW c \in Direction, NEW s \in Direction, NEW aim \in Direction,
         NEW cone \in Nat, NEW h \in Nat, cone < h, 4 * h <= Turn,
         \A a \in {c, (c + cone) % Turn, (c - cone) % Turn} : Apart(a, s) <= h,
         Apart(c, aim) <= cone
  PROVE  Apart(aim, s) <= h
<1> DEFINE up == (c + cone) % Turn
           down == (c - cone) % Turn
<1>1. /\ Turn \in Nat \ {0} /\ c \in Nat /\ c < Turn /\ s \in Nat /\ s < Turn
      /\ aim \in Nat /\ aim < Turn /\ cone < Turn
  BY PlannerAssumption DEF Direction
<1>2. /\ up \in Direction /\ (up = c + cone \/ up = c + cone - Turn)
      /\ down \in Direction /\ (down = c - cone \/ down = c - cone + Turn)
  <2> DEFINE n == c + cone
             m == c - cone
  <2>1. /\ n \in Int /\ -Turn <= n /\ n < 2 * Turn
        /\ m \in Int /\ -Turn <= m /\ m < 2 * Turn
    BY <1>1
  <2> HIDE DEF n, m
  <2>2. /\ n % Turn \in Direction /\ n % Turn \in {n, n - Turn, n + Turn}
        /\ m % Turn \in Direction /\ m % Turn \in {m, m - Turn, m + Turn}
    BY <2>1, WrapsOnce
  <2>3. up = n % Turn /\ down = m % Turn
    BY DEF n, m
  <2> HIDE DEF up, down
  <2>4. /\ up \in Direction /\ up \in {n, n - Turn, n + Turn}
        /\ down \in Direction /\ down \in {m, m - Turn, m + Turn}
    BY <2>2, <2>3
  <2>5. /\ up \in Nat /\ up < Turn /\ down \in Nat /\ down < Turn
    BY <1>1, <2>4 DEF Direction
  <2>6. n = c + cone /\ m = c - cone
    BY DEF n, m
  <2> QED
    BY <1>1, <2>4, <2>5, <2>6
<1>3. Apart(c, s) <= h /\ Apart(up, s) <= h /\ Apart(down, s) <= h
  OBVIOUS
<1> HIDE DEF up, down
<1>4. /\ Apart(c, s) = Shorter(Way(c, s)) /\ Apart(up, s) = Shorter(Way(up, s))
      /\ Apart(down, s) = Shorter(Way(down, s)) /\ Apart(c, aim) = Shorter(Way(c, aim))
      /\ Apart(aim, s) = Shorter(Way(aim, s))
  BY <1>2, ApartIs
<1>5. up \in Nat /\ up < Turn /\ down \in Nat /\ down < Turn
  BY <1>1, <1>2 DEF Direction
<1> QED
  BY <1>1, <1>2, <1>3, <1>4, <1>5 DEF Shorter, Way

(* Cells are laid in directions. *)
LEMMA LaidInDirections ==
  ASSUME NEW step \in Nat \ {0}
  PROVE  LayRings(step) \subseteq Direction
<1> DEFINE N == CellsFor(step)
<1>1. Turn \in Nat \ {0}
  BY PlannerAssumption
<1>2. N \in Nat \ {0}
  <2> DEFINE n == Turn + step - 1
  <2>1. n \in Nat /\ n >= step
    BY <1>1
  <2> HIDE DEF n
  <2>2. n \div step \in Nat /\ n \div step >= 1
    BY <2>1
  <2> QED
    BY <2>2 DEF CellsFor, n
<1> HIDE DEF N
<1>3. ASSUME NEW k \in 0..(N - 1)
      PROVE  (Turn * k) \div N \in Direction
  <2> DEFINE p == Turn * k
             q == p \div N
  <2>1. k \in Nat /\ k + 1 <= N /\ p \in Nat
    BY <1>1, <1>2
  <2>2. p + Turn <= Turn * N
    <3>1. Turn * (k + 1) <= Turn * N
      BY <1>1, <1>2, <2>1
    <3> QED
      BY <1>1, <2>1, <3>1
  <2> HIDE DEF p
  <2>3. q \in Nat /\ N * q <= p
    BY <1>2, <2>1
  <2> HIDE DEF q
  <2>4. N * q < N * Turn
    BY <1>1, <1>2, <2>1, <2>2, <2>3
  <2>5. q < Turn
    <3>1. CASE q >= Turn
      <4>1. N * Turn <= N * q
        BY <1>1, <1>2, <2>3, <3>1
      <4> QED
        BY <1>1, <1>2, <2>3, <2>4, <4>1
    <3> QED
      BY <1>1, <2>3, <3>1
  <2> QED
    BY <1>1, <2>3, <2>5 DEF p, q, Direction
<1> QED
  BY <1>3 DEF LayRings, N

(* What a plan the planner laid promises: wherever in its cone each cell's   *)
(* frame is aimed, every direction is in one that sees it whatever the aim.  *)
(* The planner asked at samples, and of the cones' middles and ends only.   *)
LEMMA PlanSeesAll ==
  ASSUME NEW half \in Nat, NEW cone \in Nat, NEW overlap \in 0..(Tenths - 1),
         Plan([half |-> half, cone |-> cone, overlap |-> overlap]) # NoPlan
  PROVE  LET cells == Plan([half |-> half, cone |-> cone, overlap |-> overlap])
         IN  /\ cells \subseteq Direction
             /\ \A d \in Direction : \E c \in cells :
                  \A aim \in Aims(c, cone) : Images(aim, half, d)
<1> DEFINE asked == [half |-> half, cone |-> cone, overlap |-> overlap]
           wide == (2 * half * (Tenths - overlap)) \div Tenths
           first == Max({1, wide})
           ends == {s \in 1..first : \/ CellsFor(s) > MaxCells
                                     \/ CompleteInTheWorstCase(LayRings(s), asked)}
           step == Max(ends)
           cells == LayRings(step)
           h == half - Margin
<1>1. /\ Turn \in Nat \ {0} /\ Margin \in Nat /\ MaxCells \in Nat
      /\ asked.half = half /\ asked.cone = cone /\ asked.overlap = overlap
  BY PlannerAssumption
<1>2. ~SpecRefused(asked) /\ ends # {} /\ ~(CellsFor(step) > MaxCells) /\ Plan(asked) = cells
  BY DEF Plan
<1>3. cone < h /\ h \in Nat /\ 4 * h <= Turn /\ half = h + Margin
  BY <1>1, <1>2 DEF SpecRefused
<1>4. first \in Nat
  <2>1. wide \in Nat
    BY DEF Tenths
  <2> HIDE DEF wide
  <2>2. \E m \in {1, wide} : \A e \in {1, wide} : m >= e
    BY <2>1
  <2>3. first \in {1, wide}
    BY <2>2 DEF Max
  <2> QED
    BY <2>1, <2>3
<1> HIDE DEF first
<1>5. step \in ends
  BY <1>2, <1>4, LargestOf
<1>6. step \in Nat \ {0} /\ CompleteInTheWorstCase(cells, asked)
  BY <1>2, <1>5
<1> HIDE DEF ends, step
<1>7. cells \subseteq Direction
  BY <1>6, LaidInDirections
<1> HIDE DEF cells
<1>8. ASSUME NEW d \in Direction
      PROVE  \E c \in cells : \A aim \in Aims(c, cone) : Images(aim, half, d)
  <2>1. PICK s \in Sample : Apart(s, d) <= Margin
    BY PlannerAssumption, AskedNearby
  <2>2. s \in Direction
    BY DEF Sample
  <2>3. PICK c \in cells : \A a \in {c, (c + cone) % Turn, (c - cone) % Turn} : Images(a, h, s)
    BY <1>1, <1>6 DEF CompleteInTheWorstCase
  <2>4. ASSUME NEW aim \in Aims(c, cone) PROVE Images(aim, half, d)
    <3>1. c \in Direction /\ aim \in Direction /\ Apart(c, aim) <= cone
      BY <1>7 DEF Aims
    <3>2. Apart(aim, s) <= h
      BY <1>3, <2>2, <2>3, <3>1, InTheCone DEF Images
    <3>3. Apart(aim, d) <= Apart(aim, s) + Apart(s, d)
      BY <2>2, <3>1, ApartIsADistance
    <3>4. Apart(aim, d) \in Nat /\ Apart(aim, s) \in Nat /\ Apart(s, d) \in Nat
      BY <2>2, <3>1, ApartIs
    <3> QED
      BY <1>1, <1>3, <2>1, <3>2, <3>3, <3>4 DEF Images
  <2> QED
    BY <2>4
<1> QED
  BY <1>2, <1>7, <1>8

-----------------------------------------------------------------------------
(* The dwell.  Between two ticks the mark has moved no further than the     *)
(* time since the cell was first held; a full dwell is never kept.          *)
Times ==
  /\ dwell.ns \in Nat /\ dwell.ns < DwellFull
  /\ dwell = [node |-> dwell.node, ns |-> dwell.ns]
  /\ idle \in Nat
  /\ held \in [vouched : Nat, span : Nat]
  /\ held.vouched <= DwellFull /\ held.span <= DwellFull

DwellIInv ==
  /\ Times
  /\ dwell.node = NoCell => dwell.ns = 0
  /\ dwell.ns <= held.vouched /\ dwell.ns <= held.span
  /\ dwell.node # NoCell => dwell.ns + idle <= held.span \/ held.span = DwellFull

(* A cell the phone is held on is one of the plan's. *)
LEMMA HeldIsACell ==
  ASSUME NEW p, NEW holes, Locate(p, Cell, Cone, holes).action = "HoldStill"
  PROVE  Locate(p, Cell, Cone, holes).target \in holes
BY DEF Locate

(* A capture begins with no dwell. *)
LEMMA DwellInit == Init => DwellIInv
BY AimingAssumption DEF Init, DwellIInv, Times, NoDwell, Unheld

(* A tick that completed. *)
LEMMA Dwelt ==
  ASSUME DwellIInv, NEW lapse \in Lapses, NEW saw \in BOOLEAN, NEW action, NEW target,
         action = "HoldStill" => target # NoCell,
         Dwells(lapse, saw, action, target)
  PROVE  DwellIInv'
<1> DEFINE holding == action = "HoldStill"
           credited == Credited(lapse, saw)
           ns == IF holding /\ dwell.node = target THEN dwell.ns + credited.ns ELSE 0
           fires == holding /\ ns >= DwellFull
           vouched == Capped(held.vouched + (IF saw THEN Credit ELSE 0), DwellFull)
           span == Capped(held.span + lapse, DwellFull)
<1>1. /\ Times /\ lapse \in Nat /\ DwellFull \in Nat /\ DwellFull > 0 /\ Credit \in Nat
      /\ dwell.ns \in Nat /\ idle \in Nat /\ held.vouched \in Nat /\ held.span \in Nat
  BY AimingAssumption DEF DwellIInv, Times
<1>2. /\ credited.idle = 0 /\ credited.ns \in Nat
      /\ credited.ns <= idle + lapse /\ credited.ns <= (IF saw THEN Credit ELSE 0)
  BY <1>1 DEF Credited, Least
<1>3. /\ idle' = 0
      /\ dwell' = [node |-> IF holding THEN target ELSE NoCell, ns |-> IF fires THEN 0 ELSE ns]
      /\ held' = IF fires \/ ~holding \/ dwell.node # target THEN Unheld
                 ELSE [vouched |-> vouched, span |-> span]
  BY <1>1, <1>2 DEF Dwells, Capped
<1>4. /\ vouched \in Nat /\ vouched <= DwellFull /\ span \in Nat /\ span <= DwellFull
      /\ vouched = DwellFull \/ vouched = held.vouched + (IF saw THEN Credit ELSE 0)
      /\ span = DwellFull \/ span = held.span + lapse
  BY <1>1 DEF Capped
<1>5. ns \in Nat
  BY <1>1, <1>2
<1> HIDE DEF vouched, span, credited
<1>6. CASE fires \/ ~holding \/ dwell.node # target
  BY <1>1, <1>3, <1>5, <1>6 DEF DwellIInv, Times, Unheld
<1>7. CASE ~fires /\ holding /\ dwell.node = target
  <2>1. ns = dwell.ns + credited.ns /\ ns < DwellFull
    BY <1>1, <1>5, <1>7
  <2>2. ns <= vouched /\ ns <= span
    BY <1>1, <1>2, <1>4, <1>7, <2>1 DEF DwellIInv
  <2>3. dwell'.ns = ns /\ dwell'.node = target /\ held'.vouched = vouched /\ held'.span = span
    BY <1>3, <1>7
  <2> QED
    BY <1>1, <1>3, <1>4, <1>5, <1>7, <2>1, <2>2, <2>3 DEF DwellIInv, Times
<1> QED
  BY <1>6, <1>7

(* A tick that answered an error before the dwell. *)
LEMMA NotDwelt ==
  ASSUME DwellIInv, NEW lapse \in Lapses, NoDwells(lapse)
  PROVE  DwellIInv'
<1> DEFINE span == Capped(held.span + lapse, DwellFull)
<1>1. /\ Times /\ lapse \in Nat /\ DwellFull \in Nat /\ DwellFull > 0 /\ Credit \in Nat
      /\ dwell.ns \in Nat /\ idle \in Nat /\ held.vouched \in Nat /\ held.span \in Nat
  BY AimingAssumption DEF DwellIInv, Times
<1>2. /\ dwell' = dwell /\ idle' \in Nat /\ idle' <= idle + lapse
      /\ held' = IF dwell.node = NoCell THEN held ELSE [vouched |-> held.vouched, span |-> span]
  BY <1>1 DEF NoDwells, Capped, Times
<1>3. span \in Nat /\ span <= DwellFull /\ (span = DwellFull \/ span = held.span + lapse)
  BY <1>1 DEF Capped
<1> HIDE DEF span
<1>4. CASE dwell.node = NoCell
  BY <1>1, <1>2, <1>4 DEF DwellIInv, Times
<1>5. CASE dwell.node # NoCell
  <2>1. held'.vouched = held.vouched /\ held'.span = span /\ held' \in [vouched : Nat, span : Nat]
    BY <1>1, <1>2, <1>3, <1>5
  <2>2. dwell.ns <= span
    BY <1>1, <1>3 DEF DwellIInv, Times
  <2>3. dwell.ns + idle' <= span \/ span = DwellFull
    BY <1>1, <1>2, <1>3, <1>5 DEF DwellIInv
  <2> QED
    BY <1>1, <1>2, <1>3, <1>5, <2>1, <2>2, <2>3 DEF DwellIInv, Times
<1> QED
  BY <1>4, <1>5

(* Whatever happens to a capture, ticks that complete and ticks that fail   *)
(* are all that moves its dwell, but for the end, which starts it over.     *)
LEMMA DwellMoves ==
  ASSUME [Next]_vars
  PROVE  \/ UNCHANGED <<dwell, idle, held>>
         \/ ResetDwell
         \/ \E lapse \in Lapses : NoDwells(lapse)
         \/ \E lapse \in Lapses, saw \in BOOLEAN :
              \/ Dwells(lapse, saw, Located.action, Located.target)
              \/ \E action \in {"Firing", "TooFast", "CellDone"} :
                   Dwells(lapse, saw, action, firing)
<1>1. CASE Begin \/ ArmRefused \/ \E cell \in Cell : ArmBurst(cell) \/ Retake(cell)
  BY <1>1 DEF Begin, ArmRefused, ArmBurst, Retake
<1>2. CASE End
  BY <1>2 DEF End
<1>3. ASSUME NEW lapse \in Lapses, TickFails(lapse)
      PROVE  \E l \in Lapses : NoDwells(l)
  BY <1>3 DEF TickFails
<1>4. ASSUME NEW lapse \in Lapses, NEW saw \in BOOLEAN, Completes(lapse, saw)
      PROVE  \/ Dwells(lapse, saw, Located.action, Located.target)
             \/ NoDwells(lapse)
             \/ \E action \in {"Firing", "TooFast", "CellDone"} :
                  Dwells(lapse, saw, action, firing)
  BY <1>4 DEF Completes, Guide, NotDue, OffCell, TakeFrame, FillCell
<1>5. CASE UNCHANGED vars
  BY <1>5 DEF vars
<1> QED
  BY <1>1, <1>2, <1>3, <1>4, <1>5 DEF Next, OnMotion

(* Every step keeps what a dwell may count. *)
LEMMA DwellStep == DwellIInv /\ [Next]_vars => DwellIInv'
<1> SUFFICES ASSUME DwellIInv, [Next]_vars PROVE DwellIInv'
  OBVIOUS
<1>1. CASE UNCHANGED <<dwell, idle, held>>
  BY <1>1 DEF DwellIInv, Times
<1>2. CASE ResetDwell
  BY <1>2, AimingAssumption DEF ResetDwell, DwellIInv, Times, NoDwell, Unheld
<1>3. CASE \E lapse \in Lapses : NoDwells(lapse)
  BY <1>3, NotDwelt
<1>4. ASSUME NEW lapse \in Lapses, NEW saw \in BOOLEAN,
             Dwells(lapse, saw, Located.action, Located.target)
      PROVE  DwellIInv'
  <2>1. Located.action = "HoldStill" => Located.target # NoCell
    BY HeldIsACell, AimingAssumption DEF Located, Holes
  <2> QED
    BY <1>4, <2>1, Dwelt
<1>5. ASSUME NEW lapse \in Lapses, NEW saw \in BOOLEAN,
             NEW action \in {"Firing", "TooFast", "CellDone"},
             Dwells(lapse, saw, action, firing)
      PROVE  DwellIInv'
  BY <1>5, Dwelt
<1> QED
  BY <1>1, <1>2, <1>3, <1>4, <1>5, DwellMoves

(* A burst is offered only for a dwell that was earned: however long a tick *)
(* took to come, whatever failed before it and wherever the phone was in    *)
(* between, a dwell counts no more than its ticks with samples vouch for    *)
(* nor than the time since (capture_session_manager.cpp, OnMotion).         *)
THEOREM DwellsAreEarned == Spec => []DwellEarned
<1>1. DwellIInv => DwellEarned
  BY DEF DwellIInv, Times, DwellEarned, Least
<1> QED
  BY <1>1, DwellInit, DwellStep, PTL DEF Spec

-----------------------------------------------------------------------------
(* The burst.  Until the camera has made a frame of its own since the burst *)
(* last looked, the wait left takes it past the end of the camera's period. *)
BurstIInv ==
  /\ ~repeated /\ rate \in Nat
  /\ firing # NoCell =>
       /\ active
       /\ camera \in [period : Nat \ {0}, age : Nat, fresh : BOOLEAN]
       /\ camera.age < camera.period
       /\ wait \in Nat
       /\ rate = camera.period => camera.fresh \/ camera.age + wait >= camera.period

(* What is left of a division of less than what is divided by. *)
LEMMA Remainder ==
  ASSUME NEW n \in Nat, NEW d \in Nat \ {0}
  PROVE  n % d \in Nat /\ n % d < d /\ (n < d => n % d = n)
OBVIOUS

(* A capture begins with no burst. *)
LEMMA BurstInit == Init => BurstIInv
BY DEF Init, BurstIInv

(* Every step keeps the frames of a burst its own. *)
LEMMA BurstStep == BurstIInv /\ [Next]_vars => BurstIInv'
<1> SUFFICES ASSUME BurstIInv, [Next]_vars PROVE BurstIInv'
  OBVIOUS
<1>1. Periods \subseteq Nat \ {0} /\ Lapses \subseteq Nat \ {0}
      /\ Interval \in Nat /\ Settle \in Nat
  BY AimingAssumption
<1>2. ASSUME Disarm, UNCHANGED <<rate, repeated>> PROVE BurstIInv'
  BY <1>2 DEF Disarm, BurstIInv
<1>3. CASE Begin
  BY <1>1, <1>3 DEF Begin, BurstIInv
<1>4. CASE End
  BY <1>4 DEF End, Disarm, BurstIInv
<1>5. CASE ArmRefused
  BY <1>5 DEF ArmRefused, BurstIInv
<1>6. ASSUME NEW cell \in Cell, Retake(cell) PROVE BurstIInv'
  <2>1. CASE firing = cell
    BY <1>2, <1>6, <2>1 DEF Retake
  <2>2. CASE firing # cell
    BY <1>6, <2>2 DEF Retake, BurstIInv
  <2> QED
    BY <2>1, <2>2
<1>7. ASSUME NEW cell \in Cell, ArmBurst(cell) PROVE BurstIInv'
  <2>1. PICK p \in Periods : \E age \in 0..(Max(Periods) - 1) :
          age < p /\ camera' = [period |-> p, age |-> age, fresh |-> FALSE]
    BY <1>7 DEF ArmBurst
  <2>2. PICK age \in 0..(Max(Periods) - 1) :
          age < p /\ camera' = [period |-> p, age |-> age, fresh |-> FALSE]
    BY <2>1
  <2>3. rate' \in Nat /\ wait' = (IF Settle < rate' THEN rate' ELSE Settle) /\ active' /\ ~repeated'
    BY <1>1, <1>7, <2>2 DEF ArmBurst, CanArm, BurstSettleNs, Most, BurstIInv
  <2>4. wait' \in Nat /\ wait' >= rate'
    BY <1>1, <2>3
  <2>5. /\ camera' \in [period : Nat \ {0}, age : Nat, fresh : BOOLEAN]
        /\ camera'.age < camera'.period
        /\ rate' = camera'.period => camera'.age + wait' >= camera'.period
    <3>1. age \in Nat /\ p \in Nat \ {0}
      BY <1>1
    <3>2. camera'.period = p /\ camera'.age = age
      BY <2>2
    <3>3. camera' \in [period : Nat \ {0}, age : Nat, fresh : BOOLEAN]
      BY <2>2, <3>1
    <3>4. age < p
      BY <2>2
    <3>5. rate' = p => age + wait' >= p
      BY <2>3, <2>4, <3>1
    <3> QED
      BY <3>2, <3>3, <3>4, <3>5
  <2> QED
    BY <2>3, <2>4, <2>5 DEF BurstIInv
<1>8. ASSUME NEW lapse \in Lapses, TickFails(lapse) PROVE BurstIInv'
  BY <1>2, <1>8 DEF TickFails
<1>9. ASSUME NEW lapse \in Lapses, NEW saw \in BOOLEAN, Guide(lapse, saw) PROVE BurstIInv'
  BY <1>9 DEF Guide, BurstIInv
<1>10. ASSUME NEW lapse \in Lapses, firing # NoCell
       PROVE  LET aged == Aged(camera, lapse)
              IN  /\ aged \in [period : Nat \ {0}, age : Nat, fresh : BOOLEAN]
                  /\ aged.period = camera.period /\ aged.age < aged.period
                  /\ aged.fresh \/ aged.age = camera.age + lapse
                  /\ camera.age + lapse >= camera.period => aged.fresh
                  /\ camera.fresh => aged.fresh
  <2> DEFINE cam == camera
             n == cam.age + lapse
             age == n % cam.period
             fresh == cam.fresh \/ n >= cam.period
             aged == Aged(cam, lapse)
  <2>1. cam \in [period : Nat \ {0}, age : Nat, fresh : BOOLEAN] /\ n \in Nat
    BY <1>1, <1>10 DEF BurstIInv
  <2>2. age \in Nat /\ age < cam.period /\ (n < cam.period => age = n)
    BY <2>1, Remainder
  <2>3. aged = [cam EXCEPT !.age = age, !.fresh = fresh]
    BY DEF Aged
  <2>4. fresh \in BOOLEAN
    BY <2>1
  <2> HIDE DEF age, fresh, aged
  <2>5. /\ aged \in [period : Nat \ {0}, age : Nat, fresh : BOOLEAN]
        /\ aged.period = cam.period /\ aged.age = age
    BY <2>1, <2>2, <2>3, <2>4
  <2>6. aged.fresh = fresh
    BY <2>1, <2>3, <2>4
  <2>7. /\ fresh \/ n < cam.period
        /\ n >= cam.period => fresh
        /\ cam.fresh => fresh
    BY <2>1 DEF fresh
  <2>8. /\ aged \in [period : Nat \ {0}, age : Nat, fresh : BOOLEAN]
        /\ aged.period = cam.period /\ aged.age < aged.period
        /\ aged.fresh \/ aged.age = n
        /\ n >= cam.period => aged.fresh
        /\ cam.fresh => aged.fresh
    BY <2>2, <2>5, <2>6, <2>7
  <2> QED
    BY <2>8 DEF aged
<1>11. ASSUME NEW lapse \in Lapses, NEW saw \in BOOLEAN, NotDue(lapse, saw) PROVE BurstIInv'
  <2>1. /\ firing # NoCell /\ firing' = firing /\ active' = active /\ wait > lapse
        /\ wait' = wait - lapse /\ camera' = Aged(camera, lapse) /\ UNCHANGED <<rate, repeated>>
    BY <1>1, <1>11 DEF NotDue, Later, BurstIInv
  <2> QED
    BY <1>1, <1>10, <2>1 DEF BurstIInv
<1>12. ASSUME NEW lapse \in Lapses, NEW saw \in BOOLEAN, TakesFrame(lapse, saw) PROVE ~repeated'
  <2>1. firing # NoCell /\ wait <= lapse
    BY <1>1, <1>12 DEF TakesFrame, Due, Later, BurstIInv
  <2>2. rate = camera.period => Aged(camera, lapse).fresh
    BY <1>1, <1>10, <2>1 DEF BurstIInv
  <2> QED
    BY <1>12, <2>2 DEF TakesFrame, BurstIInv
<1>13. ASSUME NEW lapse \in Lapses, NEW saw \in BOOLEAN, TakeFrame(lapse, saw) PROVE BurstIInv'
  <2>1. /\ firing # NoCell /\ firing' = firing /\ active' = active /\ rate' = rate
        /\ wait' = (IF Interval < rate THEN rate ELSE Interval)
        /\ camera' = [Aged(camera, lapse) EXCEPT !.fresh = FALSE] /\ ~repeated'
    BY <1>12, <1>13 DEF TakeFrame, TakesFrame, Due, BurstIntervalNs, Most
  <2> DEFINE aged == Aged(camera, lapse)
  <2>4. /\ aged \in [period : Nat \ {0}, age : Nat, fresh : BOOLEAN]
        /\ aged.period = camera.period /\ aged.age < aged.period
    BY <1>10, <2>1
  <2> HIDE DEF aged
  <2>5. camera' = [aged EXCEPT !.fresh = FALSE]
    BY <2>1 DEF aged
  <2>2. /\ camera' \in [period : Nat \ {0}, age : Nat, fresh : BOOLEAN]
        /\ camera'.period = camera.period /\ camera'.age < camera'.period
    BY <2>4, <2>5
  <2>3. wait' \in Nat /\ wait' >= rate
    BY <1>1, <2>1 DEF BurstIInv
  <2> QED
    BY <2>1, <2>2, <2>3 DEF BurstIInv
<1>14. ASSUME NEW lapse \in Lapses, NEW saw \in BOOLEAN, FillCell(lapse, saw) PROVE BurstIInv'
  BY <1>12, <1>14 DEF FillCell, Disarm, BurstIInv
<1>15. ASSUME NEW lapse \in Lapses, NEW saw \in BOOLEAN, OffCell(lapse, saw) PROVE BurstIInv'
  BY <1>2, <1>15 DEF OffCell
<1>16. CASE UNCHANGED vars
  BY <1>16 DEF vars, BurstIInv
<1> QED
  BY <1>3, <1>4, <1>5, <1>6, <1>7, <1>8, <1>9, <1>11, <1>13, <1>14, <1>15, <1>16
     DEF Next, OnMotion, Completes

(* No frame of a burst is another's exposure, nor one from before its locks *)
(* went on, where the session knows the camera's rate: whatever the camera  *)
(* was at when the locks went on, however late the ticks come               *)
(* (capture_session_manager.cpp, BurstSettleNs and BurstIntervalNs).        *)
THEOREM FramesAreOwnExposures == Spec => []OwnExposures
<1>1. BurstIInv => OwnExposures
  BY DEF BurstIInv, OwnExposures
<1> QED
  BY <1>1, BurstInit, BurstStep, PTL DEF Spec

-----------------------------------------------------------------------------
(* What the sphere's being done rests on: a burst, and what was taken of     *)
(* each cell, were aimed within that cell's cone.                           *)
CoverIInv ==
  /\ pose.at \in Direction
  /\ firing \in Cell \cup {NoCell}
  /\ \A p \in pending : p.at \in Aims(firing, Cone)
  /\ captured \in [Cell -> SUBSET Direction]
  /\ \A c \in Cell : captured[c] \subseteq Aims(c, Cone)

(* The cells of the session, as the planner laid them. *)
LEMMA PlannedSees ==
  /\ Cell \subseteq Direction
  /\ \A d \in Direction : \E c \in Cell : \A aim \in Aims(c, Cone) : Images(aim, Lens, d)
<1>1. /\ Lens \in Nat /\ Cone \in Nat /\ Overlap \in 0..(Tenths - 1)
      /\ Cell = Plan([half |-> Lens, cone |-> Cone, overlap |-> Overlap]) /\ Cell # NoPlan
  BY PlannedAssumption
<1> QED
  BY <1>1, PlanSeesAll

(* What the sphere's being done rests on holds from the first. *)
LEMMA CoverInit == Init => CoverIInv
BY PlannerAssumption DEF Init, CoverIInv, Unanchored, NoFrames, Direction

(* Wherever the engine puts the phone is a direction. *)
LEMMA PoseIsADirection ==
  ASSUME CoverIInv, NEW saw \in BOOLEAN, Moves(saw)
  PROVE  pose'.at \in Direction
<1>1. 0 \in Direction /\ Headings \subseteq Direction
  BY PlannerAssumption, AimingAssumption DEF Direction
<1>2. \A p \in Pose : p.at \in Direction
  BY <1>1 DEF Pose, Defective
<1>3. pose' \in Pose \cup {pose}
  BY DEF Moves
<1> QED
  BY <1>2, <1>3 DEF CoverIInv

(* A frame filled on the armed cell was aimed within its cone. *)
LEMMA TakenInTheCone ==
  ASSUME firing \in Cell, pose'.at \in Direction, OnArmedCell
  PROVE  pose'.at \in Aims(firing, Cone)
<1>1. firing \in Direction
  BY PlannedSees
<1>2. Apart(firing, pose'.at) = Apart(pose'.at, firing)
  BY <1>1, ApartIsADistance
<1> QED
  BY <1>2 DEF Aims, OnArmedCell, Aimed

(* Every step keeps what the sphere's being done rests on. *)
LEMMA CoverStep == CoverIInv /\ [Next]_vars => CoverIInv'
<1> SUFFICES ASSUME CoverIInv, [Next]_vars PROVE CoverIInv'
  OBVIOUS
<1>1. /\ pose.at \in Direction /\ firing \in Cell \cup {NoCell}
      /\ \A p \in pending : p.at \in Aims(firing, Cone)
      /\ captured \in [Cell -> SUBSET Direction]
      /\ \A c \in Cell : captured[c] \subseteq Aims(c, Cone)
  BY DEF CoverIInv
<1>2. CASE Begin
  <2>1. 0 \in Direction
    BY PlannerAssumption DEF Direction
  <2>2. /\ pose'.at \in Direction /\ firing' = firing /\ pending' = pending
        /\ captured' \in {NoFrames, captured}
    BY <1>2, <2>1 DEF Begin, Unanchored
  <2> QED
    BY <1>1, <2>2 DEF CoverIInv, NoFrames
<1>3. CASE End
  BY <1>1, <1>3 DEF End, Disarm, CoverIInv
<1>4. ASSUME NEW cell \in Cell, Retake(cell) PROVE CoverIInv'
  BY <1>1, <1>4 DEF Retake, Disarm, CoverIInv
<1>5. ASSUME NEW cell \in Cell, ArmBurst(cell) PROVE CoverIInv'
  BY <1>1, <1>5 DEF ArmBurst, CoverIInv
<1>6. CASE ArmRefused
  BY <1>1, <1>6 DEF ArmRefused, CoverIInv
<1>7. CASE OnMotion
  <2>1. PICK lapse \in Lapses :
          (\E saw \in BOOLEAN : Completes(lapse, saw)) \/ TickFails(lapse)
    BY <1>7 DEF OnMotion
  <2>2. CASE TickFails(lapse)
    <3>1. pose'.at \in Direction
      BY <2>2, PoseIsADirection DEF TickFails
    <3> QED
      BY <1>1, <2>2, <3>1 DEF TickFails, Disarm, CoverIInv
  <2>3. ASSUME NEW saw \in BOOLEAN, Completes(lapse, saw)
        PROVE  CoverIInv'
    <3>1. pose'.at \in Direction
      <4>1. Moves(saw)
        BY <2>3 DEF Completes, Guide, NotDue, OffCell, TakeFrame, FillCell, TakesFrame, Due
      <4> QED
        BY <4>1, PoseIsADirection
    <3>2. CASE Guide(lapse, saw)
      BY <1>1, <3>1, <3>2 DEF Guide, CoverIInv
    <3>3. CASE NotDue(lapse, saw)
      BY <1>1, <3>1, <3>3 DEF NotDue, CoverIInv
    <3>4. CASE OffCell(lapse, saw)
      BY <1>1, <3>1, <3>4 DEF OffCell, Disarm, CoverIInv
    <3>5. CASE TakeFrame(lapse, saw)
      <4>1. firing \in Cell /\ OnArmedCell /\ firing' = firing /\ captured' = captured
        BY <1>1, <3>5 DEF TakeFrame, TakesFrame, Due
      <4>2. pose'.at \in Aims(firing, Cone)
        BY <3>1, <4>1, TakenInTheCone
      <4>3. pending' = pending \cup {[n |-> Cardinality(pending), at |-> pose'.at]}
        BY <3>5 DEF TakeFrame
      <4>4. \A p \in pending' : p.at \in Aims(firing, Cone)
        BY <1>1, <4>2, <4>3
      <4> QED
        BY <1>1, <3>1, <4>1, <4>4 DEF CoverIInv
    <3>6. CASE FillCell(lapse, saw)
      <4>1. firing \in Cell /\ OnArmedCell /\ pending' = {} /\ firing' = NoCell
        BY <1>1, <3>6 DEF FillCell, TakesFrame, Due, Disarm
      <4>2. pose'.at \in Aims(firing, Cone)
        BY <3>1, <4>1, TakenInTheCone
      <4> DEFINE filled == {p.at : p \in pending} \cup {pose'.at}
      <4>3. filled \subseteq Aims(firing, Cone)
        BY <1>1, <4>2
      <4>4. Aims(firing, Cone) \subseteq Direction
        BY DEF Aims
      <4>5. captured' = [captured EXCEPT ![firing] = @ \cup filled]
        BY <3>6 DEF FillCell
      <4> HIDE DEF filled
      <4>6. /\ captured' \in [Cell -> SUBSET Direction]
            /\ \A c \in Cell : captured'[c] \subseteq Aims(c, Cone)
        BY <1>1, <4>1, <4>3, <4>4, <4>5
      <4> QED
        BY <3>1, <4>1, <4>6 DEF CoverIInv
    <3> QED
      BY <2>3, <3>2, <3>3, <3>4, <3>5, <3>6 DEF Completes
  <2> QED
    BY <2>1, <2>2, <2>3
<1>8. CASE UNCHANGED vars
  BY <1>1, <1>8 DEF vars, CoverIInv
<1> QED
  BY <1>2, <1>3, <1>4, <1>5, <1>6, <1>7, <1>8 DEF Next

(* When guidance calls the sphere done, every direction is in some cell's    *)
(* frame, whichever of its frames is chosen for it: for every lens, cone and *)
(* overlap the planner laid a plan for, not the one a run checks.           *)
THEOREM SphereDoneIsCovered == Spec => []DoneMeansCovered
<1>1. CoverIInv => DoneMeansCovered
  <2> SUFFICES ASSUME CoverIInv, Holes(Cell, captured) = {}, NEW d \in Direction
               PROVE  \E c \in Cell :
                        captured[c] # {} /\ \A at \in captured[c] : Images(at, Lens, d)
    BY DEF DoneMeansCovered
  <2>1. PICK c \in Cell : \A aim \in Aims(c, Cone) : Images(aim, Lens, d)
    BY PlannedSees
  <2>2. captured[c] \subseteq Aims(c, Cone)
    BY DEF CoverIInv
  <2>3. captured[c] # {}
    BY DEF Holes
  <2> QED
    BY <2>1, <2>2, <2>3
<1> QED
  BY <1>1, CoverInit, CoverStep, PTL DEF Spec

-----------------------------------------------------------------------------
(* A sum is a number, and no further from zero than its terms allow. *)
LEMMA SumWithin ==
  ASSUME NEW S \in SUBSET Int, IsFiniteSet(S), NEW r \in Nat, \A x \in S : -r <= x /\ x <= r
  PROVE  /\ SumSet(S) \in Int
         /\ -(r * Cardinality(S)) <= SumSet(S) /\ SumSet(S) <= r * Cardinality(S)
<1> DEFINE pick(s) == CHOOSE x \in s : TRUE
           sum == CHOOSE iter : iter = [s \in SUBSET S |->
                    IF s = {} THEN 0 ELSE pick(s) + iter[s \ {pick(s)}]]
<1>1. \A s : s # {} => pick(s) \in s
  OBVIOUS
<1>2. SumSet(S) = sum[S]
  BY DEF SumSet, FoldSet, MapThenFoldSet
<1> HIDE DEF pick
<1>3. sum = [s \in SUBSET S |-> IF s = {} THEN 0 ELSE pick(s) + sum[s \ {pick(s)}]]
  <2> DEFINE next == [s \in SUBSET S |-> s \ {pick(s)}]
             step == [s \in SUBSET S |-> [v \in Int |-> IF s = {} THEN 0 ELSE pick(s) + v]]
  <2>1. \A s \in SUBSET S : s # {} => pick(s) \in Int
    BY <1>1
  <2>2. step \in [SUBSET S -> [Int -> Int]]
    BY <2>1
  <2>3. Descends(next, S)
    BY <1>1 DEF Descends
  <2> HIDE DEF next, step
  <2>4. PICK g \in [SUBSET S -> Int] : Recurs(g, S, 0, next, step)
    <3> DEFINE none == 0
               Value == Int
    <3>1. none \in Value /\ step \in [SUBSET S -> [Value -> Value]]
      BY <2>2
    <3> HIDE DEF none, Value
    <3>2. \E g \in [SUBSET S -> Value] : Recurs(g, S, none, next, step)
      BY <2>3, <3>1, RecursionOnSubsets
    <3> QED
      BY <3>2 DEF none, Value
  <2>5. g = [s \in SUBSET S |-> IF s = {} THEN 0 ELSE pick(s) + g[s \ {pick(s)}]]
    BY <2>3, <2>4 DEF next, step, Recurs, Descends
  <2> QED
    BY <2>5
<1> HIDE DEF sum
<1> DEFINE Q == {s \in SUBSET S : /\ sum[s] \in Int
                                  /\ -(r * Cardinality(s)) <= sum[s]
                                  /\ sum[s] <= r * Cardinality(s)}
<1>4. ASSUME NEW s \in SUBSET S, \A t \in SUBSET s : t # s => t \in Q PROVE s \in Q
  <2>1. CASE s = {}
    BY <1>3, <2>1, FS_EmptySet
  <2>2. CASE s # {}
    <3> DEFINE x == pick(s)
               t == s \ {x}
    <3>1. x \in s /\ t \in SUBSET s /\ t # s
      BY <1>1, <2>2
    <3>2. sum[s] = x + sum[t]
      BY <1>3, <2>2
    <3> HIDE DEF x, t
    <3>3. Cardinality(t) = Cardinality(s) - 1 /\ Cardinality(s) \in Nat
      BY <3>1, FS_Subset, FS_RemoveElement, FS_CardinalityType DEF t
    <3>4. /\ sum[t] \in Int /\ -(r * Cardinality(t)) <= sum[t] /\ sum[t] <= r * Cardinality(t)
          /\ x \in Int /\ -r <= x /\ x <= r
      BY <1>4, <3>1
    <3> DEFINE n == Cardinality(s)
    <3>5. r * (n - 1) = r * n - r
      BY <3>3
    <3> QED
      BY <3>2, <3>3, <3>4, <3>5
  <2> QED
    BY <2>1, <2>2
<1>5. S \in Q
  <2> HIDE DEF Q
  <2> QED
    BY <1>4, InductiveSubsets
<1> QED
  BY <1>2, <1>5

(* A set of naturals has a least. *)
LEMMA SmallestOf ==
  ASSUME NEW S \in SUBSET Nat, S # {}
  PROVE  Min(S) \in S
<1> DEFINE R == OpToRel(<, Nat)
<1>1. PICK n \in S : \A k \in S : ~(<<k, n>> \in R)
  BY NatLessThanWellFounded, WFMin
<1>2. \A k \in S : ~(k < n)
  BY <1>1 DEF OpToRel
<1> HIDE DEF R
<1>3. n \in Nat /\ \A k \in S : k \in Nat
  OBVIOUS
<1>4. \A k \in S : n <= k
  BY <1>2, <1>3
<1> QED
  BY <1>4 DEF Min

(* The middle of what is near a direction is no further from it than that. *)
LEMMA MiddleIsNear ==
  ASSUME NEW seed \in Direction, NEW near \in SUBSET Direction, seed \in near,
         NEW reach \in Nat, 2 * reach < Turn,
         \A d \in near : Apart(seed, d) <= reach
  PROVE  Middle(seed, near) \in Direction /\ Apart(Middle(seed, near), seed) <= reach
<1> DEFINE offsets == {Offset(seed, d) : d \in near}
           n == Cardinality(near)
           sum == SumSet(offsets)
           m == sum \div n
<1>1. Turn \in Nat \ {0} /\ seed \in Nat /\ seed < Turn
  BY PlannerAssumption DEF Direction
<1>2. IsFiniteSet(near) /\ n \in Nat /\ n > 0
  <2>1. IsFiniteSet(Direction)
    BY <1>1, FS_Interval DEF Direction
  <2>2. IsFiniteSet(near)
    BY <2>1, FS_Subset
  <2>3. n \in Nat /\ n # 0
    BY <2>2, FS_CardinalityType, FS_EmptySet
  <2> QED
    BY <2>2, <2>3
<1>3. /\ IsFiniteSet(offsets) /\ Cardinality(offsets) \in Nat /\ Cardinality(offsets) <= n
  <2> DEFINE f == [d \in near |-> Offset(seed, d)]
  <2>1. f \in Surjection(near, offsets)
    BY DEF Surjection
  <2> HIDE DEF f, offsets, n
  <2>2. IsFiniteSet(offsets) /\ Cardinality(offsets) <= Cardinality(near)
    BY <1>2, <2>1, FS_Surjection
  <2> QED
    BY <2>2, FS_CardinalityType DEF n
<1>4. \A d \in near :
        Offset(seed, d) \in Int /\ -reach <= Offset(seed, d) /\ Offset(seed, d) <= reach
  <2> SUFFICES ASSUME NEW d \in near
               PROVE  /\ Offset(seed, d) \in Int
                      /\ -reach <= Offset(seed, d) /\ Offset(seed, d) <= reach
    OBVIOUS
  <2>1. Apart(seed, d) = IF Offset(seed, d) < 0 THEN -Offset(seed, d) ELSE Offset(seed, d)
    BY DEF Apart
  <2>2. Offset(seed, d) \in Int
    <3> DEFINE v == d - seed + Turn \div 2
    <3>1. v \in Int
      BY <1>1 DEF Direction
    <3>2. v % Turn \in Int
      BY <1>1, <3>1, Wraps
    <3> QED
      BY <1>1, <3>2 DEF Offset
  <2>3. Apart(seed, d) <= reach
    OBVIOUS
  <2> QED
    BY <2>1, <2>2, <2>3
<1>5. sum \in Int /\ -(reach * n) <= sum /\ sum <= reach * n
  <2>1. offsets \in SUBSET Int /\ \A x \in offsets : -reach <= x /\ x <= reach
    BY <1>4
  <2> HIDE DEF offsets
  <2>2. /\ sum \in Int
        /\ -(reach * Cardinality(offsets)) <= sum /\ sum <= reach * Cardinality(offsets)
    BY <1>3, <2>1, SumWithin
  <2>3. reach * Cardinality(offsets) <= reach * n /\ reach * n \in Int
        /\ reach * Cardinality(offsets) \in Int
    BY <1>2, <1>3
  <2> HIDE DEF sum, n
  <2> QED
    BY <2>2, <2>3
<1> HIDE DEF sum, n
<1>6. m \in Int /\ -reach <= m /\ m <= reach
  BY <1>2, <1>5
<1> HIDE DEF m
<1> DEFINE aim == (seed + m) % Turn
<1>7. aim \in Direction /\ aim \in {seed + m, seed + m - Turn, seed + m + Turn}
  <2> DEFINE k == seed + m
  <2>1. k \in Int /\ -Turn <= k /\ k < 2 * Turn
    BY <1>1, <1>6
  <2> HIDE DEF k
  <2>2. k % Turn \in Direction /\ k % Turn \in {k, k - Turn, k + Turn}
    BY <2>1, WrapsOnce
  <2>3. aim = k % Turn
    BY DEF k
  <2> HIDE DEF aim
  <2>4. aim \in Direction /\ aim \in {k, k - Turn, k + Turn} /\ k = seed + m
    BY <2>2, <2>3 DEF k
  <2> QED
    BY <1>1, <1>6, <2>4
<1> HIDE DEF aim
<1>8. Apart(aim, seed) <= reach
  <2>1. Apart(aim, seed) = Shorter(Way(aim, seed)) /\ aim \in Nat /\ aim < Turn
    BY <1>1, <1>7, ApartIs DEF Direction
  <2> QED
    BY <1>1, <1>6, <1>7, <2>1 DEF Shorter, Way
<1>9. Middle(seed, near) = aim
  BY DEF Middle, aim, m, sum, n
<1> QED
  BY <1>7, <1>8, <1>9

(* The gaps' targets: directions, one of them near enough to every          *)
(* direction that is open.                                                  *)
Reached(targets, open, reach) ==
  /\ targets \subseteq Direction
  /\ \A d \in open : \E aim \in targets : Apart(aim, d) <= reach

(* Aiming at every target reaches everything open.  Each is taken from      *)
(* around a direction still open, and takes at least that one away.         *)
LEMMA TargetsReach ==
  ASSUME NEW open \in SUBSET Direction, NEW reach \in Nat, 2 * reach < Turn
  PROVE  Reached(Targets(open, reach), open, reach)
<1> DEFINE at(left) == Middle(Min(left), {d \in left : Apart(Min(left), d) <= reach})
           rest(left) == {d \in left : Apart(at(left), d) > reach}
           gathered == CHOOSE g : g = [left \in SUBSET open |->
                         IF left = {} THEN {} ELSE {at(left)} \cup g[rest(left)]]
<1>1. Targets(open, reach) = gathered[open]
  BY DEF Targets
<1>2. IsFiniteSet(open)
  <2>1. 0 \in Int /\ Turn - 1 \in Int
    BY PlannerAssumption
  <2>2. IsFiniteSet(Direction)
    BY <2>1, FS_Interval DEF Direction
  <2> QED
    BY <2>2, FS_Subset
<1>3. ASSUME NEW left \in SUBSET open, left # {}
      PROVE  at(left) \in Direction /\ \E d \in left : Apart(at(left), d) <= reach
  <2> DEFINE seed == Min(left)
             near == {d \in left : Apart(seed, d) <= reach}
  <2>1. seed \in left
    BY <1>3, SmallestOf DEF Direction
  <2>2. Apart(seed, seed) = 0
    <3> HIDE DEF seed
    <3>1. seed \in Direction /\ seed \in Nat /\ Turn \in Nat
      BY <2>1, PlannerAssumption DEF Direction
    <3>2. Apart(seed, seed) = Shorter(Way(seed, seed))
      BY <3>1, ApartIs
    <3> QED
      BY <3>1, <3>2 DEF Shorter, Way
  <2> HIDE DEF seed
  <2>3. near \in SUBSET Direction /\ seed \in near /\ seed \in Direction
        /\ \A d \in near : Apart(seed, d) <= reach
    BY <2>1, <2>2
  <2> HIDE DEF near
  <2>4. Middle(seed, near) \in Direction /\ Apart(Middle(seed, near), seed) <= reach
    BY <2>3, MiddleIsNear
  <2>5. at(left) = Middle(seed, near)
    BY DEF seed, near
  <2> QED
    BY <2>1, <2>4, <2>5
<1> HIDE DEF at
<1>4. \A left \in SUBSET open : left # {} => rest(left) \subseteq left /\ rest(left) # left
  <2> SUFFICES ASSUME NEW left \in SUBSET open, left # {}
               PROVE  rest(left) \subseteq left /\ rest(left) # left
    OBVIOUS
  <2>1. PICK d \in left : Apart(at(left), d) <= reach
    BY <1>3
  <2>2. at(left) \in Direction /\ d \in Direction
    BY <1>3
  <2>3. Apart(at(left), d) \in Nat
    BY <2>2, ApartIs
  <2>4. d \notin rest(left)
    BY <2>1, <2>3
  <2> QED
    BY <2>4
<1>5. gathered = [left \in SUBSET open |->
                    IF left = {} THEN {} ELSE {at(left)} \cup gathered[rest(left)]]
  <2> DEFINE next == [left \in SUBSET open |-> rest(left)]
             step == [left \in SUBSET open |-> [v \in SUBSET Direction |->
                        IF left = {} THEN {} ELSE {at(left)} \cup v]]
  <2>1. step \in [SUBSET open -> [SUBSET Direction -> SUBSET Direction]]
    BY <1>3
  <2>2. Descends(next, open)
    BY <1>4 DEF Descends
  <2>3. {} \in SUBSET Direction
    OBVIOUS
  <2>4. \A left \in SUBSET open : next[left] = rest(left)
    OBVIOUS
  <2>5. \A left \in SUBSET open : left # {} =>
          \A v \in SUBSET Direction : step[left][v] = {at(left)} \cup v
    OBVIOUS
  <2> HIDE DEF next, step
  <2>6. PICK g \in [SUBSET open -> SUBSET Direction] : Recurs(g, open, {}, next, step)
    BY <1>2, <2>1, <2>2, <2>3, RecursionOnSubsets
  <2> HIDE DEF rest
  <2>7. ASSUME NEW left \in SUBSET open
        PROVE  g[left] = IF left = {} THEN {} ELSE {at(left)} \cup g[rest(left)]
    <3>1. next[left] \in SUBSET open /\ next[left] = rest(left)
      BY <2>2, <2>4 DEF Descends
    <3>2. g[rest(left)] \in SUBSET Direction
      BY <3>1
    <3>3. CASE left = {}
      BY <2>6, <3>3 DEF Recurs
    <3>4. CASE left # {}
      <4>1. g[left] = step[left][g[next[left]]]
        BY <2>6, <3>4 DEF Recurs
      <4>2. step[left][g[rest(left)]] = {at(left)} \cup g[rest(left)]
        BY <2>5, <3>2, <3>4
      <4> QED
        BY <3>1, <3>4, <4>1, <4>2
    <3> QED
      BY <3>3, <3>4
  <2>8. g = [left \in SUBSET open |->
               IF left = {} THEN {} ELSE {at(left)} \cup g[rest(left)]]
    BY <2>7
  <2> QED
    BY <2>8
<1> HIDE DEF gathered
<1> DEFINE Q == {left \in SUBSET open : Reached(gathered[left], left, reach)}
<1>6. ASSUME NEW left \in SUBSET open, \A t \in SUBSET left : t # left => t \in Q
      PROVE  left \in Q
  <2>1. CASE left = {}
    BY <1>5, <2>1 DEF Reached
  <2>2. CASE left # {}
    <3>1. gathered[left] = {at(left)} \cup gathered[rest(left)]
      BY <1>5, <2>2
    <3>2. Reached(gathered[rest(left)], rest(left), reach)
      BY <1>4, <1>6, <2>2
    <3>3. at(left) \in Direction
      BY <1>3, <2>2
    <3>4. \A d \in left : d \in rest(left) \/ Apart(at(left), d) <= reach
      <4> SUFFICES ASSUME NEW d \in left, ~(Apart(at(left), d) > reach)
                   PROVE  Apart(at(left), d) <= reach
        OBVIOUS
      <4>1. Apart(at(left), d) \in Nat
        BY <3>3, ApartIs
      <4> QED
        BY <4>1
    <3> HIDE DEF rest
    <3> QED
      BY <3>1, <3>2, <3>3, <3>4 DEF Reached
  <2> QED
    BY <2>1, <2>2
<1>7. open \in Q
  <2> HIDE DEF Q
  <2> QED
    BY <1>2, <1>6, InductiveSubsets
<1> QED
  BY <1>1, <1>7

-----------------------------------------------------------------------------
(* What is left to see.  Between the gaps that are left and what the placed *)
(* frames cover, no direction asked is forgotten.                           *)
Remembered(aims, targets) ==
  \A d \in Sample : \/ CoveredBy(aims, lens, d)
                    \/ \E gap \in targets : Apart(gap, d) <= Reach(lens, spec.cone)

SweepIInv ==
  /\ spec \in PlanSpec(Lenses, Cones, Overlaps) /\ plan = Plan(spec) /\ lens \in 1..spec.half
  /\ \A t \in taken : t.cell \in plan /\ t.aim \in Aims(t.cell, spec.cone)
  /\ placed \subseteq Direction
  /\ judged => Planned
  /\ judged /\ gaps # NoGaps =>
       /\ Reach(lens, spec.cone) >= Grain
       /\ gaps \subseteq Direction
       /\ Remembered(placed, gaps)

(* What was asked of the planner, when it laid a plan. *)
Laid == /\ spec.half \in Nat /\ spec.cone \in Nat /\ spec.overlap \in 0..(Tenths - 1)
        /\ spec = [half |-> spec.half, cone |-> spec.cone, overlap |-> spec.overlap]
        /\ lens \in Nat /\ lens > 0 /\ lens <= spec.half
        /\ Turn \in Nat \ {0} /\ Grain \in Nat \ {0} /\ Between \in Nat /\ Grain <= 2 * Between
        /\ Planned => 4 * spec.half <= Turn

(* A plan is laid for a lens that sees less than half of the horizon. *)
LEMMA PlansAreLaid == SweepIInv => Laid
<1> SUFFICES ASSUME SweepIInv PROVE Laid
  OBVIOUS
<1>1. /\ spec \in [half : Lenses, cone : Cones, overlap : Overlaps]
      /\ plan = Plan(spec) /\ lens \in 1..spec.half
  BY DEF SweepIInv, PlanSpec
<1>2. /\ spec.half \in Nat /\ spec.cone \in Nat /\ spec.overlap \in 0..(Tenths - 1)
      /\ spec = [half |-> spec.half, cone |-> spec.cone, overlap |-> spec.overlap]
  BY <1>1, SweepAssumption
<1>3. Planned => ~SpecRefused(spec)
  BY <1>1 DEF Planned, Plan
<1>4. Planned => 4 * spec.half <= Turn
  BY <1>2, <1>3, PlannerAssumption DEF SpecRefused
<1> QED
  BY <1>1, <1>2, <1>4, PlannerAssumption DEF Laid

(* The directions a frame is asked about around another. *)
LEMMA AroundIsBetween ==
  ASSUME NEW d \in Direction, NEW b \in Nat, b < Turn,
         NEW e \in {d, (d + b) % Turn, (d - b) % Turn}
  PROVE  e \in Direction /\ Apart(d, e) <= b
<1> DEFINE n == d + b
           m == d - b
<1>1. Turn \in Nat \ {0} /\ d \in Nat /\ d < Turn
  BY PlannerAssumption DEF Direction
<1>2. /\ n \in Int /\ -Turn <= n /\ n < 2 * Turn
      /\ m \in Int /\ -Turn <= m /\ m < 2 * Turn
  BY <1>1
<1>3. e \in {d, n % Turn, m % Turn}
  OBVIOUS
<1> HIDE DEF n, m
<1>4. /\ n % Turn \in Direction /\ n % Turn \in {n, n - Turn, n + Turn}
      /\ m % Turn \in Direction /\ m % Turn \in {m, m - Turn, m + Turn}
  BY <1>2, WrapsOnce
<1>5. e \in Direction /\ e \in {d, n, n - Turn, n + Turn, m, m - Turn, m + Turn}
  BY <1>3, <1>4
<1>6. n = d + b /\ m = d - b /\ e \in Nat /\ e < Turn
  BY <1>1, <1>5 DEF n, m, Direction
<1>7. Apart(d, e) = Shorter(Way(d, e))
  BY <1>5, ApartIs
<1> QED
  BY <1>1, <1>2, <1>5, <1>6, <1>7 DEF Shorter, Way

(* A fill frame covers every direction its gap stood for. *)
LEMMA FillsItsGap ==
  ASSUME Laid, Planned, Reach(lens, spec.cone) >= Grain,
         NEW gap \in Direction, NEW aim \in Aims(gap, spec.cone),
         NEW aims, aim \in aims,
         NEW d \in Direction, Apart(gap, d) <= Reach(lens, spec.cone)
  PROVE  CoveredBy(aims, lens, d)
<1>1. Between < lens /\ Between < Turn /\ lens \in Nat /\ spec.cone \in Nat /\ Between \in Nat
  BY DEF Laid, Reach
<1>2. aim \in Direction /\ Apart(gap, aim) <= spec.cone
  BY DEF Aims
<1>3. ASSUME NEW e \in {d, (d + Between) % Turn, (d - Between) % Turn}
      PROVE  Apart(aim, e) <= lens
  <2>1. e \in Direction /\ Apart(d, e) <= Between
    BY <1>1, AroundIsBetween
  <2>2. Apart(aim, e) <= Apart(aim, gap) + Apart(gap, e)
    BY <1>2, <2>1, ApartIsADistance
  <2>3. Apart(gap, e) <= Apart(gap, d) + Apart(d, e) /\ Apart(aim, gap) = Apart(gap, aim)
    BY <1>2, <2>1, ApartIsADistance
  <2>4. /\ Apart(aim, e) \in Nat /\ Apart(aim, gap) \in Nat /\ Apart(gap, e) \in Nat
        /\ Apart(gap, d) \in Nat /\ Apart(d, e) \in Nat
    BY <1>2, <2>1, ApartIs
  <2> QED
    BY <1>1, <1>2, <2>1, <2>2, <2>3, <2>4 DEF Reach
<1> QED
  BY <1>3 DEF CoveredBy, Images

(* Nothing is forgotten from the first. *)
LEMMA SweepStarts == SweepInit => SweepIInv
BY DEF SweepInit, SweepIInv

(* A build that judges its gaps remembers what it did not cover. *)
LEMMA JudgedRemembers ==
  ASSUME Laid, Planned, NEW aims \in SUBSET Direction, FindGaps(aims, lens, spec.cone) # NoGaps
  PROVE  /\ Reach(lens, spec.cone) >= Grain
         /\ FindGaps(aims, lens, spec.cone) \subseteq Direction
         /\ Remembered(aims, FindGaps(aims, lens, spec.cone))
<1> DEFINE reach == Reach(lens, spec.cone)
           open == OpenAt(aims, lens)
           targets == FindGaps(aims, lens, spec.cone)
<1>1. /\ reach \in Int /\ Grain \in Nat /\ Grain > 0 /\ reach <= lens
      /\ Turn \in Nat /\ 4 * lens <= Turn /\ lens \in Nat
      /\ lens > 0
  BY DEF Laid, Reach
<1>2. reach >= Grain /\ targets = Targets(open, reach)
  BY <1>1 DEF FindGaps
<1>3. open \in SUBSET Direction
  BY DEF OpenAt, Sample
<1>4. reach \in Nat /\ 2 * reach < Turn
  BY <1>1, <1>2
<1> HIDE DEF reach, targets
<1>5. Reached(targets, open, reach)
  BY <1>2, <1>3, <1>4, TargetsReach
<1>6. \A d \in Sample : CoveredBy(aims, lens, d) \/ \E gap \in targets : Apart(gap, d) <= reach
  BY <1>5 DEF Reached, OpenAt
<1>7. targets \subseteq Direction
  BY <1>5 DEF Reached
<1> QED
  BY <1>2, <1>6, <1>7 DEF Remembered, reach, targets

(* And no step forgets any. *)
LEMMA SweepStep == SweepIInv /\ [SweepNext]_sweepVars => SweepIInv'
<1> SUFFICES ASSUME SweepIInv, [SweepNext]_sweepVars PROVE SweepIInv'
  OBVIOUS
<1>1. Laid
  BY PlansAreLaid
<1>2. ASSUME Planned, NEW cell \in plan, Take(cell) PROVE SweepIInv'
  <2>1. PICK aim \in Aims(cell, spec.cone) : taken' = taken \cup {[cell |-> cell, aim |-> aim]}
    BY <1>2 DEF Take
  <2>2. ~judged /\ UNCHANGED <<spec, plan, lens, placed, gaps, judged>>
    BY <1>2 DEF Take
  <2>3. \A t \in taken' : t.cell \in plan /\ t.aim \in Aims(t.cell, spec.cone)
    BY <2>1 DEF SweepIInv
  <2> QED
    BY <2>2, <2>3 DEF SweepIInv
<1>3. CASE JudgeGaps
  <2>1. /\ Planned /\ UNCHANGED <<spec, plan, lens>> /\ taken' = {} /\ judged' = TRUE
        /\ gaps' = FindGaps(placed', lens, spec.cone)
    BY <1>3 DEF JudgeGaps
  <2>2. placed' \subseteq Direction
    BY <1>3 DEF JudgeGaps, SweepIInv, Aims
  <2>3. gaps' # NoGaps => /\ Reach(lens, spec.cone) >= Grain
                          /\ gaps' \subseteq Direction
                          /\ Remembered(placed', gaps')
    BY <1>1, <2>1, <2>2, JudgedRemembers
  <2> QED
    BY <2>1, <2>2, <2>3 DEF SweepIInv, Planned, Remembered
<1>4. CASE Fill
  <2>1. judged /\ gaps # NoGaps /\ UNCHANGED <<spec, plan, lens, taken, judged>>
    BY <1>4 DEF Fill
  <2>2. /\ Planned /\ Reach(lens, spec.cone) >= Grain
        /\ gaps \subseteq Direction /\ Remembered(placed, gaps)
    BY <2>1 DEF SweepIInv
  <2>3. PICK gap \in gaps : \E aim \in Aims(gap, spec.cone) :
          placed' = placed \cup {aim} /\ gaps' = gaps \ {gap}
    BY <1>4 DEF Fill
  <2>4. PICK aim \in Aims(gap, spec.cone) : placed' = placed \cup {aim} /\ gaps' = gaps \ {gap}
    BY <2>3
  <2>5. ASSUME NEW d \in Sample
        PROVE  \/ CoveredBy(placed', lens, d)
               \/ \E g \in gaps' : Apart(g, d) <= Reach(lens, spec.cone)
    <3>1. CASE CoveredBy(placed, lens, d)
      BY <2>4, <3>1 DEF CoveredBy
    <3>2. CASE Apart(gap, d) <= Reach(lens, spec.cone)
      <4>1. d \in Direction /\ gap \in Direction /\ aim \in placed'
        BY <2>2, <2>4 DEF Sample
      <4> QED
        BY <1>1, <2>2, <3>2, <4>1, FillsItsGap
    <3>3. CASE \E g \in gaps \ {gap} : Apart(g, d) <= Reach(lens, spec.cone)
      BY <2>4, <3>3
    <3> QED
      BY <2>2, <3>1, <3>2, <3>3 DEF Remembered
  <2>6. placed' \subseteq Direction /\ gaps' \subseteq Direction
    BY <2>2, <2>4 DEF SweepIInv, Aims
  <2> QED
    BY <2>1, <2>2, <2>5, <2>6 DEF SweepIInv, Planned, Remembered
<1>5. CASE UNCHANGED sweepVars
  BY <1>5 DEF sweepVars, SweepIInv, Planned, Remembered
<1> QED
  BY <1>2, <1>3, <1>4, <1>5 DEF SweepNext

(* A capture with a frame for every cell sees every direction, wherever in  *)
(* its cone each was aimed; and a build whose gaps are all filled sees      *)
(* every direction, whatever it had placed and however much narrower its    *)
(* lens turned out than the one the plan was laid for: on a horizon of any  *)
(* size, for every lens, cone and overlap.                                  *)
THEOREM SweepsSeeEverything == SweepSpec => []SeesEverything
<1>1. SweepIInv => SeesEverything
  <2> SUFFICES ASSUME SweepIInv PROVE SeesEverything
    OBVIOUS
  <2>1. Laid
    BY PlansAreLaid
  <2>2. ASSUME Planned, {t.cell : t \in taken} = plan, lens = spec.half, NEW d \in Direction
        PROVE  \E aim \in {t.aim : t \in taken} : Images(aim, lens, d)
    <3>1. spec = [half |-> spec.half, cone |-> spec.cone, overlap |-> spec.overlap]
      BY <2>1 DEF Laid
    <3>2. /\ spec.half \in Nat /\ spec.cone \in Nat /\ spec.overlap \in 0..(Tenths - 1)
          /\ Plan([half |-> spec.half, cone |-> spec.cone, overlap |-> spec.overlap]) = plan
          /\ plan # NoPlan
      BY <2>1, <2>2, <3>1 DEF Laid, SweepIInv, Planned
    <3>3. PICK c \in plan : \A aim \in Aims(c, spec.cone) : Images(aim, spec.half, d)
      BY <3>2, PlanSeesAll
    <3>4. PICK t \in taken : t.cell = c
      BY <2>2
    <3>5. t.aim \in Aims(c, spec.cone)
      BY <3>4 DEF SweepIInv
    <3> QED
      BY <2>2, <3>3, <3>5
  <2>3. ASSUME judged, gaps = {}, NEW d \in Direction
        PROVE  \E aim \in placed : Images(aim, lens, d)
    <3>1. gaps # NoGaps
      BY <2>3, PlannerAssumption
    <3>2. /\ Planned /\ Reach(lens, spec.cone) >= Grain /\ Remembered(placed, gaps)
          /\ placed \subseteq Direction
      BY <2>3, <3>1 DEF SweepIInv
    <3>3. /\ Between \in Nat /\ Grain <= 2 * Between
          /\ lens \in Nat /\ Between < lens /\ 4 * lens <= Turn
      BY <2>1, <3>2 DEF Laid, Reach
    <3>4. PICK s \in Sample : Apart(s, d) <= Between
      BY <3>3, AskedNearby
    <3>5. CoveredBy(placed, lens, s) /\ s \in Direction
      BY <2>3, <3>2 DEF Remembered, Sample
    <3>6. PICK aim \in placed : \A e \in {s, (s + Between) % Turn, (s - Between) % Turn} :
            Apart(aim, e) <= lens
      BY <3>5 DEF CoveredBy, Images
    <3>7. \A e \in {s, (s + Between) % Turn, (s - Between) % Turn} : Apart(e, aim) <= lens
      <4> SUFFICES ASSUME NEW e \in {s, (s + Between) % Turn, (s - Between) % Turn}
                   PROVE  Apart(e, aim) <= lens
        OBVIOUS
      <4>1. e \in Direction /\ aim \in Direction
        BY <2>1, <3>2, <3>3, <3>5, AroundIsBetween DEF Laid
      <4>2. Apart(e, aim) = Apart(aim, e)
        BY <4>1, ApartIsADistance
      <4> QED
        BY <3>6, <4>2
    <3>8. Apart(d, aim) <= lens
      BY <3>2, <3>3, <3>4, <3>5, <3>7, InTheCone
    <3>9. Apart(aim, d) = Apart(d, aim)
      BY <3>2, ApartIsADistance
    <3> QED
      BY <3>8, <3>9 DEF Images
  <2> QED
    BY <2>2, <2>3 DEF SeesEverything, Seen
<1> QED
  BY <1>1, SweepStarts, SweepStep, PTL DEF SweepSpec

-----------------------------------------------------------------------------
(* A recursion over the numbers up to one has a function that computes it. *)
Computes(g, n, base, step) ==
  g[0] = base /\ \A i \in 1..n : g[i] = step[i][g[i - 1]]

(* A step for each number carries a base through all of them. *)
LEMMA RecursionOnNumbers ==
  ASSUME NEW n \in Nat, NEW V, NEW base \in V, NEW step \in [1..n -> [V -> V]]
  PROVE  \E g \in [0..n -> V] : Computes(g, n, base, step)
<1> DEFINE Is(g, k) == g[0] = base /\ \A i \in 1..k : g[i] = step[i][g[i - 1]]
           Good == {k \in Nat : k <= n => \E g \in [0..n -> V] : Is(g, k)}
<1>1. 0 \in Good
  <2> DEFINE g == [i \in 0..n |-> base]
  <2>1. g \in [0..n -> V] /\ Is(g, 0)
    OBVIOUS
  <2> QED
    BY <2>1
<1>2. ASSUME NEW k \in Good PROVE k + 1 \in Good
  <2>1. CASE k + 1 <= n
    <3>1. k \in Nat /\ k <= n /\ k \in 0..n /\ k + 1 \in 1..n
      BY <2>1
    <3>2. PICK g \in [0..n -> V] : Is(g, k)
      BY <3>1
    <3> DEFINE last == step[k + 1][g[k]]
               h == [g EXCEPT ![k + 1] = last]
    <3>3. last \in V
      BY <3>1, <3>2
    <3> HIDE DEF last
    <3>4. h \in [0..n -> V]
      BY <3>3
    <3>5. h[0] = base /\ \A i \in 0..k : h[i] = g[i]
      BY <3>1, <3>2
    <3>6. h[k + 1] = last
      BY <3>1
    <3>7. ASSUME NEW i \in 1..(k + 1) PROVE h[i] = step[i][h[i - 1]]
      <4>1. CASE i = k + 1
        <5>1. i - 1 = k /\ k \in 0..k
          BY <3>1, <4>1
        <5> QED
          BY <3>5, <3>6, <4>1, <5>1 DEF last
      <4>2. CASE i # k + 1
        <5>1. i \in 1..k /\ i - 1 \in 0..k /\ i \in 0..k
          BY <3>1, <4>2
        <5> QED
          BY <3>2, <3>5, <5>1
      <4> QED
        BY <4>1, <4>2
    <3> HIDE DEF h
    <3>8. \E f \in [0..n -> V] : Is(f, k + 1)
      BY <3>4, <3>5, <3>7
    <3> QED
      BY <3>1, <3>8
  <2>2. CASE ~(k + 1 <= n)
    BY <2>2
  <2> QED
    BY <2>1, <2>2
<1>3. n \in Good
  <2>1. Good \in SUBSET Nat
    OBVIOUS
  <2> HIDE DEF Good
  <2> QED
    BY <1>1, <1>2, <2>1, InductiveSet
<1> QED
  BY <1>3 DEF Computes

(* Flattening lays one sequence after the other. *)
Flattens(g, seqs, flat) ==
  /\ g[0] = <<>>
  /\ \A i \in 1..Len(seqs) : g[i] = g[i - 1] \o seqs[i]
  /\ flat = g[Len(seqs)]

(* Flattening goes through the sequences in their order. *)
LEMMA FlattensInOrder ==
  ASSUME NEW V, NEW seqs \in Seq(Seq(V))
  PROVE  \E g \in [0..Len(seqs) -> Seq(V)] : Flattens(g, seqs, FlattenSeq(seqs))
<1> DEFINE n == Len(seqs)
           flatten == CHOOSE f : f = [i \in 1..n |->
                        IF i = 1 THEN seqs[i] ELSE f[i - 1] \o seqs[i]]
<1>1. n \in Nat /\ \A i \in 1..n : seqs[i] \in Seq(V)
  BY LenProperties, ElementOfSeq
<1>2. FlattenSeq(seqs) = IF n = 0 THEN seqs ELSE flatten[n]
  BY DEF FlattenSeq
<1>3. flatten = [i \in 1..n |-> IF i = 1 THEN seqs[i] ELSE flatten[i - 1] \o seqs[i]]
  <2> DEFINE step == [i \in 1..n |-> [v \in Seq(V) |-> v \o seqs[i]]]
             none == <<>>
  <2>1. step \in [1..n -> [Seq(V) -> Seq(V)]] /\ none \in Seq(V)
    BY <1>1, ConcatProperties
  <2>2. PICK g \in [0..n -> Seq(V)] : g[0] = none /\ \A i \in 1..n : g[i] = step[i][g[i - 1]]
    <3> DEFINE W == Seq(V)
    <3>1. none \in W /\ step \in [1..n -> [W -> W]] /\ n \in Nat
      BY <1>1, <2>1
    <3> HIDE DEF step, none, W, n
    <3>2. \E g \in [0..n -> W] : Computes(g, n, none, step)
      BY <3>1, RecursionOnNumbers
    <3> QED
      BY <3>2 DEF W, Computes
  <2>3. \A i \in 1..n : i - 1 \in 0..n
    BY <1>1
  <2>4. \A i \in 1..n : g[i] = g[i - 1] \o seqs[i]
    BY <2>2, <2>3
  <2>5. \A i \in 1..n : i = 1 => g[i] = seqs[i]
    <3>1. \A i \in 1..n : i = 1 => g[i] = <<>> \o seqs[i]
      <4>1. \A i \in 1..n : i = 1 => i - 1 = 0
        OBVIOUS
      <4> QED
        BY <2>2, <2>4, <4>1
    <3>2. \A i \in 1..n : <<>> \o seqs[i] = seqs[i]
      BY <1>1, ConcatEmptySeq
    <3> QED
      BY <3>1, <3>2
  <2> DEFINE f == [i \in 1..n |-> g[i]]
  <2>6. \A i \in 1..n : i # 1 => i - 1 \in 1..n
    BY <1>1
  <2>7. f = [i \in 1..n |-> IF i = 1 THEN seqs[i] ELSE f[i - 1] \o seqs[i]]
    BY <2>4, <2>5, <2>6
  <2> HIDE DEF f
  <2> QED
    BY <2>7
<1> HIDE DEF flatten
<1> DEFINE g == [i \in 0..n |-> IF i = 0 THEN <<>> ELSE flatten[i]]
           Good == {i \in Nat : i <= n => g[i] \in Seq(V)}
<1>4. ASSUME NEW i \in 1..n PROVE g[i] = g[i - 1] \o seqs[i] /\ i - 1 \in 0..n /\ i \in 0..n
  <2>1. i \in Nat /\ i - 1 \in 0..n /\ i \in 0..n /\ i # 0
    BY <1>1
  <2>2. CASE i = 1
    <3>1. <<>> \o seqs[i] = seqs[i] /\ i - 1 = 0
      BY <1>1, <2>2, ConcatEmptySeq
    <3> QED
      BY <1>3, <2>1, <2>2, <3>1
  <2>3. CASE i # 1
    <3>1. i - 1 # 0
      BY <2>1, <2>3
    <3> QED
      BY <1>3, <2>1, <2>3, <3>1
  <2> QED
    BY <2>2, <2>3
<1>5. g[0] = <<>> /\ 0 \in 0..n
  BY <1>1
<1>6. DOMAIN g = 0..n
  OBVIOUS
<1>7. g = [i \in 0..n |-> g[i]]
  OBVIOUS
<1>8. g[n] = FlattenSeq(seqs)
  <2>1. CASE n = 0
    <3>1. seqs = <<>>
      BY <2>1, EmptySeq
    <3> QED
      BY <1>2, <1>5, <2>1, <3>1
  <2>2. CASE n # 0
    BY <1>1, <1>2, <2>2
  <2> QED
    BY <2>1, <2>2
<1> HIDE DEF g
<1>9. \A i \in 0..n : g[i] \in Seq(V)
  <2>1. 0 \in Good
    BY <1>5, EmptySeq
  <2>2. ASSUME NEW i \in Good PROVE i + 1 \in Good
    <3>1. CASE i + 1 <= n
      <4>1. i \in Nat /\ i <= n /\ i + 1 \in 1..n /\ (i + 1) - 1 = i
        BY <1>1, <3>1
      <4>2. g[i] \in Seq(V) /\ seqs[i + 1] \in Seq(V)
        BY <1>1, <4>1
      <4>3. g[i + 1] = g[i] \o seqs[i + 1]
        BY <1>4, <4>1
      <4>4. g[i + 1] \in Seq(V)
        BY <4>2, <4>3, ConcatProperties
      <4> QED
        BY <4>1, <4>4
    <3>2. CASE ~(i + 1 <= n)
      BY <3>2
    <3> QED
      BY <3>1, <3>2
  <2>3. Good \in SUBSET Nat
    OBVIOUS
  <2>4. \A i \in Nat : i \in Good
    <3> HIDE DEF Good
    <3> QED
      BY <2>1, <2>2, <2>3, InductiveSet
  <2> QED
    BY <1>1, <2>4
<1>10. g \in [0..n -> Seq(V)]
  BY <1>7, <1>9
<1> QED
  BY <1>4, <1>5, <1>8, <1>10 DEF Flattens

-----------------------------------------------------------------------------
(* The bytes of a payload are those of its numbers, one after the other.    *)
Kinds == {"bool", "i32", "u64", "f64", "integer", "int64", "id", "string", "bytes", "count", "raw"}
Wire == [kind : Kinds, width : Nat, claim : Int, fits : BOOLEAN, true : BOOLEAN]

Places(pos, numbers) ==
  /\ pos[0] = 0
  /\ \A i \in 1..Len(numbers) : pos[i] = pos[i - 1] + numbers[i].width
  /\ Bytewise(numbers) = pos[Len(numbers)]

(* Every payload has a place for each of its numbers. *)
LEMMA BytesAddUp ==
  ASSUME NEW numbers \in Seq(Wire)
  PROVE  \E pos \in [0..Len(numbers) -> Nat] : Places(pos, numbers)
<1> DEFINE n == Len(numbers)
           S == DOMAIN numbers
           pick(s) == CHOOSE x \in s : TRUE
           total == CHOOSE iter : iter = [s \in SUBSET S |->
                      IF s = {} THEN 0 ELSE iter[s \ {pick(s)}] + numbers[pick(s)].width]
           w(x) == numbers[x].width
<1>1. n \in Nat /\ S = 1..n /\ IsFiniteSet(S) /\ \A x \in S : w(x) \in Nat
  <2>1. n \in Nat /\ S = 1..n /\ \A x \in 1..n : numbers[x] \in Wire
    BY LenProperties, ElementOfSeq
  <2>2. IsFiniteSet(1..n)
    BY <2>1, FS_Interval
  <2>3. \A x \in 1..n : w(x) \in Nat
    BY <2>1 DEF Wire
  <2> QED
    BY <2>1, <2>2, <2>3
<1>2. \A s : s # {} => pick(s) \in s
  OBVIOUS
<1>3. Bytewise(numbers) = total[S]
  BY DEF Bytewise, FoldSeq, FoldFunction, FoldFunctionOnSet, MapThenFoldSet
<1> HIDE DEF pick
<1>4. total = [s \in SUBSET S |-> IF s = {} THEN 0 ELSE total[s \ {pick(s)}] + w(pick(s))]
  <2> DEFINE next == [s \in SUBSET S |-> s \ {pick(s)}]
             step == [s \in SUBSET S |-> [v \in Nat |-> IF s = {} THEN 0 ELSE v + w(pick(s))]]
             none == 0
             Value == Nat
  <2>1. \A s \in SUBSET S : s # {} => w(pick(s)) \in Nat
    BY <1>1, <1>2
  <2>2. none \in Value /\ step \in [SUBSET S -> [Value -> Value]]
    BY <2>1
  <2>3. Descends(next, S)
    BY <1>2 DEF Descends
  <2>4. PICK g \in [SUBSET S -> Value] : Recurs(g, S, none, next, step)
    <3> HIDE DEF none, Value, next, step, S
    <3> QED
      BY <1>1, <2>2, <2>3, RecursionOnSubsets
  <2>5. ASSUME NEW s \in SUBSET S
        PROVE  g[s] = IF s = {} THEN 0 ELSE g[s \ {pick(s)}] + w(pick(s))
    BY <2>3, <2>4 DEF Recurs, Descends
  <2>6. g = [s \in SUBSET S |-> IF s = {} THEN 0 ELSE g[s \ {pick(s)}] + w(pick(s))]
    BY <2>5
  <2> HIDE DEF S
  <2> QED
    BY <2>6
<1> HIDE DEF total
<1>5. total[{}] = 0 /\ {} \in SUBSET S
  BY <1>4
<1>6. \A s \in SUBSET S : s # {} => /\ pick(s) \in s /\ s \ {pick(s)} \in SUBSET S
                                    /\ total[s] = total[s \ {pick(s)}] + w(pick(s))
  BY <1>2, <1>4
<1> HIDE DEF S, w
<1>7. \A s \in SUBSET S : total[s] \in Nat
  <2> DEFINE Q == {s \in SUBSET S : total[s] \in Nat}
  <2>1. ASSUME NEW s \in SUBSET S, \A t \in SUBSET s : t # s => t \in Q PROVE s \in Q
    <3>1. CASE s = {}
      BY <1>5, <3>1
    <3>2. CASE s # {}
      <4>1. total[s \ {pick(s)}] \in Nat /\ w(pick(s)) \in Nat
        BY <1>1, <1>6, <2>1, <3>2
      <4> QED
        BY <1>6, <3>2, <4>1
    <3> QED
      BY <3>1, <3>2
  <2>2. ASSUME NEW s \in SUBSET S PROVE s \in Q
    <3>1. IsFiniteSet(s) /\ \A u \in SUBSET s : u \in SUBSET S
      BY <1>1, FS_Subset
    <3>2. \A u \in SUBSET s : (\A t \in SUBSET u : t # u => t \in Q) => u \in Q
      BY <2>1, <3>1
    <3> HIDE DEF Q
    <3> QED
      BY <3>1, <3>2, InductiveSubsets
  <2> QED
    BY <2>2
(* Whichever number is added last. *)
<1>8. \A s \in SUBSET S : \A x \in s : total[s] = total[s \ {x}] + w(x)
  <2> DEFINE Q == {s \in SUBSET S : \A x \in s : total[s] = total[s \ {x}] + w(x)}
  <2>1. ASSUME NEW s \in SUBSET S, \A t \in SUBSET s : t # s => t \in Q PROVE s \in Q
    <3>1. ASSUME NEW x \in s PROVE total[s] = total[s \ {x}] + w(x)
      <4> DEFINE c == pick(s)
                 rest == (s \ {c}) \ {x}
      <4>1. c \in s /\ total[s] = total[s \ {c}] + w(c)
        BY <1>6
      <4> HIDE DEF c
      <4>2. CASE x = c
        BY <4>1, <4>2
      <4>3. CASE x # c
        <5>1. s \ {c} \in Q /\ s \ {x} \in Q
          BY <2>1, <4>1
        <5>2. x \in s \ {c} /\ c \in s \ {x} /\ (s \ {x}) \ {c} = rest
          BY <4>1, <4>3
        <5>3. total[s \ {c}] = total[rest] + w(x)
          BY <5>1, <5>2
        <5>4. total[s \ {x}] = total[rest] + w(c)
          BY <5>1, <5>2
        <5>5. total[rest] \in Nat /\ w(x) \in Nat /\ w(c) \in Nat
          BY <1>1, <1>7, <4>1
        <5> QED
          BY <4>1, <5>3, <5>4, <5>5
      <4> QED
        BY <4>2, <4>3
    <3> QED
      BY <3>1
  <2>2. ASSUME NEW s \in SUBSET S PROVE s \in Q
    <3>1. IsFiniteSet(s) /\ \A u \in SUBSET s : u \in SUBSET S
      BY <1>1, FS_Subset
    <3>2. \A u \in SUBSET s : (\A t \in SUBSET u : t # u => t \in Q) => u \in Q
      BY <2>1, <3>1
    <3> HIDE DEF Q
    <3> QED
      BY <3>1, <3>2, InductiveSubsets
  <2> QED
    BY <2>2
<1> DEFINE pos == [i \in 0..n |-> total[1..i]]
<1>9. \A i \in 0..n : 1..i \in SUBSET S
  BY <1>1
<1>10. pos \in [0..n -> Nat]
  BY <1>7, <1>9
<1>11. pos[0] = 0 /\ pos[n] = Bytewise(numbers)
  <2>1. 0 \in 0..n /\ n \in 0..n /\ 1..0 = {}
    BY <1>1
  <2> QED
    BY <1>1, <1>3, <1>5, <2>1
<1>12. ASSUME NEW i \in 1..n PROVE pos[i] = pos[i - 1] + numbers[i].width
  <2>1. i \in Nat /\ 1 <= i /\ i \in 0..n /\ i - 1 \in 0..n /\ i \in 1..i
    BY <1>1
  <2>2. \A x : x \in (1..i) \ {i} <=> x \in 1..(i - 1)
    BY <2>1
  <2>3. (1..i) \ {i} = 1..(i - 1)
    BY <2>2
  <2>4. total[1..i] = total[(1..i) \ {i}] + w(i)
    BY <1>8, <1>9, <2>1
  <2> QED
    BY <2>1, <2>3, <2>4 DEF w
<1> HIDE DEF pos
<1> QED
  BY <1>10, <1>11, <1>12 DEF Places

-----------------------------------------------------------------------------
(* What crosses: fields, and lists whose elements are fields alone.         *)
PlainKinds == {"bool", "i32", "u64", "f64", "integer", "int64", "id", "string", "bytes"}
Plain == [kind : PlainKinds, of : {<<>>}, least : {0}]

(* The bytes a read of a field takes at least. *)
Narrowest(kind) ==
  CASE kind = "bool" -> 1 [] kind \in {"i32", "count", "string", "bytes"} -> 4 [] OTHER -> 8

(* Fields, as what to read of them is left, still take so many bytes.       *)
Spends(owed, fields, a) ==
  /\ owed \in [0..Len(fields) -> Nat]
  /\ a <= owed[0] /\ owed[Len(fields)] = 0
  /\ \A i \in 1..Len(fields) : owed[i - 1] <= owed[i] + Narrowest(fields[i].kind)

Takes(fields, a) == \E owed : Spends(owed, fields, a)

(* A field takes a byte or more. *)
LEMMA NarrowestIsANumber ==
  ASSUME NEW kind
  PROVE  Narrowest(kind) \in Nat /\ Narrowest(kind) >= 1
BY DEF Narrowest

(* No fields are needed to take no byte. *)
LEMMA TakesNothing ==
  ASSUME NEW fields \in Seq(Plain)
  PROVE  Takes(fields, 0)
<1> DEFINE owed == [i \in 0..Len(fields) |-> 0]
<1>1. Len(fields) \in Nat
  BY LenProperties
<1>2. \A i \in 1..Len(fields) : i - 1 \in 0..Len(fields) /\ i \in 0..Len(fields)
  BY <1>1
<1>3. Spends(owed, fields, 0)
  BY <1>1, <1>2, NarrowestIsANumber DEF Spends
<1> QED
  BY <1>3 DEF Takes

(* What takes some bytes takes any fewer. *)
LEMMA TakesLess ==
  ASSUME NEW fields \in Seq(Plain), NEW a \in Nat, Takes(fields, a), NEW b \in Nat, b <= a
  PROVE  Takes(fields, b)
<1>1. PICK owed : Spends(owed, fields, a)
  BY DEF Takes
<1>2. owed[0] \in Nat
  BY <1>1, LenProperties DEF Spends
<1>3. Spends(owed, fields, b)
  BY <1>1, <1>2 DEF Spends
<1> QED
  BY <1>3 DEF Takes

(* One field. *)
LEMMA TakesOne ==
  ASSUME NEW f \in Plain
  PROVE  <<f>> \in Seq(Plain) /\ Takes(<<f>>, Narrowest(f.kind))
<1> DEFINE owed == [i \in 0..1 |-> IF i = 0 THEN Narrowest(f.kind) ELSE 0]
           one == <<f>>
<1>1. one \in Seq(Plain) /\ Len(one) = 1 /\ one[1] = f
  OBVIOUS
<1> HIDE DEF one
<1>2. owed \in [0..1 -> Nat] /\ owed[0] = Narrowest(f.kind) /\ owed[1] = 0
  BY NarrowestIsANumber
<1> HIDE DEF owed
<1>3. Spends(owed, one, Narrowest(f.kind))
  <2>1. \A i \in 1..1 : i = 1 /\ i - 1 = 0
    OBVIOUS
  <2> QED
    BY <1>1, <1>2, <2>1, NarrowestIsANumber DEF Spends
<1> QED
  BY <1>1, <1>3 DEF Takes, one

(* Fields and more fields. *)
LEMMA TakesBoth ==
  ASSUME NEW s \in Seq(Plain), NEW t \in Seq(Plain), NEW a \in Nat, NEW b \in Nat,
         Takes(s, a), Takes(t, b)
  PROVE  s \o t \in Seq(Plain) /\ Takes(s \o t, a + b)
<1> DEFINE both == s \o t
           m == Len(s)
           n == Len(t)
<1>1. m \in Nat /\ n \in Nat
  BY LenProperties
<1>2. /\ both \in Seq(Plain) /\ Len(both) = m + n
      /\ \A i \in 1..(m + n) : both[i] = IF i <= m THEN s[i] ELSE t[i - m]
  BY ConcatProperties
<1> HIDE DEF both
<1>3. PICK f : Spends(f, s, a)
  BY DEF Takes
<1>4. PICK g : Spends(g, t, b)
  BY DEF Takes
<1>5. /\ f \in [0..m -> Nat] /\ g \in [0..n -> Nat] /\ a <= f[0] /\ b <= g[0]
      /\ f[m] = 0 /\ g[n] = 0 /\ f[0] \in Nat /\ g[0] \in Nat
      /\ \A i \in 1..m : f[i - 1] <= f[i] + Narrowest(s[i].kind)
      /\ \A i \in 1..n : g[i - 1] <= g[i] + Narrowest(t[i].kind)
  BY <1>1, <1>3, <1>4 DEF Spends
<1> HIDE DEF m, n
<1> DEFINE h == [i \in 0..(m + n) |-> IF i <= m THEN f[i] + g[0] ELSE g[i - m]]
<1>6. \A i \in 0..(m + n) : /\ i <= m => i \in 0..m
                            /\ ~(i <= m) => i - m \in 0..n /\ i - m \in 1..n
  BY <1>1
<1>7. h \in [0..(m + n) -> Nat]
  BY <1>5, <1>6
<1>8. h[0] = f[0] + g[0]
  BY <1>1
<1>9. h[m + n] = 0
  <2>1. CASE n = 0
    BY <1>1, <1>5, <2>1
  <2>2. CASE n # 0
    <3>1. m + n \in 0..(m + n) /\ ~(m + n <= m) /\ (m + n) - m = n
      BY <1>1, <2>2
    <3> QED
      BY <1>5, <3>1
  <2> QED
    BY <2>1, <2>2
<1>10. ASSUME NEW i \in 1..(m + n) PROVE h[i - 1] <= h[i] + Narrowest(both[i].kind)
  <2>1. i \in Nat /\ i \in 0..(m + n) /\ i - 1 \in 0..(m + n)
    BY <1>1
  <2>2. CASE i <= m
    <3>1. i \in 1..m /\ i - 1 <= m /\ i - 1 \in 0..m /\ i \in 0..m
      BY <1>1, <2>1, <2>2
    <3>2. h[i - 1] = f[i - 1] + g[0] /\ h[i] = f[i] + g[0] /\ both[i] = s[i]
      BY <1>2, <2>1, <2>2, <3>1
    <3>3. f[i - 1] \in Nat /\ f[i] \in Nat /\ f[i - 1] <= f[i] + Narrowest(s[i].kind)
      BY <1>5, <3>1
    <3> DEFINE w == Narrowest(s[i].kind)
    <3>4. w \in Nat
      BY NarrowestIsANumber
    <3> HIDE DEF h, w
    <3>5. h[i - 1] <= h[i] + w
      BY <1>5, <3>2, <3>3, <3>4 DEF w
    <3> QED
      BY <3>2, <3>5 DEF w
  <2>3. CASE ~(i <= m)
    <3>1. /\ i - m \in 1..n /\ (i - m) - 1 \in 0..n /\ (i - 1) - m = (i - m) - 1
          /\ i - m \in 0..n
      BY <1>1, <1>6, <2>1, <2>3
    <3>2. h[i] = g[i - m] /\ both[i] = t[i - m]
      BY <1>2, <2>1, <2>3
    <3>3. h[i - 1] = g[(i - m) - 1]
      <4>1. CASE i - 1 <= m
        <5>1. i - 1 = m /\ (i - m) - 1 = 0
          BY <1>1, <2>1, <2>3, <4>1
        <5>2. h[i - 1] = f[m] + g[0]
          BY <2>1, <5>1
        <5> QED
          BY <1>5, <5>1, <5>2
      <4>2. CASE ~(i - 1 <= m)
        BY <2>1, <3>1, <4>2
      <4> QED
        BY <4>1, <4>2
    <3> HIDE DEF h
    <3> QED
      BY <1>5, <3>1, <3>2, <3>3
  <2> QED
    BY <2>2, <2>3
<1> HIDE DEF h
<1>11. Spends(h, both, a + b)
  <2>1. a + b <= h[0]
    BY <1>5, <1>8
  <2> QED
    BY <1>2, <1>7, <1>9, <1>10, <2>1 DEF Spends
<1> QED
  BY <1>2, <1>11 DEF Takes, both

-----------------------------------------------------------------------------
(* A list, of elements that each take the bytes the codec counts on.        *)
Lists ==
  {f \in [kind : {"count"}, of : Seq(Plain), least : Nat \ {0}] : Takes(f.of, f.least)}

Contract == Plain \cup Lists

(* The fields of the contracts, and the bytes each takes at least. *)
LEMMA FieldsArePlain ==
  /\ Bool \in Plain /\ I32 \in Plain /\ U64 \in Plain /\ F64 \in Plain
  /\ Integer \in Plain /\ Int64 \in Plain /\ Id \in Plain
  /\ String \in Plain /\ Bytes \in Plain
  /\ Narrowest(Bool.kind) = 1 /\ Narrowest(I32.kind) = 4
  /\ \A f \in {U64, F64, Integer, Int64, Id} : Narrowest(f.kind) = 8
BY DEF Plain, PlainKinds, Narrowest, Field, Bool, I32, U64, F64, Integer, Int64, Id, String, Bytes

(* Elements that take the bytes a list is declared with make a list. *)
LEMMA ListsAreLists ==
  ASSUME NEW f \in Seq(Plain), NEW a \in Nat \ {0}, Takes(f, a)
  PROVE  Vector(f, a) \in Lists
BY DEF Vector, Lists

(* Eight bytes each. *)
LEMMA TakesEights ==
  ASSUME NEW fields \in Seq(Plain), \A i \in 1..Len(fields) : Narrowest(fields[i].kind) = 8
  PROVE  Takes(fields, 8 * Len(fields))
<1> DEFINE n == Len(fields)
           owed == [i \in 0..n |-> 8 * (n - i)]
<1>1. n \in Nat
  BY LenProperties
<1>2. owed \in [0..n -> Nat] /\ owed[0] = 8 * n /\ owed[n] = 0
  BY <1>1
<1>3. \A i \in 1..n : owed[i - 1] <= owed[i] + 8
  <2>1. ASSUME NEW i \in 1..n PROVE owed[i - 1] <= owed[i] + 8
    <3>1. i - 1 \in 0..n /\ i \in 0..n /\ i \in Nat
      BY <1>1
    <3>2. owed[i - 1] = 8 * (n - (i - 1)) /\ owed[i] = 8 * (n - i)
      BY <3>1
    <3> HIDE DEF owed
    <3> QED
      BY <1>1, <3>1, <3>2
  <2> QED
    BY <2>1
<1> HIDE DEF owed
<1>4. Spends(owed, fields, 8 * n)
  BY <1>1, <1>2, <1>3 DEF Spends
<1> QED
  BY <1>4 DEF Takes

(* A pair is its first element and then its second. *)
LEMMA Joined ==
  ASSUME NEW a, NEW b
  PROVE  <<a, b>> = <<a>> \o <<b>>
<1> DEFINE V == {a, b}
           s == <<a>>
           t == <<b>>
           u == <<a, b>>
<1>1. /\ s \in Seq(V) /\ t \in Seq(V) /\ u \in Seq(V) /\ Len(s) = 1 /\ Len(t) = 1 /\ Len(u) = 2
      /\ s[1] = a /\ t[1] = b /\ u[1] = a /\ u[2] = b
  OBVIOUS
<1> HIDE DEF V, s, t, u
<1>2. /\ s \o t \in Seq(V) /\ Len(s \o t) = 1 + 1
      /\ \A i \in 1..(1 + 1) : (s \o t)[i] = IF i <= 1 THEN s[i] ELSE t[i - 1]
  <2>1. /\ s \o t \in Seq(V) /\ Len(s \o t) = Len(s) + Len(t)
        /\ \A i \in 1..(Len(s) + Len(t)) :
             (s \o t)[i] = IF i <= Len(s) THEN s[i] ELSE t[i - Len(s)]
    BY <1>1, ConcatProperties
  <2> QED
    BY <1>1, <2>1
<1>3. \A i \in 1..2 : u[i] = (s \o t)[i]
  <2>1. \A i \in 1..2 : i = 1 \/ (i = 2 /\ i - 1 = 1)
    OBVIOUS
  <2> QED
    BY <1>1, <1>2, <2>1
<1>4. u = s \o t
  BY <1>1, <1>2, <1>3, SeqEqual
<1> QED
  BY <1>4 DEF s, t, u

(* The parts that others are made of. *)
LEMMA PartsTake ==
  /\ Vec3 \in Seq(Plain) /\ Takes(Vec3, 24)
  /\ Quat \in Seq(Plain) /\ Takes(Quat, 32)
  /\ <<Id>> \in Seq(Plain) /\ Takes(<<Id>>, 8)
  /\ <<Int64>> \in Seq(Plain) /\ Takes(<<Int64>>, 8)
  /\ <<Bool>> \in Seq(Plain) /\ Takes(<<Bool>>, 1)
  /\ <<Bool, F64>> \in Seq(Plain) /\ Takes(<<Bool, F64>>, 9)
  /\ <<F64, Integer>> \in Seq(Plain) /\ Takes(<<F64, Integer>>, 16)
  /\ GhostRegion \in Seq(Plain) /\ Takes(GhostRegion, 40)
<1>1. /\ <<F64>> \in Seq(Plain) /\ Takes(<<F64>>, 8)
      /\ <<Id>> \in Seq(Plain) /\ Takes(<<Id>>, 8)
      /\ <<Int64>> \in Seq(Plain) /\ Takes(<<Int64>>, 8)
      /\ <<Integer>> \in Seq(Plain) /\ Takes(<<Integer>>, 8)
      /\ <<Bool>> \in Seq(Plain) /\ Takes(<<Bool>>, 1)
  BY FieldsArePlain, TakesOne
<1>2. \A f \in {U64, F64, Integer, Int64, Id} : f \in Plain /\ Narrowest(f.kind) = 8
  BY FieldsArePlain
<1>3. Vec3 \in Seq(Plain) /\ Len(Vec3) = 3 /\ \A i \in 1..3 : Vec3[i] = F64
  BY <1>2 DEF Vec3
<1>4. Quat \in Seq(Plain) /\ Len(Quat) = 4 /\ \A i \in 1..4 : Quat[i] = F64
  BY <1>2 DEF Quat
<1>5. /\ GhostRegion \in Seq(Plain) /\ Len(GhostRegion) = 5
      /\ \A i \in 1..5 : GhostRegion[i] \in {Id, F64}
  BY <1>2 DEF GhostRegion
<1>6. Takes(Vec3, 8 * 3) /\ Takes(Quat, 8 * 4) /\ Takes(GhostRegion, 8 * 5)
  <2>1. Takes(Vec3, 8 * 3)
    BY <1>2, <1>3, TakesEights
  <2>2. Takes(Quat, 8 * 4)
    BY <1>2, <1>4, TakesEights
  <2>3. Takes(GhostRegion, 8 * 5)
    BY <1>2, <1>5, TakesEights
  <2> QED
    BY <2>1, <2>2, <2>3
<1>7. /\ <<Bool>> \o <<F64>> \in Seq(Plain) /\ Takes(<<Bool>> \o <<F64>>, 1 + 8)
      /\ <<F64>> \o <<Integer>> \in Seq(Plain) /\ Takes(<<F64>> \o <<Integer>>, 8 + 8)
  BY <1>1, TakesBoth
<1>8. <<Bool, F64>> = <<Bool>> \o <<F64>> /\ <<F64, Integer>> = <<F64>> \o <<Integer>>
  BY Joined
<1>9. Takes(Vec3, 24) /\ Takes(Quat, 32) /\ Takes(GhostRegion, 40)
  <2>1. 8 * 3 = 24 /\ 8 * 4 = 32 /\ 8 * 5 = 40
    OBVIOUS
  <2> QED
    BY <1>6, <2>1
<1>10. /\ <<Bool, F64>> \in Seq(Plain) /\ Takes(<<Bool, F64>>, 9)
       /\ <<F64, Integer>> \in Seq(Plain) /\ Takes(<<F64, Integer>>, 16)
  <2>1. 1 + 8 = 9 /\ 8 + 8 = 16
    OBVIOUS
  <2> QED
    BY <1>7, <1>8, <2>1
<1> QED
  BY <1>1, <1>3, <1>4, <1>5, <1>9, <1>10

(* Elements take what the codec says that they do. *)
LEMMA ElementsTake ==
  /\ CoverageNode \in Seq(Plain) /\ Takes(CoverageNode, 56)
  /\ ImuSample \in Seq(Plain) /\ Takes(ImuSample, 123)
  /\ FrameRef \in Seq(Plain) /\ Takes(FrameRef, 60)
<1> DEFINE P == Seq(Plain)
           bool == <<Bool>>
           last == <<Bool, F64>>
           pair == <<F64, Integer>>
           one == <<Id>>
<1> HIDE DEF bool, last, pair, one
<1>4. /\ bool \in P /\ Takes(bool, 1) /\ last \in P /\ Takes(last, 9)
      /\ pair \in P /\ Takes(pair, 16) /\ one \in P /\ Takes(one, 8)
  BY PartsTake DEF bool, last, pair, one
<1>1. CoverageNode \in P /\ Takes(CoverageNode, 56)
  <2> DEFINE a == one \o Quat
             b == a \o pair
  <2>1. a \in P /\ Takes(a, 8 + 32)
    BY <1>4, PartsTake, TakesBoth
  <2> HIDE DEF a
  <2>2. b \in P /\ Takes(b, 40 + 16)
    BY <2>1, <1>4, TakesBoth
  <2>3. CoverageNode = b
    BY DEF CoverageNode, one, pair, a
  <2> QED
    BY <2>2, <2>3
<1>2. ImuSample \in P /\ Takes(ImuSample, 123)
  <2> DEFINE a == <<Int64>> \o Vec3
             b == a \o Vec3
             c == b \o bool
             d == c \o Vec3
             e == d \o bool
             f == e \o Quat
             g == f \o last
  <2>1. a \in P /\ Takes(a, 8 + 24)
    BY <1>4, PartsTake, TakesBoth
  <2> HIDE DEF a
  <2>2. b \in P /\ Takes(b, 32 + 24)
    BY <2>1, <1>4, PartsTake, TakesBoth
  <2> HIDE DEF b
  <2>3. c \in P /\ Takes(c, 56 + 1)
    BY <2>2, <1>4, PartsTake, TakesBoth
  <2> HIDE DEF c
  <2>4. d \in P /\ Takes(d, 57 + 24)
    BY <2>3, <1>4, PartsTake, TakesBoth
  <2> HIDE DEF d
  <2>5. e \in P /\ Takes(e, 81 + 1)
    BY <2>4, <1>4, PartsTake, TakesBoth
  <2> HIDE DEF e
  <2>6. f \in P /\ Takes(f, 82 + 32)
    BY <2>5, <1>4, PartsTake, TakesBoth
  <2> HIDE DEF f
  <2>7. g \in P /\ Takes(g, 114 + 9)
    BY <2>6, <1>4, PartsTake, TakesBoth
  <2>8. ImuSample = g
    BY DEF ImuSample, bool, last, a, b, c, d, e, f
  <2> QED
    BY <2>7, <2>8
<1>3. FrameRef \in P /\ Takes(FrameRef, 60)
  <2> DEFINE owed == [i \in 0..8 |-> IF i <= 2 THEN 60 - 8 * i ELSE 8 * (8 - i)]
  <2>1. /\ FrameRef \in P /\ Len(FrameRef) = 8 /\ FrameRef[3] = I32
        /\ \A i \in 1..8 : i # 3 => FrameRef[i] \in {U64, F64, Integer, Int64, Id}
    BY FieldsArePlain DEF FrameRef
  <2>2. owed \in [0..8 -> Nat] /\ owed[0] = 60 /\ owed[8] = 0
    OBVIOUS
  <2>3. \A i \in 1..8 : Narrowest(FrameRef[i].kind) = IF i = 3 THEN 4 ELSE 8
    BY <2>1, FieldsArePlain
  <2>4. \A i \in 1..8 : owed[i - 1] <= owed[i] + IF i = 3 THEN 4 ELSE 8
    <3>1. ASSUME NEW i \in 1..8 PROVE owed[i - 1] <= owed[i] + IF i = 3 THEN 4 ELSE 8
      <4>1. i - 1 \in 0..8 /\ i \in 0..8
        OBVIOUS
      <4> QED
        BY <4>1
    <3> QED
      BY <3>1
  <2> HIDE DEF owed
  <2>5. Spends(owed, FrameRef, 60)
    BY <2>1, <2>2, <2>3, <2>4 DEF Spends
  <2> QED
    BY <2>1, <2>5 DEF Takes
<1> QED
  BY <1>1, <1>2, <1>3

(* What else crosses. *)
LEMMA RecordsArePlain ==
  /\ Status \in Seq(Plain) /\ FramePreview \in Seq(Plain) /\ CapturePlanSpec \in Seq(Plain)
  /\ PoseSample \in Seq(Plain) /\ QualityScore \in Seq(Plain) /\ BurstSpec \in Seq(Plain)
  /\ CaptureGuidance \in Seq(Plain) /\ BuildSpec \in Seq(Plain) /\ BuildProgress \in Seq(Plain)
  /\ EncodeSpec \in Seq(Plain) /\ CameraCapabilities \in Seq(Plain)
  /\ ExportSpec \in Seq(Plain)
<1> USE FieldsArePlain
<1>1. Status \in Seq(Plain) /\ FramePreview \in Seq(Plain) /\ CapturePlanSpec \in Seq(Plain)
  BY DEF Status, FramePreview, CapturePlanSpec
<1>2. QualityScore \in Seq(Plain) /\ BurstSpec \in Seq(Plain) /\ CaptureGuidance \in Seq(Plain)
  BY DEF QualityScore, BurstSpec, CaptureGuidance
<1>3. BuildSpec \in Seq(Plain) /\ EncodeSpec \in Seq(Plain) /\ CameraCapabilities \in Seq(Plain)
  BY DEF BuildSpec, EncodeSpec, CameraCapabilities
<1>4. PoseSample \in Seq(Plain)
  <2>1. <<F64, Bool>> \in Seq(Plain) /\ <<Int64>> \in Seq(Plain)
    OBVIOUS
  <2> QED
    BY <2>1, PartsTake, ConcatProperties DEF PoseSample
<1>5. BuildProgress \in Seq(Plain)
  <2>1. <<Id, I32, F64, Integer, Integer>> \in Seq(Plain)
    OBVIOUS
  <2> QED
    BY <1>1, <2>1, ConcatProperties DEF BuildProgress
<1>6. ExportSpec \in Seq(Plain)
  <2>1. <<String, Bool>> \in Seq(Plain)
    OBVIOUS
  <2> QED
    BY <1>3, <2>1, ConcatProperties DEF ExportSpec
<1> QED
  BY <1>1, <1>2, <1>3, <1>4, <1>5, <1>6

(* Elements of which the codec counts on a byte alone. *)
LEMMA ElementsTakeAByte ==
  /\ Candidate \in Seq(Plain) /\ Takes(Candidate, 1)
  /\ CoverageGap \in Seq(Plain) /\ Takes(CoverageGap, 1)
  /\ ProjectSummary \in Seq(Plain) /\ Takes(ProjectSummary, 1)
<1> DEFINE P == Seq(Plain)
<1>1. Candidate \in P /\ Takes(Candidate, 1)
  <2> DEFINE a == <<Id, Id>>
             b == a \o FrameRef
             c == b \o PoseSample
             d == c \o QualityScore
             one == <<Id>>
  <2>1. one \in P /\ Takes(one, 8)
    BY PartsTake
  <2>2. a = one \o one
    BY Joined
  <2> HIDE DEF one, a
  <2>7. a \in P /\ Takes(a, 8 + 8)
    BY <2>1, <2>2, TakesBoth
  <2>3. b \in P /\ Takes(b, 16 + 60)
    BY <2>7, ElementsTake, TakesBoth
  <2> HIDE DEF b
  <2>4. c \in P /\ Takes(c, 76 + 0)
    BY <2>3, RecordsArePlain, TakesNothing, TakesBoth
  <2> HIDE DEF c
  <2>5. d \in P /\ Takes(d, 76 + 0)
    BY <2>4, RecordsArePlain, TakesNothing, TakesBoth
  <2>6. Candidate = d
    BY DEF Candidate, a, b, c
  <2> HIDE DEF d
  <2> QED
    BY <2>5, <2>6, TakesLess
<1>2. CoverageGap \in P /\ Takes(CoverageGap, 1)
  <2> DEFINE one == <<F64>>
  <2>1. one \in P
    BY FieldsArePlain
  <2>2. CoverageGap = Quat \o one
    BY DEF CoverageGap
  <2> HIDE DEF one
  <2>4. Takes(one, 0)
    BY <2>1, TakesNothing
  <2>3. Quat \o one \in P /\ Takes(Quat \o one, 32 + 0)
    BY <2>1, <2>4, PartsTake, TakesBoth
  <2>5. CoverageGap \in P /\ Takes(CoverageGap, 32)
    BY <2>2, <2>3
  <2> QED
    BY <2>5, TakesLess
<1>3. ProjectSummary \in P /\ Takes(ProjectSummary, 1)
  <2> DEFINE owed == [i \in 0..9 |-> IF i = 0 THEN 1 ELSE 0]
  <2>1. ProjectSummary \in P /\ Len(ProjectSummary) = 9
    BY FieldsArePlain DEF ProjectSummary
  <2>2. owed \in [0..9 -> Nat] /\ owed[0] = 1 /\ owed[9] = 0
    OBVIOUS
  <2>3. \A i \in 1..9 : owed[i - 1] <= 1 /\ owed[i - 1] \in Nat /\ owed[i] \in Nat
    OBVIOUS
  <2> HIDE DEF owed
  <2>4. \A i \in 1..9 : owed[i - 1] <= owed[i] + Narrowest(ProjectSummary[i].kind)
    BY <2>3, NarrowestIsANumber
  <2>5. Spends(owed, ProjectSummary, 1)
    BY <2>1, <2>2, <2>4 DEF Spends
  <2> QED
    BY <2>1, <2>5 DEF Takes
<1> QED
  BY <1>1, <1>2, <1>3

(* The lists there are. *)
LEMMA ListsThatCross ==
  /\ Vector(CoverageNode, 56) \in Contract /\ Vector(ImuSample, 123) \in Contract
  /\ Vector(<<Id>>, 8) \in Contract /\ Vector(FrameRef, 60) \in Contract
  /\ Vector(GhostRegion, 40) \in Contract /\ Vector(Candidate, 1) \in Contract
  /\ Vector(CoverageGap, 1) \in Contract /\ Vector(ProjectSummary, 1) \in Contract
<1>1. /\ Vector(CoverageNode, 56) \in Lists /\ Vector(ImuSample, 123) \in Lists
      /\ Vector(FrameRef, 60) \in Lists
  BY ElementsTake, ListsAreLists
<1>2. Vector(GhostRegion, 40) \in Lists
  BY PartsTake, ListsAreLists
<1>3. Vector(<<Id>>, 8) \in Lists
  <2> DEFINE one == <<Id>>
  <2>1. one \in Seq(Plain) /\ Takes(one, 8)
    BY PartsTake
  <2> HIDE DEF one
  <2>2. Vector(one, 8) \in Lists
    BY <2>1, ListsAreLists
  <2> QED
    BY <2>2 DEF one
<1>4. /\ Vector(Candidate, 1) \in Lists /\ Vector(CoverageGap, 1) \in Lists
      /\ Vector(ProjectSummary, 1) \in Lists
  BY ElementsTakeAByte, ListsAreLists
<1> QED
  BY <1>1, <1>2, <1>3, <1>4 DEF Contract

(* A call whose contract the codec can carry. *)
Contracted(c) == c.takes \in Seq(Contract) /\ c.answers \in Seq(Contract)

(* What every call takes and answers is fields and lists. *)
LEMMA CallsAreContracts ==
  \A c \in SessionCalls \cup ReviewCalls \cup BuildCalls \cup ProjectCalls : Contracted(c)
<1> DEFINE C == Seq(Contract)
<1>1. \A s \in Seq(Plain) : s \in C
  <2>1. Plain \subseteq Contract
    BY DEF Contract
  <2> QED
    BY <2>1, SeqMonotonic
<1>2. /\ Bool \in Contract /\ I32 \in Contract /\ U64 \in Contract /\ F64 \in Contract
      /\ Integer \in Contract /\ Int64 \in Contract /\ Id \in Contract /\ String \in Contract
  BY FieldsArePlain DEF Contract
<1>3. \A f, g, h \in Contract : <<f>> \in C /\ <<f, g>> \in C /\ <<f, g, h>> \in C
  OBVIOUS
<1>4. \A s, t \in C : s \o t \in C
  BY ConcatProperties
<1>5. <<>> \in C
  BY EmptySeq
<1>6. /\ CoverageNode \in C /\ ImuSample \in C /\ FrameRef \in C /\ GhostRegion \in C
      /\ Status \in C /\ FramePreview \in C /\ CapturePlanSpec \in C
      /\ PoseSample \in C /\ QualityScore \in C /\ BurstSpec \in C
      /\ CaptureGuidance \in C /\ BuildSpec \in C /\ BuildProgress \in C
      /\ EncodeSpec \in C /\ CameraCapabilities \in C /\ ExportSpec \in C
  BY <1>1, PartsTake, ElementsTake, RecordsArePlain
<1>7. CapturePlan \in C
  BY <1>3, <1>4, <1>6, ListsThatCross DEF CapturePlan
<1>8. PanoramaRef \in C
  <2>1. <<Id, I32, Integer, Integer, Integer, Vector(FrameRef, 60)>> \in C
    BY <1>2, ListsThatCross
  <2> QED
    BY <1>4, <1>6, <2>1 DEF PanoramaRef
<1>9. CoverageState \in C
  BY <1>2, ListsThatCross DEF CoverageState
<1>10. GhostReport \in C
  BY <1>3, ListsThatCross DEF GhostReport
<1> HIDE DEF C
<1>11. \A a, b \in C : Call(a, b).takes \in C /\ Call(a, b).answers \in C
  BY DEF Call
<1>12. \A c \in SessionCalls : c.takes \in C /\ c.answers \in C
  <2>1. /\ <<Id>> \in C /\ <<I32>> \in C /\ <<Vector(ImuSample, 123)>> \in C
    BY <1>2, <1>3, ListsThatCross
  <2>2. /\ <<Id>> \o CapturePlanSpec \in C /\ <<Id>> \o BurstSpec \in C
        /\ <<Id>> \o FrameRef \o PoseSample \in C
    BY <1>4, <1>6, <2>1
  <2> QED
    BY <1>5, <1>6, <1>7, <1>11, <2>1, <2>2 DEF SessionCalls
<1>13. \A c \in ReviewCalls : c.takes \in C /\ c.answers \in C
  <2>1. /\ <<Id>> \in C /\ <<Vector(Candidate, 1)>> \in C /\ <<Id, Id, Integer>> \in C
        /\ <<Id, Bool>> \in C
    BY <1>2, <1>3, ListsThatCross
  <2> QED
    BY <1>5, <1>6, <1>9, <1>11, <2>1 DEF ReviewCalls
<1>14. \A c \in BuildCalls : c.takes \in C /\ c.answers \in C
  <2>1. /\ <<Id>> \in C /\ <<Vector(CoverageGap, 1)>> \in C /\ <<Id, Vector(<<Id>>, 8)>> \in C
    BY <1>2, <1>3, ListsThatCross
  <2>2. <<Id>> \o BuildSpec \in C
    BY <1>4, <1>6, <2>1
  <2> QED
    BY <1>5, <1>6, <1>8, <1>10, <1>11, <2>1, <2>2 DEF BuildCalls
<1>15. \A c \in ProjectCalls : c.takes \in C /\ c.answers \in C
  <2>1. /\ <<Id>> \in C /\ <<String>> \in C /\ <<Vector(ProjectSummary, 1)>> \in C
        /\ <<Id, Id>> \in C /\ <<Id, Id, Id>> \in C
    BY <1>2, <1>3, ListsThatCross
  <2>2. <<Id, Id>> \o ExportSpec \in C
    BY <1>4, <1>6, <2>1
  <2> QED
    BY <1>5, <1>11, <2>1, <2>2 DEF ProjectCalls
<1> QED
  BY <1>12, <1>13, <1>14, <1>15 DEF Contracted, C

-----------------------------------------------------------------------------
(* Where each sequence comes to lie, once flattened. *)
LaysOut(mark, seqs, flat) ==
  /\ mark \in [0..Len(seqs) -> 0..Len(flat)]
  /\ mark[0] = 0 /\ mark[Len(seqs)] = Len(flat)
  /\ \A i \in 1..Len(seqs) :
       /\ mark[i] = mark[i - 1] + Len(seqs[i])
       /\ \A k \in 1..Len(seqs[i]) : flat[mark[i - 1] + k] = seqs[i][k]

(* What is flattened has a mark where each sequence begins. *)
LEMMA FlattenedLaysOut ==
  ASSUME NEW V, NEW seqs \in Seq(Seq(V))
  PROVE  FlattenSeq(seqs) \in Seq(V) /\ \E mark : LaysOut(mark, seqs, FlattenSeq(seqs))
<1> DEFINE n == Len(seqs)
           flat == FlattenSeq(seqs)
<1>1. n \in Nat /\ \A i \in 1..n : seqs[i] \in Seq(V) /\ Len(seqs[i]) \in Nat
  BY LenProperties, ElementOfSeq
<1>2. PICK g \in [0..n -> Seq(V)] : Flattens(g, seqs, flat)
  BY FlattensInOrder
<1>3. \A i \in 0..n : g[i] \in Seq(V) /\ Len(g[i]) \in Nat
  BY <1>2, LenProperties
<1>4. g[0] = <<>> /\ flat = g[n] /\ \A i \in 1..n : g[i] = g[i - 1] \o seqs[i]
  BY <1>2 DEF Flattens
<1>5. \A i \in 1..n : i \in 0..n /\ i - 1 \in 0..n
  BY <1>1
<1> DEFINE m(i) == Len(g[i])
           l(i) == Len(seqs[i])
<1>6. ASSUME NEW i \in 1..n
      PROVE  /\ m(i) = m(i - 1) + l(i)
             /\ \A k \in 1..m(i - 1) : g[i][k] = g[i - 1][k]
             /\ \A k \in 1..l(i) : g[i][m(i - 1) + k] = seqs[i][k]
  <2> DEFINE s == g[i - 1]
             t == seqs[i]
             u == s \o t
  <2>1. s \in Seq(V) /\ t \in Seq(V) /\ g[i] = u
    BY <1>1, <1>3, <1>4, <1>5
  <2> HIDE DEF s, t
  <2>2. /\ Len(u) = Len(s) + Len(t) /\ Len(s) \in Nat /\ Len(t) \in Nat
        /\ \A k \in 1..(Len(s) + Len(t)) : u[k] = IF k <= Len(s) THEN s[k] ELSE t[k - Len(s)]
    BY <2>1, ConcatProperties, LenProperties
  <2> HIDE DEF u
  <2>3. \A k \in 1..Len(s) : k \in 1..(Len(s) + Len(t)) /\ k <= Len(s)
    BY <2>2
  <2>4. \A k \in 1..Len(t) : /\ Len(s) + k \in 1..(Len(s) + Len(t)) /\ ~(Len(s) + k <= Len(s))
                             /\ (Len(s) + k) - Len(s) = k
    BY <2>2
  <2>5. \A k \in 1..Len(t) : u[Len(s) + k] = t[k]
    BY <2>2, <2>4
  <2>6. \A k \in 1..Len(s) : u[k] = s[k]
    BY <2>2, <2>3
  <2> QED
    BY <2>1, <2>2, <2>5, <2>6 DEF s, t
<1> DEFINE Keeps(j) == \A i \in 0..j : m(i) <= m(j) /\ \A k \in 1..m(i) : g[j][k] = g[i][k]
           Good == {j \in Nat : j <= n => Keeps(j)}
<1>7. 0 \in Good
  <2>1. \A i \in 0..0 : i = 0
    OBVIOUS
  <2>2. m(0) \in Nat /\ m(0) <= m(0)
    BY <1>1, <1>3
  <2> QED
    BY <2>1, <2>2
<1>8. ASSUME NEW j \in Good PROVE j + 1 \in Good
  <2>1. CASE j + 1 <= n
    <3>1. j \in Nat /\ j <= n /\ j + 1 \in 1..n /\ (j + 1) - 1 = j /\ j \in 0..n /\ Keeps(j)
      BY <1>1, <2>1
    <3>2. m(j + 1) = m(j) + l(j + 1) /\ \A k \in 1..m(j) : g[j + 1][k] = g[j][k]
      <4> DEFINE i == j + 1
      <4>1. i \in 1..n /\ i - 1 = j
        BY <3>1
      <4> HIDE DEF i, m, l
      <4>2. m(i) = m(i - 1) + l(i) /\ \A k \in 1..m(i - 1) : g[i][k] = g[i - 1][k]
        BY <1>6, <4>1
      <4>3. m(i) = m(j) + l(i) /\ \A k \in 1..m(j) : g[i][k] = g[j][k]
        BY <4>1, <4>2
      <4> QED
        BY <4>3 DEF i
    <3>3. l(j + 1) \in Nat /\ m(j) \in Nat /\ m(j + 1) \in Nat
      BY <1>1, <1>3, <1>5, <3>1
    <3>4. ASSUME NEW i \in 0..(j + 1)
          PROVE  m(i) <= m(j + 1) /\ \A k \in 1..m(i) : g[j + 1][k] = g[i][k]
      <4>1. CASE i = j + 1
        BY <3>3, <4>1
      <4>2. CASE i # j + 1
        <5>1. i \in 0..j /\ i \in 0..n
          BY <1>1, <3>1, <4>2
        <5>2. m(i) <= m(j) /\ m(i) \in Nat /\ \A k \in 1..m(i) : g[j][k] = g[i][k]
          BY <1>3, <3>1, <5>1
        <5> HIDE DEF m, l
        <5>3. \A k \in 1..m(i) : k \in 1..m(j)
          BY <3>3, <5>2
        <5>4. m(i) <= m(j + 1)
          BY <3>2, <3>3, <5>2
        <5> QED
          BY <3>2, <5>2, <5>3, <5>4
      <4> QED
        BY <4>1, <4>2
    <3> HIDE DEF m, l
    <3>5. Keeps(j + 1)
      BY <3>4
    <3> HIDE DEF Keeps
    <3> QED
      BY <3>1, <3>5
  <2>2. CASE ~(j + 1 <= n)
    BY <2>2
  <2> QED
    BY <2>1, <2>2
<1>9. Keeps(n)
  <2>1. Good \in SUBSET Nat
    OBVIOUS
  <2>2. n \in Good
    <3> HIDE DEF Good
    <3> QED
      BY <1>1, <1>7, <1>8, <2>1, InductiveSet
  <2> HIDE DEF Keeps
  <2> QED
    BY <1>1, <2>2
<1> DEFINE mark == [i \in 0..n |-> m(i)]
<1>10. /\ mark[0] = 0 /\ mark[n] = Len(flat) /\ \A i \in 0..n : mark[i] = m(i)
       /\ mark \in [0..n -> 0..Len(flat)]
  <2>1. 0 \in 0..n /\ n \in 0..n /\ m(0) = 0 /\ m(n) = Len(flat) /\ m(n) \in Nat
    BY <1>1, <1>3, <1>4
  <2>2. \A i \in 0..n : m(i) \in 0..Len(flat)
    BY <1>3, <1>9, <2>1
  <2> QED
    BY <2>1, <2>2
<1> HIDE DEF mark
<1>11. ASSUME NEW i \in 1..n
       PROVE  /\ mark[i] = mark[i - 1] + l(i)
              /\ \A k \in 1..l(i) : flat[mark[i - 1] + k] = seqs[i][k]
  <2>1. mark[i] = m(i) /\ mark[i - 1] = m(i - 1)
    BY <1>5, <1>10
  <2>2. m(i) \in Nat /\ m(i - 1) \in Nat /\ l(i) \in Nat /\ i \in 0..n
    BY <1>1, <1>3, <1>5
  <2>3. \A k \in 1..l(i) : m(i - 1) + k \in 1..m(i)
    <3>1. m(i) = m(i - 1) + l(i)
      BY <1>6
    <3> HIDE DEF m, l
    <3> QED
      BY <2>2, <3>1
  <2>4. \A k \in 1..m(i) : flat[k] = g[i][k]
    BY <1>4, <1>9, <2>2
  <2> QED
    BY <1>6, <2>1, <2>3, <2>4
<1> HIDE DEF flat
<1>12. LaysOut(mark, seqs, flat)
  BY <1>10, <1>11 DEF LaysOut
<1>13. flat \in Seq(V)
  BY <1>1, <1>3, <1>4
<1> QED
  BY <1>12, <1>13 DEF flat

-----------------------------------------------------------------------------
(* Which numbers spell which fields: those of x after the a-th, up to the   *)
(* b-th.  A list is a count and then so many times its elements' fields.    *)
Scalars == {"bool", "i32", "u64", "f64", "integer", "int64", "id"}
Texts == {"string", "bytes"}

SpellsField(x, a, b, f) ==
  \/ /\ f.kind \in Scalars /\ b = a + 1
     /\ x[b].kind = f.kind /\ x[b].width = Width(f.kind)
  \/ /\ f.kind \in Texts /\ b = a + 2
     /\ x[a + 1].kind = "count" /\ x[a + 1].width = 4
     /\ x[b].kind = "raw" /\ x[a + 1].claim = x[b].width

SpellsFields(x, a, b, fields) ==
  /\ a <= b
  /\ \E mark \in [0..Len(fields) -> a..b] :
       /\ mark[0] = a /\ mark[Len(fields)] = b
       /\ \A i \in 1..Len(fields) : SpellsField(x, mark[i - 1], mark[i], fields[i])

Copies(n, fields) == FlattenSeq([i \in 1..n |-> fields])

SpellsOne(x, a, b, f) ==
  IF f.kind = "count"
    THEN /\ x[a + 1].kind = "count" /\ x[a + 1].width = 4 /\ x[a + 1].claim \in Nat
         /\ SpellsFields(x, a + 1, b, Copies(x[a + 1].claim, f.of))
    ELSE SpellsField(x, a, b, f)

Marks(mark, x, a, b, fields) ==
  /\ a <= b /\ mark \in [0..Len(fields) -> a..b]
  /\ mark[0] = a /\ mark[Len(fields)] = b
  /\ \A i \in 1..Len(fields) : SpellsOne(x, mark[i - 1], mark[i], fields[i])

Spells(x, a, b, fields) == \E mark : Marks(mark, x, a, b, fields)

(* Fields that hold no list are spelled one number after another. *)
LEMMA PlainIsSpelled ==
  ASSUME NEW fields \in Seq(Plain), NEW x, NEW a, NEW b
  PROVE  Spells(x, a, b, fields) <=> SpellsFields(x, a, b, fields)
<1>1. \A i \in 1..Len(fields) : fields[i].kind # "count"
  <2>1. \A i \in 1..Len(fields) : fields[i] \in Plain
    BY ElementOfSeq
  <2> QED
    BY <2>1 DEF Plain, PlainKinds
<1>2. \A mark : (\A i \in 1..Len(fields) : SpellsOne(x, mark[i - 1], mark[i], fields[i]))
            <=> (\A i \in 1..Len(fields) : SpellsField(x, mark[i - 1], mark[i], fields[i]))
  BY <1>1 DEF SpellsOne
<1> QED
  BY <1>2 DEF Spells, Marks, SpellsFields

(* Fields spelled one after the other are spelled together. *)
LEMMA SpellsBoth ==
  ASSUME NEW V, NEW s \in Seq(V), NEW t \in Seq(V), NEW x,
         NEW a \in Nat, NEW b \in Nat, NEW c \in Nat, Spells(x, a, b, s), Spells(x, b, c, t)
  PROVE  Spells(x, a, c, s \o t)
<1> DEFINE both == s \o t
           m == Len(s)
           n == Len(t)
<1>1. m \in Nat /\ n \in Nat
  BY LenProperties
<1>2. /\ Len(both) = m + n
      /\ \A i \in 1..(m + n) : both[i] = IF i <= m THEN s[i] ELSE t[i - m]
  BY ConcatProperties
<1> HIDE DEF both
<1>3. PICK f : Marks(f, x, a, b, s)
  BY DEF Spells
<1>4. PICK g : Marks(g, x, b, c, t)
  BY DEF Spells
<1>5. /\ f \in [0..m -> a..b] /\ g \in [0..n -> b..c] /\ f[0] = a /\ f[m] = b
      /\ g[0] = b /\ g[n] = c
      /\ \A i \in 1..m : SpellsOne(x, f[i - 1], f[i], s[i])
      /\ \A i \in 1..n : SpellsOne(x, g[i - 1], g[i], t[i])
  BY <1>3, <1>4 DEF Marks
<1> HIDE DEF m, n
<1> DEFINE h == [i \in 0..(m + n) |-> IF i <= m THEN f[i] ELSE g[i - m]]
<1>6. \A i \in 0..(m + n) : /\ i <= m => i \in 0..m
                            /\ ~(i <= m) => i - m \in 0..n /\ i - m \in 1..n
  BY <1>1
<1>7. a..b \subseteq a..c /\ b..c \subseteq a..c
  <2>1. a <= b /\ b <= c
    BY <1>3, <1>4 DEF Marks
  <2> QED
    BY <2>1
<1>8. h \in [0..(m + n) -> a..c]
  BY <1>5, <1>6, <1>7
<1>9. h[0] = a
  BY <1>1, <1>5
<1>10. h[m + n] = c
  <2>1. CASE n = 0
    BY <1>1, <1>5, <2>1
  <2>2. CASE n # 0
    <3>1. m + n \in 0..(m + n) /\ ~(m + n <= m) /\ (m + n) - m = n
      BY <1>1, <2>2
    <3> QED
      BY <1>5, <3>1
  <2> QED
    BY <2>1, <2>2
<1>11. ASSUME NEW i \in 1..(m + n) PROVE SpellsOne(x, h[i - 1], h[i], both[i])
  <2>1. i \in Nat /\ i \in 0..(m + n) /\ i - 1 \in 0..(m + n)
    BY <1>1
  <2>2. CASE i <= m
    <3>1. i \in 1..m /\ i - 1 <= m
      BY <1>1, <2>1, <2>2
    <3>2. h[i - 1] = f[i - 1] /\ h[i] = f[i] /\ both[i] = s[i]
      BY <1>2, <2>1, <2>2, <3>1
    <3> QED
      BY <1>5, <3>1, <3>2
  <2>3. CASE ~(i <= m)
    <3>1. i - m \in 1..n /\ (i - 1) - m = (i - m) - 1
      BY <1>1, <1>6, <2>1, <2>3
    <3>2. h[i] = g[i - m] /\ both[i] = t[i - m]
      BY <1>2, <2>1, <2>3
    <3>3. h[i - 1] = g[(i - m) - 1]
      <4>1. CASE i - 1 <= m
        <5>1. i - 1 = m /\ (i - m) - 1 = 0
          BY <1>1, <2>1, <2>3, <4>1
        <5> QED
          BY <1>5, <2>1, <5>1
      <4>2. CASE ~(i - 1 <= m)
        BY <2>1, <3>1, <4>2
      <4> QED
        BY <4>1, <4>2
    <3> QED
      BY <1>5, <3>1, <3>2, <3>3
  <2> QED
    BY <2>2, <2>3
<1> HIDE DEF h
<1>12. Marks(h, x, a, c, both)
  <2>1. a <= c
    BY <1>3, <1>4 DEF Marks
  <2> QED
    BY <2>1, <1>2, <1>8, <1>9, <1>10, <1>11 DEF Marks
<1> QED
  BY <1>12 DEF Spells, both

(* What rises step by step rises. *)
LEMMA RisingStays ==
  ASSUME NEW n \in Nat, NEW mark, \A i \in 0..n : mark[i] \in Nat,
         \A i \in 1..n : mark[i - 1] <= mark[i]
  PROVE  \A i \in 0..n : \A j \in i..n : mark[i] <= mark[j]
<1> DEFINE Over(j) == \A i \in 0..j : mark[i] <= mark[j]
           Good == {j \in Nat : j <= n => Over(j)}
<1>1. 0 \in Good
  <2>1. \A i \in 0..0 : i = 0
    OBVIOUS
  <2>2. mark[0] \in Nat
    OBVIOUS
  <2> QED
    BY <2>1, <2>2
<1>2. ASSUME NEW j \in Good PROVE j + 1 \in Good
  <2>1. CASE j + 1 <= n
    <3>1. j \in Nat /\ j \in 0..n /\ j + 1 \in 1..n /\ j + 1 \in 0..n /\ (j + 1) - 1 = j /\ Over(j)
      BY <2>1
    <3>2. mark[j] <= mark[j + 1] /\ mark[j] \in Nat /\ mark[j + 1] \in Nat
      BY <3>1
    <3>3. \A i \in 0..(j + 1) : i = j + 1 \/ (i \in 0..j /\ mark[i] \in Nat)
      BY <3>1
    <3>4. Over(j + 1)
      BY <3>1, <3>2, <3>3
    <3> HIDE DEF Over
    <3> QED
      BY <3>1, <3>4
  <2>2. CASE ~(j + 1 <= n)
    BY <2>2
  <2> QED
    BY <2>1, <2>2
<1>3. \A j \in Nat : j \in Good
  <2>1. Good \in SUBSET Nat
    OBVIOUS
  <2> HIDE DEF Good
  <2> QED
    BY <1>1, <1>2, <2>1, InductiveSet
<1>4. ASSUME NEW i \in 0..n, NEW j \in i..n PROVE mark[i] <= mark[j]
  <2>1. j \in Nat /\ j <= n /\ i \in 0..j
    OBVIOUS
  <2>2. Over(j)
    BY <1>3, <2>1
  <2> QED
    BY <2>1, <2>2
<1> QED
  BY <1>4

(* The first field is spelled, and then the others. *)
LEMMA SpellsFirst ==
  ASSUME NEW V, NEW fields \in Seq(V), fields # <<>>, NEW x,
         NEW a \in Nat, NEW c \in Nat, Spells(x, a, c, fields)
  PROVE  \E b \in a..c : SpellsOne(x, a, b, Head(fields)) /\ Spells(x, b, c, Tail(fields))
<1> DEFINE n == Len(fields)
           rest == Tail(fields)
<1>1. n \in Nat /\ n # 0 /\ Len(rest) = n - 1 /\ Head(fields) = fields[1]
      /\ \A i \in 1..(n - 1) : rest[i] = fields[i + 1]
  BY LenProperties, EmptySeq, HeadTailProperties
<1> HIDE DEF rest
<1>2. PICK mark : Marks(mark, x, a, c, fields)
  BY DEF Spells
<1>3. /\ mark \in [0..n -> a..c] /\ mark[0] = a /\ mark[n] = c
      /\ \A i \in 1..n : SpellsOne(x, mark[i - 1], mark[i], fields[i])
  BY <1>2 DEF Marks
<1> HIDE DEF n
<1>4. 1 \in 1..n /\ 1 \in 0..n /\ 1 - 1 = 0
  BY <1>1
<1> DEFINE b == mark[1]
<1>5. b \in a..c /\ SpellsOne(x, a, b, fields[1])
  BY <1>3, <1>4
(* No field ends before it begins. *)
<1>6. \A i \in 1..n : mark[i - 1] <= mark[i]
  <2>1. ASSUME NEW i \in 1..n PROVE mark[i - 1] <= mark[i]
    <3> DEFINE p == mark[i - 1]
               q == mark[i]
               f == fields[i]
    <3>1. SpellsOne(x, p, q, f) /\ i - 1 \in 0..n /\ i \in 0..n
      BY <1>1, <1>3
    <3>2. p \in Nat /\ q \in Nat
      BY <1>3, <3>1
    <3> HIDE DEF p, q, f
    <3>3. CASE f.kind = "count"
      <4>1. p + 1 <= q
        BY <3>1, <3>3 DEF SpellsOne, SpellsFields
      <4> QED
        BY <3>2, <4>1 DEF p, q
    <3>4. CASE f.kind # "count"
      <4>1. q = p + 1 \/ q = p + 2
        BY <3>1, <3>4 DEF SpellsOne, SpellsField
      <4> QED
        BY <3>2, <4>1 DEF p, q
    <3> QED
      BY <3>3, <3>4
  <2> QED
    BY <2>1
<1>7. \A i \in 0..n : mark[i] \in Nat
  BY <1>3
<1>8. \A i \in 0..n : 1 <= i => b <= mark[i]
  <2>1. \A i \in 0..n : \A j \in i..n : mark[i] <= mark[j]
    BY <1>1, <1>6, <1>7, RisingStays
  <2> QED
    BY <1>4, <2>1
<1> DEFINE tail == [i \in 0..(n - 1) |-> mark[i + 1]]
<1>9. \A i \in 0..(n - 1) : i + 1 \in 0..n /\ 1 <= i + 1
  BY <1>1
<1>10. b \in Nat /\ b <= c /\ tail \in [0..(n - 1) -> b..c]
  <2>1. b \in Nat /\ b <= c
    BY <1>5
  <2>2. \A i \in 0..(n - 1) : mark[i + 1] \in b..c
    <3>1. \A i \in 0..n : mark[i] \in a..c /\ (1 <= i => b <= mark[i])
      BY <1>3, <1>8
    <3> HIDE DEF b
    <3>2. \A i \in 0..n : 1 <= i => mark[i] \in b..c
      BY <1>7, <2>1, <3>1
    <3> QED
      BY <1>9, <3>2
  <2> QED
    BY <2>1, <2>2
<1>11. tail[0] = b /\ tail[n - 1] = c
  <2>1. 0 \in 0..(n - 1) /\ n - 1 \in 0..(n - 1) /\ 0 + 1 = 1 /\ (n - 1) + 1 = n
    BY <1>1
  <2> QED
    BY <1>3, <2>1
<1>12. ASSUME NEW i \in 1..(n - 1) PROVE SpellsOne(x, tail[i - 1], tail[i], rest[i])
  <2>1. i + 1 \in 1..n /\ i \in 0..(n - 1) /\ i - 1 \in 0..(n - 1) /\ (i - 1) + 1 = (i + 1) - 1
    BY <1>1
  <2>2. tail[i] = mark[i + 1] /\ tail[i - 1] = mark[(i + 1) - 1] /\ rest[i] = fields[i + 1]
    BY <1>1, <2>1
  <2> QED
    BY <1>3, <2>1, <2>2
<1> HIDE DEF tail, b
<1>13. Marks(tail, x, b, c, rest)
  BY <1>1, <1>10, <1>11, <1>12 DEF Marks
<1> QED
  BY <1>1, <1>5, <1>13 DEF Spells, rest

(* Copies of the fields of an element are fields. *)
LEMMA CopiesArePlain ==
  ASSUME NEW n \in Nat, NEW fields \in Seq(Plain)
  PROVE  Copies(n, fields) \in Seq(Plain)
<1> DEFINE seqs == [i \in 1..n |-> fields]
           V == Seq(Plain)
<1>1. seqs \in Seq(V)
  BY DEF V
<1> HIDE DEF seqs
<1>2. FlattenSeq(seqs) \in Seq(Plain)
  BY <1>1, FlattenedLaysOut DEF V
<1> QED
  BY <1>2 DEF Copies, seqs

(* The same numbers spell the same fields elsewhere. *)
SameNumber(m, n) ==
  n.kind = m.kind /\ n.width = m.width /\ (m.kind = "count" => n.claim = m.claim)

Alike(x, a, b, y, c) == \A i \in 1..(b - a) : SameNumber(x[a + i], y[c + i])

(* What spells a field spells it wherever else it comes to lie. *)
LEMMA FieldElsewhere ==
  ASSUME NEW a \in Nat, NEW b \in Nat, NEW c \in Nat, NEW x, NEW y, Alike(x, a, b, y, c),
         NEW p \in a..b, NEW q \in a..b, NEW f, SpellsField(x, p, q, f)
  PROVE  SpellsField(y, c + (p - a), c + (q - a), f)
<1> DEFINE z(i) == c + (i - a)
<1>1. \A i \in a..b : i # a => SameNumber(x[i], y[z(i)])
  <2>1. ASSUME NEW i \in a..b, i # a PROVE SameNumber(x[i], y[z(i)])
    <3> DEFINE k == i - a
    <3>1. k \in 1..(b - a) /\ a + k = i
      BY <2>1
    <3>2. z(i) = c + k
      OBVIOUS
    <3> HIDE DEF k, z
    <3> QED
      BY <3>1, <3>2 DEF Alike
  <2> QED
    BY <2>1
<1>2. q = p + 1 => q # a /\ z(q) = z(p) + 1
  OBVIOUS
<1>3. q = p + 2 => /\ q # a /\ z(q) = z(p) + 2 /\ p + 1 # a /\ p + 1 \in a..b
                   /\ z(p + 1) = z(p) + 1
  OBVIOUS
<1> HIDE DEF z
<1>4. CASE f.kind \in Scalars /\ q = p + 1 /\ x[q].kind = f.kind /\ x[q].width = Width(f.kind)
  <2>1. SameNumber(x[q], y[z(q)])
    BY <1>1, <1>2, <1>4
  <2>2. SpellsField(y, z(p), z(q), f)
    BY <1>2, <1>4, <2>1 DEF SpellsField, SameNumber
  <2> QED
    BY <2>2 DEF z
<1>5. CASE /\ f.kind \in Texts /\ q = p + 2
           /\ x[p + 1].kind = "count" /\ x[p + 1].width = 4
           /\ x[q].kind = "raw" /\ x[p + 1].claim = x[q].width
  <2>1. SameNumber(x[q], y[z(q)]) /\ SameNumber(x[p + 1], y[z(p + 1)])
    BY <1>1, <1>3, <1>5
  <2>2. SpellsField(y, z(p), z(q), f)
    BY <1>3, <1>5, <2>1 DEF SpellsField, SameNumber
  <2> QED
    BY <2>2 DEF z
<1> QED
  BY <1>4, <1>5 DEF SpellsField

(* So does what spells fields, *)
LEMMA FieldsElsewhere ==
  ASSUME NEW a \in Nat, NEW b \in Nat, NEW c \in Nat, NEW x, NEW y, Alike(x, a, b, y, c),
         NEW p \in a..b, NEW q \in a..b, NEW V, NEW fields \in Seq(V), SpellsFields(x, p, q, fields)
  PROVE  SpellsFields(y, c + (p - a), c + (q - a), fields)
<1> DEFINE n == Len(fields)
           P == c + (p - a)
           Q == c + (q - a)
<1>1. n \in Nat
  BY LenProperties
<1>2. PICK mark \in [0..n -> p..q] :
        /\ mark[0] = p /\ mark[n] = q
        /\ \A i \in 1..n : SpellsField(x, mark[i - 1], mark[i], fields[i])
  BY DEF SpellsFields
<1>3. p <= q /\ P <= Q /\ P \in Nat /\ Q \in Nat
  BY DEF SpellsFields
<1> HIDE DEF n
<1>4. \A i \in 0..n : mark[i] \in a..b /\ c + (mark[i] - a) \in P..Q
  <2>1. \A m \in p..q : m \in a..b /\ c + (m - a) \in P..Q
    OBVIOUS
  <2> QED
    BY <1>2, <2>1
<1> DEFINE moved == [i \in 0..n |-> c + (mark[i] - a)]
<1>5. moved \in [0..n -> P..Q] /\ moved[0] = P /\ moved[n] = Q
  BY <1>1, <1>2, <1>4
<1>6. ASSUME NEW i \in 1..n PROVE SpellsField(y, moved[i - 1], moved[i], fields[i])
  <2>1. i \in 0..n /\ i - 1 \in 0..n
    BY <1>1
  <2>2. SpellsField(y, c + (mark[i - 1] - a), c + (mark[i] - a), fields[i])
    BY <1>2, <1>4, <2>1, FieldElsewhere
  <2> QED
    BY <2>1, <2>2
<1> HIDE DEF moved, P, Q
<1>7. SpellsFields(y, P, Q, fields)
  BY <1>3, <1>5, <1>6 DEF SpellsFields, n
<1> QED
  BY <1>7 DEF P, Q

(* a list, *)
LEMMA OneElsewhere ==
  ASSUME NEW a \in Nat, NEW b \in Nat, NEW c \in Nat, NEW x, NEW y, Alike(x, a, b, y, c),
         NEW p \in a..b, NEW q \in a..b, NEW f \in Contract, SpellsOne(x, p, q, f)
  PROVE  SpellsOne(y, c + (p - a), c + (q - a), f)
<1>1. CASE f.kind # "count"
  BY <1>1, FieldElsewhere DEF SpellsOne
<1>2. CASE f.kind = "count"
  <2> DEFINE P == c + (p - a)
             Q == c + (q - a)
             n == x[p + 1].claim
  <2>1. /\ x[p + 1].kind = "count" /\ x[p + 1].width = 4 /\ n \in Nat
        /\ SpellsFields(x, p + 1, q, Copies(n, f.of)) /\ p + 1 <= q
    BY <1>2 DEF SpellsOne, SpellsFields
  <2>2. p + 1 \in a..b /\ (p + 1) - a \in 1..(b - a) /\ a + ((p + 1) - a) = p + 1
        /\ c + ((p + 1) - a) = P + 1
    BY <2>1
  <2>3. y[P + 1].kind = "count" /\ y[P + 1].width = 4 /\ y[P + 1].claim = n
    BY <2>1, <2>2 DEF Alike, SameNumber
  <2>4. f.of \in Seq(Plain)
    BY <1>2 DEF Contract, Lists, Plain, PlainKinds
  <2>5. Copies(n, f.of) \in Seq(Plain)
    BY <2>1, <2>4, CopiesArePlain
  <2> HIDE DEF n
  <2>6. SpellsFields(y, c + ((p + 1) - a), c + (q - a), Copies(n, f.of))
    BY <2>1, <2>2, <2>5, FieldsElsewhere
  <2>7. SpellsFields(y, P + 1, Q, Copies(n, f.of))
    BY <2>2, <2>6
  <2> HIDE DEF P, Q
  <2>8. SpellsOne(y, P, Q, f)
    BY <1>2, <2>1, <2>3, <2>7 DEF SpellsOne
  <2> QED
    BY <2>8 DEF P, Q
<1> QED
  BY <1>1, <1>2

(* and whatever crosses. *)
LEMMA SpellsElsewhere ==
  ASSUME NEW a \in Nat, NEW b \in Nat, NEW c \in Nat, NEW x, NEW y, Alike(x, a, b, y, c),
         NEW fields \in Seq(Contract), Spells(x, a, b, fields)
  PROVE  Spells(y, c, c + (b - a), fields)
<1> DEFINE n == Len(fields)
           d == c + (b - a)
<1>1. n \in Nat /\ \A i \in 1..n : fields[i] \in Contract
  BY LenProperties, ElementOfSeq
<1>2. PICK mark : Marks(mark, x, a, b, fields)
  BY DEF Spells
<1>3. /\ a <= b /\ mark \in [0..n -> a..b] /\ mark[0] = a /\ mark[n] = b
      /\ \A i \in 1..n : SpellsOne(x, mark[i - 1], mark[i], fields[i])
  BY <1>2 DEF Marks
<1> HIDE DEF n
<1>4. d \in Nat /\ c <= d /\ c + (a - a) = c
  BY <1>3
<1>5. \A i \in 0..n : mark[i] \in a..b /\ c + (mark[i] - a) \in c..d
  <2>1. \A m \in a..b : c + (m - a) \in c..d
    OBVIOUS
  <2> QED
    BY <1>3, <2>1
<1> DEFINE moved == [i \in 0..n |-> c + (mark[i] - a)]
<1>6. moved \in [0..n -> c..d] /\ moved[0] = c /\ moved[n] = d
  <2>1. 0 \in 0..n /\ n \in 0..n
    BY <1>1
  <2>2. moved[0] = c + (a - a) /\ moved[n] = d
    BY <1>3, <2>1
  <2> HIDE DEF d
  <2> QED
    BY <1>4, <1>5, <2>2
<1>7. ASSUME NEW i \in 1..n PROVE SpellsOne(y, moved[i - 1], moved[i], fields[i])
  <2>1. i \in 0..n /\ i - 1 \in 0..n
    BY <1>1
  <2>2. SpellsOne(y, c + (mark[i - 1] - a), c + (mark[i] - a), fields[i])
    BY <1>1, <1>3, <1>5, <2>1, OneElsewhere
  <2> QED
    BY <2>1, <2>2
<1> HIDE DEF moved, d
<1>8. Marks(moved, y, c, d, fields)
  BY <1>4, <1>6, <1>7 DEF Marks, n
<1> QED
  BY <1>8 DEF Spells, d

-----------------------------------------------------------------------------
(* What the writer writes spells the fields it was given, and nothing is    *)
(* wrong with any number of it.                                             *)
Sound == [kind : Kinds, width : Nat, claim : Int, fits : {TRUE}, true : {TRUE}]

(* A number the writer puts is sound. *)
LEMMA NumbersAreSound ==
  ASSUME NEW kind \in Kinds, NEW width \in Nat, NEW claim \in Int
  PROVE  Number(kind, width, claim) \in Sound
BY DEF Number, Sound

(* What is put of a field spells it. *)
LEMMA PutSpells ==
  ASSUME NEW f \in Plain, NEW length \in Nat
  PROVE  Put(f, length) \in Seq(Sound) /\ SpellsField(Put(f, length), 0, Len(Put(f, length)), f)
<1>1. f.kind \in PlainKinds
  BY DEF Plain
<1>4. f.kind \in Kinds
  BY <1>1 DEF PlainKinds, Kinds
<1>5. Width(f.kind) \in Nat
  BY DEF Width
<1>2. CASE f.kind \in {"string", "bytes"}
  <2> DEFINE m == Number("count", 4, length)
             n == Number("raw", length, 0)
             x == <<m, n>>
  <2>1. Put(f, length) = x
    BY <1>2 DEF Put
  <2>2. /\ m.kind = "count" /\ m.width = 4 /\ m.claim = length
        /\ n.kind = "raw" /\ n.width = length
    BY DEF Number
  <2>5. m \in Sound /\ n \in Sound
    <3>1. "count" \in Kinds /\ "raw" \in Kinds /\ 4 \in Nat /\ length \in Int /\ 0 \in Int
      BY DEF Kinds
    <3> QED
      BY <3>1, NumbersAreSound
  <2> HIDE DEF m, n
  <2>3. x \in Seq(Sound) /\ Len(x) = 2 /\ x[1] = m /\ x[2] = n
    BY <2>5
  <2> HIDE DEF x
  <2>4. SpellsField(x, 0, 2, f)
    BY <1>2, <2>2, <2>3 DEF SpellsField, Texts
  <2> QED
    BY <2>1, <2>3, <2>4
<1>3. CASE f.kind \notin {"string", "bytes"}
  <2> DEFINE n == Number(f.kind, Width(f.kind), 0)
             x == <<n>>
  <2>1. Put(f, length) = x
    BY <1>3 DEF Put
  <2>2. n.kind = f.kind /\ n.width = Width(f.kind)
    BY DEF Number
  <2>5. n \in Sound
    BY <1>4, <1>5, NumbersAreSound
  <2>3. x \in Seq(Sound) /\ Len(x) = 1 /\ x[1] = n
    BY <2>5
  <2> HIDE DEF x, n
  <2>4. SpellsField(x, 0, 1, f)
    BY <1>1, <1>3, <2>2, <2>3 DEF SpellsField, Scalars, PlainKinds
  <2> QED
    BY <2>1, <2>3, <2>4
<1> QED
  BY <1>2, <1>3

(* Fields that are each spelled are spelled one after the other. *)
LEMMA LaidOutSpells ==
  ASSUME NEW fields \in Seq(Contract), NEW seqs \in Seq(Seq(Sound)), Len(seqs) = Len(fields),
         \A i \in 1..Len(fields) : SpellsOne(seqs[i], 0, Len(seqs[i]), fields[i])
  PROVE  /\ FlattenSeq(seqs) \in Seq(Sound)
         /\ Spells(FlattenSeq(seqs), 0, Len(FlattenSeq(seqs)), fields)
<1> DEFINE n == Len(fields)
           flat == FlattenSeq(seqs)
<1>1. /\ n \in Nat
      /\ \A i \in 1..n :
           seqs[i] \in Seq(Sound) /\ Len(seqs[i]) \in Nat /\ fields[i] \in Contract
  BY LenProperties, ElementOfSeq
<1>2. flat \in Seq(Sound) /\ Len(flat) \in Nat
  BY FlattenedLaysOut, LenProperties
<1>3. PICK mark : LaysOut(mark, seqs, flat)
  BY FlattenedLaysOut
<1>4. /\ mark \in [0..n -> 0..Len(flat)] /\ mark[0] = 0 /\ mark[n] = Len(flat)
      /\ \A i \in 1..n : /\ mark[i] = mark[i - 1] + Len(seqs[i])
                         /\ \A k \in 1..Len(seqs[i]) : flat[mark[i - 1] + k] = seqs[i][k]
  BY <1>3 DEF LaysOut
<1> HIDE DEF flat, n
<1>5. ASSUME NEW i \in 1..n PROVE SpellsOne(flat, mark[i - 1], mark[i], fields[i])
  <2> DEFINE c == mark[i - 1]
             x == seqs[i]
             b == Len(x)
             f == fields[i]
  <2>1. i - 1 \in 0..n
    BY <1>1
  <2>8. c \in Nat
    BY <1>2, <1>4, <2>1
  <2>9. SpellsOne(x, 0, b, f)
    BY DEF n
  <2>10. b \in Nat /\ f \in Contract /\ mark[i] = c + b
    BY <1>1, <1>4
  <2>2. c \in Nat /\ b \in Nat /\ f \in Contract /\ mark[i] = c + b /\ 0 \in Nat
        /\ SpellsOne(x, 0, b, f)
    BY <2>8, <2>9, <2>10
  <2>3. \A k \in 1..b : flat[c + k] = x[k]
    BY <1>4
  <2> HIDE DEF c, x, b, f
  <2>4. Alike(x, 0, b, flat, c)
    <3>1. \A k \in 1..(b - 0) : k \in 1..b /\ 0 + k = k
      BY <2>2
    <3> QED
      BY <2>3, <3>1 DEF Alike, SameNumber
  <2>5. 0 \in 0..b /\ b \in 0..b /\ c + (0 - 0) = c /\ c + (b - 0) = c + b
    BY <2>2
  <2>6. SpellsOne(flat, c + (0 - 0), c + (b - 0), f)
    BY <2>2, <2>4, <2>5, OneElsewhere
  <2>7. SpellsOne(flat, c, c + b, f)
    BY <2>5, <2>6
  <2> QED
    BY <2>2, <2>7 DEF c, f
<1>6. 0 <= Len(flat)
  BY <1>2
<1>7. Marks(mark, flat, 0, Len(flat), fields)
  BY <1>4, <1>5, <1>6 DEF Marks, n
<1> QED
  BY <1>2, <1>7 DEF Spells, flat

(* Fields cross. *)
LEMMA PlainIsContract ==
  ASSUME NEW fields \in Seq(Plain)
  PROVE  fields \in Seq(Contract)
<1>1. Plain \subseteq Contract
  BY DEF Contract
<1> QED
  BY <1>1, SeqMonotonic

(* What is put of fields spells them. *)
LEMMA PutAllSpells ==
  ASSUME NEW fields \in Seq(Plain), NEW length \in Nat
  PROVE  /\ PutAll(fields, length) \in Seq(Sound)
         /\ Spells(PutAll(fields, length), 0, Len(PutAll(fields, length)), fields)
<1> DEFINE n == Len(fields)
           seqs == [i \in DOMAIN fields |-> Put(fields[i], length)]
<1>1. n \in Nat /\ DOMAIN fields = 1..n /\ \A i \in 1..n : fields[i] \in Plain
  BY LenProperties, ElementOfSeq
<1>2. \A i \in 1..n : /\ seqs[i] \in Seq(Sound)
                      /\ SpellsOne(seqs[i], 0, Len(seqs[i]), fields[i])
  <2>1. ASSUME NEW i \in 1..n
        PROVE  seqs[i] \in Seq(Sound) /\ SpellsOne(seqs[i], 0, Len(seqs[i]), fields[i])
    <3>1. seqs[i] = Put(fields[i], length) /\ fields[i] \in Plain
      BY <1>1
    <3>2. fields[i].kind # "count"
      BY <3>1 DEF Plain, PlainKinds
    <3> HIDE DEF seqs
    <3> QED
      BY <3>1, <3>2, PutSpells DEF SpellsOne
  <2> QED
    BY <2>1
<1>3. seqs \in Seq(Seq(Sound)) /\ Len(seqs) = n
  <2>1. seqs \in [1..n -> Seq(Sound)]
    BY <1>1, <1>2
  <2> HIDE DEF seqs
  <2> QED
    BY <1>1, <2>1
<1>4. fields \in Seq(Contract)
  BY PlainIsContract
<1> HIDE DEF seqs
<1>5. FlattenSeq(seqs) \in Seq(Sound) /\ Spells(FlattenSeq(seqs), 0, Len(FlattenSeq(seqs)), fields)
  BY <1>2, <1>3, <1>4, LaidOutSpells
<1>6. PutAll(fields, length) = FlattenSeq(seqs)
  BY DEF PutAll, seqs
<1> QED
  BY <1>5, <1>6

(* All of a payload spells the fields. *)
Says(x, fields) == x \in Seq(Sound) /\ Spells(x, 0, Len(x), fields)

(* Nothing says nothing. *)
LEMMA NothingSaysNothing == Says(<<>>, <<>>)
<1> DEFINE none == <<>>
           mark == [i \in 0..0 |-> 0]
<1>1. none \in Seq(Sound) /\ Len(none) = 0
  BY EmptySeq
<1> HIDE DEF none
<1>2. mark \in [0..0 -> 0..0] /\ mark[0] = 0 /\ 0 <= 0
  OBVIOUS
<1>3. \A i \in 1..0 : FALSE
  OBVIOUS
<1> HIDE DEF mark
<1>4. Marks(mark, none, 0, 0, none)
  BY <1>1, <1>2, <1>3 DEF Marks
<1>5. Says(none, none)
  BY <1>1, <1>4 DEF Says, Spells
<1> QED
  BY <1>5 DEF none

(* Two payloads, one after the other, say what each of them says. *)
LEMMA SaysBoth ==
  ASSUME NEW x, NEW y, NEW s \in Seq(Contract), NEW t \in Seq(Contract), Says(x, s), Says(y, t)
  PROVE  Says(x \o y, s \o t)
<1> DEFINE z == x \o y
           a == Len(x)
           b == Len(y)
           ab == a + b
<1>1. x \in Seq(Sound) /\ y \in Seq(Sound) /\ Spells(x, 0, a, s) /\ Spells(y, 0, b, t)
  BY DEF Says
<1>2. a \in Nat /\ b \in Nat /\ ab \in Nat /\ 0 \in Nat
  BY <1>1, LenProperties
<1>3. /\ z \in Seq(Sound) /\ Len(z) = ab
      /\ \A i \in 1..ab : z[i] = IF i <= a THEN x[i] ELSE y[i - a]
  BY <1>1, ConcatProperties
<1> HIDE DEF z
<1>4. Alike(x, 0, a, z, 0)
  <2>1. \A i \in 1..(a - 0) : 0 + i = i /\ i \in 1..ab /\ i <= a
    BY <1>2
  <2> QED
    BY <1>3, <2>1 DEF Alike, SameNumber
<1>5. Alike(y, 0, b, z, a)
  <2>1. \A i \in 1..(b - 0) : 0 + i = i /\ a + i \in 1..ab /\ ~(a + i <= a) /\ (a + i) - a = i
    BY <1>2
  <2> QED
    BY <1>3, <2>1 DEF Alike, SameNumber
<1>6. 0 + (a - 0) = a /\ a + (b - 0) = ab
  BY <1>2
<1> HIDE DEF a, b
<1>7. Spells(z, 0, 0 + (a - 0), s)
  BY <1>1, <1>2, <1>4, SpellsElsewhere
<1>8. Spells(z, a, a + (b - 0), t)
  BY <1>1, <1>2, <1>5, SpellsElsewhere
<1> HIDE DEF ab
<1>9. Spells(z, 0, ab, s \o t)
  BY <1>2, <1>6, <1>7, <1>8, SpellsBoth
<1> QED
  BY <1>3, <1>9 DEF Says, z

(* Copies are laid one after the other. *)
Repeats(g, n, s) ==
  /\ g[0] = <<>>
  /\ \A i \in 1..n : g[i] = g[i - 1] \o s
  /\ Copies(n, s) = g[n]

(* Each copy is of the same fields. *)
LEMMA CopiesInOrder ==
  ASSUME NEW V, NEW n \in Nat, NEW s \in Seq(V)
  PROVE  \E g \in [0..n -> Seq(V)] : Repeats(g, n, s)
<1> DEFINE seqs == [i \in 1..n |-> s]
<1>1. seqs \in Seq(Seq(V)) /\ Len(seqs) = n /\ \A i \in 1..n : seqs[i] = s
  OBVIOUS
<1>2. Copies(n, s) = FlattenSeq(seqs)
  BY DEF Copies
<1> HIDE DEF seqs
<1>3. PICK g \in [0..n -> Seq(V)] : Flattens(g, seqs, FlattenSeq(seqs))
  BY <1>1, FlattensInOrder
<1>4. Repeats(g, n, s)
  BY <1>1, <1>2, <1>3 DEF Repeats, Flattens
<1> QED
  BY <1>4

(* What says an element says as many of them as it is repeated for. *)
LEMMA CopiesSay ==
  ASSUME NEW n \in Nat, NEW x, NEW fields \in Seq(Plain), Says(x, fields)
  PROVE  Says(Copies(n, x), Copies(n, fields))
<1>1. x \in Seq(Sound) /\ fields \in Seq(Contract)
  BY PlainIsContract DEF Says
<1>2. PICK g \in [0..n -> Seq(Sound)] : Repeats(g, n, x)
  BY <1>1, CopiesInOrder
<1>3. PICK h \in [0..n -> Seq(Contract)] : Repeats(h, n, fields)
  BY <1>1, CopiesInOrder
<1> DEFINE Good == {k \in Nat : k <= n => Says(g[k], h[k])}
<1>4. 0 \in Good
  BY <1>2, <1>3, NothingSaysNothing DEF Repeats
<1>5. ASSUME NEW k \in Good PROVE k + 1 \in Good
  <2>1. CASE k + 1 <= n
    <3> DEFINE i == k + 1
    <3>1. i \in 1..n /\ i - 1 = k /\ k \in 0..n /\ Says(g[k], h[k])
      BY <2>1
    <3> HIDE DEF i
    <3>2. g[i] = g[k] \o x /\ h[i] = h[k] \o fields
      BY <1>2, <1>3, <3>1 DEF Repeats
    <3>3. Says(g[i], h[i])
      BY <1>1, <3>1, <3>2, SaysBoth
    <3> QED
      BY <2>1, <3>3 DEF i
  <2>2. CASE ~(k + 1 <= n)
    BY <2>2
  <2> QED
    BY <2>1, <2>2
<1>6. n \in Good
  <2>1. Good \in SUBSET Nat
    OBVIOUS
  <2> HIDE DEF Good
  <2> QED
    BY <1>4, <1>5, <2>1, InductiveSet
<1> QED
  BY <1>2, <1>3, <1>6 DEF Repeats

(* So many elements take so many times the bytes of one. *)
LEMMA CopiesTake ==
  ASSUME NEW n \in Nat, NEW a \in Nat, NEW fields \in Seq(Plain), Takes(fields, a)
  PROVE  Takes(Copies(n, fields), n * a)
<1>1. PICK h \in [0..n -> Seq(Plain)] : Repeats(h, n, fields)
  BY CopiesInOrder
<1> DEFINE Good == {k \in Nat : k <= n => Takes(h[k], k * a)}
<1>2. 0 \in Good
  <2>1. h[0] \in Seq(Plain) /\ 0 * a = 0
    OBVIOUS
  <2> QED
    BY <2>1, TakesNothing
<1>3. ASSUME NEW k \in Good PROVE k + 1 \in Good
  <2>1. CASE k + 1 <= n
    <3> DEFINE i == k + 1
               ka == k * a
    <3>1. i \in 1..n /\ i - 1 = k /\ k \in 0..n /\ Takes(h[k], ka)
      BY <2>1
    <3>2. ka \in Nat /\ i * a = ka + a
      OBVIOUS
    <3> HIDE DEF i, ka
    <3>3. h[i] = h[k] \o fields
      BY <1>1, <3>1 DEF Repeats
    <3>4. Takes(h[i], i * a)
      BY <3>1, <3>2, <3>3, TakesBoth
    <3> QED
      BY <2>1, <3>4 DEF i
  <2>2. CASE ~(k + 1 <= n)
    BY <2>2
  <2> QED
    BY <2>1, <2>2
<1>4. n \in Good
  <2>1. Good \in SUBSET Nat
    OBVIOUS
  <2> HIDE DEF Good
  <2> QED
    BY <1>2, <1>3, <2>1, InductiveSet
<1> QED
  BY <1>1, <1>4 DEF Repeats

(* What is put of a list spells it. *)
LEMMA PutListSpells ==
  ASSUME NEW f \in Lists, NEW length \in Nat
  PROVE  /\ PutList(f, length) \in Seq(Sound)
         /\ SpellsOne(PutList(f, length), 0, Len(PutList(f, length)), f)
<1> DEFINE c == Number("count", 4, length)
           one == <<c>>
           x == PutAll(f.of, length)
           y == Copies(length, x)
           z == one \o y
           b == Len(y)
           all == Copies(length, f.of)
<1>1. f.of \in Seq(Plain) /\ f.kind = "count"
  BY DEF Lists
<1>2. c.kind = "count" /\ c.width = 4 /\ c.claim = length
  BY DEF Number
<1>3. one \in Seq(Sound) /\ Len(one) = 1 /\ one[1] = c
  <2>1. c \in Sound
    <3>1. "count" \in Kinds /\ 4 \in Nat /\ length \in Int
      BY DEF Kinds
    <3> QED
      BY <3>1, NumbersAreSound
  <2> HIDE DEF c
  <2> QED
    BY <2>1
<1>4. PutList(f, length) = z
  BY DEF PutList, Copies
<1> HIDE DEF c, one
<1>5. Says(x, f.of)
  BY <1>1, PutAllSpells DEF Says
<1> HIDE DEF x
<1>6. Says(y, all) /\ all \in Seq(Plain)
  BY <1>1, <1>5, CopiesSay, CopiesArePlain
<1> HIDE DEF y, all
<1>7. y \in Seq(Sound) /\ b \in Nat /\ Spells(y, 0, b, all)
  BY <1>6, LenProperties DEF Says
<1>8. /\ z \in Seq(Sound) /\ Len(z) = 1 + b
      /\ \A i \in 1..(1 + b) : z[i] = IF i <= 1 THEN one[i] ELSE y[i - 1]
  <2>1. /\ z \in Seq(Sound) /\ Len(z) = Len(one) + b
        /\ \A i \in 1..(Len(one) + b) : z[i] = IF i <= Len(one) THEN one[i] ELSE y[i - Len(one)]
    BY <1>3, <1>7, ConcatProperties
  <2> HIDE DEF z, b
  <2> QED
    BY <1>3, <2>1
<1> HIDE DEF b, z
<1>9. Alike(y, 0, b, z, 1)
  <2>1. \A i \in 1..(b - 0) : 0 + i = i /\ 1 + i \in 1..(1 + b) /\ ~(1 + i <= 1) /\ (1 + i) - 1 = i
    BY <1>7
  <2> QED
    BY <1>8, <2>1 DEF Alike, SameNumber
<1>10. Spells(z, 1, 1 + (b - 0), all)
  <2>1. 0 \in Nat /\ 1 \in Nat /\ all \in Seq(Contract)
    BY <1>6, PlainIsContract
  <2> QED
    BY <1>7, <1>9, <2>1, SpellsElsewhere
<1>11. SpellsFields(z, 0 + 1, 1 + b, all)
  <2>1. 1 + (b - 0) = 1 + b /\ 0 + 1 = 1
    BY <1>7
  <2> QED
    BY <1>6, <1>10, <2>1, PlainIsSpelled
<1>12. z[0 + 1] = c
  <2>1. 1 \in 1..(1 + b) /\ 1 <= 1 /\ 0 + 1 = 1
    BY <1>7
  <2> QED
    BY <1>3, <1>8, <2>1
<1>13. SpellsOne(z, 0, 1 + b, f)
  BY <1>1, <1>2, <1>11, <1>12 DEF SpellsOne, all
<1> QED
  BY <1>4, <1>8, <1>13

(* A payload says the fields it was encoded from. *)
LEMMA EncodeSays ==
  ASSUME NEW fields \in Seq(Contract), NEW length \in Nat
  PROVE  Says(Encode(fields, length), fields)
<1> DEFINE n == Len(fields)
           seqs == [i \in DOMAIN fields |->
                      IF fields[i].kind = "count" THEN PutList(fields[i], length)
                                                  ELSE Put(fields[i], length)]
<1>1. n \in Nat /\ DOMAIN fields = 1..n /\ \A i \in 1..n : fields[i] \in Contract
  BY LenProperties, ElementOfSeq
<1>2. \A i \in 1..n : /\ seqs[i] \in Seq(Sound)
                      /\ SpellsOne(seqs[i], 0, Len(seqs[i]), fields[i])
  <2>1. ASSUME NEW i \in 1..n
        PROVE  seqs[i] \in Seq(Sound) /\ SpellsOne(seqs[i], 0, Len(seqs[i]), fields[i])
    <3> DEFINE f == fields[i]
    <3>1. /\ f \in Contract
          /\ seqs[i] = IF f.kind = "count" THEN PutList(f, length) ELSE Put(f, length)
      BY <1>1
    <3> HIDE DEF seqs, f
    <3>2. CASE f.kind = "count"
      <4>1. f \in Lists
        BY <3>1, <3>2 DEF Contract, Plain, PlainKinds
      <4>2. seqs[i] \in Seq(Sound) /\ SpellsOne(seqs[i], 0, Len(seqs[i]), f)
        BY <3>1, <3>2, <4>1, PutListSpells
      <4> QED
        BY <4>2 DEF f
    <3>3. CASE f.kind # "count"
      <4>1. f \in Plain
        BY <3>1, <3>3 DEF Contract, Lists
      <4>2. seqs[i] \in Seq(Sound) /\ SpellsOne(seqs[i], 0, Len(seqs[i]), f)
        BY <3>1, <3>3, <4>1, PutSpells DEF SpellsOne
      <4> QED
        BY <4>2 DEF f
    <3> QED
      BY <3>2, <3>3
  <2> QED
    BY <2>1
<1>3. seqs \in Seq(Seq(Sound)) /\ Len(seqs) = n
  <2>1. seqs \in [1..n -> Seq(Sound)]
    BY <1>1, <1>2
  <2> HIDE DEF seqs
  <2> QED
    BY <1>1, <2>1
<1> HIDE DEF seqs
<1>4. FlattenSeq(seqs) \in Seq(Sound) /\ Spells(FlattenSeq(seqs), 0, Len(FlattenSeq(seqs)), fields)
  BY <1>2, <1>3, LaidOutSpells
<1>5. Encode(fields, length) = FlattenSeq(seqs)
  BY DEF Encode, seqs
<1> QED
  BY <1>4, <1>5 DEF Says

(* What is first of two sequences is first of the first. *)
LEMMA HeadAndTailOfBoth ==
  ASSUME NEW V, NEW s \in Seq(V), NEW t \in Seq(V), s # <<>>
  PROVE  /\ s \o t # <<>> /\ Head(s \o t) = Head(s) /\ Tail(s \o t) = Tail(s) \o t
<1> DEFINE u == s \o t
           m == Len(s)
           n == Len(t)
           r == Tail(s)
           v == r \o t
           q == Tail(u)
<1>1. m \in Nat /\ m # 0 /\ n \in Nat /\ r \in Seq(V) /\ Len(r) = m - 1 /\ Head(s) = s[1]
      /\ \A i \in 1..(m - 1) : r[i] = s[i + 1]
  BY LenProperties, EmptySeq, HeadTailProperties
<1>2. u \in Seq(V) /\ Len(u) = m + n
      /\ \A i \in 1..(m + n) : u[i] = IF i <= m THEN s[i] ELSE t[i - m]
  BY ConcatProperties
<1> HIDE DEF u, r
<1>3. u # <<>> /\ q \in Seq(V) /\ Len(q) = (m + n) - 1 /\ Head(u) = u[1]
      /\ \A i \in 1..((m + n) - 1) : q[i] = u[i + 1]
  <2>1. u # <<>>
    BY <1>1, <1>2, EmptySeq
  <2>2. q \in Seq(V) /\ Len(q) = Len(u) - 1 /\ Head(u) = u[1]
        /\ \A i \in 1..(Len(u) - 1) : q[i] = u[i + 1]
    BY <1>2, <2>1, HeadTailProperties
  <2> HIDE DEF q
  <2> QED
    BY <1>2, <2>1, <2>2
<1>4. v \in Seq(V) /\ Len(v) = (m - 1) + n
      /\ \A i \in 1..((m - 1) + n) : v[i] = IF i <= m - 1 THEN r[i] ELSE t[i - (m - 1)]
  <2>1. v \in Seq(V) /\ Len(v) = Len(r) + n
        /\ \A i \in 1..(Len(r) + n) : v[i] = IF i <= Len(r) THEN r[i] ELSE t[i - Len(r)]
    BY <1>1, ConcatProperties
  <2> HIDE DEF v
  <2> QED
    BY <1>1, <2>1
<1> HIDE DEF q, v, m, n
<1>5. Head(u) = Head(s)
  <2>1. 1 \in 1..(m + n) /\ 1 <= m
    BY <1>1
  <2> QED
    BY <1>1, <1>2, <1>3, <2>1
<1>6. ASSUME NEW i \in 1..((m + n) - 1) PROVE q[i] = v[i]
  <2>1. i \in 1..((m - 1) + n) /\ i + 1 \in 1..(m + n) /\ i \in Nat
    BY <1>1
  <2>2. q[i] = IF i + 1 <= m THEN s[i + 1] ELSE t[(i + 1) - m]
    BY <1>2, <1>3, <2>1
  <2>3. v[i] = IF i <= m - 1 THEN r[i] ELSE t[i - (m - 1)]
    BY <1>4, <2>1
  <2>4. CASE i + 1 <= m
    <3>1. i <= m - 1 /\ i \in 1..(m - 1)
      BY <1>1, <2>1, <2>4
    <3> QED
      BY <1>1, <2>2, <2>3, <2>4, <3>1
  <2>5. CASE ~(i + 1 <= m)
    <3>1. ~(i <= m - 1) /\ (i + 1) - m = i - (m - 1)
      BY <1>1, <2>1, <2>5
    <3> QED
      BY <2>2, <2>3, <2>5, <3>1
  <2> QED
    BY <2>4, <2>5
<1>7. q = v
  <2>1. Len(q) = Len(v) /\ \A i \in 1..Len(q) : q[i] = v[i]
    <3>1. (m + n) - 1 = (m - 1) + n
      BY <1>1
    <3> QED
      BY <1>3, <1>4, <1>6, <3>1
  <2> QED
    BY <1>3, <1>4, <2>1, SeqEqual
<1> QED
  BY <1>3, <1>5, <1>7 DEF u, q, v, r

-----------------------------------------------------------------------------
(* What is left to read begins with elements that room was made for, and   *)
(* what they still take backs it.                                           *)
Backs(s, t, a, fields, room, at) ==
  /\ s \in Seq(Plain) /\ t \in Seq(Contract) /\ a \in Nat
  /\ fields = s \o t /\ Takes(s, a) /\ room <= at + a

Backed(fields, room, at) == \E s, t, a : Backs(s, t, a, fields, room, at)

(* Where no field is left, no byte is owed. *)
LEMMA NothingTakesNothing ==
  ASSUME NEW a \in Nat, Takes(<<>>, a)
  PROVE  a = 0
<1> DEFINE none == <<>>
<1>1. Len(none) = 0
  OBVIOUS
<1> HIDE DEF none
<1>2. PICK owed : Spends(owed, none, a)
  BY DEF Takes, none
<1>3. a <= owed[0] /\ owed[0] = 0
  BY <1>1, <1>2 DEF Spends
<1> QED
  BY <1>3

(* Once a field is read, those after it take what is left of its bytes. *)
LEMMA TakesTail ==
  ASSUME NEW s \in Seq(Plain), s # <<>>, NEW a \in Nat, Takes(s, a)
  PROVE  /\ Tail(s) \in Seq(Plain)
         /\ \E b \in Nat : Takes(Tail(s), b) /\ a <= b + Narrowest(Head(s).kind)
<1> DEFINE n == Len(s)
           rest == Tail(s)
           w == Narrowest(Head(s).kind)
<1>1. /\ n \in Nat /\ n # 0 /\ rest \in Seq(Plain) /\ Len(rest) = n - 1 /\ Head(s) = s[1]
      /\ \A i \in 1..(n - 1) : rest[i] = s[i + 1]
  BY LenProperties, EmptySeq, HeadTailProperties
<1> HIDE DEF rest
<1>2. PICK owed : Spends(owed, s, a)
  BY DEF Takes
<1>3. /\ owed \in [0..n -> Nat] /\ a <= owed[0] /\ owed[n] = 0
      /\ \A i \in 1..n : owed[i - 1] <= owed[i] + Narrowest(s[i].kind)
  BY <1>2 DEF Spends
<1> HIDE DEF n
<1> DEFINE b == owed[1]
           left == [i \in 0..(n - 1) |-> owed[i + 1]]
<1>4. 1 \in 1..n /\ 1 \in 0..n /\ 1 - 1 = 0 /\ 0 \in 0..n /\ w \in Nat
  BY <1>1, NarrowestIsANumber
<1>5. b \in Nat /\ owed[0] \in Nat /\ owed[0] <= b + w
  BY <1>1, <1>3, <1>4
<1> HIDE DEF w
<1>6. a <= b + w
  BY <1>3, <1>4, <1>5
<1>7. /\ left \in [0..(n - 1) -> Nat] /\ left[0] = b /\ left[n - 1] = 0
  <2>1. \A i \in 0..(n - 1) : i + 1 \in 0..n
    BY <1>1
  <2>2. 0 \in 0..(n - 1) /\ n - 1 \in 0..(n - 1) /\ 0 + 1 = 1 /\ (n - 1) + 1 = n
    BY <1>1
  <2> QED
    BY <1>3, <2>1, <2>2
<1>8. ASSUME NEW i \in 1..(n - 1) PROVE left[i - 1] <= left[i] + Narrowest(rest[i].kind)
  <2>1. i + 1 \in 1..n /\ i \in 0..(n - 1) /\ i - 1 \in 0..(n - 1) /\ (i - 1) + 1 = (i + 1) - 1
    BY <1>1
  <2>2. left[i] = owed[i + 1] /\ left[i - 1] = owed[(i + 1) - 1] /\ rest[i] = s[i + 1]
    BY <1>1, <2>1
  <2> QED
    BY <1>3, <2>1, <2>2
<1> HIDE DEF left
<1>9. Spends(left, rest, b)
  BY <1>1, <1>5, <1>7, <1>8 DEF Spends
<1> HIDE DEF b
<1>10. Takes(rest, b)
  BY <1>9 DEF Takes
<1> QED
  BY <1>1, <1>5, <1>6, <1>10 DEF rest, w

(* Nothing is owed yet, or all that was is paid. *)
LEMMA BackedAlready ==
  ASSUME NEW fields \in Seq(Contract), NEW room \in Nat, NEW at \in Nat, room <= at
  PROVE  Backed(fields, room, at)
<1> DEFINE none == <<>>
<1>1. none \in Seq(Plain) /\ none \o fields = fields
  BY EmptySeq, ConcatEmptySeq
<1>2. Takes(none, 0)
  BY <1>1, TakesNothing
<1> HIDE DEF none
<1>3. Backs(none, fields, 0, fields, room, at)
  BY <1>1, <1>2 DEF Backs
<1> QED
  BY <1>3 DEF Backed

(* What a list or nothing follows has been paid. *)
LEMMA BackedUntilAList ==
  ASSUME NEW fields \in Seq(Contract), fields = <<>> \/ Head(fields) \in Lists,
         NEW room \in Nat, NEW at \in Nat, Backed(fields, room, at)
  PROVE  room <= at
<1>1. PICK s, t, a : Backs(s, t, a, fields, room, at)
  BY DEF Backed
<1>2. s \in Seq(Plain) /\ t \in Seq(Contract) /\ a \in Nat /\ fields = s \o t
      /\ Takes(s, a) /\ room <= at + a
  BY <1>1 DEF Backs
<1>3. s = <<>>
  <2>1. SUFFICES ASSUME s # <<>> PROVE FALSE
    OBVIOUS
  <2>2. s[1] \in Plain /\ Len(s) \in Nat /\ Len(s) # 0 /\ s \in Seq(Contract)
    BY <1>2, <2>1, LenProperties, EmptySeq, ElementOfSeq, PlainIsContract
  <2>3. /\ Len(fields) = Len(s) + Len(t) /\ Len(t) \in Nat
        /\ \A i \in 1..(Len(s) + Len(t)) : fields[i] = IF i <= Len(s) THEN s[i] ELSE t[i - Len(s)]
    BY <1>2, <2>2, ConcatProperties, LenProperties
  <2>4. fields # <<>> /\ Head(fields) = s[1]
    <3>1. 1 \in 1..(Len(s) + Len(t)) /\ 1 <= Len(s)
      BY <2>2, <2>3
    <3>2. fields[1] = s[1] /\ Len(fields) # 0
      BY <2>2, <2>3, <3>1
    <3> QED
      BY <3>2, EmptySeq, HeadTailProperties
  <2> QED
    BY <2>2, <2>4 DEF Lists, Plain, PlainKinds
<1>4. a = 0
  BY <1>2, <1>3, NothingTakesNothing
<1> QED
  BY <1>2, <1>4

(* Reading a field pays what was owed of it. *)
LEMMA BackedFurther ==
  ASSUME NEW fields \in Seq(Contract), fields # <<>>, NEW room \in Nat, NEW at \in Nat,
         NEW bt \in Nat, at + Narrowest(Head(fields).kind) <= bt, Backed(fields, room, at)
  PROVE  Backed(Tail(fields), room, bt)
<1>1. PICK s, t, a : Backs(s, t, a, fields, room, at)
  BY DEF Backed
<1>2. s \in Seq(Plain) /\ t \in Seq(Contract) /\ a \in Nat /\ fields = s \o t
      /\ Takes(s, a) /\ room <= at + a
  BY <1>1 DEF Backs
<1>3. Tail(fields) \in Seq(Contract)
  BY HeadTailProperties
<1> DEFINE w == Narrowest(Head(fields).kind)
<1>4. w \in Nat /\ at <= bt
  <2>1. w \in Nat
    BY NarrowestIsANumber
  <2> HIDE DEF w
  <2>2. at + w <= bt
    BY DEF w
  <2> QED
    BY <2>1, <2>2
<1>5. CASE s = <<>>
  <2>1. a = 0
    BY <1>2, <1>5, NothingTakesNothing
  <2>2. room <= bt
    BY <1>2, <1>4, <2>1
  <2> QED
    BY <1>3, <2>2, BackedAlready
<1>6. CASE s # <<>>
  <2>1. s \in Seq(Contract)
    BY <1>2, PlainIsContract
  <2>2. Head(fields) = Head(s) /\ Tail(fields) = Tail(s) \o t
    BY <1>2, <1>6, <2>1, HeadAndTailOfBoth
  <2>3. Tail(s) \in Seq(Plain)
    BY <1>2, <1>6, TakesTail
  <2>4. PICK b \in Nat : Takes(Tail(s), b) /\ a <= b + Narrowest(Head(s).kind)
    BY <1>2, <1>6, TakesTail
  <2>5. room <= bt + b
    <3>1. a <= b + w /\ at + w <= bt
      BY <2>2, <2>4
    <3> HIDE DEF w
    <3> QED
      BY <1>2, <1>4, <3>1
  <2>6. Backs(Tail(s), t, b, Tail(fields), room, bt)
    BY <1>2, <2>2, <2>3, <2>4, <2>5 DEF Backs
  <2> QED
    BY <2>6 DEF Backed
<1> QED
  BY <1>5, <1>6

(* What is backed stays so further on. *)
LEMMA BackedLater ==
  ASSUME NEW fields, NEW room \in Nat, NEW at \in Nat, NEW bt \in Nat, at <= bt,
         Backed(fields, room, at)
  PROVE  Backed(fields, room, bt)
<1>1. PICK s, t, a : Backs(s, t, a, fields, room, at)
  BY DEF Backed
<1>2. Backs(s, t, a, fields, room, bt)
  <2>1. a \in Nat /\ room <= at + a
    BY <1>1 DEF Backs
  <2>2. room <= bt + a
    BY <2>1
  <2> QED
    BY <1>1, <2>2 DEF Backs
<1> QED
  BY <1>2 DEF Backed

(* Elements back the room made for them. *)
LEMMA BackedByElements ==
  ASSUME NEW of \in Seq(Plain), NEW least \in Nat, Takes(of, least), NEW count \in Nat,
         NEW rest \in Seq(Contract), NEW room \in Nat, NEW at \in Nat, room <= at
  PROVE  Backed(Copies(count, of) \o rest, room + count * least, at)
<1> DEFINE s == Copies(count, of)
           a == count * least
<1>1. s \in Seq(Plain) /\ Takes(s, a) /\ a \in Nat
  <2>1. a \in Nat
    OBVIOUS
  <2>2. s \in Seq(Plain)
    BY CopiesArePlain
  <2>3. Takes(s, a)
    BY CopiesTake
  <2> QED
    BY <2>1, <2>2, <2>3
<1> HIDE DEF s, a
<1>2. room + a <= at + a
  BY <1>1
<1>3. Backs(s, rest, a, s \o rest, room + a, at)
  BY <1>1, <1>2 DEF Backs
<1>4. Backed(s \o rest, room + a, at)
  BY <1>3 DEF Backed
<1> QED
  BY <1>4 DEF s, a

-----------------------------------------------------------------------------
(* Division: what fits so many times. *)
LEMMA FitsDivided ==
  ASSUME NEW count \in Int, NEW least \in Nat \ {0}, NEW left \in Nat
  PROVE  HasRoom(count, least, left) <=> count * least <= left
<1> DEFINE q == left \div least
           r == left % least
<1>1. q \in Int /\ r \in 0..(least - 1) /\ left = least * q + r
  OBVIOUS
<1> HIDE DEF q, r
<1>2. least * q = q * least
  BY <1>1
<1>3. ASSUME count <= q PROVE count * least <= left
  <2>1. count * least <= q * least
    BY <1>1, <1>3
  <2> QED
    BY <1>1, <1>2, <2>1
<1>4. ASSUME ~(count <= q) PROVE ~(count * least <= left)
  <2>1. q + 1 <= count
    BY <1>1, <1>4
  <2>2. (q + 1) * least <= count * least
    BY <1>1, <2>1
  <2>3. (q + 1) * least = q * least + least
    BY <1>1
  <2> QED
    BY <1>1, <1>2, <2>2, <2>3
<1> QED
  BY <1>3, <1>4 DEF HasRoom, q

(* Replacing an element leaves the others. *)
LEMMA ElementReplaced ==
  ASSUME NEW V, NEW s \in Seq(V), NEW i, NEW v \in V
  PROVE  /\ [s EXCEPT ![i] = v] \in Seq(V) /\ Len([s EXCEPT ![i] = v]) = Len(s)
         /\ \A j \in 1..Len(s) : [s EXCEPT ![i] = v][j] = IF j = i THEN v ELSE s[j]
<1>1. Len(s) \in Nat /\ s \in [1..Len(s) -> V]
  BY LenProperties
<1> DEFINE n == Len(s)
           t == [s EXCEPT ![i] = v]
<1> HIDE DEF n
<1>2. t \in [1..n -> V] /\ \A j \in 1..n : t[j] = IF j = i THEN v ELSE s[j]
  BY <1>1 DEF n
<1> HIDE DEF t
<1>3. t \in Seq(V) /\ Len(t) = n
  BY <1>1, <1>2 DEF n
<1> QED
  BY <1>2, <1>3 DEF n, t

(* What stands of a call on its way, whatever is wrong with it. *)
Reader == [at : Nat, failed : BOOLEAN]

Carries ==
  /\ Contracted(call) /\ todo \in Seq(Contract)
  /\ sent \in Seq(Wire) /\ size \in Nat
  /\ reader \in Reader /\ read \in [sent : Nat, astray : BOOLEAN]
  /\ reserved \in Nat

Room ==
  /\ reserved <= size /\ reader.at <= size
  /\ ~reader.failed => Backed(todo, reserved, reader.at)

RoomIInv == Carries /\ Room

(* A read goes on within the payload, or fails where it is. *)
Onward(was, here, width) ==
  /\ here \in Reader
  /\ \/ here.failed /\ here.at = was.at
     \/ ~here.failed /\ ~was.failed /\ here.at = was.at + width /\ here.at <= size

(* A raw read goes on by its width, or fails. *)
LEMMA RawReads ==
  ASSUME Carries, NEW kind, NEW width \in Nat, NEW got \in Raw(kind, width)
  PROVE  /\ got.number.claim \in Int /\ Onward(reader, got.reader, width)
         /\ got.read \in [sent : Nat, astray : BOOLEAN]
<1>1. reader \in Reader /\ read \in [sent : Nat, astray : BOOLEAN] /\ size \in Nat
      /\ reader.at \in Nat /\ reader.failed \in BOOLEAN /\ read.sent \in Nat
  BY DEF Carries, Reader
<1>2. CASE Latched(reader.failed, reader.at + width > size)
  <2>1. got = [number |-> Zero, reader |-> [reader EXCEPT !.failed = TRUE], read |-> read]
    BY <1>2 DEF Raw
  <2> DEFINE here == [reader EXCEPT !.failed = TRUE]
  <2>2. here \in Reader /\ here.failed /\ here.at = reader.at
    BY <1>1 DEF Reader
  <2>3. got.reader = here /\ got.read = read /\ got.number = Zero
    BY <2>1
  <2>4. Zero.claim \in Int
    BY DEF Zero, Number
  <2> HIDE DEF here
  <2> QED
    BY <1>1, <2>2, <2>3, <2>4 DEF Onward
<1>3. CASE ~Latched(reader.failed, reader.at + width > size)
  <2>1. PICK number \in (IF OnCourse(kind) THEN {DueNumber} ELSE Anything) :
          got = [number |-> number,
                 reader |-> [at |-> reader.at + width, failed |-> FALSE],
                 read |-> IF number.true THEN [read EXCEPT !.sent = @ + 1]
                          ELSE [read EXCEPT !.astray = TRUE]]
    BY <1>3 DEF Raw
  <2>2. number.claim \in Int
    <3>1. CASE OnCourse(kind)
      <4>1. number = sent[read.sent + 1] /\ read.sent < Len(sent) /\ sent \in Seq(Wire)
        BY <2>1, <3>1 DEF OnCourse, DueNumber, Carries
      <4>2. Len(sent) \in Nat /\ read.sent + 1 \in 1..Len(sent)
        BY <1>1, <4>1, LenProperties
      <4>3. number \in Wire
        BY <4>1, <4>2, ElementOfSeq
      <4> QED
        BY <4>3 DEF Wire
    <3>2. CASE ~OnCourse(kind)
      BY <2>1, <3>2, FacadeAssumption DEF Anything
    <3> QED
      BY <3>1, <3>2
  <2> DEFINE here == [at |-> reader.at + width, failed |-> FALSE]
             on == IF number.true THEN [read EXCEPT !.sent = @ + 1]
                                  ELSE [read EXCEPT !.astray = TRUE]
  <2>3. here \in Reader /\ ~here.failed /\ here.at = reader.at + width
    BY <1>1 DEF Reader
  <2>4. on \in [sent : Nat, astray : BOOLEAN]
    <3>1. read.sent + 1 \in Nat
      BY <1>1
    <3>2. [read EXCEPT !.sent = @ + 1] \in [sent : Nat, astray : BOOLEAN]
      BY <1>1, <3>1
    <3>3. [read EXCEPT !.astray = TRUE] \in [sent : Nat, astray : BOOLEAN]
      BY <1>1
    <3> QED
      BY <3>2, <3>3
  <2>5. got.reader = here /\ got.read = on /\ got.number = number
    BY <2>1
  <2> HIDE DEF here, on
  <2>6. ~reader.failed /\ reader.at + width <= size
    BY <1>1, <1>3 DEF Latched
  <2> QED
    BY <2>2, <2>3, <2>4, <2>5, <2>6 DEF Onward
<1> QED
  BY <1>2, <1>3

(* What reading the head of it leaves backed. *)
LEMMA OnwardIsBacked ==
  ASSUME RoomIInv, todo # <<>>, NEW width \in Nat, Narrowest(Head(todo).kind) <= width,
         NEW here, Onward(reader, here, width)
  PROVE  here.at <= size /\ (~here.failed => Backed(Tail(todo), reserved, here.at))
<1>1. /\ todo \in Seq(Contract) /\ size \in Nat /\ reserved \in Nat /\ reader \in Reader
      /\ reader.at <= size /\ (~reader.failed => Backed(todo, reserved, reader.at))
  BY DEF RoomIInv, Carries, Room
<1>2. here.at \in Nat /\ reader.at \in Nat
  BY <1>1 DEF Onward, Reader
<1>3. CASE here.failed
  BY <1>1, <1>3 DEF Onward
<1>4. CASE ~here.failed
  <2>1. ~reader.failed /\ here.at = reader.at + width /\ here.at <= size
    BY <1>4 DEF Onward
  <2> DEFINE w == Narrowest(Head(todo).kind)
             a == reader.at
             b == here.at
  <2>2. w \in Nat /\ w <= width
    BY NarrowestIsANumber
  <2>3. a + w <= b
    <3> HIDE DEF w, a, b
    <3>1. a \in Nat /\ b \in Nat /\ b = a + width
      BY <1>2, <2>1 DEF a, b
    <3> QED
      BY <2>2, <3>1
  <2>4. Backed(todo, reserved, a)
    BY <1>1, <2>1
  <2> HIDE DEF a, b
  <2>5. a + Narrowest(Head(todo).kind) <= b /\ a \in Nat /\ b \in Nat
    BY <1>2, <2>3 DEF a, b
  <2> HIDE DEF w
  <2>6. Backed(Tail(todo), reserved, b)
    BY <1>1, <2>4, <2>5, BackedFurther
  <2> QED
    BY <2>1, <2>6 DEF b
<1> QED
  BY <1>3, <1>4

(* What is left to read, and what is after it, crosses. *)
LEMMA RestIsContract ==
  ASSUME NEW fields \in Seq(Contract), fields # <<>>
  PROVE  Head(fields) \in Contract /\ Tail(fields) \in Seq(Contract)
BY HeadTailProperties

(* A scalar read leaves what was reserved backed. *)
LEMMA RoomScalar == ASSUME RoomIInv, GetScalar PROVE RoomIInv'
<1> DEFINE f == Head(todo)
           w == Width(f.kind)
<1>1. todo # <<>> /\ f.kind \in {"bool", "i32", "u64", "f64"}
  BY DEF GetScalar, Reads
<1>2. w \in Nat /\ Narrowest(f.kind) <= w
  BY <1>1 DEF Width, Narrowest
<1>3. PICK got \in Raw(f.kind, w) : reader' = got.reader /\ read' = got.read
  BY DEF GetScalar
<1>4. /\ todo' = Tail(todo) /\ call' = call /\ sent' = sent /\ size' = size
      /\ reserved' = reserved
  BY DEF GetScalar, ThePayload
<1> HIDE DEF w
<1>5. Onward(reader, got.reader, w) /\ got.read \in [sent : Nat, astray : BOOLEAN]
  BY <1>2, RawReads DEF RoomIInv
<1>6. got.reader.at <= size /\ (~got.reader.failed => Backed(Tail(todo), reserved, got.reader.at))
  BY <1>1, <1>2, <1>5, OnwardIsBacked
<1>7. Tail(todo) \in Seq(Contract) /\ got.reader \in Reader
  BY <1>1, <1>5, RestIsContract DEF RoomIInv, Carries, Onward
<1>8. Carries'
  BY <1>3, <1>4, <1>5, <1>7 DEF RoomIInv, Carries, Contracted
<1>9. Room'
  BY <1>3, <1>4, <1>6 DEF RoomIInv, Room
<1> QED
  BY <1>8, <1>9 DEF RoomIInv

(* A reader that fails reads no more of it. *)
LEMMA FailedStays ==
  ASSUME NEW r \in Reader
  PROVE  Fails(r) \in Reader /\ Fails(r).failed /\ Fails(r).at = r.at
BY DEF Fails, Reader

(* So does a number that has to fit, *)
LEMMA RoomChecked == ASSUME RoomIInv, GetChecked PROVE RoomIInv'
<1> DEFINE f == Head(todo)
<1>1. todo # <<>> /\ f.kind \in Checked
  BY DEF GetChecked, Reads
<1>2. 8 \in Nat /\ Narrowest(f.kind) <= 8
  BY <1>1 DEF Checked, Narrowest
<1>3. PICK got \in Raw(f.kind, 8) :
        /\ reader' = IF leg = "core" /\ ~got.number.fits THEN Fails(got.reader) ELSE got.reader
        /\ read' = got.read
  BY DEF GetChecked
<1>4. /\ todo' = Tail(todo) /\ call' = call /\ sent' = sent /\ size' = size
      /\ reserved' = reserved
  BY DEF GetChecked, ThePayload
<1>5. Onward(reader, got.reader, 8) /\ got.read \in [sent : Nat, astray : BOOLEAN]
  BY <1>2, RawReads DEF RoomIInv
<1>6. got.reader.at <= size /\ (~got.reader.failed => Backed(Tail(todo), reserved, got.reader.at))
  BY <1>1, <1>2, <1>5, OnwardIsBacked
<1>7. Tail(todo) \in Seq(Contract) /\ got.reader \in Reader
  BY <1>1, <1>5, RestIsContract DEF RoomIInv, Carries, Onward
<1>8. /\ reader' \in Reader /\ reader'.at = got.reader.at
      /\ ~reader'.failed => ~got.reader.failed
  BY <1>3, <1>7, FailedStays
<1>9. Carries'
  BY <1>3, <1>4, <1>5, <1>7, <1>8 DEF RoomIInv, Carries, Contracted
<1>10. Room'
  BY <1>4, <1>6, <1>8 DEF RoomIInv, Room
<1> QED
  BY <1>9, <1>10 DEF RoomIInv

(* a string or bytes, *)
LEMMA RoomText == ASSUME RoomIInv, GetText PROVE RoomIInv'
<1> DEFINE f == Head(todo)
<1>1. todo # <<>> /\ f.kind \in {"string", "bytes"}
  BY DEF GetText, Reads
<1>2. 4 \in Nat /\ Narrowest(f.kind) <= 4
  BY <1>1 DEF Narrowest
<1>3. PICK got \in Raw("count", 4) :
        IF \/ got.reader.failed \/ got.number.claim < 0
           \/ got.number.claim > size - got.reader.at
          THEN reader' = Fails(got.reader) /\ read' = got.read
          ELSE /\ reader' = [got.reader EXCEPT !.at = @ + got.number.claim]
               /\ read' = [got.read EXCEPT !.sent = IF got.read.astray THEN @ ELSE @ + 1]
  BY DEF GetText
<1>4. /\ todo' = Tail(todo) /\ call' = call /\ sent' = sent /\ size' = size
      /\ reserved' = reserved
  BY DEF GetText, ThePayload
<1>5. /\ got.number.claim \in Int /\ Onward(reader, got.reader, 4)
      /\ got.read \in [sent : Nat, astray : BOOLEAN]
  BY <1>2, RawReads DEF RoomIInv
<1>6. got.reader.at <= size /\ (~got.reader.failed => Backed(Tail(todo), reserved, got.reader.at))
  BY <1>1, <1>2, <1>5, OnwardIsBacked
<1>7. /\ Tail(todo) \in Seq(Contract) /\ got.reader \in Reader /\ got.reader.at \in Nat
      /\ size \in Nat
  BY <1>1, <1>5, RestIsContract DEF RoomIInv, Carries, Onward, Reader
<1> DEFINE length == got.number.claim
           at == got.reader.at
<1>8. CASE got.reader.failed \/ length < 0 \/ length > size - at
  <2>1. reader' = Fails(got.reader) /\ read' = got.read
    BY <1>3, <1>8
  <2>2. reader' \in Reader /\ reader'.failed /\ reader'.at = at
    BY <1>7, <2>1, FailedStays
  <2>3. Carries'
    BY <1>4, <1>5, <1>7, <2>1, <2>2 DEF RoomIInv, Carries, Contracted
  <2>4. Room'
    BY <1>4, <1>6, <2>2 DEF RoomIInv, Room
  <2> QED
    BY <2>3, <2>4 DEF RoomIInv
<1>9. CASE ~(got.reader.failed \/ length < 0 \/ length > size - at)
  <2> DEFINE bt == at + length
             here == [got.reader EXCEPT !.at = bt]
             on == [got.read EXCEPT !.sent = IF got.read.astray THEN @ ELSE @ + 1]
  <2>1. bt \in Nat /\ bt <= size /\ at <= bt /\ at \in Nat
    <3>1. length \in Int /\ at \in Nat /\ size \in Nat /\ 0 <= length /\ length <= size - at
      BY <1>5, <1>7, <1>9
    <3> HIDE DEF length, at
    <3> QED
      BY <3>1
  <2>2. here \in Reader /\ here.at = bt /\ ~here.failed
    <3> HIDE DEF bt
    <3> QED
      BY <1>7, <1>9, <2>1 DEF Reader
  <2>3. on \in [sent : Nat, astray : BOOLEAN]
    <3>1. got.read.sent \in Nat /\ got.read.sent + 1 \in Nat
      BY <1>5
    <3> QED
      BY <1>5, <3>1
  <2>4. reader' = here /\ read' = on
    BY <1>3, <1>9
  <2>5. Backed(Tail(todo), reserved, bt)
    <3>1. Backed(Tail(todo), reserved, at) /\ reserved \in Nat
      BY <1>6, <1>9 DEF RoomIInv, Carries
    <3> HIDE DEF at, bt
    <3> QED
      BY <1>7, <2>1, <3>1, BackedLater
  <2> HIDE DEF here, on, bt
  <2>6. Carries'
    BY <1>4, <1>7, <2>2, <2>3, <2>4 DEF RoomIInv, Carries, Contracted
  <2>7. Room'
    BY <1>4, <2>1, <2>2, <2>4, <2>5 DEF RoomIInv, Room
  <2> QED
    BY <2>6, <2>7 DEF RoomIInv
<1> QED
  BY <1>8, <1>9

(* and a list: its count is taken only where the payload still holds as many. *)
LEMMA RoomCount == ASSUME RoomIInv, GetCount PROVE RoomIInv'
<1> DEFINE f == Head(todo)
           least == LeastBytes(f)
<1>1. todo # <<>> /\ f.kind = "count" /\ f \in Contract /\ Tail(todo) \in Seq(Contract)
  BY RestIsContract DEF GetCount, Reads, RoomIInv, Carries
<1>2. f \in Lists /\ f.of \in Seq(Plain) /\ f.least \in Nat \ {0} /\ Takes(f.of, f.least)
  BY <1>1 DEF Contract, Lists, Plain, PlainKinds
<1>3. least \in Nat \ {0} /\ Takes(f.of, least)
  <2>1. Takes(f.of, 1)
    BY <1>2, TakesLess
  <2> QED
    BY <1>2, <2>1 DEF LeastBytes
<1> HIDE DEF least
<1>4. 4 \in Nat /\ Narrowest(f.kind) <= 4
  BY <1>1 DEF Narrowest
<1>5. PICK got \in Raw("count", 4) :
        /\ read' = got.read
        /\ IF \/ got.reader.failed \/ got.number.claim < 0
              \/ ~HasRoom(got.number.claim, least, size - got.reader.at)
             THEN /\ reader' = Fails(got.reader) /\ todo' = Tail(todo)
                  /\ UNCHANGED reserved
             ELSE /\ reader' = got.reader
                  /\ todo' = Copies(got.number.claim, f.of) \o Tail(todo)
                  /\ reserved' = reserved + got.number.claim * least
  BY DEF GetCount, least, Copies
<1>6. call' = call /\ sent' = sent /\ size' = size
  BY DEF GetCount, ThePayload
<1> DEFINE count == got.number.claim
           at == got.reader.at
<1>7. /\ count \in Int /\ Onward(reader, got.reader, 4)
      /\ got.read \in [sent : Nat, astray : BOOLEAN]
  BY <1>4, RawReads DEF RoomIInv
<1>8. at <= size
  BY <1>1, <1>4, <1>7, OnwardIsBacked
<1>9. got.reader \in Reader /\ at \in Nat /\ size \in Nat /\ reserved \in Nat
  BY <1>7 DEF RoomIInv, Carries, Onward, Reader
<1>10. CASE got.reader.failed \/ count < 0 \/ ~HasRoom(count, least, size - at)
  <2>1. reader' = Fails(got.reader) /\ todo' = Tail(todo) /\ reserved' = reserved
    BY <1>5, <1>10
  <2>2. reader' \in Reader /\ reader'.failed /\ reader'.at = at
    BY <1>9, <2>1, FailedStays
  <2>3. Carries'
    BY <1>1, <1>5, <1>6, <1>7, <2>1, <2>2 DEF RoomIInv, Carries, Contracted
  <2>4. Room'
    BY <1>6, <1>8, <2>1, <2>2 DEF RoomIInv, Room
  <2> QED
    BY <2>3, <2>4 DEF RoomIInv
<1>11. CASE ~(got.reader.failed \/ count < 0 \/ ~HasRoom(count, least, size - at))
  <2> DEFINE rest == Tail(todo)
             next == Copies(count, f.of) \o rest
             left == size - at
             room == count * least
             made == reserved + room
             was == reader.at
  <2>1. /\ reader' = got.reader /\ todo' = next /\ reserved' = made
        /\ ~got.reader.failed /\ ~(count < 0) /\ HasRoom(count, least, left)
    BY <1>5, <1>11
  <2>2. ~reader.failed /\ at = was + 4 /\ was \in Nat
    BY <1>7, <2>1 DEF RoomIInv, Carries, Onward, Reader
  <2>3. reserved <= was
    <3>1. Backed(todo, reserved, was) /\ todo \in Seq(Contract)
      BY <2>2 DEF RoomIInv, Carries, Room
    <3> HIDE DEF was
    <3> QED
      BY <1>2, <1>9, <2>2, <3>1, BackedUntilAList
  <2> HIDE DEF was, at
  <2>4. left \in Nat /\ count \in Nat
    <3> HIDE DEF count
    <3> QED
      BY <1>7, <1>8, <1>9, <2>1
  <2> HIDE DEF left
  <2>5. room <= left /\ room \in Nat
    <3> HIDE DEF count
    <3>1. count * least <= left
      BY <1>3, <2>1, <2>4, FitsDivided
    <3>2. count * least \in Nat
      BY <1>3, <2>4
    <3> QED
      BY <3>1, <3>2
  <2>6. Backed(next, made, at)
    <3>1. reserved <= at
      BY <1>9, <2>2, <2>3
    <3> HIDE DEF count
    <3> QED
      BY <1>1, <1>2, <1>3, <1>9, <2>4, <3>1, BackedByElements
  <2>7. next \in Seq(Contract)
    <3> HIDE DEF count, rest
    <3>1. Copies(count, f.of) \in Seq(Contract)
      BY <1>2, <2>4, CopiesArePlain, PlainIsContract
    <3> QED
      BY <1>1, <3>1, ConcatProperties DEF rest
  <2> HIDE DEF room
  <2>8. made \in Nat /\ made <= size
    BY <1>8, <1>9, <2>2, <2>3, <2>5 DEF left
  <2> HIDE DEF next, made
  <2>9. Carries'
    BY <1>5, <1>6, <1>7, <1>9, <2>1, <2>7, <2>8 DEF RoomIInv, Carries, Contracted
  <2>10. Room'
    BY <1>6, <1>8, <2>1, <2>6, <2>8 DEF RoomIInv, Room, at
  <2> QED
    BY <2>9, <2>10 DEF RoomIInv
<1> QED
  BY <1>10, <1>11

(* A payload that arrives is read from its start, and no room was made yet. *)
LEMMA RoomArrives ==
  ASSUME Contracted(call), call' = call, NEW numbers \in Seq(Wire), NEW bytes \in Nat,
         NEW fault, Arrives(numbers, bytes, fault), todo' \in Seq(Contract)
  PROVE  RoomIInv'
<1>1. /\ sent' = numbers /\ size' = bytes /\ reader' = Begun /\ read' = NothingRead
      /\ reserved' = 0
  BY DEF Arrives
<1>2. Begun \in Reader /\ Begun.at = 0 /\ NothingRead \in [sent : Nat, astray : BOOLEAN]
  BY DEF Begun, NothingRead, Reader
<1>3. Carries'
  BY <1>1, <1>2 DEF Carries, Contracted
<1>4. \A fields \in Seq(Contract) : Backed(fields, 0, 0)
  BY BackedAlready
<1>5. Room'
  BY <1>1, <1>2, <1>4 DEF Room
<1> QED
  BY <1>3, <1>5 DEF RoomIInv

(* The bytes of a payload are a number. *)
LEMMA BytesAreANumber ==
  ASSUME NEW numbers \in Seq(Wire)
  PROVE  Bytewise(numbers) \in Nat
<1>1. PICK pos \in [0..Len(numbers) -> Nat] : Places(pos, numbers)
  BY BytesAddUp
<1>2. Len(numbers) \in Nat
  BY LenProperties
<1> QED
  BY <1>1, <1>2 DEF Places

(* A payload just sent has nothing reserved of it. *)
LEMMA RoomSent ==
  ASSUME Contracted(call), call' = call, NEW numbers \in Seq(Wire), Sends(numbers),
         todo' \in Seq(Contract)
  PROVE  RoomIInv'
<1>1. Bytewise(numbers) \in Nat
  BY BytesAreANumber
<1> DEFINE all == Bytewise(numbers)
<1>2. CASE Arrives(numbers, all, "nothing")
  <2> HIDE DEF all
  <2> QED
    BY <1>1, <1>2, RoomArrives DEF all
<1>3. CASE \E bytes \in 0..(all - 1) : Arrives(numbers, bytes, "cut")
  <2>1. PICK bytes \in 0..(all - 1) : Arrives(numbers, bytes, "cut")
    BY <1>3
  <2>2. bytes \in Nat
    <3> HIDE DEF all
    <3> QED
      BY <1>1
  <2> QED
    BY <2>1, <2>2, RoomArrives
<1> QED
  BY <1>2, <1>3 DEF Sends

(* What is sound can be on the wire. *)
LEMMA SoundIsWire ==
  ASSUME NEW x \in Seq(Sound)
  PROVE  x \in Seq(Wire)
<1>1. Sound \subseteq Wire
  BY DEF Sound, Wire
<1> QED
  BY <1>1, SeqMonotonic

(* So is all that is encoded. *)
LEMMA EncodeIsWire ==
  ASSUME NEW fields \in Seq(Contract), NEW length \in Nat
  PROVE  Encode(fields, length) \in Seq(Wire)
BY EncodeSays, SoundIsWire DEF Says

(* A call begins with nothing reserved. *)
LEMMA RoomAsked == ASSUME RoomIInv, Asks PROVE RoomIInv'
<1>1. PICK length \in 0..MaxLength :
        Sends(Encode(call.takes, length)) \/ SendsAmiss(Encode(call.takes, length))
  BY DEF Asks
<1> DEFINE numbers == Encode(call.takes, length)
<1>2. /\ Contracted(call) /\ call' = call /\ todo' = call.takes
      /\ call.takes \in Seq(Contract) /\ todo' \in Seq(Contract)
  BY DEF Asks, RoomIInv, Carries, Contracted
<1>3. numbers \in Seq(Wire) /\ Bytewise(numbers) \in Nat
  <2>1. length \in Nat
    BY FacadeAssumption
  <2> QED
    BY <1>2, <2>1, EncodeIsWire, BytesAreANumber
<1> DEFINE all == Bytewise(numbers)
<1> HIDE DEF numbers
<1>4. CASE Sends(numbers)
  BY <1>2, <1>3, <1>4, RoomSent
<1>5. CASE SendsAmiss(numbers)
  <2>1. PICK i \in DOMAIN numbers :
          \/ Arrives([numbers EXCEPT ![i].fits = FALSE], all, "unfit")
          \/ \E claim \in Claims :
               Arrives([numbers EXCEPT ![i].claim = claim, ![i].true = FALSE], all, "lie")
    BY <1>5 DEF SendsAmiss
  <2>2. numbers[i] \in Wire
    BY <1>3, ElementOfSeq
  <2>3. CASE Arrives([numbers EXCEPT ![i].fits = FALSE], all, "unfit")
    <3> DEFINE n == [numbers[i] EXCEPT !.fits = FALSE]
               x == [numbers EXCEPT ![i] = n]
    <3>1. n \in Wire
      BY <2>2 DEF Wire
    <3>2. x = [numbers EXCEPT ![i].fits = FALSE]
      OBVIOUS
    <3> HIDE DEF n
    <3>3. x \in Seq(Wire)
      BY <1>3, <3>1, ElementReplaced
    <3> HIDE DEF x, all
    <3>4. Arrives(x, all, "unfit")
      BY <2>3, <3>2
    <3> QED
      BY <1>2, <1>3, <3>3, <3>4, RoomArrives DEF all
  <2>4. CASE \E claim \in Claims :
               Arrives([numbers EXCEPT ![i].claim = claim, ![i].true = FALSE], all, "lie")
    <3>1. PICK claim \in Claims :
            Arrives([numbers EXCEPT ![i].claim = claim, ![i].true = FALSE], all, "lie")
      BY <2>4
    <3> DEFINE n == [numbers[i] EXCEPT !.claim = claim, !.true = FALSE]
               x == [numbers EXCEPT ![i] = n]
    <3>2. n \in Wire
      BY <2>2, FacadeAssumption DEF Wire
    <3>3. x = [numbers EXCEPT ![i].claim = claim, ![i].true = FALSE]
      BY <1>3
    <3> HIDE DEF n
    <3>4. x \in Seq(Wire)
      BY <1>3, <3>2, ElementReplaced
    <3> HIDE DEF x, all
    <3>5. Arrives(x, all, "lie")
      BY <3>1, <3>3
    <3> QED
      BY <1>2, <1>3, <3>4, <3>5, RoomArrives DEF all
  <2> QED
    BY <2>1, <2>3, <2>4
<1> QED
  BY <1>1, <1>4, <1>5 DEF numbers

(* What a status leads, if anything. *)
Led(ok) == IF ok THEN call.answers ELSE <<>>

(* What the core answers can be on the wire, and says what it should. *)
LEMMA AnswerIsWire ==
  ASSUME Contracted(call), NEW ok \in BOOLEAN
  PROVE  /\ Led(ok) \in Seq(Contract) /\ Status \o Led(ok) \in Seq(Contract)
         /\ Says(Encode(Status \o Led(ok), MaxLength), Status \o Led(ok))
         /\ Answer(ok) \in Seq(Wire)
<1> DEFINE fields == Status \o Led(ok)
           x == Encode(fields, MaxLength)
           k == IF ok THEN 0 ELSE 1
           n == [x[1] EXCEPT !.claim = k]
           y == [x EXCEPT ![1] = n]
<1>1. Led(ok) \in Seq(Contract)
  BY EmptySeq DEF Led, Contracted
<1>2. fields \in Seq(Contract)
  BY <1>1, RecordsArePlain, PlainIsContract, ConcatProperties
<1>3. Answer(ok) = [x EXCEPT ![1].claim = k]
  BY DEF Answer, Led
<1> HIDE DEF fields
<1>4. x \in Seq(Wire) /\ Says(x, fields)
  BY <1>2, FacadeAssumption, EncodeIsWire, EncodeSays
<1> HIDE DEF x
<1>5. k \in Int
  OBVIOUS
<1> HIDE DEF k
<1>6. y = [x EXCEPT ![1].claim = k]
  OBVIOUS
<1>7. y \in Seq(Wire)
  <2>1. CASE x = <<>>
    <3>1. Len(x) = 0 /\ x \in [1..Len(x) -> Wire]
      BY <1>4, <2>1
    <3>2. 1 \notin DOMAIN x
      BY <3>1
    <3>3. y = x
      BY <1>4, <3>1, <3>2
    <3> QED
      BY <1>4, <3>3
  <2>2. CASE x # <<>>
    <3>1. x[1] \in Wire
      BY <1>4, <2>2, EmptySeq, LenProperties, ElementOfSeq
    <3>2. n \in Wire
      BY <1>5, <3>1 DEF Wire
    <3> HIDE DEF n
    <3> QED
      BY <1>4, <3>2, ElementReplaced
  <2> QED
    BY <2>1, <2>2
<1> HIDE DEF y, n
<1> QED
  BY <1>1, <1>2, <1>3, <1>4, <1>6, <1>7 DEF fields, x

(* Nor has the answer anything reserved. *)
LEMMA RoomDispatched == ASSUME RoomIInv, Dispatches PROVE RoomIInv'
<1>1. PICK ok \in BOOLEAN : Sends(Answer(ok))
  BY DEF Dispatches
<1>2. Contracted(call) /\ call' = call /\ todo' = Status
  BY DEF Dispatches, RoomIInv, Carries
<1>3. Answer(ok) \in Seq(Wire) /\ Status \in Seq(Contract)
  BY <1>2, AnswerIsWire, RecordsArePlain, PlainIsContract
<1> QED
  BY <1>1, <1>2, <1>3, RoomSent

(* The status and the value have been read: nothing moves. *)
LEMMA RoomRead == ASSUME RoomIInv, StatusRead \/ ValueRead PROVE RoomIInv'
<1>1. /\ call' = call /\ sent' = sent /\ size' = size /\ reader' = reader /\ read' = read
      /\ reserved' = reserved /\ todo = <<>> /\ (todo' = <<>> \/ todo' = call.answers)
  BY DEF StatusRead, ValueRead, HasRead
<1>2. todo' \in Seq(Contract)
  BY <1>1, EmptySeq DEF RoomIInv, Carries, Contracted
<1>3. ~reader.failed => reserved <= reader.at
  <2>1. reserved \in Nat /\ reader.at \in Nat /\ todo \in Seq(Contract)
    BY DEF RoomIInv, Carries, Reader
  <2>2. ~reader.failed => Backed(todo, reserved, reader.at)
    BY DEF RoomIInv, Room
  <2> QED
    BY <1>1, <2>1, <2>2, BackedUntilAList
<1>4. ~reader.failed => Backed(todo', reserved, reader.at)
  <2>1. reserved \in Nat /\ reader.at \in Nat
    BY DEF RoomIInv, Carries, Reader
  <2>2. \A fields \in Seq(Contract) : ~reader.failed => Backed(fields, reserved, reader.at)
    BY <1>3, <2>1, BackedAlready
  <2> QED
    BY <1>2, <2>2
<1>5. Carries'
  BY <1>1, <1>2 DEF RoomIInv, Carries, Contracted
<1>6. Room'
  BY <1>1, <1>4 DEF RoomIInv, Room
<1> QED
  BY <1>5, <1>6 DEF RoomIInv

(* Before any call nothing is reserved. *)
LEMMA RoomStarts == CallInit => RoomIInv
<1> SUFFICES ASSUME CallInit PROVE RoomIInv
  OBVIOUS
<1>1. Contracted(call)
  BY CallsAreContracts DEF CallInit
<1>2. /\ sent = <<>> /\ todo = <<>> /\ size = 0 /\ reader = Begun /\ read = NothingRead
      /\ reserved = 0
  BY DEF CallInit
<1>3. sent \in Seq(Wire) /\ todo \in Seq(Contract)
  BY <1>2, EmptySeq
<1>4. Begun \in Reader /\ Begun.at = 0 /\ NothingRead \in [sent : Nat, astray : BOOLEAN]
  BY DEF Begun, NothingRead, Reader
<1>5. Backed(todo, 0, 0)
  BY <1>3, BackedAlready
<1>6. Carries
  BY <1>1, <1>2, <1>3, <1>4 DEF Carries
<1>7. Room
  BY <1>2, <1>4, <1>5 DEF Room
<1> QED
  BY <1>6, <1>7 DEF RoomIInv

(* Every step of a call keeps what is reserved backed. *)
LEMMA RoomKept == ASSUME RoomIInv, [CallNext]_callVars PROVE RoomIInv'
<1>1. CASE UNCHANGED callVars
  BY <1>1 DEF callVars, RoomIInv, Carries, Room, Contracted
<1>2. CASE CallNext
  BY <1>2, RoomAsked, RoomScalar, RoomChecked, RoomText, RoomCount, RoomDispatched, RoomRead
     DEF CallNext
<1> QED
  BY <1>1, <1>2

(* Whatever lengths a payload claims, and wherever it is cut, a reader      *)
(* reserves no more than the payload can still hold and reads nothing past  *)
(* its end (wire.h, count and get_bytes): for every call of the contract,   *)
(* every length of text and every number that may be claimed.               *)
THEOREM RoomAlwaysBacked == CallSpec => []RoomIsBacked
<1>1. RoomIInv => RoomIsBacked
  BY DEF RoomIInv, Room, RoomIsBacked
<1> QED
  BY <1>1, RoomStarts, RoomKept, PTL DEF CallSpec

-----------------------------------------------------------------------------
(* A field fills the bytes that reading it takes at least. *)
LEMMA FieldFills ==
  ASSUME NEW x \in Seq(Wire), NEW pos \in [0..Len(x) -> Nat], Places(pos, x),
         NEW p \in 0..Len(x), NEW q \in 0..Len(x), NEW f \in Plain, SpellsField(x, p, q, f)
  PROVE  pos[p] + Narrowest(f.kind) <= pos[q]
<1> DEFINE n == Len(x)
<1>1. n \in Nat /\ \A i \in 1..n : x[i] \in Wire
  BY LenProperties, ElementOfSeq
<1>2. \A i \in 1..n : pos[i] = pos[i - 1] + x[i].width
  BY DEF Places
<1> HIDE DEF n
<1>3. p \in 0..n /\ q \in 0..n /\ \A i \in 0..n : pos[i] \in Nat
  BY DEF n
<1>4. CASE f.kind \in Scalars /\ q = p + 1 /\ x[q].kind = f.kind /\ x[q].width = Width(f.kind)
  <2>1. q \in 1..n /\ q - 1 = p
    BY <1>1, <1>3, <1>4
  <2>2. pos[q] = pos[p] + Width(f.kind)
    BY <1>2, <1>4, <2>1
  <2>3. Width(f.kind) = Narrowest(f.kind)
    BY <1>4 DEF Width, Narrowest, Scalars
  <2> QED
    BY <1>3, <2>2, <2>3, NarrowestIsANumber
<1>5. CASE /\ f.kind \in Texts /\ q = p + 2
           /\ x[p + 1].kind = "count" /\ x[p + 1].width = 4
           /\ x[q].kind = "raw" /\ x[p + 1].claim = x[q].width
  <2> DEFINE m == p + 1
  <2>1. q \in 1..n /\ q - 1 = m /\ m \in 1..n /\ m - 1 = p
    BY <1>1, <1>3, <1>5
  <2>2. pos[q] = pos[m] + x[q].width /\ pos[m] = pos[p] + x[m].width /\ x[m].width = 4
    BY <1>2, <1>5, <2>1
  <2>3. x[q].width \in Nat
    BY <1>1, <2>1 DEF Wire
  <2>4. Narrowest(f.kind) = 4
    BY <1>5 DEF Narrowest, Texts
  <2> QED
    BY <1>3, <2>2, <2>3, <2>4
<1> QED
  BY <1>4, <1>5 DEF SpellsField

(* Fields fill the bytes they take at least. *)
LEMMA FieldsFill ==
  ASSUME NEW x \in Seq(Wire), NEW pos \in [0..Len(x) -> Nat], Places(pos, x),
         NEW a \in 0..Len(x), NEW b \in 0..Len(x), NEW fields \in Seq(Plain),
         SpellsFields(x, a, b, fields), NEW w \in Nat, Takes(fields, w)
  PROVE  pos[a] + w <= pos[b]
<1> DEFINE n == Len(fields)
           l == Len(x)
<1>1. n \in Nat /\ l \in Nat /\ \A i \in 1..n : fields[i] \in Plain
  BY LenProperties, ElementOfSeq
<1>2. PICK owed : Spends(owed, fields, w)
  BY DEF Takes
<1>3. /\ owed \in [0..n -> Nat] /\ w <= owed[0] /\ owed[n] = 0
      /\ \A i \in 1..n : owed[i - 1] <= owed[i] + Narrowest(fields[i].kind)
  BY <1>2 DEF Spends
<1>4. PICK mark \in [0..n -> a..b] :
        /\ mark[0] = a /\ mark[n] = b
        /\ \A i \in 1..n : SpellsField(x, mark[i - 1], mark[i], fields[i])
  BY DEF SpellsFields
<1> HIDE DEF n, l
<1>5. \A i \in 0..n : mark[i] \in 0..l /\ pos[mark[i]] \in Nat /\ owed[i] \in Nat
  <2>1. \A m \in a..b : m \in 0..l
    BY <1>1 DEF l
  <2> QED
    BY <1>3, <1>4, <2>1 DEF l
<1> DEFINE Under(i) == pos[a] + w <= pos[mark[i]] + owed[i]
           Good == {i \in Nat : i <= n => Under(i)}
<1>6. 0 \in Good
  <2>1. 0 \in 0..n /\ pos[a] \in Nat
    BY <1>1
  <2> QED
    BY <1>3, <1>4, <1>5, <2>1
<1>7. ASSUME NEW k \in Good PROVE k + 1 \in Good
  <2>1. CASE k + 1 <= n
    <3> DEFINE i == k + 1
    <3>1. i \in 1..n /\ i - 1 = k /\ k \in 0..n /\ i \in 0..n /\ Under(k)
      BY <1>1, <2>1
    <3> HIDE DEF i
    <3>2. owed[k] <= owed[i] + Narrowest(fields[i].kind)
      BY <1>3, <3>1
    <3>3. pos[mark[k]] + Narrowest(fields[i].kind) <= pos[mark[i]]
      <4>1. SpellsField(x, mark[k], mark[i], fields[i])
        BY <1>4, <3>1
      <4>2. mark[k] \in 0..Len(x) /\ mark[i] \in 0..Len(x) /\ fields[i] \in Plain
        BY <1>1, <1>5, <3>1 DEF l
      <4> QED
        BY <4>1, <4>2, FieldFills
    <3> DEFINE s == pos[mark[k]]
               t == pos[mark[i]]
               u == owed[k]
               v == owed[i]
               m == Narrowest(fields[i].kind)
    <3>4. s \in Nat /\ t \in Nat /\ u \in Nat /\ v \in Nat /\ m \in Nat /\ pos[a] \in Nat
      BY <1>5, <3>1, NarrowestIsANumber
    <3>5. pos[a] + w <= s + u /\ u <= v + m /\ s + m <= t
      BY <3>1, <3>2, <3>3
    <3> HIDE DEF s, t, u, v, m
    <3>6. pos[a] + w <= t + v
      BY <3>4, <3>5
    <3>7. Under(i)
      BY <3>6 DEF t, v
    <3> HIDE DEF Under
    <3> QED
      BY <2>1, <3>7 DEF i
  <2>2. CASE ~(k + 1 <= n)
    BY <2>2
  <2> QED
    BY <2>1, <2>2
<1>8. Under(n)
  <2>1. Good \in SUBSET Nat
    OBVIOUS
  <2>2. n \in Good
    <3> HIDE DEF Good
    <3> QED
      BY <1>1, <1>6, <1>7, <2>1, InductiveSet
  <2> HIDE DEF Under
  <2> QED
    BY <1>1, <2>2
<1> QED
  BY <1>3, <1>4, <1>8

(* No number lies past the end of its payload. *)
LEMMA PlacesRise ==
  ASSUME NEW x \in Seq(Wire), NEW pos \in [0..Len(x) -> Nat], Places(pos, x)
  PROVE  \A i \in 0..Len(x) : pos[i] <= Bytewise(x)
<1> DEFINE n == Len(x)
<1>1. n \in Nat /\ \A i \in 1..n : x[i] \in Wire
  BY LenProperties, ElementOfSeq
<1>2. \A i \in 1..n : pos[i] = pos[i - 1] + x[i].width
  BY DEF Places
<1> HIDE DEF n
<1>3. \A i \in 0..n : pos[i] \in Nat
  BY DEF n
<1>4. \A i \in 1..n : pos[i - 1] <= pos[i]
  <2>1. ASSUME NEW i \in 1..n PROVE pos[i - 1] <= pos[i]
    <3>1. i - 1 \in 0..n /\ x[i].width \in Nat
      BY <1>1 DEF Wire
    <3>2. pos[i - 1] \in Nat /\ pos[i] = pos[i - 1] + x[i].width
      BY <1>2, <1>3, <3>1
    <3> QED
      BY <3>1, <3>2
  <2> QED
    BY <2>1
<1>5. \A i \in 0..n : \A j \in i..n : pos[i] <= pos[j]
  BY <1>1, <1>3, <1>4, RisingStays
<1>6. \A i \in 0..n : n \in i..n
  BY <1>1
<1>7. Bytewise(x) = pos[n]
  BY DEF Places, n
<1> QED
  BY <1>5, <1>6, <1>7 DEF n

(* What is wrong with a payload, of one that does not lie. *)
Intact(x, bytes, fault, who) ==
  /\ \A i \in 1..Len(x) : x[i].true
  /\ fault \in {"nothing", "cut", "unfit"}
  /\ IF fault = "cut" THEN bytes < Bytewise(x) ELSE bytes = Bytewise(x)
  /\ IF fault = "unfit" THEN who = "core" ELSE \A i \in 1..Len(x) : x[i].fits

(* The reader is where what it has read ends, and what it is to read is     *)
(* spelled by what follows.                                                 *)
Stands(pos, x, r, d, fields) ==
  /\ pos \in [0..Len(x) -> Nat] /\ Places(pos, x)
  /\ d.sent \in 0..Len(x) /\ r.at = pos[d.sent]
  /\ Spells(x, d.sent, Len(x), fields)

Unfit(x, i) == x[i].kind \in Checked /\ ~x[i].fits

(* Nothing is misread; what is read to its end was not cut short, and a     *)
(* number that fits nothing is still ahead of a reader that has not failed. *)
Follows(x, fault, r, d, fields) ==
  /\ ~d.astray /\ (fault = "nothing" => ~r.failed)
  /\ ~r.failed => \E pos : Stands(pos, x, r, d, fields)
  /\ ~r.failed /\ fault = "unfit" => \E i \in (d.sent + 1)..Len(x) : Unfit(x, i)

(* A reader that failed, over a payload with something wrong, misread nothing. *)
LEMMA FailedFollows ==
  ASSUME NEW x, NEW fault, NEW r, r.failed, NEW d, ~d.astray, fault # "nothing", NEW fields
  PROVE  Follows(x, fault, r, d, fields)
BY DEF Follows

(* A raw read that fails moves nothing. *)
LEMMA FailedReads ==
  ASSUME Carries, reader.failed, NEW kind, NEW width, NEW got \in Raw(kind, width)
  PROVE  got.reader.failed /\ got.read = read
<1>1. reader \in Reader
  BY DEF Carries
<1>2. got = [number |-> Zero, reader |-> [reader EXCEPT !.failed = TRUE], read |-> read]
  BY DEF Raw, Latched
<1> QED
  BY <1>1, <1>2 DEF Reader

(* The number that is due is read as it was sent, if it arrived. *)
LEMMA DueIsRead ==
  ASSUME Carries, NEW pos, NEW fields, Stands(pos, sent, reader, read, fields),
         ~read.astray, ~reader.failed, NEW k \in 1..Len(sent), k = read.sent + 1, sent[k].true,
         NEW got \in Raw(sent[k].kind, sent[k].width)
  PROVE  /\ got.reader.failed => got.read = read /\ ~(pos[k] <= size)
         /\ ~got.reader.failed =>
              /\ got.number = sent[k] /\ got.reader.at = pos[k]
              /\ got.read.sent = k /\ ~got.read.astray
<1> DEFINE kind == sent[k].kind
           width == sent[k].width
           at == reader.at
<1>1. /\ reader \in Reader /\ read \in [sent : Nat, astray : BOOLEAN] /\ size \in Nat
      /\ sent \in Seq(Wire) /\ at \in Nat /\ read.sent \in Nat
  BY DEF Carries, Reader
<1>2. Len(sent) \in Nat /\ sent[k] \in Wire /\ width \in Nat
  <2>1. Len(sent) \in Nat /\ sent[k] \in Wire
    BY <1>1, LenProperties, ElementOfSeq
  <2> QED
    BY <2>1 DEF Wire
<1>3. k - 1 = read.sent /\ read.sent < Len(sent)
  BY <1>1, <1>2
<1>4. at + width = pos[k]
  BY <1>3 DEF Stands, Places
<1>5. OnCourse(kind) /\ DueNumber = sent[k]
  BY <1>3 DEF OnCourse, DueNumber
<1> HIDE DEF kind, width
<1>6. got \in Raw(kind, width)
  BY DEF kind, width
<1>7. CASE at + width > size
  <2>1. got = [number |-> Zero, reader |-> [reader EXCEPT !.failed = TRUE], read |-> read]
    BY <1>6, <1>7 DEF Raw, Latched
  <2>2. got.reader.failed /\ got.read = read
    BY <1>1, <2>1 DEF Reader
  <2>3. ~(pos[k] <= size)
    BY <1>1, <1>2, <1>4, <1>7
  <2> QED
    BY <2>2, <2>3
<1>8. CASE ~(at + width > size)
  <2>1. PICK number \in {DueNumber} :
          got = [number |-> number,
                 reader |-> [at |-> reader.at + width, failed |-> FALSE],
                 read |-> IF number.true THEN [read EXCEPT !.sent = @ + 1]
                          ELSE [read EXCEPT !.astray = TRUE]]
    BY <1>5, <1>6, <1>8 DEF Raw, Latched
  <2>2. number = sent[k]
    BY <1>5, <2>1
  <2>3. /\ got.number = sent[k] /\ got.reader.at = reader.at + width /\ ~got.reader.failed
        /\ got.read = [read EXCEPT !.sent = @ + 1]
    BY <2>1, <2>2
  <2>4. got.read.sent = k /\ ~got.read.astray
    BY <1>1, <2>3
  <2> QED
    BY <1>4, <2>3, <2>4
<1> QED
  BY <1>7, <1>8

(* Where the next field of a payload ends. *)
LEMMA NextIsSpelled ==
  ASSUME NEW pos, NEW fields \in Seq(Contract), fields # <<>>, sent \in Seq(Wire),
         Stands(pos, sent, reader, read, fields)
  PROVE  \E b \in read.sent..Len(sent) :
           /\ SpellsOne(sent, read.sent, b, Head(fields))
           /\ Spells(sent, b, Len(sent), Tail(fields))
<1>1. Len(sent) \in Nat
  BY LenProperties
<1>2. read.sent \in Nat /\ Spells(sent, read.sent, Len(sent), fields)
  BY <1>1 DEF Stands
<1> QED
  BY <1>1, <1>2, SpellsFirst

(* No number beyond the end of one that arrived. *)
LEMMA WithinThePayload ==
  ASSUME sent \in Seq(Wire), Intact(sent, size, wrong, leg), NEW pos, NEW r, NEW d, NEW fields,
         Stands(pos, sent, r, d, fields), wrong # "cut", NEW k \in 0..Len(sent)
  PROVE  pos[k] <= size
<1>1. pos \in [0..Len(sent) -> Nat] /\ Places(pos, sent)
  BY DEF Stands
<1>2. pos[k] <= Bytewise(sent)
  BY <1>1, PlacesRise
<1> QED
  BY <1>2 DEF Intact

(* A field of one number is read as it was sent, or was cut off. *)
LEMMA ScalarIsRead ==
  ASSUME Carries, Intact(sent, size, wrong, leg), NEW fields \in Seq(Contract), fields # <<>>,
         Follows(sent, wrong, reader, read, fields), Head(fields).kind \in Scalars,
         NEW got \in Raw(Head(fields).kind, Width(Head(fields).kind))
  PROVE  /\ ~got.read.astray
         /\ got.reader.failed => wrong # "nothing"
         /\ ~got.reader.failed =>
              /\ ~reader.failed /\ got.read.sent = read.sent + 1
              /\ got.read.sent \in 1..Len(sent)
              /\ got.number = sent[got.read.sent] /\ got.number.kind = Head(fields).kind
              /\ \E pos : Stands(pos, sent, got.reader, got.read, Tail(fields))
<1> DEFINE f == Head(fields)
           kind == f.kind
           width == Width(kind)
<1>1. CASE reader.failed
  BY <1>1, FailedReads DEF Follows
<1>2. CASE ~reader.failed
  <2>1. PICK pos : Stands(pos, sent, reader, read, fields)
    BY <1>2 DEF Follows
  <2>2. sent \in Seq(Wire) /\ Len(sent) \in Nat /\ ~read.astray
    BY LenProperties DEF Carries, Follows
  <2>3. PICK k \in read.sent..Len(sent) :
          SpellsOne(sent, read.sent, k, f) /\ Spells(sent, k, Len(sent), Tail(fields))
    BY <2>1, <2>2, NextIsSpelled
  <2>4. k = read.sent + 1 /\ sent[k].kind = kind /\ sent[k].width = width
    BY <2>3 DEF SpellsOne, SpellsField, Scalars, Texts
  <2>5. read.sent \in 0..Len(sent) /\ k \in 1..Len(sent) /\ k \in 0..Len(sent)
    BY <2>1, <2>2, <2>3, <2>4 DEF Stands
  <2> HIDE DEF f
  <2>6. sent[k].true
    BY <2>5 DEF Intact
  <2>7. got \in Raw(sent[k].kind, sent[k].width)
    BY <2>4 DEF f
  <2>8. /\ got.reader.failed => got.read = read /\ ~(pos[k] <= size)
        /\ ~got.reader.failed =>
              /\ got.number = sent[k] /\ got.reader.at = pos[k]
              /\ got.read.sent = k /\ ~got.read.astray
    BY <1>2, <2>1, <2>2, <2>4, <2>5, <2>6, <2>7, DueIsRead
  <2>9. CASE got.reader.failed
    <3>1. wrong = "cut"
      BY <2>1, <2>2, <2>5, <2>8, <2>9, WithinThePayload
    <3> QED
      BY <2>2, <2>8, <2>9, <3>1
  <2>10. CASE ~got.reader.failed
    <3>1. Stands(pos, sent, got.reader, got.read, Tail(fields))
      BY <2>1, <2>3, <2>5, <2>8, <2>10 DEF Stands
    <3> QED
      BY <1>2, <2>4, <2>5, <2>8, <2>10, <3>1 DEF f
  <2> QED
    BY <2>9, <2>10
<1> QED
  BY <1>1, <1>2

(* A scalar is read as it was written. *)
LEMMA ScalarFollows ==
  ASSUME Carries, Intact(sent, size, wrong, leg), NEW fields \in Seq(Contract), fields # <<>>,
         Follows(sent, wrong, reader, read, fields), Head(fields).kind \in Scalars,
         NEW got \in Raw(Head(fields).kind, Width(Head(fields).kind)),
         Head(fields).kind \in Checked => leg # "core" \/ got.reader.failed \/ got.number.fits
  PROVE  Follows(sent, wrong, got.reader, got.read, Tail(fields))
<1> DEFINE k == got.read.sent
<1>1. /\ ~got.read.astray
      /\ got.reader.failed => wrong # "nothing"
      /\ ~got.reader.failed =>
            /\ ~reader.failed /\ k = read.sent + 1 /\ k \in 1..Len(sent)
            /\ got.number = sent[k] /\ got.number.kind = Head(fields).kind
            /\ \E pos : Stands(pos, sent, got.reader, got.read, Tail(fields))
  BY ScalarIsRead
<1>2. CASE got.reader.failed
  BY <1>1, <1>2, FailedFollows
<1>3. CASE ~got.reader.failed
  <2>1. ASSUME wrong = "unfit" PROVE \E i \in (k + 1)..Len(sent) : Unfit(sent, i)
    <3>1. PICK i \in (read.sent + 1)..Len(sent) : Unfit(sent, i)
      BY <1>1, <1>3, <2>1 DEF Follows
    <3>2. leg = "core"
      BY <2>1 DEF Intact
    <3>3. i # k
      BY <1>1, <1>3, <3>1, <3>2 DEF Unfit
    <3>4. k \in Nat /\ Len(sent) \in Nat /\ k = read.sent + 1
      BY <1>1, <1>3, LenProperties DEF Carries
    <3> HIDE DEF k
    <3>5. i \in k..Len(sent)
      BY <3>1, <3>4
    <3>6. i \in (k + 1)..Len(sent)
      BY <3>3, <3>4, <3>5
    <3> QED
      BY <3>1, <3>6
  <2> QED
    BY <1>1, <1>3, <2>1 DEF Follows
<1> QED
  BY <1>2, <1>3

(* A checked number that the core finds unfit was sent unfit. *)
LEMMA UnfitWasSent ==
  ASSUME Carries, Intact(sent, size, wrong, leg), NEW fields \in Seq(Contract), fields # <<>>,
         Follows(sent, wrong, reader, read, fields), Head(fields).kind \in Scalars,
         NEW got \in Raw(Head(fields).kind, Width(Head(fields).kind)),
         ~got.reader.failed, ~got.number.fits
  PROVE  wrong # "nothing" /\ ~got.read.astray
<1> DEFINE k == got.read.sent
<1>1. ~got.read.astray /\ k \in 1..Len(sent) /\ got.number = sent[k]
  BY ScalarIsRead
<1> QED
  BY <1>1 DEF Intact

(* The count that is due is read as it was sent, or was cut off. *)
LEMMA CountIsRead ==
  ASSUME Carries, Intact(sent, size, wrong, leg), NEW fields,
         Follows(sent, wrong, reader, read, fields), ~reader.failed,
         NEW pos, Stands(pos, sent, reader, read, fields),
         NEW k \in 1..Len(sent), k = read.sent + 1,
         sent[k].kind = "count", sent[k].width = 4, NEW got \in Raw("count", 4)
  PROVE  /\ ~got.read.astray
         /\ got.reader.failed => wrong = "cut"
         /\ ~got.reader.failed =>
              got.number = sent[k] /\ got.reader.at = pos[k] /\ got.read.sent = k
<1>1. sent \in Seq(Wire) /\ Len(sent) \in Nat /\ ~read.astray
  BY LenProperties DEF Carries, Follows
<1>2. sent[k].true /\ k \in 0..Len(sent)
  BY <1>1 DEF Intact
<1>3. got \in Raw(sent[k].kind, sent[k].width)
  OBVIOUS
<1>4. /\ got.reader.failed => got.read = read /\ ~(pos[k] <= size)
      /\ ~got.reader.failed =>
            /\ got.number = sent[k] /\ got.reader.at = pos[k]
            /\ got.read.sent = k /\ ~got.read.astray
  BY <1>1, <1>2, <1>3, DueIsRead
<1>5. got.reader.failed => wrong = "cut"
  BY <1>1, <1>2, <1>4, WithinThePayload
<1> QED
  BY <1>1, <1>4, <1>5

(* What is unfit is further on than a number of another kind. *)
LEMMA UnfitIsFurther ==
  ASSUME sent \in Seq(Wire), NEW j \in Nat, sent[j + 1].kind \notin Checked,
         \E i \in (j + 1)..Len(sent) : Unfit(sent, i)
  PROVE  \E i \in (j + 2)..Len(sent) : Unfit(sent, i)
<1>1. PICK i \in (j + 1)..Len(sent) : Unfit(sent, i)
  OBVIOUS
<1>2. i # j + 1
  BY <1>1 DEF Unfit
<1>3. i \in (j + 2)..Len(sent)
  BY <1>2, LenProperties
<1> QED
  BY <1>1, <1>3

(* A string or bytes are, with the length written ahead of them. *)
LEMMA TextFollows ==
  ASSUME Carries, Intact(sent, size, wrong, leg), NEW fields \in Seq(Contract), fields # <<>>,
         Follows(sent, wrong, reader, read, fields), Head(fields).kind \in Texts,
         NEW got \in Raw("count", 4), got.reader \in Reader,
         got.read \in [sent : Nat, astray : BOOLEAN]
  PROVE  LET length == got.number.claim
         IN  IF got.reader.failed \/ length < 0 \/ length > size - got.reader.at
               THEN Follows(sent, wrong, Fails(got.reader), got.read, Tail(fields))
               ELSE Follows(sent, wrong, [got.reader EXCEPT !.at = @ + length],
                            [got.read EXCEPT !.sent = IF got.read.astray THEN @ ELSE @ + 1],
                            Tail(fields))
<1> DEFINE f == Head(fields)
           length == got.number.claim
           at == got.reader.at
           off == got.reader.failed \/ length < 0 \/ length > size - at
           here == [got.reader EXCEPT !.at = @ + length]
           on == [got.read EXCEPT !.sent = IF got.read.astray THEN @ ELSE @ + 1]
<1>1. Fails(got.reader).failed
  BY FailedStays
<1>2. CASE reader.failed
  <2>1. got.reader.failed /\ got.read = read
    BY <1>2, FailedReads
  <2>2. ~got.read.astray /\ wrong # "nothing"
    BY <1>2, <2>1 DEF Follows
  <2> QED
    BY <1>1, <2>1, <2>2, FailedFollows
<1>3. CASE ~reader.failed
  <2>1. PICK pos : Stands(pos, sent, reader, read, fields)
    BY <1>3 DEF Follows
  <2>2. sent \in Seq(Wire) /\ Len(sent) \in Nat /\ size \in Nat
    BY LenProperties DEF Carries
  <2>3. PICK b \in read.sent..Len(sent) :
          SpellsOne(sent, read.sent, b, f) /\ Spells(sent, b, Len(sent), Tail(fields))
    BY <2>1, <2>2, NextIsSpelled
  <2> DEFINE j == read.sent
             k == j + 1
  <2>4. /\ b = j + 2 /\ sent[k].kind = "count" /\ sent[k].width = 4
        /\ sent[b].kind = "raw" /\ sent[k].claim = sent[b].width
    BY <2>3 DEF SpellsOne, SpellsField, Scalars, Texts
  <2>5. /\ j \in Nat /\ k \in 1..Len(sent) /\ b \in 1..Len(sent) /\ b \in 0..Len(sent)
        /\ b = k + 1 /\ b - 1 = k /\ k \in 0..Len(sent)
    <3>1. j \in 0..Len(sent)
      BY <2>1 DEF Stands
    <3> HIDE DEF j
    <3> QED
      BY <2>2, <2>3, <2>4, <3>1
  <2> HIDE DEF k
  <2>6. /\ ~got.read.astray
        /\ got.reader.failed => wrong = "cut"
        /\ ~got.reader.failed =>
              got.number = sent[k] /\ at = pos[k] /\ got.read.sent = k
    <3>1. k = read.sent + 1
      BY DEF k
    <3> QED
      BY <1>3, <2>1, <2>4, <2>5, <3>1, CountIsRead
  <2>7. /\ pos \in [0..Len(sent) -> Nat] /\ pos[b] = pos[k] + sent[b].width
        /\ pos[b] \in Nat /\ pos[k] \in Nat
    BY <2>1, <2>5 DEF Stands, Places
  <2>8. sent[b].width \in Nat
    <3>1. sent[b] \in Wire
      BY <2>2, <2>5, ElementOfSeq
    <3> QED
      BY <3>1 DEF Wire
  <2>9. CASE off
    <3>1. CASE got.reader.failed
      BY <1>1, <2>6, <3>1, FailedFollows
    <3>2. CASE ~got.reader.failed
      <4>1. length = sent[b].width /\ at = pos[k]
        BY <2>4, <2>6, <3>2
      <4>2. length < 0 \/ length > size - at
        BY <2>9, <3>2
      <4> HIDE DEF length, at
      <4>3. ~(pos[b] <= size)
        BY <2>2, <2>7, <2>8, <4>1, <4>2
      <4>4. wrong = "cut"
        BY <2>1, <2>2, <2>5, <4>3, WithinThePayload
      <4> QED
        BY <1>1, <2>6, <2>9, <4>4, FailedFollows DEF length, at
    <3> QED
      BY <3>1, <3>2
  <2>10. CASE ~off
    <3>1. ~got.reader.failed /\ length = sent[b].width /\ at = pos[k] /\ got.read.sent = k
      BY <2>4, <2>6, <2>10
    <3>2. ~here.failed /\ here.at = at + length
      BY <3>1 DEF Reader
    <3>3. ~on.astray /\ on.sent = k + 1
      BY <2>6, <3>1
    <3> HIDE DEF here, on
    <3>4. here.at = pos[b] /\ on.sent = b
      BY <2>5, <2>7, <3>1, <3>2, <3>3
    <3>5. Stands(pos, sent, here, on, Tail(fields))
      BY <2>1, <2>3, <2>5, <3>4 DEF Stands
    <3>6. ASSUME wrong = "unfit" PROVE \E i \in (b + 1)..Len(sent) : Unfit(sent, i)
      <4>1. \E i \in (j + 1)..Len(sent) : Unfit(sent, i)
        BY <1>3, <3>6 DEF Follows
      <4>2. sent[j + 1].kind \notin Checked /\ sent[k + 1].kind \notin Checked
        BY <2>4, <2>5 DEF Checked, k
      <4> HIDE DEF j
      <4>3. \E i \in (j + 2)..Len(sent) : Unfit(sent, i)
        BY <2>2, <2>5, <4>1, <4>2, UnfitIsFurther
      <4>4. j + 2 = k + 1 /\ b + 1 = k + 2 /\ k \in Nat
        BY <2>5 DEF k
      <4>5. \E i \in (k + 2)..Len(sent) : Unfit(sent, i)
        BY <2>2, <4>2, <4>3, <4>4, UnfitIsFurther
      <4> QED
        BY <4>4, <4>5
    <3>7. Follows(sent, wrong, here, on, Tail(fields))
      BY <3>2, <3>3, <3>4, <3>5, <3>6 DEF Follows
    <3> QED
      BY <2>10, <3>7 DEF here, on
  <2> QED
    BY <2>9, <2>10
<1> QED
  BY <1>2, <1>3

(* A list is, element for element, and no honest count is refused. *)
LEMMA CountFollows ==
  ASSUME Carries, Intact(sent, size, wrong, leg), NEW fields \in Seq(Contract), fields # <<>>,
         Follows(sent, wrong, reader, read, fields), Head(fields) \in Lists,
         NEW least \in Nat \ {0}, Takes(Head(fields).of, least),
         NEW got \in Raw("count", 4), got.reader \in Reader, got.number.claim \in Int,
         ~got.reader.failed => got.reader.at <= size
  PROVE  LET count == got.number.claim
         IN  IF got.reader.failed \/ count < 0 \/ ~HasRoom(count, least, size - got.reader.at)
               THEN Follows(sent, wrong, Fails(got.reader), got.read, Tail(fields))
               ELSE Follows(sent, wrong, got.reader, got.read,
                            Copies(count, Head(fields).of) \o Tail(fields))
<1> DEFINE f == Head(fields)
           count == got.number.claim
           at == got.reader.at
           off == got.reader.failed \/ count < 0 \/ ~HasRoom(count, least, size - at)
<1>1. Fails(got.reader).failed
  BY FailedStays
<1>2. CASE reader.failed
  <2>1. got.reader.failed /\ got.read = read
    BY <1>2, FailedReads
  <2>2. ~got.read.astray /\ wrong # "nothing"
    BY <1>2, <2>1 DEF Follows
  <2> QED
    BY <1>1, <2>1, <2>2, FailedFollows
<1>3. CASE ~reader.failed
  <2>1. PICK pos : Stands(pos, sent, reader, read, fields)
    BY <1>3 DEF Follows
  <2>2. sent \in Seq(Wire) /\ Len(sent) \in Nat /\ size \in Nat
    BY LenProperties DEF Carries
  <2>3. PICK b \in read.sent..Len(sent) :
          SpellsOne(sent, read.sent, b, f) /\ Spells(sent, b, Len(sent), Tail(fields))
    BY <2>1, <2>2, NextIsSpelled
  <2> DEFINE j == read.sent
             k == j + 1
             n == sent[k].claim
             all == Copies(n, f.of)
  <2>11. f.kind = "count" /\ f.of \in Seq(Plain)
    BY DEF Lists
  <2>4. /\ sent[k].kind = "count" /\ sent[k].width = 4 /\ n \in Nat
        /\ SpellsFields(sent, k, b, all) /\ k <= b
    BY <2>3, <2>11 DEF SpellsOne, SpellsFields
  <2>5. /\ j \in Nat /\ k \in 1..Len(sent) /\ b \in 0..Len(sent) /\ k \in 0..Len(sent)
        /\ k \in Nat /\ b \in Nat
    <3>1. j \in 0..Len(sent)
      BY <2>1 DEF Stands
    <3> HIDE DEF j
    <3> QED
      BY <2>2, <2>3, <2>4, <3>1
  <2> HIDE DEF n
  <2>12. all \in Seq(Plain) /\ Takes(all, n * least) /\ n * least \in Nat
    <3>1. n * least \in Nat
      BY <2>4
    <3>2. all \in Seq(Plain)
      BY <2>4, <2>11, CopiesArePlain
    <3>3. Takes(all, n * least)
      BY <2>4, <2>11, CopiesTake
    <3> QED
      BY <3>1, <3>2, <3>3
  <2> HIDE DEF all, k
  <2>6. /\ ~got.read.astray
        /\ got.reader.failed => wrong = "cut"
        /\ ~got.reader.failed =>
              got.number = sent[k] /\ at = pos[k] /\ got.read.sent = k
    <3>1. k = read.sent + 1
      BY DEF k
    <3> QED
      BY <1>3, <2>1, <2>4, <2>5, <3>1, CountIsRead
  <2>7. /\ pos \in [0..Len(sent) -> Nat] /\ Places(pos, sent)
        /\ pos[b] \in Nat /\ pos[k] \in Nat
    BY <2>1, <2>5 DEF Stands
  <2>8. pos[k] + n * least <= pos[b]
    BY <2>2, <2>4, <2>5, <2>7, <2>12, FieldsFill
  <2>9. CASE off
    <3>1. CASE got.reader.failed
      BY <1>1, <2>6, <3>1, FailedFollows
    <3>2. CASE ~got.reader.failed
      <4>1. count = n /\ at = pos[k] /\ at <= size
        BY <2>6, <3>2 DEF n
      <4>2. ~HasRoom(count, least, size - at)
        BY <2>4, <2>9, <3>2, <4>1
      <4> HIDE DEF count, at
      <4>3. size - at \in Nat
        BY <2>2, <2>7, <4>1
      <4>4. ~(n * least <= size - at)
        BY <2>4, <4>1, <4>2, <4>3, FitsDivided
      <4>5. ~(pos[b] <= size)
        BY <2>2, <2>7, <2>8, <2>12, <4>1, <4>4
      <4>6. wrong = "cut"
        BY <2>1, <2>2, <2>5, <4>5, WithinThePayload
      <4> QED
        BY <1>1, <2>6, <2>9, <4>6, FailedFollows DEF count, at
    <3> QED
      BY <3>1, <3>2
  <2>10. CASE ~off
    <3>1. ~got.reader.failed /\ count = n /\ at = pos[k] /\ got.read.sent = k
      BY <2>6, <2>10 DEF n
    <3> DEFINE next == all \o Tail(fields)
    <3>2. Spells(sent, k, Len(sent), next)
      <4>1. Spells(sent, k, b, all)
        BY <2>4, <2>12, PlainIsSpelled
      <4>2. all \in Seq(Contract) /\ Tail(fields) \in Seq(Contract)
        BY <2>12, PlainIsContract, RestIsContract
      <4> QED
        BY <2>2, <2>3, <2>5, <4>1, <4>2, SpellsBoth
    <3> HIDE DEF next
    <3>3. Stands(pos, sent, got.reader, got.read, next)
      BY <2>1, <2>5, <3>1, <3>2 DEF Stands
    <3>4. ASSUME wrong = "unfit" PROVE \E i \in (k + 1)..Len(sent) : Unfit(sent, i)
      <4>1. \E i \in (j + 1)..Len(sent) : Unfit(sent, i)
        BY <1>3, <3>4 DEF Follows
      <4>2. sent[j + 1].kind \notin Checked
        BY <2>4 DEF Checked, k
      <4> HIDE DEF j
      <4>3. \E i \in (j + 2)..Len(sent) : Unfit(sent, i)
        BY <2>2, <2>5, <4>1, <4>2, UnfitIsFurther
      <4>4. j + 2 = k + 1
        BY <2>5 DEF k
      <4> QED
        BY <4>3, <4>4
    <3>5. Follows(sent, wrong, got.reader, got.read, next)
      BY <2>6, <3>1, <3>3, <3>4 DEF Follows
    <3> QED
      BY <2>10, <3>1, <3>5 DEF next, all
  <2> QED
    BY <2>9, <2>10
<1> QED
  BY <1>2, <1>3

-----------------------------------------------------------------------------
(* A value that follows the status is still to be read once the status is. *)
Coming == IF leg = "status" /\ sent[1].claim = 0 THEN call.answers ELSE <<>>

(* Once the core has answered, what it did was right, and the page can tell. *)
Answered ==
  /\ wrong \in {"nothing", "cut"} /\ core.did \in {"ran", "declined", "refused"}
  /\ core.did = "ran" <=> sent[1].claim = 0
  /\ core.did \in {"ran", "declined"} /\ core.of # "lie" => core.of = "nothing" /\ core.whole
  /\ core.did = "refused" => core.of # "nothing"
  /\ leg \in {"value", "taken"} => core.did = "ran"
  /\ leg = "taken" => Whole
  /\ leg = "told" => core.did \in {"declined", "refused"}
  /\ leg = "malformed" => wrong = "cut"
  /\ leg \in {"told", "taken", "malformed"} => todo = <<>>

Readers == {"core", "status", "value"}

Delivering ==
  /\ leg \in Readers \cup {"none", "told", "taken", "malformed"}
  /\ leg = "none" => todo = <<>>
  /\ leg \in {"none", "core"} => core.did = "nothing"
  /\ leg \notin {"none", "core"} => Answered
  /\ leg \in Readers /\ wrong # "lie" =>
       /\ Intact(sent, size, wrong, leg)
       /\ Follows(sent, wrong, reader, read, todo \o Coming)

DeliveredIInv == RoomIInv /\ Delivering

(* What is ahead of the reader crosses, and begins with what is left. *)
LEMMA AheadIsContract ==
  ASSUME Carries
  PROVE  /\ Coming \in Seq(Contract) /\ todo \o Coming \in Seq(Contract)
         /\ todo # <<>> => /\ todo \o Coming # <<>> /\ Head(todo \o Coming) = Head(todo)
                           /\ Tail(todo \o Coming) = Tail(todo) \o Coming
<1>1. todo \in Seq(Contract) /\ Coming \in Seq(Contract)
  BY EmptySeq DEF Coming, Carries, Contracted
<1>2. todo \o Coming \in Seq(Contract)
  BY <1>1, ConcatProperties
<1> QED
  BY <1>1, <1>2, HeadAndTailOfBoth

(* A read changes nothing but where the reader is and what is left. *)
LEMMA DeliveringReads ==
  ASSUME DeliveredIInv, todo # <<>>, UNCHANGED ThePayload,
         wrong # "lie" => Follows(sent, wrong, reader', read', todo' \o Coming)
  PROVE  Delivering'
<1>1. /\ call' = call /\ leg' = leg /\ sent' = sent /\ size' = size /\ wrong' = wrong
      /\ core' = core /\ Coming' = Coming
  BY DEF ThePayload, Coming
<1>2. leg \in Readers
  BY DEF DeliveredIInv, Delivering, Answered
<1>3. Answered => Answered'
  BY <1>1, <1>2 DEF Answered, Readers
<1>4. \A b \in {"none", "told", "taken", "malformed"} : leg # b
  BY <1>2 DEF Readers
<1> QED
  BY <1>1, <1>2, <1>3, <1>4 DEF DeliveredIInv, Delivering

(* While it is read, a payload that does not lie is followed. *)
LEMMA ReadersFollow ==
  ASSUME DeliveredIInv, todo # <<>>, wrong # "lie"
  PROVE  /\ Carries /\ Intact(sent, size, wrong, leg)
         /\ Follows(sent, wrong, reader, read, todo \o Coming)
<1>1. leg \in Readers
  BY DEF DeliveredIInv, Delivering, Answered
<1> QED
  BY <1>1 DEF DeliveredIInv, Delivering, RoomIInv

(* A scalar read stays with what was written, *)
LEMMA DeliveringScalar == ASSUME DeliveredIInv, GetScalar PROVE Delivering'
<1>1. todo # <<>> /\ Head(todo).kind \in {"bool", "i32", "u64", "f64"}
  BY DEF GetScalar, Reads
<1>2. PICK got \in Raw(Head(todo).kind, Width(Head(todo).kind)) :
        reader' = got.reader /\ read' = got.read
  BY DEF GetScalar
<1>3. todo' = Tail(todo) /\ UNCHANGED ThePayload
  BY DEF GetScalar
<1>4. ASSUME wrong # "lie" PROVE Follows(sent, wrong, got.reader, got.read, Tail(todo) \o Coming)
  <2> DEFINE fields == todo \o Coming
             f == Head(fields)
  <2>1. Carries /\ Intact(sent, size, wrong, leg) /\ Follows(sent, wrong, reader, read, fields)
    BY <1>1, <1>4, ReadersFollow
  <2>2. /\ fields \in Seq(Contract) /\ fields # <<>> /\ f = Head(todo)
        /\ Tail(fields) = Tail(todo) \o Coming
    BY <1>1, <2>1, AheadIsContract
  <2> HIDE DEF fields
  <2>3. Head(fields).kind \in Scalars /\ Head(fields).kind \notin Checked
    BY <1>1, <2>2 DEF Scalars, Checked
  <2>4. got \in Raw(Head(fields).kind, Width(Head(fields).kind))
    BY <2>2
  <2> HIDE DEF f
  <2>5. Follows(sent, wrong, got.reader, got.read, Tail(fields))
    BY <2>1, <2>2, <2>3, <2>4, ScalarFollows
  <2> QED
    BY <2>2, <2>5
<1> QED
  BY <1>1, <1>2, <1>3, <1>4, DeliveringReads

(* a number that has to fit, *)
LEMMA DeliveringChecked == ASSUME DeliveredIInv, GetChecked PROVE Delivering'
<1>1. todo # <<>> /\ Head(todo).kind \in Checked
  BY DEF GetChecked, Reads
<1>2. PICK got \in Raw(Head(todo).kind, 8) :
        /\ reader' = IF leg = "core" /\ ~got.number.fits THEN Fails(got.reader) ELSE got.reader
        /\ read' = got.read
  BY DEF GetChecked
<1>3. todo' = Tail(todo) /\ UNCHANGED ThePayload
  BY DEF GetChecked
<1>4. ASSUME wrong # "lie" PROVE Follows(sent, wrong, reader', read', Tail(todo) \o Coming)
  <2> DEFINE fields == todo \o Coming
             f == Head(fields)
  <2>1. Carries /\ Intact(sent, size, wrong, leg) /\ Follows(sent, wrong, reader, read, fields)
    BY <1>1, <1>4, ReadersFollow
  <2>2. /\ fields \in Seq(Contract) /\ fields # <<>> /\ f = Head(todo)
        /\ Tail(fields) = Tail(todo) \o Coming
    BY <1>1, <2>1, AheadIsContract
  <2> HIDE DEF fields
  <2>3. Head(fields).kind \in Scalars /\ Width(Head(fields).kind) = 8
    BY <1>1, <2>2 DEF Scalars, Checked, Width
  <2>4. got \in Raw(Head(fields).kind, Width(Head(fields).kind))
    BY <1>2, <2>2, <2>3
  <2> HIDE DEF f
  <2>5. got.reader \in Reader
    BY <2>1, RawReads DEF Onward
  <2>6. CASE leg = "core" /\ ~got.number.fits
    <3>1. Fails(got.reader).failed /\ reader' = Fails(got.reader) /\ read' = got.read
      BY <1>2, <2>5, <2>6, FailedStays
    <3>2. ~got.read.astray /\ (got.reader.failed => wrong # "nothing")
      BY <2>1, <2>2, <2>3, <2>4, ScalarIsRead
    <3>3. ~got.reader.failed => wrong # "nothing"
      BY <2>1, <2>2, <2>3, <2>4, <2>6, UnfitWasSent
    <3> QED
      BY <3>1, <3>2, <3>3, FailedFollows
  <2>7. CASE ~(leg = "core" /\ ~got.number.fits)
    <3>1. reader' = got.reader /\ read' = got.read
      BY <1>2, <2>7
    <3>2. Follows(sent, wrong, got.reader, got.read, Tail(fields))
      BY <2>1, <2>2, <2>3, <2>4, <2>7, ScalarFollows
    <3> QED
      BY <2>2, <3>1, <3>2
  <2> QED
    BY <2>6, <2>7
<1> QED
  BY <1>1, <1>3, <1>4, DeliveringReads

(* a string or bytes, *)
LEMMA DeliveringText == ASSUME DeliveredIInv, GetText PROVE Delivering'
<1>1. todo # <<>> /\ Head(todo).kind \in Texts
  BY DEF GetText, Reads, Texts
<1>2. PICK got \in Raw("count", 4) :
        IF \/ got.reader.failed \/ got.number.claim < 0
           \/ got.number.claim > size - got.reader.at
          THEN reader' = Fails(got.reader) /\ read' = got.read
          ELSE /\ reader' = [got.reader EXCEPT !.at = @ + got.number.claim]
               /\ read' = [got.read EXCEPT !.sent = IF got.read.astray THEN @ ELSE @ + 1]
  BY DEF GetText
<1>3. todo' = Tail(todo) /\ UNCHANGED ThePayload
  BY DEF GetText
<1>4. ASSUME wrong # "lie" PROVE Follows(sent, wrong, reader', read', Tail(todo) \o Coming)
  <2> DEFINE fields == todo \o Coming
  <2>1. Carries /\ Intact(sent, size, wrong, leg) /\ Follows(sent, wrong, reader, read, fields)
    BY <1>1, <1>4, ReadersFollow
  <2>2. /\ fields \in Seq(Contract) /\ fields # <<>> /\ Head(fields).kind \in Texts
        /\ Tail(fields) = Tail(todo) \o Coming
    BY <1>1, <2>1, AheadIsContract
  <2> HIDE DEF fields
  <2>3. got.reader \in Reader /\ got.read \in [sent : Nat, astray : BOOLEAN]
    BY <2>1, RawReads DEF Onward
  <2>4. IF \/ got.reader.failed \/ got.number.claim < 0
           \/ got.number.claim > size - got.reader.at
          THEN Follows(sent, wrong, Fails(got.reader), got.read, Tail(fields))
          ELSE Follows(sent, wrong, [got.reader EXCEPT !.at = @ + got.number.claim],
                       [got.read EXCEPT !.sent = IF got.read.astray THEN @ ELSE @ + 1],
                       Tail(fields))
    BY <2>1, <2>2, <2>3, TextFollows
  <2> QED
    BY <1>2, <2>2, <2>4
<1> QED
  BY <1>1, <1>3, <1>4, DeliveringReads

(* and a list. *)
LEMMA DeliveringCount == ASSUME DeliveredIInv, GetCount PROVE Delivering'
<1> DEFINE f == Head(todo)
           least == LeastBytes(f)
<1>1. todo # <<>> /\ f.kind = "count" /\ f \in Contract /\ Tail(todo) \in Seq(Contract)
  BY RestIsContract DEF GetCount, Reads, DeliveredIInv, RoomIInv, Carries
<1>2. f \in Lists /\ f.of \in Seq(Plain) /\ f.least \in Nat \ {0} /\ Takes(f.of, f.least)
  BY <1>1 DEF Contract, Lists, Plain, PlainKinds
<1>3. least \in Nat \ {0} /\ Takes(f.of, least)
  <2>1. Takes(f.of, 1)
    BY <1>2, TakesLess
  <2> QED
    BY <1>2, <2>1 DEF LeastBytes
<1> HIDE DEF least
<1>4. PICK got \in Raw("count", 4) :
        /\ read' = got.read
        /\ IF \/ got.reader.failed \/ got.number.claim < 0
              \/ ~HasRoom(got.number.claim, least, size - got.reader.at)
             THEN reader' = Fails(got.reader) /\ todo' = Tail(todo)
             ELSE reader' = got.reader /\ todo' = Copies(got.number.claim, f.of) \o Tail(todo)
  BY DEF GetCount, least, Copies
<1>5. UNCHANGED ThePayload
  BY DEF GetCount
<1>6. ASSUME wrong # "lie" PROVE Follows(sent, wrong, reader', read', todo' \o Coming)
  <2> DEFINE fields == todo \o Coming
             off == \/ got.reader.failed \/ got.number.claim < 0
                    \/ ~HasRoom(got.number.claim, least, size - got.reader.at)
             all == Copies(got.number.claim, f.of)
  <2>1. Carries /\ Intact(sent, size, wrong, leg) /\ Follows(sent, wrong, reader, read, fields)
    BY <1>1, <1>6, ReadersFollow
  <2>2. /\ fields \in Seq(Contract) /\ fields # <<>> /\ Head(fields) = f
        /\ Tail(fields) = Tail(todo) \o Coming /\ Coming \in Seq(Contract)
    BY <1>1, <2>1, AheadIsContract
  <2> HIDE DEF fields
  <2>3. /\ got.reader \in Reader /\ got.number.claim \in Int
        /\ ~got.reader.failed => got.reader.at <= size
    BY <2>1, RawReads DEF Onward
  <2>4. /\ Head(fields) \in Lists /\ Takes(Head(fields).of, least)
    BY <1>2, <1>3, <2>2
  <2> HIDE DEF f
  <2>5. IF off THEN Follows(sent, wrong, Fails(got.reader), got.read, Tail(fields))
        ELSE Follows(sent, wrong, got.reader, got.read,
                     Copies(got.number.claim, Head(fields).of) \o Tail(fields))
    BY <1>3, <2>1, <2>2, <2>3, <2>4, CountFollows
  <2>6. CASE off
    BY <1>4, <2>2, <2>5, <2>6
  <2>7. CASE ~off
    <3>1. all \in Seq(Contract)
      <4>1. got.number.claim \in Nat
        BY <2>3, <2>7
      <4> QED
        BY <1>2, <4>1, CopiesArePlain, PlainIsContract
    <3>2. Follows(sent, wrong, got.reader, got.read, all \o (Tail(todo) \o Coming))
      BY <2>2, <2>5, <2>7
    <3>3. reader' = got.reader /\ read' = got.read /\ todo' = all \o Tail(todo)
      BY <1>4, <2>7
    <3> HIDE DEF all, off
    <3>4. (all \o Tail(todo)) \o Coming = all \o (Tail(todo) \o Coming)
      <4> DEFINE r == Tail(todo)
                 c == Coming
                 C == Contract
      <4>1. all \in Seq(C) /\ r \in Seq(C) /\ c \in Seq(C)
        BY <1>1, <2>2, <3>1
      <4> HIDE DEF r, c, C
      <4>2. (all \o r) \o c = all \o (r \o c)
        BY <4>1, ConcatAssociative
      <4> QED
        BY <4>2 DEF r, c
    <3> QED
      BY <3>2, <3>3, <3>4
  <2> QED
    BY <2>6, <2>7
<1> QED
  BY <1>1, <1>5, <1>6, DeliveringReads

(* Numbers of the same widths are as many bytes. *)
LEMMA SameBytes ==
  ASSUME NEW x \in Seq(Wire), NEW y \in Seq(Wire), Len(y) = Len(x),
         \A i \in 1..Len(x) : y[i].width = x[i].width
  PROVE  Bytewise(y) = Bytewise(x)
<1> DEFINE n == Len(x)
<1>1. n \in Nat /\ \A i \in 1..n : x[i] \in Wire
  BY LenProperties, ElementOfSeq
<1>2. PICK f \in [0..n -> Nat] : Places(f, x)
  BY BytesAddUp
<1>3. PICK g \in [0..n -> Nat] : Places(g, y)
  BY BytesAddUp
<1>4. /\ f[0] = 0 /\ g[0] = 0 /\ Bytewise(x) = f[n] /\ Bytewise(y) = g[n]
      /\ \A i \in 1..n : f[i] = f[i - 1] + x[i].width /\ g[i] = g[i - 1] + x[i].width
  BY <1>2, <1>3 DEF Places
<1> HIDE DEF n
<1> DEFINE Good == {k \in Nat : k <= n => g[k] = f[k]}
<1>5. 0 \in Good
  BY <1>4
<1>6. ASSUME NEW k \in Good PROVE k + 1 \in Good
  <2>1. CASE k + 1 <= n
    <3> DEFINE i == k + 1
    <3>1. i \in 1..n /\ i - 1 = k /\ g[k] = f[k]
      BY <1>1, <2>1
    <3> HIDE DEF i
    <3>2. g[i] = f[i]
      BY <1>4, <3>1
    <3> QED
      BY <2>1, <3>2 DEF i
  <2>2. CASE ~(k + 1 <= n)
    BY <2>2
  <2> QED
    BY <2>1, <2>2
<1>7. n \in Good
  <2>1. Good \in SUBSET Nat
    OBVIOUS
  <2> HIDE DEF Good
  <2> QED
    BY <1>1, <1>5, <1>6, <2>1, InductiveSet
<1> QED
  BY <1>1, <1>4, <1>7

(* A payload that says what is to be read is followed from its start. *)
LEMMA BegunFollows ==
  ASSUME NEW x \in Seq(Wire), NEW fields, Spells(x, 0, Len(x), fields), NEW fault,
         fault = "unfit" => \E i \in 1..Len(x) : Unfit(x, i)
  PROVE  Follows(x, fault, Begun, NothingRead, fields)
<1>1. PICK pos \in [0..Len(x) -> Nat] : Places(pos, x)
  BY BytesAddUp
<1>2. Begun.at = 0 /\ ~Begun.failed /\ NothingRead.sent = 0 /\ ~NothingRead.astray
  BY DEF Begun, NothingRead
<1>3. 0 \in 0..Len(x)
  BY LenProperties
<1>4. Stands(pos, x, Begun, NothingRead, fields)
  BY <1>1, <1>2, <1>3 DEF Stands, Places
<1>5. \A i \in 1..Len(x) : i \in (0 + 1)..Len(x)
  OBVIOUS
<1> QED
  BY <1>2, <1>4, <1>5 DEF Follows

(* Whatever is cut from it, a payload of sound numbers does not lie. *)
LEMMA SentIntact ==
  ASSUME NEW x \in Seq(Wire), NEW fields, Spells(x, 0, Len(x), fields),
         \A i \in 1..Len(x) : x[i].true /\ x[i].fits, Sends(x), NEW who
  PROVE  /\ wrong' \in {"nothing", "cut"} /\ sent' = x
         /\ Intact(sent', size', wrong', who)
         /\ Follows(sent', wrong', reader', read', fields)
<1> DEFINE all == Bytewise(x)
<1>1. all \in Nat
  BY BytesAreANumber
<1>2. /\ sent' = x /\ reader' = Begun /\ read' = NothingRead
      /\ \/ wrong' = "nothing" /\ size' = all
         \/ wrong' = "cut" /\ \E bytes \in 0..(all - 1) : size' = bytes
  BY DEF Sends, Arrives
<1>3. Follows(x, wrong', Begun, NothingRead, fields)
  BY <1>2, BegunFollows
<1>4. \A bytes \in 0..(all - 1) : bytes < all
  <2> HIDE DEF all
  <2> QED
    BY <1>1
<1>5. Intact(x, size', wrong', who)
  BY <1>2, <1>4 DEF Intact
<1> QED
  BY <1>2, <1>3, <1>5

(* What is sound neither lies nor fails to fit. *)
LEMMA SoundIsTrue ==
  ASSUME NEW x \in Seq(Sound)
  PROVE  \A i \in 1..Len(x) : x[i] \in Sound /\ x[i].true /\ x[i].fits
<1>1. \A i \in 1..Len(x) : x[i] \in Sound
  BY ElementOfSeq
<1> QED
  BY <1>1 DEF Sound

(* Numbers of the same kinds, widths and counts spell the same. *)
LEMMA SpelledAlike ==
  ASSUME NEW x \in Seq(Wire), NEW y, Len(y) = Len(x), NEW fields \in Seq(Contract),
         Spells(x, 0, Len(x), fields), \A i \in 1..Len(x) : SameNumber(x[i], y[i])
  PROVE  Spells(y, 0, Len(y), fields)
<1> DEFINE n == Len(x)
<1>1. n \in Nat /\ 0 \in Nat
  BY LenProperties
<1>2. Alike(x, 0, n, y, 0)
  <2>1. \A i \in 1..(n - 0) : i \in 1..n /\ 0 + i = i
    BY <1>1
  <2> QED
    BY <2>1 DEF Alike
<1> HIDE DEF n
<1>3. Spells(y, 0, 0 + (n - 0), fields)
  BY <1>1, <1>2, SpellsElsewhere DEF n
<1>4. 0 + (n - 0) = n
  BY <1>1
<1> QED
  BY <1>3, <1>4 DEF n

(* A call asked is on its way as it was written, but for what is wrong with it. *)
LEMMA DeliveringAsked == ASSUME DeliveredIInv, Asks PROVE Delivering'
<1>1. PICK length \in 0..MaxLength :
        Sends(Encode(call.takes, length)) \/ SendsAmiss(Encode(call.takes, length))
  BY DEF Asks
<1> DEFINE x == Encode(call.takes, length)
           fields == call.takes
<1>2. /\ fields \in Seq(Contract) /\ call' = call /\ todo' = fields /\ leg' = "core"
      /\ core' = core /\ core.did = "nothing"
  BY DEF Asks, DeliveredIInv, RoomIInv, Carries, Contracted, Delivering
<1>3. Says(x, fields)
  <2>1. length \in Nat
    BY FacadeAssumption
  <2> QED
    BY <1>2, <2>1, EncodeSays
<1> HIDE DEF x
<1>4. /\ x \in Seq(Wire) /\ Spells(x, 0, Len(x), fields)
      /\ \A i \in 1..Len(x) : x[i] \in Sound /\ x[i].true /\ x[i].fits
  BY <1>3, SoundIsWire, SoundIsTrue DEF Says
<1>5. fields \o <<>> = fields /\ Coming' = <<>>
  BY <1>2, ConcatEmptySeq DEF Coming
<1>6. wrong' # "lie" => /\ Intact(sent', size', wrong', "core")
                        /\ Follows(sent', wrong', reader', read', fields)
  <2>1. CASE Sends(x)
    <3>1. Intact(sent', size', wrong', "core") /\ Follows(sent', wrong', reader', read', fields)
      BY <1>4, <2>1, SentIntact
    <3> QED
      BY <3>1
  <2>2. CASE SendsAmiss(x)
    <3>1. PICK i \in DOMAIN x :
            \/ /\ x[i].kind \in Checked
               /\ Arrives([x EXCEPT ![i].fits = FALSE], Bytewise(x), "unfit")
            \/ wrong' = "lie"
      BY <2>2 DEF SendsAmiss, Arrives
    <3>2. CASE x[i].kind \in Checked /\ Arrives([x EXCEPT ![i].fits = FALSE], Bytewise(x), "unfit")
      <4> DEFINE n == [x[i] EXCEPT !.fits = FALSE]
                 y == [x EXCEPT ![i] = n]
      <4>1. i \in 1..Len(x) /\ x[i] \in Sound
        BY <1>4, LenProperties
      <4>2. n \in Wire /\ SameNumber(x[i], n) /\ n.true /\ ~n.fits /\ n.kind = x[i].kind
            /\ n.width = x[i].width
        BY <4>1 DEF Sound, Wire, SameNumber
      <4>3. y = [x EXCEPT ![i].fits = FALSE]
        OBVIOUS
      <4> HIDE DEF n
      <4>4. /\ y \in Seq(Wire) /\ Len(y) = Len(x)
            /\ \A j \in 1..Len(x) : y[j] = IF j = i THEN n ELSE x[j]
        BY <1>4, <4>2, ElementReplaced
      <4> HIDE DEF y
      <4>5. /\ sent' = y /\ size' = Bytewise(x) /\ wrong' = "unfit" /\ reader' = Begun
            /\ read' = NothingRead
        BY <3>2, <4>3 DEF Arrives
      <4>6. Spells(y, 0, Len(y), fields)
        <5>1. \A j \in 1..Len(x) : SameNumber(x[j], y[j])
          BY <4>2, <4>4 DEF SameNumber
        <5> QED
          BY <1>2, <1>4, <4>4, <5>1, SpelledAlike
      <4>7. Bytewise(y) = Bytewise(x)
        <5>1. \A j \in 1..Len(x) : y[j].width = x[j].width
          BY <4>2, <4>4
        <5> QED
          BY <1>4, <4>4, <5>1, SameBytes
      <4>8. \A j \in 1..Len(y) : y[j].true
        BY <1>4, <4>2, <4>4
      <4>9. Unfit(y, i) /\ i \in 1..Len(y)
        BY <3>2, <4>1, <4>2, <4>4 DEF Unfit
      <4>10. Follows(y, "unfit", Begun, NothingRead, fields)
        BY <4>4, <4>6, <4>9, BegunFollows
      <4>11. Intact(y, Bytewise(y), "unfit", "core")
        BY <4>8 DEF Intact
      <4> QED
        BY <4>5, <4>7, <4>10, <4>11
    <3> QED
      BY <3>1, <3>2
  <2> QED
    BY <1>1, <2>1, <2>2 DEF x
<1> HIDE DEF fields
<1>7. todo' \o Coming' = fields
  BY <1>2, <1>5
<1> QED
  BY <1>2, <1>6, <1>7 DEF Delivering, Readers

(* Nothing is left to read of a payload that was read without failing. *)
LEMMA AtTheEnd ==
  ASSUME Carries, reader.at <= size, Intact(sent, size, wrong, leg),
         Follows(sent, wrong, reader, read, <<>>), ~reader.failed
  PROVE  Whole /\ wrong = "nothing"
<1> DEFINE none == <<>>
           n == Len(sent)
<1>1. Len(none) = 0 /\ n \in Nat /\ sent \in Seq(Wire) /\ reader.at \in Nat /\ size \in Nat
  BY LenProperties DEF Carries, Reader
<1> HIDE DEF none
<1>2. PICK pos : Stands(pos, sent, reader, read, none)
  BY DEF Follows, none
<1>3. PICK mark : Marks(mark, sent, read.sent, n, none)
  BY <1>2 DEF Stands, Spells
<1>4. read.sent = n
  BY <1>1, <1>3 DEF Marks
<1>5. reader.at = Bytewise(sent)
  BY <1>2, <1>4 DEF Stands, Places
<1>6. wrong # "cut"
  <2>1. ~(size < Bytewise(sent))
    BY <1>1, <1>5
  <2> QED
    BY <2>1 DEF Intact
<1>7. wrong # "unfit"
  <2>1. ~\E i \in (n + 1)..n : TRUE
    BY <1>1
  <2> QED
    BY <1>4, <2>1 DEF Follows
<1>8. wrong = "nothing"
  BY <1>6, <1>7 DEF Intact
<1> QED
  BY <1>4, <1>8 DEF Whole, Follows

(* An answer says its status, and a value only after one that is Ok. *)
LEMMA AnswerSays ==
  ASSUME Contracted(call), NEW ok \in BOOLEAN
  PROVE  /\ Answer(ok) \in Seq(Wire)
         /\ Spells(Answer(ok), 0, Len(Answer(ok)), Status \o Led(ok))
         /\ \A i \in 1..Len(Answer(ok)) : Answer(ok)[i].true /\ Answer(ok)[i].fits
         /\ Answer(ok)[1].claim = IF ok THEN 0 ELSE 1
<1> DEFINE fields == Status \o Led(ok)
           x == Encode(fields, MaxLength)
           k == IF ok THEN 0 ELSE 1
           n == [x[1] EXCEPT !.claim = k]
           y == [x EXCEPT ![1] = n]
<1>1. Led(ok) \in Seq(Contract) /\ fields \in Seq(Contract) /\ Says(x, fields)
  BY AnswerIsWire
<1>2. fields # <<>> /\ Head(fields).kind = "i32"
  <2>1. Status \in Seq(Contract)
    BY RecordsArePlain, PlainIsContract
  <2>2. Status # <<>> /\ Head(Status) = I32
    BY DEF Status
  <2>3. fields # <<>> /\ Head(fields) = Head(Status)
    BY <1>1, <2>1, <2>2, HeadAndTailOfBoth
  <2>4. I32.kind = "i32"
    BY DEF I32, Field
  <2> HIDE DEF fields
  <2> QED
    BY <2>2, <2>3, <2>4
<1>3. Answer(ok) = [x EXCEPT ![1].claim = k]
  BY DEF Answer, Led
<1> HIDE DEF fields, x
<1>4. /\ x \in Seq(Sound) /\ x \in Seq(Wire) /\ Spells(x, 0, Len(x), fields) /\ Len(x) \in Nat
      /\ \A i \in 1..Len(x) : x[i] \in Sound /\ x[i].true /\ x[i].fits
  BY <1>1, SoundIsWire, SoundIsTrue, LenProperties DEF Says
<1>5. 1 \in 1..Len(x) /\ x[1].kind = "i32"
  <2>1. 0 \in Nat
    OBVIOUS
  <2>2. PICK b \in 0..Len(x) : SpellsOne(x, 0, b, Head(fields))
    BY <1>1, <1>2, <1>4, <2>1, SpellsFirst
  <2>3. b = 0 + 1 /\ x[b].kind = "i32"
    BY <1>2, <2>2 DEF SpellsOne, SpellsField, Scalars, Texts
  <2> QED
    BY <1>4, <2>2, <2>3
<1>6. k \in Int
  OBVIOUS
<1> HIDE DEF k
<1>7. y = [x EXCEPT ![1].claim = k]
  OBVIOUS
<1>8. x[1] \in Sound
  BY <1>4, <1>5
<1>9. n \in Sound /\ n.kind = "i32" /\ n.width = x[1].width /\ n.claim = k
  BY <1>5, <1>6, <1>8 DEF Sound
<1> HIDE DEF n
<1>10. /\ y \in Seq(Sound) /\ Len(y) = Len(x)
       /\ \A j \in 1..Len(x) : y[j] = IF j = 1 THEN n ELSE x[j]
  BY <1>4, <1>9, ElementReplaced
<1> HIDE DEF y
<1>11. y \in Seq(Wire) /\ \A i \in 1..Len(y) : y[i].true /\ y[i].fits
  BY <1>10, SoundIsWire, SoundIsTrue
<1>12. Spells(y, 0, Len(y), fields)
  <2>1. \A j \in 1..Len(x) : SameNumber(x[j], y[j])
    BY <1>5, <1>9, <1>10 DEF SameNumber
  <2> QED
    BY <1>1, <1>4, <1>10, <2>1, SpelledAlike
<1>13. y[1].claim = k
  BY <1>5, <1>9, <1>10
<1> QED
  BY <1>3, <1>7, <1>11, <1>12, <1>13 DEF fields, k

(* The core runs what it read whole, and answers as it did. *)
LEMMA DeliveringDispatched == ASSUME DeliveredIInv, Dispatches PROVE Delivering'
<1>1. leg = "core" /\ todo = <<>> /\ leg' = "status" /\ todo' = Status /\ call' = call
  BY DEF Dispatches, HasRead
<1>2. PICK ok \in IF reader.failed THEN {FALSE} ELSE BOOLEAN :
        /\ Sends(Answer(ok))
        /\ core' = [did |-> IF reader.failed THEN "refused" ELSE IF ok THEN "ran" ELSE "declined",
                    of |-> wrong, whole |-> Whole]
  BY DEF Dispatches
<1>3. ok \in BOOLEAN /\ (reader.failed => ~ok)
  BY <1>2
<1>4. Carries /\ Contracted(call) /\ reader.at <= size
  BY DEF DeliveredIInv, RoomIInv, Carries, Room
<1> DEFINE y == Answer(ok)
           fields == Status \o Led(ok)
<1>5. /\ y \in Seq(Wire) /\ Spells(y, 0, Len(y), fields)
      /\ \A i \in 1..Len(y) : y[i].true /\ y[i].fits
      /\ y[1].claim = IF ok THEN 0 ELSE 1
  BY <1>3, <1>4, AnswerSays
<1> HIDE DEF y, fields
<1>6. /\ wrong' \in {"nothing", "cut"} /\ sent' = y
      /\ Intact(sent', size', wrong', "status")
      /\ Follows(sent', wrong', reader', read', fields)
  BY <1>2, <1>5, SentIntact DEF y
<1>7. sent'[1].claim = 0 <=> ok
  BY <1>5, <1>6
<1>8. todo' \o Coming' = fields
  BY <1>1, <1>7 DEF Coming, Led, fields
<1>9. /\ core'.did = IF reader.failed THEN "refused" ELSE IF ok THEN "ran" ELSE "declined"
      /\ core'.of = wrong /\ core'.whole = Whole
  BY <1>2
<1>10. wrong # "lie" => /\ Intact(sent, size, wrong, leg)
                        /\ Follows(sent, wrong, reader, read, <<>>)
  <2>1. todo \o Coming = <<>>
    BY <1>1 DEF Coming
  <2> QED
    BY <1>1, <2>1 DEF DeliveredIInv, Delivering, Readers
<1>11. ~reader.failed /\ wrong # "lie" => wrong = "nothing" /\ Whole
  BY <1>4, <1>10, AtTheEnd
<1>12. reader.failed => wrong # "nothing"
  BY <1>10 DEF Follows
<1>13. Answered'
  <2>1. core'.did = "ran" <=> sent'[1].claim = 0
    BY <1>3, <1>7, <1>9
  <2>2. core'.did \in {"ran", "declined"} /\ core'.of # "lie" => core'.of = "nothing" /\ core'.whole
    BY <1>9, <1>11
  <2>3. core'.did = "refused" => core'.of # "nothing"
    BY <1>9, <1>12
  <2> QED
    BY <1>1, <1>6, <1>9, <2>1, <2>2, <2>3 DEF Answered
<1> QED
  BY <1>1, <1>6, <1>8, <1>13 DEF Delivering, Readers

(* The page goes on to the value only where the call ran. *)
LEMMA DeliveringStatus == ASSUME DeliveredIInv, StatusRead PROVE Delivering'
<1>1. /\ leg = "status" /\ todo = <<>> /\ call' = call /\ sent' = sent /\ size' = size
      /\ wrong' = wrong /\ reader' = reader /\ read' = read /\ core' = core
      /\ \/ reader.failed /\ leg' = "malformed" /\ todo' = <<>>
         \/ ~reader.failed /\ sent[1].claim # 0 /\ leg' = "told" /\ todo' = <<>>
         \/ ~reader.failed /\ sent[1].claim = 0 /\ leg' = "value" /\ todo' = call.answers
  BY DEF StatusRead, HasRead
<1>2. /\ Answered /\ wrong \in {"nothing", "cut"} /\ Intact(sent, size, wrong, leg)
      /\ Follows(sent, wrong, reader, read, todo \o Coming)
  BY <1>1 DEF DeliveredIInv, Delivering, Readers, Answered
<1>3. reader.failed => wrong = "cut"
  BY <1>2 DEF Follows
<1>4. Answered'
  BY <1>1, <1>2, <1>3 DEF Answered
<1>5. leg' = "value" => /\ Intact(sent', size', wrong', leg')
                        /\ Follows(sent', wrong', reader', read', todo' \o Coming')
  <2> SUFFICES ASSUME leg' = "value"
               PROVE  /\ Intact(sent, size, wrong, "value")
                      /\ Follows(sent, wrong, reader, read, todo' \o Coming')
    BY <1>1
  <2>1. sent[1].claim = 0 /\ todo' = call.answers /\ Coming' = <<>> /\ Coming = call.answers
    BY <1>1 DEF Coming
  <2>2. <<>> \o call.answers = call.answers /\ call.answers \o <<>> = call.answers
    <3>1. call.answers \in Seq(Contract)
      BY DEF DeliveredIInv, RoomIInv, Carries, Contracted
    <3> QED
      BY <3>1, ConcatEmptySeq
  <2>3. todo' \o Coming' = todo \o Coming
    BY <1>1, <2>1, <2>2
  <2>4. Intact(sent, size, wrong, "value")
    BY <1>2 DEF Intact
  <2> QED
    BY <1>2, <2>3, <2>4
<1> QED
  BY <1>1, <1>4, <1>5 DEF Delivering, Readers

(* The page takes the value it read to its end. *)
LEMMA DeliveringValue == ASSUME DeliveredIInv, ValueRead PROVE Delivering'
<1>1. /\ leg = "value" /\ todo = <<>> /\ call' = call /\ sent' = sent /\ size' = size
      /\ wrong' = wrong /\ reader' = reader /\ read' = read /\ core' = core /\ todo' = todo
      /\ leg' = IF reader.failed THEN "malformed" ELSE "taken"
  BY DEF ValueRead, HasRead
<1>2. /\ Answered /\ wrong \in {"nothing", "cut"} /\ Intact(sent, size, wrong, leg)
      /\ Follows(sent, wrong, reader, read, todo \o Coming)
  BY <1>1 DEF DeliveredIInv, Delivering, Readers, Answered
<1>3. todo \o Coming = <<>>
  BY <1>1 DEF Coming
<1>4. reader.failed => wrong = "cut"
  BY <1>2 DEF Follows
<1>5. ~reader.failed => Whole
  BY <1>2, <1>3, AtTheEnd DEF DeliveredIInv, RoomIInv, Room
<1>6. Whole' <=> Whole
  BY <1>1 DEF Whole
<1>7. Answered'
  BY <1>1, <1>2, <1>4, <1>5, <1>6 DEF Answered
<1> QED
  BY <1>1, <1>7 DEF Delivering, Readers

(* Before any call there is nothing to deliver. *)
LEMMA DeliveredStarts == CallInit => DeliveredIInv
<1> SUFFICES ASSUME CallInit PROVE DeliveredIInv
  OBVIOUS
<1>1. RoomIInv
  BY RoomStarts
<1>2. leg = "none" /\ todo = <<>> /\ core.did = "nothing"
  BY DEF CallInit
<1> QED
  BY <1>1, <1>2 DEF DeliveredIInv, Delivering, Readers

(* Every step of a call stays with what was written. *)
LEMMA DeliveredKept == ASSUME DeliveredIInv, [CallNext]_callVars PROVE DeliveredIInv'
<1>1. RoomIInv'
  BY RoomKept DEF DeliveredIInv
<1>2. CASE UNCHANGED callVars
  <2>1. Delivering'
    BY <1>2 DEF callVars, DeliveredIInv, Delivering, Answered, Whole, Coming
  <2> QED
    BY <1>1, <2>1 DEF DeliveredIInv
<1>3. CASE CallNext
  <2>1. Delivering'
    BY <1>3, DeliveringAsked, DeliveringScalar, DeliveringChecked, DeliveringText,
       DeliveringCount, DeliveringDispatched, DeliveringStatus, DeliveringValue DEF CallNext
  <2> QED
    BY <1>1, <2>1 DEF DeliveredIInv
<1> QED
  BY <1>2, <1>3

(* The core runs a call with what the page wrote or not at all, and refuses *)
(* none that arrived whole; the page takes a value only of a call that ran, *)
(* the whole of it, and finds an answer malformed only if it was cut        *)
(* (facade.ts, wire.h): for every call of the contract.                     *)
THEOREM CallsAreDelivered == CallSpec => []DeliveredAsWritten
<1>1. DeliveredIInv => DeliveredAsWritten
  <2> SUFFICES ASSUME DeliveredIInv PROVE DeliveredAsWritten
    OBVIOUS
  <2>1. leg \notin {"none", "core"} => Answered
    BY DEF DeliveredIInv, Delivering
  <2>2. leg \in {"none", "core"} => core.did = "nothing"
    BY DEF DeliveredIInv, Delivering
  <2> QED
    BY <2>1, <2>2 DEF DeliveredAsWritten, Answered
<1> QED
  BY <1>1, DeliveredStarts, DeliveredKept, PTL DEF CallSpec

-----------------------------------------------------------------------------
(* What is left of a number is told by any way of writing it. *)
LEMMA LeftOver ==
  ASSUME NEW d \in Nat \ {0}, NEW q \in Int, NEW r \in 0..(d - 1)
  PROVE  (q * d + r) % d = r
<1> DEFINE n == q * d + r
           p == n \div d
           t == n % d
<1>1. n \in Int
  OBVIOUS
<1> HIDE DEF n
<1>2. p \in Int /\ t \in 0..(d - 1) /\ n = p * d + t
  BY <1>1
<1> HIDE DEF p, t
<1>3. (p - q) * d = r - t
  BY <1>1, <1>2 DEF n
<1>4. CASE p - q >= 1
  <2>1. (p - q) * d >= d
    BY <1>2, <1>4
  <2> QED
    BY <1>2, <1>3, <2>1
<1>5. CASE p - q <= -1
  <2>1. (p - q) * d <= -d
    BY <1>2, <1>5
  <2> QED
    BY <1>2, <1>3, <2>1
<1>6. CASE p - q = 0
  <2>1. r = t
    BY <1>2, <1>3, <1>6
  <2> QED
    BY <2>1 DEF t, n
<1> QED
  BY <1>2, <1>4, <1>5, <1>6

Angle == 0..(FullTurn - 1)

(* To turn and to turn on is to turn by both; a full turn is none. *)
LEMMA Turning ==
  ASSUME NEW a \in Nat, NEW x \in Nat, NEW y \in Nat
  PROVE  /\ Plus(a, x) \in Angle
         /\ Plus(Plus(a, x), y) = Plus(a, x + y)
         /\ Plus(a, x + FullTurn) = Plus(a, x)
<1> DEFINE d == FullTurn
           n == a + x
           q == n \div d
           r == n % d
<1>1. d \in Nat \ {0}
  BY PoseAssumption
<1> HIDE DEF d
<1>2. n \in Nat
  OBVIOUS
<1> HIDE DEF n
<1>3. q \in Int /\ r \in 0..(d - 1) /\ n = q * d + r
  BY <1>1, <1>2
<1>4. Plus(a, x) = r /\ r \in Nat /\ r # Off
  BY <1>3 DEF Plus, Off, n, d
<1> HIDE DEF q, r
<1> DEFINE m == r + y
           p == m \div d
           s == m % d
<1>5. m \in Nat
  BY <1>4
<1> HIDE DEF m
<1>6. p \in Int /\ s \in 0..(d - 1) /\ m = p * d + s
  BY <1>1, <1>5
<1>7. Plus(Plus(a, x), y) = s
  BY <1>4 DEF Plus, m, d
<1> HIDE DEF p, s
<1>8. n + y = (q + p) * d + s
  <2>1. (q + p) * d = q * d + p * d
    BY <1>1, <1>3, <1>6
  <2>2. n = q * d + r /\ m = p * d + s /\ m = r + y
    BY <1>3, <1>6 DEF m
  <2>3. q * d \in Int /\ p * d \in Int
    BY <1>1, <1>3, <1>6
  <2> QED
    BY <1>1, <1>2, <1>3, <1>4, <1>6, <2>1, <2>2, <2>3
<1>9. (n + y) % d = s
  <2>1. ((q + p) * d + s) % d = s
    BY <1>1, <1>3, <1>6, LeftOver
  <2> QED
    BY <1>8, <2>1
<1>10. Plus(a, x + y) = s
  <2>1. a + (x + y) = n + y
    BY DEF n
  <2> QED
    BY <1>9, <2>1 DEF Plus, Off, d
<1>11. (n + d) % d = r
  <2>1. n + d = (q + 1) * d + r
    BY <1>1, <1>2, <1>3
  <2>2. ((q + 1) * d + r) % d = r
    BY <1>1, <1>3, LeftOver
  <2> QED
    BY <2>1, <2>2
<1>12. Plus(a, x + FullTurn) = r
  <2>1. a + (x + FullTurn) = n + d
    BY <1>1 DEF n, d
  <2> QED
    BY <1>11, <2>1 DEF Plus, Off, d
<1> QED
  BY <1>3, <1>4, <1>7, <1>10, <1>12 DEF Angle, d

(* The page is at an angle. *)
LEMMA PageAngles ==
  ASSUME NEW v \in Screens
  PROVE  v \in Nat /\ v < FullTurn /\ FullTurn - v \in Nat /\ FullTurn \in Nat
<1>1. FullTurn \in Nat /\ v \in 0..(FullTurn - 1)
  BY PoseAssumption
<1> QED
  BY <1>1

-----------------------------------------------------------------------------
(* What the sensors and the engine say, against where the phone was. *)
ImuSamples ==
  [timestamp : Nat, screenAngle : Screens, has : SUBSET {"attitude", "rate"},
   orientation : Angle, rate : Nat]

PoseStates ==
  [orientation : Angle \cup {Off}, screenAngle : Screens, timestamp : Nat,
   observed : BOOLEAN, anchored : BOOLEAN, absolute : BOOLEAN]

(* The phone goes on turning as it was sampled to, for as long as the       *)
(* engine predicts.                                                         *)
Course ==
  /\ past \in Seq([angle : Angle, rate : Nat]) /\ past # <<>>
  /\ sampled \subseteq 0..now
  /\ \A u \in sampled : \A t \in u..now : t - u <= LongestPrediction =>
       /\ PointedAt(t) = Plus(PointedAt(u), TurningAt(u) * (t - u))
       /\ TurningAt(t) = TurningAt(u)

Truthful(s) ==
  /\ s \in ImuSamples /\ s.timestamp \in 0..now
  /\ s.has # {} => s.timestamp \in sampled
  /\ s.orientation = Plus(PointedAt(s.timestamp), FullTurn - s.screenAngle)
  /\ s.rate = TurningAt(s.timestamp)

Honest(p) ==
  /\ p \in PoseStates /\ p.timestamp \in 0..now
  /\ p.absolute => /\ p.observed /\ p.timestamp \in sampled
                   /\ p.orientation = Plus(PointedAt(p.timestamp), FullTurn - p.screenAngle)

(* An attitude is of no earlier than what was folded in before it. *)
InOrder(p, s) == Attitude(s) => p.timestamp <= s.timestamp

(* Where the phone pointed is an angle. *)
LEMMA PointedSomewhere ==
  ASSUME Course, NEW t \in 0..now
  PROVE  PointedAt(t) \in Angle /\ TurningAt(t) \in Nat /\ PointedAt(t) \in Nat
<1>1. Len(past) \in Nat /\ DOMAIN past = 1..Len(past)
  BY DEF Course
<1>2. t + 1 \in 1..Len(past)
  BY <1>1 DEF now
<1>3. past[t + 1] \in [angle : Angle, rate : Nat]
  BY <1>1, <1>2, ElementOfSeq DEF Course
<1>4. Angle \subseteq Nat
  BY PoseAssumption DEF Angle
<1> QED
  BY <1>3, <1>4 DEF PointedAt, TurningAt

(* The estimate, carried into the frame of a sample. *)
LEMMA CarriedHonest ==
  ASSUME Course, NEW p, Honest(p), NEW s, Truthful(s)
  PROVE  LET c == Carried(p, s)
         IN  /\ c \in PoseStates /\ c.screenAngle = s.screenAngle
             /\ c.timestamp = p.timestamp /\ c.observed = p.observed
             /\ c.anchored = p.anchored /\ c.absolute = p.absolute
             /\ p.absolute =>
                  c.orientation = Plus(PointedAt(p.timestamp), FullTurn - s.screenAngle)
<1> DEFINE a == PointedAt(p.timestamp)
           turn == FrameTurn(p.screenAngle, s.screenAngle)
           o == Plus(p.orientation, turn)
           c == Carried(p, s)
<1>1. /\ p \in PoseStates /\ s \in ImuSamples
      /\ p.screenAngle \in Nat /\ p.screenAngle < FullTurn
      /\ s.screenAngle \in Nat /\ s.screenAngle < FullTurn /\ s.screenAngle \in Screens
      /\ FullTurn \in Nat
  <2>1. p \in PoseStates /\ s \in ImuSamples
    BY DEF Honest, Truthful
  <2>2. p.screenAngle \in Screens /\ s.screenAngle \in Screens
    BY <2>1 DEF PoseStates, ImuSamples
  <2> QED
    BY <2>1, <2>2, PageAngles
<1>2. c = [p EXCEPT !.orientation = o, !.screenAngle = s.screenAngle]
  BY DEF Carried
<1>3. turn \in Nat /\ turn = p.screenAngle + FullTurn - s.screenAngle
  BY <1>1 DEF FrameTurn
<1> HIDE DEF turn
<1>4. o \in Angle \cup {Off}
  <2>1. p.orientation \in Angle \cup {Off}
    BY <1>1 DEF PoseStates
  <2>2. CASE p.orientation = Off
    BY <2>2 DEF Plus
  <2>3. CASE p.orientation \in Angle
    <3>1. p.orientation \in Nat
      BY <2>3, PoseAssumption DEF Angle
    <3> QED
      BY <1>3, <3>1, Turning
  <2> QED
    BY <2>1, <2>2, <2>3
<1>5. ASSUME p.absolute PROVE o = Plus(a, FullTurn - s.screenAngle)
  <2>1. a \in Nat
    BY PointedSomewhere DEF Honest
  <2>2. p.orientation = Plus(a, FullTurn - p.screenAngle)
    BY <1>5 DEF Honest
  <2> HIDE DEF a
  <2> DEFINE x == FullTurn - p.screenAngle
             y == FullTurn - s.screenAngle
  <2>3. x \in Nat /\ y \in Nat /\ x + turn = y + FullTurn
    BY <1>1, <1>3
  <2> HIDE DEF x, y
  <2>4. Plus(Plus(a, x), turn) = Plus(a, x + turn)
    BY <1>3, <2>1, <2>3, Turning
  <2>5. Plus(a, y + FullTurn) = Plus(a, y)
    BY <2>1, <2>3, Turning
  <2> QED
    BY <2>2, <2>3, <2>4, <2>5 DEF x, y
<1> HIDE DEF o
<1> QED
  BY <1>1, <1>2, <1>4, <1>5 DEF PoseStates

(* One sample folded into an honest estimate leaves an honest one, whatever *)
(* the sample says and however late it is.                                  *)
LEMMA FoldedHonest ==
  ASSUME Course, NEW p, Honest(p), NEW s, Truthful(s), InOrder(p, s)
  PROVE  Honest(Folded(p, s)) /\ Folded(p, s).timestamp \in {p.timestamp, s.timestamp}
<1> DEFINE c == Carried(p, s)
           a == PointedAt(p.timestamp)
           b == PointedAt(s.timestamp)
           x == FullTurn - s.screenAngle
           dt == s.timestamp - p.timestamp
<1>1. /\ c \in PoseStates /\ c.screenAngle = s.screenAngle
      /\ c.timestamp = p.timestamp /\ c.observed = p.observed
      /\ c.anchored = p.anchored /\ c.absolute = p.absolute
      /\ p.absolute => c.orientation = Plus(a, x)
  BY CarriedHonest
<1> HIDE DEF c
<1>2. /\ p.timestamp \in 0..now /\ s.timestamp \in 0..now /\ now \in Nat
      /\ p.timestamp \in Nat /\ s.timestamp \in Nat /\ s.rate \in Nat
      /\ s.screenAngle \in Screens /\ x \in Nat /\ s.has \in SUBSET {"attitude", "rate"}
      /\ p.observed \in BOOLEAN /\ p.absolute \in BOOLEAN /\ p.anchored \in BOOLEAN
  <2>1. now \in Nat
    BY LenProperties, EmptySeq DEF Course, now
  <2>2. p \in PoseStates /\ s \in ImuSamples /\ p.timestamp \in 0..now /\ s.timestamp \in 0..now
    BY DEF Honest, Truthful
  <2>3. /\ p.observed \in BOOLEAN /\ p.absolute \in BOOLEAN /\ p.anchored \in BOOLEAN
        /\ s.screenAngle \in Screens /\ s.has \in SUBSET {"attitude", "rate"} /\ s.rate \in Nat
    BY <2>2 DEF PoseStates, ImuSamples
  <2>4. x \in Nat
    BY <2>3, PageAngles
  <2>5. p.timestamp \in Nat /\ s.timestamp \in Nat
    BY <2>1, <2>2
  <2> QED
    BY <2>1, <2>2, <2>3, <2>4, <2>5
<1>3. a \in Nat /\ b \in Nat /\ s.orientation = Plus(b, x) /\ s.rate = TurningAt(s.timestamp)
  BY <1>2, PointedSomewhere DEF Truthful
<1>4. s.orientation \in Angle
  BY DEF Truthful, ImuSamples
<1>5. p.absolute => p.observed /\ p.timestamp \in sampled
  BY DEF Honest
<1>6. s.has # {} => s.timestamp \in sampled
  BY DEF Truthful
(* A prediction that spans no gap is where the phone then pointed. *)
<1>7. ASSUME p.absolute, Elapsed(c, s), Spanned(c, s)
      PROVE  Turned(c, s) = s.orientation
  <2>1. dt \in Nat /\ dt <= LongestPrediction /\ s.timestamp \in p.timestamp..now
    BY <1>1, <1>2, <1>7 DEF Elapsed, Spanned
  <2>2. b = Plus(a, s.rate * dt) /\ s.rate = TurningAt(p.timestamp)
    BY <1>3, <1>5, <1>7, <2>1 DEF Course
  <2> DEFINE y == s.rate * dt
  <2>3. y \in Nat
    BY <1>2, <2>1
  <2>4. Turned(c, s) = Plus(Plus(a, x), y)
    BY <1>1, <1>7 DEF Turned
  <2>5. a \in Nat /\ x \in Nat
    BY <1>2, <1>3
  <2> HIDE DEF a, b, x, y
  <2>6. Plus(Plus(a, x), y) = Plus(a, x + y)
    BY <2>3, <2>5, Turning
  <2>7. Plus(Plus(a, y), x) = Plus(a, y + x)
    BY <2>3, <2>5, Turning
  <2>8. x + y = y + x
    BY <2>3, <2>5
  <2> QED
    BY <1>3, <2>2, <2>4, <2>6, <2>7, <2>8 DEF y
<1> DEFINE f == Folded(p, s)
           clock == IF s.timestamp > c.timestamp THEN s.timestamp ELSE c.timestamp
<1>8. CASE Attitude(s)
  <2>1. s.has # {} /\ s.timestamp \in sampled /\ clock = s.timestamp
    BY <1>1, <1>2, <1>6, <1>8 DEF Attitude, InOrder
  <2>2. ~(Fuses(c, s) /\ Turned(c, s) # s.orientation)
    BY <1>1, <1>7 DEF Fuses, Predictable
  <2>3. f = [c EXCEPT !.orientation = s.orientation, !.absolute = TRUE, !.anchored = TRUE,
                      !.timestamp = clock, !.observed = TRUE]
    BY <1>1, <1>8, <2>1, <2>2 DEF Folded, c, ReadsAttitude, Clocked, PoseStates
  <2> HIDE DEF f, clock
  <2>4. /\ f \in PoseStates /\ f.timestamp = s.timestamp /\ f.observed /\ f.absolute
        /\ f.orientation = s.orientation /\ f.screenAngle = s.screenAngle
    BY <1>1, <1>2, <1>4, <2>1, <2>3 DEF PoseStates
  <2> QED
    BY <1>2, <1>3, <2>1, <2>4 DEF Honest, f
<1>9. CASE ~Attitude(s) /\ Elapsed(c, s) /\ Measured(s)
  <2>1. s.has # {} /\ s.timestamp \in sampled /\ clock = s.timestamp
    BY <1>1, <1>2, <1>6, <1>9 DEF Measured, Elapsed
  <2> DEFINE whole == c.absolute /\ s.rate = 0 /\ Spanned(c, s)
  <2>2. f = [c EXCEPT !.orientation = Turned(c, s), !.absolute = whole,
                      !.timestamp = clock, !.observed = TRUE]
    BY <1>1, <1>9, <2>1 DEF Folded, c, Reckons, Clocked, PoseStates
  <2>3. Turned(c, s) \in Angle \cup {Off}
    <3>1. c.orientation \in Angle \cup {Off}
      BY <1>1 DEF PoseStates
    <3>2. CASE c.orientation = Off
      BY <3>2 DEF Turned, Plus
    <3>3. CASE c.orientation \in Angle
      <4>1. c.orientation \in Nat
        BY <3>3, PoseAssumption DEF Angle
      <4>2. s.timestamp - c.timestamp \in Nat
        BY <1>1, <1>2, <1>9 DEF Elapsed
      <4>3. s.rate * (s.timestamp - c.timestamp) \in Nat
        BY <1>2, <4>2
      <4> QED
        BY <4>1, <4>3, Turning DEF Turned
    <3> QED
      BY <3>1, <3>2, <3>3
  <2>4. whole => Turned(c, s) = s.orientation
    BY <1>1, <1>7, <1>9
  <2>5. whole \in BOOLEAN
    BY <1>1, <1>2 DEF Spanned
  <2> HIDE DEF f, clock, whole
  <2>6. /\ f \in PoseStates /\ f.timestamp = s.timestamp /\ f.observed /\ f.absolute = whole
        /\ f.orientation = Turned(c, s) /\ f.screenAngle = s.screenAngle
    BY <1>1, <1>2, <2>1, <2>2, <2>3, <2>5 DEF PoseStates
  <2> QED
    BY <1>2, <1>3, <2>1, <2>4, <2>6 DEF Honest, f
<1>10. CASE ~Attitude(s) /\ ~(Elapsed(c, s) /\ Measured(s))
  <2>1. f = Clocked(c, s)
    BY <1>10 DEF Folded, c
  <2>2. CASE s.has = {}
    <3>1. f = c
      BY <2>1, <2>2 DEF Clocked
    <3> QED
      BY <1>1, <1>2, <1>5, <3>1 DEF Honest, f
  <2>3. CASE s.has # {}
    <3>1. Measured(s) /\ ~Elapsed(c, s)
      BY <1>2, <1>10, <2>3 DEF Measured, Attitude
    <3>2. f = [c EXCEPT !.timestamp = clock, !.observed = TRUE]
      BY <2>1, <2>3 DEF Clocked
    <3>3. clock \in {p.timestamp, s.timestamp} /\ (p.absolute => clock = p.timestamp)
      BY <1>1, <1>2, <1>5, <3>1 DEF Elapsed
    <3> HIDE DEF f, clock
    <3>4. /\ f \in PoseStates /\ f.timestamp = clock /\ f.observed /\ f.absolute = p.absolute
          /\ f.orientation = c.orientation /\ f.screenAngle = s.screenAngle
      BY <1>1, <1>2, <3>2, <3>3 DEF PoseStates
    <3> QED
      BY <1>1, <1>2, <1>5, <3>3, <3>4 DEF Honest, f
  <2> QED
    BY <2>2, <2>3
<1> QED
  BY <1>8, <1>9, <1>10

-----------------------------------------------------------------------------
(* The estimate is one, whatever is folded into it.                         *)
LEMMA TurnedIsAnAngle ==
  ASSUME NEW o \in Angle \cup {Off}, NEW x \in Nat
  PROVE  Plus(o, x) \in Angle \cup {Off}
<1>1. CASE o = Off
  BY <1>1 DEF Plus
<1>2. CASE o \in Angle
  <2>1. o \in Nat
    BY <1>2, PoseAssumption DEF Angle
  <2> QED
    BY <2>1, Turning
<1> QED
  BY <1>1, <1>2

(* What is folded is an estimate. *)
LEMMA FoldedIsAState ==
  ASSUME NEW p \in PoseStates, NEW s \in ImuSamples
  PROVE  Folded(p, s) \in PoseStates
<1> DEFINE c == Carried(p, s)
           clock == IF s.timestamp > c.timestamp THEN s.timestamp ELSE c.timestamp
           d == IF Attitude(s) THEN ReadsAttitude(c, s)
                ELSE IF Elapsed(c, s) /\ Measured(s) THEN Reckons(c, s)
                ELSE c
<1>1. /\ p.orientation \in Angle \cup {Off} /\ p.timestamp \in Nat /\ p.observed \in BOOLEAN
      /\ p.anchored \in BOOLEAN /\ p.absolute \in BOOLEAN
      /\ p.screenAngle \in Screens
  BY DEF PoseStates
<1>2. /\ s.screenAngle \in Screens /\ s.timestamp \in Nat /\ s.orientation \in Angle
      /\ s.rate \in Nat
  BY DEF ImuSamples
<1>3. FrameTurn(p.screenAngle, s.screenAngle) \in Nat
  <2>1. p.screenAngle \in Nat
    BY <1>1, PageAngles
  <2>2. s.screenAngle \in Nat /\ s.screenAngle < FullTurn /\ FullTurn \in Nat
    BY <1>2, PageAngles
  <2> QED
    BY <2>1, <2>2 DEF FrameTurn
<1>4. Plus(p.orientation, FrameTurn(p.screenAngle, s.screenAngle)) \in Angle \cup {Off}
  BY <1>1, <1>3, TurnedIsAnAngle
<1>5. c \in PoseStates
  BY <1>1, <1>2, <1>4 DEF Carried, PoseStates
<1> HIDE DEF c
<1>6. c.timestamp \in Nat /\ c.orientation \in Angle \cup {Off} /\ c.absolute \in BOOLEAN
  BY <1>5 DEF PoseStates
<1>7. d \in PoseStates
  <2>1. ReadsAttitude(c, s) \in PoseStates
    BY <1>2, <1>5 DEF ReadsAttitude, PoseStates
  <2>2. ASSUME Elapsed(c, s) PROVE Reckons(c, s) \in PoseStates
    <3>1. s.timestamp - c.timestamp \in Nat
      BY <1>2, <1>6, <2>2 DEF Elapsed
    <3>2. s.rate * (s.timestamp - c.timestamp) \in Nat
      BY <1>2, <3>1
    <3>3. Turned(c, s) \in Angle \cup {Off}
      BY <1>6, <3>2, TurnedIsAnAngle DEF Turned
    <3> DEFINE whole == c.absolute /\ s.rate = 0 /\ Spanned(c, s)
    <3>4. Reckons(c, s) = [c EXCEPT !.orientation = Turned(c, s), !.absolute = whole]
      BY <1>5 DEF Reckons, PoseStates
    <3>5. whole \in BOOLEAN
      OBVIOUS
    <3> HIDE DEF whole
    <3> QED
      BY <1>5, <3>3, <3>4, <3>5 DEF PoseStates
  <2> QED
    BY <1>5, <2>1, <2>2
<1>8. Folded(p, s) = Clocked(d, s)
  BY DEF Folded, c
<1> HIDE DEF d
<1>9. d.timestamp \in Nat
  BY <1>7 DEF PoseStates
<1> QED
  BY <1>2, <1>7, <1>8, <1>9 DEF Clocked, PoseStates

(* The samples are folded in one by one, in the order they came in. *)
LEMMA FoldsInOrder ==
  ASSUME NEW p \in PoseStates, NEW samples \in Seq(ImuSamples)
  PROVE  \E g \in [0..Len(samples) -> PoseStates] :
           /\ g[0] = p
           /\ \A i \in 1..Len(samples) : g[i] = Folded(g[i - 1], samples[i])
           /\ Integrate(p, samples) = g[Len(samples)]
<1> DEFINE n == Len(samples)
           S == DOMAIN samples
           folded == CHOOSE iter : iter = [s \in SUBSET S |->
                       IF s = {} THEN p ELSE Folded(iter[s \ {Max(s)}], samples[Max(s)])]
<1>1. n \in Nat /\ S = 1..n /\ \A i \in 1..n : samples[i] \in ImuSamples
  BY LenProperties, ElementOfSeq
<1>2. \A s \in SUBSET S : s # {} => Max(s) \in s
  BY <1>1, LargestOf
<1>3. Integrate(p, samples) = folded[S]
  BY DEF Integrate, FoldLeft, MapThenFoldSet
<1>4. folded = [s \in SUBSET S |->
                 IF s = {} THEN p ELSE Folded(folded[s \ {Max(s)}], samples[Max(s)])]
  <2> DEFINE next == [s \in SUBSET S |-> s \ {Max(s)}]
             step == [s \in SUBSET S |-> [v \in PoseStates |->
                       IF s = {} THEN p ELSE Folded(v, samples[Max(s)])]]
  <2>1. \A s \in SUBSET S : s # {} => samples[Max(s)] \in ImuSamples
    BY <1>1, <1>2
  <2>2. step \in [SUBSET S -> [PoseStates -> PoseStates]]
    BY <2>1, FoldedIsAState
  <2>3. Descends(next, S)
    BY <1>2 DEF Descends
  <2> HIDE DEF next, step
  <2>4. PICK g \in [SUBSET S -> PoseStates] : Recurs(g, S, p, next, step)
    <3>1. IsFiniteSet(S)
      BY <1>1, FS_Interval
    <3> HIDE DEF S
    <3> QED
      BY <2>2, <2>3, <3>1, RecursionOnSubsets
  <2>5. g = [s \in SUBSET S |->
               IF s = {} THEN p ELSE Folded(g[s \ {Max(s)}], samples[Max(s)])]
    <3>1. ASSUME NEW s \in SUBSET S
          PROVE  g[s] = IF s = {} THEN p ELSE Folded(g[s \ {Max(s)}], samples[Max(s)])
      BY <2>3, <2>4 DEF next, step, Recurs, Descends
    <3> QED
      BY <3>1
  <2> HIDE DEF S
  <2> QED
    BY <2>5
<1> HIDE DEF folded
<1> DEFINE Q == {s \in SUBSET S : folded[s] \in PoseStates}
<1>5. ASSUME NEW s \in SUBSET S, \A t \in SUBSET s : t # s => t \in Q PROVE s \in Q
  <2>1. CASE s = {}
    BY <1>4, <2>1
  <2>2. CASE s # {}
    <3>1. folded[s] = Folded(folded[s \ {Max(s)}], samples[Max(s)])
      BY <1>4, <2>2
    <3>2. folded[s \ {Max(s)}] \in PoseStates /\ samples[Max(s)] \in ImuSamples
      BY <1>1, <1>2, <1>5, <2>2
    <3> QED
      BY <3>1, <3>2, FoldedIsAState
  <2> QED
    BY <2>1, <2>2
<1>6. ASSUME NEW s \in SUBSET S PROVE folded[s] \in PoseStates
  <2>1. IsFiniteSet(s)
    <3>1. IsFiniteSet(S)
      BY <1>1, FS_Interval
    <3> HIDE DEF S
    <3> QED
      BY <3>1, FS_Subset
  <2>2. \A u \in SUBSET s : (\A t \in SUBSET u : t # u => t \in Q) => u \in Q
    BY <1>5
  <2> HIDE DEF Q
  <2>3. s \in Q
    BY <2>1, <2>2, InductiveSubsets
  <2> QED
    BY <2>3 DEF Q
<1> DEFINE g == [i \in 0..n |-> folded[1..i]]
<1>7. g[0] = p /\ g \in [0..n -> PoseStates] /\ g[n] = folded[S]
  <2>1. \A i \in 0..n : 1..i \in SUBSET S
    BY <1>1
  <2>2. 1..0 = {} /\ 0 \in 0..n /\ n \in 0..n /\ S = 1..n /\ {} \in SUBSET S
    BY <1>1
  <2>3. folded[{}] = p
    BY <1>4, <2>2
  <2>4. g \in [0..n -> PoseStates]
    BY <1>6, <2>1
  <2> HIDE DEF S
  <2> QED
    BY <2>2, <2>3, <2>4
<1>8. ASSUME NEW i \in 1..n PROVE g[i] = Folded(g[i - 1], samples[i])
  <2>1. Max(1..i) = i
    <3>1. \A x \in 1..i : (\A y \in 1..i : x >= y) => x = i
      BY <1>1
    <3>2. i \in 1..i /\ \A y \in 1..i : i >= y
      BY <1>1
    <3> QED
      BY <3>1, <3>2 DEF Max
  <2>2. (1..i) \ {i} = 1..(i - 1) /\ 1..i # {} /\ 1..i \in SUBSET S
    <3>1. i \in Nat /\ 1 <= i /\ i <= n
      BY <1>1
    <3>2. \A x : x \in (1..i) \ {i} <=> x \in 1..(i - 1)
      BY <3>1
    <3>3. (1..i) \ {i} = 1..(i - 1)
      BY <3>2
    <3>4. i \in 1..i /\ 1..i \subseteq 1..n
      BY <1>1, <3>1
    <3> QED
      BY <1>1, <3>3, <3>4
  <2>3. folded[1..i] = Folded(folded[1..(i - 1)], samples[i])
    BY <1>4, <2>1, <2>2
  <2> QED
    BY <1>1, <2>3
<1> HIDE DEF g
<1> QED
  BY <1>3, <1>7, <1>8

-----------------------------------------------------------------------------
(* A sample that says an attitude is of no earlier than the estimate and    *)
(* than all that wait before it: only rates come late.                      *)
Ordered ==
  \A j \in 1..Len(buffered) : Attitude(buffered[j]) =>
    /\ state.timestamp <= buffered[j].timestamp
    /\ \A i \in 1..(j - 1) : buffered[i].timestamp <= buffered[j].timestamp

PoseIInv ==
  /\ Course
  /\ screen \in Screens
  /\ buffered \in Seq(ImuSamples)
  /\ \A i \in 1..Len(buffered) : Truthful(buffered[i])
  /\ Honest(state)
  /\ Ordered

(* What is drained is honest once it is folded in, and of no later than any *)
(* attitude that is left.                                                   *)
LEMMA DrainedHonest ==
  ASSUME PoseIInv, NEW n \in 0..Len(buffered)
  PROVE  LET p == Integrate(state, SubSeq(buffered, 1, n))
         IN  /\ Honest(p)
             /\ \A j \in (n + 1)..Len(buffered) :
                  Attitude(buffered[j]) => p.timestamp <= buffered[j].timestamp
<1> DEFINE samples == SubSeq(buffered, 1, n)
<1>1. /\ Len(buffered) \in Nat /\ n \in Nat /\ n <= Len(buffered)
      /\ \A i \in 1..Len(buffered) : buffered[i] \in ImuSamples /\ buffered[i].timestamp \in Nat
  <2>1. buffered \in Seq(ImuSamples)
    BY DEF PoseIInv
  <2>2. Len(buffered) \in Nat /\ \A i \in 1..Len(buffered) : buffered[i] \in ImuSamples
    BY <2>1, LenProperties, ElementOfSeq
  <2>3. n \in Nat /\ n <= Len(buffered)
    BY <2>2
  <2>4. \A s \in ImuSamples : s.timestamp \in Nat
    BY DEF ImuSamples
  <2> QED
    BY <2>2, <2>3, <2>4
<1>2. samples \in Seq(ImuSamples) /\ Len(samples) = n /\ \A i \in 1..n : samples[i] = buffered[i]
  <2>1. \A i \in 1..n : buffered[i] \in ImuSamples
    BY <1>1
  <2>2. /\ samples \in Seq(ImuSamples) /\ Len(samples) = IF 1 <= n THEN n - 1 + 1 ELSE 0
        /\ \A i \in 1..(n - 1 + 1) : samples[i] = buffered[1 + i - 1]
    BY <1>1, <2>1, SubSeqProperties
  <2> HIDE DEF samples
  <2>3. \A i \in 1..n : i \in 1..(n - 1 + 1) /\ 1 + i - 1 = i
    BY <1>1
  <2> QED
    BY <1>1, <2>2, <2>3
<1> HIDE DEF samples
<1>3. state \in PoseStates /\ Honest(state) /\ Course /\ Ordered
  BY DEF PoseIInv, Honest
<1>4. PICK g \in [0..n -> PoseStates] :
        /\ g[0] = state
        /\ \A i \in 1..n : g[i] = Folded(g[i - 1], samples[i])
        /\ Integrate(state, samples) = g[n]
  BY <1>2, <1>3, FoldsInOrder
<1> DEFINE Upto(i) == /\ Honest(g[i])
                      /\ \A j \in (i + 1)..Len(buffered) :
                           Attitude(buffered[j]) => g[i].timestamp <= buffered[j].timestamp
           Good == {i \in Nat : i <= n => Upto(i)}
<1>5. 0 \in Good
  BY <1>1, <1>3, <1>4 DEF Ordered
<1>6. ASSUME NEW i \in Good PROVE i + 1 \in Good
  <2>1. CASE i + 1 <= n
    <3> DEFINE s == buffered[i + 1]
    <3>1. i \in Nat /\ i <= n /\ i + 1 \in 1..n /\ i + 1 \in 1..Len(buffered) /\ (i + 1) - 1 = i
      BY <1>1, <2>1
    <3>2. Upto(i)
      BY <3>1
    <3>3. g[i + 1] = Folded(g[i], s)
      BY <1>2, <1>4, <3>1
    <3>4. Truthful(s)
      BY <3>1 DEF PoseIInv
    <3>5. InOrder(g[i], s)
      BY <1>1, <3>1, <3>2 DEF InOrder
    <3>6. Honest(g[i + 1]) /\ g[i + 1].timestamp \in {g[i].timestamp, s.timestamp}
      BY <1>3, <3>2, <3>3, <3>4, <3>5, FoldedHonest
    <3>7. ASSUME NEW j \in ((i + 1) + 1)..Len(buffered), Attitude(buffered[j])
          PROVE  g[i + 1].timestamp <= buffered[j].timestamp
      <4>1. j \in (i + 1)..Len(buffered) /\ j \in 1..Len(buffered) /\ i + 1 \in 1..(j - 1)
        BY <1>1, <3>1
      <4>2. g[i].timestamp <= buffered[j].timestamp
        BY <3>2, <3>7, <4>1
      <4>3. s.timestamp <= buffered[j].timestamp
        BY <1>3, <3>7, <4>1 DEF Ordered
      <4> QED
        BY <3>6, <4>2, <4>3
    <3> QED
      BY <3>1, <3>6, <3>7
  <2>2. CASE ~(i + 1 <= n)
    BY <2>2
  <2> QED
    BY <2>1, <2>2
<1>7. n \in Good
  <2>1. Good \in SUBSET Nat
    OBVIOUS
  <2> HIDE DEF Good
  <2> QED
    BY <1>1, <1>5, <1>6, <2>1, InductiveSet
<1> QED
  BY <1>1, <1>4, <1>7 DEF samples

(* Before the first sample nothing is claimed. *)
LEMMA PoseStarts == PoseInit => PoseIInv
<1> SUFFICES ASSUME PoseInit PROVE PoseIInv
  OBVIOUS
<1>1. PICK r \in {0, 1} : past = <<[angle |-> 0, rate |-> r]>>
  BY DEF PoseInit
<1>2. 0 \in Angle /\ 0 \in Screens
  BY PoseAssumption DEF Angle
<1>3. past \in Seq([angle : Angle, rate : Nat]) /\ past # <<>> /\ Len(past) = 1
  BY <1>1, <1>2
<1>4. Course /\ now = 0
  BY <1>3 DEF Course, PoseInit, now
<1>5. buffered = <<>> /\ Len(buffered) = 0 /\ buffered \in Seq(ImuSamples)
  BY DEF PoseInit
<1>6. Honest(state)
  BY <1>2, <1>4 DEF PoseInit, Initial, Honest, PoseStates
<1> QED
  BY <1>2, <1>4, <1>5, <1>6 DEF PoseIInv, Ordered, PoseInit

(* What the sensors say at an instant of which the phone's angle is known. *)
LEMMA SampledAt ==
  ASSUME PoseIInv, NEW t \in 0..now, NEW has \in SUBSET {"attitude", "rate"}
  PROVE  LET s == SampleAt(t, has)
         IN  /\ s \in ImuSamples /\ s.timestamp = t /\ s.has = has /\ s.screenAngle = screen
             /\ s.orientation = Plus(PointedAt(t), FullTurn - screen) /\ s.rate = TurningAt(t)
<1> DEFINE s == SampleAt(t, has)
<1>1. PointedAt(t) \in Nat /\ TurningAt(t) \in Nat /\ now \in Nat /\ t \in Nat
  <2>1. now \in Nat
    BY LenProperties, EmptySeq DEF PoseIInv, Course, now
  <2> QED
    BY <2>1, PointedSomewhere DEF PoseIInv
<1>2. screen \in Screens /\ FullTurn - screen \in Nat
  BY PageAngles DEF PoseIInv
<1>3. Plus(PointedAt(t), FullTurn - screen) \in Angle
  BY <1>1, <1>2, Turning
<1> QED
  BY <1>1, <1>2, <1>3 DEF SampleAt, ImuSamples

(* An instant more: where the phone was stays what it was, and it turned as *)
(* it was sampled to.                                                       *)
LEMMA InstantPasses ==
  ASSUME Course, NEW e \in [angle : Angle, rate : Nat],
         (\E u \in sampled : now + 1 - u <= LongestPrediction) =>
           e = [angle |-> Plus(PointedAt(now), TurningAt(now)), rate |-> TurningAt(now)]
  PROVE  LET longer == Append(past, e)
         IN  /\ longer \in Seq([angle : Angle, rate : Nat]) /\ longer # <<>>
             /\ Len(longer) - 1 = now + 1
             /\ \A t \in 0..now : longer[t + 1] = past[t + 1]
             /\ sampled \subseteq 0..(now + 1)
             /\ \A u \in sampled : \A t \in u..(now + 1) : t - u <= LongestPrediction =>
                  /\ longer[t + 1].angle = Plus(longer[u + 1].angle, longer[u + 1].rate * (t - u))
                  /\ longer[t + 1].rate = longer[u + 1].rate
<1> DEFINE longer == Append(past, e)
<1>1. now \in Nat /\ Len(past) = now + 1 /\ past \in Seq([angle : Angle, rate : Nat])
  BY LenProperties, EmptySeq DEF Course, now
<1>2. /\ longer \in Seq([angle : Angle, rate : Nat]) /\ longer # <<>> /\ Len(longer) = Len(past) + 1
      /\ \A i \in 1..Len(past) : longer[i] = past[i]
      /\ longer[Len(past) + 1] = e
  BY <1>1, AppendProperties
<1> HIDE DEF longer
<1>3. \A t \in 0..now : longer[t + 1] = past[t + 1]
  <2>1. \A t \in 0..now : t + 1 \in 1..Len(past)
    BY <1>1
  <2> QED
    BY <1>2, <2>1
<1>4. \A t \in 0..now : longer[t + 1].angle = PointedAt(t) /\ longer[t + 1].rate = TurningAt(t)
  BY <1>3 DEF PointedAt, TurningAt
<1>5. longer[(now + 1) + 1] = e
  BY <1>1, <1>2
<1>6. \A u \in sampled : u \in 0..now /\ u \in Nat /\ u <= now
  BY <1>1 DEF Course
<1>7. ASSUME NEW u \in sampled, NEW t \in u..(now + 1), t - u <= LongestPrediction
      PROVE  /\ longer[t + 1].angle = Plus(longer[u + 1].angle, longer[u + 1].rate * (t - u))
             /\ longer[t + 1].rate = longer[u + 1].rate
  <2>1. longer[u + 1].angle = PointedAt(u) /\ longer[u + 1].rate = TurningAt(u)
    BY <1>4, <1>6
  <2>2. CASE t <= now
    <3>1. t \in 0..now /\ t \in u..now
      BY <1>1, <1>6, <2>2
    <3>2. longer[t + 1].angle = PointedAt(t) /\ longer[t + 1].rate = TurningAt(t)
      BY <1>4, <3>1
    <3>3. PointedAt(t) = Plus(PointedAt(u), TurningAt(u) * (t - u)) /\ TurningAt(t) = TurningAt(u)
      BY <1>7, <3>1 DEF Course
    <3> QED
      BY <2>1, <3>2, <3>3
  <2>3. CASE ~(t <= now)
    <3>1. t = now + 1
      BY <1>1, <1>6, <2>3
    <3>2. LongestPrediction \in Nat
      BY PoseAssumption
    <3> DEFINE d == now - u
               a == PointedAt(u)
               r == TurningAt(u)
    <3>3. d \in Nat /\ t - u = d + 1 /\ now \in u..now /\ d <= LongestPrediction
      BY <1>1, <1>6, <1>7, <3>1, <3>2
    <3>4. e = [angle |-> Plus(PointedAt(now), TurningAt(now)), rate |-> TurningAt(now)]
      <4>1. now + 1 - u <= LongestPrediction
        BY <1>1, <1>6, <1>7, <3>1
      <4> QED
        BY <4>1
    <3>5. PointedAt(now) = Plus(a, r * d) /\ TurningAt(now) = r
      BY <1>6, <3>3 DEF Course
    <3>6. a \in Nat /\ r \in Nat
      BY <1>6, PointedSomewhere
    <3>7. longer[t + 1].angle = Plus(Plus(a, r * d), r) /\ longer[t + 1].rate = r
      BY <1>5, <3>1, <3>4, <3>5
    <3> HIDE DEF d, a, r
    <3>8. r * d \in Nat /\ r * (d + 1) = r * d + r
      BY <3>3, <3>6
    <3>9. Plus(Plus(a, r * d), r) = Plus(a, r * d + r)
      BY <3>6, <3>8, Turning
    <3> QED
      BY <2>1, <3>3, <3>7, <3>8, <3>9 DEF a, r
  <2> QED
    BY <2>2, <2>3
<1>8. sampled \subseteq 0..(now + 1)
  BY <1>1, <1>6
<1>9. Len(longer) - 1 = now + 1
  BY <1>1, <1>2
<1> QED
  BY <1>2, <1>3, <1>7, <1>8, <1>9 DEF longer

(* Time passes: no estimate is of later than now. *)
LEMMA PosePasses ==
  ASSUME PoseIInv, TimePasses
  PROVE  PoseIInv'
<1> DEFINE straight == [angle |-> Plus(PointedAt(now), TurningAt(now)), rate |-> TurningAt(now)]
<1>1. Course /\ now \in Nat /\ now + 1 \in 1..Len(past)
  BY LenProperties, EmptySeq DEF PoseIInv, Course, now
<1>2. past[now + 1] \in [angle : Angle, rate : Nat]
  BY <1>1, ElementOfSeq DEF Course
<1>3. straight \in [angle : Angle, rate : Nat]
      /\ straight = [past[now + 1] EXCEPT !.angle = Plus(@, TurningAt(now))]
  <2>1. PointedAt(now) \in Nat /\ TurningAt(now) \in Nat
    BY <1>1, PointedSomewhere
  <2>2. Plus(PointedAt(now), TurningAt(now)) \in Angle
    BY <2>1, Turning
  <2> QED
    BY <1>2, <2>1, <2>2 DEF PointedAt, TurningAt
<1>4. PICK e \in [angle : Angle, rate : Nat] :
        /\ past' = Append(past, e)
        /\ (\E u \in sampled : now + 1 - u <= LongestPrediction) => e = straight
  <2>1. CASE \E u \in sampled : now + 1 - u <= LongestPrediction
    BY <1>3, <2>1 DEF TimePasses
  <2>2. CASE ~\E u \in sampled : now + 1 - u <= LongestPrediction
    <3>1. PICK a \in 0..(FullTurn - 1), r \in {0, 1} :
            past' = Append(past, [angle |-> a, rate |-> r])
      BY <2>2 DEF TimePasses
    <3>2. [angle |-> a, rate |-> r] \in [angle : Angle, rate : Nat]
      BY DEF Angle
    <3> QED
      BY <2>2, <3>1, <3>2
  <2> QED
    BY <2>1, <2>2
<1> DEFINE longer == Append(past, e)
<1>5. /\ longer \in Seq([angle : Angle, rate : Nat]) /\ longer # <<>>
      /\ Len(longer) - 1 = now + 1
      /\ \A t \in 0..now : longer[t + 1] = past[t + 1]
      /\ sampled \subseteq 0..(now + 1)
      /\ \A u \in sampled : \A t \in u..(now + 1) : t - u <= LongestPrediction =>
           /\ longer[t + 1].angle = Plus(longer[u + 1].angle, longer[u + 1].rate * (t - u))
           /\ longer[t + 1].rate = longer[u + 1].rate
  BY <1>1, <1>4, InstantPasses
<1>6. past' = longer /\ UNCHANGED <<screen, sampled, buffered, state>>
  BY <1>4 DEF TimePasses
<1> HIDE DEF longer
<1>7. now' = now + 1
  BY <1>5, <1>6 DEF now
<1>8. Course'
  BY <1>5, <1>6, <1>7 DEF Course, PointedAt, TurningAt
<1>9. \A t \in 0..now : past'[t + 1] = past[t + 1] /\ t \in 0..now'
  <2>1. \A t \in 0..now : t \in 0..(now + 1)
    BY <1>1
  <2> QED
    BY <1>5, <1>6, <1>7, <2>1
<1>10. ASSUME NEW s, Truthful(s) PROVE Truthful(s)'
  <2>1. s.timestamp \in 0..now'
    BY <1>9, <1>10 DEF Truthful
  <2>2. past'[s.timestamp + 1] = past[s.timestamp + 1]
    BY <1>9, <1>10 DEF Truthful
  <2> QED
    BY <1>6, <1>10, <2>1, <2>2 DEF Truthful, PointedAt, TurningAt
<1>11. Honest(state)'
  <2>1. Honest(state)
    BY DEF PoseIInv
  <2>2. state.timestamp \in 0..now' /\ past'[state.timestamp + 1] = past[state.timestamp + 1]
    BY <1>9, <2>1 DEF Honest
  <2> QED
    BY <1>6, <2>1, <2>2 DEF Honest, PointedAt
<1>12. (\A i \in 1..Len(buffered) : Truthful(buffered[i]))'
  BY <1>6, <1>10 DEF PoseIInv
<1>13. Ordered'
  BY <1>6 DEF PoseIInv, Ordered
<1> QED
  BY <1>6, <1>8, <1>11, <1>12, <1>13 DEF PoseIInv

(* The buffer keeps the latest it was given. *)
LEMMA PushedLast ==
  ASSUME NEW s \in ImuSamples, buffered \in Seq(ImuSamples)
  PROVE  \E d \in {0, 1} :
           LET longer == Pushed(s)
               n == Len(buffered) + 1 - d
           IN  /\ longer \in Seq(ImuSamples) /\ Len(longer) = n /\ n \in Nat
               /\ \A i \in 1..n :
                    /\ i + d = Len(buffered) + 1 => longer[i] = s
                    /\ i + d # Len(buffered) + 1 =>
                         i + d \in 1..Len(buffered) /\ longer[i] = buffered[i + d]
<1> DEFINE all == Append(buffered, s)
           m == Len(buffered)
           d == IF Len(all) > MotionBuffer THEN 1 ELSE 0
           n == m + 1 - d
           longer == SubSeq(all, 1 + d, Len(all))
<1>1. m \in Nat
  BY LenProperties
<1>2. /\ all \in Seq(ImuSamples) /\ Len(all) = m + 1
      /\ \A i \in 1..m : all[i] = buffered[i]
      /\ all[m + 1] = s
  BY AppendProperties
<1>3. Pushed(s) = longer
  BY DEF Pushed
<1> HIDE DEF all, m
<1>4. d \in {0, 1} /\ d \in Nat /\ n \in Nat
  BY <1>1
<1> HIDE DEF d
<1>5. \A i \in (1 + d)..(m + 1) : all[i] \in ImuSamples
  <2>1. \A i \in 1..(m + 1) : all[i] \in ImuSamples
    BY <1>2, ElementOfSeq
  <2>2. \A i \in (1 + d)..(m + 1) : i \in 1..(m + 1)
    BY <1>1, <1>4
  <2> QED
    BY <2>1, <2>2
<1>6. /\ longer \in Seq(ImuSamples)
      /\ Len(longer) = IF 1 + d <= m + 1 THEN (m + 1) - (1 + d) + 1 ELSE 0
      /\ \A i \in 1..((m + 1) - (1 + d) + 1) : longer[i] = all[(1 + d) + i - 1]
  <2>1. 1 + d \in Int /\ m + 1 \in Int
    BY <1>1, <1>4
  <2> QED
    BY <1>2, <1>5, <2>1, SubSeqProperties
<1> HIDE DEF longer
<1>7. Len(longer) = n /\ n = (m + 1) - (1 + d) + 1
  BY <1>1, <1>4, <1>6
<1>8. ASSUME NEW i \in 1..n
      PROVE  /\ i + d = m + 1 => longer[i] = s
             /\ i + d # m + 1 => i + d \in 1..m /\ longer[i] = buffered[i + d]
  <2>1. (1 + d) + i - 1 = i + d
    BY <1>4
  <2>2. longer[i] = all[i + d]
    BY <1>6, <1>7, <2>1
  <2>3. i + d # m + 1 => i + d \in 1..m
    BY <1>1, <1>4
  <2> QED
    BY <1>2, <2>2, <2>3
<1> QED
  BY <1>3, <1>4, <1>6, <1>7, <1>8 DEF m

(* A sample pushed leaves the buffer truthful and in order. *)
LEMMA PushedInOrder ==
  ASSUME PoseIInv, NEW s \in ImuSamples, s.timestamp \in 0..now,
         Attitude(s) => s.timestamp = now
  PROVE  LET longer == Pushed(s)
         IN  /\ longer \in Seq(ImuSamples)
             /\ \A i \in 1..Len(longer) : longer[i] = s \/ Truthful(longer[i])
             /\ \A j \in 1..Len(longer) : Attitude(longer[j]) =>
                  /\ state.timestamp <= longer[j].timestamp
                  /\ \A i \in 1..(j - 1) : longer[i].timestamp <= longer[j].timestamp
<1> DEFINE longer == Pushed(s)
           m == Len(buffered)
<1>1. buffered \in Seq(ImuSamples) /\ m \in Nat
  BY LenProperties DEF PoseIInv
<1>2. PICK d \in {0, 1} :
        /\ longer \in Seq(ImuSamples) /\ Len(longer) = m + 1 - d
        /\ \A i \in 1..(m + 1 - d) :
             /\ i + d = m + 1 => longer[i] = s
             /\ i + d # m + 1 => i + d \in 1..m /\ longer[i] = buffered[i + d]
  BY <1>1, PushedLast
<1> HIDE DEF longer
<1> DEFINE n == m + 1 - d
<1>3. n \in Nat /\ d \in Nat
  BY <1>1
<1>4. \A i \in 1..m : Truthful(buffered[i])
  BY DEF PoseIInv
<1> HIDE DEF m
<1>5. \A i \in 1..n : longer[i] = s \/ Truthful(longer[i])
  BY <1>2, <1>4
<1>6. ASSUME NEW j \in 1..n, Attitude(longer[j])
      PROVE  /\ state.timestamp <= longer[j].timestamp
             /\ \A i \in 1..(j - 1) : longer[i].timestamp <= longer[j].timestamp
  <2>1. /\ now \in Nat /\ s.timestamp \in 0..now /\ s.timestamp <= now
        /\ \A x : Truthful(x) => x.timestamp \in 0..now /\ x.timestamp <= now
    <3>1. now \in Nat
      BY LenProperties, EmptySeq DEF PoseIInv, Course, now
    <3> QED
      BY <3>1 DEF Truthful
  <2>2. state.timestamp <= now
    BY <2>1 DEF PoseIInv, Honest
  <2>3. \A i \in 1..(j - 1) : i \in 1..n /\ i + d \in 1..((j + d) - 1)
    BY <1>3
  <2>4. CASE j + d = m + 1
    <3>1. longer[j] = s /\ s.timestamp = now
      BY <1>2, <1>6, <2>4
    <3> QED
      BY <1>5, <2>1, <2>2, <2>3, <3>1
  <2>5. CASE j + d # m + 1
    <3>1. j + d \in 1..m /\ longer[j] = buffered[j + d]
      BY <1>2, <2>5
    <3>2. /\ state.timestamp <= buffered[j + d].timestamp
          /\ \A i \in 1..((j + d) - 1) : buffered[i].timestamp <= buffered[j + d].timestamp
      BY <1>6, <3>1 DEF PoseIInv, Ordered, m
    <3>3. \A i \in 1..(j - 1) : longer[i] = buffered[i + d]
      <4>1. \A i \in 1..(j - 1) : i + d # m + 1
        BY <1>1, <1>3, <3>1
      <4> QED
        BY <1>2, <2>3, <4>1
    <3> QED
      BY <2>3, <3>1, <3>2, <3>3
  <2> QED
    BY <2>4, <2>5
<1> QED
  BY <1>2, <1>5, <1>6 DEF longer

(* To sample the instant that it is commits the phone from there on. *)
LEMMA SampledNow ==
  ASSUME Course
  PROVE  /\ PointedAt(now) = Plus(PointedAt(now), TurningAt(now) * 0)
         /\ now \in Nat /\ now \in 0..now
<1> DEFINE a == PointedAt(now)
           r == TurningAt(now)
<1>1. now \in Nat
  BY LenProperties, EmptySeq DEF Course, now
<1>2. a \in Angle /\ a \in Nat /\ r \in Nat
  BY <1>1, PointedSomewhere
<1> HIDE DEF a, r
<1>3. FullTurn \in Nat \ {0} /\ a \in 0..(FullTurn - 1) /\ a # Off
  BY <1>2, PoseAssumption DEF Angle, Off
<1>4. (0 * FullTurn + a) % FullTurn = a
  BY <1>3, LeftOver
<1>5. 0 * FullTurn + a = a + r * 0
  BY <1>2, <1>3
<1>6. Plus(a, r * 0) = a
  BY <1>3, <1>4, <1>5 DEF Plus
<1> QED
  BY <1>1, <1>6 DEF a, r

(* A sample reported waits behind the others, of its own time. *)
LEMMA PoseReports ==
  ASSUME PoseIInv, SensorReports
  PROVE  PoseIInv'
<1>1. Course /\ now \in Nat /\ screen \in Screens /\ Honest(state) /\ sampled \subseteq 0..now
  BY SampledNow DEF PoseIInv, Course
<1>2. UNCHANGED <<past, screen, state>> /\ now' = now
  BY DEF SensorReports, now
<1>3. PICK t \in 0..now, has \in SUBSET {"attitude", "rate"} :
        /\ buffered' = Pushed(SampleAt(t, has))
        /\ has # {} => t \in sampled'
        /\ sampled \subseteq sampled' /\ sampled' \subseteq sampled \cup {now}
        /\ "attitude" \in has => t = now
  <2>1. CASE \E has \in SUBSET {"attitude", "rate"} :
               /\ buffered' = Pushed(SampleAt(now, has))
               /\ sampled' = IF has = {} THEN sampled ELSE sampled \cup {now}
    <3>1. now \in 0..now
      BY <1>1
    <3>2. PICK has \in SUBSET {"attitude", "rate"} :
            /\ buffered' = Pushed(SampleAt(now, has))
            /\ sampled' = IF has = {} THEN sampled ELSE sampled \cup {now}
      BY <2>1
    <3>3. /\ has # {} => now \in sampled'
          /\ sampled \subseteq sampled' /\ sampled' \subseteq sampled \cup {now}
      BY <3>2
    <3> QED
      BY <3>1, <3>2, <3>3
  <2>2. CASE /\ \E t \in sampled \ {now} : buffered' = Pushed(SampleAt(t, {"rate"}))
             /\ UNCHANGED sampled
    <3>1. PICK t \in sampled \ {now} : buffered' = Pushed(SampleAt(t, {"rate"}))
      BY <2>2
    <3>2. t \in 0..now /\ {"rate"} \in SUBSET {"attitude", "rate"} /\ "attitude" \notin {"rate"}
      BY <1>1
    <3> QED
      BY <2>2, <3>1, <3>2
  <2> QED
    BY <2>1, <2>2 DEF SensorReports
<1>4. PICK s \in ImuSamples :
      /\ s = SampleAt(t, has) /\ s.timestamp = t /\ s.has = has /\ s.screenAngle = screen
      /\ s.orientation = Plus(PointedAt(t), FullTurn - screen) /\ s.rate = TurningAt(t)
  BY SampledAt
<1>5. PICK longer \in Seq(ImuSamples) :
      /\ longer = Pushed(s)
      /\ \A i \in 1..Len(longer) : longer[i] = s \/ Truthful(longer[i])
      /\ \A j \in 1..Len(longer) : Attitude(longer[j]) =>
           /\ state.timestamp <= longer[j].timestamp
           /\ \A i \in 1..(j - 1) : longer[i].timestamp <= longer[j].timestamp
  <2>1. Attitude(s) => s.timestamp = now
    BY <1>3, <1>4 DEF Attitude
  <2> QED
    BY <1>4, <2>1, PushedInOrder
<1>6. buffered' = longer
  BY <1>3, <1>4, <1>5
<1>7. \A x : PointedAt(x)' = PointedAt(x) /\ TurningAt(x)' = TurningAt(x)
  BY <1>2 DEF PointedAt, TurningAt
<1>8. Course'
  <2>1. ASSUME NEW u \in sampled', NEW x \in u..now, x - u <= LongestPrediction
        PROVE  /\ PointedAt(x) = Plus(PointedAt(u), TurningAt(u) * (x - u))
               /\ TurningAt(x) = TurningAt(u)
    <3>1. CASE u \in sampled
      BY <1>1, <2>1, <3>1 DEF Course
    <3>2. CASE u = now
      <4>1. x = now /\ x - u = 0
        BY <1>1, <3>2
      <4> QED
        BY <1>1, <3>2, <4>1, SampledNow
    <3> QED
      BY <1>3, <3>1, <3>2
  <2>2. sampled' \subseteq 0..now
    <3>1. now \in 0..now
      BY <1>1
    <3> QED
      BY <1>1, <1>3, <3>1
  <2>3. past' \in Seq([angle : Angle, rate : Nat]) /\ past' # <<>>
    BY <1>1, <1>2 DEF Course
  <2> QED
    BY <1>2, <2>1, <2>2, <2>3 DEF Course, PointedAt, TurningAt
<1>9. ASSUME NEW x, Truthful(x) PROVE Truthful(x)'
  BY <1>2, <1>3, <1>9 DEF Truthful, PointedAt, TurningAt
<1>10. Truthful(s)'
  BY <1>2, <1>3, <1>4 DEF Truthful, PointedAt, TurningAt
<1>11. (\A i \in 1..Len(buffered) : Truthful(buffered[i]))'
  BY <1>5, <1>6, <1>9, <1>10
<1>12. Honest(state)'
  BY <1>1, <1>2, <1>3 DEF Honest, PointedAt
<1>13. Ordered'
  BY <1>2, <1>5, <1>6 DEF Ordered
<1> QED
  BY <1>1, <1>2, <1>5, <1>6, <1>8, <1>11, <1>12, <1>13 DEF PoseIInv

(* What the capture loop drains is the front of the buffer, and the rest is *)
(* what it leaves.                                                          *)
LEMMA DrainedIsTheFront ==
  ASSUME PoseIInv
  PROVE  \E n \in 0..Len(buffered) :
           LET rest == SubSeq(buffered, n + 1, Len(buffered))
           IN  /\ Drained = SubSeq(buffered, 1, n) /\ Len(Drained) = n
               /\ rest \in Seq(ImuSamples) /\ Len(rest) = Len(buffered) - n
               /\ \A i \in 1..Len(rest) :
                    i + n \in 1..Len(buffered) /\ rest[i] = buffered[i + n]
<1> DEFINE m == Len(buffered)
           n == IF m < DrainBatch THEN m ELSE DrainBatch
           rest == SubSeq(buffered, n + 1, m)
<1>1. buffered \in Seq(ImuSamples)
  BY DEF PoseIInv
<1>2. m \in Nat /\ \A i \in 1..m : buffered[i] \in ImuSamples
  BY <1>1, LenProperties, ElementOfSeq
<1>3. n \in 0..m /\ n \in Nat /\ n <= m
  BY <1>2, PoseAssumption
<1>4. Drained = SubSeq(buffered, 1, n)
  BY <1>1, SubSeqFull DEF Drained
<1> HIDE DEF m, n
<1>5. /\ Len(SubSeq(buffered, 1, n)) = IF 1 <= n THEN n - 1 + 1 ELSE 0
  <2>1. \A i \in 1..n : buffered[i] \in ImuSamples
    BY <1>2, <1>3
  <2> QED
    BY <1>3, <2>1, SubSeqProperties
<1>6. Len(Drained) = n
  BY <1>3, <1>4, <1>5
<1>7. /\ rest \in Seq(ImuSamples) /\ Len(rest) = IF n + 1 <= m THEN m - (n + 1) + 1 ELSE 0
      /\ \A i \in 1..(m - (n + 1) + 1) : rest[i] = buffered[(n + 1) + i - 1]
  <2>1. n + 1 \in Int /\ m \in Int /\ \A i \in (n + 1)..m : i \in 1..m
    BY <1>2, <1>3
  <2>2. \A i \in (n + 1)..m : buffered[i] \in ImuSamples
    BY <1>2, <2>1
  <2> QED
    BY <2>1, <2>2, SubSeqProperties
<1> HIDE DEF rest
<1>8. Len(rest) = m - n /\ m - (n + 1) + 1 = m - n
  BY <1>2, <1>3, <1>7
<1>9. \A i \in 1..(m - n) : i + n \in 1..m /\ (n + 1) + i - 1 = i + n
  BY <1>2, <1>3
<1>10. \A i \in 1..Len(rest) : i + n \in 1..m /\ rest[i] = buffered[i + n]
  BY <1>7, <1>8, <1>9
<1> QED
  BY <1>3, <1>4, <1>6, <1>7, <1>8, <1>10 DEF rest, m

(* What waited is folded, in the order it came. *)
LEMMA PoseIntegrates ==
  ASSUME PoseIInv, PoseOnMotion
  PROVE  PoseIInv'
<1> DEFINE m == Len(buffered)
<1>1. PICK n \in 0..m :
        LET rest == SubSeq(buffered, n + 1, m)
        IN  /\ Drained = SubSeq(buffered, 1, n) /\ Len(Drained) = n
            /\ rest \in Seq(ImuSamples) /\ Len(rest) = m - n
            /\ \A i \in 1..Len(rest) : i + n \in 1..m /\ rest[i] = buffered[i + n]
  BY DrainedIsTheFront
<1>2. PICK rest \in Seq(ImuSamples) :
        /\ rest = SubSeq(buffered, n + 1, m) /\ Len(rest) = m - n
        /\ \A i \in 1..Len(rest) : i + n \in 1..m /\ rest[i] = buffered[i + n]
  BY <1>1
<1>3. PICK p \in PoseStates :
        /\ p = Integrate(state, SubSeq(buffered, 1, n)) /\ Honest(p)
        /\ \A j \in (n + 1)..m : Attitude(buffered[j]) => p.timestamp <= buffered[j].timestamp
  BY DrainedHonest DEF Honest
<1>4. state' = p /\ buffered' = rest /\ UNCHANGED <<past, screen, sampled>> /\ now' = now
  BY <1>1, <1>2, <1>3 DEF PoseOnMotion, now
<1>5. m \in Nat /\ n \in Nat /\ n <= m
  BY LenProperties DEF PoseIInv
<1>6. \A i \in 1..m : Truthful(buffered[i])
  BY DEF PoseIInv
<1>7. ASSUME NEW x, Truthful(x) PROVE Truthful(x)'
  BY <1>4, <1>7 DEF Truthful, PointedAt, TurningAt
<1>8. Honest(p)'
  BY <1>3, <1>4 DEF Honest, PointedAt
<1>9. Course'
  BY <1>4 DEF PoseIInv, Course, PointedAt, TurningAt
<1> HIDE DEF m
<1>10. \A i \in 1..Len(rest) : Truthful(rest[i])
  BY <1>2, <1>6
<1>11. ASSUME NEW j \in 1..Len(rest), Attitude(rest[j])
       PROVE  /\ p.timestamp <= rest[j].timestamp
              /\ \A i \in 1..(j - 1) : rest[i].timestamp <= rest[j].timestamp
  <2>1. j + n \in 1..m /\ rest[j] = buffered[j + n]
    BY <1>2
  <2>2. j + n \in (n + 1)..m
    BY <1>2, <1>5, <2>1
  <2>3. \A i \in 1..(j - 1) : i \in 1..Len(rest) /\ i + n \in 1..((j + n) - 1)
    BY <1>2, <1>5
  <2>4. \A i \in 1..((j + n) - 1) : buffered[i].timestamp <= buffered[j + n].timestamp
    BY <1>11, <2>1 DEF PoseIInv, Ordered, m
  <2> QED
    BY <1>2, <1>3, <1>11, <2>1, <2>2, <2>3, <2>4
<1>12. (\A i \in 1..Len(buffered) : Truthful(buffered[i]))'
  BY <1>4, <1>7, <1>10
<1>13. Ordered'
  BY <1>4, <1>11 DEF Ordered
<1>14. Honest(state)'
  BY <1>4, <1>8 DEF Honest
<1> QED
  BY <1>2, <1>4, <1>9, <1>12, <1>13, <1>14 DEF PoseIInv

(* Every step keeps the estimate honest. *)
LEMMA PoseStep ==
  ASSUME PoseIInv, [PoseNext]_poseVars
  PROVE  PoseIInv'
<1>1. CASE TimePasses
  BY <1>1, PosePasses
<1>2. CASE PageTurns
  <2>1. UNCHANGED <<past, sampled, buffered, state>> /\ now' = now /\ screen' \in Screens
    BY <1>2 DEF PageTurns, now
  <2>2. Course' /\ Honest(state)' /\ Ordered'
    BY <2>1 DEF PoseIInv, Course, Honest, Ordered, PointedAt, TurningAt
  <2>3. (\A i \in 1..Len(buffered) : Truthful(buffered[i]))'
    BY <2>1 DEF PoseIInv, Truthful, PointedAt, TurningAt
  <2> QED
    BY <2>1, <2>2, <2>3 DEF PoseIInv
<1>3. CASE SensorReports
  BY <1>3, PoseReports
<1>4. CASE PoseOnMotion
  BY <1>4, PoseIntegrates
<1>5. CASE EndAndBegin
  <2>1. UNCHANGED <<past, screen, sampled>> /\ now' = now /\ state' = Initial /\ buffered' = <<>>
    BY <1>5 DEF EndAndBegin, now
  <2>2. Course'
    BY <2>1 DEF PoseIInv, Course, PointedAt, TurningAt
  <2>3. 0 \in Angle /\ 0 \in Screens /\ 0 \in 0..now
    BY SampledNow, PoseAssumption DEF Angle, PoseIInv
  <2>4. Honest(state)'
    BY <2>1, <2>3 DEF Honest, Initial, PoseStates
  <2>5. buffered' \in Seq(ImuSamples) /\ Len(buffered') = 0
    BY <2>1
  <2> QED
    BY <2>1, <2>2, <2>4, <2>5 DEF PoseIInv, Ordered
<1>6. CASE UNCHANGED poseVars
  <2>1. UNCHANGED <<past, screen, sampled, buffered, state>> /\ now' = now
    BY <1>6 DEF poseVars, now
  <2>2. Course' /\ Honest(state)' /\ Ordered'
    BY <2>1 DEF PoseIInv, Course, Honest, Ordered, PointedAt, TurningAt
  <2>3. (\A i \in 1..Len(buffered) : Truthful(buffered[i]))'
    BY <2>1 DEF PoseIInv, Truthful, PointedAt, TurningAt
  <2> QED
    BY <2>1, <2>2, <2>3 DEF PoseIInv
<1> QED
  BY <1>1, <1>2, <1>3, <1>4, <1>5, <1>6 DEF PoseNext

(* What the engine claims in full is where the phone pointed, as long as it *)
(* turned on as it was sampled to, however late and out of order the rates  *)
(* came: for any angles, rates and times of sampling.                       *)
THEOREM FullConfidenceIsHonest == PoseSpec => []HonestAim
<1>1. PoseIInv => HonestAim
  BY DEF PoseIInv, Honest, HonestAim, Confidence
<1> QED
  BY <1>1, PoseStarts, PoseStep, PTL DEF PoseSpec
=============================================================================
