---------------------------- MODULE MCAlgorithms ----------------------------
(* The planner, the facade and the pose engine share nothing: a behaviour    *)
(* is of one of them.  Plans of three to six cells on a horizon of sixteen   *)
(* directions; payloads of lists and strings of up to two, in a size_t that  *)
(* wraps at 1024; four instants of samples.                                  *)
EXTENDS Sweep, Facade, PoseTracking
MCLenses == 3..5
MCOverlaps == {0, 3}
MCClaims == {-1, 0, 1, 25, 128}   \* 25 and 128 elements' bytes wrap

NoCall ==
  /\ call = Call(<<>>, <<>>) /\ leg = "idle" /\ core = [did |-> "nothing", of |-> "nothing", whole |-> TRUE]
  /\ sent = <<>> /\ size = 0 /\ wrong = "nothing" /\ todo = <<>>
  /\ reader = Begun /\ read = NothingRead /\ reserved = 0

NoSweep ==
  /\ spec = CHOOSE s \in PlanSpec(Lenses, Cones, Overlaps) : TRUE
  /\ plan = NoPlan /\ lens = 1 /\ taken = {} /\ placed = {} /\ gaps = {} /\ judged = FALSE

NoPose ==
  /\ past = <<>> /\ screen = 0 /\ sampled = {}
  /\ buffered = <<>> /\ state = Initial

EitherInit ==
  \/ SweepInit /\ NoCall /\ NoPose
  \/ CallInit /\ NoSweep /\ NoPose
  \/ PoseInit /\ NoSweep /\ NoCall

SweepAlone == UNCHANGED <<callVars, poseVars>>
CallAlone == UNCHANGED <<sweepVars, poseVars>>
PoseAlone == past # <<>> /\ UNCHANGED <<sweepVars, callVars>>

EitherNext ==
  \/ Planned /\ (\E cell \in plan : Take(cell)) /\ SweepAlone
  \/ JudgeGaps /\ SweepAlone
  \/ Fill /\ SweepAlone
  \/ Asks /\ CallAlone
  \/ GetScalar /\ CallAlone
  \/ GetChecked /\ CallAlone
  \/ GetText /\ CallAlone
  \/ GetCount /\ CallAlone
  \/ Dispatches /\ CallAlone
  \/ StatusRead /\ CallAlone
  \/ ValueRead /\ CallAlone
  \/ PoseAlone /\ TimePasses
  \/ PoseAlone /\ PageTurns
  \/ PoseAlone /\ SensorReports
  \/ PoseAlone /\ PoseOnMotion
  \/ PoseAlone /\ EndAndBegin

EitherSpec == EitherInit /\ [][EitherNext]_<<sweepVars, callVars, poseVars>>
=============================================================================
