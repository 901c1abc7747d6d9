---------------------------- MODULE PoseTracking ----------------------------
(***************************************************************************)
(* Where the phone points, as OrientationPoseEngine folds it out of what   *)
(* the page's sensors say: attitudes, rates, both or neither, in a frame   *)
(* that steps when the page turns under the phone, through a buffer that   *)
(* drops its oldest samples when the capture loop falls behind.            *)
(*                                                                         *)
(* Attitudes are angles about one axis and sensors are exact, so that what *)
(* the engine says it measured can be compared with where the phone was.   *)
(* A blend of a prediction and a reading that differ is neither: Off.  The *)
(* gyroscope's offset is zero, and a reading whose gravity is too far off, *)
(* taken whole, needs a second axis.                                       *)
(***************************************************************************)
EXTENDS Integers, SequencesExt

CONSTANTS
  FullTurn,        \* the angles are 0..FullTurn - 1
  Screens,         \* the angles the page can have to the phone
  LongestPrediction,  \* kLongestPredictionSeconds, in instants
  MaxTime,         \* bound: instants
  MotionBuffer,    \* MOTION_BUFFER_LIMIT
  DrainBatch       \* kDrainBatch

ASSUME PoseAssumption ==
  /\ FullTurn \in Nat \ {0} /\ 0 \in Screens /\ Screens \subseteq 0..(FullTurn - 1)
  /\ {LongestPrediction, MaxTime, MotionBuffer, DrainBatch} \subseteq Nat \ {0}

VARIABLES
  past,      \* where the phone pointed and how it turned, instant by instant
  screen,    \* the angle of the page
  sampled,   \* the instants the sensors measured something
  buffered,  \* the host's buffer
  state      \* pose_state_

poseVars == <<past, screen, sampled, buffered, state>>

Off == -1
Plus(angle, turn) == IF angle = Off THEN Off ELSE (angle + turn) % FullTurn
now == Len(past) - 1
PointedAt(t) == past[t + 1].angle
TurningAt(t) == past[t + 1].rate

(* PoseState; Initial. *)
Initial ==
  [orientation |-> 0, screenAngle |-> 0, timestamp |-> 0,
   observed |-> FALSE, anchored |-> FALSE, absolute |-> FALSE]

PoseInit ==
  /\ \E r \in {0, 1} : past = <<[angle |-> 0, rate |-> r]>>
  /\ screen = 0 /\ sampled = {}
  /\ buffered = <<>> /\ state = Initial

-----------------------------------------------------------------------------
(* ImuSample: taken with its attitude, its rate, both or neither. *)
SampleAt(t, has) ==
  [timestamp |-> t, screenAngle |-> screen, has |-> has,
   orientation |-> Plus(PointedAt(t), FullTurn - screen), rate |-> TurningAt(t)]

Attitude(s) == "attitude" \in s.has
Measured(s) == "rate" \in s.has

(* FrameTurn *)
FrameTurn(from, to) == from + FullTurn - to

(* Fault: the estimate is left in the frame the page had before. *)
CarriedNot(p, s) == [p EXCEPT !.screenAngle = s.screenAngle]

(* A page turn changes nothing about the phone. *)
Carried(p, s) ==
  [p EXCEPT !.orientation = Plus(@, FrameTurn(p.screenAngle, s.screenAngle)),
            !.screenAngle = s.screenAngle]

Elapsed(p, s) == p.observed /\ s.timestamp > p.timestamp
Spanned(p, s) == Elapsed(p, s) => s.timestamp - p.timestamp <= LongestPrediction
Turned(p, s) == Plus(p.orientation, s.rate * (s.timestamp - p.timestamp))

(* Only an estimate that descends from a reading is predicted forward. *)
Predictable(p, s) == p.absolute /\ Elapsed(p, s)

Fuses(p, s) == Measured(s) /\ Predictable(p, s) /\ Spanned(p, s)

(* A reading, taken whole or against a prediction. *)
ReadsAttitude(p, s) ==
  [p EXCEPT !.orientation = IF Fuses(p, s) /\ Turned(p, s) # s.orientation THEN Off
                            ELSE s.orientation,
            !.absolute = TRUE, !.anchored = TRUE]

(* Dead reckoning; across a gap the rate says nothing, still or not. *)
Reckons(p, s) ==
  [p EXCEPT !.orientation = Turned(p, s),
            !.absolute = @ /\ s.rate = 0 /\ Spanned(p, s)]

(* Fault: a sample that says nothing moves the clock. *)
ClockedBySilence(p, s) ==
  [p EXCEPT !.timestamp = IF s.timestamp > @ THEN s.timestamp ELSE @, !.observed = TRUE]

(* The clock moves forward only, and for a measurement only. *)
Clocked(p, s) ==
  IF s.has = {} THEN p
  ELSE [p EXCEPT !.timestamp = IF s.timestamp > @ THEN s.timestamp ELSE @, !.observed = TRUE]

(* Integrate, of one sample. *)
Folded(p, s) ==
  LET c == Carried(p, s)
  IN  Clocked(IF Attitude(s) THEN ReadsAttitude(c, s)
              ELSE IF Elapsed(c, s) /\ Measured(s) THEN Reckons(c, s)
              ELSE c, s)

Integrate(prior, samples) == FoldLeft(Folded, prior, samples)

Confidence(p) == IF ~p.anchored THEN "none" ELSE IF p.absolute THEN "full" ELSE "half"

-----------------------------------------------------------------------------
(* The phone turns at the rate it was sampled at, except in a stall. *)
TimePasses ==
  /\ now < MaxTime
  /\ IF \E t \in sampled : now + 1 - t <= LongestPrediction
     THEN past' = Append(past, [past[now + 1] EXCEPT !.angle = Plus(@, TurningAt(now))])
     ELSE \E a \in 0..(FullTurn - 1), r \in {0, 1} :
            past' = Append(past, [angle |-> a, rate |-> r])
  /\ UNCHANGED <<screen, sampled, buffered, state>>

PageTurns ==
  /\ screen' \in Screens \ {screen}
  /\ UNCHANGED <<past, sampled, buffered, state>>

(* pushMotion: the oldest samples make room. *)
Pushed(sample) ==
  LET all == Append(buffered, sample)
  IN  SubSeq(all, 1 + (IF Len(all) > MotionBuffer THEN 1 ELSE 0), Len(all))

(* Attitudes come in their order; a rate may come late. *)
SensorReports ==
  /\ \/ \E has \in SUBSET {"attitude", "rate"} :
          /\ buffered' = Pushed(SampleAt(now, has))
          /\ sampled' = IF has = {} THEN sampled ELSE sampled \cup {now}
     \/ /\ \E t \in sampled \ {now} : buffered' = Pushed(SampleAt(t, {"rate"}))
        /\ UNCHANGED sampled
  /\ UNCHANGED <<past, screen, state>>

(* Drain: what the host gives of its buffer, oldest first, in one call. *)
Drained == IF Len(buffered) < DrainBatch THEN buffered ELSE SubSeq(buffered, 1, DrainBatch)

(* OnMotion, as far as the pose: what was drained is folded in, in order. *)
PoseOnMotion ==
  /\ buffered # <<>>
  /\ state' = Integrate(state, Drained)
  /\ buffered' = SubSeq(buffered, Len(Drained) + 1, Len(buffered))
  /\ UNCHANGED <<past, screen, sampled>>

(* End stops the sensors, Begin starts them and an estimate of its own. *)
EndAndBegin ==
  /\ state # Initial
  /\ state' = Initial /\ buffered' = <<>>
  /\ UNCHANGED <<past, screen, sampled>>

PoseNext == TimePasses \/ PageTurns \/ SensorReports \/ PoseOnMotion \/ EndAndBegin
PoseSpec == PoseInit /\ [][PoseNext]_poseVars

-----------------------------------------------------------------------------
(* What the engine reports with full confidence is where the phone pointed  *)
(* at the instant it says, in the frame it says: whatever the sensors left  *)
(* out, however long they were silent, whatever the buffer dropped, however *)
(* the page turned meanwhile.  A burst fires on that claim.                 *)
HonestAim ==
  Confidence(state) = "full" =>
    state.orientation = Plus(PointedAt(state.timestamp), FullTurn - state.screenAngle)
=============================================================================
