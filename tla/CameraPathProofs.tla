-------------------------- MODULE CameraPathProofs --------------------------
(***************************************************************************)
(* Theorems about the camera's path, for every length of a burst and any   *)
(* number of arms, openings and faults.                                    *)
(*                                                                         *)
(* Both properties are about what is on its way: a queue is described by   *)
(* what is among it and what is behind what, and an action by what it      *)
(* takes off one queue and puts on another.                                *)
(***************************************************************************)
EXTENDS CameraPath, TLAPS

Kinds ==
  {"camera", "lost", "begin", "tick", "locks", "refresh", "arm", "close", "release", "begun",
   "refused", "firing", "seek", "other", "failed", "unreached", "armed", "notarmed"}
Message == [kind : Kinds, held : BOOLEAN]
LockWrite == [want : BOOLEAN, awaited : BOOLEAN]
Kind(kinds) == [kind : kinds, held : BOOLEAN]

Track == [live : BOOLEAN, held : BOOLEAN, stuck : BOOLEAN, kept : BOOLEAN]
Page ==
  [at : {"closed", "beginning", "pumping", "failed"}, taken : BOOLEAN, stopped : BOOLEAN,
   missed : Nat, asking : BOOLEAN, arm : {"none", "writing", "asked"}, armed : BOOLEAN,
   firing : BOOLEAN]
Host == [caps : {"none", "opened", "refreshed"}, held : BOOLEAN]
Burst == [armed : BOOLEAN, locked : BOOLEAN, frames : Nat]
Core == [active : BOOLEAN, burst : Burst]

Types ==
  /\ track \in Track /\ chain \in Seq(LockWrite) /\ page \in Page
  /\ toCore \in Seq(Message) /\ toPage \in Seq(Message)
  /\ host \in Host /\ core \in Core /\ dead \in BOOLEAN

(* Some message of S is in the queue; one of T is behind one of S. *)
Among(q, S) == \E i \in 1..Len(q) : q[i] \in S
Behind(q, S, T) == \E i, j \in 1..Len(q) : i < j /\ q[i] \in S /\ q[j] \in T

-----------------------------------------------------------------------------
(* A camera is announced together with the call to begin, one opening at a  *)
(* time; until begin is answered nothing can be closed, and where it was    *)
(* refused nothing is closed behind the refusal.                            *)
Camera == Kind({"camera"})
CallsBegin == Kind({"begin"})
Lost == Kind({"lost"})
Closes == Kind({"close"})
Begun == Kind({"begun"})
Refused == Kind({"refused"})

Openings ==
  /\ Among(toCore, Camera) =>
       Among(toCore, CallsBegin) /\ (track.live \/ Behind(toCore, Camera, Lost))
  /\ ~Behind(toCore, CallsBegin, Camera) /\ ~Behind(toCore, Camera, Camera)
  /\ ~Behind(toCore, CallsBegin, CallsBegin)
  /\ Among(toCore, CallsBegin) =>
       /\ page.at = "beginning" /\ ~core.active
       /\ ~Among(toPage, Closes) /\ ~Among(toPage, Begun) /\ ~Among(toPage, Refused)
  /\ Among(toPage, Closes) => host.caps = "none" /\ page.at # "closed"
  /\ Among(toPage, Begun) => page.at = "beginning"
  /\ Among(toPage, Refused) => page.at = "beginning" /\ ~core.active
  /\ ~Behind(toPage, Refused, Refused) /\ ~Behind(toPage, Begun, Refused)
  /\ ~Behind(toPage, Refused, Begun) /\ ~Behind(toPage, Refused, Closes)
  /\ ~Behind(toPage, Begun, Begun)
  /\ page.at = "closed" => ~core.active
  /\ core.active => page.at \in {"beginning", "pumping"}

(* Where no camera is behind it, the news that one is gone still is. *)
Announced == host.caps # "none" => track.live \/ Among(toCore, Lost)

CameraIInv == Types /\ (~dead => Openings /\ Announced)

-----------------------------------------------------------------------------
(* Before the loop pumps there was no arm, no tick and no burst. *)
Arms == Kind({"arm"})
Ticks == Kind({"tick"})
Release == Kind({"release"})
SaysArmed == Kind({"armed"})
NotArmed == Kind({"notarmed"})
ArmAnswers == Kind({"armed", "notarmed"})
LockedArm == {m \in Message : m.kind = "arm" /\ m.held}
Clears == Kind({"seek", "other", "failed"})
TickAnswers == Kind({"seek", "other", "failed", "firing", "unreached"})

Pristine ==
  /\ ~core.burst.armed /\ ~core.burst.locked
  /\ page.arm = "none" /\ ~page.armed /\ ~page.firing /\ ~page.stopped /\ ~page.asking
  /\ chain = <<>>
  /\ ~Among(toCore, Arms) /\ ~Among(toCore, Ticks)
  /\ ~Among(toPage, Release) /\ ~Among(toPage, ArmAnswers) /\ ~Among(toPage, TickAnswers)

(* Only the last write of a chain is waited for; none is. *)
LastAwaited(q) == \A i \in 1..Len(q) : q[i].awaited => i = Len(q)
NoneAwaited(q) == \A i \in 1..Len(q) : ~q[i].awaited

(* One tick is out at a time, and one arm. *)
OneTick ==
  /\ Among(toCore, Ticks) \/ Among(toPage, TickAnswers) => page.asking
  /\ Among(toCore, Ticks) => ~Among(toPage, TickAnswers)
  /\ ~Behind(toCore, Ticks, Ticks) /\ ~Behind(toPage, TickAnswers, TickAnswers)

OneArm ==
  /\ Among(toCore, Arms) \/ Among(toPage, ArmAnswers) => page.arm = "asked"
  /\ Among(toCore, Arms) => ~Among(toPage, ArmAnswers)
  /\ ~Behind(toCore, Arms, Arms) /\ ~Behind(toPage, ArmAnswers, ArmAnswers)
  /\ LastAwaited(chain) /\ (page.arm # "writing" => NoneAwaited(chain))

(* An arm whose burst, if it gets one, has not begun. *)
Arming == page.arm = "writing" \/ Among(toCore, Arms) \/ Among(toPage, NotArmed)

(* The page is busy until it hears that a burst is over and its locks are   *)
(* asked back; what clears its idea of a burst either is about an earlier   *)
(* one, with an armed still behind it, or is the last there is to say.      *)
Occupied ==
  /\ core.burst.armed \/ Among(toPage, Release) =>
       page.arm = "asked" \/ page.armed \/ page.firing
  /\ Arming => ~core.burst.armed /\ ~Among(toPage, Release)
  /\ Among(toPage, Clears) /\ (core.burst.armed \/ Behind(toPage, Clears, Release)) =>
       Behind(toPage, Clears, SaysArmed)

(* A locked burst has the track and the chain to itself. *)
Undisturbed ==
  /\ core.burst.locked =>
       core.burst.armed /\ track.held /\ chain = <<>> /\ ~Among(toPage, Release)
  /\ Among(toCore, LockedArm) => track.held /\ chain = <<>>

Turning == track.live /\ ~page.stopped /\ ~dead

LocksIInv ==
  /\ Types
  /\ page.taken => ~track.live
  /\ page.stopped \/ dead => ~page.asking
  /\ page.at # "pumping" => Pristine
  /\ Turning => OneTick /\ OneArm /\ Occupied /\ Undisturbed

-----------------------------------------------------------------------------
(* What is put on a queue is behind what was there; what is taken off was   *)
(* in front of it.                                                          *)
LEMMA Joined ==
  ASSUME NEW q \in Seq(Message), NEW m \in Seq(Message)
  PROVE  /\ q \o m \in Seq(Message) /\ Len(q \o m) = Len(q) + Len(m)
         /\ Len(q) \in Nat /\ Len(m) \in Nat
         /\ \A i \in 1..Len(q) : i \in 1..Len(q \o m) /\ (q \o m)[i] = q[i]
         /\ \A i \in 1..Len(m) : Len(q) + i \in 1..Len(q \o m) /\ (q \o m)[Len(q) + i] = m[i]
         /\ \A i \in 1..Len(q \o m) : i > Len(q) =>
              i - Len(q) \in 1..Len(m) /\ (q \o m)[i] = m[i - Len(q)]
OBVIOUS

(* A message is among two queues joined when it is among one of them. *)
LEMMA AmongJoined ==
  ASSUME NEW q \in Seq(Message), NEW m \in Seq(Message), NEW S
  PROVE  Among(q \o m, S) <=> Among(q, S) \/ Among(m, S)
<1>1. ASSUME Among(q \o m, S) PROVE Among(q, S) \/ Among(m, S)
  <2>1. PICK i \in 1..Len(q \o m) : (q \o m)[i] \in S
    BY <1>1 DEF Among
  <2>2. CASE i <= Len(q)
    BY <2>1, <2>2, Joined DEF Among
  <2>3. CASE i > Len(q)
    BY <2>1, <2>3, Joined DEF Among
  <2> QED
    BY <2>2, <2>3, Joined
<1>2. Among(q, S) => Among(q \o m, S)
  BY Joined DEF Among
<1>3. Among(m, S) => Among(q \o m, S)
  BY Joined DEF Among
<1> QED
  BY <1>1, <1>2, <1>3

(* Order in two queues joined: within one of them, or the first before the second. *)
LEMMA BehindJoined ==
  ASSUME NEW q \in Seq(Message), NEW m \in Seq(Message), NEW S, NEW T
  PROVE  Behind(q \o m, S, T) <=>
           Behind(q, S, T) \/ Behind(m, S, T) \/ (Among(q, S) /\ Among(m, T))
<1>1. ASSUME Behind(q \o m, S, T)
      PROVE  Behind(q, S, T) \/ Behind(m, S, T) \/ (Among(q, S) /\ Among(m, T))
  <2>1. PICK i, j \in 1..Len(q \o m) : i < j /\ (q \o m)[i] \in S /\ (q \o m)[j] \in T
    BY <1>1 DEF Behind
  <2>2. CASE j <= Len(q)
    <3>1. i \in 1..Len(q) /\ j \in 1..Len(q)
      BY <2>1, <2>2, Joined
    <3> QED
      BY <2>1, <3>1, Joined DEF Behind
  <2>3. CASE i > Len(q)
    <3>1. /\ i - Len(q) \in 1..Len(m) /\ j - Len(q) \in 1..Len(m) /\ i - Len(q) < j - Len(q)
          /\ m[i - Len(q)] \in S /\ m[j - Len(q)] \in T
      BY <2>1, <2>3, Joined
    <3> QED
      BY <3>1 DEF Behind
  <2>4. CASE i <= Len(q) /\ j > Len(q)
    <3>1. i \in 1..Len(q) /\ q[i] \in S /\ j - Len(q) \in 1..Len(m) /\ m[j - Len(q)] \in T
      BY <2>1, <2>4, Joined
    <3> QED
      BY <3>1 DEF Among
  <2> QED
    BY <2>2, <2>3, <2>4, Joined
<1>2. Behind(q, S, T) => Behind(q \o m, S, T)
  BY Joined DEF Behind
<1>3. ASSUME Behind(m, S, T) PROVE Behind(q \o m, S, T)
  <2>1. PICK i, j \in 1..Len(m) : i < j /\ m[i] \in S /\ m[j] \in T
    BY <1>3 DEF Behind
  <2>2. /\ Len(q) + i \in 1..Len(q \o m) /\ Len(q) + j \in 1..Len(q \o m)
        /\ Len(q) + i < Len(q) + j
        /\ (q \o m)[Len(q) + i] \in S /\ (q \o m)[Len(q) + j] \in T
    BY <2>1, Joined
  <2> QED
    BY <2>2 DEF Behind
<1>4. ASSUME Among(q, S), Among(m, T) PROVE Behind(q \o m, S, T)
  <2>1. PICK i \in 1..Len(q) : q[i] \in S
    BY <1>4 DEF Among
  <2>2. PICK j \in 1..Len(m) : m[j] \in T
    BY <1>4 DEF Among
  <2>3. /\ i \in 1..Len(q \o m) /\ Len(q) + j \in 1..Len(q \o m) /\ i < Len(q) + j
        /\ (q \o m)[i] \in S /\ (q \o m)[Len(q) + j] \in T
    BY <2>1, <2>2, Joined
  <2> QED
    BY <2>3 DEF Behind
<1> QED
  BY <1>1, <1>2, <1>3, <1>4

(* What is left of a queue once its first message is taken. *)
LEMMA TakenOff ==
  ASSUME NEW q \in Seq(Message), q # <<>>
  PROVE  /\ Tail(q) \in Seq(Message) /\ Head(q) \in Message /\ Head(q) = q[1]
         /\ Len(q) \in Nat /\ Len(q) >= 1 /\ Len(Tail(q)) = Len(q) - 1
         /\ \A i \in 1..Len(Tail(q)) : i + 1 \in 1..Len(q) /\ q[i + 1] = Tail(q)[i]
         /\ \A i \in 1..Len(q) : i # 1 => i - 1 \in 1..Len(Tail(q)) /\ Tail(q)[i - 1] = q[i]
OBVIOUS

(* A message is among a queue when it is the first or among the rest. *)
LEMMA AmongTail ==
  ASSUME NEW q \in Seq(Message), q # <<>>, NEW S
  PROVE  Among(q, S) <=> Head(q) \in S \/ Among(Tail(q), S)
<1>1. ASSUME Among(q, S), Head(q) \notin S PROVE Among(Tail(q), S)
  <2>1. PICK i \in 1..Len(q) : q[i] \in S
    BY <1>1 DEF Among
  <2>2. i - 1 \in 1..Len(Tail(q)) /\ Tail(q)[i - 1] = q[i]
    BY <1>1, <2>1, TakenOff
  <2> QED
    BY <2>1, <2>2 DEF Among
<1>2. Head(q) \in S => Among(q, S)
  BY TakenOff DEF Among
<1>3. Among(Tail(q), S) => Among(q, S)
  BY TakenOff DEF Among
<1> QED
  BY <1>1, <1>2, <1>3

(* Order in a queue: within the rest, or the first before something of the rest. *)
LEMMA BehindTail ==
  ASSUME NEW q \in Seq(Message), q # <<>>, NEW S, NEW T
  PROVE  Behind(q, S, T) <=> Behind(Tail(q), S, T) \/ (Head(q) \in S /\ Among(Tail(q), T))
<1>1. ASSUME Behind(q, S, T)
      PROVE  Behind(Tail(q), S, T) \/ (Head(q) \in S /\ Among(Tail(q), T))
  <2>1. PICK i, j \in 1..Len(q) : i < j /\ q[i] \in S /\ q[j] \in T
    BY <1>1 DEF Behind
  <2>2. j - 1 \in 1..Len(Tail(q)) /\ Tail(q)[j - 1] = q[j]
    BY <2>1, TakenOff
  <2>3. CASE i = 1
    BY <2>1, <2>2, <2>3, TakenOff DEF Among
  <2>4. CASE i # 1
    <3>1. i - 1 \in 1..Len(Tail(q)) /\ Tail(q)[i - 1] = q[i] /\ i - 1 < j - 1
      BY <2>1, <2>4, TakenOff
    <3> QED
      BY <2>1, <2>2, <3>1 DEF Behind
  <2> QED
    BY <2>3, <2>4
<1>2. ASSUME Behind(Tail(q), S, T) PROVE Behind(q, S, T)
  <2>1. PICK i, j \in 1..Len(Tail(q)) : i < j /\ Tail(q)[i] \in S /\ Tail(q)[j] \in T
    BY <1>2 DEF Behind
  <2>2. /\ i + 1 \in 1..Len(q) /\ j + 1 \in 1..Len(q) /\ i + 1 < j + 1
        /\ q[i + 1] \in S /\ q[j + 1] \in T
    BY <2>1, TakenOff
  <2> QED
    BY <2>2 DEF Behind
<1>3. ASSUME Head(q) \in S, Among(Tail(q), T) PROVE Behind(q, S, T)
  <2>1. PICK j \in 1..Len(Tail(q)) : Tail(q)[j] \in T
    BY <1>3 DEF Among
  <2>2. 1 \in 1..Len(q) /\ j + 1 \in 1..Len(q) /\ 1 < j + 1 /\ q[1] \in S /\ q[j + 1] \in T
    BY <1>3, <2>1, TakenOff
  <2> QED
    BY <2>2 DEF Behind
<1> QED
  BY <1>1, <1>2, <1>3

(* What is posted at once: up to three messages. *)
LEMMA Posts ==
  /\ <<>> \in Seq(Message) /\ \A S, T : ~Among(<<>>, S) /\ ~Behind(<<>>, S, T)
  /\ \A a \in Message :
       /\ <<a>> \in Seq(Message)
       /\ \A S, T : (Among(<<a>>, S) <=> a \in S) /\ ~Behind(<<a>>, S, T)
  /\ \A a, b \in Message :
       /\ <<a, b>> \in Seq(Message)
       /\ \A S, T : /\ Among(<<a, b>>, S) <=> a \in S \/ b \in S
                    /\ Behind(<<a, b>>, S, T) <=> a \in S /\ b \in T
  /\ \A a, b, c \in Message :
       /\ <<a, b, c>> \in Seq(Message)
       /\ \A S, T : /\ Among(<<a, b, c>>, S) <=> a \in S \/ b \in S \/ c \in S
                    /\ Behind(<<a, b, c>>, S, T) <=>
                         (a \in S /\ (b \in T \/ c \in T)) \/ (b \in S /\ c \in T)
<1>1. <<>> \in Seq(Message) /\ \A S, T : ~Among(<<>>, S) /\ ~Behind(<<>>, S, T)
  BY DEF Among, Behind
<1>2. ASSUME NEW a \in Message
      PROVE  /\ <<a>> \in Seq(Message)
             /\ \A S, T : (Among(<<a>>, S) <=> a \in S) /\ ~Behind(<<a>>, S, T)
  BY DEF Among, Behind
<1>3. ASSUME NEW a \in Message, NEW b \in Message
      PROVE  /\ <<a, b>> \in Seq(Message)
             /\ \A S, T : /\ Among(<<a, b>>, S) <=> a \in S \/ b \in S
                          /\ Behind(<<a, b>>, S, T) <=> a \in S /\ b \in T
  <2>1. <<a, b>> \in Seq(Message) /\ Len(<<a, b>>) = 2 /\ <<a, b>>[1] = a /\ <<a, b>>[2] = b
    OBVIOUS
  <2> QED
    BY <2>1 DEF Among, Behind
<1>4. ASSUME NEW a \in Message, NEW b \in Message, NEW c \in Message
      PROVE  /\ <<a, b, c>> \in Seq(Message)
             /\ \A S, T : /\ Among(<<a, b, c>>, S) <=> a \in S \/ b \in S \/ c \in S
                          /\ Behind(<<a, b, c>>, S, T) <=>
                               (a \in S /\ (b \in T \/ c \in T)) \/ (b \in S /\ c \in T)
  <2>1. /\ <<a, b, c>> \in Seq(Message) /\ Len(<<a, b, c>>) = 3
        /\ <<a, b, c>>[1] = a /\ <<a, b, c>>[2] = b /\ <<a, b, c>>[3] = c
    OBVIOUS
  <2> QED
    BY <2>1 DEF Among, Behind
<1> QED
  BY <1>1, <1>2, <1>3, <1>4

(* The messages, and what tells them apart. *)
LEMMA Saying ==
  /\ \A k \in Kinds : Says(k) \in Message /\ Says(k).kind = k
  /\ \A k \in Kinds, b \in BOOLEAN :
       Holds(k, b) \in Message /\ Holds(k, b).kind = k /\ Holds(k, b).held = b
  /\ \A m \in Message : m = Holds(m.kind, m.held) /\ \A kinds : m \in Kind(kinds) <=> m.kind \in kinds
BY DEF Says, Holds, Message, Kind

-----------------------------------------------------------------------------
(* Queues of messages stay queues of messages. *)
LEMMA Sendable ==
  /\ <<>> \in Seq(Message)
  /\ \A a \in Message : <<a>> \in Seq(Message)
  /\ \A a, b \in Message : <<a, b>> \in Seq(Message)
  /\ \A a, b, c \in Message : <<a, b, c>> \in Seq(Message)
  /\ \A q, m \in Seq(Message) : q \o m \in Seq(Message)
  /\ \A q \in Seq(Message) : q # <<>> => Tail(q) \in Seq(Message) /\ Head(q) \in Message
  /\ \A k \in Kinds : Says(k) \in Message
  /\ \A k \in Kinds, b \in BOOLEAN : Holds(k, b) \in Message
BY Posts, Joined, TakenOff, Saying

(* What is posted is messages. *)
LEMMA PostTypes ==
  ASSUME toCore \in Seq(Message), NEW m \in Seq(Message), Post(m)
  PROVE  toCore' \in Seq(Message)
BY Sendable DEF Kinds, Post

(* What is answered is messages. *)
LEMMA AnswerTypes ==
  ASSUME toPage \in Seq(Message), NEW m \in Seq(Message), Answer(m)
  PROVE  toPage' \in Seq(Message)
BY Sendable DEF Kinds, Answer

(* A release, where one is posted, is a message before the rest. *)
LEMMA ReleaseTypes ==
  ASSUME NEW h, NEW m \in Seq(Message)
  PROVE  ReleasePosted(h) \o m \in Seq(Message)
BY Sendable DEF Kinds, ReleasePosted

(* A write that joins the chain is its last. *)
LEMMA WriteJoins ==
  ASSUME NEW q \in Seq(LockWrite), NEW w \in LockWrite
  PROVE  /\ Append(q, w) \in Seq(LockWrite) /\ Len(Append(q, w)) = Len(q) + 1
         /\ Len(q) \in Nat /\ Append(q, w)[Len(q) + 1] = w
         /\ \A i \in 1..Len(q) : Append(q, w)[i] = q[i]
OBVIOUS

(* A write given up on stays where it is, in front of the release. *)
LEMMA GivenUpFacts ==
  ASSUME NEW q \in Seq(LockWrite), q # <<>>
  PROVE  /\ GivenUp(q) \in Seq(LockWrite) /\ Len(GivenUp(q)) = Len(q) + 1
         /\ ~GivenUp(q)[1].awaited /\ ~GivenUp(q)[Len(q) + 1].awaited
         /\ \A i \in 2..Len(q) : GivenUp(q)[i] = q[i]
<1> DEFINE w == [q[1] EXCEPT !.awaited = FALSE]
           r == [q EXCEPT ![1] = w]
<1>1. w \in LockWrite /\ ~w.awaited
  <2>1. q[1] \in LockWrite
    OBVIOUS
  <2> QED
    BY <2>1 DEF LockWrite
<1>2. Write(FALSE, FALSE) \in LockWrite /\ ~Write(FALSE, FALSE).awaited
  BY DEF LockWrite, Write
<1>3. GivenUp(q) = Append(r, Write(FALSE, FALSE))
  BY DEF GivenUp
<1> HIDE DEF w
<1>4. r \in Seq(LockWrite) /\ Len(r) = Len(q) /\ r[1] = w /\ \A i \in 2..Len(q) : r[i] = q[i]
  BY <1>1
<1> HIDE DEF r
<1>5. /\ GivenUp(q) \in Seq(LockWrite)
      /\ Len(GivenUp(q)) = Len(q) + 1 /\ GivenUp(q)[Len(q) + 1] = Write(FALSE, FALSE)
      /\ \A i \in 1..Len(q) : GivenUp(q)[i] = r[i]
  <2> DEFINE u == Write(FALSE, FALSE)
  <2>1. u \in LockWrite /\ GivenUp(q) = Append(r, u)
    BY <1>2, <1>3
  <2> HIDE DEF u
  <2>2. /\ Append(r, u) \in Seq(LockWrite) /\ Len(Append(r, u)) = Len(r) + 1
        /\ Append(r, u)[Len(r) + 1] = u /\ \A i \in 1..Len(r) : Append(r, u)[i] = r[i]
    BY <1>4, <2>1, WriteJoins
  <2> QED
    BY <1>4, <2>1, <2>2 DEF u
<1>6. Len(q) \in Nat /\ 1 \in 1..Len(q) /\ \A i \in 2..Len(q) : i \in 1..Len(q)
  OBVIOUS
<1>7. GivenUp(q)[1] = w /\ \A i \in 2..Len(q) : GivenUp(q)[i] = q[i]
  BY <1>4, <1>5, <1>6
<1> QED
  BY <1>1, <1>2, <1>5, <1>7

(* What a write that settles does, with what the track may hold of it. *)
LEMMA SettlesTo ==
  ASSUME track \in Track
  PROVE  /\ \A write : Leaves(write) \subseteq BOOLEAN
         /\ Settles =>
              \E held \in BOOLEAN :
                /\ track' = [track EXCEPT !.held = held, !.kept = held /\ ~Head(chain).want]
                /\ IF Head(chain).awaited THEN ArmGoesOn(Tail(chain), held)
                   ELSE chain' = Tail(chain) /\ UNCHANGED <<page, toCore>>
<1>1. ASSUME NEW write PROVE Leaves(write) \subseteq BOOLEAN
  BY DEF Leaves, Track
<1>2. ASSUME Settles
      PROVE  \E held \in BOOLEAN :
               /\ track' = [track EXCEPT !.held = held, !.kept = held /\ ~Head(chain).want]
               /\ IF Head(chain).awaited THEN ArmGoesOn(Tail(chain), held)
                  ELSE chain' = Tail(chain) /\ UNCHANGED <<page, toCore>>
  <2>1. PICK held \in Leaves(Head(chain)) :
          /\ track' = [track EXCEPT !.held = held, !.kept = held /\ ~Head(chain).want]
          /\ IF Head(chain).awaited THEN ArmGoesOn(Tail(chain), held)
             ELSE chain' = Tail(chain) /\ UNCHANGED <<page, toCore>>
    BY <1>2 DEF Settles
  <2>2. held \in BOOLEAN
    BY <1>1
  <2> QED
    BY <2>1, <2>2
<1> QED
  BY <1>1, <1>2

(* The track opens and ends, and a write changes what it holds alone. *)
LEMMA Tracks ==
  ASSUME track \in Track
  PROVE  /\ \A b \in BOOLEAN : TrackAfter(track, b) \in Track /\ TrackAfter(track, b).live = b
         /\ Settles \/ Sticks => track' \in Track /\ track'.live = track.live
<1>1. \A b \in BOOLEAN : TrackAfter(track, b) \in Track /\ TrackAfter(track, b).live = b
  BY DEF FreshTrack, TrackAfter, Track
<1>2. ASSUME Settles PROVE track' \in Track /\ track'.live = track.live
  <2>1. PICK held \in BOOLEAN :
          track' = [track EXCEPT !.held = held, !.kept = held /\ ~Head(chain).want]
    BY <1>2, SettlesTo
  <2> DEFINE b == held /\ ~Head(chain).want
  <2>2. b \in BOOLEAN
    OBVIOUS
  <2> HIDE DEF b
  <2>3. [track EXCEPT !.held = held, !.kept = b] \in Track
        /\ [track EXCEPT !.held = held, !.kept = b].live = track.live
    BY <2>2 DEF Track
  <2> QED
    BY <2>1, <2>3 DEF b
<1>3. ASSUME Sticks PROVE track' \in Track /\ track'.live = track.live
  <2>1. PICK held \in BOOLEAN : track' = [track EXCEPT !.held = held, !.stuck = TRUE]
    BY <1>3, SettlesTo DEF Sticks
  <2> QED
    BY <2>1 DEF Track
<1> QED
  BY <1>1, <1>2, <1>3

(* The steps of the page keep the types. *)
LEMMA PageTypes ==
  ASSUME Types, OpenCamera \/ CameraTaken \/ Step \/ ArmAt \/ Settles \/ Sticks \/ TimesOut
                  \/ PageHears \/ WorkerDies
  PROVE  Types'
<1> USE DEF Types
<1>1. ASSUME NEW p \in Page PROVE Unreached(p) \in Page /\ Rejected(p) \in Page
  <2>1. ASSUME NEW q \in Page PROVE Unreached(q) \in Page
    <3>1. q.missed + 1 \in Nat /\ (q.missed + 1 >= UnreachedLimit) \in BOOLEAN
      BY CameraPathAssumption DEF Page
    <3> DEFINE n == q.missed + 1
               b == q.missed + 1 >= UnreachedLimit
    <3> HIDE DEF n, b
    <3>2. [q EXCEPT !.asking = FALSE, !.missed = n, !.stopped = b] \in Page
      BY <3>1 DEF Page, n, b
    <3> QED
      BY <3>2 DEF Unreached, n, b
  <2> DEFINE q == [p EXCEPT !.arm = IF @ = "asked" THEN "none" ELSE @,
                            !.at = IF @ = "beginning" THEN "failed" ELSE @]
  <2>2. q \in Page
    BY DEF Page
  <2> HIDE DEF q
  <2>3. Rejected(p) = IF q.asking THEN Unreached(q) ELSE q
    BY DEF Rejected, q
  <2> QED
    BY <2>1, <2>2, <2>3
<1>2. \A w, a \in BOOLEAN : Append(chain, Write(w, a)) \in Seq(LockWrite)
  BY DEF Write, LockWrite
<1>3. chain # <<>> => Tail(chain) \in Seq(LockWrite)
                      /\ \A w, a \in BOOLEAN : Append(Tail(chain), Write(w, a)) \in Seq(LockWrite)
  BY DEF Write, LockWrite
<1>4. \A p \in Page : [p EXCEPT !.arm = "none"] \in Page
  BY DEF Page
<1>5. CASE OpenCamera
  <2>1. page' \in Page
    BY <1>5 DEF OpenCamera, Page
  <2> QED
    BY <1>5, <2>1, Tracks, Sendable, PostTypes DEF Kinds, OpenCamera
<1>6. CASE CameraTaken
  <2>1. page' \in Page
    BY <1>6 DEF CameraTaken, Page
  <2> QED
    BY <1>6, <2>1, Tracks, Sendable, PostTypes DEF Kinds, CameraTaken
<1>7. CASE Step
  <2>1. page' \in Page
    <3>1. [page EXCEPT !.missed = @ + 1, !.stopped = page.missed + 1 >= UnreachedLimit] \in Page
      <4>1. page.missed + 1 \in Nat /\ (page.missed + 1 >= UnreachedLimit) \in BOOLEAN
        BY CameraPathAssumption DEF Page
      <4> DEFINE n == page.missed + 1
                 b == page.missed + 1 >= UnreachedLimit
      <4> HIDE DEF n, b
      <4>2. [page EXCEPT !.missed = n, !.stopped = b] \in Page
        BY <4>1 DEF Page, n, b
      <4> QED
        BY <4>2 DEF n, b
    <3>2. [page EXCEPT !.stopped = TRUE] \in Page /\ [page EXCEPT !.asking = TRUE] \in Page
      BY DEF Page
    <3> QED
      BY <1>7, <3>1, <3>2 DEF Step
  <2> QED
    BY <1>7, <2>1, Sendable, PostTypes DEF Kinds, Step
<1>8. CASE ArmAt
  <2>1. page' \in Page
    BY <1>8 DEF ArmAt, Page
  <2> QED
    BY <1>8, <1>2, <2>1 DEF ArmAt
<1>9. CASE Settles
  <2>1. track' \in Track
    BY <1>9, Tracks
  <2>2. page' \in Page
    <3>1. [page EXCEPT !.arm = "asked"] \in Page
      BY DEF Page
    <3> QED
      BY <1>4, <1>9, <3>1 DEF Settles, ArmGoesOn
  <2>3. chain' \in Seq(LockWrite)
    BY <1>3, <1>9 DEF Settles, ArmGoesOn, Unlock
  <2>4. toCore' \in Seq(Message)
    <3>1. PICK held \in BOOLEAN :
            IF Head(chain).awaited THEN ArmGoesOn(Tail(chain), held) ELSE UNCHANGED toCore
      BY <1>9, SettlesTo
    <3> QED
      BY <3>1, Sendable, PostTypes DEF Kinds, ArmGoesOn, Unlock
  <2> QED
    BY <1>9, <2>1, <2>2, <2>3, <2>4 DEF Settles
<1>13. CASE Sticks
  BY <1>13, Tracks DEF Sticks
<1>10. CASE TimesOut
  <2>1. chain' \in Seq(LockWrite)
    BY <1>10, GivenUpFacts DEF TimesOut
  <2> QED
    BY <1>4, <1>10, <2>1, Sendable, PostTypes DEF Kinds, TimesOut
<1>11. CASE PageHears
  <2>1. toPage' \in Seq(Message)
    BY <1>11, Sendable DEF Kinds, PageHears, Hear, OnCloseCamera, OnReleaseLocks, OnBegun, OnGuided,
       OnUnreached, OnArmed
  <2>2. CASE OnCloseCamera \/ OnReleaseLocks
    <3>1. TrackAfter(track, FALSE) \in Track
      BY Tracks
    <3> QED
      BY <1>2, <2>1, <2>2, <3>1 DEF OnCloseCamera, OnReleaseLocks
  <2>3. CASE OnBegun
    <3>1. page' \in Page
      BY <2>3 DEF OnBegun, Page
    <3> QED
      BY <2>1, <2>3, <3>1 DEF OnBegun
  <2>4. CASE OnGuided
    <3>1. [page EXCEPT !.asking = FALSE, !.missed = 0, !.firing = Head(toPage).kind = "firing",
             !.armed = page.armed /\ Head(toPage).kind = "seek"] \in Page
      BY DEF Page
    <3>2. page' \in Page
      BY <2>4, <3>1 DEF OnGuided
    <3> QED
      BY <2>1, <2>4, <3>2 DEF OnGuided
  <2>5. CASE OnUnreached
    BY <1>1, <2>1, <2>5 DEF OnUnreached
  <2>6. CASE OnArmed
    <3>1. page' \in Page
      BY <2>6 DEF OnArmed, Page
    <3>2. chain' \in Seq(LockWrite)
      BY <1>2, <2>6 DEF OnArmed, Unlock
    <3>3. toCore' \in Seq(Message)
      BY <2>6, Sendable, PostTypes DEF Kinds, OnArmed, Unlock
    <3> QED
      BY <2>1, <2>6, <3>1, <3>2, <3>3 DEF OnArmed
  <2> QED
    BY <1>11, <2>2, <2>3, <2>4, <2>5, <2>6 DEF PageHears
<1>12. CASE WorkerDies
  BY <1>1, <1>2, <1>12, Sendable DEF Kinds, WorkerDies
<1> QED
  BY <1>5, <1>6, <1>7, <1>8, <1>9, <1>10, <1>11, <1>12, <1>13

(* So do those of the worker. *)
LEMMA WorkerTypes ==
  ASSUME Types, WorkerRuns \/ RollsBack \/ NeverReached \/ Retake \/ End
  PROVE  Types'
<1> USE DEF Types
<1>1. NoBurst \in Burst /\ NoCamera \in Host
  BY DEF NoBurst, Burst, NoCamera, Host
<1>2. Released(host) \in Host
  BY DEF Released, Host
<1>3. ASSUME NEW b \in Burst
      PROVE  [core EXCEPT !.burst = b] \in Core /\ [active |-> FALSE, burst |-> b] \in Core
  BY DEF Core
<1>4. ASSUME NEW m \in Seq(Message), Disarm(m) PROVE core' \in Core /\ host' \in Host /\ toPage' \in Seq(Message)
  BY <1>1, <1>2, <1>3, <1>4, ReleaseTypes, AnswerTypes DEF Disarm
<1>5. ASSUME NEW kind \in Kinds, Handles(kind) PROVE toCore' \in Seq(Message) /\ Told \in Message
  BY <1>5, Sendable DEF Kinds, Handles, Told
<1>6. CASE HostHears
  <2>1. toCore' \in Seq(Message) /\ Told \in Message
    BY <1>5, <1>6 DEF HostHears, Kinds
  <2>2. Told.held \in BOOLEAN
    BY <2>1 DEF Message
  <2>3. SetCamera(host) \in Host /\ RefreshCamera(host) \in Host
    BY DEF Host, SetCamera, RefreshCamera
  <2>4. SetCameraLocks(host, Told.held) \in Host
    BY <2>2 DEF Host, SetCameraLocks
  <2>5. host' \in Host
    BY <1>1, <1>6, <2>3, <2>4 DEF HostHears
  <2> QED
    BY <1>6, <2>1, <2>5 DEF HostHears, ThePage
<1>7. CASE Begin
  <2>1. core' \in Core
    BY <1>7 DEF Begin, Core
  <2> QED
    BY <1>1, <1>5, <1>7, <2>1, Sendable, AnswerTypes DEF Kinds, Begin, ThePage
<1>8. CASE ArmBurst
  <2>1. toCore' \in Seq(Message) /\ Told \in Message
    BY <1>5, <1>8 DEF ArmBurst, Kinds
  <2>2. [armed |-> TRUE, locked |-> Told.held, frames |-> 0] \in Burst
    BY <2>1 DEF Burst, Message
  <2>3. toPage' \in Seq(Message)
    <3> DEFINE first == IF Told.held THEN <<>> ELSE ReleasePosted(host)
    <3>1. first \in Seq(Message)
      BY Sendable DEF Kinds, ReleasePosted
    <3>2. Answer(first \o <<Says("armed")>>)
      BY <1>8 DEF ArmBurst
    <3> HIDE DEF first
    <3> QED
      BY <3>1, <3>2, Sendable, AnswerTypes DEF Kinds
  <2> QED
    BY <1>2, <1>3, <1>8, <2>1, <2>2, <2>3 DEF ArmBurst, ThePage
<1>9. CASE ArmRefused \/ Guides \/ Waits \/ NeverReached
  <2>1. toCore' \in Seq(Message)
    BY <1>5, <1>9 DEF ArmRefused, Guides, Waits, NeverReached, Kinds
  <2>2. toPage' \in Seq(Message)
    BY <1>9, Sendable, AnswerTypes DEF Kinds, ArmRefused, Guides, Waits, NeverReached
  <2> QED
    BY <1>9, <2>1, <2>2 DEF ArmRefused, Guides, Waits, NeverReached, ThePage
<1>10. CASE Advances
  <2>1. toCore' \in Seq(Message)
    BY <1>5, <1>10 DEF Advances, Kinds
  <2>2. CASE host.caps = "none" \/ core.burst.frames + 1 = FrameCount
    BY <1>4, <1>10, <2>1, <2>2, Sendable DEF Kinds, Advances, ThePage
  <2>3. CASE ~(host.caps = "none" \/ core.burst.frames + 1 = FrameCount)
    <3>1. core' \in Core
      <4>1. core.burst.frames + 1 \in Nat /\ core.burst \in Burst
        BY DEF Core, Burst
      <4> DEFINE n == core.burst.frames + 1
                 b == [core.burst EXCEPT !.frames = n]
      <4>2. core' = [core EXCEPT !.burst = b]
        BY <1>10, <2>3 DEF Advances, Core
      <4> HIDE DEF n
      <4>3. b \in Burst
        BY <4>1 DEF Burst, n
      <4> HIDE DEF b
      <4> QED
        BY <1>3, <4>2, <4>3
    <3> QED
      BY <1>10, <2>1, <2>3, <3>1, Sendable, AnswerTypes DEF Kinds, Advances, ThePage
  <2> QED
    BY <2>2, <2>3
<1>11. CASE RollsBack
  BY <1>4, <1>5, <1>11, Sendable DEF Kinds, RollsBack, ThePage
<1>12. CASE Retake
  BY <1>4, <1>12, Sendable DEF Kinds, Retake, ThePage
<1>13. CASE End
  <2>1. toPage' \in Seq(Message)
    <3> DEFINE first == IF core.burst.armed THEN ReleasePosted(host) ELSE <<>>
    <3>1. first \in Seq(Message)
      BY Sendable DEF Kinds, ReleasePosted
    <3>2. Answer(first \o <<Says("close")>>)
      BY <1>13 DEF End
    <3> HIDE DEF first
    <3> QED
      BY <3>1, <3>2, Sendable, AnswerTypes DEF Kinds
  <2> QED
    BY <1>1, <1>3, <1>13, <2>1 DEF End, ThePage
<1> QED
  BY <1>6, <1>7, <1>8, <1>9, <1>10, <1>11, <1>12, <1>13 DEF WorkerRuns

(* Every step keeps the types. *)
LEMMA TypesStep == Types /\ [Next]_vars => Types'
BY PageTypes, WorkerTypes DEF Next, WorkerFails, Types, vars

-----------------------------------------------------------------------------
(* What a step does to a queue, in terms of what is among it and behind.    *)
LEMMA PostEffect ==
  ASSUME toCore \in Seq(Message), NEW m \in Seq(Message), ~dead, Post(m)
  PROVE  \A S, T :
           /\ Among(toCore', S) <=> Among(toCore, S) \/ Among(m, S)
           /\ Behind(toCore', S, T) <=>
                Behind(toCore, S, T) \/ Behind(m, S, T) \/ (Among(toCore, S) /\ Among(m, T))
<1>1. toCore' = toCore \o m
  BY DEF Post
<1> QED
  BY <1>1, AmongJoined, BehindJoined

(* What an answer does to what is among the messages to the page, and in which order. *)
LEMMA AnswerEffect ==
  ASSUME toPage \in Seq(Message), NEW m \in Seq(Message), Answer(m)
  PROVE  \A S, T :
           /\ Among(toPage', S) <=> Among(toPage, S) \/ Among(m, S)
           /\ Behind(toPage', S, T) <=>
                Behind(toPage, S, T) \/ Behind(m, S, T) \/ (Among(toPage, S) /\ Among(m, T))
<1>1. toPage' = toPage \o m
  BY DEF Answer
<1> QED
  BY <1>1, AmongJoined, BehindJoined

(* What handling a message takes off the messages to the core. *)
LEMMA HandleEffect ==
  ASSUME toCore \in Seq(Message), NEW kind, Handles(kind)
  PROVE  /\ Told \in Message /\ Told.kind = kind
         /\ \A S, T :
              /\ Among(toCore, S) <=> Told \in S \/ Among(toCore', S)
              /\ Behind(toCore, S, T) <=> Behind(toCore', S, T) \/ (Told \in S /\ Among(toCore', T))
<1>1. toCore # <<>> /\ Told.kind = kind /\ toCore' = Tail(toCore) /\ Told = Head(toCore)
  BY DEF Handles, Told
<1>2. Head(toCore) \in Message
  BY <1>1, Sendable
<1> QED
  BY <1>1, <1>2, AmongTail, BehindTail

(* What hearing a message takes off the messages to the page. *)
LEMMA HearEffect ==
  ASSUME toPage \in Seq(Message), NEW kinds, Hear(kinds)
  PROVE  /\ Head(toPage) \in Message /\ Head(toPage).kind \in kinds
         /\ \A S, T :
              /\ Among(toPage, S) <=> Head(toPage) \in S \/ Among(toPage', S)
              /\ Behind(toPage, S, T) <=>
                   Behind(toPage', S, T) \/ (Head(toPage) \in S /\ Among(toPage', T))
<1>1. toPage # <<>> /\ Head(toPage).kind \in kinds /\ toPage' = Tail(toPage)
  BY DEF Hear
<1>2. Head(toPage) \in Message
  BY <1>1, Sendable
<1> QED
  BY <1>1, <1>2, AmongTail, BehindTail

(* What is behind something is among the rest, and so is that something. *)
LEMMA BehindAmong ==
  ASSUME NEW q \in Seq(Message), NEW S, NEW T, Behind(q, S, T)
  PROVE  Among(q, S) /\ Among(q, T)
BY DEF Behind, Among

(* The sort of a message is its kind. *)
LEMMA Sorts ==
  \A m \in Message :
    /\ m \in Camera <=> m.kind = "camera"
    /\ m \in CallsBegin <=> m.kind = "begin"
    /\ m \in Lost <=> m.kind = "lost"
    /\ m \in Closes <=> m.kind = "close"
    /\ m \in Begun <=> m.kind = "begun"
    /\ m \in Refused <=> m.kind = "refused"
BY Saying DEF Camera, CallsBegin, Lost, Closes, Begun, Refused

(* Neither queue tells of an opening more than it did. *)
CoreTold ==
  /\ \A S \in {Camera, CallsBegin, Lost} : Among(toCore', S) <=> Among(toCore, S)
  /\ \A S, T \in {Camera, CallsBegin, Lost} : Behind(toCore', S, T) <=> Behind(toCore, S, T)
PageTold ==
  /\ \A S \in {Closes, Begun, Refused} : Among(toPage', S) <=> Among(toPage, S)
  /\ \A S, T \in {Closes, Begun, Refused} : Behind(toPage', S, T) <=> Behind(toPage, S, T)

(* A post, an answer or a message handled that is about no opening. *)
LEMMA OtherPost ==
  ASSUME Types, ~dead, NEW m \in Seq(Message), Post(m),
         \A S \in {Camera, CallsBegin, Lost} : ~Among(m, S)
  PROVE  CoreTold
<1>1. \A S, T : Behind(m, S, T) => Among(m, S)
  BY BehindAmong
<1> QED
  BY <1>1, PostEffect DEF Types, CoreTold

(* An answer that is about no opening. *)
LEMMA OtherAnswer ==
  ASSUME Types, NEW m \in Seq(Message), Answer(m),
         \A S \in {Closes, Begun, Refused} : ~Among(m, S)
  PROVE  PageTold
<1>1. \A S, T : Behind(m, S, T) => Among(m, S)
  BY BehindAmong
<1> QED
  BY <1>1, AnswerEffect DEF Types, PageTold

(* A message handled that is about no opening. *)
LEMMA OtherHandled ==
  ASSUME Types, NEW kind, Handles(kind), kind \notin {"camera", "begin", "lost"}
  PROVE  CoreTold
BY HandleEffect, Sorts DEF Types, CoreTold

(* A message heard that is about no opening. *)
LEMMA OtherHeard ==
  ASSUME Types, NEW kinds, Hear(kinds), kinds \cap {"close", "begun", "refused"} = {}
  PROVE  PageTold
<1>1. Head(toPage) \in Message /\ Head(toPage).kind \notin {"close", "begun", "refused"}
  BY HearEffect DEF Types
<1> QED
  BY <1>1, HearEffect, Sorts DEF Types, PageTold

(* What the page does to its own: no opening, no closing. *)
LEMMA CameraQuiet ==
  ASSUME Types, Openings, Announced, CoreTold, PageTold,
         track'.live = track.live, page'.at = page.at,
         host' = host \/ (host.caps # "none" /\ host'.caps # "none") \/ (host.caps = "none" /\ host'.caps = "none"),
         core'.active = core.active
  PROVE  Openings' /\ Announced'
BY DEF Openings, Announced, CoreTold, PageTold

(* Every step of the page keeps openings in order and a camera that is gone *)
(* announced.                                                               *)
LEMMA CameraPage ==
  ASSUME Types, Openings, Announced, ~dead, Types',
         OpenCamera \/ CameraTaken \/ Step \/ ArmAt \/ Settles \/ Sticks \/ TimesOut \/ PageHears
  PROVE  Openings' /\ Announced'
<1>1. track \in Track /\ page \in Page /\ host \in Host /\ core \in Core
      /\ toCore \in Seq(Message) /\ toPage \in Seq(Message)
  BY DEF Types
<1>2. /\ toCore' = toCore => CoreTold
      /\ toPage' = toPage => PageTold
  BY DEF CoreTold, PageTold
<1>3. CASE OpenCamera
  <2> DEFINE m == <<Says("camera"), Says("begin")>>
  <2>1. /\ m \in Seq(Message)
        /\ \A S, T : /\ Among(m, S) <=> Says("camera") \in S \/ Says("begin") \in S
                     /\ Behind(m, S, T) <=> Says("camera") \in S /\ Says("begin") \in T
    BY Saying, Posts DEF Kinds
  <2>2. /\ Says("camera") \in Message /\ Says("camera").kind = "camera"
        /\ Says("begin") \in Message /\ Says("begin").kind = "begin"
    BY Saying DEF Kinds
  <2>3. Post(m) /\ page.at = "closed" /\ UNCHANGED <<toPage, host, core>>
    BY <1>3 DEF OpenCamera
  <2>4. track'.live /\ page'.at = "beginning"
    BY <1>1, <1>3, Tracks DEF OpenCamera, Page
  <2> HIDE DEF m
  <2>5. \A S, T :
           /\ Among(toCore', S) <=> Among(toCore, S) \/ Among(m, S)
           /\ Behind(toCore', S, T) <=>
                Behind(toCore, S, T) \/ Behind(m, S, T) \/ (Among(toCore, S) /\ Among(m, T))
    BY <1>1, <2>1, <2>3, PostEffect
  <2> QED
    BY Sorts, <2>1, <2>2, <2>3, <2>4, <2>5 DEF Openings, Announced
<1>4. CASE CameraTaken
  <2> DEFINE m == <<Says("lost")>>
  <2>1. /\ m \in Seq(Message)
        /\ \A S, T : (Among(m, S) <=> Says("lost") \in S) /\ ~Behind(m, S, T)
    BY Saying, Posts DEF Kinds
  <2>2. Says("lost") \in Message /\ Says("lost").kind = "lost"
    BY Saying DEF Kinds
  <2>3. Post(m) /\ UNCHANGED <<toPage, host, core>>
    BY <1>4 DEF CameraTaken
  <2>4. page'.at = page.at
    BY <1>1, <1>4 DEF CameraTaken, Page
  <2> HIDE DEF m
  <2>5. \A S, T :
           /\ Among(toCore', S) <=> Among(toCore, S) \/ Among(m, S)
           /\ Behind(toCore', S, T) <=>
                Behind(toCore, S, T) \/ Behind(m, S, T) \/ (Among(toCore, S) /\ Among(m, T))
    BY <1>1, <2>1, <2>3, PostEffect
  <2> QED
    BY Sorts, <2>1, <2>2, <2>3, <2>4, <2>5 DEF Openings, Announced
<1>5. ASSUME NEW m \in Seq(Message), Post(m),
             \A S \in {Camera, CallsBegin, Lost} : ~Among(m, S)
      PROVE  CoreTold
  BY <1>5, OtherPost
<1>6. ASSUME NEW k \in {"tick", "locks", "refresh", "arm"}, NEW b \in BOOLEAN
      PROVE  /\ Holds(k, b) \in Message /\ Says(k) \in Message
             /\ \A S \in {Camera, CallsBegin, Lost} : Holds(k, b) \notin S /\ Says(k) \notin S
  BY Saying, Sorts DEF Kinds
<1>13. ASSUME NEW m \in Message, \A S \in {Camera, CallsBegin, Lost} : m \notin S, Post(<<m>>)
      PROVE  CoreTold
  <2> DEFINE q == <<m>>
  <2>1. q \in Seq(Message) /\ \A S : Among(q, S) <=> m \in S
    BY Posts
  <2>2. Post(q)
    BY <1>13
  <2> HIDE DEF q
  <2> QED
    BY <1>13, <1>5, <2>1, <2>2
<1>7. ASSUME NEW queue, Unlock(queue)
      PROVE  CoreTold
  <2>1. Post(<<Holds("locks", FALSE)>>)
    BY <1>7 DEF Unlock
  <2> QED
    BY <1>6, <1>13, <2>1
<1>8. CASE Step
  <2>1. page'.at = page.at
    BY <1>1, <1>8 DEF Step, Page
  <2>2. CoreTold
    <3>1. toCore' = toCore \/ Post(<<Says("tick")>>)
      BY <1>8 DEF Step
    <3> QED
      BY <1>2, <1>6, <1>13, <3>1
  <2> QED
    BY <1>2, <1>8, <2>1, <2>2, CameraQuiet DEF Step
<1>9. CASE ArmAt
  <2>1. page'.at = page.at
    BY <1>1, <1>9 DEF ArmAt, Page
  <2> QED
    BY <1>2, <1>9, <2>1, CameraQuiet DEF ArmAt
<1>10. CASE Settles
  <2>1. track'.live = track.live
    BY <1>1, <1>10, Tracks
  <2>2. page'.at = page.at
    BY <1>1, <1>10 DEF Settles, ArmGoesOn, Page
  <2>3. CoreTold
    <3>1. CASE toCore' = toCore
      BY <1>2, <3>1
    <3>2. CASE \E queue : Unlock(queue)
      BY <1>7, <3>2
    <3>3. ASSUME NEW held \in BOOLEAN, Post(<<Holds("locks", held), Says("refresh"), Holds("arm", held)>>)
          PROVE  CoreTold
      <4> DEFINE a == Holds("locks", held)
                 b == Says("refresh")
                 c == Holds("arm", held)
                 q == <<a, b, c>>
      <4>1. /\ a \in Message /\ b \in Message /\ c \in Message
            /\ \A S \in {Camera, CallsBegin, Lost} : a \notin S /\ b \notin S /\ c \notin S
        BY <1>6
      <4>2. Post(q)
        BY <3>3
      <4> HIDE DEF a, b, c
      <4>3. q \in Seq(Message) /\ \A S : Among(q, S) <=> a \in S \/ b \in S \/ c \in S
        BY <4>1, Posts
      <4> HIDE DEF q
      <4> QED
        BY <1>5, <4>1, <4>2, <4>3
    <3> QED
      <4>1. PICK held \in BOOLEAN :
              IF Head(chain).awaited THEN ArmGoesOn(Tail(chain), held) ELSE UNCHANGED toCore
        BY <1>1, <1>10, SettlesTo
      <4> QED
        BY <3>1, <3>2, <3>3, <4>1 DEF ArmGoesOn
  <2> QED
    BY <1>2, <1>10, <2>1, <2>2, <2>3, CameraQuiet DEF Settles
<1>14. CASE Sticks
  <2>1. track'.live = track.live
    BY <1>1, <1>14, Tracks
  <2> QED
    BY <1>2, <1>14, <2>1, CameraQuiet DEF Sticks
<1>11. CASE TimesOut
  <2>1. page'.at = page.at
    BY <1>1, <1>11 DEF TimesOut, Page
  <2>2. CoreTold
    <3>1. Post(<<Holds("locks", FALSE)>>)
      BY <1>11 DEF TimesOut
    <3> QED
      BY <1>6, <1>13, <3>1
  <2> QED
    BY <1>2, <1>11, <2>1, <2>2, CameraQuiet DEF TimesOut
<1>12. ASSUME PageHears PROVE Openings' /\ Announced'
  <2>1. CASE OnCloseCamera
    <3>1. Hear({"close"}) /\ ~track'.live /\ UNCHANGED <<chain, page, toCore, host, core>>
      BY <1>1, <2>1, Tracks DEF OnCloseCamera
    <3>2. /\ Head(toPage) \in Message /\ Head(toPage).kind = "close"
          /\ \A S, T :
               /\ Among(toPage, S) <=> Head(toPage) \in S \/ Among(toPage', S)
               /\ Behind(toPage, S, T) <=>
                    Behind(toPage', S, T) \/ (Head(toPage) \in S /\ Among(toPage', T))
      BY <1>1, <3>1, HearEffect
    <3> QED
      BY <3>1, <3>2, Sorts DEF Openings, Announced
  <2>2. CASE OnReleaseLocks
    BY <1>2, <2>2, OtherHeard, CameraQuiet DEF OnReleaseLocks
  <2>3. CASE OnBegun
    <3>1. Hear({"begun", "refused"}) /\ UNCHANGED <<track, toCore, host, core>>
      BY <2>3 DEF OnBegun
    <3>2. /\ Head(toPage) \in Message /\ Head(toPage).kind \in {"begun", "refused"}
          /\ \A S, T :
               /\ Among(toPage, S) <=> Head(toPage) \in S \/ Among(toPage', S)
               /\ Behind(toPage, S, T) <=>
                    Behind(toPage', S, T) \/ (Head(toPage) \in S /\ Among(toPage', T))
      BY <1>1, <3>1, HearEffect
    <3>3. Head(toPage) \in Begun \/ Head(toPage) \in Refused
      BY <3>2, Sorts
    <3>4. page.at = "beginning"
      BY <3>2, <3>3 DEF Openings
    <3>5. page'.at = IF Head(toPage).kind = "begun" THEN "pumping" ELSE "closed"
      BY <1>1, <2>3, <3>4 DEF OnBegun, Page
    <3> QED
      BY <3>1, <3>2, <3>3, <3>4, <3>5, Sorts DEF Openings, Announced
  <2>4. CASE OnGuided
    <3>1. page'.at = page.at
      BY <1>1, <2>4 DEF OnGuided, Page
    <3>2. PageTold
      BY <2>4, OtherHeard DEF OnGuided
    <3> QED
      BY <1>2, <2>4, <3>1, <3>2, CameraQuiet DEF OnGuided
  <2>5. CASE OnUnreached
    <3>1. page'.at = page.at
      BY <1>1, <2>5 DEF OnUnreached, Unreached, Page
    <3>2. PageTold
      BY <2>5, OtherHeard DEF OnUnreached
    <3> QED
      BY <1>2, <2>5, <3>1, <3>2, CameraQuiet DEF OnUnreached
  <2>6. CASE OnArmed
    <3>1. page'.at = page.at
      BY <1>1, <2>6 DEF OnArmed, Page
    <3>2. PageTold
      BY <2>6, OtherHeard DEF OnArmed
    <3>3. CoreTold
      BY <1>2, <1>7, <2>6 DEF OnArmed
    <3> QED
      BY <2>6, <3>1, <3>2, <3>3, CameraQuiet DEF OnArmed
  <2> QED
    BY <1>12, <2>1, <2>2, <2>3, <2>4, <2>5, <2>6 DEF PageHears
<1> QED
  BY <1>3, <1>4, <1>8, <1>9, <1>10, <1>11, <1>12, <1>14

(* So does every step of the worker that lives. *)
LEMMA CameraWorker ==
  ASSUME Types, Openings, Announced, ~dead, Types',
         WorkerRuns \/ RollsBack \/ NeverReached \/ Retake \/ End
  PROVE  Openings' /\ Announced'
<1>1. track \in Track /\ page \in Page /\ host \in Host /\ core \in Core
      /\ toCore \in Seq(Message) /\ toPage \in Seq(Message)
  BY DEF Types
<1>2. /\ toCore' = toCore => CoreTold
      /\ toPage' = toPage => PageTold
  BY DEF CoreTold, PageTold
<1>3. ASSUME NEW k \in {"release", "firing", "seek", "other", "failed", "unreached", "armed", "notarmed"}
      PROVE  /\ Says(k) \in Message /\ \A S \in {Closes, Begun, Refused} : Says(k) \notin S
             /\ <<Says(k)>> \in Seq(Message) /\ \A S : Among(<<Says(k)>>, S) <=> Says(k) \in S
  <2> DEFINE a == Says(k)
  <2>1. a \in Message /\ a.kind = k
    BY Saying DEF Kinds
  <2> HIDE DEF a
  <2>2. \A S \in {Closes, Begun, Refused} : a \notin S
    BY <2>1, Sorts
  <2>3. <<a>> \in Seq(Message) /\ \A S : Among(<<a>>, S) <=> a \in S
    BY <2>1, Posts
  <2> QED
    BY <2>1, <2>2, <2>3 DEF a
<1>4. ASSUME NEW h, NEW m \in Seq(Message)
      PROVE  /\ ReleasePosted(h) \in Seq(Message) /\ ReleasePosted(h) \o m \in Seq(Message)
             /\ \A S \in {Closes, Begun, Refused} :
                  ~Among(ReleasePosted(h), S) /\ (Among(ReleasePosted(h) \o m, S) <=> Among(m, S))
  <2> DEFINE r == ReleasePosted(h)
  <2>1. r \in Seq(Message) /\ \A S \in {Closes, Begun, Refused} : ~Among(r, S)
    <3>1. CASE r = <<>>
      <4>1. <<>> \in Seq(Message) /\ \A S : ~Among(<<>>, S)
        BY Posts
      <4> QED
        BY <3>1, <4>1
    <3>2. CASE r = <<Says("release")>>
      BY <1>3, <3>2
    <3> QED
      BY <3>1, <3>2 DEF ReleasePosted
  <2> HIDE DEF r
  <2>2. r \o m \in Seq(Message) /\ \A S : Among(r \o m, S) <=> Among(r, S) \/ Among(m, S)
    BY <2>1, Sendable, AmongJoined
  <2> QED
    BY <2>1, <2>2 DEF r
<1>5. ASSUME NEW k \in {"firing", "seek", "other", "failed", "unreached", "armed", "notarmed"},
             NEW h, Answer(<<Says(k)>>) \/ Answer(ReleasePosted(h) \o <<Says(k)>>)
      PROVE  PageTold
  <2> DEFINE m == <<Says(k)>>
             q == ReleasePosted(h) \o m
  <2>1. m \in Seq(Message) /\ \A S \in {Closes, Begun, Refused} : ~Among(m, S)
    BY <1>3
  <2>2. Answer(m) \/ Answer(q)
    BY <1>5
  <2> HIDE DEF m
  <2>3. q \in Seq(Message) /\ \A S \in {Closes, Begun, Refused} : ~Among(q, S)
    BY <1>4, <2>1
  <2> HIDE DEF q
  <2> QED
    BY <2>1, <2>2, <2>3, OtherAnswer
<1>6. Released(host).caps = host.caps
  BY <1>1 DEF Released, Host
<1>7. ASSUME NEW b \in Burst PROVE [core EXCEPT !.burst = b].active = core.active
  BY <1>1 DEF Core
<1>8. NoBurst \in Burst /\ NoCamera.caps = "none"
  BY DEF NoBurst, Burst, NoCamera
<1>9. ASSUME NEW k \in {"other", "failed"}, Disarm(<<Says(k)>>)
      PROVE  PageTold /\ host'.caps = host.caps /\ core'.active = core.active
  BY <1>5, <1>6, <1>7, <1>8, <1>9 DEF Disarm
<1>10. CASE HostHears
  <2>1. UNCHANGED <<track, page, toPage, core>>
    BY <1>10 DEF HostHears, ThePage
  <2>2. CASE Handles("camera") /\ host' = SetCamera(host)
    <3>1. /\ Told \in Message /\ Told.kind = "camera"
          /\ \A S, T :
               /\ Among(toCore, S) <=> Told \in S \/ Among(toCore', S)
               /\ Behind(toCore, S, T) <=> Behind(toCore', S, T) \/ (Told \in S /\ Among(toCore', T))
      BY <1>1, <2>2, HandleEffect
    <3>2. \A S, T : Behind(toCore', S, T) => Among(toCore', S) /\ Among(toCore', T)
      BY BehindAmong DEF Types
    <3> QED
      BY <2>1, <3>1, <3>2, Sorts DEF Openings, Announced
  <2>3. CASE Handles("lost") /\ host' = NoCamera
    <3>1. /\ Told \in Message /\ Told.kind = "lost"
          /\ \A S, T :
               /\ Among(toCore, S) <=> Told \in S \/ Among(toCore', S)
               /\ Behind(toCore, S, T) <=> Behind(toCore', S, T) \/ (Told \in S /\ Among(toCore', T))
      BY <1>1, <2>3, HandleEffect
    <3> QED
      BY <1>8, <2>1, <2>3, <3>1, Sorts DEF Openings, Announced
  <2>4. CASE Handles("refresh") /\ host' = RefreshCamera(host)
    <3>1. host' = host \/ (host.caps # "none" /\ host'.caps # "none")
      BY <1>1, <2>4 DEF RefreshCamera, Host
    <3>2. CoreTold
      BY <2>4, OtherHandled
    <3> QED
      BY <1>2, <2>1, <3>1, <3>2, CameraQuiet
  <2>5. CASE Handles("locks") /\ host' = SetCameraLocks(host, Told.held)
    <3>1. host'.caps = host.caps
      BY <1>1, <2>5 DEF SetCameraLocks, Host
    <3>2. CoreTold
      BY <2>5, OtherHandled
    <3> QED
      BY <1>2, <2>1, <3>1, <3>2, CameraQuiet
  <2> QED
    BY <1>10, <2>2, <2>3, <2>4, <2>5 DEF HostHears
<1>11. CASE Begin
  <2>1. Handles("begin") /\ UNCHANGED <<track, page>>
    BY <1>11 DEF Begin, ThePage
  <2>2. /\ Told \in Message /\ Told.kind = "begin"
        /\ \A S, T :
             /\ Among(toCore, S) <=> Told \in S \/ Among(toCore', S)
             /\ Behind(toCore, S, T) <=> Behind(toCore', S, T) \/ (Told \in S /\ Among(toCore', T))
    BY <1>1, <2>1, HandleEffect
  <2>3. \A S, T : Behind(toCore', S, T) => Among(toCore', S) /\ Among(toCore', T)
    BY BehindAmong DEF Types
  <2>a. \A S, T : Behind(toPage, S, T) => Among(toPage, S) /\ Among(toPage, T)
    BY BehindAmong DEF Types
  <2>4. page.at = "beginning" /\ ~core.active
        /\ ~Among(toPage, Closes) /\ ~Among(toPage, Begun) /\ ~Among(toPage, Refused)
        /\ ~Among(toCore', CallsBegin) /\ ~Among(toCore', Camera)
    BY <2>2, Sorts DEF Openings
  <2>b. /\ Says("begun") \in Message /\ Says("begun").kind = "begun"
        /\ Says("refused") \in Message /\ Says("refused").kind = "refused"
        /\ Says("close") \in Message /\ Says("close").kind = "close"
    BY Saying DEF Kinds
  <2>5. CASE host.caps # "none" /\ Answer(<<Says("begun")>>) /\ host' = host
    <3> DEFINE m == <<Says("begun")>>
    <3>1. /\ m \in Seq(Message)
          /\ \A S, T : (Among(m, S) <=> Says("begun") \in S) /\ ~Behind(m, S, T)
      BY <2>b, Posts
    <3>2. Answer(m)
      BY <2>5
    <3> HIDE DEF m
    <3>3. \A S, T :
           /\ Among(toPage', S) <=> Among(toPage, S) \/ Among(m, S)
           /\ Behind(toPage', S, T) <=>
                Behind(toPage, S, T) \/ Behind(m, S, T) \/ (Among(toPage, S) /\ Among(m, T))
      BY <1>1, <3>1, <3>2, AnswerEffect
    <3> QED
      BY <2>1, <2>2, <2>3, <2>a, <2>4, <2>b, <2>5, <3>1, <3>3, Sorts DEF Openings, Announced
  <2>6. CASE Answer(<<Says("refused")>>) /\ UNCHANGED <<core, host>>
    <3> DEFINE m == <<Says("refused")>>
    <3>1. /\ m \in Seq(Message)
          /\ \A S, T : (Among(m, S) <=> Says("refused") \in S) /\ ~Behind(m, S, T)
      BY <2>b, Posts
    <3>2. Answer(m)
      BY <2>6
    <3> HIDE DEF m
    <3>3. \A S, T :
           /\ Among(toPage', S) <=> Among(toPage, S) \/ Among(m, S)
           /\ Behind(toPage', S, T) <=>
                Behind(toPage, S, T) \/ Behind(m, S, T) \/ (Among(toPage, S) /\ Among(m, T))
      BY <1>1, <3>1, <3>2, AnswerEffect
    <3> QED
      BY <2>1, <2>2, <2>3, <2>a, <2>4, <2>b, <2>6, <3>1, <3>3, Sorts DEF Openings, Announced
  <2>7. CASE host' = NoCamera /\ Answer(<<Says("close"), Says("refused")>>) /\ core' = core
    <3> DEFINE m == <<Says("close"), Says("refused")>>
    <3>1. /\ m \in Seq(Message)
          /\ \A S, T : /\ Among(m, S) <=> Says("close") \in S \/ Says("refused") \in S
                       /\ Behind(m, S, T) <=> Says("close") \in S /\ Says("refused") \in T
      BY <2>b, Posts
    <3>2. Answer(m)
      BY <2>7
    <3> HIDE DEF m
    <3>3. \A S, T :
           /\ Among(toPage', S) <=> Among(toPage, S) \/ Among(m, S)
           /\ Behind(toPage', S, T) <=>
                Behind(toPage, S, T) \/ Behind(m, S, T) \/ (Among(toPage, S) /\ Among(m, T))
      BY <1>1, <3>1, <3>2, AnswerEffect
    <3> QED
      BY <1>8, <2>1, <2>2, <2>3, <2>a, <2>4, <2>b, <2>7, <3>1, <3>3, Sorts DEF Openings, Announced
  <2> QED
    BY <1>11, <2>5, <2>6, <2>7 DEF Begin
<1>12. CASE ArmBurst
  <2>1. /\ Handles("arm") /\ UNCHANGED <<track, page>>
        /\ Answer((IF Told.held THEN <<>> ELSE ReleasePosted(host)) \o <<Says("armed")>>)
    BY <1>12 DEF ArmBurst, ThePage
  <2>2. Told \in Message
    BY <1>1, <2>1, HandleEffect
  <2>3. core'.active = core.active
    <3>1. [armed |-> TRUE, locked |-> Told.held, frames |-> 0] \in Burst
      BY <2>2 DEF Burst, Message
    <3> QED
      BY <1>7, <1>12, <3>1 DEF ArmBurst
  <2>4. host'.caps = host.caps
    BY <1>6, <1>12 DEF ArmBurst
  <2>5. PageTold
    <3>1. Answer(<<Says("armed")>>) \/ Answer(ReleasePosted(host) \o <<Says("armed")>>)
      <4>1. <<>> \o <<Says("armed")>> = <<Says("armed")>>
        BY <1>3
      <4> QED
        BY <2>1, <4>1
    <3> QED
      BY <1>5, <3>1
  <2>6. CoreTold
    BY <2>1, OtherHandled
  <2> QED
    BY <2>1, <2>3, <2>4, <2>5, <2>6, CameraQuiet
<1>13. CASE ArmRefused \/ Guides \/ Waits \/ NeverReached
  <2>1. UNCHANGED <<track, page, host, core>> /\ \E k \in {"arm", "tick"} : Handles(k)
    BY <1>13 DEF ArmRefused, Guides, Waits, NeverReached, ThePage
  <2>2. PageTold
    BY <1>5, <1>13 DEF ArmRefused, Guides, Waits, NeverReached
  <2>3. CoreTold
    BY <2>1, OtherHandled
  <2> QED
    BY <2>1, <2>2, <2>3, CameraQuiet
<1>14. CASE Advances
  <2>1. Handles("tick") /\ UNCHANGED <<track, page>>
    BY <1>14 DEF Advances, ThePage
  <2>2. CoreTold
    BY <2>1, OtherHandled
  <2>3. CASE Disarm(<<Says("failed")>>) \/ Disarm(<<Says("other")>>)
    BY <1>9, <2>1, <2>2, <2>3, CameraQuiet
  <2>4. CASE Answer(<<Says("firing")>>) /\ host' = host /\ core' = [core EXCEPT !.burst.frames = @ + 1]
    <3>1. core'.active = core.active
      BY <1>1, <2>4 DEF Core
    <3>2. PageTold
      BY <1>5, <2>4
    <3> QED
      BY <2>1, <2>2, <2>4, <3>1, <3>2, CameraQuiet
  <2> QED
    BY <1>14, <2>3, <2>4 DEF Advances
<1>15. CASE RollsBack
  <2>1. Handles("tick") /\ UNCHANGED <<track, page>> /\ \E k \in {"other", "failed"} : Disarm(<<Says(k)>>)
    BY <1>15 DEF RollsBack, ThePage
  <2>2. CoreTold
    BY <2>1, OtherHandled
  <2> QED
    BY <1>9, <2>1, <2>2, CameraQuiet
<1>16. CASE Retake
  <2>1. Answer(ReleasePosted(host) \o <<>>) /\ UNCHANGED <<track, page, toCore>>
        /\ host' = Released(host) /\ core' = [core EXCEPT !.burst = NoBurst]
    BY <1>16 DEF Retake, ThePage, Disarm
  <2>2. PageTold
    <3> DEFINE q == ReleasePosted(host) \o <<>>
    <3>1. q \in Seq(Message) /\ \A S \in {Closes, Begun, Refused} : ~Among(q, S)
      <4>1. <<>> \in Seq(Message) /\ \A S : ~Among(<<>>, S)
        BY Posts
      <4> DEFINE e == <<>>
      <4>2. e \in Seq(Message) /\ \A S : ~Among(e, S)
        BY <4>1
      <4> HIDE DEF e
      <4>3. /\ ReleasePosted(host) \o e \in Seq(Message)
            /\ \A S \in {Closes, Begun, Refused} : Among(ReleasePosted(host) \o e, S) <=> Among(e, S)
        BY <1>4, <4>2
      <4> QED
        BY <4>2, <4>3 DEF e
    <3>2. Answer(q)
      BY <2>1
    <3> HIDE DEF q
    <3> QED
      BY <3>1, <3>2, OtherAnswer
  <2> QED
    BY <1>2, <1>6, <1>7, <1>8, <2>1, <2>2, CameraQuiet
<1>17. CASE End
  <2>1. /\ core.active /\ ~core'.active /\ host' = NoCamera /\ UNCHANGED <<track, page, toCore>>
        /\ Answer((IF core.burst.armed THEN ReleasePosted(host) ELSE <<>>) \o <<Says("close")>>)
    BY <1>17 DEF End, ThePage
  <2>2. Says("close") \in Message /\ Says("close").kind = "close"
    BY Saying DEF Kinds
  <2> DEFINE c == <<Says("close")>>
             r == IF core.burst.armed THEN ReleasePosted(host) ELSE <<>>
             m == r \o c
  <2>3. c \in Seq(Message) /\ \A S, T : (Among(c, S) <=> Says("close") \in S) /\ ~Behind(c, S, T)
    BY <2>2, Posts
  <2>4. r \in Seq(Message) /\ \A S \in {Closes, Begun, Refused} : ~Among(r, S)
    <3>1. <<>> \in Seq(Message) /\ \A S : ~Among(<<>>, S)
      BY Posts
    <3>2. CASE r = <<>>
      BY <3>1, <3>2
    <3>3. CASE r = ReleasePosted(host)
      <4>1. /\ ReleasePosted(host) \in Seq(Message)
            /\ \A S \in {Closes, Begun, Refused} : ~Among(ReleasePosted(host), S)
        <5>1. PICK q \in Seq(Message) : TRUE
          BY <3>1
        <5> QED
          BY <1>4, <5>1
      <4> QED
        BY <3>3, <4>1
    <3> QED
      BY <3>2, <3>3
  <2>5. Answer(m)
    BY <2>1
  <2> HIDE DEF c, r
  <2>6. /\ m \in Seq(Message)
        /\ \A S : Among(m, S) <=> Among(r, S) \/ Among(c, S)
        /\ \A S, T : Behind(m, S, T) <=>
             Behind(r, S, T) \/ Behind(c, S, T) \/ (Among(r, S) /\ Among(c, T))
    BY <2>3, <2>4, Sendable, AmongJoined, BehindJoined
  <2>7. \A S, T : Behind(r, S, T) => Among(r, S)
    BY <2>4, BehindAmong
  <2>8. /\ Among(m, Closes) /\ ~Among(m, Begun) /\ ~Among(m, Refused)
        /\ \A S, T \in {Closes, Begun, Refused} : ~Behind(m, S, T)
    BY <2>2, <2>3, <2>4, <2>6, <2>7, Sorts
  <2> HIDE DEF m
  <2>9. \A S, T :
         /\ Among(toPage', S) <=> Among(toPage, S) \/ Among(m, S)
         /\ Behind(toPage', S, T) <=>
              Behind(toPage, S, T) \/ Behind(m, S, T) \/ (Among(toPage, S) /\ Among(m, T))
    BY <1>1, <2>5, <2>6, AnswerEffect
  <2> QED
    BY <1>8, <2>1, <2>8, <2>9 DEF Openings, Announced
<1> QED
  BY <1>10, <1>11, <1>12, <1>13, <1>14, <1>15, <1>16, <1>17 DEF WorkerRuns

(* Only its death kills a worker. *)
LEMMA DeadStays ==
  ASSUME Next
  PROVE  IF WorkerDies THEN dead' = TRUE ELSE UNCHANGED dead
<1>1. OpenCamera \/ CameraTaken \/ Step \/ ArmAt \/ Settles \/ Sticks \/ TimesOut => UNCHANGED dead
  BY DEF OpenCamera, CameraTaken, Step, ArmAt, Settles, Sticks, TimesOut
<1>2. PageHears => UNCHANGED dead
  BY DEF PageHears, OnCloseCamera, OnReleaseLocks, OnBegun, OnGuided, OnUnreached, OnArmed
<1>3. WorkerRuns => UNCHANGED dead
  <2>1. HostHears \/ Begin \/ ArmBurst \/ ArmRefused => UNCHANGED dead
    BY DEF HostHears, Begin, ArmBurst, ArmRefused, ThePage
  <2>2. Guides \/ Waits \/ Advances => UNCHANGED dead
    BY DEF Guides, Waits, Advances, ThePage
  <2> QED
    BY <2>1, <2>2 DEF WorkerRuns
<1>4. RollsBack \/ NeverReached \/ Retake \/ End => UNCHANGED dead
  BY DEF RollsBack, NeverReached, Retake, End, ThePage
<1>5. WorkerDies => dead' = TRUE
  BY DEF WorkerDies
<1> QED
  BY <1>1, <1>2, <1>3, <1>4, <1>5 DEF Next, WorkerFails

(* The invariant of the camera's openings starts true and every step keeps  *)
(* it.                                                                      *)
LEMMA CameraInit == Init => CameraIInv
<1> SUFFICES ASSUME Init PROVE CameraIInv
  OBVIOUS
<1>1. Types
  <2>1. toCore \in Seq(Message) /\ toPage \in Seq(Message) /\ chain \in Seq(LockWrite)
    BY DEF Init
  <2>2. track \in Track /\ page \in Page /\ dead \in BOOLEAN
    BY DEF Init, FreshTrack, Track, Page
  <2>3. NoBurst \in Burst /\ host \in Host
    BY DEF Init, Host, Burst, NoBurst, NoCamera
  <2>4. core \in Core
    BY <2>3 DEF Init, Core
  <2> QED
    BY <2>1, <2>2, <2>3, <2>4 DEF Types
<1>2. \A S, T : ~Among(toCore, S) /\ ~Behind(toCore, S, T) /\ ~Among(toPage, S) /\ ~Behind(toPage, S, T)
  BY DEF Init, Among, Behind
<1>3. host.caps = "none" /\ page.at = "closed" /\ ~core.active
  BY DEF Init, NoCamera
<1> QED
  BY <1>1, <1>2, <1>3 DEF CameraIInv, Openings, Announced

(* Every step keeps what is told of the openings. *)
LEMMA CameraStep == CameraIInv /\ [Next]_vars => CameraIInv'
<1> SUFFICES ASSUME CameraIInv, [Next]_vars PROVE CameraIInv'
  OBVIOUS
<1>1. Types /\ Types'
  BY TypesStep DEF CameraIInv
<1>2. CASE UNCHANGED vars
  BY <1>2 DEF CameraIInv, Types, Openings, Announced, Among, Behind, vars
<1>3. CASE Next /\ ~dead'
  <2>1. ~dead /\ ~WorkerDies
    BY <1>1, <1>3, DeadStays DEF Types
  <2> QED
    BY <1>1, <1>3, <2>1, CameraPage, CameraWorker DEF CameraIInv, Next, WorkerFails
<1>4. CASE Next /\ dead'
  BY <1>1, <1>4 DEF CameraIInv
<1> QED
  BY <1>2, <1>3, <1>4

(* The worker has a camera only while the page does, or while the news that *)
(* it is gone is on the way: no push of an arm hands the core back a camera *)
(* the page has closed (capture-host.ts, refreshCamera).                    *)
THEOREM NoCameraBack == Spec => []NoCameraComesBack
<1>1. CameraIInv => NoCameraComesBack
  <2> SUFFICES ASSUME CameraIInv, host.caps # "none", ~dead, ~track.live
               PROVE  \E i \in 1..Len(toCore) : toCore[i].kind = "lost"
    BY DEF NoCameraComesBack
  <2>1. PICK i \in 1..Len(toCore) : toCore[i] \in Lost
    BY DEF CameraIInv, Announced, Among
  <2> QED
    BY <2>1 DEF Lost, Kind
<1> QED
  BY <1>1, CameraInit, CameraStep, PTL DEF Spec

-----------------------------------------------------------------------------
(* The sorts of message a burst's locks are about. *)
LEMMA LockSorts ==
  \A m \in Message :
    /\ m \in Arms <=> m.kind = "arm"
    /\ m \in Ticks <=> m.kind = "tick"
    /\ m \in LockedArm <=> m.kind = "arm" /\ m.held
    /\ m \in Release <=> m.kind = "release"
    /\ m \in SaysArmed <=> m.kind = "armed"
    /\ m \in NotArmed <=> m.kind = "notarmed"
    /\ m \in ArmAnswers <=> m.kind \in {"armed", "notarmed"}
    /\ m \in Clears <=> m.kind \in {"seek", "other", "failed"}
    /\ m \in TickAnswers <=> m.kind \in {"seek", "other", "failed", "firing", "unreached"}
<1>1. \A m \in Message : m \in LockedArm <=> m.kind = "arm" /\ m.held
  BY DEF LockedArm
<1> QED
  BY <1>1, Saying DEF Arms, Ticks, Release, SaysArmed, NotArmed, ArmAnswers, Clears, TickAnswers

(* Some sorts are sorts of others. *)
LEMMA Kinship ==
  ASSUME NEW q \in Seq(Message)
  PROVE  /\ Among(q, NotArmed) \/ Among(q, SaysArmed) => Among(q, ArmAnswers)
         /\ Among(q, Clears) => Among(q, TickAnswers)
         /\ Among(q, LockedArm) => Among(q, Arms)
<1>1. \A i \in 1..Len(q) : q[i] \in Message
  OBVIOUS
<1> QED
  BY <1>1, LockSorts DEF Among

(* Neither queue tells of a burst more than it did. *)
CoreSorts == {Arms, Ticks, LockedArm}
PageSorts == {Release, SaysArmed, NotArmed, ArmAnswers, Clears, TickAnswers}
CoreSame ==
  /\ \A S \in CoreSorts : Among(toCore', S) <=> Among(toCore, S)
  /\ \A S, T \in CoreSorts : Behind(toCore', S, T) <=> Behind(toCore, S, T)
PageSame ==
  /\ \A S \in PageSorts : Among(toPage', S) <=> Among(toPage, S)
  /\ \A S, T \in PageSorts : Behind(toPage', S, T) <=> Behind(toPage, S, T)

(* A post, an answer or a message handled that is about no burst. *)
LEMMA IdlePost ==
  ASSUME Types, ~dead, NEW m \in Seq(Message), Post(m), \A S \in CoreSorts : ~Among(m, S)
  PROVE  CoreSame
<1>1. \A S, T : Behind(m, S, T) => Among(m, S)
  BY BehindAmong
<1> QED
  BY <1>1, PostEffect DEF Types, CoreSame

(* An answer that is about no burst. *)
LEMMA IdleAnswer ==
  ASSUME Types, NEW m \in Seq(Message), Answer(m), \A S \in PageSorts : ~Among(m, S)
  PROVE  PageSame
<1>1. \A S, T : Behind(m, S, T) => Among(m, S)
  BY BehindAmong
<1> QED
  BY <1>1, AnswerEffect DEF Types, PageSame

(* A message handled that is about no burst. *)
LEMMA IdleHandled ==
  ASSUME Types, NEW kind, Handles(kind), kind \notin {"arm", "tick"}
  PROVE  CoreSame
<1>1. Told \in Message /\ \A S \in CoreSorts : Told \notin S
  BY HandleEffect, LockSorts DEF Types, CoreSorts
<1> QED
  BY <1>1, HandleEffect DEF Types, CoreSame

(* A message heard that is about no burst. *)
LEMMA IdleHeard ==
  ASSUME Types, NEW kinds, Hear(kinds), kinds \subseteq {"close", "begun", "refused"}
  PROVE  PageSame
<1>1. Head(toPage) \in Message /\ Head(toPage).kind \in {"close", "begun", "refused"}
  BY HearEffect DEF Types
<1>2. \A S \in PageSorts : Head(toPage) \notin S
  BY <1>1, LockSorts DEF PageSorts
<1> QED
  BY <1>2, HearEffect DEF Types, PageSame

(* A worker that knows of no burst and a page that asked for none: nothing  *)
(* is on its way and nothing is held.                                       *)
LEMMA PristineTurns == Types /\ Pristine => OneTick /\ OneArm /\ Occupied /\ Undisturbed
<1> SUFFICES ASSUME Types, Pristine PROVE OneTick /\ OneArm /\ Occupied /\ Undisturbed
  OBVIOUS
<1>1. /\ ~Among(toPage, NotArmed) /\ ~Among(toPage, SaysArmed) /\ ~Among(toPage, Clears)
      /\ ~Among(toCore, LockedArm)
  BY Kinship DEF Types, Pristine
<1>2. \A S, T : /\ Behind(toCore, S, T) => Among(toCore, S)
                /\ Behind(toPage, S, T) => Among(toPage, S)
  BY BehindAmong DEF Types
<1>3. LastAwaited(chain) /\ NoneAwaited(chain)
  BY DEF Pristine, LastAwaited, NoneAwaited
<1> QED
  BY <1>1, <1>2, <1>3 DEF Pristine, OneTick, OneArm, Occupied, Undisturbed, Arming

(* What leaves the queues, the burst, the chain and the locks as they are   *)
(* leaves what is said of them.                                             *)
LEMMA LocksQuiet ==
  ASSUME CoreSame, PageSame, page' = page, chain' = chain, track'.held = track.held,
         core'.burst.armed = core.burst.armed, core'.burst.locked = core.burst.locked
  PROVE  /\ Pristine => Pristine'
         /\ OneTick /\ OneArm /\ Occupied /\ Undisturbed => (OneTick /\ OneArm /\ Occupied /\ Undisturbed)'
BY DEF Pristine, OneTick, OneArm, Occupied, Undisturbed, Arming, CoreSame, PageSame, CoreSorts, PageSorts

(* So it stays when a write joins it that nobody waits for; one that is     *)
(* waited for is the last.                                                  *)
LEMMA ChainJoined ==
  ASSUME NEW q \in Seq(LockWrite), NoneAwaited(q), NEW w \in BOOLEAN
  PROVE  NoneAwaited(Append(q, Write(w, FALSE))) /\ LastAwaited(Append(q, Write(w, TRUE)))
<1>1. ASSUME NEW a \in BOOLEAN, NEW i \in 1..Len(Append(q, Write(w, a))), i # Len(Append(q, Write(w, a)))
      PROVE  ~Append(q, Write(w, a))[i].awaited
  <2> DEFINE u == Write(w, a)
             r == Append(q, u)
  <2>1. u \in LockWrite
    BY DEF Write, LockWrite
  <2> HIDE DEF u
  <2>2. Len(q) \in Nat /\ Len(r) = Len(q) + 1 /\ \A k \in 1..Len(q) : r[k] = q[k]
    BY <2>1, WriteJoins
  <2>3. i \in 1..Len(r) /\ i # Len(r)
    BY <1>1 DEF u
  <2> HIDE DEF r
  <2>4. i \in 1..Len(q)
    BY <2>2, <2>3
  <2>5. ~r[i].awaited
    BY <2>2, <2>4 DEF NoneAwaited
  <2> QED
    BY <2>5 DEF r, u
<1>2. ASSUME NEW i \in 1..Len(Append(q, Write(w, FALSE))), i = Len(Append(q, Write(w, FALSE)))
      PROVE  ~Append(q, Write(w, FALSE))[i].awaited
  <2> DEFINE u == Write(w, FALSE)
  <2>1. u \in LockWrite /\ ~u.awaited
    BY DEF Write, LockWrite
  <2> HIDE DEF u
  <2>2. Len(q) \in Nat /\ Len(Append(q, u)) = Len(q) + 1 /\ Append(q, u)[Len(q) + 1] = u
    BY <2>1, WriteJoins
  <2>3. Append(q, u)[Len(Append(q, u))] = u
    BY <2>2
  <2> QED
    BY <1>2, <2>1, <2>3 DEF u
<1> QED
  BY <1>1, <1>2 DEF NoneAwaited, LastAwaited

(* When its first write settles the rest is as it was, and the write that   *)
(* was waited for was the only one.                                         *)
LEMMA ChainSettled ==
  ASSUME NEW q \in Seq(LockWrite), q # <<>>, LastAwaited(q)
  PROVE  /\ LastAwaited(Tail(q)) /\ (NoneAwaited(q) => NoneAwaited(Tail(q)))
         /\ Head(q).awaited => Len(q) = 1 /\ Tail(q) = <<>> /\ ~NoneAwaited(q)
         /\ Head(q).awaited => NoneAwaited(GivenUp(q))
<1>1. /\ Len(q) \in Nat \ {0} /\ Head(q) = q[1] /\ 1 \in 1..Len(q) /\ Len(Tail(q)) = Len(q) - 1
      /\ Tail(q) \in Seq(LockWrite)
      /\ \A i \in 1..Len(Tail(q)) : i + 1 \in 1..Len(q) /\ Tail(q)[i] = q[i + 1]
  OBVIOUS
<1>2. LastAwaited(Tail(q)) /\ (NoneAwaited(q) => NoneAwaited(Tail(q)))
  <2>1. ASSUME NEW i \in 1..Len(Tail(q)), Tail(q)[i].awaited
        PROVE  i = Len(Tail(q)) /\ ~NoneAwaited(q)
    <3>1. i + 1 \in 1..Len(q) /\ q[i + 1].awaited
      BY <1>1, <2>1
    <3>2. ~NoneAwaited(q) /\ i + 1 = Len(q)
      BY <3>1 DEF LastAwaited, NoneAwaited
    <3>3. i \in Int
      BY <1>1, <2>1
    <3>4. i = Len(Tail(q))
      <4> DEFINE n == Len(q)
                 k == Len(Tail(q))
      <4>1. n \in Nat /\ k = n - 1 /\ i + 1 = n
        BY <1>1, <3>2
      <4> HIDE DEF n, k
      <4>2. i = k
        BY <3>3, <4>1
      <4> QED
        BY <4>2 DEF k
    <3> QED
      BY <3>2, <3>4
  <2> QED
    BY <2>1 DEF LastAwaited, NoneAwaited
<1>3. ASSUME Head(q).awaited PROVE Len(q) = 1 /\ Tail(q) = <<>> /\ ~NoneAwaited(q)
  <2>1. Len(q) = 1 /\ ~NoneAwaited(q)
    BY <1>1, <1>3 DEF LastAwaited, NoneAwaited
  <2> QED
    BY <1>1, <2>1
<1>4. ASSUME Head(q).awaited PROVE NoneAwaited(GivenUp(q))
  <2> DEFINE r == GivenUp(q)
  <2>1. Len(r) = 2 /\ ~r[1].awaited /\ ~r[2].awaited
    <3>1. Len(r) = Len(q) + 1 /\ ~r[1].awaited /\ ~r[Len(q) + 1].awaited
      BY GivenUpFacts
    <3> HIDE DEF r
    <3> QED
      BY <1>3, <1>4, <3>1
  <2> HIDE DEF r
  <2>2. \A i \in 1..Len(r) : i = 1 \/ i = 2
    BY <2>1
  <2> QED
    BY <2>1, <2>2 DEF r, NoneAwaited
<1> QED
  BY <1>2, <1>3, <1>4

(* The loop of a burst's page keeps its promises while it turns. *)
LEMMA LocksPage ==
  ASSUME Types, Types', Turning, Turning', page.taken => ~track.live, page.at = "pumping",
         OneTick, OneArm, Occupied, Undisturbed,
         Step \/ ArmAt \/ Settles \/ Sticks \/ TimesOut \/ PageHears
  PROVE  OneTick' /\ OneArm' /\ Occupied' /\ Undisturbed'
<1>1. track \in Track /\ page \in Page /\ core \in Core /\ chain \in Seq(LockWrite)
      /\ toCore \in Seq(Message) /\ toPage \in Seq(Message)
  BY DEF Types
<1>2. ~CannotArm(track, page) /\ ~dead
  BY DEF Turning, CannotArm
<1>3. /\ toCore' = toCore => CoreSame
      /\ toPage' = toPage => PageSame
  BY DEF CoreSame, PageSame
<1>4. /\ Among(toPage, NotArmed) \/ Among(toPage, SaysArmed) => Among(toPage, ArmAnswers)
      /\ Among(toPage, Clears) => Among(toPage, TickAnswers)
      /\ Among(toCore, LockedArm) => Among(toCore, Arms)
      /\ Among(toPage', NotArmed) \/ Among(toPage', SaysArmed) => Among(toPage', ArmAnswers)
      /\ Among(toPage', Clears) => Among(toPage', TickAnswers)
      /\ Among(toCore', LockedArm) => Among(toCore', Arms)
  BY Kinship DEF Types
<1>5. \A S, T : /\ Behind(toPage, S, T) => Among(toPage, S) /\ Among(toPage, T)
                /\ Behind(toPage', S, T) => Among(toPage', S) /\ Among(toPage', T)
                /\ Behind(toCore', S, T) => Among(toCore', S) /\ Among(toCore', T)
  BY BehindAmong DEF Types
<1>6. /\ NoneAwaited(chain) => /\ NoneAwaited(Append(chain, Write(FALSE, FALSE)))
                               /\ LastAwaited(Append(chain, Write(TRUE, TRUE)))
      /\ \A q : NoneAwaited(q) => LastAwaited(q)
  BY <1>1, ChainJoined DEF NoneAwaited, LastAwaited
<1>7. ASSUME Post(<<Holds("locks", FALSE)>>)
      PROVE  CoreSame
  <2> DEFINE a == Holds("locks", FALSE)
             m == <<a>>
  <2>1. a \in Message /\ a.kind = "locks"
    BY Saying DEF Kinds
  <2> HIDE DEF a
  <2>2. m \in Seq(Message) /\ \A S \in CoreSorts : ~Among(m, S)
    <3>1. m \in Seq(Message) /\ \A S : Among(m, S) <=> a \in S
      BY <2>1, Posts
    <3>2. \A S \in CoreSorts : a \notin S
      BY <2>1, LockSorts DEF CoreSorts
    <3> QED
      BY <3>1, <3>2
  <2>3. Post(m)
    BY <1>7 DEF a
  <2> HIDE DEF m
  <2> QED
    BY <1>2, <2>2, <2>3, IdlePost
<1>8. CASE Step
  <2> DEFINE a == Says("tick")
             m == <<a>>
  <2>1. a \in Message /\ a.kind = "tick"
    BY Saying DEF Kinds
  <2>2. Post(m) /\ page' = [page EXCEPT !.asking = TRUE] /\ ~page.asking
        /\ UNCHANGED <<track, chain, toPage, host, core>>
    BY <1>2, <1>8 DEF Step, CannotArm
  <2> HIDE DEF a
  <2>3. /\ m \in Seq(Message)
        /\ \A S, T : (Among(m, S) <=> a \in S) /\ ~Behind(m, S, T)
    BY <2>1, Posts
  <2> HIDE DEF m
  <2>4. \A S, T :
           /\ Among(toCore', S) <=> Among(toCore, S) \/ Among(m, S)
           /\ Behind(toCore', S, T) <=>
                Behind(toCore, S, T) \/ Behind(m, S, T) \/ (Among(toCore, S) /\ Among(m, T))
    BY <1>1, <1>2, <2>2, <2>3, PostEffect
  <2>5. page'.asking /\ page'.arm = page.arm /\ page'.armed = page.armed /\ page'.firing = page.firing
    BY <1>1, <2>2 DEF Page
  <2>6. OneTick'
    BY <2>1, <2>2, <2>3, <2>4, <2>5, LockSorts DEF OneTick
  <2>7. CoreSorts = {Arms, Ticks, LockedArm} /\ a \notin Arms /\ a \notin LockedArm
    BY <2>1, LockSorts DEF CoreSorts
  <2>8. OneArm'
    BY <2>2, <2>3, <2>4, <2>5, <2>7 DEF OneArm
  <2> QED
    BY <2>2, <2>3, <2>4, <2>5, <2>6, <2>7, <2>8 DEF Occupied, Undisturbed, Arming
<1>9. CASE ArmAt
  <2>1. /\ page' = [page EXCEPT !.arm = "writing"] /\ chain' = Append(chain, Write(TRUE, TRUE))
        /\ UNCHANGED <<track, toCore, toPage, host, core>>
        /\ page.arm = "none" /\ ~page.armed /\ ~page.firing
    BY <1>9 DEF ArmAt, Busy
  <2>2. page'.asking = page.asking /\ page'.arm = "writing" /\ ~page'.armed /\ ~page'.firing
    BY <1>1, <2>1 DEF Page
  <2>3. ~core.burst.armed /\ ~Among(toPage, Release)
    BY <2>1 DEF Occupied
  <2>4. ~Among(toCore, Arms) /\ ~Among(toPage, ArmAnswers)
    BY <2>1 DEF OneArm
  <2>5. LastAwaited(chain')
    BY <1>6, <2>1 DEF OneArm
  <2>6. OneTick' /\ OneArm'
    BY <2>1, <2>2, <2>4, <2>5 DEF OneTick, OneArm
  <2> QED
    BY <1>4, <1>5, <2>1, <2>2, <2>3, <2>4, <2>6 DEF Occupied, Undisturbed, Arming
<1>10. CASE Settles
  <2>1. chain # <<>>
    BY <1>10 DEF Settles
  <2>a. /\ LastAwaited(Tail(chain)) /\ (NoneAwaited(chain) => NoneAwaited(Tail(chain)))
        /\ Head(chain).awaited => Len(chain) = 1 /\ Tail(chain) = <<>> /\ ~NoneAwaited(chain)
    BY <1>1, <2>1, ChainSettled DEF OneArm
  <2>2. PICK held \in BOOLEAN :
          /\ track' = [track EXCEPT !.held = held, !.kept = held /\ ~Head(chain).want]
          /\ IF Head(chain).awaited THEN ArmGoesOn(Tail(chain), held)
             ELSE chain' = Tail(chain) /\ UNCHANGED <<page, toCore>>
    BY <1>1, <1>10, SettlesTo
  <2>3. UNCHANGED <<toPage, host, core, dead>>
    BY <1>10 DEF Settles
  <2>4. track'.held = held
    BY <1>1, <2>2 DEF Track
  <2>5. ~core.burst.locked /\ ~Among(toCore, LockedArm)
    BY <2>1 DEF Undisturbed
  <2>6. CASE ~Head(chain).awaited
    <3>1. chain' = Tail(chain) /\ UNCHANGED <<page, toCore>>
      BY <2>2, <2>6
    <3>2. LastAwaited(chain') /\ (page.arm # "writing" => NoneAwaited(chain'))
      BY <2>a, <3>1 DEF OneArm
    <3>3. OneTick' /\ OneArm'
      BY <2>3, <3>1, <3>2 DEF OneTick, OneArm
    <3> QED
      BY <2>3, <2>5, <3>1, <3>3 DEF Occupied, Undisturbed, Arming
  <2>7. CASE Head(chain).awaited
    <3>1. page.arm = "writing" /\ Tail(chain) = <<>>
      BY <2>a, <2>7 DEF OneArm
    <3> DEFINE a == Holds("locks", held)
               b == Says("refresh")
               c == Holds("arm", held)
               m == <<a, b, c>>
    <3>2. page' = [page EXCEPT !.arm = "asked"] /\ chain' = <<>> /\ Post(m)
      BY <1>2, <2>2, <2>7, <3>1 DEF ArmGoesOn
    <3>3. /\ a \in Message /\ a.kind = "locks" /\ b \in Message /\ b.kind = "refresh"
          /\ c \in Message /\ c.kind = "arm" /\ c.held = held
      BY Saying DEF Kinds
    <3> HIDE DEF a, b, c
    <3>4. /\ m \in Seq(Message)
          /\ \A S, T : /\ Among(m, S) <=> a \in S \/ b \in S \/ c \in S
                       /\ Behind(m, S, T) <=>
                            (a \in S /\ (b \in T \/ c \in T)) \/ (b \in S /\ c \in T)
      BY <3>3, Posts
    <3> HIDE DEF m
    <3>5. \A S, T :
             /\ Among(toCore', S) <=> Among(toCore, S) \/ Among(m, S)
             /\ Behind(toCore', S, T) <=>
                  Behind(toCore, S, T) \/ Behind(m, S, T) \/ (Among(toCore, S) /\ Among(m, T))
      BY <1>1, <1>2, <3>2, <3>4, PostEffect
    <3>6. /\ ~Among(m, Ticks)
          /\ Among(m, LockedArm) => held
          /\ ~Behind(m, Arms, Arms) /\ ~Behind(m, Ticks, Ticks)
      BY <3>3, <3>4, LockSorts
    <3>7. page'.asking = page.asking /\ page'.arm = "asked"
          /\ page'.armed = page.armed /\ page'.firing = page.firing
      BY <1>1, <3>2 DEF Page
    <3>8. ~Among(toCore, Arms) /\ ~Among(toPage, ArmAnswers)
      BY <3>1 DEF OneArm
    <3>9. ~core.burst.armed /\ ~Among(toPage, Release)
      BY <3>1 DEF Occupied, Arming
    <3>10. OneTick'
      BY <2>3, <3>5, <3>6, <3>7 DEF OneTick
    <3>12. NoneAwaited(chain') /\ LastAwaited(chain')
      BY <3>2 DEF NoneAwaited, LastAwaited
    <3>11. OneArm'
      BY <3>12, <2>3, <3>2, <3>5, <3>6, <3>7, <3>8 DEF OneArm
    <3> QED
      BY <1>5, <2>3, <2>4, <2>5, <3>2, <3>5, <3>6, <3>7, <3>9, <3>10, <3>11 DEF Occupied, Undisturbed, Arming
  <2> QED
    BY <2>6, <2>7
<1>13. CASE Sticks
  <2>1. chain # <<>> /\ UNCHANGED <<chain, page, toCore, toPage, host, core, dead>>
    BY <1>13 DEF Sticks
  <2>2. ~core.burst.locked /\ ~Among(toCore, LockedArm)
    BY <2>1 DEF Undisturbed
  <2> QED
    BY <2>1, <2>2 DEF OneTick, OneArm, Occupied, Undisturbed, Arming
<1>11. CASE TimesOut
  <2>1. /\ chain # <<>> /\ Head(chain).awaited
        /\ page' = [page EXCEPT !.arm = "none"] /\ chain' = GivenUp(chain)
        /\ Post(<<Holds("locks", FALSE)>>) /\ UNCHANGED <<track, toPage, host, core>>
    BY <1>1, <1>11 DEF TimesOut
  <2>2. page.arm = "writing"
    BY <1>1, <2>1, ChainSettled DEF OneArm
  <2>4. NoneAwaited(chain') /\ LastAwaited(chain')
    BY <1>1, <1>6, <2>1, ChainSettled DEF OneArm
  <2>5. CoreSame
    BY <1>7, <2>1
  <2>6. page'.asking = page.asking /\ page'.arm = "none"
        /\ page'.armed = page.armed /\ page'.firing = page.firing
    BY <1>1, <2>1 DEF Page
  <2>7. ~Among(toCore, Arms) /\ ~Among(toPage, ArmAnswers)
    BY <2>2 DEF OneArm
  <2>8. ~core.burst.armed /\ ~Among(toPage, Release)
    BY <2>2 DEF Occupied, Arming
  <2>9. OneTick' /\ OneArm'
    BY <2>1, <2>4, <2>5, <2>6, <2>7 DEF OneTick, OneArm, CoreSame, CoreSorts
  <2> QED
    BY <1>4, <1>5, <2>1, <2>5, <2>6, <2>7, <2>8, <2>9
       DEF Occupied, Undisturbed, Arming, CoreSame, CoreSorts
<1>12. CASE PageHears
  <2>1. ~OnCloseCamera
    BY <1>1, Tracks DEF OnCloseCamera, Turning
  <2>2. CASE OnReleaseLocks
    <3>1. Hear({"release"}) /\ chain' = Append(chain, Write(FALSE, FALSE))
          /\ UNCHANGED <<track, page, toCore, host, core>>
      BY <2>2 DEF OnReleaseLocks
    <3>2. /\ Head(toPage) \in Message /\ Head(toPage).kind = "release"
          /\ \A S, T :
               /\ Among(toPage, S) <=> Head(toPage) \in S \/ Among(toPage', S)
               /\ Behind(toPage, S, T) <=>
                    Behind(toPage', S, T) \/ (Head(toPage) \in S /\ Among(toPage', T))
      BY <1>1, <3>1, HearEffect
    <3>3. Among(toPage, Release) /\ Head(toPage) \notin Clears
      BY <3>2, LockSorts
    <3>4. page.arm # "writing" /\ ~Among(toCore, Arms) /\ ~Among(toPage, NotArmed)
      BY <3>3 DEF Occupied, Arming
    <3>5. NoneAwaited(chain') /\ LastAwaited(chain')
      BY <1>1, <1>6, <3>1, <3>4 DEF OneArm
    <3>6. OneTick' /\ OneArm'
      BY <3>1, <3>2, <3>5 DEF OneTick, OneArm
    <3> QED
      BY <1>4, <3>1, <3>2, <3>3, <3>4, <3>6 DEF Occupied, Undisturbed, Arming
  <2>3. CASE OnBegun
    BY <1>3, <2>3, IdleHeard, LocksQuiet DEF OnBegun
  <2>4. CASE OnGuided
    <3>1. Hear({"firing", "seek", "other", "failed"}) /\ UNCHANGED <<track, chain, toCore, host, core>>
      BY <2>4 DEF OnGuided
    <3>2. /\ Head(toPage) \in Message /\ Head(toPage).kind \in {"firing", "seek", "other", "failed"}
          /\ \A S, T :
               /\ Among(toPage, S) <=> Head(toPage) \in S \/ Among(toPage', S)
               /\ Behind(toPage, S, T) <=>
                    Behind(toPage', S, T) \/ (Head(toPage) \in S /\ Among(toPage', T))
      BY <1>1, <3>1, HearEffect
    <3>3. Head(toPage) \in TickAnswers /\ (Head(toPage) \in Clears \/ Head(toPage).kind = "firing")
      BY <3>2, LockSorts
    <3>4. page.asking /\ ~Among(toCore, Ticks) /\ ~Among(toPage', TickAnswers) /\ ~Among(toPage', Clears)
      BY <1>4, <3>2, <3>3 DEF OneTick
    <3>5. page'.arm = page.arm /\ page'.firing = (Head(toPage).kind = "firing")
      BY <1>1, <2>4, <3>4 DEF OnGuided, Page
    <3>6. OneTick' /\ OneArm'
      BY <3>1, <3>2, <3>4, <3>5 DEF OneTick, OneArm
    <3>7. core'.burst.armed \/ Among(toPage', Release) =>
            page'.arm = "asked" \/ page'.armed \/ page'.firing
      <4>1. SUFFICES ASSUME core.burst.armed \/ Among(toPage', Release), Head(toPage) \in Clears
                     PROVE  page.arm = "asked"
        BY <3>1, <3>3, <3>5
      <4>2. Behind(toPage, Clears, SaysArmed)
        BY <3>2, <4>1 DEF Occupied
      <4> QED
        BY <1>4, <1>5, <4>2 DEF OneArm
    <3> QED
      BY <3>1, <3>2, <3>4, <3>5, <3>6, <3>7 DEF Occupied, Undisturbed, Arming
  <2>5. CASE OnUnreached
    <3>1. Hear({"unreached"}) /\ UNCHANGED <<track, chain, toCore, host, core>>
          /\ page' = IF page.asking THEN Unreached(page) ELSE page
      BY <2>5 DEF OnUnreached
    <3>2. /\ Head(toPage) \in Message /\ Head(toPage).kind = "unreached"
          /\ \A S, T :
               /\ Among(toPage, S) <=> Head(toPage) \in S \/ Among(toPage', S)
               /\ Behind(toPage, S, T) <=>
                    Behind(toPage', S, T) \/ (Head(toPage) \in S /\ Among(toPage', T))
      BY <1>1, <3>1, HearEffect
    <3>3. Head(toPage) \in TickAnswers
      BY <3>2, LockSorts
    <3>4. page.asking /\ ~Among(toCore, Ticks) /\ ~Among(toPage', TickAnswers) /\ ~Among(toPage', Clears)
      BY <1>4, <3>2, <3>3 DEF OneTick
    <3>5. page'.arm = page.arm /\ page'.armed = page.armed /\ page'.firing = page.firing
      BY <1>1, <3>1 DEF Unreached, Page
    <3>6. OneTick' /\ OneArm'
      BY <3>1, <3>2, <3>4, <3>5 DEF OneTick, OneArm
    <3> QED
      BY <3>1, <3>2, <3>4, <3>5, <3>6 DEF Occupied, Undisturbed, Arming
  <2>6. CASE OnArmed
    <3>1. Hear({"armed", "notarmed"}) /\ UNCHANGED <<track, host, core>>
      BY <2>6 DEF OnArmed
    <3>2. /\ Head(toPage) \in Message /\ Head(toPage).kind \in {"armed", "notarmed"}
          /\ \A S, T :
               /\ Among(toPage, S) <=> Head(toPage) \in S \/ Among(toPage', S)
               /\ Behind(toPage, S, T) <=>
                    Behind(toPage', S, T) \/ (Head(toPage) \in S /\ Among(toPage', T))
      BY <1>1, <3>1, HearEffect
    <3>3. /\ Head(toPage) \in ArmAnswers /\ Head(toPage) \notin Clears /\ Head(toPage) \notin TickAnswers
          /\ Head(toPage).kind = "notarmed" => Head(toPage) \in NotArmed
      BY <3>2, LockSorts
    <3>4. page.arm = "asked" /\ ~Among(toCore, Arms) /\ ~Among(toPage', ArmAnswers)
      BY <3>2, <3>3 DEF OneArm
    <3>5. NoneAwaited(chain) /\ LastAwaited(chain)
      BY <3>4 DEF OneArm
    <3>6. CASE Head(toPage).kind = "armed"
      <4>1. page' = [page EXCEPT !.arm = "none", !.armed = TRUE] /\ UNCHANGED <<chain, toCore>>
        BY <1>2, <2>6, <3>4, <3>6 DEF OnArmed
      <4>2. page'.asking = page.asking /\ page'.arm = "none" /\ page'.armed /\ page'.firing = page.firing
        BY <1>1, <4>1 DEF Page
      <4>3. OneTick' /\ OneArm'
        BY <3>1, <3>2, <3>3, <3>4, <3>5, <4>1, <4>2 DEF OneTick, OneArm
      <4> QED
        BY <1>4, <3>1, <3>2, <3>3, <3>4, <4>1, <4>2, <4>3 DEF Occupied, Undisturbed, Arming
    <3>7. CASE Head(toPage).kind = "notarmed"
      <4>1. page' = [page EXCEPT !.arm = "none"] /\ Unlock(chain)
        BY <2>6, <3>4, <3>7 DEF OnArmed
      <4>2. page'.asking = page.asking /\ page'.arm = "none" /\ page'.armed = page.armed
            /\ page'.firing = page.firing
        BY <1>1, <4>1 DEF Page
      <4>3. CoreSame /\ chain' = Append(chain, Write(FALSE, FALSE))
        BY <1>7, <4>1 DEF Unlock
      <4>4. NoneAwaited(chain') /\ LastAwaited(chain')
        BY <1>1, <1>6, <3>5, <4>3
      <4>5. ~core.burst.armed /\ ~Among(toPage, Release)
        BY <3>2, <3>3, <3>7 DEF Occupied, Arming
      <4>6. OneTick' /\ OneArm'
        BY <3>1, <3>2, <3>3, <3>4, <4>2, <4>3, <4>4 DEF OneTick, OneArm, CoreSame, CoreSorts
      <4> QED
        BY <1>4, <1>5, <3>1, <3>2, <3>3, <3>4, <4>2, <4>3, <4>5, <4>6
           DEF Occupied, Undisturbed, Arming, CoreSame, CoreSorts
    <3> QED
      BY <3>2, <3>6, <3>7
  <2> QED
    BY <1>12, <2>1, <2>2, <2>3, <2>4, <2>5, <2>6 DEF PageHears
<1> QED
  BY <1>8, <1>9, <1>10, <1>11, <1>12, <1>13

(* Begin and its answers are about no burst. *)
LEMMA BeginIdle ==
  ASSUME Types, Begin
  PROVE  CoreSame /\ PageSame /\ core'.burst = core.burst
<1>1. CoreSame
  BY IdleHandled DEF Begin
<1>2. core'.burst = core.burst
  BY DEF Types, Begin, Core
<1>3. PageSame
  <2>1. ASSUME NEW k \in {"begun", "refused", "close"}
        PROVE  Says(k) \in Message /\ \A S \in PageSorts : Says(k) \notin S
    <3> DEFINE a == Says(k)
    <3>1. a \in Message /\ a.kind = k
      BY Saying DEF Kinds
    <3> HIDE DEF a
    <3> QED
      BY <3>1, LockSorts DEF a, PageSorts
  <2>2. ASSUME NEW k \in {"begun", "refused"}, Answer(<<Says(k)>>)
        PROVE  PageSame
    <3> DEFINE a == Says(k)
               q == <<a>>
    <3>1. a \in Message /\ Answer(q) /\ \A S \in PageSorts : a \notin S
      BY <2>1, <2>2
    <3> HIDE DEF a
    <3>2. q \in Seq(Message) /\ \A S : Among(q, S) <=> a \in S
      BY <3>1, Posts
    <3> HIDE DEF q
    <3> QED
      BY IdleAnswer, <3>1, <3>2
  <2>3. ASSUME Answer(<<Says("close"), Says("refused")>>)
        PROVE  PageSame
    <3> DEFINE a == Says("close")
               b == Says("refused")
               q == <<a, b>>
    <3>1. a \in Message /\ b \in Message /\ Answer(q) /\ \A S \in PageSorts : a \notin S /\ b \notin S
      BY <2>1, <2>3
    <3> HIDE DEF a, b
    <3>2. q \in Seq(Message) /\ \A S : Among(q, S) <=> a \in S \/ b \in S
      BY <3>1, Posts
    <3> HIDE DEF q
    <3> QED
      BY IdleAnswer, <3>1, <3>2
  <2> QED
    BY <2>2, <2>3 DEF Begin
<1> QED
  BY <1>1, <1>2, <1>3

(* So does the worker behind it. *)
LEMMA LocksWorker ==
  ASSUME Types, Types', Turning, OneTick, OneArm, Occupied, Undisturbed,
         WorkerRuns \/ RollsBack \/ NeverReached \/ Retake \/ End
  PROVE  OneTick' /\ OneArm' /\ Occupied' /\ Undisturbed'
<1>1. track \in Track /\ page \in Page /\ core \in Core /\ host \in Host
      /\ toCore \in Seq(Message) /\ toPage \in Seq(Message)
  BY DEF Types
<1>2. UNCHANGED <<track, chain, page>>
  BY DEF WorkerRuns, HostHears, Begin, ArmBurst, ArmRefused, Guides, Waits, Advances, RollsBack,
         NeverReached, Retake, End, ThePage
<1>3. /\ toCore' = toCore => CoreSame
      /\ toPage' = toPage => PageSame
  BY DEF CoreSame, PageSame
<1>4. /\ Among(toPage, NotArmed) \/ Among(toPage, SaysArmed) => Among(toPage, ArmAnswers)
      /\ Among(toPage, Clears) => Among(toPage, TickAnswers)
      /\ Among(toCore, LockedArm) => Among(toCore, Arms)
      /\ Among(toPage', NotArmed) \/ Among(toPage', SaysArmed) => Among(toPage', ArmAnswers)
      /\ Among(toPage', Clears) => Among(toPage', TickAnswers)
      /\ Among(toCore', LockedArm) => Among(toCore', Arms)
  BY Kinship DEF Types
<1>5. \A S, T : /\ Behind(toPage, S, T) => Among(toPage, S) /\ Among(toPage, T)
                /\ Behind(toPage', S, T) => Among(toPage', S) /\ Among(toPage', T)
                /\ Behind(toCore', S, T) => Among(toCore', S) /\ Among(toCore', T)
  BY BehindAmong DEF Types
<1>6. ASSUME NEW k \in Kinds, NEW S, NEW T
      PROVE  /\ Says(k) \in Message /\ Says(k).kind = k /\ <<Says(k)>> \in Seq(Message)
             /\ Among(<<Says(k)>>, S) <=> Says(k) \in S
             /\ ~Behind(<<Says(k)>>, S, T)
  <2> DEFINE a == Says(k)
  <2>1. a \in Message /\ a.kind = k
    BY Saying
  <2> HIDE DEF a
  <2> QED
    BY <2>1, Posts DEF a
<1>7. ASSUME NEW h, NEW S, NEW T
      PROVE  /\ ReleasePosted(h) \in Seq(Message)
             /\ Among(ReleasePosted(h), S) => Says("release") \in S
             /\ ~Behind(ReleasePosted(h), S, T)
  <2>1. CASE ReleasePosted(h) = <<>>
    <3>1. <<>> \in Seq(Message) /\ ~Among(<<>>, S) /\ ~Behind(<<>>, S, T)
      BY Posts
    <3> QED
      BY <2>1, <3>1
  <2>2. CASE ReleasePosted(h) = <<Says("release")>>
    <3>1. "release" \in Kinds
      BY DEF Kinds
    <3>2. /\ <<Says("release")>> \in Seq(Message)
          /\ Among(<<Says("release")>>, S) <=> Says("release") \in S
          /\ ~Behind(<<Says("release")>>, S, T)
      BY <1>6, <3>1
    <3> QED
      BY <2>2, <3>2
  <2> QED
    BY <2>1, <2>2 DEF ReleasePosted
(* A release, if any, and then what the core says. *)
<1>8. ASSUME NEW r \in {<<>>, ReleasePosted(host)}, NEW k \in Kinds, Answer(r \o <<Says(k)>>)
      PROVE  /\ Says(k) \in Message /\ Says(k).kind = k
             /\ Says("release") \in Message /\ Says("release").kind = "release"
             /\ r \in Seq(Message) /\ \A S : Among(r, S) => Says("release") \in S
             /\ \A S, T :
                  /\ Among(toPage', S) <=> Among(toPage, S) \/ Among(r, S) \/ Says(k) \in S
                  /\ Behind(toPage', S, T) <=>
                       \/ Behind(toPage, S, T) \/ (Among(r, S) /\ Says(k) \in T)
                       \/ Among(toPage, S) /\ (Among(r, T) \/ Says(k) \in T)
  <2> DEFINE c == <<Says(k)>>
             m == r \o c
  <2>1. c \in Seq(Message) /\ \A S, T : (Among(c, S) <=> Says(k) \in S) /\ ~Behind(c, S, T)
    BY <1>6
  <2>2. <<>> \in Seq(Message) /\ \A S, T : ~Among(<<>>, S) /\ ~Behind(<<>>, S, T)
    BY Posts
  <2>3. r \in Seq(Message) /\ \A S, T : (Among(r, S) => Says("release") \in S) /\ ~Behind(r, S, T)
    BY <1>7, <2>2
  <2>4. Answer(m)
    BY <1>8
  <2> HIDE DEF c
  <2>5. /\ m \in Seq(Message)
        /\ \A S : Among(m, S) <=> Among(r, S) \/ Among(c, S)
        /\ \A S, T : Behind(m, S, T) <=>
             Behind(r, S, T) \/ Behind(c, S, T) \/ (Among(r, S) /\ Among(c, T))
    BY <2>1, <2>3, Sendable, AmongJoined, BehindJoined
  <2> HIDE DEF m
  <2>6. \A S, T :
         /\ Among(toPage', S) <=> Among(toPage, S) \/ Among(m, S)
         /\ Behind(toPage', S, T) <=>
              Behind(toPage, S, T) \/ Behind(m, S, T) \/ (Among(toPage, S) /\ Among(m, T))
    BY <1>1, <2>4, <2>5, AnswerEffect
  <2>7. Says("release") \in Message /\ Says("release").kind = "release"
        /\ Says(k) \in Message /\ Says(k).kind = k
    BY <1>6 DEF Kinds
  <2> QED
    BY <2>1, <2>3, <2>5, <2>6, <2>7
<1>9. ASSUME NEW k \in Kinds, Answer(<<Says(k)>>)
      PROVE  /\ Says(k) \in Message /\ Says(k).kind = k
             /\ \A S, T :
                  /\ Among(toPage', S) <=> Among(toPage, S) \/ Says(k) \in S
                  /\ Behind(toPage', S, T) <=>
                       Behind(toPage, S, T) \/ (Among(toPage, S) /\ Says(k) \in T)
  <2> DEFINE c == <<Says(k)>>
  <2>1. c \in Seq(Message) /\ \A S, T : (Among(c, S) <=> Says(k) \in S) /\ ~Behind(c, S, T)
    BY <1>6
  <2>2. Answer(c)
    BY <1>9
  <2> HIDE DEF c
  <2>3. \A S, T :
         /\ Among(toPage', S) <=> Among(toPage, S) \/ Among(c, S)
         /\ Behind(toPage', S, T) <=>
              Behind(toPage, S, T) \/ Behind(c, S, T) \/ (Among(toPage, S) /\ Among(c, T))
    BY <1>1, <2>1, <2>2, AnswerEffect
  <2> QED
    BY <1>6, <2>1, <2>3
(* A tick that is handled was the only one, and is answered once. *)
<1>10. ASSUME Handles("tick")
       PROVE  /\ ~Among(toCore', Ticks) /\ ~Among(toPage, TickAnswers) /\ page.asking
              /\ ~Among(toPage, Clears)
              /\ \A S \in {Arms, LockedArm} : Among(toCore', S) <=> Among(toCore, S)
              /\ Behind(toCore', Arms, Arms) => Behind(toCore, Arms, Arms)
  <2>1. /\ Told \in Message /\ Told.kind = "tick"
        /\ \A S, T :
             /\ Among(toCore, S) <=> Told \in S \/ Among(toCore', S)
             /\ Behind(toCore, S, T) <=> Behind(toCore', S, T) \/ (Told \in S /\ Among(toCore', T))
    BY <1>1, <1>10, HandleEffect
  <2>2. Told \in Ticks /\ Told \notin Arms /\ Told \notin LockedArm
    BY <2>1, LockSorts
  <2> QED
    BY <1>4, <2>1, <2>2 DEF OneTick
(* So was an arm. *)
<1>11. ASSUME Handles("arm")
       PROVE  /\ Told \in Message /\ Told \in Arms /\ page.arm = "asked"
              /\ ~Among(toCore', Arms) /\ ~Among(toPage, ArmAnswers)
              /\ Told.held => Among(toCore, LockedArm)
              /\ Among(toCore', Ticks) <=> Among(toCore, Ticks)
              /\ Behind(toCore', Ticks, Ticks) => Behind(toCore, Ticks, Ticks)
              /\ ~core.burst.armed /\ ~Among(toPage, Release)
  <2>1. /\ Told \in Message /\ Told.kind = "arm"
        /\ \A S, T :
             /\ Among(toCore, S) <=> Told \in S \/ Among(toCore', S)
             /\ Behind(toCore, S, T) <=> Behind(toCore', S, T) \/ (Told \in S /\ Among(toCore', T))
    BY <1>1, <1>11, HandleEffect
  <2>2. Told \in Arms /\ Told \notin Ticks /\ (Told.held => Told \in LockedArm)
    BY <2>1, LockSorts
  <2> QED
    BY <2>1, <2>2 DEF OneArm, Occupied, Arming
<1>13. CASE HostHears
  <2>1. UNCHANGED <<toPage, core>> /\ \E k \in {"camera", "lost", "refresh", "locks"} : Handles(k)
    BY <1>13 DEF HostHears
  <2>2. CoreSame
    BY <2>1, IdleHandled
  <2> QED
    BY <1>2, <1>3, <2>1, <2>2, LocksQuiet
<1>14. CASE Begin
  BY <1>2, <1>14, BeginIdle, LocksQuiet
<1>15. CASE ArmBurst
  <2>1. /\ Handles("arm") /\ core' = [core EXCEPT !.burst = [armed |-> TRUE, locked |-> Told.held, frames |-> 0]]
        /\ Answer((IF Told.held THEN <<>> ELSE ReleasePosted(host)) \o <<Says("armed")>>)
    BY <1>15 DEF ArmBurst
  <2>2. PICK r \in {<<>>, ReleasePosted(host)} : Answer(r \o <<Says("armed")>>) /\ (Told.held => r = <<>>)
    BY <2>1
  <2>3. Told \in Message /\ page.arm = "asked" /\ ~Among(toCore', Arms) /\ ~Among(toPage, ArmAnswers)
        /\ (Told.held => Among(toCore, LockedArm)) /\ ~core.burst.armed /\ ~Among(toPage, Release)
    BY <1>11, <2>1
  <2>a. /\ Among(toCore', Ticks) <=> Among(toCore, Ticks)
        /\ Behind(toCore', Ticks, Ticks) => Behind(toCore, Ticks, Ticks)
    BY <1>11, <2>1
  <2>4. core'.burst.armed /\ core'.burst.locked = Told.held
    BY <1>1, <2>1 DEF Core, Burst
  <2> DEFINE a == Says("armed")
             u == Says("release")
  <2>5. /\ a \in Message /\ a.kind = "armed" /\ u \in Message /\ u.kind = "release"
        /\ \A S : Among(r, S) => u \in S
        /\ \A S, T :
             /\ Among(toPage', S) <=> Among(toPage, S) \/ Among(r, S) \/ a \in S
             /\ Behind(toPage', S, T) <=>
                  \/ Behind(toPage, S, T) \/ (Among(r, S) /\ a \in T)
                  \/ Among(toPage, S) /\ (Among(r, T) \/ a \in T)
    BY <1>8, <2>2 DEF Kinds
  <2>6. Told.held => \A S : ~Among(r, S)
    <3>1. \A S : ~Among(<<>>, S)
      BY Posts
    <3> QED
      BY <2>2, <3>1
  <2> HIDE DEF a, u
  <2>7. /\ a \in ArmAnswers /\ a \in SaysArmed /\ a \notin NotArmed /\ a \notin Release
        /\ a \notin Clears /\ a \notin TickAnswers
        /\ u \notin ArmAnswers /\ u \notin SaysArmed /\ u \notin NotArmed /\ u \notin Clears
        /\ u \notin TickAnswers
    BY <2>5, LockSorts
  <2>8. OneTick'
    BY <1>2, <2>a, <2>5, <2>7 DEF OneTick
  <2>9. OneArm'
    BY <1>2, <1>5, <2>3, <2>5, <2>7 DEF OneArm
  <2>10. Occupied'
    BY <1>2, <1>4, <2>3, <2>4, <2>5, <2>7 DEF Occupied, Arming
  <2>11. Undisturbed'
    BY <1>2, <1>4, <2>3, <2>4, <2>5, <2>6, <2>7 DEF Undisturbed
  <2> QED
    BY <2>8, <2>9, <2>10, <2>11
<1>16. CASE ArmRefused
  <2>1. Handles("arm") /\ Answer(<<Says("notarmed")>>) /\ UNCHANGED core
    BY <1>16 DEF ArmRefused
  <2>2. page.arm = "asked" /\ ~Among(toCore', Arms) /\ ~Among(toPage, ArmAnswers)
        /\ ~core.burst.armed /\ ~Among(toPage, Release)
    BY <1>11, <2>1
  <2>3. /\ Among(toCore', Ticks) <=> Among(toCore, Ticks)
        /\ Behind(toCore', Ticks, Ticks) => Behind(toCore, Ticks, Ticks)
    BY <1>11, <2>1
  <2> DEFINE a == Says("notarmed")
  <2>4. /\ a \in Message /\ a.kind = "notarmed"
        /\ \A S, T :
             /\ Among(toPage', S) <=> Among(toPage, S) \/ a \in S
             /\ Behind(toPage', S, T) <=> Behind(toPage, S, T) \/ (Among(toPage, S) /\ a \in T)
    BY <1>9, <2>1 DEF Kinds
  <2> HIDE DEF a
  <2>5. /\ a \in ArmAnswers /\ a \notin Release /\ a \notin Clears /\ a \notin TickAnswers
        /\ a \notin SaysArmed
    BY <2>4, LockSorts
  <2>6. OneTick'
    BY <1>2, <2>3, <2>4, <2>5 DEF OneTick
  <2>7. OneArm'
    BY <1>2, <1>5, <2>2, <2>4, <2>5 DEF OneArm
  <2>8. Occupied'
    BY <1>2, <1>5, <2>1, <2>2, <2>4, <2>5 DEF Occupied, Arming
  <2>9. Undisturbed'
    BY <1>2, <1>4, <2>1, <2>2, <2>4, <2>5 DEF Undisturbed
  <2> QED
    BY <2>6, <2>7, <2>8, <2>9
<1>17. ASSUME Handles("tick"), NEW r \in {<<>>, ReleasePosted(host)},
              NEW k \in {"firing", "seek", "other", "failed", "unreached"},
              Answer(r \o <<Says(k)>>) \/ (r = <<>> /\ Answer(<<Says(k)>>)),
              r # <<>> => core.burst.armed,
              core'.burst.locked => core'.burst.armed /\ core.burst.locked /\ r = <<>>,
              core'.burst.armed => core.burst.armed /\ k \in {"firing", "unreached"}
       PROVE  OneTick' /\ OneArm' /\ Occupied' /\ Undisturbed'
  <2>1. /\ ~Among(toCore', Ticks) /\ ~Among(toPage, TickAnswers) /\ page.asking
        /\ ~Among(toPage, Clears)
    BY <1>10, <1>17
  <2>2. /\ \A S \in {Arms, LockedArm} : Among(toCore', S) <=> Among(toCore, S)
        /\ Behind(toCore', Arms, Arms) => Behind(toCore, Arms, Arms)
    BY <1>10, <1>17
  <2> DEFINE a == Says(k)
             u == Says("release")
  <2>3. \A S : ~Among(<<>>, S)
    BY Posts
  <2>4. /\ a \in Message /\ a.kind = k /\ u \in Message /\ u.kind = "release"
        /\ \A S : Among(r, S) => u \in S
        /\ \A S, T :
             /\ Among(toPage', S) <=> Among(toPage, S) \/ Among(r, S) \/ a \in S
             /\ Behind(toPage', S, T) <=>
                  \/ Behind(toPage, S, T) \/ (Among(r, S) /\ a \in T)
                  \/ Among(toPage, S) /\ (Among(r, T) \/ a \in T)
    <3>1. k \in Kinds /\ "release" \in Kinds
      BY DEF Kinds
    <3>2. CASE Answer(r \o <<Says(k)>>)
      BY <1>8, <3>1, <3>2
    <3>3. CASE r = <<>> /\ Answer(<<Says(k)>>)
      <4>1. /\ a \in Message /\ a.kind = k
            /\ \A S, T :
                 /\ Among(toPage', S) <=> Among(toPage, S) \/ a \in S
                 /\ Behind(toPage', S, T) <=> Behind(toPage, S, T) \/ (Among(toPage, S) /\ a \in T)
        BY <1>9, <3>1, <3>3
      <4>2. u \in Message /\ u.kind = "release"
        BY <1>6, <3>1
      <4>3. \A S : ~Among(r, S)
        BY <2>3, <3>3
      <4> HIDE DEF a, u
      <4> QED
        BY <4>1, <4>2, <4>3
    <3> QED
      BY <1>17, <3>2, <3>3
  <2>5. r = <<>> => \A S : ~Among(r, S)
    BY <2>3
  <2> HIDE DEF a, u
  <2>6. /\ a \in TickAnswers /\ a \notin ArmAnswers /\ a \notin SaysArmed /\ a \notin NotArmed
        /\ a \notin Release /\ (a \in Clears => k \notin {"firing", "unreached"})
        /\ u \notin ArmAnswers /\ u \notin SaysArmed /\ u \notin NotArmed /\ u \notin Clears
        /\ u \notin TickAnswers
    BY <2>4, LockSorts
  <2>7. OneTick'
    BY <1>2, <1>5, <2>1, <2>4, <2>6 DEF OneTick
  <2>8. OneArm'
    BY <1>2, <2>2, <2>4, <2>6 DEF OneArm
  <2>9. core.burst.armed => ~Arming
    BY DEF Occupied
  <2>10. Occupied'
    <3>1. core'.burst.armed \/ Among(toPage', Release) =>
            page'.arm = "asked" \/ page'.armed \/ page'.firing
      BY <1>2, <1>17, <2>4, <2>5, <2>6 DEF Occupied
    <3>2. Arming' => ~core'.burst.armed /\ ~Among(toPage', Release)
      BY <1>2, <1>17, <2>2, <2>4, <2>5, <2>6 DEF Occupied, Arming
    <3>3. ~Behind(toPage', Clears, Release)
      BY <1>5, <2>1, <2>4, <2>6
    <3>4. Among(toPage', Clears) => ~core'.burst.armed
      BY <1>17, <2>1, <2>4, <2>6
    <3> QED
      BY <3>1, <3>2, <3>3, <3>4 DEF Occupied
  <2>11. Undisturbed'
    BY <1>2, <1>17, <2>2, <2>4, <2>5, <2>6 DEF Undisturbed
  <2> QED
    BY <2>7, <2>8, <2>10, <2>11
<1>18. NoBurst \in Burst /\ ~NoBurst.armed /\ ~NoBurst.locked
       /\ \A b \in Burst : [core EXCEPT !.burst = b].burst = b
  BY <1>1 DEF NoBurst, Burst, Core
<1>19. ASSUME Handles("tick"), core.burst.armed, NEW k \in {"other", "failed"}, Disarm(<<Says(k)>>)
       PROVE  OneTick' /\ OneArm' /\ Occupied' /\ Undisturbed'
  <2>1. ~core'.burst.armed /\ ~core'.burst.locked /\ Answer(ReleasePosted(host) \o <<Says(k)>>)
    BY <1>18, <1>19 DEF Disarm
  <2> QED
    BY <1>17, <1>19, <2>1
<1>20. CASE Guides \/ Waits \/ NeverReached
  <2>1. Handles("tick") /\ UNCHANGED core
    BY <1>20 DEF Guides, Waits, NeverReached
  <2>2. PICK k \in {"firing", "seek", "other", "failed", "unreached"} :
          Answer(<<Says(k)>>) /\ (k \in {"firing", "unreached"} \/ ~core.burst.armed)
    BY <1>20 DEF Guides, Waits, NeverReached
  <2>3. core.burst.locked => core.burst.armed
    BY DEF Undisturbed
  <2> QED
    BY <1>17, <2>1, <2>2, <2>3
<1>21. CASE Advances
  <2>1. Handles("tick") /\ core.burst.armed
    BY <1>21 DEF Advances
  <2>2. CASE Disarm(<<Says("failed")>>) \/ Disarm(<<Says("other")>>)
    BY <1>19, <2>1, <2>2
  <2>3. CASE Answer(<<Says("firing")>>) /\ core' = [core EXCEPT !.burst.frames = @ + 1]
    <3>1. core'.burst.armed = core.burst.armed /\ core'.burst.locked = core.burst.locked
      BY <1>1, <2>3 DEF Core, Burst
    <3> QED
      BY <1>17, <2>1, <2>3, <3>1
  <2> QED
    BY <1>21, <2>2, <2>3 DEF Advances
<1>22. CASE RollsBack
  BY <1>19, <1>22 DEF RollsBack
(* A burst that goes between two ticks. *)
<1>23. CASE Retake \/ End
  <2> DEFINE u == Says("release")
             c == Says("close")
  <2>1. u \in Message /\ u.kind = "release" /\ c \in Message /\ c.kind = "close"
    BY Saying DEF Kinds
  <2>2. /\ <<>> \in Seq(Message) /\ \A S : ~Among(<<>>, S)
        /\ <<c>> \in Seq(Message) /\ \A S : Among(<<c>>, S) <=> c \in S
    <3> HIDE DEF u, c
    <3> QED
      BY <2>1, Posts
  <2>3. toCore' = toCore /\ ~core'.burst.armed /\ ~core'.burst.locked
    <3>1. CASE Retake
      BY <1>18, <3>1 DEF Retake, ThePage, Disarm
    <3>2. CASE End
      <4>1. core' = [active |-> FALSE, burst |-> NoBurst] /\ toCore' = toCore
        BY <3>2 DEF End, ThePage
      <4> QED
        BY <1>18, <4>1
    <3> QED
      BY <1>23, <3>1, <3>2
  <2>4. PICK r \in {<<>>, ReleasePosted(host)}, q \in {<<>>, <<c>>} :
          Answer(r \o q) /\ (r # <<>> => core.burst.armed)
    <3>1. CASE Retake
      BY <3>1 DEF Retake, Disarm
    <3>2. CASE End
      BY <3>2 DEF End
    <3> QED
      BY <1>23, <3>1, <3>2
  <2>5. /\ r \in Seq(Message) /\ \A S : Among(r, S) => u \in S
        /\ \A S, T : ~Behind(r, S, T)
        /\ r = <<>> => \A S : ~Among(r, S)
    <3>1. CASE r = <<>>
      <4>1. <<>> \in Seq(Message) /\ \A S, T : ~Among(<<>>, S) /\ ~Behind(<<>>, S, T)
        BY Posts
      <4> QED
        BY <3>1, <4>1
    <3>2. CASE r # <<>>
      BY <1>7, <2>4, <3>2
    <3> QED
      BY <3>1, <3>2
  <2>6. q \in Seq(Message) /\ \A S : Among(q, S) => c \in S
    BY <2>2, <2>4
  <2> HIDE DEF u, c
  <2>7. /\ u \notin Arms /\ u \notin ArmAnswers /\ u \notin SaysArmed /\ u \notin NotArmed
        /\ u \notin Clears /\ u \notin TickAnswers
        /\ c \notin Release /\ c \notin ArmAnswers /\ c \notin SaysArmed /\ c \notin NotArmed
        /\ c \notin Clears /\ c \notin TickAnswers
    BY <2>1, LockSorts
  <2> DEFINE m == r \o q
  <2>8. Answer(m)
    BY <2>4
  <2>9. /\ m \in Seq(Message)
        /\ \A S : Among(m, S) <=> Among(r, S) \/ Among(q, S)
    BY <2>5, <2>6, Sendable, AmongJoined
  <2> HIDE DEF m
  <2>10. \A S, T : Behind(m, S, T) => Among(m, S) /\ Among(m, T)
    BY <2>9, BehindAmong
  <2>11. \A S, T :
         /\ Among(toPage', S) <=> Among(toPage, S) \/ Among(m, S)
         /\ Behind(toPage', S, T) <=>
              Behind(toPage, S, T) \/ Behind(m, S, T) \/ (Among(toPage, S) /\ Among(m, T))
    BY <1>1, <2>8, <2>9, AnswerEffect
  <2>12. /\ ~Among(m, ArmAnswers) /\ ~Among(m, SaysArmed) /\ ~Among(m, NotArmed)
         /\ ~Among(m, Clears) /\ ~Among(m, TickAnswers)
         /\ Among(m, Release) => core.burst.armed
    BY <2>4, <2>5, <2>6, <2>7, <2>9
  <2>13. OneTick' /\ OneArm'
    BY <1>2, <2>3, <2>10, <2>11, <2>12 DEF OneTick, OneArm
  <2>14. Occupied'
    <3>1. core'.burst.armed \/ Among(toPage', Release) =>
            page'.arm = "asked" \/ page'.armed \/ page'.firing
      BY <1>2, <2>3, <2>11, <2>12 DEF Occupied
    <3>2. Arming' => ~core'.burst.armed /\ ~Among(toPage', Release)
      BY <1>2, <2>3, <2>11, <2>12 DEF Occupied, Arming
    <3>3. Among(toPage', Clears) /\ Behind(toPage', Clears, Release) => Behind(toPage', Clears, SaysArmed)
      BY <2>10, <2>11, <2>12 DEF Occupied
    <3> QED
      BY <2>3, <3>1, <3>2, <3>3 DEF Occupied
  <2>15. Undisturbed'
    BY <1>2, <2>3 DEF Undisturbed
  <2> QED
    BY <2>13, <2>14, <2>15
<1> QED
  BY <1>13, <1>14, <1>15, <1>16, <1>20, <1>21, <1>22, <1>23 DEF WorkerRuns

(* Before the loop pumps, every step leaves it pristine. *)
LEMMA PristineStep ==
  ASSUME Types, Types', Pristine, page.at # "pumping", Next
  PROVE  Pristine'
<1>1. track \in Track /\ page \in Page /\ core \in Core /\ host \in Host
      /\ toCore \in Seq(Message) /\ toPage \in Seq(Message) /\ dead \in BOOLEAN
  BY DEF Types
<1>2. /\ toCore' = toCore => CoreSame
      /\ toPage' = toPage => PageSame
  BY DEF CoreSame, PageSame
<1>3. ASSUME CoreSame, PageSame, chain' = chain,
             page'.arm = page.arm, page'.armed = page.armed, page'.firing = page.firing,
             page'.stopped = page.stopped, page'.asking = page.asking,
             core'.burst = core.burst
      PROVE  Pristine'
  BY <1>3 DEF Pristine, CoreSame, PageSame, CoreSorts, PageSorts
<1>4. ASSUME NEW k \in {"camera", "begin", "lost", "close"}
      PROVE  /\ Says(k) \in Message
             /\ \A S \in CoreSorts \cup PageSorts : Says(k) \notin S
  <2> DEFINE a == Says(k)
  <2>1. a \in Message /\ a.kind = k
    BY Saying DEF Kinds
  <2> HIDE DEF a
  <2> QED
    BY <2>1, LockSorts DEF a, CoreSorts, PageSorts
<1>5. CASE OpenCamera
  <2> DEFINE a == Says("camera")
             b == Says("begin")
             m == <<a, b>>
  <2>1. a \in Message /\ b \in Message /\ Post(m) /\ \A S \in CoreSorts : a \notin S /\ b \notin S
    BY <1>4, <1>5 DEF OpenCamera
  <2> HIDE DEF a, b
  <2>2. m \in Seq(Message) /\ \A S : Among(m, S) <=> a \in S \/ b \in S
    BY <2>1, Posts
  <2>3. dead => toCore' = toCore
    BY <2>1 DEF Post
  <2> HIDE DEF m
  <2>4. CoreSame
    BY <1>1, <1>2, <2>1, <2>2, <2>3, IdlePost
  <2>5. /\ page'.arm = page.arm /\ page'.armed = page.armed /\ page'.firing = page.firing
        /\ page'.stopped = page.stopped /\ page'.asking = page.asking
    BY <1>1, <1>5 DEF OpenCamera, Page
  <2> QED
    BY <1>2, <1>3, <1>5, <2>4, <2>5 DEF OpenCamera
<1>6. CASE CameraTaken
  <2> DEFINE a == Says("lost")
             m == <<a>>
  <2>1. a \in Message /\ Post(m) /\ \A S \in CoreSorts : a \notin S
    BY <1>4, <1>6 DEF CameraTaken
  <2> HIDE DEF a
  <2>2. m \in Seq(Message) /\ \A S : Among(m, S) <=> a \in S
    BY <2>1, Posts
  <2>3. dead => toCore' = toCore
    BY <2>1 DEF Post
  <2> HIDE DEF m
  <2>4. CoreSame
    BY <1>1, <1>2, <2>1, <2>2, <2>3, IdlePost
  <2>5. /\ page'.arm = page.arm /\ page'.armed = page.armed /\ page'.firing = page.firing
        /\ page'.stopped = page.stopped /\ page'.asking = page.asking
    BY <1>1, <1>6 DEF CameraTaken, Page
  <2> QED
    BY <1>2, <1>3, <1>6, <2>4, <2>5 DEF CameraTaken
<1>7. ~(Step \/ ArmAt \/ Settles \/ Sticks \/ TimesOut)
  BY DEF Step, ArmAt, Settles, Sticks, TimesOut, Pristine
<1>8. ASSUME NEW kinds, Hear(kinds)
      PROVE  /\ Head(toPage) \in Message /\ Head(toPage).kind \in kinds
             /\ Head(toPage) \notin Release /\ Head(toPage) \notin ArmAnswers /\ Head(toPage) \notin TickAnswers
  BY <1>1, <1>8, HearEffect DEF Pristine
<1>9. CASE PageHears
  <2>1. ~OnReleaseLocks /\ ~OnUnreached /\ ~OnArmed /\ ~OnGuided
    <3>1. ~OnReleaseLocks
      <4>1. SUFFICES ASSUME Hear({"release"}) PROVE FALSE
        BY DEF OnReleaseLocks
      <4>2. Head(toPage) \in Message /\ Head(toPage).kind = "release" /\ Head(toPage) \notin Release
        BY <1>8, <4>1
      <4> QED
        BY <4>2, LockSorts
    <3>2. ~OnUnreached /\ ~OnGuided
      BY <1>8, LockSorts DEF OnUnreached, OnGuided
    <3>3. ~OnArmed
      BY <1>8, LockSorts DEF OnArmed
    <3> QED
      BY <3>1, <3>2, <3>3
  <2>2. CASE OnCloseCamera
    BY <1>2, <1>3, <2>2, IdleHeard DEF OnCloseCamera
  <2>3. CASE OnBegun
    <3>1. /\ page'.arm = page.arm /\ page'.armed = page.armed /\ page'.firing = page.firing
          /\ page'.stopped = page.stopped /\ page'.asking = page.asking
      BY <1>1, <2>3 DEF OnBegun, Page
    <3> QED
      BY <1>2, <1>3, <2>3, <3>1, IdleHeard DEF OnBegun
  <2> QED
    BY <1>9, <2>1, <2>2, <2>3 DEF PageHears
<1>10. ~Handles("arm") /\ ~Handles("tick")
  <2>1. ASSUME NEW k \in {"arm", "tick"}, Handles(k) PROVE FALSE
    <3>1. Told \in Message /\ Told.kind = k /\ \A S : Told \in S => Among(toCore, S)
      BY <1>1, <2>1, HandleEffect
    <3> QED
      BY <3>1, LockSorts DEF Pristine
  <2> QED
    BY <2>1
<1>11. CASE HostHears
  <2>1. UNCHANGED <<chain, page, toPage, core>> /\ \E k \in {"camera", "lost", "refresh", "locks"} : Handles(k)
    BY <1>11 DEF HostHears, ThePage
  <2>2. CoreSame
    BY <2>1, IdleHandled
  <2> QED
    BY <1>2, <1>3, <2>1, <2>2
<1>12. CASE Begin
  BY <1>3, <1>12, BeginIdle DEF Begin, ThePage
<1>13. ~(ArmBurst \/ ArmRefused \/ Guides \/ Waits \/ Advances \/ RollsBack \/ NeverReached \/ Retake)
  BY <1>10 DEF ArmBurst, ArmRefused, Guides, Waits, Advances, RollsBack, NeverReached, Retake, Pristine
<1>14. CASE End
  <2> DEFINE c == Says("close")
             m == <<c>>
  <2>1. /\ core' = [active |-> FALSE, burst |-> NoBurst] /\ UNCHANGED <<chain, page, toCore>>
        /\ Answer((IF core.burst.armed THEN ReleasePosted(host) ELSE <<>>) \o <<c>>)
    BY <1>14 DEF End, ThePage
  <2>2. c \in Message /\ \A S \in PageSorts : c \notin S
    BY <1>4
  <2> HIDE DEF c
  <2>3. m \in Seq(Message) /\ \A S : Among(m, S) <=> c \in S
    BY <2>2, Posts
  <2>4. <<>> \o <<c>> = m
    BY <2>2
  <2>5. Answer(m)
    BY <2>1, <2>4 DEF Pristine
  <2> HIDE DEF m
  <2>6. PageSame
    BY <2>2, <2>3, <2>5, IdleAnswer
  <2>7. ~core'.burst.armed /\ ~core'.burst.locked
    BY <2>1 DEF NoBurst
  <2> QED
    BY <1>2, <2>1, <2>6, <2>7 DEF Pristine, CoreSame, PageSame, CoreSorts, PageSorts
<1>15. CASE WorkerDies
  <2>1. toCore' = <<>> /\ UNCHANGED <<chain, toPage, core>> /\ page' = Rejected(page)
    BY <1>15 DEF WorkerDies, Pristine
  <2>2. \A S : ~Among(toCore', S)
    BY <2>1 DEF Among
  <2>3. /\ page'.arm = page.arm /\ page'.armed = page.armed /\ page'.firing = page.firing
        /\ page'.stopped = page.stopped /\ page'.asking = page.asking
    <3> DEFINE q == [page EXCEPT !.arm = IF @ = "asked" THEN "none" ELSE @,
                                 !.at = IF @ = "beginning" THEN "failed" ELSE @]
    <3>1. /\ q.arm = page.arm /\ q.armed = page.armed /\ q.firing = page.firing
          /\ q.stopped = page.stopped /\ q.asking = page.asking
      BY <1>1 DEF Page, Pristine
    <3> HIDE DEF q
    <3>2. page' = q
      BY <2>1, <3>1 DEF Rejected, q, Pristine
    <3> QED
      BY <3>1, <3>2
  <2> QED
    BY <2>1, <2>2, <2>3 DEF Pristine
<1> QED
  BY <1>5, <1>6, <1>7, <1>9, <1>11, <1>12, <1>13, <1>14, <1>15 DEF Next, WorkerRuns, WorkerFails

(* What the page knows of itself: a camera taken away is gone, a loop that  *)
(* stopped waits for no answer, and a loop that pumps goes on pumping.      *)
LEMMA PageKeeps ==
  ASSUME Types, Types', page.taken => ~track.live, page.stopped \/ dead => ~page.asking, Next
  PROVE  /\ page'.taken => ~track'.live
         /\ page'.stopped \/ dead' => ~page'.asking
         /\ page.at = "pumping" => page'.at = "pumping"
         /\ Turning' /\ page.at = "pumping" => Turning
<1>1. track \in Track /\ page \in Page /\ dead \in BOOLEAN
  BY DEF Types
<1>2. ASSUME NEW p \in Page
      PROVE  /\ Unreached(p).taken = p.taken /\ ~Unreached(p).asking /\ Unreached(p).at = p.at
  BY DEF Page, Unreached
<1>3. CASE OpenCamera
  <2>1. page.at = "closed" /\ ~page'.taken /\ page'.stopped = page.stopped /\ page'.asking = page.asking
        /\ UNCHANGED dead
    BY <1>1, <1>3 DEF OpenCamera, Page
  <2> QED
    BY <2>1
<1>4. CASE CameraTaken
  <2>1. page'.stopped = page.stopped /\ page'.asking = page.asking /\ page'.at = page.at
        /\ UNCHANGED dead /\ ~track'.live
    BY <1>1, <1>4, Tracks DEF CameraTaken, Page
  <2> QED
    BY <2>1 DEF Turning
<1>5. CASE Step
  <2>1. /\ UNCHANGED <<track, dead>> /\ page'.taken = page.taken /\ page'.at = page.at
        /\ ~page.stopped /\ ~page.asking
    BY <1>1, <1>5 DEF Step, Page
  <2>2. page'.asking => ~page'.stopped /\ ~dead
    <3>1. CASE page.taken
      BY <1>1, <1>5, <3>1 DEF Step, Page
    <3>2. CASE ~page.taken /\ dead
      <4> DEFINE b == page.missed + 1 >= UnreachedLimit
                 n == page.missed + 1
      <4>1. page' = [page EXCEPT !.missed = n, !.stopped = b]
        BY <1>5, <3>2 DEF Step
      <4> HIDE DEF b, n
      <4>2. page'.asking = page.asking
        BY <1>1, <4>1 DEF Page
      <4> QED
        BY <2>1, <4>2
    <3>3. CASE ~page.taken /\ ~dead
      <4>1. page' = [page EXCEPT !.asking = TRUE]
        BY <1>5, <3>3 DEF Step
      <4> QED
        BY <1>1, <2>1, <3>3, <4>1 DEF Page
    <3> QED
      BY <3>1, <3>2, <3>3
  <2> QED
    BY <2>1, <2>2 DEF Turning
<1>6. CASE ArmAt \/ Settles \/ Sticks \/ TimesOut
  <2>1. UNCHANGED dead /\ track'.live = track.live
    BY <1>1, <1>6, Tracks DEF ArmAt, Sticks, Settles, TimesOut
  <2>2. /\ page'.taken = page.taken /\ page'.stopped = page.stopped /\ page'.asking = page.asking
        /\ page'.at = page.at
    BY <1>1, <1>6 DEF ArmAt, Settles, Sticks, ArmGoesOn, TimesOut, Page
  <2> QED
    BY <2>1, <2>2 DEF Turning
<1>7. CASE OnCloseCamera \/ OnReleaseLocks
  <2>1. UNCHANGED <<page, dead>> /\ (UNCHANGED track \/ track'.live = FALSE)
    <3>1. OnCloseCamera => UNCHANGED <<page, dead>> /\ track'.live = FALSE
      BY <1>1, Tracks DEF OnCloseCamera
    <3>2. OnReleaseLocks => UNCHANGED <<page, dead, track>>
      BY DEF OnReleaseLocks
    <3> QED
      BY <1>7, <3>1, <3>2
  <2> QED
    BY <2>1 DEF Turning
<1>8. CASE OnBegun
  <2>1. /\ UNCHANGED <<track, dead>> /\ (page.at = "pumping" => page' = page)
        /\ page'.taken = page.taken /\ page'.stopped = page.stopped /\ page'.asking = page.asking
    BY <1>1, <1>8 DEF OnBegun, Page
  <2> QED
    BY <2>1 DEF Turning
<1>9. CASE OnGuided
  <2>1. UNCHANGED <<track, dead>>
    BY <1>9 DEF OnGuided
  <2>2. /\ page'.taken = page.taken /\ page'.stopped = page.stopped /\ ~page'.asking
        /\ page'.at = page.at
    <3> DEFINE a == Head(toPage).kind = "firing"
               b == page.armed /\ Head(toPage).kind = "seek"
    <3>1. page' = IF ~page.asking THEN page
                  ELSE [page EXCEPT !.asking = FALSE, !.missed = 0, !.firing = a, !.armed = b]
      BY <1>9 DEF OnGuided
    <3> HIDE DEF a, b
    <3> QED
      BY <1>1, <3>1 DEF Page
  <2> QED
    BY <2>1, <2>2 DEF Turning
<1>10. CASE OnUnreached
  <2>1. UNCHANGED <<track, dead>> /\ page' = IF page.asking THEN Unreached(page) ELSE page
    BY <1>10 DEF OnUnreached
  <2>2. page'.taken = page.taken /\ ~page'.asking /\ page'.at = page.at
    BY <1>1, <1>2, <2>1
  <2>3. page.stopped => page'.stopped
    BY <2>1
  <2> QED
    BY <2>1, <2>2, <2>3 DEF Turning
<1>11. CASE OnArmed
  <2>1. UNCHANGED <<track, dead>>
    BY <1>11 DEF OnArmed
  <2>2. /\ page'.taken = page.taken /\ page'.stopped = page.stopped /\ page'.asking = page.asking
        /\ page'.at = page.at
    BY <1>1, <1>11 DEF OnArmed, Page
  <2> QED
    BY <2>1, <2>2 DEF Turning
<1>12. CASE WorkerRuns \/ RollsBack \/ NeverReached \/ Retake \/ End
  <2>1. UNCHANGED <<track, page, dead>>
    BY <1>12 DEF WorkerRuns, HostHears, Begin, ArmBurst, ArmRefused, Guides, Waits, Advances, RollsBack,
           NeverReached, Retake, End, ThePage
  <2> QED
    BY <2>1 DEF Turning
<1>13. CASE WorkerDies
  <2>1. UNCHANGED track /\ dead' = TRUE /\ page' = Rejected(page)
    BY <1>13 DEF WorkerDies
  <2> DEFINE q == [page EXCEPT !.arm = IF @ = "asked" THEN "none" ELSE @,
                               !.at = IF @ = "beginning" THEN "failed" ELSE @]
  <2>2. /\ q \in Page /\ q.taken = page.taken /\ q.asking = page.asking
        /\ page.at = "pumping" => q.at = "pumping"
    BY <1>1 DEF Page
  <2>3. page' = IF q.asking THEN Unreached(q) ELSE q
    BY <2>1 DEF Rejected
  <2> HIDE DEF q
  <2>4. page'.taken = page.taken /\ ~page'.asking /\ (page.at = "pumping" => page'.at = "pumping")
    BY <1>2, <2>2, <2>3
  <2> QED
    BY <2>1, <2>4 DEF Turning
<1> QED
  BY <1>3, <1>4, <1>5, <1>6, <1>7, <1>8, <1>9, <1>10, <1>11, <1>12, <1>13 DEF Next, PageHears, WorkerFails

(* The invariant of the locks starts true and every step keeps it. *)
LEMMA LocksInit == Init => LocksIInv
<1> SUFFICES ASSUME Init PROVE LocksIInv
  OBVIOUS
<1>1. Types
  BY CameraInit DEF CameraIInv
<1>2. \A S : ~Among(toCore, S) /\ ~Among(toPage, S)
  BY DEF Init, Among
<1>3. Pristine /\ ~track.live /\ ~page.asking
  BY <1>2 DEF Init, FreshTrack, Pristine, NoBurst
<1> QED
  BY <1>1, <1>3 DEF LocksIInv, Turning

(* One that turns came from one that turned, or from the pristine.          *)
LEMMA LocksStep == LocksIInv /\ [Next]_vars => LocksIInv'
<1> SUFFICES ASSUME LocksIInv, [Next]_vars PROVE LocksIInv'
  OBVIOUS
<1>1. Types /\ Types' /\ (page.taken => ~track.live) /\ (page.stopped \/ dead => ~page.asking)
  BY TypesStep DEF LocksIInv
<1>2. CASE UNCHANGED vars
  BY <1>2 DEF LocksIInv, Types, Pristine, OneTick, OneArm, Occupied, Undisturbed, Turning, Arming,
     Among, Behind, LastAwaited, NoneAwaited, vars
<1>3. CASE Next
  <2>1. /\ page'.taken => ~track'.live
        /\ page'.stopped \/ dead' => ~page'.asking
        /\ page.at = "pumping" => page'.at = "pumping"
        /\ Turning' /\ page.at = "pumping" => Turning
    BY <1>1, <1>3, PageKeeps
  <2>2. CASE page.at # "pumping"
    <3>1. Pristine'
      BY <1>1, <1>3, <2>2, PristineStep DEF LocksIInv
    <3>2. (OneTick /\ OneArm /\ Occupied /\ Undisturbed)'
      <4>1. (Types /\ Pristine => OneTick /\ OneArm /\ Occupied /\ Undisturbed)'
        BY PristineTurns, PTL
      <4> QED
        BY <1>1, <3>1, <4>1
    <3> QED
      BY <1>1, <2>1, <3>1, <3>2 DEF LocksIInv
  <2>3. CASE page.at = "pumping" /\ Turning'
    <3>1. OneTick /\ OneArm /\ Occupied /\ Undisturbed
      BY <2>1, <2>3 DEF LocksIInv
    <3>2. ~OpenCamera /\ ~CameraTaken /\ ~WorkerDies
      <4>1. page.at # "closed" /\ track'.live # FALSE /\ dead' # TRUE
        BY <2>3 DEF Turning
      <4>2. OpenCamera => page.at = "closed"
        BY DEF OpenCamera
      <4>3. CameraTaken => track'.live = FALSE
        BY <1>1, Tracks DEF CameraTaken, Types
      <4>4. WorkerDies => dead' = TRUE
        BY DEF WorkerDies
      <4> QED
        BY <4>1, <4>2, <4>3, <4>4
    <3>3. OneTick' /\ OneArm' /\ Occupied' /\ Undisturbed'
      BY <1>1, <1>3, <2>1, <2>3, <3>1, <3>2, LocksPage, LocksWorker DEF Next, WorkerFails
    <3> QED
      BY <1>1, <2>1, <2>3, <3>3 DEF LocksIInv
  <2>4. CASE page.at = "pumping" /\ ~Turning'
    BY <1>1, <2>1, <2>4 DEF LocksIInv
  <2> QED
    BY <2>2, <2>3, <2>4
<1> QED
  BY <1>2, <1>3

(* A burst the core believes locked is locked on the track from the arm to  *)
(* its last frame, whatever earlier releases, late writes and refused arms  *)
(* are still on their way; only a loop that has stopped, or a dead worker,  *)
(* leaves one unlocked, and it is never ticked again (lock-writes.ts).      *)
THEOREM LocksHold == Spec => []LockedThroughout
<1>1. LocksIInv => LockedThroughout
  BY DEF LocksIInv, LockedThroughout, Turning, Undisturbed
<1> QED
  BY <1>1, LocksInit, LocksStep, PTL DEF Spec
=============================================================================
