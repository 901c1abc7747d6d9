----------------------------- MODULE CameraPath -----------------------------
(***************************************************************************)
(* The camera between the page, which alone holds the track, and the core, *)
(* which reads it in the worker through state the page keeps fed.          *)
(*                                                                         *)
(* The page writes the track's locks through one chain, pushes what the    *)
(* camera confirmed and asks for a burst; the core gives locks back and    *)
(* closes the camera by posting to the page.  Both directions are first    *)
(* in, first out, and neither waits for the other.  The camera answers a   *)
(* lock late or never, refuses to take one or to give it back, the track   *)
(* ends, a call fails on its way in, and the worker dies.  Of what a burst *)
(* is, only that it holds locks and ends is kept: its pacing is Aiming's.  *)
(***************************************************************************)
EXTENDS Integers, Sequences

CONSTANTS
  FrameCount,      \* a burst's
  UnreachedLimit,  \* ticks that fail on the way in before the loop stops
  MaxArms, MaxOpens, MaxFaults   \* bounds

ASSUME CameraPathAssumption ==
  /\ FrameCount \in Nat \ {0} /\ UnreachedLimit \in Nat \ {0}
  /\ MaxArms \in Nat /\ MaxOpens \in Nat /\ MaxFaults \in Nat

VARIABLES
  track,    \* the camera itself: it delivers, and it holds the locks; it never
            \* settles the write it has; a release it has since kept (a ghost)
  chain,    \* lock writes not settled; the first has reached the track
  page,     \* where the page is: its offers, its loop, its arm
  toCore, toPage,   \* posted, not yet handled
  host,     \* what the worker's host has of the camera
  core,     \* a session is in progress, and the burst
  dead,     \* the worker failed
  spent     \* arms, opens and faults so far

vars == <<track, chain, page, toCore, toPage, host, core, dead, spent>>

Says(kind) == [kind |-> kind, held |-> FALSE]
Holds(kind, b) == [kind |-> kind, held |-> b]
NoBurst == [armed |-> FALSE, locked |-> FALSE, frames |-> 0]
NoCamera == [caps |-> "none", held |-> FALSE]
FreshTrack(live) == [live |-> live, held |-> FALSE, stuck |-> FALSE, kept |-> FALSE]

(* The next track, or none: the locks go with the old one.  A write that was *)
(* stuck in it stays so, and the chain behind it, which spans the tab.       *)
TrackAfter(t, live) == [FreshTrack(live) EXCEPT !.stuck = t.stuck]

Init ==
  /\ track = FreshTrack(FALSE)
  /\ chain = <<>>
  /\ page = [at |-> "closed", taken |-> FALSE, stopped |-> FALSE, missed |-> 0,
             asking |-> FALSE, arm |-> "none", armed |-> FALSE, firing |-> FALSE]
  /\ toCore = <<>> /\ toPage = <<>>
  /\ host = NoCamera
  /\ core = [active |-> FALSE, burst |-> NoBurst]
  /\ dead = FALSE
  /\ spent = [arms |-> 0, opens |-> 0, faults |-> 0]

Post(messages) == toCore' = IF dead THEN toCore ELSE toCore \o messages
Fault == spent.faults < MaxFaults /\ spent' = [spent EXCEPT !.faults = @ + 1]

-----------------------------------------------------------------------------
(* The page. *)

(* A write of the locks joins the chain, whoever asks and awaits it or not. *)
Write(want, awaited) == [want |-> want, awaited |-> awaited]

CannotArm(t, p) == p.taken \/ ~t.live \/ p.stopped

(* unlock: what every exit of an arm that will not fire does. *)
Unlock(queue) ==
  /\ chain' = Append(queue, Write(FALSE, FALSE))
  /\ Post(<<Holds("locks", FALSE)>>)

(* A press: the camera opens, and the core is told of it and asked to begin. *)
OpenCamera ==
  /\ page.at = "closed" /\ ~track.live /\ spent.opens < MaxOpens
  /\ spent' = [spent EXCEPT !.opens = @ + 1]
  /\ track' = TrackAfter(track, TRUE)
  /\ Post(<<Says("camera"), Says("begin")>>)
  /\ page' = IF dead THEN [page EXCEPT !.taken = FALSE, !.at = "failed"]
             ELSE [page EXCEPT !.taken = FALSE, !.at = "beginning"]
  /\ UNCHANGED <<chain, toPage, host, core, dead>>

(* forgetCamera: the track ended without anyone asking. *)
CameraTaken ==
  /\ track.live /\ Fault
  /\ track' = TrackAfter(track, FALSE)
  /\ page' = [page EXCEPT !.taken = TRUE]
  /\ Post(<<Says("lost")>>)
  /\ UNCHANGED <<chain, toPage, host, core, dead>>

(* A turn of the loop, one at a time: it ends with the camera, or asks. *)
Step ==
  /\ page.at = "pumping" /\ ~page.stopped /\ ~page.asking
  /\ IF page.taken THEN page' = [page EXCEPT !.stopped = TRUE] /\ UNCHANGED toCore
     ELSE IF dead THEN page' = [page EXCEPT !.missed = @ + 1,
                                            !.stopped = page.missed + 1 >= UnreachedLimit]
                       /\ UNCHANGED toCore
     ELSE page' = [page EXCEPT !.asking = TRUE] /\ Post(<<Says("tick")>>)
  /\ UNCHANGED <<track, chain, toPage, host, core, dead, spent>>

(* Fault: a second press is looked at only while the first still arms. *)
BusyWhileArming == page.arm # "none"

(* One arm at a time, and none over a burst. *)
Busy == page.arm # "none" \/ page.armed \/ page.firing

(* armAt: a dwell that completed, or the hook. *)
ArmAt ==
  /\ page.at = "pumping" /\ spent.arms < MaxArms
  /\ ~CannotArm(track, page) /\ ~Busy
  /\ spent' = [spent EXCEPT !.arms = @ + 1]
  /\ page' = [page EXCEPT !.arm = "writing"]
  /\ chain' = Append(chain, Write(TRUE, TRUE))
  /\ UNCHANGED <<track, toCore, toPage, host, core, dead>>

(* armOnce past its write: what can have changed is looked at once, then    *)
(* the two pushes and the call go out with nothing between them.            *)
ArmGoesOn(queue, held) ==
  IF CannotArm(track, page) \/ dead
    THEN page' = [page EXCEPT !.arm = "none"] /\ Unlock(queue)
    ELSE /\ page' = [page EXCEPT !.arm = "asked"]
         /\ chain' = queue
         /\ Post(<<Holds("locks", held), Says("refresh"), Holds("arm", held)>>)

(* What the track can come to hold of a write: it takes a lock or does not,  *)
(* and gives one back or keeps it, the refused constraint swallowed.         *)
Leaves(write) == IF ~track.live THEN {FALSE} ELSE IF write.want THEN BOOLEAN ELSE {FALSE, track.held}

(* A write settles, and the track says which locks it now holds. *)
Settles ==
  /\ chain # <<>> /\ ~track.stuck
  /\ \E held \in Leaves(Head(chain)) :
       /\ track' = [track EXCEPT !.held = held, !.kept = held /\ ~Head(chain).want]
       /\ IF Head(chain).awaited THEN ArmGoesOn(Tail(chain), held)
          ELSE chain' = Tail(chain) /\ UNCHANGED <<page, toCore>>
  /\ UNCHANGED <<toPage, host, core, dead, spent>>

(* A write the track will never settle, whatever it has taken of it: the    *)
(* chain is parked behind it for the life of the tab.                       *)
Sticks ==
  /\ chain # <<>> /\ track.live /\ ~track.stuck /\ Fault
  /\ \E held \in Leaves(Head(chain)) : track' = [track EXCEPT !.held = held, !.stuck = TRUE]
  /\ UNCHANGED <<chain, page, toCore, toPage, host, core, dead>>

(* Fault: the chain goes on without a write it has given up on, which lands *)
(* behind the release that was to undo it.                                  *)
GivenUpOvertaken(queue) == Append(Tail(queue), Write(FALSE, FALSE)) \o <<[Head(queue) EXCEPT !.awaited = FALSE]>>

(* The caller gives up on its write; the chain does not. *)
GivenUp(queue) == Append([queue EXCEPT ![1].awaited = FALSE], Write(FALSE, FALSE))

(* The clock of a write starts when it reaches the track: a slow answer may *)
(* lose to it, and a stuck one does.                                        *)
TimesOut ==
  /\ chain # <<>> /\ Head(chain).awaited
  /\ IF track.stuck THEN UNCHANGED spent ELSE Fault
  /\ page' = [page EXCEPT !.arm = "none"]
  /\ chain' = GivenUp(chain)
  /\ Post(<<Holds("locks", FALSE)>>)
  /\ UNCHANGED <<track, toPage, host, core, dead>>

-----------------------------------------------------------------------------
(* The page hears of the core. *)
Hear(kinds) == toPage # <<>> /\ Head(toPage).kind \in kinds /\ toPage' = Tail(toPage)

OnCloseCamera ==
  /\ Hear({"close"})
  /\ track' = TrackAfter(track, FALSE)
  /\ UNCHANGED <<chain, page, toCore, host, core, dead, spent>>

OnReleaseLocks ==
  /\ Hear({"release"})
  /\ chain' = Append(chain, Write(FALSE, FALSE))
  /\ UNCHANGED <<track, page, toCore, host, core, dead, spent>>

(* begin answered: the loop pumps with a plan, or the camera is offered     *)
(* again where the page holds none.                                         *)
OnBegun ==
  /\ Hear({"begun", "refused"})
  /\ IF page.at # "beginning" THEN UNCHANGED page
     ELSE page' = [page EXCEPT !.at = IF Head(toPage).kind = "begun" THEN "pumping" ELSE "closed"]
  /\ UNCHANGED <<track, chain, toCore, host, core, dead, spent>>

(* A tick answered.  Seek alone leaves an armed burst unspoken for. *)
OnGuided ==
  /\ Hear({"firing", "seek", "other", "failed"})
  /\ IF ~page.asking THEN UNCHANGED page
     ELSE page' = [page EXCEPT !.asking = FALSE, !.missed = 0,
                     !.firing = Head(toPage).kind = "firing",
                     !.armed = @ /\ Head(toPage).kind = "seek"]
  /\ UNCHANGED <<track, chain, toCore, host, core, dead, spent>>

(* A tick that never ran says nothing of a burst, and too many end the loop. *)
Unreached(p) == [p EXCEPT !.asking = FALSE, !.missed = @ + 1,
                          !.stopped = p.missed + 1 >= UnreachedLimit]

OnUnreached ==
  /\ Hear({"unreached"})
  /\ page' = IF page.asking THEN Unreached(page) ELSE page
  /\ UNCHANGED <<track, chain, toCore, host, core, dead, spent>>

(* armBurst answered: kept only where the core armed and the page still may. *)
OnArmed ==
  /\ Hear({"armed", "notarmed"})
  /\ IF page.arm # "asked" THEN UNCHANGED <<page, chain, toCore>>
     ELSE IF Head(toPage).kind = "armed" /\ ~CannotArm(track, page)
       THEN page' = [page EXCEPT !.arm = "none", !.armed = TRUE] /\ UNCHANGED <<chain, toCore>>
       ELSE page' = [page EXCEPT !.arm = "none"] /\ Unlock(chain)
  /\ UNCHANGED <<track, host, core, dead, spent>>

(* Fault: a worker that died leaves what waits for it waiting. *)
RejectedNot(p) == p

(* die: whatever was asked is answered with the death. *)
Rejected(p) ==
  LET q == [p EXCEPT !.arm = IF @ = "asked" THEN "none" ELSE @,
                     !.at = IF @ = "beginning" THEN "failed" ELSE @]
  IN  IF q.asking THEN Unreached(q) ELSE q

WorkerDies ==
  /\ ~dead /\ Fault
  /\ dead' = TRUE
  /\ toCore' = <<>>
  /\ page' = Rejected(page)
  /\ chain' = IF page.arm = "asked" THEN Append(chain, Write(FALSE, FALSE)) ELSE chain
  /\ UNCHANGED <<track, toPage, host, core>>

-----------------------------------------------------------------------------
(* The worker: its host, and the core behind it. *)
Handles(kind) == toCore # <<>> /\ Head(toCore).kind = kind /\ toCore' = Tail(toCore)
Told == Head(toCore)
Answer(messages) == toPage' = toPage \o messages
ThePage == <<track, chain, page, dead>>

SetCamera(h) == [caps |-> "opened", held |-> FALSE]

(* Fault: a refresh is taken for a camera. *)
RefreshSetsCamera(h) == [h EXCEPT !.caps = "refreshed"]

RefreshCamera(h) == IF h.caps = "none" THEN h ELSE [h EXCEPT !.caps = "refreshed"]

SetCameraLocks(h, held) == IF h.caps = "none" THEN h ELSE [h EXCEPT !.held = held]

HostHears ==
  /\ \/ Handles("camera") /\ host' = SetCamera(host)
     \/ Handles("lost") /\ host' = NoCamera
     \/ Handles("refresh") /\ host' = RefreshCamera(host)
     \/ Handles("locks") /\ host' = SetCameraLocks(host, Told.held)
  /\ UNCHANGED <<ThePage, toPage, core, spent>>

(* SetLocks: giving back is posted and forgotten at once, taking reads what *)
(* the page has confirmed; neither without a camera.                        *)
ReleasePosted(h) == IF h.caps = "none" THEN <<>> ELSE <<Says("release")>>
Released(h) == [h EXCEPT !.held = FALSE]
Confirmed(h, held) == held => h.held

(* Begin: refused with no camera open; one that fails later closes it. *)
Begin ==
  /\ Handles("begin")
  /\ \/ /\ host.caps # "none" /\ ~core.active
        /\ core' = [core EXCEPT !.active = TRUE]
        /\ Answer(<<Says("begun")>>)
        /\ UNCHANGED <<host, spent>>
     \/ /\ host.caps = "none" \/ core.active
        /\ Answer(<<Says("refused")>>)
        /\ UNCHANGED <<core, host, spent>>
     \/ /\ host.caps # "none" /\ ~core.active /\ Fault
        /\ host' = NoCamera
        /\ Answer(<<Says("close"), Says("refused")>>)
        /\ UNCHANGED core
  /\ UNCHANGED ThePage

CanArm == core.active /\ ~core.burst.armed /\ host.caps # "none" /\ Confirmed(host, Told.held)

ArmBurst ==
  /\ Handles("arm") /\ CanArm
  /\ core' = [core EXCEPT !.burst = [armed |-> TRUE, locked |-> Told.held, frames |-> 0]]
  /\ host' = IF Told.held THEN host ELSE Released(host)
  /\ Answer((IF Told.held THEN <<>> ELSE ReleasePosted(host)) \o <<Says("armed")>>)
  /\ UNCHANGED <<ThePage, spent>>

(* Refused by the guards above, by the aim, or lost on its way in. *)
ArmRefused ==
  /\ Handles("arm")
  /\ IF CanArm THEN Fault ELSE UNCHANGED spent
  /\ Answer(<<Says("notarmed")>>)
  /\ UNCHANGED <<ThePage, host, core>>

(* Disarm: whatever a burst came to, its locks are asked back. *)
Disarm(answers) ==
  /\ core' = [core EXCEPT !.burst = NoBurst]
  /\ host' = Released(host)
  /\ Answer(ReleasePosted(host) \o answers)

(* OnMotion of a tick with no burst in it. *)
Guides ==
  /\ Handles("tick") /\ ~core.burst.armed
  /\ \E kind \in IF core.active THEN {"seek", "other"} ELSE {"failed"} : Answer(<<Says(kind)>>)
  /\ UNCHANGED <<ThePage, host, core, spent>>

(* The next frame is not due. *)
Waits ==
  /\ Handles("tick") /\ core.burst.armed
  /\ Answer(<<Says("firing")>>)
  /\ UNCHANGED <<ThePage, host, core, spent>>

(* A frame is taken, and the last of them ends the burst; a camera that is  *)
(* gone ends it as well.                                                    *)
Advances ==
  /\ Handles("tick") /\ core.burst.armed
  /\ IF host.caps = "none" THEN Disarm(<<Says("failed")>>)
     ELSE IF core.burst.frames + 1 = FrameCount THEN Disarm(<<Says("other")>>)
     ELSE /\ core' = [core EXCEPT !.burst.frames = @ + 1]
          /\ Answer(<<Says("firing")>>)
          /\ UNCHANGED host
  /\ UNCHANGED <<ThePage, spent>>

(* Off its cell, or failed: rolled back. *)
RollsBack ==
  /\ Handles("tick") /\ core.burst.armed /\ Fault
  /\ \E kind \in {"other", "failed"} : Disarm(<<Says(kind)>>)
  /\ UNCHANGED ThePage

(* No room for the call's arguments: the core never hears of the tick. *)
NeverReached ==
  /\ Handles("tick") /\ Fault
  /\ Answer(<<Says("unreached")>>)
  /\ UNCHANGED <<ThePage, host, core>>

(* RequestRetake of the cell being filled, and End, from the page at any    *)
(* time; End closes the camera, whose track takes its locks with it.        *)
Retake ==
  /\ core.burst.armed /\ ~dead /\ Fault
  /\ Disarm(<<>>)
  /\ UNCHANGED <<ThePage, toCore>>

End ==
  /\ core.active /\ ~dead /\ Fault
  /\ core' = [active |-> FALSE, burst |-> NoBurst]
  /\ host' = NoCamera
  /\ Answer((IF core.burst.armed THEN ReleasePosted(host) ELSE <<>>) \o <<Says("close")>>)
  /\ UNCHANGED <<ThePage, toCore>>

-----------------------------------------------------------------------------
PageHears == OnCloseCamera \/ OnReleaseLocks \/ OnBegun \/ OnGuided \/ OnUnreached \/ OnArmed
WorkerRuns == HostHears \/ Begin \/ ArmBurst \/ ArmRefused \/ Guides \/ Waits \/ Advances
WorkerFails == RollsBack \/ NeverReached \/ Retake \/ End \/ WorkerDies

Next == \/ OpenCamera \/ CameraTaken \/ Step \/ ArmAt \/ Settles \/ Sticks \/ TimesOut
        \/ PageHears \/ WorkerRuns \/ WorkerFails

(* The loop turns, what is posted is handled, a write that is not stuck     *)
(* settles and the clock of one that is goes off, and a burst that is       *)
(* ticked does not wait for ever.                                           *)
Fairness ==
  /\ WF_vars(Step) /\ WF_vars(PageHears)
  /\ WF_vars(Settles) /\ WF_vars(track.stuck /\ TimesOut)
  /\ WF_vars(WorkerRuns) /\ SF_vars(Advances)

Spec == Init /\ [][Next]_vars /\ Fairness

-----------------------------------------------------------------------------
(* A burst the core believes locked is locked on the track, from the arm to *)
(* its last frame (lock-writes.ts: a release of an earlier burst landed 80  *)
(* ms into one the core believed was locked).  The one burst a page unlocks *)
(* under the core is one whose loop has stopped, which no tick will reach.  *)
LockedThroughout ==
  core.burst.locked /\ track.live =>
    \/ track.held
    \/ (page.stopped \/ dead) /\ ~page.asking

(* The worker has a camera only while the page does, or while news that it  *)
(* is gone is on the way: an arm's pushes that lost a race with a close     *)
(* hand the core no camera back (capture-host.ts, refreshCamera).           *)
NoCameraComesBack ==
  host.caps # "none" /\ ~dead =>
    track.live \/ \E i \in 1..Len(toCore) : toCore[i].kind = "lost"

(* A burst no tick will reach: its core is dead, or the loop has stopped. *)
Stranded == core.burst.armed /\ (dead \/ page.stopped)

(* The chain is parked behind a write nobody waits for: every later one,    *)
(* an arm's included, never reaches the track, and its clock never starts.  *)
Parked == track.stuck /\ chain # <<>> /\ ~Head(chain).awaited

(* The page asks every lock back: a track that holds locks gives them up,   *)
(* through refused arms, late answers, overtaken releases and lost calls    *)
(* (main.ts unlock, lock-writes.ts).  What is left locked is a burst that   *)
(* is stranded, a chain parked by the track, and a release that reached     *)
(* the track and was refused by it.                                         *)
LocksComeBack == track.held ~> (~track.held \/ Stranded \/ track.stuck \/ track.kept)

(* Every call the page makes is answered, one a dying worker never saw      *)
(* included, so a turn of the loop and an arm end (remote-core.ts die,      *)
(* lock-writes.ts' clock for the one the track leaves unanswered); but an   *)
(* arm whose write joined a parked chain has no clock.                      *)
CallsAnswered ==
  /\ (page.arm # "none") ~> (page.arm = "none" \/ (page.arm = "writing" /\ Parked))
  /\ page.asking ~> ~page.asking

(* What lock-writes.ts:35-39 says its bound is for: a camera that never     *)
(* settles a write does not keep an arm waiting, and with it every later    *)
(* one, for the life of the tab.                                            *)
ArmsEnd == (page.arm # "none") ~> (page.arm = "none")
=============================================================================
