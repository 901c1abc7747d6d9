---------------------------- MODULE FrameArchive ----------------------------
(***************************************************************************)
(* What the frame store promises its callers, with the tiers' bookkeeping  *)
(* left out: every frame has one content, and only its writer changes it.  *)
(*                                                                         *)
(* A frame in the heap ("inHand") is never lost.  A frame outside it keeps *)
(* its content too, except that a tier which refused to be emptied, or a   *)
(* process that died, may have given copies up; such a frame reads as      *)
(* Lost and never as somebody else's pixels.                               *)
(***************************************************************************)
CONSTANTS
  Frame,      \* frame identities
  Content,    \* what a frame's bytes can be
  Blank,      \* the contents a newly allocated frame can have
  NoFrame,    \* no frame under this identity
  Lost        \* a frame whose only copy is gone

VARIABLES
  content,    \* content[f]: what the holder of f would read
  inHand      \* the frames whose bytes are in the heap

vars == <<content, inHand>>

Init ==
  /\ content = [f \in Frame |-> NoFrame]
  /\ inHand = {}

(* A new frame starts blank, in the heap. *)
Allocate(f) ==
  /\ content[f] = NoFrame
  /\ \E c \in Blank : content' = [content EXCEPT ![f] = c]
  /\ inHand' = inHand \cup {f}

(* Only a frame in the heap can be written to. *)
Fill(f) ==
  /\ f \in inHand
  /\ \E c \in Content : content' = [content EXCEPT ![f] = c]
  /\ UNCHANGED inHand

(* Bringing a frame back needs its content; putting it away keeps it. *)
Bring(f) ==
  /\ content[f] \in Content
  /\ inHand' = inHand \cup {f}
  /\ UNCHANGED content

PutAway(f) ==
  /\ f \in inHand
  /\ inHand' = inHand \ {f}
  /\ UNCHANGED content

(* A frame of an earlier process is taken back with whatever is left of it. *)
Adopt(f) ==
  /\ content[f] = NoFrame
  /\ \E c \in Content \cup {Lost} : content' = [content EXCEPT ![f] = c]
  /\ UNCHANGED inHand

Forget(f) ==
  /\ content[f] # NoFrame
  /\ content' = [content EXCEPT ![f] = NoFrame]
  /\ inHand' = inHand \ {f}

(* Every frame at once: an emptied tier, or the end of the process. *)
ForgetAll ==
  /\ content' = [f \in Frame |-> NoFrame]
  /\ inHand' = {}

(* The tier gave copies up: no frame in the heap is touched by it. *)
LoseCopies ==
  \E gone \in SUBSET {f \in Frame : content[f] # NoFrame /\ f \notin inHand} :
    /\ content' = [f \in Frame |-> IF f \in gone THEN Lost ELSE content[f]]
    /\ UNCHANGED inHand

Next ==
  \/ \E f \in Frame :
       \/ Allocate(f) \/ Fill(f) \/ Bring(f) \/ PutAway(f)
       \/ Adopt(f) \/ Forget(f)
  \/ ForgetAll
  \/ LoseCopies

Spec == Init /\ [][Next]_vars
=============================================================================
