----------------------------- MODULE SpillSink ------------------------------
(***************************************************************************)
(* What a durable spill sink promises the frame store (ISpillSink): copies *)
(* under identities, and a token saying whose capture they are.            *)
(*                                                                         *)
(* The promise that matters spans the end of the process: a tier answering *)
(* with the same token still has every copy it had, and a tier that lost   *)
(* anything answers with a token never seen before.  Only the call that    *)
(* had not returned when the process died may be found done, undone or     *)
(* half done, and even then under its own frame.                           *)
(***************************************************************************)
EXTENDS Naturals

CONSTANTS
  Frame,      \* frame identities
  Content,    \* the bytes a copy can be
  NoCopy,     \* no copy under this identity
  Torn        \* a copy made of two writes of the same frame

VARIABLES
  copies,     \* copies[f]: what Read would answer
  generation, \* which capture the tier says it holds
  unsettled   \* the frames whose last call is not known to be on disk

vars == <<copies, generation, unsettled>>

Init ==
  /\ copies = [f \in Frame |-> NoCopy]
  /\ generation \in Nat
  /\ unsettled = {}

Write(f) ==
  /\ \E c \in Content : copies' = [copies EXCEPT ![f] = c]
  /\ unsettled' = {f}
  /\ UNCHANGED generation

(* A refused write has cost the sink its earlier copy; a drop means to. *)
GiveUp(f) ==
  /\ copies' = [copies EXCEPT ![f] = NoCopy]
  /\ unsettled' = {f}
  /\ UNCHANGED generation

Settle == unsettled' = {} /\ UNCHANGED <<copies, generation>>

(* Emptied on purpose, or found empty. *)
StartOver ==
  /\ copies' = [f \in Frame |-> NoCopy]
  /\ generation' > generation
  /\ unsettled' = {}

(* The next process finds the same capture. *)
Resume ==
  /\ copies' \in [Frame -> Content \cup {NoCopy, Torn}]
  /\ \A f \in Frame \ unsettled : copies'[f] = copies[f]
  /\ unsettled' = {}
  /\ UNCHANGED generation

Next ==
  \/ \E f \in Frame : Write(f) \/ GiveUp(f)
  \/ Settle \/ StartOver \/ Resume

Spec == Init /\ [][Next]_vars
=============================================================================
