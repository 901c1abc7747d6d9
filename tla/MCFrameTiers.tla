---------------------------- MODULE MCFrameTiers ----------------------------
(* The frame store and the spill host for TLC, each by itself: a behaviour   *)
(* is of one of them, over whatever the other side of the sink may answer.   *)
(* The store has two identities, two sizes, two pictures; the host two       *)
(* frames in a file of three bytes, frames and pictures interchangeable.     *)
EXTENDS FrameStore, SpillHost

VARIABLE part

\* HashBytes: distinct bytes, distinct non-zero hashes.
MCHashOf == [b \in Bytes |-> 2 * b[1] + (IF b[2] = Zeroed THEN 0 ELSE 1)]

Interchangeable == Permutations(Identity) \cup Permutations(Picture)

EitherInit == Init /\ HostInit /\ part \in {"frame store", "spill host"}

StoreAlone == part = "frame store" /\ UNCHANGED <<part, hostVars>>
HostAlone == part = "spill host" /\ UNCHANGED <<part, vars>>

EitherNext ==
  \/ \E bytes \in Sizes : Allocate(bytes) /\ StoreAlone
  \/ \E f \in Frame :
       \/ Pin(f) /\ StoreAlone
       \/ Release(f) /\ StoreAlone
       \/ DemoteToHeap(f) /\ StoreAlone
       \/ PutBack(f) /\ StoreAlone
       \/ Spill(f) /\ StoreAlone
       \/ SpillRefused(f) /\ StoreAlone
       \/ Forget(f) /\ StoreAlone
       \/ \E shown \in Pixels : Fill(f, shown) /\ StoreAlone
       \/ \E bytes \in Sizes : Adopt(f, bytes) /\ StoreAlone
  \/ Clear /\ StoreAlone
  \/ ClearRefused /\ StoreAlone
  \/ Restart /\ StoreAlone
  \/ \E f \in Identity, length \in Lengths, shown \in Picture :
       \/ Write(f, length, shown) /\ HostAlone
       \/ \E written \in 0..(length - 1) : WriteShort(f, length, shown, written) /\ HostAlone
  \/ \E f \in Identity : Drop(f) /\ HostAlone
  \/ Persist /\ HostAlone
  \/ EmptyIndex /\ HostAlone
  \/ TruncateFrames /\ HostAlone
  \/ TruncateThrows /\ HostAlone
  \/ RestoreIndex /\ HostAlone
  \/ Reload /\ HostAlone

EitherSpec == EitherInit /\ [][EitherNext]_<<part, vars, hostVars>>
=============================================================================
