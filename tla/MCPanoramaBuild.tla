--------------------------- MODULE MCPanoramaBuild ---------------------------
(* PanoramaBuild for TLC: two frames in a store that may decline any call;    *)
(* or one frame that somebody else pins and a new capture replaces, where the *)
(* store can always, or cannot always, say where it is.                       *)
EXTENDS PanoramaBuild, TLC

Interchangeable == Permutations(Cell)

TwoFrames == [frames |-> 2, captures |-> 1, held |-> 0, refuses |-> Calls]
HeldAndReplaced(refuses) == [frames |-> 1, captures |-> 2, held |-> 1, refuses |-> refuses]

Told == {TwoFrames, HeldAndReplaced(Calls \ {"ResidencyOf"})}
NotTold == {HeldAndReplaced(Calls)}
=============================================================================
