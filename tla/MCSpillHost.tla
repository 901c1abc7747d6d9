---------------------------- MODULE MCSpillHost -----------------------------
(* A small spill file for TLC.  Frames and pictures are interchangeable.     *)
EXTENDS SpillHost

Interchangeable == Permutations(Identity) \cup Permutations(Picture)
=============================================================================
