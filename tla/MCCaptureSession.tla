-------------------------- MODULE MCCaptureSession --------------------------
(* A small capture for TLC: projects and cells are interchangeable.          *)
EXTENDS CaptureSession, TLC

Interchangeable == Permutations(Projects) \cup Permutations(Nodes)
=============================================================================
