---------------------------- MODULE MCCameraPath ----------------------------
(* CameraPath with bursts of two frames, for TLC. *)
EXTENDS CameraPath
=============================================================================
