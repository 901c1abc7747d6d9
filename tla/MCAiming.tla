------------------------------ MODULE MCAiming ------------------------------
(* Three cells, as few as a lens of less than half a turn is laid; the phone *)
(* at the edge of one's cone, in the middle of the others, or lost.          *)
EXTENDS Aiming
=============================================================================
