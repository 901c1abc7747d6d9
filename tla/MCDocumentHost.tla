--------------------------- MODULE MCDocumentHost ---------------------------
(* DocumentHost for TLC.  Keys and flushes are interchangeable, and no       *)
(* symmetry is declared: the run checks liveness.                            *)
EXTENDS DocumentHost, TLC
=============================================================================
