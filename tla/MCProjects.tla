------------------------------ MODULE MCProjects ------------------------------
(* A small instance of Projects: tabs are interchangeable. *)
EXTENDS Projects, TLC

TabSymmetry == Permutations(Tabs)
===============================================================================
