------------------------------- MODULE MCTimer -------------------------------
(* TLC instance of Timer: two names and three Timer objects, enough for  *)
(* two objects of one name alive together (the nested-scope test) and a *)
(* third made after a ClearAll.  Names and objects are interchangeable.  *)
EXTENDS Timer, TLC

CONSTANTS n1, n2, h1, h2, h3

MCNames == {n1, n2}
MCHandles == {h1, h2, h3}
MCSymmetry == Permutations(MCNames) \cup Permutations(MCHandles)
=============================================================================
