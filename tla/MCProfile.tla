----------------------------- MODULE MCProfile ------------------------------
(* Three calls, of which one may fail.  They are too few for the parts to crowd *)
(* each other out: each has the run to itself in some behaviours.                *)
EXTENDS Profile, TLC

CONSTANTS m, s

MCMedium == {m, s}
MCStory  == {s}

Symmetry == Permutations(User) \cup Permutations(Request \ MayFail)
              \cup Permutations(Title) \cup Permutations(Name)
=============================================================================
