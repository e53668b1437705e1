--------------------------- MODULE MCSocialGraph ---------------------------
(* SocialGraph for TLC: calls and users are interchangeable. *)
EXTENDS SocialGraph, TLC

GraphSymmetry == Permutations(Request) \cup Permutations(User)
=============================================================================
