----------------------------- MODULE MCPresence -----------------------------
(* Presence for TLC.  No symmetry: liveness is checked. *)
EXTENDS Presence
=============================================================================
