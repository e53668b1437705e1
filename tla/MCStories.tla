----------------------------- MODULE MCStories -----------------------------
(* Stories for TLC: u2 follows u1, who has asked to follow u2, so that either may be
   on the list of the other and only u2 has the other in its feed; emojis and the
   calls that cannot fail are interchangeable. *)
EXTENDS Stories, TLC

CONSTANTS u1, u2

MCFollows  == {<<u1, u2>>, <<u2, u1>>}
MCAccepted == {<<u2, u1>>}

(* u2 has muted u1; it still follows it. *)
MCMuted == {<<u2, u1>>}

StorySymmetry == Permutations(Request \ MayFail) \cup Permutations(Emoji)
=============================================================================
