---------------------------- MODULE MCEngagement ----------------------------
(* Engagement for TLC: users, calls and posts are interchangeable
   (every post is a reel, or none is). *)
EXTENDS Engagement, TLC

EngagementSymmetry == Permutations(Request) \cup Permutations(User)
                        \cup Permutations(Post)
=============================================================================
