-------------------------- MODULE MCNotifications --------------------------
(* Notifications for TLC: users, calls and endpoints are interchangeable
   (every call may fail, or none). *)
EXTENDS Notifications, TLC

NotificationSymmetry == Permutations(Request) \cup Permutations(User)
                          \cup Permutations(Endpoint)
=============================================================================
