---------------------------- MODULE MCMessaging ----------------------------
(* Messaging for TLC: the requests are interchangeable, the users are not
   (normalizePair orders them). *)
EXTENDS Messaging, TLC

MCBlockable == {<<2, 1>>}

RequestSymmetry == Permutations(Request)
=============================================================================
