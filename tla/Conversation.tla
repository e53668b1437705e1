---------------------------- MODULE Conversation ----------------------------
(***************************************************************************)
(* What direct messages promise, whatever the tables, threads and requests *)
(* below them: a message goes from one user to another and is posted once; *)
(* reading a conversation reads everything the other has sent; a retracted *)
(* message never comes back; nothing read becomes unread.  Messaging is    *)
(* shown to implement this module.                                         *)
(***************************************************************************)
CONSTANTS User, Mail

VARIABLES
  letters,   \* what can be read: [id, from, to, read]
  posted     \* the messages posted so far, retracted ones included

Init == letters = {} /\ posted = {}

(* u posts m to v. *)
Post(m, u, v) ==
  /\ m \notin posted
  /\ u # v
  /\ posted' = posted \cup {m}
  /\ letters' = letters \cup {[id |-> m, from |-> u, to |-> v, read |-> FALSE]}

(* u reads its conversation with v, at once and entirely. *)
ReadAll(u, v) ==
  /\ letters' = {IF l.from = v /\ l.to = u THEN [l EXCEPT !.read = TRUE] ELSE l :
                   l \in letters}
  /\ UNCHANGED posted

Retract(m) ==
  /\ letters' = {l \in letters : l.id # m}
  /\ UNCHANGED posted

Next ==
  \/ \E m \in Mail : Retract(m) \/ \E u, v \in User : Post(m, u, v)
  \/ \E u, v \in User : ReadAll(u, v)

Spec == Init /\ [][Next]_<<letters, posted>>
=============================================================================
