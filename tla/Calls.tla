------------------------------- MODULE Calls -------------------------------
(***************************************************************************)
(* The GraphQL calls of several statements, for the components that share  *)
(* nothing else: a call is a request r, req[r] is what its handler has in  *)
(* memory, and its pc names the statement it awaits.  A statement is       *)
(* atomic, two statements are not.                                         *)
(***************************************************************************)
CONSTANTS
  User,     \* registered users
  Request,  \* calls of several statements; each is made once (bound)
  MayFail,  \* requests whose statement may reject, or die with the process
  None      \* nothing in memory

ASSUME CallsAssumption == MayFail \subseteq Request /\ None \notin User \cup Request

VARIABLE req  \* the requests

Idle == [op |-> "none", pc |-> "idle"]

(* A call that is answered, with a result or an error, forgets everything. *)
Over == [op |-> "none", pc |-> "over"]

InFlight == {r \in Request : req[r].pc \notin {"idle", "over"}}

At(r, pc) == req[r].pc = pc

(* The first statement has been executed; memory is what the handler keeps. *)
Begin(r, memory) == At(r, "idle") /\ req' = [req EXCEPT ![r] = memory]

GoTo(r, pc) == req' = [req EXCEPT ![r].pc = pc]

Answer(r) == req' = [req EXCEPT ![r] = Over]

(* The awaited statement rejects, or the process dies. *)
Abort(r) == r \in MayFail \cap InFlight /\ Answer(r)
=============================================================================
