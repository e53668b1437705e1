------------------------------ MODULE Profile -------------------------------
(***************************************************************************)
(* What a user has: an account, highlights, bookmarks and collections.     *)
(* The components meet in the calls only: a process serves all of them,    *)
(* and any of a request's statements may fall between any of another's.    *)
(***************************************************************************)
EXTENDS Accounts, Highlights, Library

vars == <<req, accountVars, highlightVars, libraryVars>>

Init ==
  /\ req = [r \in Request |-> Idle]
  /\ AccountsInit /\ HighlightsInit /\ LibraryInit

Next ==
  \/ AccountsNext   /\ UNCHANGED <<highlightVars, libraryVars>>
  \/ HighlightsNext /\ UNCHANGED <<accountVars, libraryVars>>
  \/ LibraryNext    /\ UNCHANGED <<accountVars, highlightVars>>

Spec == Init /\ [][Next]_vars

Memory == {Idle, Over} \cup AccountMemory \cup HighlightMemory \cup LibraryMemory

(* The types of the requests and of the parts. *)
ProfileTypeOK ==
  /\ req \in [Request -> Memory]
  /\ AccountsTypeOK /\ HighlightsTypeOK /\ LibraryTypeOK
=============================================================================
