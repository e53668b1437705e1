---------------------------- MODULE SocialGraph ----------------------------
(***************************************************************************)
(* Who follows, mutes and blocks whom: FollowsService, MutesService and    *)
(* BlocksService over the tables follows, mutes and blocks, and the        *)
(* isPrivate flag of users.                                                *)
(*                                                                         *)
(* A call in flight is a request r whose pc names the statement it awaits; *)
(* a statement is atomic, two statements are not.  The calls that consist  *)
(* of one DELETE or UPDATE are one action.  A row of follows or mutes is   *)
(* an edge whose flags are the names of its columns that are true.         *)
(*                                                                         *)
(* Repository.save of a loaded row is two statements: it reads the row     *)
(* again by id, then updates the columns in which that row differs from    *)
(* the copy in memory, or inserts the copy when there is no such row.      *)
(*                                                                         *)
(* A definition marked Mutant is not part of the specification.            *)
(***************************************************************************)
EXTENDS Naturals, FiniteSets

CONSTANTS
  User,     \* registered users; rows of users are never deleted
  Request,  \* GraphQL calls of several statements; each is made once (bound)
  MayFail,  \* requests whose statement may reject, or die with the process
  None      \* no user and no edge, in a request not made yet

ASSUME MayFailAssumption == MayFail \subseteq Request
ASSUME NoneAssumption    == None \notin User \cup Request

VARIABLES
  edges,     \* tables follows and mutes
  blocks,    \* table blocks, as the pairs <<blockerId, blockedId>>
  private,   \* users with isPrivate set
  req,       \* the requests
  walled,    \* history: follows that have faced a block ever since they began
  wasPublic, \* history: follows whose target was public at some time meanwhile
  settled    \* history: what users have undone, with no call of theirs under way

vars == <<edges, blocks, private, req, walled, wasPublic, settled>>

Table == {"follow", "mute"}
Flag  == {"isAccepted", "isCloseFriend", "mutePosts", "muteStories"}
Edge  == [table : Table, id : Request, from : User, to : User, flags : SUBSET Flag]

Running == {"checkBlock", "find", "insert", "notify", "select", "update",
            "findBlock", "insertBlock"}

(* edge is the row in the handler's memory, columns what save will update. *)
Req == [op : {"none", "follow", "close", "mute", "block"},
        pc : Running \cup {"idle", "done", "failed"},
        user : User \cup {None}, peer : User \cup {None},
        edge : Edge \cup {None}, columns : SUBSET Flag]

IdleReq == [op |-> "none", pc |-> "idle",
            user |-> None, peer |-> None, edge |-> None, columns |-> {}]

-----------------------------------------------------------------------------
(* What the code computes. *)

(* Mutant: only the blocks the caller made. *)
BlockedOneWay(u, v) == u # v /\ <<u, v>> \in blocks

IsBlockedEitherWay(u, v) == u # v /\ (<<u, v>> \in blocks \/ <<v, u>> \in blocks)

EdgesFrom(t, u, v) == {e \in edges : e.table = t /\ e.from = u /\ e.to = v}

(* gates the stories of v that are for close friends *)
IsOnCloseFriendsList(owner, viewer) ==
  \/ owner = viewer
  \/ \E e \in EdgesFrom("follow", owner, viewer) : "isCloseFriend" \in e.flags

At(r, pc) == req[r].pc = pc

GoTo(r, pc) == req' = [req EXCEPT ![r].pc = pc]

Begin(r, op, pc, u, v, e) ==
  /\ At(r, "idle")
  /\ req' = [req EXCEPT ![r].op = op, ![r].pc = pc, ![r].user = u, ![r].peer = v,
                        ![r].edge = e]

(* Calls of u about v under way, other than r. *)
Busy(ops, u, v, r) ==
  \E x \in Request \ {r} : /\ req[x].op \in ops /\ req[x].pc \in Running
                           /\ req[x].user = u /\ req[x].peer = v

-----------------------------------------------------------------------------
(* FollowsService.follow *)

(* Mutant: a follow is accepted whatever the target's isPrivate. *)
AlwaysAccepted(v) == {"isAccepted"}

InitialFlags(v) == IF v \in private THEN {} ELSE {"isAccepted"}

(* Up to the lookup of the target, whose isPrivate is used at the insert. *)
Follow(r, u, v) ==
  /\ Begin(r, "follow", IF u = v THEN "failed" ELSE "checkBlock", u, v,
           [table |-> "follow", id |-> r, from |-> u, to |-> v, flags |-> InitialFlags(v)])
  /\ walled' = IF IsBlockedEitherWay(u, v) THEN walled \cup {r} ELSE walled
  /\ wasPublic' = IF v \in private THEN wasPublic ELSE wasPublic \cup {r}
  /\ settled' = settled \ {<<"follow", u, v>>}
  /\ UNCHANGED <<edges, blocks, private>>

(* Mutant: isBlocking instead of isBlockedEitherWay. *)
CheckBlockOneWay(r) ==
  /\ At(r, "checkBlock")
  /\ GoTo(r, IF BlockedOneWay(req[r].user, req[r].peer) THEN "failed" ELSE "find")
  /\ UNCHANGED <<edges, blocks, private, walled, wasPublic, settled>>

CheckBlock(r) ==
  /\ At(r, "checkBlock")
  /\ GoTo(r, IF IsBlockedEitherWay(req[r].user, req[r].peer) THEN "failed" ELSE "find")
  /\ UNCHANGED <<edges, blocks, private, walled, wasPublic, settled>>

(* An existing follow is returned as it is; an existing mute is loaded, given
   the flags of the call and saved. *)
Find(r) ==
  /\ At(r, "find")
  /\ LET q     == req[r]
         found == EdgesFrom(q.edge.table, q.user, q.peer)
     IN  IF found = {} THEN GoTo(r, "insert")
         ELSE IF q.op = "follow" THEN GoTo(r, "done")
         ELSE \E e \in found :
                req' = [req EXCEPT ![r].pc = "select",
                                   ![r].edge = [e EXCEPT !.flags = q.edge.flags]]
  /\ UNCHANGED <<edges, blocks, private, walled, wasPublic, settled>>

(* Mutant: the table has no unique constraint on the pair. *)
InsertDuplicate(r) ==
  /\ At(r, "insert")
  /\ edges' = edges \cup {req[r].edge}
  /\ GoTo(r, IF req[r].op = "follow" THEN "notify" ELSE "done")
  /\ UNCHANGED <<blocks, private, walled, wasPublic, settled>>

(* The insert throws when the pair has an edge by now. *)
Insert(r) ==
  /\ At(r, "insert")
  /\ IF EdgesFrom(req[r].edge.table, req[r].user, req[r].peer) # {}
     THEN GoTo(r, "failed") /\ UNCHANGED edges
     ELSE /\ edges' = edges \cup {req[r].edge}
          /\ GoTo(r, IF req[r].op = "follow" THEN "notify" ELSE "done")
  /\ UNCHANGED <<blocks, private, walled, wasPublic, settled>>

(* NotificationsService.create, awaited; it writes nothing here. *)
Notify(r) ==
  /\ At(r, "notify")
  /\ GoTo(r, "done")
  /\ UNCHANGED <<edges, blocks, private, walled, wasPublic, settled>>

-----------------------------------------------------------------------------
(* FollowsService.toggleCloseFriend and MutesService.mute *)

(* Mutant: a missing follow is created instead of refused. *)
ToggleCloseFriendUpsert(r, u, v, isClose) ==
  LET flags(e) == IF isClose THEN e.flags \cup {"isCloseFriend"}
                             ELSE e.flags \ {"isCloseFriend"}
      blank    == [table |-> "follow", id |-> r, from |-> u, to |-> v, flags |-> {}]
  IN  /\ \/ \E e \in EdgesFrom("follow", u, v) :
              Begin(r, "close", "select", u, v, [e EXCEPT !.flags = flags(e)])
         \/ /\ EdgesFrom("follow", u, v) = {}
            /\ Begin(r, "close", "insert", u, v, [blank EXCEPT !.flags = flags(blank)])
      /\ settled' = IF isClose THEN settled \ {<<"close", u, v>>} ELSE settled
      /\ UNCHANGED <<edges, blocks, private, walled, wasPublic>>

(* Mutant: the lookup takes the follow of the other direction. *)
ToggleCloseFriendOfFollower(r, u, v, isClose) ==
  LET flags(e) == IF isClose THEN e.flags \cup {"isCloseFriend"}
                             ELSE e.flags \ {"isCloseFriend"}
  IN  /\ \/ \E e \in EdgesFrom("follow", v, u) :
              Begin(r, "close", "select", u, v, [e EXCEPT !.flags = flags(e)])
         \/ EdgesFrom("follow", v, u) = {} /\ Begin(r, "close", "failed", u, v, None)
      /\ settled' = IF isClose THEN settled \ {<<"close", u, v>>} ELSE settled
      /\ UNCHANGED <<edges, blocks, private, walled, wasPublic>>

(* The lookup of the follow, and the flag set on its copy. *)
ToggleCloseFriend(r, u, v, isClose) ==
  LET flags(e) == IF isClose THEN e.flags \cup {"isCloseFriend"}
                             ELSE e.flags \ {"isCloseFriend"}
  IN  /\ \/ \E e \in EdgesFrom("follow", u, v) :
              Begin(r, "close", "select", u, v, [e EXCEPT !.flags = flags(e)])
         \/ EdgesFrom("follow", u, v) = {} /\ Begin(r, "close", "failed", u, v, None)
      /\ settled' = IF isClose THEN settled \ {<<"close", u, v>>} ELSE settled
      /\ UNCHANGED <<edges, blocks, private, walled, wasPublic>>

Mute(r, u, v, flags) ==
  /\ flags \subseteq {"mutePosts", "muteStories"}
  /\ Begin(r, "mute", IF u = v THEN "failed" ELSE "find", u, v,
           [table |-> "mute", id |-> r, from |-> u, to |-> v, flags |-> flags])
  /\ settled' = settled \ {<<"mute", u, v>>}
  /\ UNCHANGED <<edges, blocks, private, walled, wasPublic>>

(* What a finished toggleCloseFriend(false) settles, when the follow it took off
   the list is still there: v is off u's list. *)
SettleClose(r) ==
  settled' = IF /\ req[r].op = "close" /\ "isCloseFriend" \notin req[r].edge.flags
                /\ \E e \in edges : e.id = req[r].edge.id
                /\ ~Busy({"close"}, req[r].user, req[r].peer, r)
             THEN settled \cup {<<"close", req[r].user, req[r].peer>>} ELSE settled

(* The first half of save: the row as it is now against the copy. *)
Select(r) ==
  /\ At(r, "select")
  /\ LET copy == req[r].edge
         rows == {e \in edges : e.id = copy.id}
         differ(e) == (e.flags \ copy.flags) \cup (copy.flags \ e.flags)
     IN  \/ rows = {} /\ GoTo(r, "insert") /\ UNCHANGED settled
         \/ \E e \in rows :
              IF differ(e) = {} THEN GoTo(r, "done") /\ SettleClose(r)
              ELSE /\ req' = [req EXCEPT ![r].pc = "update", ![r].columns = differ(e)]
                   /\ UNCHANGED settled
  /\ UNCHANGED <<edges, blocks, private, walled, wasPublic>>

(* The second half: those columns of the row, if it is still there. *)
Update(r) ==
  /\ At(r, "update")
  /\ LET q == req[r]
     IN  edges' = {IF e.id = q.edge.id
                   THEN [e EXCEPT !.flags = (@ \ q.columns) \cup (q.columns \cap q.edge.flags)]
                   ELSE e : e \in edges}
  /\ GoTo(r, "done")
  /\ SettleClose(r)
  /\ UNCHANGED <<blocks, private, walled, wasPublic>>

-----------------------------------------------------------------------------
(* Calls of one statement *)

(* unfollow by u, removeFollower by v, unmute by u: DELETE by pair. *)
RemoveEdge(t, u, v) ==
  /\ EdgesFrom(t, u, v) # {}
  /\ edges' = edges \ EdgesFrom(t, u, v)
  /\ settled' = IF Busy(IF t = "mute" THEN {"mute"} ELSE {"follow", "close"}, u, v, None)
                THEN settled
                ELSE settled \cup {<<t, u, v>>}
  /\ UNCHANGED <<blocks, private, req, walled, wasPublic>>

(* updateProfile writes isPrivate. *)
SetPrivate(v, on) ==
  /\ private' = IF on THEN private \cup {v} ELSE private \ {v}
  /\ wasPublic' = IF on THEN wasPublic
                  ELSE wasPublic \cup {r \in Request :
                         req[r].op = "follow" /\ req[r].peer = v /\ req[r].pc \in Running}
  /\ UNCHANGED <<edges, blocks, req, walled, settled>>

Unblock(u, v) ==
  /\ <<u, v>> \in blocks
  /\ blocks' = blocks \ {<<u, v>>}
  /\ walled' = {r \in walled : \/ <<req[r].user, req[r].peer>> \in blocks'
                               \/ <<req[r].peer, req[r].user>> \in blocks'}
  /\ UNCHANGED <<edges, private, req, wasPublic, settled>>

-----------------------------------------------------------------------------
(* BlocksService.block: it does not touch the follows. *)

Block(r, u, v) ==
  /\ Begin(r, "block", IF u = v THEN "failed" ELSE "findBlock", u, v, None)
  /\ UNCHANGED <<edges, blocks, private, walled, wasPublic, settled>>

FindBlock(r) ==
  /\ At(r, "findBlock")
  /\ GoTo(r, IF <<req[r].user, req[r].peer>> \in blocks THEN "done" ELSE "insertBlock")
  /\ UNCHANGED <<edges, blocks, private, walled, wasPublic, settled>>

(* Mutant: blockedId is left out of the insert. *)
InsertBlockOfNobody(r) ==
  /\ At(r, "insertBlock")
  /\ blocks' = blocks \cup {<<req[r].user, None>>}
  /\ GoTo(r, "done")
  /\ UNCHANGED <<edges, private, walled, wasPublic, settled>>

(* The insert throws when the pair was blocked meanwhile. *)
InsertBlock(r) ==
  /\ At(r, "insertBlock")
  /\ blocks' = blocks \cup {<<req[r].user, req[r].peer>>}
  /\ GoTo(r, IF <<req[r].user, req[r].peer>> \in blocks THEN "failed" ELSE "done")
  /\ UNCHANGED <<edges, private, walled, wasPublic, settled>>

(* The awaited statement rejects, or the process dies. *)
Fail(r) ==
  /\ r \in MayFail
  /\ req[r].pc \in Running
  /\ GoTo(r, "failed")
  /\ UNCHANGED <<edges, blocks, private, walled, wasPublic, settled>>

-----------------------------------------------------------------------------
Init ==
  /\ edges = {}
  /\ blocks = {}
  /\ private = {}
  /\ req = [r \in Request |-> IdleReq]
  /\ walled = {}
  /\ wasPublic = {}
  /\ settled = {}

Call(r) ==
  \E u, v \in User :
    \/ Follow(r, u, v) \/ Block(r, u, v)
    \/ \E isClose \in BOOLEAN : ToggleCloseFriend(r, u, v, isClose)
    \/ \E flags \in SUBSET {"mutePosts", "muteStories"} : Mute(r, u, v, flags)

Step(r) ==
  \/ CheckBlock(r) \/ Find(r) \/ Insert(r) \/ Notify(r) \/ Select(r) \/ Update(r)
  \/ FindBlock(r) \/ InsertBlock(r)

Next ==
  \/ \E r \in Request : Call(r) \/ Step(r) \/ Fail(r)
  \/ \E u, v \in User : Unblock(u, v) \/ \E t \in Table : RemoveEdge(t, u, v)
  \/ \E v \in User, on \in BOOLEAN : SetPrivate(v, on)

Spec == Init /\ [][Next]_vars

-----------------------------------------------------------------------------
(* Properties *)

TypeOK ==
  /\ edges \subseteq Edge
  /\ blocks \subseteq User \X User
  /\ private \subseteq User
  /\ req \in [Request -> Req]
  /\ walled \cup wasPublic \subseteq Request
  /\ settled \subseteq (Table \cup {"close"}) \X User \X User

(* A user follows and mutes another at most once and itself never, although
   each insert follows a lookup that others may have made stale and a save may
   insert a row that was deleted meanwhile. *)
OneEdgePerPair ==
  \A e \in edges : /\ e.from # e.to
                   /\ EdgesFrom(e.table, e.from, e.to) = {e}

(* A follow that faced a block in either direction when it began, and ever
   since, leaves no edge. *)
WalledFollowsLeaveNothing == \A e \in edges : e.id \notin walled

(* Nobody is accepted automatically as a follower of an account that was
   private from the call to the insert and after, whatever copy of the flag
   the insert uses. *)
PrivateNeverAutoAccepts ==
  \A e \in edges : "isAccepted" \in e.flags => e.id \in wasPublic

(* What is undone stays undone: a follow or mute removed while its owner has no
   call about it under way does not come back before the owner asks again, and
   one who was taken off a close-friends list, by a call that had no rival,
   does not see close-friends stories before being put on it again. *)
UndoneStaysUndone ==
  \A x \in settled :
    IF x[1] = "close" THEN ~IsOnCloseFriendsList(x[2], x[3])
    ELSE EdgesFrom(x[1], x[2], x[3]) = {}

(* Edges appear and change only in a call of the user they come from, nobody
   is made to follow or mute; isAccepted is fixed when the follow is made, no
   call accepts a pending one. *)
EdgesAreTheirOwners ==
  [][\A e \in edges' \ edges :
       \E r \in Request :
         /\ At(r, "insert") \/ At(r, "update")
         /\ req[r].user = e.from /\ req[r].peer = e.to
         /\ \A d \in edges : d.id = e.id =>
              ("isAccepted" \in d.flags <=> "isAccepted" \in e.flags)]_vars

(* "neither party keeps a stale follow after a block" *)
BlockSeversFollows ==
  \A b \in blocks :
    EdgesFrom("follow", b[1], b[2]) \cup EdgesFrom("follow", b[2], b[1]) = {}
=============================================================================
