------------------------- MODULE SocialGraphProofs -------------------------
(***************************************************************************)
(* Safety of SocialGraph for every set of users and calls.                 *)
(***************************************************************************)
EXTENDS SocialGraph, TLAPS

(* The statements a call of each kind awaits. *)
Stages(op) ==
  CASE op = "none"   -> {"idle"}
    [] op = "follow" -> {"checkBlock", "find", "insert", "notify", "done", "failed"}
    [] op = "close"  -> {"select", "update", "insert", "done", "failed"}
    [] op = "mute"   -> {"find", "insert", "select", "update", "done", "failed"}
    [] op = "block"  -> {"findBlock", "insertBlock", "done", "failed"}

TableOf(op) == IF op = "mute" THEN "mute" ELSE "follow"

Flags(table) == IF table = "follow" THEN {"isAccepted", "isCloseFriend"}
                                    ELSE {"mutePosts", "muteStories"}

(* A row, or a copy of one in memory, is that of the call which first inserted
   it, and was accepted by that call or never. *)
RowAgrees(e) ==
  /\ e \in Edge
  /\ req[e.id].op = e.table /\ req[e.id].user = e.from /\ req[e.id].peer = e.to
  /\ e.from # e.to /\ e.flags \subseteq Flags(e.table)
  /\ e.id \notin walled
  /\ e.table = "follow" => ("isAccepted" \in e.flags <=> "isAccepted" \in req[e.id].edge.flags)

(* The edge a follow has in memory, from its first statement on. *)
FollowAgrees(r) ==
  LET q == req[r]
  IN  /\ q.edge \in Edge
      /\ q.edge.table = "follow" /\ q.edge.id = r
      /\ q.edge.from = q.user /\ q.edge.to = q.peer
      /\ q.edge.flags \subseteq {"isAccepted"}
      /\ "isAccepted" \in q.edge.flags => r \in wasPublic

HandlerAgrees(r) ==
  LET q == req[r]
  IN  /\ q.pc \in Stages(q.op)
      /\ q.pc \in Running => q.user \in User /\ q.peer \in User /\ q.user # q.peer
      /\ q.op = "follow" => FollowAgrees(r)
      /\ q.pc \in {"find", "insert", "select", "update"} =>
           /\ RowAgrees(q.edge) /\ q.edge.table = TableOf(q.op)
           /\ q.edge.from = q.user /\ q.edge.to = q.peer
      /\ q.op = "close" /\ q.pc = "update" => q.columns = {"isCloseFriend"}

WallAgrees(r) ==
  /\ req[r].op = "follow" /\ req[r].pc \in {"checkBlock", "failed"}
  /\ \/ <<req[r].user, req[r].peer>> \in blocks
     \/ <<req[r].peer, req[r].user>> \in blocks

(* What is undone is not in the tables, and no call is about to redo it. *)
RowsUndone(what, u, v) ==
  IF what = "close"
  THEN u # v /\ \A e \in EdgesFrom("follow", u, v) : "isCloseFriend" \notin e.flags
  ELSE EdgesFrom(what, u, v) = {}

Redoes(what, q) ==
  CASE what = "close"  -> q.op = "close" /\ "isCloseFriend" \in q.edge.flags
    [] what = "follow" -> q.op \in {"follow", "close"}
    [] what = "mute"   -> q.op = "mute"

CallsUndone(what, u, v) ==
  \A r \in Request :
    req[r].pc \in Running /\ req[r].user = u /\ req[r].peer = v => ~Redoes(what, req[r])

UndoneAgrees(what, u, v) == RowsUndone(what, u, v) /\ CallsUndone(what, u, v)

(* The inductive invariant: tables, handlers and history agree. *)
Coherent ==
  /\ OneEdgePerPair
  /\ \A e \in edges : RowAgrees(e)
  /\ \A r \in Request : HandlerAgrees(r)
  /\ \A r \in walled : WallAgrees(r)
  /\ \A x \in settled : UndoneAgrees(x[1], x[2], x[3])

Inv == TypeOK /\ Coherent

-----------------------------------------------------------------------------
(* What a statement does to the calls *)

Only(r) == \A x \in Request : x # r => req'[x] = req[x]

SameCall(r) ==
  /\ req'[r].op = req[r].op /\ req'[r].user = req[r].user /\ req'[r].peer = req[r].peer

SameCopy(r) == SameCall(r) /\ req'[r].edge = req[r].edge /\ req'[r].columns = req[r].columns

LEMMA GoToMoves ==
  ASSUME TypeOK, NEW r \in Request, NEW pc, GoTo(r, pc)
  PROVE  Only(r) /\ SameCopy(r) /\ req'[r].pc = pc
BY DEF TypeOK, GoTo, Only, SameCall, SameCopy, Req

LEMMA BeginMoves ==
  ASSUME TypeOK, NEW r \in Request, NEW op, NEW pc, NEW u, NEW v, NEW e,
         Begin(r, op, pc, u, v, e)
  PROVE  /\ Only(r) /\ req[r].pc = "idle" /\ req'[r].op = op /\ req'[r].pc = pc
         /\ req'[r].user = u /\ req'[r].peer = v /\ req'[r].edge = e
         /\ req'[r].columns = req[r].columns
BY DEF TypeOK, Begin, At, Only, Req

LEMMA FindMoves ==
  ASSUME TypeOK, NEW r \in Request, Find(r)
  PROVE  /\ Only(r) /\ SameCall(r) /\ req[r].pc = "find" /\ req'[r].columns = req[r].columns
         /\ \/ req'[r].pc = "insert" /\ SameCopy(r)
            \/ req'[r].pc = "done" /\ SameCopy(r)
            \/ /\ req'[r].pc = "select" /\ req[r].op # "follow"
               /\ \E e \in EdgesFrom(req[r].edge.table, req[r].user, req[r].peer) :
                    req'[r].edge = [e EXCEPT !.flags = req[r].edge.flags]
<1>1. ASSUME NEW e, req' = [req EXCEPT ![r].pc = "select", ![r].edge = e]
      PROVE  /\ Only(r) /\ SameCall(r) /\ req'[r].columns = req[r].columns
             /\ req'[r].pc = "select" /\ req'[r].edge = e
  BY <1>1 DEF TypeOK, Only, SameCall, Req
<1>2. \/ GoTo(r, "insert")
      \/ GoTo(r, "done")
      \/ /\ req[r].op # "follow"
         /\ \E e \in EdgesFrom(req[r].edge.table, req[r].user, req[r].peer) :
              req' = [req EXCEPT ![r].pc = "select",
                                 ![r].edge = [e EXCEPT !.flags = req[r].edge.flags]]
  BY DEF Find
<1>3. At(r, "find")
  BY DEF Find
<1>4. QED
  BY <1>1, <1>2, <1>3, GoToMoves, ZenonT(60) DEF At, SameCopy

(* The columns in which a row differs from a copy. *)
Differ(e, f) == (e.flags \ f.flags) \cup (f.flags \ e.flags)

LEMMA SelectMoves ==
  ASSUME TypeOK, NEW r \in Request, Select(r)
  PROVE  /\ Only(r) /\ SameCall(r) /\ req[r].pc = "select" /\ req'[r].edge = req[r].edge
         /\ \/ req'[r].pc = "insert" /\ SameCopy(r) /\ settled' = settled
            \/ \E e \in edges :
                 /\ e.id = req[r].edge.id
                 /\ \/ /\ Differ(e, req[r].edge) = {} /\ req'[r].pc = "done"
                       /\ SameCopy(r) /\ SettleClose(r)
                    \/ /\ Differ(e, req[r].edge) # {} /\ req'[r].pc = "update"
                       /\ settled' = settled /\ req'[r].columns = Differ(e, req[r].edge)
<1>1. ASSUME NEW c, req' = [req EXCEPT ![r].pc = "update", ![r].columns = c]
      PROVE  /\ Only(r) /\ SameCall(r) /\ req'[r].edge = req[r].edge
             /\ req'[r].pc = "update" /\ req'[r].columns = c
  BY <1>1 DEF TypeOK, Only, SameCall, Req
<1>2. \/ GoTo(r, "insert") /\ settled' = settled
      \/ \E e \in edges :
           /\ e.id = req[r].edge.id
           /\ \/ Differ(e, req[r].edge) = {} /\ GoTo(r, "done") /\ SettleClose(r)
              \/ /\ Differ(e, req[r].edge) # {}
                 /\ req' = [req EXCEPT ![r].pc = "update",
                                       ![r].columns = Differ(e, req[r].edge)]
                 /\ settled' = settled
  BY DEF Select, Differ
<1>3. At(r, "select")
  BY DEF Select
<1>4. CASE GoTo(r, "insert") /\ settled' = settled
  BY <1>3, <1>4, GoToMoves DEF At, SameCopy
<1>5. ASSUME NEW e \in edges, Differ(e, req[r].edge) = {}, GoTo(r, "done")
      PROVE  Only(r) /\ SameCopy(r) /\ req'[r].pc = "done"
  BY <1>5, GoToMoves
<1>6. QED
  BY <1>1, <1>2, <1>3, <1>4, <1>5 DEF At, SameCopy

-----------------------------------------------------------------------------
(* Type correctness *)

LEMMA ReqStep ==
  ASSUME TypeOK, NEW r \in Request, NEW q \in Req, req' = [req EXCEPT ![r] = q]
  PROVE  req' \in [Request -> Req]
BY DEF TypeOK

LEMMA BeginType ==
  ASSUME TypeOK, NEW r \in Request, NEW op \in {"follow", "close", "mute", "block"},
         NEW pc \in Running \cup {"failed"}, NEW u \in User, NEW v \in User,
         NEW e \in Edge \cup {None}, Begin(r, op, pc, u, v, e)
  PROVE  req' \in [Request -> Req]
<1> DEFINE q == [req[r] EXCEPT !.op = op, !.pc = pc, !.user = u, !.peer = v, !.edge = e]
<1>1. req[r] \in Req
  BY DEF TypeOK
<1>2. q \in Req
  BY <1>1 DEF Req
<1>3. req' = [req EXCEPT ![r] = q]
  BY DEF TypeOK, Begin
<1>4. QED
  BY <1>2, <1>3, ReqStep

LEMMA GoToType ==
  ASSUME TypeOK, NEW r \in Request, NEW pc \in Running \cup {"done", "failed"}, GoTo(r, pc)
  PROVE  req' \in [Request -> Req]
<1>1. req[r] \in Req /\ req' = [req EXCEPT ![r] = [req[r] EXCEPT !.pc = pc]]
  BY DEF TypeOK, GoTo
<1>2. [req[r] EXCEPT !.pc = pc] \in Req
  BY <1>1 DEF Req
<1>3. QED
  BY <1>1, <1>2, ReqStep

(* The row of another edge with other flags is a row. *)
LEMMA FlagsType ==
  ASSUME NEW e \in Edge, NEW flags \in SUBSET Flag
  PROVE  [e EXCEPT !.flags = flags] \in Edge
BY DEF Edge

LEMMA CopyType ==
  ASSUME Inv, NEW r \in Request, req[r].pc \in {"find", "insert", "select", "update"}
  PROVE  req[r].edge \in Edge /\ req[r].edge.flags \in SUBSET Flag
BY DEF Inv, Coherent, HandlerAgrees, RowAgrees, Edge

LEMMA TypeOKStep == Inv /\ [Next]_vars => TypeOK'
<1> SUFFICES ASSUME Inv, [Next]_vars PROVE TypeOK'
  OBVIOUS
<1>a. TypeOK
  BY DEF Inv
<1>1. ASSUME NEW r \in Request, NEW u \in User, NEW v \in User, Follow(r, u, v)
      PROVE  TypeOK'
  <2>1. [table |-> "follow", id |-> r, from |-> u, to |-> v, flags |-> InitialFlags(v)] \in Edge
    BY DEF Edge, Table, Flag, InitialFlags
  <2>2. req' \in [Request -> Req]
    BY <1>a, <1>1, <2>1, BeginType DEF Follow, Running
  <2>3. QED
    BY <1>a, <1>1, <2>2 DEF TypeOK, Follow
<1>2. ASSUME NEW r \in Request, NEW u \in User, NEW v \in User, Block(r, u, v)
      PROVE  TypeOK'
  <2>1. req' \in [Request -> Req]
    BY <1>a, <1>2, BeginType DEF Block, Running
  <2>2. QED
    BY <1>a, <1>2, <2>1 DEF TypeOK, Block
<1>3. ASSUME NEW r \in Request, NEW u \in User, NEW v \in User, NEW isClose \in BOOLEAN,
             ToggleCloseFriend(r, u, v, isClose)
      PROVE  TypeOK'
  <2> DEFINE flags(e) == IF isClose THEN e.flags \cup {"isCloseFriend"}
                                    ELSE e.flags \ {"isCloseFriend"}
  <2>1. ASSUME NEW e \in edges, Begin(r, "close", "select", u, v, [e EXCEPT !.flags = flags(e)])
        PROVE  req' \in [Request -> Req]
    <3>1. e \in Edge /\ flags(e) \in SUBSET Flag
      BY <1>a DEF TypeOK, Edge, Flag
    <3>2. [e EXCEPT !.flags = flags(e)] \in Edge
      BY <3>1, FlagsType
    <3> HIDE DEF flags
    <3>3. QED
      BY <1>a, <2>1, <3>2, BeginType DEF Running
  <2>2. ASSUME Begin(r, "close", "failed", u, v, None)
        PROVE  req' \in [Request -> Req]
    BY <1>a, <2>2, BeginType
  <2>3. \/ \E e \in edges : Begin(r, "close", "select", u, v, [e EXCEPT !.flags = flags(e)])
        \/ Begin(r, "close", "failed", u, v, None)
    BY <1>3, Zenon DEF ToggleCloseFriend, EdgesFrom
  <2>5. req' \in [Request -> Req]
    BY <2>1, <2>2, <2>3
  <2>4. QED
    BY <1>a, <1>3, <2>5 DEF TypeOK, ToggleCloseFriend
<1>4. ASSUME NEW r \in Request, NEW u \in User, NEW v \in User,
             NEW flags \in SUBSET {"mutePosts", "muteStories"}, Mute(r, u, v, flags)
      PROVE  TypeOK'
  <2>1. [table |-> "mute", id |-> r, from |-> u, to |-> v, flags |-> flags] \in Edge
    BY DEF Edge, Table, Flag
  <2>2. req' \in [Request -> Req]
    BY <1>a, <1>4, <2>1, BeginType DEF Mute, Running
  <2>3. QED
    BY <1>a, <1>4, <2>2 DEF TypeOK, Mute
<1>5. ASSUME NEW r \in Request, CheckBlock(r) \/ Notify(r) \/ FindBlock(r) \/ Fail(r)
      PROVE  TypeOK'
  <2>1. PICK pc \in Running \cup {"done", "failed"} : GoTo(r, pc)
    BY <1>5 DEF CheckBlock, Notify, FindBlock, Fail, Running
  <2>2. req' \in [Request -> Req]
    BY <1>a, <2>1, GoToType
  <2>3. QED
    BY <1>a, <1>5, <2>2 DEF TypeOK, CheckBlock, Notify, FindBlock, Fail
<1>6. ASSUME NEW r \in Request, Find(r)
      PROVE  TypeOK'
  <2>1. ASSUME NEW e \in edges,
               req' = [req EXCEPT ![r].pc = "select",
                                  ![r].edge = [e EXCEPT !.flags = req[r].edge.flags]]
        PROVE  req' \in [Request -> Req]
    <3> DEFINE f == [e EXCEPT !.flags = req[r].edge.flags]
    <3>1. f \in Edge
      BY <1>6, <1>a, CopyType, FlagsType DEF Find, At, TypeOK
    <3>2. req' = [req EXCEPT ![r] = [req[r] EXCEPT !.pc = "select", !.edge = f]]
      BY <1>a, <2>1 DEF TypeOK
    <3> HIDE DEF f
    <3>3. [req[r] EXCEPT !.pc = "select", !.edge = f] \in Req
      BY <1>a, <3>1, ZenonT(60) DEF TypeOK, Req, Running
    <3>4. QED
      BY <1>a, <3>2, <3>3, ReqStep
  <2>2. ASSUME NEW pc \in {"insert", "done"}, GoTo(r, pc)
        PROVE  req' \in [Request -> Req]
    BY <1>a, <2>2, GoToType DEF Running
  <2>3. req' \in [Request -> Req]
    BY <1>6, <2>1, <2>2 DEF Find, EdgesFrom
  <2>4. QED
    BY <1>a, <1>6, <2>3 DEF TypeOK, Find
<1>7. ASSUME NEW r \in Request, Insert(r)
      PROVE  TypeOK'
  <2>1. req[r].edge \in Edge
    BY <1>7, CopyType DEF Insert, At
  <2>2. PICK pc \in Running \cup {"done", "failed"} : GoTo(r, pc)
    BY <1>7 DEF Insert, Running
  <2>3. req' \in [Request -> Req]
    BY <1>a, <2>2, GoToType
  <2>4. QED
    BY <1>a, <1>7, <2>1, <2>3 DEF TypeOK, Insert
<1>c. ASSUME NEW r \in Request, SettleClose(r), req[r].user \in User, req[r].peer \in User
      PROVE  settled' \subseteq (Table \cup {"close"}) \X User \X User
  BY <1>a, <1>c DEF TypeOK, SettleClose
<1>8. ASSUME NEW r \in Request, Select(r)
      PROVE  TypeOK'
  <2>1. req[r].user \in User /\ req[r].peer \in User /\ req[r].edge.flags \in SUBSET Flag
    BY <1>8, CopyType DEF Inv, Coherent, HandlerAgrees, Select, At, Running
  <2>2. ASSUME NEW e \in edges,
               req' = [req EXCEPT ![r].pc = "update", ![r].columns = Differ(e, req[r].edge)]
        PROVE  req' \in [Request -> Req]
    <3> DEFINE c == Differ(e, req[r].edge)
    <3>1. c \in SUBSET Flag
      BY <1>a, <2>1 DEF TypeOK, Edge, Differ
    <3>2. req' = [req EXCEPT ![r] = [req[r] EXCEPT !.pc = "update", !.columns = c]]
      BY <1>a, <2>2 DEF TypeOK
    <3> HIDE DEF c
    <3>3. [req[r] EXCEPT !.pc = "update", !.columns = c] \in Req
      BY <1>a, <3>1, ZenonT(60) DEF TypeOK, Req, Running
    <3>4. QED
      BY <1>a, <3>2, <3>3, ReqStep
  <2>3. ASSUME NEW pc \in {"insert", "done"}, GoTo(r, pc)
        PROVE  req' \in [Request -> Req]
    BY <1>a, <2>3, GoToType DEF Running
  <2>4. req' \in [Request -> Req] /\ (settled' = settled \/ SettleClose(r))
    BY <1>8, <2>2, <2>3 DEF Select, Differ
  <2>5. settled' \subseteq (Table \cup {"close"}) \X User \X User
    BY <1>a, <1>c, <2>1, <2>4 DEF TypeOK
  <2>6. QED
    BY <1>a, <1>8, <2>4, <2>5 DEF TypeOK, Select
<1>9. ASSUME NEW r \in Request, Update(r)
      PROVE  TypeOK'
  <2> DEFINE q == req[r]
             updated(e) == IF e.id = q.edge.id
                           THEN [e EXCEPT !.flags = (@ \ q.columns) \cup (q.columns \cap q.edge.flags)]
                           ELSE e
  <2>1. q.user \in User /\ q.peer \in User /\ q.edge.flags \in SUBSET Flag
    BY <1>9, CopyType DEF Inv, Coherent, HandlerAgrees, Update, At, Running
  <2>2. \A e \in edges : updated(e) \in Edge
    <3>1. ASSUME NEW e \in edges
          PROVE  [e EXCEPT !.flags = (e.flags \ q.columns) \cup (q.columns \cap q.edge.flags)] \in Edge
      BY <1>a, <2>1, FlagsType DEF TypeOK, Edge
    <3>2. QED
      BY <1>a, <3>1 DEF TypeOK
  <2>3. edges' = {updated(e) : e \in edges}
    BY <1>9, Zenon DEF Update
  <2> HIDE DEF updated
  <2>4. edges' \subseteq Edge
    BY <2>2, <2>3
  <2>5. req' \in [Request -> Req]
    BY <1>a, <1>9, GoToType DEF Update
  <2>6. settled' \subseteq (Table \cup {"close"}) \X User \X User
    BY <1>9, <1>c, <2>1 DEF Update
  <2>7. QED
    BY <1>a, <1>9, <2>4, <2>5, <2>6 DEF TypeOK, Update
<1>10. ASSUME NEW r \in Request, InsertBlock(r)
       PROVE  TypeOK'
  <2>1. req[r].user \in User /\ req[r].peer \in User
    BY <1>10 DEF Inv, Coherent, HandlerAgrees, InsertBlock, At, Running
  <2>2. req' \in [Request -> Req]
    BY <1>a, <1>10, GoToType DEF InsertBlock
  <2>3. QED
    BY <1>a, <1>10, <2>1, <2>2 DEF TypeOK, InsertBlock
<1>11. ASSUME NEW u \in User, NEW v \in User, Unblock(u, v)
       PROVE  TypeOK'
  BY <1>a, <1>11 DEF TypeOK, Unblock
<1>12. ASSUME NEW t \in Table, NEW u \in User, NEW v \in User, RemoveEdge(t, u, v)
       PROVE  TypeOK'
  BY <1>a, <1>12 DEF TypeOK, RemoveEdge
<1>13. ASSUME NEW v \in User, NEW on \in BOOLEAN, SetPrivate(v, on)
       PROVE  TypeOK'
  BY <1>a, <1>13 DEF TypeOK, SetPrivate
<1>14. CASE UNCHANGED vars
  BY <1>a, <1>14 DEF TypeOK, vars
<1>15. QED
  BY <1>1, <1>2, <1>3, <1>4, <1>5, <1>6, <1>7, <1>8, <1>9, <1>10, <1>11, <1>12, <1>13, <1>14
     DEF Next, Call, Step

-----------------------------------------------------------------------------
(* What no step undoes *)

CallsStay ==
  \A x \in Request : req[x].op # "none" =>
    /\ SameCall(x)
    /\ req[x].op = "follow" => req'[x].edge = req[x].edge

(* Only a follow that begins is walled anew. *)
WallsStay == \A x \in walled' : x \in walled \/ req[x].op = "none"

LEMMA IdleIsNew ==
  ASSUME Inv, NEW r \in Request, req[r].pc = "idle"
  PROVE  req[r].op = "none"
BY DEF Inv, TypeOK, Req, Coherent, HandlerAgrees, Stages

(* The copy that toggleCloseFriend takes of a follow, with its flag set. *)
WithClose(e, isClose) ==
  [e EXCEPT !.flags = IF isClose THEN e.flags \cup {"isCloseFriend"}
                                 ELSE e.flags \ {"isCloseFriend"}]

LEMMA ToggleMoves ==
  ASSUME TypeOK, NEW r \in Request, NEW u \in User, NEW v \in User, NEW isClose \in BOOLEAN,
         ToggleCloseFriend(r, u, v, isClose)
  PROVE  /\ Only(r) /\ req[r].pc = "idle" /\ req'[r].op = "close"
         /\ req'[r].user = u /\ req'[r].peer = v
         /\ \/ /\ req'[r].pc = "select"
               /\ \E e \in EdgesFrom("follow", u, v) : req'[r].edge = WithClose(e, isClose)
            \/ req'[r].pc = "failed"
<1>1. ASSUME NEW e \in EdgesFrom("follow", u, v),
             Begin(r, "close", "select", u, v, WithClose(e, isClose))
      PROVE  /\ Only(r) /\ req[r].pc = "idle" /\ req'[r].op = "close"
             /\ req'[r].user = u /\ req'[r].peer = v
             /\ req'[r].pc = "select" /\ req'[r].edge = WithClose(e, isClose)
  BY <1>1, BeginMoves
<1>2. ASSUME Begin(r, "close", "failed", u, v, None)
      PROVE  /\ Only(r) /\ req[r].pc = "idle" /\ req'[r].op = "close"
             /\ req'[r].user = u /\ req'[r].peer = v /\ req'[r].pc = "failed"
  BY <1>2, BeginMoves
<1>3. \/ \E e \in EdgesFrom("follow", u, v) :
           Begin(r, "close", "select", u, v, WithClose(e, isClose))
      \/ Begin(r, "close", "failed", u, v, None)
  BY Zenon DEF ToggleCloseFriend, WithClose
<1>4. QED
  BY <1>1, <1>2, <1>3

LEMMA CallMoves ==
  ASSUME TypeOK, NEW r \in Request, Call(r)
  PROVE  Only(r) /\ req[r].pc = "idle"
<1>1. ASSUME NEW op, NEW pc, NEW u, NEW v, NEW e, Begin(r, op, pc, u, v, e)
      PROVE  Only(r) /\ req[r].pc = "idle"
  BY <1>1, BeginMoves
<1>2. ASSUME NEW u \in User, NEW v \in User, Follow(r, u, v)
      PROVE  Only(r) /\ req[r].pc = "idle"
  BY <1>1, <1>2 DEF Follow
<1>3. ASSUME NEW u \in User, NEW v \in User, Block(r, u, v)
      PROVE  Only(r) /\ req[r].pc = "idle"
  BY <1>1, <1>3 DEF Block
<1>4. ASSUME NEW u \in User, NEW v \in User, NEW flags, Mute(r, u, v, flags)
      PROVE  Only(r) /\ req[r].pc = "idle"
  BY <1>1, <1>4 DEF Mute
<1>5. QED
  BY <1>2, <1>3, <1>4, ToggleMoves DEF Call

(* No statement of a call changes what the call is, or the row of a follow. *)
LEMMA StepMoves ==
  ASSUME TypeOK, NEW r \in Request, Step(r) \/ Fail(r)
  PROVE  /\ Only(r) /\ SameCall(r)
         /\ req[r].op = "follow" => req'[r].edge = req[r].edge
<1>1. ASSUME NEW pc, GoTo(r, pc)
      PROVE  Only(r) /\ SameCall(r) /\ req'[r].edge = req[r].edge
  BY <1>1, GoToMoves DEF SameCopy
<1>2. QED
  BY <1>1, FindMoves, SelectMoves
     DEF Step, CheckBlock, Insert, Notify, Update, FindBlock, InsertBlock, Fail, SameCopy

LEMMA CallsAlwaysStay == Inv /\ [Next]_vars => CallsStay
<1> SUFFICES ASSUME Inv, [Next]_vars PROVE CallsStay
  OBVIOUS
<1>1. ASSUME NEW r \in Request, Call(r)
      PROVE  CallsStay
  BY <1>1, CallMoves, IdleIsNew DEF Inv, CallsStay, SameCall, Only
<1>2. ASSUME NEW r \in Request, Step(r) \/ Fail(r)
      PROVE  CallsStay
  BY <1>2, StepMoves DEF Inv, CallsStay, SameCall, Only
<1>3. CASE req' = req
  BY <1>3 DEF CallsStay, SameCall
<1>4. QED
  BY <1>1, <1>2, <1>3 DEF Next, Unblock, RemoveEdge, SetPrivate, vars

LEMMA StepsKeep ==
  ASSUME NEW r \in Request, Step(r) \/ Fail(r)
  PROVE  UNCHANGED <<private, walled, wasPublic>>
BY DEF Step, CheckBlock, Find, Insert, Notify, Select, Update, FindBlock, InsertBlock, Fail

LEMMA WallsAlwaysStay == Inv /\ [Next]_vars => WallsStay
<1> SUFFICES ASSUME Inv, [Next]_vars PROVE WallsStay
  OBVIOUS
<1>1. ASSUME NEW r \in Request, NEW u \in User, NEW v \in User, Follow(r, u, v)
      PROVE  WallsStay
  <2>1. req[r].op = "none"
    BY <1>1, IdleIsNew DEF Follow, Begin, At
  <2>2. QED
    BY <1>1, <2>1 DEF WallsStay, Follow
<1>2. CASE walled' \subseteq walled
  BY <1>2 DEF WallsStay
<1>3. ASSUME NEW r \in Request, Call(r), walled' # walled
      PROVE  \E u, v \in User : Follow(r, u, v)
  BY <1>3 DEF Call, Block, ToggleCloseFriend, Mute
<1>4. ASSUME NEW u \in User, NEW v \in User, Unblock(u, v)
      PROVE  walled' \subseteq walled
  BY <1>4 DEF Unblock
<1>5. QED
  BY <1>1, <1>2, <1>3, <1>4, StepsKeep DEF Next, RemoveEdge, SetPrivate, vars

LEMMA PublicStays == [Next]_vars => wasPublic \subseteq wasPublic'
<1> SUFFICES ASSUME [Next]_vars PROVE wasPublic \subseteq wasPublic'
  OBVIOUS
<1>1. ASSUME NEW r \in Request, Call(r)
      PROVE  wasPublic \subseteq wasPublic'
  BY <1>1 DEF Call, Follow, Block, ToggleCloseFriend, Mute
<1>2. ASSUME NEW v \in User, NEW on \in BOOLEAN, SetPrivate(v, on)
      PROVE  wasPublic \subseteq wasPublic'
  BY <1>2 DEF SetPrivate
<1>3. QED
  BY <1>1, <1>2, StepsKeep DEF Next, RemoveEdge, Unblock, vars

(* A row, or a copy of one, agrees with the call that first inserted it for good. *)
LEMMA RowsStay ==
  ASSUME CallsStay, WallsStay, NEW e, RowAgrees(e)
  PROVE  RowAgrees(e)'
<1>1. /\ e \in Edge /\ e.id \in Request /\ req[e.id].op # "none"
      /\ req[e.id].op = e.table
  BY DEF RowAgrees, Edge, Table
<1>2. SameCall(e.id) /\ (e.table = "follow" => req'[e.id].edge = req[e.id].edge)
  BY <1>1 DEF CallsStay
<1>3. e.id \notin walled'
  BY <1>1 DEF RowAgrees, WallsStay
<1>4. QED
  BY <1>2, <1>3 DEF RowAgrees, SameCall

(* A copy whose flags were changed still agrees, if isAccepted is as it was. *)
LEMMA CopyAgrees ==
  ASSUME NEW e, RowAgrees(e), NEW flags \in SUBSET Flags(e.table),
         "isAccepted" \in flags <=> "isAccepted" \in e.flags
  PROVE  RowAgrees([e EXCEPT !.flags = flags])
<1> DEFINE f == [e EXCEPT !.flags = flags]
<1>1. e \in Edge /\ flags \in SUBSET Flag
  BY DEF RowAgrees, Flags, Flag
<1>2. /\ f \in Edge /\ f.id = e.id /\ f.table = e.table /\ f.from = e.from /\ f.to = e.to
      /\ f.flags = flags
  BY <1>1, FlagsType DEF Edge
<1> HIDE DEF f
<1>3. f.flags \subseteq Flags(f.table)
  BY <1>2
<1>4. RowAgrees(f)
  BY <1>2, <1>3 DEF RowAgrees
<1>5. QED
  BY <1>4 DEF f

-----------------------------------------------------------------------------
(* The tables follows and mutes *)

(* The row d after the second half of the save of r. *)
Updated(r, d) ==
  IF d.id = req[r].edge.id
  THEN [d EXCEPT !.flags = (d.flags \ req[r].columns)
                             \cup (req[r].columns \cap req[r].edge.flags)]
  ELSE d

LEMMA UpdatedRow ==
  ASSUME Inv, NEW r \in Request, req[r].pc = "update", NEW d \in edges
  PROVE  /\ RowAgrees(Updated(r, d)) /\ Updated(r, d).id = d.id
         /\ Updated(r, d).table = d.table
         /\ Updated(r, d).from = d.from /\ Updated(r, d).to = d.to
         /\ d.id = req[r].edge.id =>
              Updated(r, d).flags = (d.flags \ req[r].columns)
                                      \cup (req[r].columns \cap req[r].edge.flags)
<1> DEFINE flags == (d.flags \ req[r].columns) \cup (req[r].columns \cap req[r].edge.flags)
<1>1. RowAgrees(d) /\ RowAgrees(req[r].edge)
  BY DEF Inv, Coherent, HandlerAgrees
<1>2. CASE d.id = req[r].edge.id
  <2>1. d.table = req[r].edge.table
    BY <1>1, <1>2 DEF RowAgrees
  <2>2. d.table \in Table
    BY <1>1 DEF RowAgrees, Edge
  <2>3. "isAccepted" \in d.flags <=> "isAccepted" \in req[r].edge.flags
    BY <1>1, <1>2, <2>1, <2>2 DEF RowAgrees, Flags, Table
  <2>4. flags \in SUBSET Flags(d.table)
    BY <1>1, <2>1 DEF RowAgrees
  <2>5. "isAccepted" \in flags <=> "isAccepted" \in d.flags
    BY <2>3
  <2>6. Updated(r, d) = [d EXCEPT !.flags = flags]
    BY <1>2 DEF Updated
  <2> HIDE DEF flags
  <2>7. RowAgrees(Updated(r, d))
    BY <1>1, <2>4, <2>5, <2>6, CopyAgrees
  <2>8. /\ Updated(r, d).id = d.id /\ Updated(r, d).table = d.table
        /\ Updated(r, d).from = d.from /\ Updated(r, d).to = d.to
        /\ Updated(r, d).flags = flags
    BY <1>1, <2>6 DEF RowAgrees, Edge
  <2>9. QED
    BY <2>7, <2>8 DEF flags
<1>3. CASE d.id # req[r].edge.id
  BY <1>1, <1>3 DEF Updated
<1>4. QED
  BY <1>2, <1>3

Inserts(r) ==
  /\ req[r].pc = "insert"
  /\ EdgesFrom(req[r].edge.table, req[r].user, req[r].peer) = {}
  /\ edges' = edges \cup {req[r].edge}

Updates(r) == req[r].pc = "update" /\ edges' = {Updated(r, d) : d \in edges}

LEMMA UpdateUpdates ==
  ASSUME NEW r \in Request, Update(r)
  PROVE  Updates(r)
BY Zenon DEF Update, At, Updates, Updated

(* A step removes rows, inserts one of a pair that has none, or updates one. *)
LEMMA EdgesMove ==
  ASSUME [Next]_vars
  PROVE  edges' \subseteq edges \/ \E r \in Request : Inserts(r) \/ Updates(r)
<1>1. ASSUME NEW r \in Request, Call(r)
      PROVE  edges' = edges
  BY <1>1 DEF Call, Follow, Block, ToggleCloseFriend, Mute
<1>2. ASSUME NEW r \in Request, Insert(r)
      PROVE  edges' = edges \/ Inserts(r)
  BY <1>2 DEF Insert, At, Inserts
<1>3. ASSUME NEW r \in Request, Step(r) \/ Fail(r), ~Insert(r), ~Update(r)
      PROVE  edges' = edges
  BY <1>3 DEF Step, CheckBlock, Find, Notify, Select, FindBlock, InsertBlock, Fail
<1>4. ASSUME NEW r \in Request, Step(r) \/ Fail(r)
      PROVE  edges' = edges \/ Inserts(r) \/ Updates(r)
  BY <1>2, <1>3, <1>4, UpdateUpdates
<1>5. ASSUME NEW u \in User, NEW v \in User, NEW t \in Table, RemoveEdge(t, u, v)
      PROVE  edges' \subseteq edges
  BY <1>5 DEF RemoveEdge
<1>6. QED
  BY <1>1, <1>4, <1>5 DEF Next, Unblock, SetPrivate, vars

LEMMA RowsStep == Inv /\ [Next]_vars => \A e \in edges' : RowAgrees(e)'
<1> SUFFICES ASSUME Inv, [Next]_vars PROVE \A e \in edges' : RowAgrees(e)'
  OBVIOUS
<1>1. \A e : RowAgrees(e) => RowAgrees(e)'
  BY CallsAlwaysStay, WallsAlwaysStay, RowsStay
<1>2. \A e \in edges : RowAgrees(e)
  BY DEF Inv, Coherent
<1>3. CASE edges' \subseteq edges
  BY <1>1, <1>2, <1>3
<1>4. ASSUME NEW r \in Request, Inserts(r)
      PROVE  \A e \in edges' : RowAgrees(e)'
  <2>1. RowAgrees(req[r].edge)
    BY <1>4 DEF Inv, Coherent, HandlerAgrees, Inserts
  <2>2. \A e \in edges' : RowAgrees(e)
    BY <1>2, <1>4, <2>1 DEF Inserts
  <2>3. QED
    BY <1>1, <2>2
<1>5. ASSUME NEW r \in Request, Updates(r)
      PROVE  \A e \in edges' : RowAgrees(e)'
  <2>1. \A d \in edges : RowAgrees(Updated(r, d))
    BY <1>5, UpdatedRow DEF Updates
  <2>2. \A e \in edges' : RowAgrees(e)
    BY <1>5, <2>1 DEF Updates
  <2>3. QED
    BY <1>1, <2>2
<1>6. QED
  BY <1>3, <1>4, <1>5, EdgesMove

LEMMA OneEdgeStep == Inv /\ [Next]_vars => OneEdgePerPair'
<1> SUFFICES ASSUME Inv, [Next]_vars PROVE OneEdgePerPair'
  OBVIOUS
<1>1. \A e \in edges' : e.from # e.to
  BY RowsStep DEF RowAgrees
<1>2. \A d, e \in edges : d.table = e.table /\ d.from = e.from /\ d.to = e.to => d = e
  BY DEF Inv, Coherent, OneEdgePerPair, EdgesFrom
<1>3. CASE edges' \subseteq edges
  BY <1>1, <1>2, <1>3 DEF OneEdgePerPair, EdgesFrom
<1>4. ASSUME NEW r \in Request, Inserts(r)
      PROVE  OneEdgePerPair'
  <2> DEFINE f == req[r].edge
  <2>1. f.from = req[r].user /\ f.to = req[r].peer
    BY <1>4 DEF Inv, Coherent, HandlerAgrees, Inserts
  <2>2. \A d \in edges : ~(d.table = f.table /\ d.from = f.from /\ d.to = f.to)
    BY <1>4, <2>1 DEF Inserts, EdgesFrom
  <2>3. edges' = edges \cup {f}
    BY <1>4 DEF Inserts
  <2> HIDE DEF f
  <2>4. \A d, e \in edges' : d.table = e.table /\ d.from = e.from /\ d.to = e.to => d = e
    BY <1>2, <2>2, <2>3
  <2>5. QED
    BY <1>1, <2>4 DEF OneEdgePerPair, EdgesFrom
<1>5. ASSUME NEW r \in Request, Updates(r)
      PROVE  OneEdgePerPair'
  <2>1. \A d \in edges : /\ Updated(r, d).table = d.table /\ Updated(r, d).from = d.from
                         /\ Updated(r, d).to = d.to
    BY <1>5, UpdatedRow DEF Updates
  <2>2. \A d, e \in edges' : d.table = e.table /\ d.from = e.from /\ d.to = e.to => d = e
    BY <1>2, <1>5, <2>1 DEF Updates
  <2>3. QED
    BY <1>1, <2>2 DEF OneEdgePerPair, EdgesFrom
<1>6. QED
  BY <1>3, <1>4, <1>5, EdgesMove

-----------------------------------------------------------------------------
(* The handlers *)

LEMMA HandlerFrame ==
  ASSUME Inv, [Next]_vars, NEW r \in Request, req'[r] = req[r]
  PROVE  HandlerAgrees(r)'
<1>1. HandlerAgrees(r)
  BY DEF Inv, Coherent
<1>2. RowAgrees(req[r].edge) => \E e : e = req[r].edge /\ RowAgrees(e)'
  BY CallsAlwaysStay, WallsAlwaysStay, RowsStay
<1>3. RowAgrees(req[r].edge) => RowAgrees(req[r].edge)'
  BY <1>2
<1>4. FollowAgrees(r) => FollowAgrees(r)'
  BY PublicStays DEF FollowAgrees
<1>5. QED
  BY <1>1, <1>3, <1>4 DEF HandlerAgrees

(* What a copy must be when the lookup or the save of a call q goes on with it. *)
IsCopy(q, e) == RowAgrees(e) /\ e.table = TableOf(q.op) /\ e.from = q.user /\ e.to = q.peer

Copying == {"find", "insert", "select", "update"}

LEMMA HandlerMoved ==
  ASSUME Inv, [Next]_vars, NEW r \in Request, SameCall(r), req[r].pc \in Running,
         req'[r].pc \in Stages(req[r].op),
         req[r].op = "follow" => req'[r].edge = req[r].edge,
         NEW e, req'[r].edge = e, req'[r].pc \in Copying => IsCopy(req[r], e),
         req[r].op = "close" /\ req'[r].pc = "update" => req'[r].columns = {"isCloseFriend"}
  PROVE  HandlerAgrees(r)'
<1>1. HandlerAgrees(r)
  BY DEF Inv, Coherent
<1>2. RowAgrees(e) => RowAgrees(e)'
  BY CallsAlwaysStay, WallsAlwaysStay, RowsStay
<1>3. RowAgrees(e)' => RowAgrees(req[r].edge)'
  OBVIOUS
<1>4. req[r].op = "follow" => FollowAgrees(r)'
  BY <1>1, PublicStays DEF HandlerAgrees, FollowAgrees, SameCall
<1>5. QED
  BY <1>1, <1>2, <1>3, <1>4 DEF HandlerAgrees, IsCopy, Copying, SameCall

(* A call that has just begun. *)
LEMMA HandlerBegun ==
  ASSUME Inv, [Next]_vars, NEW r \in Request, req'[r].pc \in Stages(req'[r].op),
         req'[r].pc \in Running =>
           req'[r].user \in User /\ req'[r].peer \in User /\ req'[r].user # req'[r].peer,
         req'[r].op = "follow" => FollowAgrees(r)',
         req'[r].pc \in Copying =>
           /\ RowAgrees(req[r].edge)' /\ req'[r].edge.table = TableOf(req'[r].op)
           /\ req'[r].edge.from = req'[r].user /\ req'[r].edge.to = req'[r].peer,
         req'[r].pc # "update"
  PROVE  HandlerAgrees(r)'
BY DEF HandlerAgrees, Copying

LEMMA FollowBegun ==
  ASSUME Inv, [Next]_vars, NEW r \in Request, NEW u \in User, NEW v \in User, Follow(r, u, v)
  PROVE  HandlerAgrees(r)'
<1> DEFINE pc == IF u = v THEN "failed" ELSE "checkBlock"
           e  == [table |-> "follow", id |-> r, from |-> u, to |-> v, flags |-> InitialFlags(v)]
<1>1. Begin(r, "follow", pc, u, v, e)
  BY DEF Follow
<1>2. e \in Edge
  BY DEF Edge, Table, Flag, InitialFlags
<1>3. /\ e.table = "follow" /\ e.id = r /\ e.from = u /\ e.to = v
      /\ e.flags \subseteq {"isAccepted"}
      /\ "isAccepted" \in e.flags => r \in wasPublic'
  BY DEF Follow, InitialFlags
<1> HIDE DEF e
<1>4. /\ req'[r].op = "follow" /\ req'[r].pc = pc /\ req'[r].user = u /\ req'[r].peer = v
      /\ req'[r].edge = e
  BY <1>1, BeginMoves DEF Inv
<1>5. FollowAgrees(r)'
  BY <1>2, <1>3, <1>4 DEF FollowAgrees
<1>6. QED
  BY <1>4, <1>5, HandlerBegun DEF Stages, Copying, Running

LEMMA BlockBegun ==
  ASSUME Inv, [Next]_vars, NEW r \in Request, NEW u \in User, NEW v \in User, Block(r, u, v)
  PROVE  HandlerAgrees(r)'
<1>1. /\ req'[r].op = "block" /\ req'[r].user = u /\ req'[r].peer = v
      /\ req'[r].pc = IF u = v THEN "failed" ELSE "findBlock"
  BY BeginMoves DEF Block, Inv
<1>2. QED
  BY <1>1, HandlerBegun DEF Stages, Copying, Running

LEMMA MuteBegun ==
  ASSUME Inv, [Next]_vars, NEW r \in Request, NEW u \in User, NEW v \in User,
         NEW flags \in SUBSET {"mutePosts", "muteStories"}, Mute(r, u, v, flags)
  PROVE  HandlerAgrees(r)'
<1> DEFINE pc == IF u = v THEN "failed" ELSE "find"
           e  == [table |-> "mute", id |-> r, from |-> u, to |-> v, flags |-> flags]
<1>1. Begin(r, "mute", pc, u, v, e)
  BY DEF Mute
<1>2. e \in Edge
  BY DEF Edge, Table, Flag
<1>3. e.table = "mute" /\ e.id = r /\ e.from = u /\ e.to = v /\ e.flags = flags
  OBVIOUS
<1> HIDE DEF e
<1>4. /\ req[r].pc = "idle" /\ req'[r].op = "mute" /\ req'[r].pc = pc
      /\ req'[r].user = u /\ req'[r].peer = v /\ req'[r].edge = e
  BY <1>1, BeginMoves DEF Inv
<1>5. r \notin walled'
  BY <1>4 DEF Mute, Inv, Coherent, WallAgrees
<1>6. u # v => RowAgrees(e)'
  BY <1>2, <1>3, <1>4, <1>5 DEF RowAgrees, Flags
<1>7. u # v => RowAgrees(req[r].edge)'
  BY <1>4, <1>6
<1>8. QED
  BY <1>3, <1>4, <1>7, HandlerBegun DEF Stages, Copying, Running, TableOf

LEMMA ToggleBegun ==
  ASSUME Inv, [Next]_vars, NEW r \in Request, NEW u \in User, NEW v \in User,
         NEW isClose \in BOOLEAN, ToggleCloseFriend(r, u, v, isClose)
  PROVE  HandlerAgrees(r)'
<1>1. req'[r].op = "close" /\ req'[r].user = u /\ req'[r].peer = v
  BY ToggleMoves DEF Inv
<1>2. ASSUME NEW e \in EdgesFrom("follow", u, v), req'[r].edge = WithClose(e, isClose),
             req'[r].pc = "select"
      PROVE  HandlerAgrees(r)'
  <2> DEFINE flags == IF isClose THEN e.flags \cup {"isCloseFriend"}
                                 ELSE e.flags \ {"isCloseFriend"}
  <2>1. e.table = "follow" /\ e.from = u /\ e.to = v /\ RowAgrees(e)
    BY DEF EdgesFrom, Inv, Coherent
  <2>2. flags \in SUBSET Flags(e.table) /\ ("isAccepted" \in flags <=> "isAccepted" \in e.flags)
    BY <2>1 DEF RowAgrees, Flags
  <2>3. PICK f : f = [e EXCEPT !.flags = flags]
    OBVIOUS
  <2>4. RowAgrees(f) /\ f.table = "follow" /\ f.from = u /\ f.to = v
    <3>1. RowAgrees([e EXCEPT !.flags = flags])
      BY <2>1, <2>2, CopyAgrees
    <3>2. QED
      BY <2>1, <2>3, <3>1 DEF RowAgrees, Edge
  <2>5. req'[r].edge = f
    BY <1>2, <2>3 DEF WithClose
  <2> HIDE DEF flags
  <2>6. RowAgrees(f)'
    BY <2>4, CallsAlwaysStay, WallsAlwaysStay, RowsStay
  <2>7. RowAgrees(req[r].edge)'
    BY <2>5, <2>6
  <2>8. u # v
    BY <2>4 DEF RowAgrees
  <2>9. QED
    BY <1>1, <1>2, <2>4, <2>5, <2>7, <2>8, HandlerBegun DEF Stages, TableOf, Running
<1>3. CASE req'[r].pc = "failed"
  BY <1>1, <1>3, HandlerBegun DEF Stages, Copying, Running
<1>4. QED
  BY <1>2, <1>3, ToggleMoves DEF Inv

(* A statement that leaves the copy as it is. *)
LEMMA HandlerWent ==
  ASSUME Inv, [Next]_vars, NEW r \in Request, NEW pc, GoTo(r, pc),
         req[r].pc \in Running, pc \in Stages(req[r].op), pc # "update",
         pc \in Copying => IsCopy(req[r], req[r].edge)
  PROVE  HandlerAgrees(r)'
<1>1. SameCopy(r) /\ req'[r].pc = pc
  BY GoToMoves DEF Inv
<1>2. QED
  BY <1>1, HandlerMoved DEF SameCopy

LEMMA FindHandles ==
  ASSUME Inv, [Next]_vars, NEW r \in Request, Find(r)
  PROVE  HandlerAgrees(r)'
<1>1. req[r].pc = "find" /\ SameCall(r) /\ req[r].op \in {"follow", "mute"}
  <2>1. req[r].pc = "find" /\ SameCall(r)
    BY FindMoves DEF Inv
  <2>2. req[r] \in Req /\ req[r].pc \in Stages(req[r].op)
    BY DEF Inv, TypeOK, Coherent, HandlerAgrees
  <2>3. QED
    BY <2>1, <2>2 DEF Req, Stages
<1>2. IsCopy(req[r], req[r].edge)
  BY <1>1 DEF Inv, Coherent, HandlerAgrees, IsCopy
<1>3. CASE req'[r].pc \in {"insert", "done"} /\ SameCopy(r)
  BY <1>1, <1>2, <1>3, HandlerMoved DEF SameCopy, Stages, Running
<1>4. ASSUME NEW e \in EdgesFrom(req[r].edge.table, req[r].user, req[r].peer),
             req'[r].pc = "select", req[r].op # "follow",
             req'[r].edge = [e EXCEPT !.flags = req[r].edge.flags]
      PROVE  HandlerAgrees(r)'
  <2>1. PICK f : f = [e EXCEPT !.flags = req[r].edge.flags]
    OBVIOUS
  <2>2. RowAgrees(e) /\ e.table = "mute" /\ e.from = req[r].user /\ e.to = req[r].peer
    BY <1>1, <1>2, <1>4 DEF EdgesFrom, Inv, Coherent, IsCopy, TableOf
  <2>3. req[r].edge.flags \in SUBSET Flags("mute")
    BY <1>1, <1>2, <1>4 DEF IsCopy, RowAgrees, TableOf
  <2>4. RowAgrees(f)
    BY <2>1, <2>2, <2>3, CopyAgrees DEF RowAgrees, Flags
  <2>5. IsCopy(req[r], f)
    BY <1>1, <1>4, <2>1, <2>2, <2>4 DEF IsCopy, TableOf, RowAgrees, Edge
  <2>6. QED
    BY <1>1, <1>4, <2>1, <2>5, HandlerMoved DEF Stages, Running
<1>5. QED
  BY <1>3, <1>4, FindMoves DEF Inv

(* A row differs from a copy of a follow in isCloseFriend only. *)
LEMMA FollowsDiffer ==
  ASSUME NEW e, NEW f, RowAgrees(e), RowAgrees(f), e.id = f.id, f.table = "follow"
  PROVE  Differ(e, f) \subseteq {"isCloseFriend"}
<1>1. e.table = "follow"
  BY DEF RowAgrees
<1>2. /\ e.flags \subseteq {"isAccepted", "isCloseFriend"}
      /\ f.flags \subseteq {"isAccepted", "isCloseFriend"}
      /\ "isAccepted" \in e.flags <=> "isAccepted" \in f.flags
  BY <1>1 DEF RowAgrees, Flags
<1>3. QED
  BY <1>2 DEF Differ

LEMMA SelectHandles ==
  ASSUME Inv, [Next]_vars, NEW r \in Request, Select(r)
  PROVE  HandlerAgrees(r)'
<1>1. req[r].pc = "select" /\ SameCall(r) /\ req'[r].edge = req[r].edge
  BY SelectMoves DEF Inv
<1>2. req[r].op \in {"close", "mute"}
  <2>1. req[r] \in Req /\ req[r].pc \in Stages(req[r].op)
    BY DEF Inv, TypeOK, Coherent, HandlerAgrees
  <2>2. QED
    BY <1>1, <2>1 DEF Req, Stages
<1>3. IsCopy(req[r], req[r].edge)
  BY <1>1 DEF Inv, Coherent, HandlerAgrees, IsCopy
<1>4. CASE req'[r].pc \in {"insert", "done"} /\ SameCopy(r)
  BY <1>1, <1>2, <1>3, <1>4, HandlerMoved DEF SameCopy, Stages, Running
<1>5. ASSUME NEW e \in edges, e.id = req[r].edge.id, Differ(e, req[r].edge) # {},
             req'[r].pc = "update", req'[r].columns = Differ(e, req[r].edge)
      PROVE  HandlerAgrees(r)'
  <2>1. req[r].op = "close" => Differ(e, req[r].edge) \subseteq {"isCloseFriend"}
    BY <1>3, <1>5, FollowsDiffer DEF IsCopy, TableOf, Inv, Coherent
  <2>2. req[r].op = "close" => req'[r].columns = {"isCloseFriend"}
    BY <1>5, <2>1
  <2>3. QED
    BY <1>1, <1>2, <1>3, <1>5, <2>2, HandlerMoved DEF Stages, Running
<1>6. QED
  BY <1>4, <1>5, SelectMoves DEF Inv

LEMMA HandlersStep == Inv /\ [Next]_vars => \A r \in Request : HandlerAgrees(r)'
<1> SUFFICES ASSUME Inv, [Next]_vars PROVE \A r \in Request : HandlerAgrees(r)'
  OBVIOUS
<1>1. ASSUME NEW r \in Request, Only(r), HandlerAgrees(r)'
      PROVE  \A x \in Request : HandlerAgrees(x)'
  BY <1>1, HandlerFrame DEF Only
<1>2. ASSUME NEW r \in Request, Call(r)
      PROVE  HandlerAgrees(r)'
  BY <1>2, FollowBegun, BlockBegun, MuteBegun, ToggleBegun DEF Call
<1>a. \A r \in Request : req[r].pc \in Stages(req[r].op) /\ req[r] \in Req
  BY DEF Inv, TypeOK, Coherent, HandlerAgrees
<1>b. \A r \in Request : req[r].op \in {"none", "follow", "close", "mute", "block"}
  BY <1>a DEF Req
<1>c. \A r \in Request : req[r].pc \in Copying => IsCopy(req[r], req[r].edge)
  BY DEF Inv, Coherent, HandlerAgrees, IsCopy, Copying
<1>3. ASSUME NEW r \in Request, CheckBlock(r)
      PROVE  HandlerAgrees(r)'
  <2>1. req[r].pc = "checkBlock" /\ req[r].op = "follow" /\ HandlerAgrees(r)
    BY <1>3, <1>a, <1>b DEF CheckBlock, At, Stages, Inv, Coherent
  <2>2. CASE GoTo(r, "failed")
    BY <2>1, <2>2, HandlerWent DEF Stages, Copying, Running
  <2>3. CASE GoTo(r, "find") /\ ~IsBlockedEitherWay(req[r].user, req[r].peer)
    <3>1. /\ req[r].user \in User /\ req[r].user # req[r].peer /\ FollowAgrees(r)
      BY <2>1 DEF HandlerAgrees, Running
    <3>2. r \notin walled
      BY <2>3, <3>1 DEF Inv, Coherent, WallAgrees, IsBlockedEitherWay
    <3>3. IsCopy(req[r], req[r].edge)
      BY <2>1, <3>1, <3>2 DEF IsCopy, FollowAgrees, RowAgrees, TableOf, Flags
    <3>4. QED
      BY <2>1, <2>3, <3>3, HandlerWent DEF Stages, Running
  <2>4. QED
    BY <1>3, <2>2, <2>3 DEF CheckBlock
<1>4. ASSUME NEW r \in Request, Insert(r)
      PROVE  HandlerAgrees(r)'
  <2>1. PICK pc : /\ GoTo(r, pc)
                  /\ pc \in {"failed", "done", "notify"} /\ (pc = "notify" => req[r].op = "follow")
    BY <1>4 DEF Insert
  <2>2. req[r].pc = "insert"
    BY <1>4 DEF Insert, At
  <2>3. QED
    BY <1>a, <1>b, <2>1, <2>2, HandlerWent DEF Stages, Copying, Running
<1>5. ASSUME NEW r \in Request, NEW pc \in {"failed", "done", "insertBlock"}, GoTo(r, pc),
             req[r].pc \in Running, pc = "insertBlock" => req[r].pc = "findBlock"
      PROVE  HandlerAgrees(r)'
  <2>1. pc \in Stages(req[r].op)
    BY <1>a, <1>b, <1>5 DEF Stages, Running
  <2>2. QED
    BY <1>5, <2>1, HandlerWent DEF Copying
<1>6. ASSUME NEW r \in Request,
             Notify(r) \/ Update(r) \/ FindBlock(r) \/ InsertBlock(r) \/ Fail(r)
      PROVE  HandlerAgrees(r)'
  BY <1>5, <1>6 DEF Notify, Update, FindBlock, InsertBlock, Fail, At, Running
<1>7. ASSUME NEW r \in Request, Step(r) \/ Fail(r)
      PROVE  HandlerAgrees(r)'
  BY <1>3, <1>4, <1>6, <1>7, FindHandles, SelectHandles DEF Step
<1>8. CASE req' = req
  BY <1>8, HandlerFrame
<1>9. QED
  BY <1>1, <1>2, <1>7, <1>8, CallMoves, StepMoves
     DEF Inv, Next, Unblock, RemoveEdge, SetPrivate, vars

-----------------------------------------------------------------------------
(* The follows that face a block *)

LEMMA WallKept ==
  ASSUME NEW r \in Request, WallAgrees(r), SameCall(r), blocks \subseteq blocks',
         req'[r].pc \in {"checkBlock", "failed"}
  PROVE  WallAgrees(r)'
BY DEF WallAgrees, SameCall

LEMMA WallsStep == Inv /\ [Next]_vars => \A x \in walled' : WallAgrees(x)'
<1> SUFFICES ASSUME Inv, [Next]_vars PROVE \A x \in walled' : WallAgrees(x)'
  OBVIOUS
<1>a. walled \subseteq Request /\ \A x \in walled : WallAgrees(x)
  BY DEF Inv, TypeOK, Coherent
<1>1. ASSUME NEW r \in Request, Step(r) \/ Fail(r)
      PROVE  \A x \in walled' : WallAgrees(x)'
  <2>1. /\ walled' = walled /\ Only(r) /\ SameCall(r)
    BY <1>1, StepsKeep, StepMoves DEF Inv
  <2>2. blocks \subseteq blocks'
    BY <1>1 DEF Step, CheckBlock, Find, Insert, Notify, Select, Update, FindBlock,
                InsertBlock, Fail
  <2>3. ASSUME NEW x \in walled, x # r
        PROVE  WallAgrees(x)'
    <3>1. req'[x] = req[x] /\ req[x].pc \in {"checkBlock", "failed"}
      BY <1>a, <2>1, <2>3 DEF Only, WallAgrees
    <3>2. QED
      BY <1>a, <2>2, <3>1, WallKept DEF SameCall
  <2>4. ASSUME r \in walled
        PROVE  WallAgrees(r)'
    <3>1. CheckBlock(r) \/ Fail(r)
      BY <1>1, <1>a, <2>4 DEF WallAgrees, Step, Find, Insert, Notify, Select, Update,
                             FindBlock, InsertBlock, At
    <3>2. CASE CheckBlock(r)
      <4>1. IsBlockedEitherWay(req[r].user, req[r].peer)
        BY <1>a, <2>4, <3>2 DEF WallAgrees, IsBlockedEitherWay, CheckBlock, At, Inv, Coherent,
                               HandlerAgrees, Running
      <4>2. req'[r].pc = "failed"
        BY <3>2, <4>1, GoToMoves DEF CheckBlock, Inv
      <4>3. QED
        BY <1>a, <2>1, <2>2, <2>4, <4>2, WallKept
    <3>3. CASE Fail(r)
      <4>1. req'[r].pc = "failed"
        BY <3>3, GoToMoves DEF Fail, Inv
      <4>2. QED
        BY <1>a, <2>1, <2>2, <2>4, <4>1, WallKept
    <3>4. QED
      BY <3>1, <3>2, <3>3
  <2>5. QED
    BY <2>1, <2>3, <2>4
<1>2. ASSUME NEW r \in Request, Call(r)
      PROVE  \A x \in walled' : WallAgrees(x)'
  <2>1. Only(r) /\ req[r].pc = "idle" /\ blocks' = blocks
    BY <1>2, CallMoves DEF Inv, Call, Follow, Block, ToggleCloseFriend, Mute
  <2>2. ASSUME NEW x \in walled
        PROVE  WallAgrees(x)'
    <3>1. req'[x] = req[x] /\ req[x].pc \in {"checkBlock", "failed"}
      BY <1>a, <2>1 DEF Only, WallAgrees
    <3>2. QED
      BY <1>a, <2>1, <3>1, WallKept DEF SameCall
  <2>3. ASSUME NEW u \in User, NEW v \in User, Follow(r, u, v), r \in walled'
        PROVE  WallAgrees(r)'
    <3>1. IsBlockedEitherWay(u, v)
      BY <2>1, <2>2, <2>3 DEF Follow, Inv, Coherent, WallAgrees
    <3>2. /\ req'[r].op = "follow" /\ req'[r].user = u /\ req'[r].peer = v
          /\ req'[r].pc = "checkBlock"
      BY <2>3, <3>1, BeginMoves DEF Inv, Follow, IsBlockedEitherWay
    <3>3. QED
      BY <2>1, <3>1, <3>2 DEF WallAgrees, IsBlockedEitherWay
  <2>4. walled' = walled \/ \E u, v \in User : Follow(r, u, v)
    BY <1>2 DEF Call, Block, ToggleCloseFriend, Mute
  <2>5. QED
    BY <2>2, <2>3, <2>4 DEF Follow
<1>3. ASSUME NEW u \in User, NEW v \in User, Unblock(u, v)
      PROVE  \A x \in walled' : WallAgrees(x)'
  BY <1>3, <1>a DEF Unblock, WallAgrees
<1>4. CASE UNCHANGED <<req, blocks, walled>>
  BY <1>4, <1>a DEF WallAgrees
<1>5. QED
  BY <1>1, <1>2, <1>3, <1>4 DEF Next, RemoveEdge, SetPrivate, vars

-----------------------------------------------------------------------------
(* What is undone *)

LEMMA RowsStayUndone ==
  ASSUME Inv, [Next]_vars, NEW what \in Table \cup {"close"}, NEW u \in User, NEW v \in User,
         UndoneAgrees(what, u, v)
  PROVE  RowsUndone(what, u, v)'
<1>a. RowsUndone(what, u, v) /\ CallsUndone(what, u, v)
  BY DEF UndoneAgrees
<1>b. \A r \in Request : HandlerAgrees(r) /\ req[r] \in Req
  BY DEF Inv, TypeOK, Coherent
<1>1. CASE edges' \subseteq edges
  BY <1>a, <1>1 DEF RowsUndone, EdgesFrom
<1>2. ASSUME NEW r \in Request, Inserts(r)
      PROVE  RowsUndone(what, u, v)'
  <2> DEFINE f == req[r].edge
  <2>1. /\ RowAgrees(f) /\ f.table = TableOf(req[r].op)
        /\ f.from = req[r].user /\ f.to = req[r].peer
        /\ req[r].pc \in Running /\ req[r].op \in {"follow", "close", "mute"}
    <3>1. HandlerAgrees(r) /\ req[r].pc = "insert" /\ req[r] \in Req
      BY <1>b, <1>2 DEF Inserts
    <3>2. QED
      BY <3>1 DEF HandlerAgrees, Running, Stages, Req
  <2>2. req[r].op = "follow" => "isCloseFriend" \notin f.flags
    BY <1>b DEF HandlerAgrees, FollowAgrees
  <2>3. req[r].user = u /\ req[r].peer = v => ~Redoes(what, req[r])
    BY <1>a, <2>1 DEF CallsUndone
  <2>4. CASE what = "close"
    <3>1. f.table = "follow" /\ f.from = u /\ f.to = v => "isCloseFriend" \notin f.flags
      BY <2>1, <2>2, <2>3, <2>4 DEF Redoes, TableOf
    <3> HIDE DEF f
    <3>2. edges' = edges \cup {f}
      BY <1>2 DEF Inserts, f
    <3>3. QED
      BY <1>a, <2>4, <3>1, <3>2 DEF RowsUndone, EdgesFrom
  <2>5. CASE what # "close"
    <3>1. ~(f.table = what /\ f.from = u /\ f.to = v)
      BY <2>1, <2>3, <2>5 DEF Redoes, TableOf, Table
    <3> HIDE DEF f
    <3>2. edges' = edges \cup {f}
      BY <1>2 DEF Inserts, f
    <3>3. QED
      BY <1>a, <2>5, <3>1, <3>2 DEF RowsUndone, EdgesFrom
  <2>6. QED
    BY <2>4, <2>5
<1>3. ASSUME NEW r \in Request, Updates(r)
      PROVE  RowsUndone(what, u, v)'
  <2>1. \A d \in edges : /\ Updated(r, d).table = d.table /\ Updated(r, d).from = d.from
                         /\ Updated(r, d).to = d.to
    BY <1>3, UpdatedRow DEF Updates
  <2>2. CASE what # "close"
    BY <1>a, <1>3, <2>1, <2>2 DEF RowsUndone, EdgesFrom, Updates
  <2>3. CASE what = "close"
    <3>1. ASSUME NEW d \in edges, d.table = "follow", d.from = u, d.to = v
          PROVE  "isCloseFriend" \notin Updated(r, d).flags
      <4>1. "isCloseFriend" \notin d.flags
        BY <1>a, <2>3, <3>1 DEF RowsUndone, EdgesFrom
      <4>2. CASE d.id = req[r].edge.id
        <5>1. /\ RowAgrees(d) /\ IsCopy(req[r], req[r].edge)
              /\ req[r].pc \in Running /\ req[r].pc \in Stages(req[r].op)
          BY <1>b, <1>3 DEF Inv, Coherent, HandlerAgrees, IsCopy, Updates, Running
        <5>2. /\ req[r].edge.table = "follow" /\ req[r].user = u /\ req[r].peer = v
          BY <3>1, <4>2, <5>1 DEF RowAgrees, IsCopy
        <5>3. req[r].op = "close"
          BY <1>b, <1>3, <5>1, <5>2 DEF Updates, Stages, IsCopy, TableOf, Req
        <5>4. "isCloseFriend" \notin req[r].edge.flags
          BY <1>a, <2>3, <5>1, <5>2, <5>3 DEF CallsUndone, Redoes
        <5>5. Updated(r, d).flags = (d.flags \ req[r].columns)
                                      \cup (req[r].columns \cap req[r].edge.flags)
          BY <1>3, <4>2, UpdatedRow DEF Updates
        <5>6. QED
          BY <4>1, <5>4, <5>5
      <4>3. CASE d.id # req[r].edge.id
        BY <4>1, <4>3 DEF Updated
      <4>4. QED
        BY <4>2, <4>3
    <3>2. QED
      BY <1>a, <1>3, <2>1, <2>3, <3>1 DEF RowsUndone, EdgesFrom, Updates
  <2>4. QED
    BY <2>2, <2>3
<1>4. QED
  BY <1>1, <1>2, <1>3, EdgesMove

(* A statement of a call redoes nothing the call did not set out to redo. *)
LEMMA StepRedoesNothing ==
  ASSUME Inv, NEW r \in Request, Step(r) \/ Fail(r), NEW what \in Table \cup {"close"}
  PROVE  /\ req[r].pc \in Running /\ Only(r) /\ SameCall(r)
         /\ Redoes(what, req'[r]) => Redoes(what, req[r])
<1>1. req[r].pc \in Running
  BY DEF Step, CheckBlock, Find, Insert, Notify, Select, Update, FindBlock, InsertBlock, Fail,
         At, Running
<1>2. req[r].op = "close" => req'[r].edge = req[r].edge
  <2>1. ASSUME NEW pc, GoTo(r, pc)
        PROVE  req'[r].edge = req[r].edge
    BY <2>1, GoToMoves DEF Inv, SameCopy
  <2>2. Find(r) => req[r].op # "close"
    BY DEF Find, At, Inv, Coherent, HandlerAgrees, Stages
  <2>3. QED
    BY <2>1, <2>2, SelectMoves
       DEF Inv, Step, CheckBlock, Insert, Notify, Update, FindBlock, InsertBlock, Fail
<1>3. Only(r) /\ SameCall(r)
  BY StepMoves DEF Inv
<1>4. QED
  BY <1>1, <1>2, <1>3 DEF Redoes, SameCall, Table

LEMMA CallsStayUndone ==
  ASSUME Inv, [Next]_vars, NEW what \in Table \cup {"close"}, NEW u \in User, NEW v \in User,
         UndoneAgrees(what, u, v), <<what, u, v>> \in settled'
  PROVE  CallsUndone(what, u, v)'
<1>a. RowsUndone(what, u, v) /\ CallsUndone(what, u, v)
  BY DEF UndoneAgrees
<1>1. ASSUME NEW r \in Request, Step(r) \/ Fail(r)
      PROVE  CallsUndone(what, u, v)'
  BY <1>a, <1>1, StepRedoesNothing DEF CallsUndone, Only, SameCall
<1>2. ASSUME NEW r \in Request, Only(r),
             req'[r].pc \in Running /\ req'[r].user = u /\ req'[r].peer = v =>
               ~Redoes(what, req'[r])
      PROVE  CallsUndone(what, u, v)'
  BY <1>a, <1>2 DEF CallsUndone, Only
<1>3. ASSUME NEW r \in Request, NEW a \in User, NEW b \in User, Follow(r, a, b)
      PROVE  CallsUndone(what, u, v)'
  <2>1. Only(r) /\ req'[r].op = "follow" /\ req'[r].user = a /\ req'[r].peer = b
    BY <1>3, BeginMoves DEF Follow, Inv
  <2>2. <<what, u, v>> # <<"follow", a, b>>
    BY <1>3 DEF Follow
  <2>3. QED
    BY <1>2, <2>1, <2>2 DEF Redoes, Table
<1>4. ASSUME NEW r \in Request, NEW a \in User, NEW b \in User, Block(r, a, b)
      PROVE  CallsUndone(what, u, v)'
  <2>1. Only(r) /\ req'[r].op = "block"
    BY <1>4, BeginMoves DEF Block, Inv
  <2>2. QED
    BY <1>2, <2>1 DEF Redoes, Table
<1>5. ASSUME NEW r \in Request, NEW a \in User, NEW b \in User,
             NEW flags \in SUBSET {"mutePosts", "muteStories"}, Mute(r, a, b, flags)
      PROVE  CallsUndone(what, u, v)'
  <2>1. Only(r) /\ req'[r].op = "mute" /\ req'[r].user = a /\ req'[r].peer = b
    BY <1>5, BeginMoves DEF Mute, Inv
  <2>2. <<what, u, v>> # <<"mute", a, b>>
    BY <1>5 DEF Mute
  <2>3. QED
    BY <1>2, <2>1, <2>2 DEF Redoes, Table
<1>6. ASSUME NEW r \in Request, NEW a \in User, NEW b \in User, NEW isClose \in BOOLEAN,
             ToggleCloseFriend(r, a, b, isClose)
      PROVE  CallsUndone(what, u, v)'
  <2>1. /\ Only(r) /\ req'[r].op = "close" /\ req'[r].user = a /\ req'[r].peer = b
        /\ \/ \E e \in EdgesFrom("follow", a, b) : req'[r].edge = WithClose(e, isClose)
           \/ req'[r].pc = "failed"
    BY <1>6, ToggleMoves DEF Inv
  <2>2. isClose => <<what, u, v>> # <<"close", a, b>>
    BY <1>6 DEF ToggleCloseFriend
  <2>3. ASSUME NEW e \in EdgesFrom("follow", a, b), req'[r].edge = WithClose(e, isClose),
               a = u, b = v
        PROVE  ~Redoes(what, req'[r])
    <3>1. what # "follow"
      BY <1>a, <2>3 DEF RowsUndone
    <3>2. ~isClose => "isCloseFriend" \notin req'[r].edge.flags
      <4>1. e \in Edge
        BY DEF EdgesFrom, Inv, TypeOK
      <4>2. ~isClose => WithClose(e, isClose).flags = e.flags \ {"isCloseFriend"}
        BY <4>1 DEF WithClose, Edge
      <4>3. QED
        BY <2>3, <4>2
    <3>3. QED
      BY <2>1, <2>2, <2>3, <3>1, <3>2 DEF Redoes, Table
  <2>4. QED
    BY <1>2, <2>1, <2>3 DEF Running
<1>7. CASE req' = req
  BY <1>a, <1>7 DEF CallsUndone
<1>8. QED
  BY <1>1, <1>3, <1>4, <1>5, <1>6, <1>7 DEF Next, Call, Unblock, RemoveEdge, SetPrivate, vars

(* A withdrawal from the close-friends list that no other call contests takes
   the flag off the row. *)
LEMMA CloseSettled ==
  ASSUME Inv, [Next]_vars, NEW r \in Request, req[r].op = "close",
         "isCloseFriend" \notin req[r].edge.flags, NEW e \in edges, e.id = req[r].edge.id,
         ~Busy({"close"}, req[r].user, req[r].peer, r), Only(r), SameCall(r), req'[r].pc = "done",
         \/ /\ req[r].pc = "select" /\ edges' = edges /\ Differ(e, req[r].edge) = {}
         \/ Updates(r)
  PROVE  UndoneAgrees("close", req[r].user, req[r].peer)'
<1> DEFINE u == req[r].user
           v == req[r].peer
<1>1. /\ IsCopy(req[r], req[r].edge) /\ u # v
      /\ req[r].pc = "update" => req[r].columns = {"isCloseFriend"}
  BY DEF Inv, Coherent, HandlerAgrees, IsCopy, Updates, Running
<1>2. e.table = "follow" /\ e.from = u /\ e.to = v
  BY <1>1 DEF Inv, Coherent, RowAgrees, IsCopy, TableOf
<1>3. EdgesFrom("follow", u, v) = {e}
  BY <1>2 DEF Inv, Coherent, OneEdgePerPair
<1>4. \A d \in edges' : d.table = "follow" /\ d.from = u /\ d.to = v =>
                           "isCloseFriend" \notin d.flags
  <2>1. CASE edges' = edges /\ Differ(e, req[r].edge) = {}
    BY <1>3, <2>1 DEF EdgesFrom, Differ
  <2>2. CASE Updates(r)
    <3>1. req[r].columns = {"isCloseFriend"}
      BY <1>1, <2>2 DEF Updates
    <3>2. \A d \in edges : /\ Updated(r, d).table = d.table /\ Updated(r, d).from = d.from
                           /\ Updated(r, d).to = d.to
      BY <2>2, UpdatedRow DEF Updates
    <3>3. "isCloseFriend" \notin Updated(r, e).flags
      BY <2>2, <3>1, UpdatedRow DEF Updates
    <3>4. \A d \in edges : d.table = "follow" /\ d.from = u /\ d.to = v => d = e
      BY <1>3 DEF EdgesFrom
    <3>5. QED
      BY <2>2, <3>2, <3>3, <3>4 DEF Updates
  <2>3. QED
    BY <2>1, <2>2
<1>5. RowsUndone("close", req[r].user, req[r].peer)'
  BY <1>1, <1>4 DEF RowsUndone, EdgesFrom, SameCall
<1>6. \A x \in Request : req'[x].pc \in Running /\ req'[x].user = u /\ req'[x].peer = v =>
                           ~Redoes("close", req'[x])
  BY DEF Busy, Only, Redoes, Running
<1>7. QED
  BY <1>5, <1>6 DEF UndoneAgrees, CallsUndone, SameCall

LEMMA UndoneStep == Inv /\ [Next]_vars => \A x \in settled' : UndoneAgrees(x[1], x[2], x[3])'
<1> SUFFICES ASSUME Inv, [Next]_vars PROVE \A x \in settled' : UndoneAgrees(x[1], x[2], x[3])'
  OBVIOUS
<1>1. ASSUME NEW x \in settled, x \in settled'
      PROVE  UndoneAgrees(x[1], x[2], x[3])'
  <2>1. /\ x = <<x[1], x[2], x[3]>> /\ x[1] \in Table \cup {"close"}
        /\ x[2] \in User /\ x[3] \in User
    BY DEF Inv, TypeOK
  <2>2. UndoneAgrees(x[1], x[2], x[3])
    BY DEF Inv, Coherent
  <2>3. RowsUndone(x[1], x[2], x[3])'
    BY <2>1, <2>2, RowsStayUndone
  <2>4. CallsUndone(x[1], x[2], x[3])'
    BY <1>1, <2>1, <2>2, CallsStayUndone
  <2>5. QED
    BY <2>3, <2>4 DEF UndoneAgrees
<1>2. ASSUME NEW t \in Table, NEW u \in User, NEW v \in User, RemoveEdge(t, u, v)
      PROVE  \A x \in settled' : UndoneAgrees(x[1], x[2], x[3])'
  <2>1. CASE settled' = settled
    BY <1>1, <2>1
  <2>2. CASE /\ settled' = settled \cup {<<t, u, v>>}
             /\ ~Busy(IF t = "mute" THEN {"mute"} ELSE {"follow", "close"}, u, v, None)
    <3>1. RowsUndone(t, u, v)'
      BY <1>2 DEF RowsUndone, RemoveEdge, EdgesFrom, Table
    <3>2. Request \ {None} = Request
      BY NoneAssumption
    <3>3. \A r \in Request : req[r].pc \in Running /\ req[r].user = u /\ req[r].peer = v =>
                               ~Redoes(t, req[r])
      BY <2>2, <3>2 DEF Busy, Redoes, Table
    <3>4. CallsUndone(t, u, v)'
      BY <1>2, <3>3 DEF RemoveEdge, CallsUndone
    <3>5. UndoneAgrees(t, u, v)'
      BY <3>1, <3>4 DEF UndoneAgrees
    <3>6. ASSUME NEW x \in settled', x \notin settled
          PROVE  UndoneAgrees(x[1], x[2], x[3])'
      <4>1. x = <<t, u, v>>
        BY <2>2, <3>6
      <4>2. x[1] = t /\ x[2] = u /\ x[3] = v
        BY <4>1
      <4>3. QED
        BY <3>5, <4>2
    <3>7. QED
      BY <1>1, <3>6
  <2>3. QED
    BY <1>2, <2>1, <2>2 DEF RemoveEdge
<1>3. ASSUME NEW r \in Request, SettleClose(r), Only(r), SameCall(r), req'[r].pc = "done",
             \/ /\ req[r].pc = "select" /\ edges' = edges
                /\ \E e \in edges : e.id = req[r].edge.id /\ Differ(e, req[r].edge) = {}
             \/ Updates(r)
      PROVE  \A x \in settled' : UndoneAgrees(x[1], x[2], x[3])'
  <2>1. CASE settled' = settled
    BY <1>1, <2>1
  <2>2. CASE /\ settled' = settled \cup {<<"close", req[r].user, req[r].peer>>}
             /\ req[r].op = "close" /\ "isCloseFriend" \notin req[r].edge.flags
             /\ ~Busy({"close"}, req[r].user, req[r].peer, r)
             /\ \E e \in edges : e.id = req[r].edge.id
    <3>1. UndoneAgrees("close", req[r].user, req[r].peer)'
      <4>1. \E e \in edges : /\ e.id = req[r].edge.id
                             /\ \/ /\ req[r].pc = "select" /\ edges' = edges
                                   /\ Differ(e, req[r].edge) = {}
                                \/ Updates(r)
        BY <1>3, <2>2
      <4>2. QED
        BY <1>3, <2>2, <4>1, CloseSettled
    <3>2. PICK a, b : a = req[r].user /\ b = req[r].peer
      OBVIOUS
    <3>3. UndoneAgrees("close", a, b)'
      BY <1>3, <3>1, <3>2 DEF SameCall
    <3>4. ASSUME NEW x \in settled', x \notin settled
          PROVE  UndoneAgrees(x[1], x[2], x[3])'
      <4>1. x = <<"close", a, b>>
        BY <2>2, <3>2, <3>4
      <4>2. x[1] = "close" /\ x[2] = a /\ x[3] = b
        BY <4>1
      <4>3. QED
        BY <3>3, <4>2
    <3>5. QED
      BY <1>1, <3>4
  <2>3. QED
    BY <1>3, <2>1, <2>2 DEF SettleClose
<1>4. ASSUME NEW r \in Request, Select(r)
      PROVE  \A x \in settled' : UndoneAgrees(x[1], x[2], x[3])'
  <2>1. CASE settled' = settled
    BY <1>1, <2>1
  <2>2. CASE /\ SettleClose(r) /\ req'[r].pc = "done"
             /\ \E e \in edges : e.id = req[r].edge.id /\ Differ(e, req[r].edge) = {}
    BY <1>3, <1>4, <2>2, SelectMoves DEF Inv, Select
  <2>3. QED
    BY <1>4, <2>1, <2>2, SelectMoves DEF Inv
<1>5. ASSUME NEW r \in Request, Update(r)
      PROVE  \A x \in settled' : UndoneAgrees(x[1], x[2], x[3])'
  <2>1. Only(r) /\ SameCall(r) /\ req'[r].pc = "done" /\ Updates(r) /\ SettleClose(r)
    BY <1>5, GoToMoves, UpdateUpdates DEF Update, Inv, SameCopy
  <2>2. QED
    BY <1>3, <2>1
<1>6. ASSUME settled' \subseteq settled
      PROVE  \A x \in settled' : UndoneAgrees(x[1], x[2], x[3])'
  BY <1>1, <1>6
<1>7. ASSUME NEW r \in Request, Call(r)
      PROVE  settled' \subseteq settled
  BY <1>7, ZenonT(60) DEF Call, Follow, Block, ToggleCloseFriend, Mute
<1>8. ASSUME NEW r \in Request, Step(r) \/ Fail(r), ~Select(r), ~Update(r)
      PROVE  settled' \subseteq settled
  BY <1>8 DEF Step, CheckBlock, Find, Insert, Notify, FindBlock, InsertBlock, Fail
<1>9. QED
  BY <1>2, <1>4, <1>5, <1>6, <1>7, <1>8 DEF Next, Unblock, SetPrivate, vars

-----------------------------------------------------------------------------
(* The theorems *)

LEMMA InvInit == Init => Inv
<1> SUFFICES ASSUME Init PROVE Inv
  OBVIOUS
<1>1. IdleReq \in Req
  BY DEF IdleReq, Req
<1>2. TypeOK
  BY <1>1 DEF Init, TypeOK
<1>3. \A r \in Request : HandlerAgrees(r)
  BY DEF Init, IdleReq, HandlerAgrees, Stages, Running
<1>4. QED
  BY <1>2, <1>3 DEF Init, Inv, Coherent, OneEdgePerPair

LEMMA InvStep == Inv /\ [Next]_vars => Inv'
<1> SUFFICES ASSUME Inv, [Next]_vars PROVE Inv'
  OBVIOUS
<1>1. TypeOK'
  BY TypeOKStep
<1>2. Coherent'
  BY OneEdgeStep, RowsStep, HandlersStep, WallsStep, UndoneStep DEF Coherent
<1>3. QED
  BY <1>1, <1>2 DEF Inv

(* The variables keep their types, and tables, handlers and history agree: the
   inductive invariant of FollowsService, MutesService and BlocksService. *)
THEOREM AlwaysInv == Spec => []Inv
<1>1. Init => Inv
  BY InvInit
<1>2. Inv /\ [Next]_vars => Inv'
  BY InvStep
<1>3. QED
  BY <1>1, <1>2, PTL DEF Spec

(* Type correctness. *)
THEOREM TypeCorrect == Spec => []TypeOK
<1>1. Inv => TypeOK
  BY DEF Inv
<1>2. QED
  BY <1>1, AlwaysInv, PTL

(* However the lookups, inserts and saves of any number of calls interleave,
   a user follows and mutes another at most once, and itself never. *)
THEOREM NoDuplicateEdges == Spec => []OneEdgePerPair
<1>1. Inv => OneEdgePerPair
  BY DEF Inv, Coherent
<1>2. QED
  BY <1>1, AlwaysInv, PTL

(* A follow that has faced a block ever since it began leaves no row. *)
THEOREM BlocksHold == Spec => []WalledFollowsLeaveNothing
<1>1. Inv => WalledFollowsLeaveNothing
  BY DEF Inv, Coherent, RowAgrees, WalledFollowsLeaveNothing
<1>2. QED
  BY <1>1, AlwaysInv, PTL

(* Nobody becomes an accepted follower of an account that was private all the
   while the follow was under way, nor by any later call. *)
THEOREM PrivacyHolds == Spec => []PrivateNeverAutoAccepts
<1>1. ASSUME Inv, NEW e \in edges, "isAccepted" \in e.flags
      PROVE  e.id \in wasPublic
  <2>1. RowAgrees(e) /\ e.id \in Request /\ e.table \in Table
    BY <1>1 DEF Inv, Coherent, RowAgrees, Edge
  <2>2. e.table = "follow"
    BY <1>1, <2>1 DEF RowAgrees, Flags, Table
  <2>3. req[e.id].op = "follow" /\ "isAccepted" \in req[e.id].edge.flags
    BY <1>1, <2>1, <2>2 DEF RowAgrees
  <2>4. FollowAgrees(e.id)
    BY <1>1, <2>1, <2>3 DEF Inv, Coherent, HandlerAgrees
  <2>5. QED
    BY <2>3, <2>4 DEF FollowAgrees
<1>2. Inv => PrivateNeverAutoAccepts
  BY <1>1 DEF PrivateNeverAutoAccepts
<1>3. QED
  BY <1>2, AlwaysInv, PTL

(* A follow, a mute or a place on a close-friends list that was undone with no
   call about it under way does not come back before its owner asks again. *)
THEOREM UndoneIsUndone == Spec => []UndoneStaysUndone
<1>1. ASSUME Inv, NEW x \in settled
      PROVE  IF x[1] = "close" THEN ~IsOnCloseFriendsList(x[2], x[3])
             ELSE EdgesFrom(x[1], x[2], x[3]) = {}
  <2>1. RowsUndone(x[1], x[2], x[3])
    BY <1>1 DEF Inv, Coherent, UndoneAgrees
  <2>2. QED
    BY <2>1 DEF RowsUndone, IsOnCloseFriendsList
<1>2. Inv => UndoneStaysUndone
  BY <1>1 DEF UndoneStaysUndone
<1>3. QED
  BY <1>2, AlwaysInv, PTL

(* Rows of follows and mutes appear and change only in a call of the user they
   come from, about the user they go to, and no later call accepts a pending
   follow or revokes an accepted one. *)
THEOREM OwnersEdges == Spec => EdgesAreTheirOwners
<1>1. ASSUME Inv, NEW e, NEW d \in edges, RowAgrees(e), d.id = e.id
      PROVE  "isAccepted" \in d.flags <=> "isAccepted" \in e.flags
  <2>1. RowAgrees(d)
    BY <1>1 DEF Inv, Coherent
  <2>2. d.table = e.table /\ e.table \in Table
    BY <1>1, <2>1 DEF RowAgrees, Edge
  <2>3. QED
    BY <1>1, <2>1, <2>2 DEF RowAgrees, Flags, Table
<1>2. ASSUME Inv, [Next]_vars, NEW e \in edges', e \notin edges
      PROVE  \E r \in Request :
               /\ At(r, "insert") \/ At(r, "update")
               /\ req[r].user = e.from /\ req[r].peer = e.to
               /\ \A d \in edges : d.id = e.id =>
                    ("isAccepted" \in d.flags <=> "isAccepted" \in e.flags)
  <2>1. PICK r \in Request : Inserts(r) \/ Updates(r)
    BY <1>2, EdgesMove
  <2>2. /\ IsCopy(req[r], req[r].edge) /\ (At(r, "insert") \/ At(r, "update"))
    BY <1>2, <2>1 DEF Inserts, Updates, At, Inv, Coherent, HandlerAgrees, IsCopy
  <2>3. RowAgrees(e) /\ req[r].user = e.from /\ req[r].peer = e.to
    <3>1. CASE Inserts(r)
      <4>1. e = req[r].edge
        BY <1>2, <3>1 DEF Inserts
      <4>2. QED
        BY <2>2, <4>1 DEF IsCopy
    <3>2. CASE Updates(r)
      <4>1. PICK d \in edges : e = Updated(r, d)
        BY <1>2, <3>2 DEF Updates
      <4>2. d.id = req[r].edge.id
        BY <1>2, <4>1 DEF Updated
      <4>3. RowAgrees(e) /\ e.id = d.id /\ e.from = d.from /\ e.to = d.to
        BY <1>2, <3>2, <4>1, UpdatedRow DEF Updates
      <4>4. req[r].edge.from = e.from /\ req[r].edge.to = e.to
        BY <2>2, <4>2, <4>3 DEF RowAgrees, IsCopy
      <4>5. QED
        BY <2>2, <4>3, <4>4 DEF IsCopy
    <3>3. QED
      BY <2>1, <3>1, <3>2
  <2>4. \A d \in edges : d.id = e.id =>
          ("isAccepted" \in d.flags <=> "isAccepted" \in e.flags)
    BY <1>1, <1>2, <2>3
  <2>5. QED
    BY <2>2, <2>3, <2>4
<1> DEFINE Owned == \A e \in edges' \ edges :
                      \E r \in Request :
                        /\ At(r, "insert") \/ At(r, "update")
                        /\ req[r].user = e.from /\ req[r].peer = e.to
                        /\ \A d \in edges : d.id = e.id =>
                             ("isAccepted" \in d.flags <=> "isAccepted" \in e.flags)
<1>3. Inv /\ [Next]_vars => [Owned]_vars
  BY <1>2
<1>4. QED
  BY <1>3, AlwaysInv, PTL DEF Spec, EdgesAreTheirOwners
=============================================================================
