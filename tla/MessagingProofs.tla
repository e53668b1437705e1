-------------------------- MODULE MessagingProofs --------------------------
(***************************************************************************)
(* Safety of Messaging for every set of users, calls and instants.         *)
(***************************************************************************)
EXTENDS Messaging, TLAPS

PC == Running \cup {"idle", "done", "failed"}

-----------------------------------------------------------------------------
(* Lemmas on the records and operators of the model *)

LEMMA IdleReqType == IdleReq \in Req
<1>1. (CHOOSE u \in User : TRUE) \in User
  BY UserAssumption
<1>2. Never \in Never .. MaxTime
  BY MaxTimeAssumption DEF Never
<1>3. QED
  BY <1>1, <1>2 DEF IdleReq, Req

(* The assignments of several local variables at once. *)
LEMMA BeginType ==
  ASSUME NEW q \in Req, NEW pc \in PC, NEW u \in User, NEW v \in User,
         NEW op \in {"send", "open"}
  PROVE  [q EXCEPT !.op = op, !.pc = pc, !.user = u, !.peer = v] \in Req
BY DEF Req, PC

LEMMA MarkType ==
  ASSUME NEW q \in Req, NEW pc \in PC, NEW u \in User, NEW t \in Request
  PROVE  [q EXCEPT !.op = "mark", !.user = u, !.threadId = t, !.pc = pc] \in Req
BY DEF Req, PC

LEMMA IdsType ==
  ASSUME NEW q \in Req, NEW pc \in PC, NEW ids \in SUBSET Request
  PROVE  /\ [q EXCEPT !.ids = ids, !.pc = pc] \in Req
         /\ [q EXCEPT !.pc = pc, !.ids = ids] \in Req
BY DEF Req, PC

LEMMA PairType ==
  ASSUME NEW u \in User, NEW v \in User
  PROVE  /\ NormalizePair(u, v) \in User \X User
         /\ u # v => NormalizePair(u, v)[1] < NormalizePair(u, v)[2]
BY UserAssumption DEF NormalizePair

-----------------------------------------------------------------------------
(* Type correctness *)

(* Every handler holds a thread id once it needs one. *)
HoldsThread(q) ==
  q.pc \in {"insertMessage", "bump", "reload", "emitMessage"} => q.threadId # None

(* A step of one request leaves the requests well typed when the record it
   writes is. *)
LEMMA ReqStep ==
  ASSUME TypeOK, NEW r \in Request, NEW q \in Req, req' = [req EXCEPT ![r] = q],
         HoldsThread(q)
  PROVE  /\ req' \in [Request -> Req]
         /\ \A x \in Request : HoldsThread(req'[x])
BY DEF TypeOK, HoldsThread

(* Emitting to one room or to two keeps the rooms well typed. *)
LEMMA EmitType ==
  ASSUME TypeOK, NEW u \in User, NEW v \in User, NEW e \in Event,
         Emit(u, e) \/ EmitToBoth(u, v, e)
  PROVE  inbox' \in [User -> Seq(Event)]
<1>1. \A s \in Seq(Event) : Append(s, e) \in Seq(Event)
  OBVIOUS
<1>2. inbox \in [User -> Seq(Event)]
  BY DEF TypeOK
<1>3. CASE Emit(u, e)
  BY <1>1, <1>2, <1>3 DEF Emit
<1>4. CASE EmitToBoth(u, v, e)
  <2>1. [inbox EXCEPT ![u] = Append(@, e)] \in [User -> Seq(Event)]
    BY <1>1, <1>2
  <2>2. QED
    BY <1>1, <1>4, <2>1 DEF EmitToBoth
<1>5. QED
  BY <1>3, <1>4

LEMMA TypeOKStep == TypeOK /\ [Next]_vars => TypeOK'
<1> SUFFICES ASSUME TypeOK, [Next]_vars PROVE TypeOK'
  OBVIOUS
<1>a. /\ req \in [Request -> Req]
      /\ \A r \in Request : HoldsThread(req[r]) /\ req[r] \in Req
  BY DEF TypeOK, HoldsThread
<1>1. ASSUME NEW r \in Request, NEW u \in User, NEW v \in User, NEW valid \in BOOLEAN,
             Send(r, u, v, valid)
      PROVE  TypeOK'
  <2>1. PICK pc \in {"failed", "checkBlock"} :
          req' = [req EXCEPT ![r] =
                   [req[r] EXCEPT !.op = "send", !.pc = pc, !.user = u, !.peer = v]]
    BY <1>1, <1>a DEF Send, Begin
  <2> DEFINE q == [req[r] EXCEPT !.op = "send", !.pc = pc, !.user = u, !.peer = v]
  <2>2. q \in Req /\ HoldsThread(q)
    <3>1. q \in Req
      BY <1>a, BeginType DEF PC, Running
    <3>2. q.pc \notin {"insertMessage", "bump", "reload", "emitMessage"}
      BY <1>a DEF Req
    <3>3. QED
      BY <3>1, <3>2 DEF HoldsThread
  <2>3. req' \in [Request -> Req] /\ \A x \in Request : HoldsThread(req'[x])
    BY <2>1, <2>2, ReqStep
  <2>4. QED
    BY <1>1, <2>1, <2>2, <2>3 DEF TypeOK, Send, HoldsThread
<1>2. ASSUME NEW r \in Request, NEW u \in User, NEW v \in User, NEW known \in BOOLEAN,
             OpenThread(r, u, v, known)
      PROVE  TypeOK'
  <2>1. PICK pc \in {"failed", "findThread"} :
          req' = [req EXCEPT ![r] =
                   [req[r] EXCEPT !.op = "open", !.pc = pc, !.user = u, !.peer = v]]
    BY <1>2, <1>a DEF OpenThread, Begin
  <2> DEFINE q == [req[r] EXCEPT !.op = "open", !.pc = pc, !.user = u, !.peer = v]
  <2>2. q \in Req /\ HoldsThread(q)
    <3>1. q \in Req
      BY <1>a, BeginType DEF PC, Running
    <3>2. q.pc \notin {"insertMessage", "bump", "reload", "emitMessage"}
      BY <1>a DEF Req
    <3>3. QED
      BY <3>1, <3>2 DEF HoldsThread
  <2>3. req' \in [Request -> Req] /\ \A x \in Request : HoldsThread(req'[x])
    BY <2>1, <2>2, ReqStep
  <2>4. QED
    BY <1>2, <2>1, <2>2, <2>3 DEF TypeOK, OpenThread, HoldsThread
<1>3. ASSUME NEW r \in Request, NEW u \in User, NEW t \in Request, MarkThreadRead(r, u, t)
      PROVE  TypeOK'
  <2>1. PICK pc \in {"failed", "findUnread"} :
          req' = [req EXCEPT ![r] =
                   [req[r] EXCEPT !.op = "mark", !.user = u, !.threadId = t, !.pc = pc]]
    BY <1>3, <1>a DEF MarkThreadRead
  <2> DEFINE q == [req[r] EXCEPT !.op = "mark", !.user = u, !.threadId = t, !.pc = pc]
  <2>2. q \in Req /\ HoldsThread(q)
    <3>1. q \in Req
      BY <1>a, MarkType DEF PC, Running
    <3>2. q.pc \notin {"insertMessage", "bump", "reload", "emitMessage"}
      BY <1>a DEF Req
    <3>3. QED
      BY <3>1, <3>2 DEF HoldsThread
  <2>3. req' \in [Request -> Req] /\ \A x \in Request : HoldsThread(req'[x])
    BY <2>1, <2>2, ReqStep
  <2>4. QED
    BY <1>3, <2>1, <2>2, <2>3 DEF TypeOK, MarkThreadRead, HoldsThread
<1>4. ASSUME NEW r \in Request, NEW u \in User, NEW i \in Request, DeleteMessage(r, u, i)
      PROVE  TypeOK'
  <2>1. CASE \E m \in messages : m.id = i /\ m.senderId = u /\ Deleting(r, u, m)
    <3>1. PICK m \in messages : Deleting(r, u, m)
      BY <2>1
    <3> DEFINE q == [req[r] EXCEPT !.op = "delete", !.user = u, !.ids = {m.id},
                       !.threadId = m.threadId, !.pc = "remove"]
    <3>2. m.id \in Request /\ m.threadId \in Request
      BY DEF TypeOK, Message
    <3>3. q \in Req /\ HoldsThread(q)
      <4>1. q \in Req
        BY <1>a, <3>2, ZenonT(60) DEF Running, Req
      <4>2. q.pc = "remove"
        BY <1>a DEF Req
      <4>3. QED
        BY <4>1, <4>2 DEF HoldsThread
    <3>4. req' = [req EXCEPT ![r] = q]
      BY <1>a, <3>1 DEF Deleting
    <3>5. req' \in [Request -> Req] /\ \A x \in Request : HoldsThread(req'[x])
      BY <3>3, <3>4, ReqStep
    <3>6. QED
      BY <1>4, <3>5 DEF TypeOK, DeleteMessage, HoldsThread
  <2>2. CASE RefuseDelete(r, u)
    <3> DEFINE q == [req[r] EXCEPT !.op = "delete", !.user = u, !.pc = "failed"]
    <3>1. q \in Req /\ HoldsThread(q)
      <4>1. q \in Req
        BY <1>a, ZenonT(60) DEF Running, Req
      <4>2. q.pc = "failed"
        BY <1>a DEF Req
      <4>3. QED
        BY <4>1, <4>2 DEF HoldsThread
    <3>2. req' = [req EXCEPT ![r] = q]
      BY <1>a, <2>2 DEF RefuseDelete
    <3>3. req' \in [Request -> Req] /\ \A x \in Request : HoldsThread(req'[x])
      BY <3>1, <3>2, ReqStep
    <3>4. QED
      BY <1>4, <3>3 DEF TypeOK, DeleteMessage, HoldsThread
  <2>3. QED
    BY <1>4, <2>1, <2>2 DEF DeleteMessage
(* A step that only moves the program counter of r. *)
<1>b. ASSUME NEW r \in Request, NEW pc \in PC, GoTo(r, pc), HoldsThread([req[r] EXCEPT !.pc = pc])
      PROVE  /\ req' \in [Request -> Req]
             /\ \A x \in Request : HoldsThread(req'[x])
  <2>1. [req[r] EXCEPT !.pc = pc] \in Req
    BY <1>a, <1>b DEF PC, Req
  <2>2. QED
    BY <1>b, <2>1, ReqStep DEF GoTo
(* A call that ends. *)
<1>d. ASSUME NEW r \in Request, NEW pc \in {"done", "failed"}, GoTo(r, pc)
      PROVE  /\ req' \in [Request -> Req]
             /\ \A x \in Request : HoldsThread(req'[x])
  <2>1. HoldsThread([req[r] EXCEPT !.pc = pc])
    BY <1>a DEF HoldsThread, Req
  <2>2. pc \in PC
    BY DEF PC
  <2>3. QED
    BY <1>b, <1>d, <2>1, <2>2
(* getOrCreateThread hands the thread to the rest of the handler. *)
<1>c. ASSUME NEW r \in Request, NEW t \in Request, WithThread(r, t)
      PROVE  /\ req' \in [Request -> Req]
             /\ \A x \in Request : HoldsThread(req'[x])
  <2>1. PICK pc \in {"insertMessage", "done"} :
          req' = [req EXCEPT ![r] = [req[r] EXCEPT !.threadId = t, !.pc = pc]]
    BY <1>a, <1>c DEF WithThread
  <2>2. [req[r] EXCEPT !.threadId = t, !.pc = pc] \in Req
    BY <1>a, ZenonT(60) DEF Req, Running
  <2>3. HoldsThread([req[r] EXCEPT !.threadId = t, !.pc = pc])
    BY <1>a, NoneAssumption DEF HoldsThread, Req
  <2>4. QED
    BY <2>1, <2>2, <2>3, ReqStep
<1>5. ASSUME NEW r \in Request, CheckBlock(r)
      PROVE  TypeOK'
  BY <1>5, <1>a, <1>b DEF TypeOK, CheckBlock, PC, Running, HoldsThread, Req
<1>6. ASSUME NEW r \in Request, FindThread(r)
      PROVE  TypeOK'
  <2>1. \A t \in ThreadsOfPair(req[r].user, req[r].peer) : t.id \in Request
    BY DEF ThreadsOfPair, TypeOK, Thread
  <2>2. req' \in [Request -> Req] /\ \A x \in Request : HoldsThread(req'[x])
    BY <1>6, <1>a, <1>b, <1>c, <2>1 DEF FindThread, PC, Running, HoldsThread, Req
  <2>3. QED
    BY <1>6, <2>2 DEF TypeOK, FindThread, HoldsThread
<1>7. ASSUME NEW r \in Request, InsertThread(r)
      PROVE  TypeOK'
  <2>1. NormalizePair(req[r].user, req[r].peer) \in User \X User
    BY <1>a, PairType DEF Req
  <2>2. threads' \subseteq Thread
    BY <1>7, <2>1, MaxTimeAssumption DEF TypeOK, InsertThread, Thread, Never
  <2>3. req' \in [Request -> Req] /\ \A x \in Request : HoldsThread(req'[x])
    BY <1>7, <1>a, <1>b, <1>c DEF InsertThread, PC, Running, HoldsThread, Req
  <2>4. QED
    BY <1>7, <2>2, <2>3 DEF TypeOK, InsertThread, HoldsThread
<1>8. ASSUME NEW r \in Request, InsertMessage(r)
      PROVE  TypeOK'
  <2> PICK at \in now .. MaxTime :
         /\ messages' = messages \cup
              {[id |-> r, threadId |-> req[r].threadId, senderId |-> req[r].user,
                isRead |-> FALSE, createdAt |-> at]}
         /\ req' = [req EXCEPT ![r].pc = "bump", ![r].at = at]
         /\ now' = at
    BY <1>8 DEF InsertMessage
  <2> DEFINE q == [req[r] EXCEPT !.pc = "bump", !.at = at]
             m == [id |-> r, threadId |-> req[r].threadId, senderId |-> req[r].user,
                   isRead |-> FALSE, createdAt |-> at]
  <2>1. req[r].threadId \in Request /\ req[r].user \in User
    BY <1>8, <1>a DEF InsertMessage, At, HoldsThread, Req
  <2>2. at \in 1 .. MaxTime /\ at \in Never .. MaxTime
    BY MaxTimeAssumption DEF TypeOK, Never
  <2>3. m \in Message
    BY <2>1, <2>2 DEF Message
  <2>4. messages' \subseteq Message
    BY <2>3 DEF TypeOK
  <2>5. q \in Req /\ HoldsThread(q)
    BY <1>a, <2>1, <2>2, NoneAssumption, ZenonT(60) DEF Running, HoldsThread, Req
  <2>6. req' = [req EXCEPT ![r] = q]
    BY <1>a
  <2>7. req' \in [Request -> Req] /\ \A x \in Request : HoldsThread(req'[x])
    BY <2>5, <2>6, ReqStep
  <2>8. QED
    BY <1>8, <2>2, <2>4, <2>7 DEF TypeOK, InsertMessage, HoldsThread
<1>9. ASSUME NEW r \in Request, Bump(r)
      PROVE  TypeOK'
  <2>a. \A t \in Thread : [t EXCEPT !.lastMessageAt = req[r].at] \in Thread
    BY <1>a DEF Thread, Req
  <2>1. threads' \subseteq Thread
    BY <1>9, <2>a DEF TypeOK, Bump
  <2>2. QED
    BY <1>9, <1>a, <1>b, <2>1 DEF TypeOK, Bump, At, PC, Running, HoldsThread, Req
<1>10. ASSUME NEW r \in Request, Reload(r)
       PROVE  TypeOK'
  <2> DEFINE q == [req[r] EXCEPT !.pc = "emitMessage", !.ids = {r} \cap Ids(messages)]
  <2>1. q \in Req /\ HoldsThread(q)
    <3>1. q \in Req
      BY <1>a, IdsType DEF PC, Running
    <3>2. q.threadId # None
      BY <1>10, <1>a DEF Reload, At, HoldsThread, Req
    <3>3. QED
      BY <3>1, <3>2 DEF HoldsThread
  <2>2. req' = [req EXCEPT ![r] = q]
    BY <1>10, <1>a DEF Reload
  <2>3. req' \in [Request -> Req] /\ \A x \in Request : HoldsThread(req'[x])
    BY <2>1, <2>2, ReqStep
  <2>4. QED
    BY <1>10, <2>1, <2>2, <2>3 DEF TypeOK, Reload, HoldsThread
<1>11. ASSUME NEW r \in Request, EmitMessage(r)
       PROVE  TypeOK'
  <2>1. ReceivedEvent(r) \in Event
    BY <1>11, <1>a DEF EmitMessage, ReceivedEvent, Event, At, HoldsThread, Req
  <2>2. inbox' \in [User -> Seq(Event)]
    BY <1>11, <1>a, <2>1, EmitType DEF EmitMessage, Req
  <2>3. GoTo(r, "failed") \/ GoTo(r, "done")
    BY <1>11 DEF EmitMessage
  <2>4. QED
    BY <1>11, <1>d, <2>2, <2>3 DEF TypeOK, EmitMessage, HoldsThread
<1>12. ASSUME NEW r \in Request, FindUnread(r)
       PROVE  TypeOK'
  <2> DEFINE ids == Ids(UnreadIncoming(req[r].threadId, req[r].user))
  <2>1. PICK pc \in {"done", "flip"} :
          req' = [req EXCEPT ![r] = [req[r] EXCEPT !.ids = ids, !.pc = pc]]
    BY <1>12, <1>a DEF FindUnread
  <2>2. ids \subseteq Request
    BY DEF TypeOK, Ids, UnreadIncoming, Message
  <2> DEFINE q == [req[r] EXCEPT !.ids = ids, !.pc = pc]
  <2>3. q \in Req
    <3> HIDE DEF ids
    <3>1. QED
      BY <1>a, <2>2, IdsType DEF PC, Running
  <2>4. HoldsThread(q)
    BY <1>a DEF HoldsThread, Req
  <2>5. req' \in [Request -> Req] /\ \A x \in Request : HoldsThread(req'[x])
    BY <2>1, <2>3, <2>4, ReqStep
  <2>6. QED
    BY <1>12, <2>1, <2>3, <2>4, <2>5 DEF TypeOK, FindUnread, HoldsThread
<1>13. ASSUME NEW r \in Request, Flip(r)
       PROVE  TypeOK'
  <2>1. messages' \subseteq Message
    BY <1>13 DEF TypeOK, Flip, MarkRows, Message
  <2>2. QED
    BY <1>13, <1>a, <1>b, <2>1 DEF TypeOK, Flip, PC, Running, HoldsThread, Req
<1>14. ASSUME NEW r \in Request, EmitRead(r)
       PROVE  TypeOK'
  <2>1. PICK t \in threads :
          Emit(OtherParticipant(t, req[r].user),
               [kind |-> "read", threadId |-> t.id, ids |-> req[r].ids, by |-> req[r].user])
    BY <1>14 DEF EmitRead
  <2>2. /\ OtherParticipant(t, req[r].user) \in User
        /\ [kind |-> "read", threadId |-> t.id, ids |-> req[r].ids, by |-> req[r].user]
             \in Event
    BY <1>a DEF TypeOK, Thread, Req, Event, OtherParticipant
  <2>3. inbox' \in [User -> Seq(Event)]
    BY <2>1, <2>2, EmitType
  <2>4. GoTo(r, "done")
    BY <1>14 DEF EmitRead
  <2>5. QED
    BY <1>14, <1>d, <2>3, <2>4 DEF TypeOK, EmitRead, HoldsThread
<1>15. ASSUME NEW r \in Request, Remove(r)
       PROVE  TypeOK'
  BY <1>15, <1>a, <1>b DEF TypeOK, Remove, PC, Running, HoldsThread, Req
<1>16. ASSUME NEW r \in Request, EmitDeleted(r)
       PROVE  TypeOK'
  <2>1. PICK t \in threads :
          EmitToBoth(OtherParticipant(t, req[r].user), req[r].user,
               [kind |-> "deleted", threadId |-> t.id, ids |-> req[r].ids,
                by |-> req[r].user])
    BY <1>16 DEF EmitDeleted
  <2>2. /\ OtherParticipant(t, req[r].user) \in User
        /\ [kind |-> "deleted", threadId |-> t.id, ids |-> req[r].ids, by |-> req[r].user]
             \in Event
    BY <1>a DEF TypeOK, Thread, Req, Event, OtherParticipant
  <2>3. inbox' \in [User -> Seq(Event)]
    BY <1>a, <2>1, <2>2, EmitType DEF Req
  <2>4. GoTo(r, "done")
    BY <1>16 DEF EmitDeleted
  <2>5. QED
    BY <1>16, <1>d, <2>3, <2>4 DEF TypeOK, EmitDeleted, HoldsThread
<1>17. ASSUME NEW r \in Request, Fail(r)
       PROVE  TypeOK'
  BY <1>17, <1>a, <1>b DEF TypeOK, Fail, PC, HoldsThread, Req
<1>18. ASSUME NEW u \in User, NEW v \in User, Block(u, v) \/ Unblock(u, v)
       PROVE  TypeOK'
  BY <1>18 DEF TypeOK, Block, Unblock
<1>19. CASE UNCHANGED vars
  BY <1>19 DEF TypeOK, vars
<1>20. QED
  BY <1>1, <1>2, <1>3, <1>4, <1>5, <1>6, <1>7, <1>8, <1>9, <1>10, <1>11, <1>12, <1>13,
     <1>14, <1>15, <1>16, <1>17, <1>18, <1>19 DEF Next, Call, Step

(* Tables, requests and rooms stay well typed; in particular no handler uses
   a thread it has not got. *)
THEOREM TypeCorrect == Spec => []TypeOK
<1>1. Init => TypeOK
  <2>1. IdleReq.pc = "idle"
    BY DEF IdleReq
  <2>2. << >> \in Seq(Event)
    OBVIOUS
  <2>3. QED
    BY <2>1, <2>2, IdleReqType, MaxTimeAssumption DEF Init, TypeOK
<1>2. QED
  BY <1>1, TypeOKStep, PTL DEF Spec
-----------------------------------------------------------------------------
(* One thread per pair *)

Early == {"checkBlock", "findThread", "insertThread"}

(* Apart from InsertThread and Bump no action writes the table of threads, and
   whoever is on the way to its thread lookup has not named itself. *)
LEMMA PairsStep == TypeOK /\ PairsNormalized /\ [Next]_vars => PairsNormalized'
<1> SUFFICES ASSUME TypeOK, PairsNormalized, [Next]_vars PROVE PairsNormalized'
  OBVIOUS
<1>a. req \in [Request -> Req]
  BY DEF TypeOK
<1>1. ASSUME NEW r \in Request, Call(r)
      PROVE  PairsNormalized'
  <2>1. ASSUME NEW u \in User, NEW v \in User, NEW valid \in BOOLEAN, Send(r, u, v, valid)
        PROVE  PairsNormalized'
    BY <1>a, <2>1 DEF PairsNormalized, Send, Begin, Req
  <2>2. ASSUME NEW u \in User, NEW v \in User, NEW known \in BOOLEAN,
               OpenThread(r, u, v, known)
        PROVE  PairsNormalized'
    BY <1>a, <2>2 DEF PairsNormalized, OpenThread, Begin, Req
  <2>3. ASSUME NEW u \in User, NEW t \in Request, MarkThreadRead(r, u, t)
        PROVE  PairsNormalized'
    BY <1>a, <2>3 DEF PairsNormalized, MarkThreadRead, Req
  <2>4. ASSUME NEW u \in User, NEW i \in Request, DeleteMessage(r, u, i)
        PROVE  PairsNormalized'
    <3>1. ASSUME NEW m \in messages, Deleting(r, u, m)
          PROVE  PairsNormalized'
      <4>1. req'[r].pc = "remove" /\ \A x \in Request : x # r => req'[x] = req[x]
        BY <1>a, <3>1 DEF Deleting, Req
      <4>2. UNCHANGED threads
        BY <2>4 DEF DeleteMessage
      <4>3. QED
        BY <4>1, <4>2 DEF PairsNormalized
    <3>2. CASE RefuseDelete(r, u)
      BY <1>a, <2>4, <3>2 DEF PairsNormalized, DeleteMessage, RefuseDelete, Req
    <3>3. QED
      BY <2>4, <3>1, <3>2 DEF DeleteMessage
  <2>5. QED
    BY <1>1, <2>1, <2>2, <2>3, <2>4 DEF Call
<1>2. ASSUME NEW r \in Request, CheckBlock(r) \/ FindThread(r)
      PROVE  PairsNormalized'
  <2>1. \A x \in Request : /\ req'[x].user = req[x].user /\ req'[x].peer = req[x].peer
                           /\ req'[x].pc \in Early => req[x].pc \in Early
    <3>1. CASE CheckBlock(r)
      BY <1>a, <3>1 DEF CheckBlock, GoTo, At, Early, Req
    <3>2. CASE FindThread(r)
      <4>1. req[r].pc \in Early
        BY <3>2 DEF FindThread, At, Early
      <4>2. CASE GoTo(r, "insertThread")
        BY <1>a, <4>1, <4>2 DEF GoTo, Early, Req
      <4>3. ASSUME NEW t, WithThread(r, t)
            PROVE  \A x \in Request :
                     /\ req'[x].user = req[x].user /\ req'[x].peer = req[x].peer
                     /\ req'[x].pc \in Early => req[x].pc \in Early
        BY <1>a, <4>1, <4>3 DEF WithThread, Early, Req
      <4>4. QED
        BY <3>2, <4>2, <4>3 DEF FindThread
    <3>3. QED
      BY <1>2, <3>1, <3>2
  <2>2. UNCHANGED threads
    BY <1>2 DEF CheckBlock, FindThread
  <2>3. \A x \in Request : req[x].pc \in Early => req[x].user # req[x].peer
    BY DEF PairsNormalized, Early
  <2>4. \A x \in Request : req'[x].pc \in Early => req'[x].user # req'[x].peer
    BY <2>1, <2>3
  <2>5. QED
    BY <2>2, <2>4 DEF PairsNormalized, Early
<1>3. ASSUME NEW r \in Request, InsertThread(r)
      PROVE  PairsNormalized'
  <2> DEFINE pair == NormalizePair(req[r].user, req[r].peer)
             row == [id |-> r, userAId |-> pair[1], userBId |-> pair[2],
                     lastMessageAt |-> Never]
  <2>1. \A x \in Request : req'[x].pc \in Early => req'[x].user # req'[x].peer
    BY <1>a, <1>3 DEF PairsNormalized, InsertThread, WithThread, GoTo, Early, Req
  <2>2. CASE threads' = threads
    BY <2>1, <2>2 DEF PairsNormalized, Early
  <2>3. CASE ThreadsOfPair(req[r].user, req[r].peer) = {} /\ threads' = threads \cup {row}
    <3>1. pair \in User \X User /\ pair[1] < pair[2]
      BY <1>a, <1>3, PairType DEF PairsNormalized, InsertThread, At, Req
    <3>2. \A t \in threads : <<t.userAId, t.userBId>> # pair
      BY <2>3 DEF ThreadsOfPair
    <3>3. \A t \in threads : ~(t.userAId = row.userAId /\ t.userBId = row.userBId)
      BY <3>1, <3>2
    <3>4. row.userAId < row.userBId
      BY <3>1
    <3>5. QED
      BY <2>1, <2>3, <3>3, <3>4 DEF PairsNormalized, Early
  <2>4. QED
    BY <1>3, <2>2, <2>3 DEF InsertThread
<1>4. ASSUME NEW r \in Request, Bump(r)
      PROVE  PairsNormalized'
  <2>1. \A x \in Request : req'[x].pc \in Early => req'[x].user # req'[x].peer
    BY <1>a, <1>4 DEF PairsNormalized, Bump, GoTo, Early, Req
  <2>2. \A t \in threads' : \E s \in threads :
          /\ t.userAId = s.userAId /\ t.userBId = s.userBId
          /\ t = IF s.id = req[r].threadId
                 THEN [s EXCEPT !.lastMessageAt = req[r].at] ELSE s
    BY <1>4 DEF Bump, TypeOK, Thread
  <2>3. \A x \in Request : req[x].pc \in Early => req[x].user # req[x].peer
    BY DEF PairsNormalized, Early
  <2>4. \A x \in Request : req'[x].pc \in Early => req'[x].user # req'[x].peer
    BY <2>1, <2>3
  <2>5. QED
    BY <2>2, <2>4 DEF PairsNormalized, Early
<1>5. ASSUME NEW r \in Request, InsertMessage(r) \/ Reload(r) \/ EmitMessage(r)
      PROVE  PairsNormalized'
  BY <1>a, <1>5 DEF PairsNormalized, InsertMessage, Reload, EmitMessage, GoTo, Req
<1>6. ASSUME NEW r \in Request, FindUnread(r) \/ Flip(r) \/ EmitRead(r)
      PROVE  PairsNormalized'
  BY <1>a, <1>6 DEF PairsNormalized, FindUnread, Flip, EmitRead, GoTo, Req
<1>7. ASSUME NEW r \in Request, Remove(r) \/ EmitDeleted(r) \/ Fail(r)
      PROVE  PairsNormalized'
  BY <1>a, <1>7 DEF PairsNormalized, Remove, EmitDeleted, Fail, GoTo, Req
<1>8. ASSUME NEW u \in User, NEW v \in User, Block(u, v) \/ Unblock(u, v)
      PROVE  PairsNormalized'
  BY <1>8 DEF PairsNormalized, Block, Unblock
<1>9. CASE UNCHANGED vars
  BY <1>9 DEF PairsNormalized, vars
<1>10. QED
  BY <1>1, <1>2, <1>3, <1>4, <1>5, <1>6, <1>7, <1>8, <1>9 DEF Next, Step

(* Whatever first contacts race, two users never get two threads. *)
THEOREM OneThread == Spec => []OneThreadPerPair
<1>1. Init => PairsNormalized
  <2>1. IdleReq.pc = "idle"
    BY DEF IdleReq
  <2>2. QED
    BY <2>1 DEF Init, PairsNormalized
<1>2. TypeOK /\ PairsNormalized => OneThreadPerPair
  <2> SUFFICES ASSUME TypeOK, PairsNormalized, NEW s \in threads, NEW t \in threads,
                      Participants(s) = Participants(t)
               PROVE  s = t
    BY DEF OneThreadPerPair
  <2>1. /\ s.userAId \in Nat /\ s.userBId \in Nat /\ s.userAId < s.userBId
        /\ t.userAId \in Nat /\ t.userBId \in Nat /\ t.userAId < t.userBId
    BY UserAssumption DEF TypeOK, Thread, PairsNormalized
  <2>2. s.userAId = t.userAId /\ s.userBId = t.userBId
    BY <2>1 DEF Participants
  <2>3. QED
    BY <2>2 DEF PairsNormalized
<1>3. QED
  BY <1>1, <1>2, PairsStep, TypeCorrect, PTL DEF Spec

-----------------------------------------------------------------------------
(* Blocks are respected *)

(* A send waits for its check, or was refused, as long as it is walled. *)
LEMMA WallsStep == TypeOK /\ PairsNormalized /\ WallsHold /\ [Next]_vars => WallsHold'
<1> SUFFICES ASSUME TypeOK, PairsNormalized, WallsHold, [Next]_vars PROVE WallsHold'
  OBVIOUS
<1>a. req \in [Request -> Req] /\ walled \subseteq Request
  BY DEF TypeOK
<1> USE DEF WallsHold, WalledSendsStoreNothing, Ids, At
<1>1. ASSUME NEW r \in Request, Call(r)
      PROVE  WallsHold'
  <2>1. ASSUME NEW u \in User, NEW v \in User, NEW valid \in BOOLEAN, Send(r, u, v, valid)
        PROVE  WallsHold'
    BY <1>a, <2>1 DEF Send, Begin, IsBlockedEitherWay, Req
  <2>2. ASSUME NEW u \in User, NEW v \in User, NEW known \in BOOLEAN,
               OpenThread(r, u, v, known)
        PROVE  WallsHold'
    BY <1>a, <2>2 DEF OpenThread, Begin, Req
  <2>3. ASSUME NEW u \in User, NEW t \in Request, MarkThreadRead(r, u, t)
        PROVE  WallsHold'
    BY <1>a, <2>3 DEF MarkThreadRead, Req
  <2>4. ASSUME NEW u \in User, NEW i \in Request, DeleteMessage(r, u, i)
        PROVE  WallsHold'
    BY <1>a, <2>4 DEF DeleteMessage, Deleting, RefuseDelete, Req
  <2>5. QED
    BY <1>1, <2>1, <2>2, <2>3, <2>4 DEF Call
<1>2. ASSUME NEW r \in Request, CheckBlock(r)
      PROVE  WallsHold'
  BY <1>a, <1>2 DEF CheckBlock, IsBlockedEitherWay, GoTo, PairsNormalized, Req
<1>3. ASSUME NEW r \in Request, FindThread(r) \/ InsertThread(r)
      PROVE  WallsHold'
  <2>1. \A x \in Request : /\ req'[x].user = req[x].user /\ req'[x].peer = req[x].peer
                           /\ x # r => req'[x].pc = req[x].pc
                           /\ req'[r].pc # "idle"
    <3>1. CASE FindThread(r)
      <4>1. CASE GoTo(r, "insertThread")
        BY <1>a, <4>1 DEF GoTo, Req
      <4>2. ASSUME NEW t, WithThread(r, t)
            PROVE  /\ \A x \in Request :
                        /\ req'[x].user = req[x].user /\ req'[x].peer = req[x].peer
                        /\ x # r => req'[x].pc = req[x].pc
                   /\ req'[r].pc # "idle"
        BY <1>a, <4>2 DEF WithThread, Req
      <4>3. QED
        BY <3>1, <4>1, <4>2 DEF FindThread
    <3>2. CASE InsertThread(r)
      BY <1>a, <3>2 DEF InsertThread, WithThread, GoTo, Req
    <3>3. QED
      BY <1>3, <3>1, <3>2
  <2>2. r \notin walled /\ UNCHANGED <<messages, blocks, walled>>
    BY <1>3 DEF FindThread, InsertThread
  <2>3. \A x \in walled : x # r /\ x \in Request
    BY <1>a, <2>2
  <2>4. \A x \in walled' : /\ req'[x].pc \in {"checkBlock", "failed"}
                           /\ \/ <<req'[x].user, req'[x].peer>> \in blocks'
                              \/ <<req'[x].peer, req'[x].user>> \in blocks'
    BY <2>1, <2>2, <2>3
  <2>5. \A x \in Request : req'[x].pc = "idle" => x \notin Ids(messages')
    BY <2>1, <2>2
  <2>6. QED
    BY <2>2, <2>4, <2>5
<1>4. ASSUME NEW r \in Request, InsertMessage(r)
      PROVE  WallsHold'
  <2>1. r \notin walled
    BY <1>4 DEF InsertMessage
  <2>2. \A m \in messages' : m \in messages \/ m.id = r
    BY <1>4 DEF InsertMessage
  <2>3. \A x \in Request : x # r => req'[x] = req[x]
    BY <1>a, <1>4 DEF InsertMessage
  <2>4. req'[r].pc = "bump" /\ UNCHANGED <<blocks, walled>>
    BY <1>a, <1>4 DEF InsertMessage, Req
  <2>5. QED
    BY <1>a, <2>1, <2>2, <2>3, <2>4
<1>5. ASSUME NEW r \in Request, Bump(r) \/ Reload(r) \/ EmitMessage(r)
      PROVE  WallsHold'
  BY <1>a, <1>5 DEF Bump, Reload, EmitMessage, GoTo, Req
<1>6. ASSUME NEW r \in Request, FindUnread(r) \/ EmitRead(r)
      PROVE  WallsHold'
  BY <1>a, <1>6 DEF FindUnread, EmitRead, GoTo, Req
<1>7. ASSUME NEW r \in Request, Flip(r)
      PROVE  WallsHold'
  <2>1. Ids(messages') = Ids(messages)
    <3> DEFINE rows == UnreadIncoming(req[r].threadId, req[r].user)
               flipped(m) == IF m \in rows THEN [m EXCEPT !.isRead = TRUE] ELSE m
    <3>1. messages' = {flipped(m) : m \in messages}
      BY <1>7 DEF Flip, MarkRows
    <3>2. \A m \in messages : flipped(m).id = m.id
      BY DEF TypeOK, Message
    <3>3. QED
      BY <3>1, <3>2
  <2>2. QED
    BY <1>a, <1>7, <2>1, ZenonT(60) DEF Flip, GoTo, Req
<1>8. ASSUME NEW r \in Request, Remove(r) \/ EmitDeleted(r) \/ Fail(r)
      PROVE  WallsHold'
  BY <1>a, <1>8 DEF Remove, EmitDeleted, Fail, Running, GoTo, Req
<1>9. ASSUME NEW u \in User, NEW v \in User, Block(u, v) \/ Unblock(u, v)
      PROVE  WallsHold'
  BY <1>9 DEF Block, Unblock
<1>10. CASE UNCHANGED vars
  BY <1>10 DEF vars
<1>11. QED
  BY <1>1, <1>2, <1>3, <1>4, <1>5, <1>6, <1>7, <1>8, <1>9, <1>10 DEF Next, Step

(* A send that a block faces from beginning to end stores no message. *)
THEOREM BlocksRespected == Spec => []WalledSendsStoreNothing
<1>1. Init => PairsNormalized /\ WallsHold
  <2>1. IdleReq.pc = "idle"
    BY DEF IdleReq
  <2>2. QED
    BY <2>1 DEF Init, PairsNormalized, WallsHold, WalledSendsStoreNothing, Ids
<1>2. WallsHold => WalledSendsStoreNothing
  BY DEF WallsHold
<1>3. QED
  BY <1>1, <1>2, PairsStep, WallsStep, TypeCorrect, PTL DEF Spec
=============================================================================
