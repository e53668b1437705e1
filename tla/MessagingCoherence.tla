------------------------- MODULE MessagingCoherence -------------------------
(***************************************************************************)
(* Tables, handlers and what users have been told agree in Messaging, for  *)
(* every set of users, calls and instants; hence what is said of messages, *)
(* events and deletions, and that Messaging implements Conversation.       *)
(***************************************************************************)
EXTENDS MessagingProofs

-----------------------------------------------------------------------------
(* What a step does to the memory of the handlers *)

(* Only the handler of r moves. *)
Only(r) == \A x \in Request : x # r => req'[x] = req[x]

(* The handler of r keeps its call, its thread and its time. *)
SameCall(r) == /\ req'[r].user = req[r].user /\ req'[r].peer = req[r].peer
               /\ req'[r].threadId = req[r].threadId /\ req'[r].at = req[r].at

LEMMA GoToMoves ==
  ASSUME TypeOK, NEW r \in Request, NEW pc, GoTo(r, pc)
  PROVE  Only(r) /\ SameCall(r) /\ req'[r].pc = pc /\ req'[r].ids = req[r].ids
BY DEF TypeOK, GoTo, Only, SameCall, Req

LEMMA BeginMoves ==
  ASSUME TypeOK, NEW r \in Request, NEW op, NEW pc, NEW u, NEW v, Begin(r, op, pc, u, v)
  PROVE  /\ Only(r) /\ req[r].pc = "idle"
         /\ req'[r].pc = pc /\ req'[r].user = u /\ req'[r].peer = v
         /\ req'[r].threadId = req[r].threadId /\ req'[r].at = req[r].at
         /\ req'[r].ids = req[r].ids
BY DEF TypeOK, Begin, At, Only, Req

LEMMA WithThreadMoves ==
  ASSUME TypeOK, NEW r \in Request, NEW t, WithThread(r, t)
  PROVE  /\ Only(r) /\ req'[r].pc \in {"insertMessage", "done"}
         /\ req'[r].user = req[r].user /\ req'[r].peer = req[r].peer
         /\ req'[r].threadId = t /\ req'[r].at = req[r].at
         /\ req'[r].ids = req[r].ids
BY DEF TypeOK, WithThread, Only, Req

LEMMA InsertMessageMoves ==
  ASSUME TypeOK, NEW r \in Request, InsertMessage(r)
  PROVE  /\ Only(r) /\ req[r].pc = "insertMessage" /\ req'[r].pc = "bump"
         /\ req'[r].user = req[r].user /\ req'[r].peer = req[r].peer
         /\ req'[r].threadId = req[r].threadId /\ req'[r].at # Never
         /\ req'[r].at \in now .. MaxTime
         /\ messages' = messages \cup
              {[id |-> r, threadId |-> req[r].threadId, senderId |-> req[r].user,
                isRead |-> FALSE, createdAt |-> req'[r].at]}
<1>1. PICK at \in now .. MaxTime :
        /\ messages' = messages \cup
            {[id |-> r, threadId |-> req[r].threadId, senderId |-> req[r].user,
              isRead |-> FALSE, createdAt |-> at]}
        /\ req' = [req EXCEPT ![r].pc = "bump", ![r].at = at]
  BY DEF InsertMessage
<1>2. now \in Nat /\ now > 0
  BY MaxTimeAssumption DEF TypeOK
<1>3. req'[r].at = at /\ at # Never
  BY <1>1, <1>2 DEF TypeOK, Req, Never
<1>4. QED
  BY <1>1, <1>3 DEF TypeOK, InsertMessage, At, Only, Req

LEMMA ReloadMoves ==
  ASSUME TypeOK, NEW r \in Request, Reload(r)
  PROVE  /\ Only(r) /\ SameCall(r) /\ req[r].pc = "reload" /\ req'[r].pc = "emitMessage"
         /\ req'[r].ids \subseteq {r}
BY DEF TypeOK, Reload, At, Only, SameCall, Req

LEMMA MarkMoves ==
  ASSUME TypeOK, NEW r \in Request, NEW u \in User, NEW t \in Request, MarkThreadRead(r, u, t)
  PROVE  /\ Only(r) /\ req[r].pc = "idle" /\ req'[r].at = req[r].at
         /\ req'[r].user = u /\ req'[r].threadId = t /\ req'[r].ids = req[r].ids
         /\ req'[r].pc = IF \E x \in threads : x.id = t /\ u \in Participants(x)
                         THEN "findUnread" ELSE "failed"
BY DEF TypeOK, MarkThreadRead, At, Only, Req

LEMMA FindUnreadMoves ==
  ASSUME TypeOK, NEW r \in Request, FindUnread(r)
  PROVE  /\ Only(r) /\ SameCall(r)
         /\ req[r].pc = "findUnread" /\ req'[r].pc \in {"done", "flip"}
         /\ req'[r].ids = Ids(UnreadIncoming(req[r].threadId, req[r].user))
<1> DEFINE ids == Ids(UnreadIncoming(req[r].threadId, req[r].user))
           pc  == IF ids = {} THEN "done" ELSE "flip"
<1>1. req' = [req EXCEPT ![r].ids = ids, ![r].pc = pc] /\ req[r].pc = "findUnread"
  BY DEF FindUnread, At
<1>2. pc \in {"done", "flip"}
  OBVIOUS
<1> HIDE DEF ids, pc
<1>3. /\ Only(r) /\ SameCall(r)
      /\ req'[r].pc = pc /\ req'[r].ids = ids
  BY <1>1 DEF TypeOK, Only, SameCall, Req
<1>4. QED
  BY <1>1, <1>2, <1>3 DEF ids

LEMMA DeleteMoves ==
  ASSUME TypeOK, NEW r \in Request, NEW u \in User, NEW i \in Request, DeleteMessage(r, u, i)
  PROVE  /\ Only(r) /\ req[r].pc = "idle" /\ req'[r].at = req[r].at /\ req'[r].user = u
         /\ \/ req'[r].pc = "failed"
            \/ /\ req'[r].pc = "remove"
               /\ \E m \in messages : /\ m.senderId = u /\ req'[r].ids = {m.id}
                                      /\ req'[r].threadId = m.threadId
<1>1. ASSUME NEW m \in messages, m.senderId = u, Deleting(r, u, m)
      PROVE  /\ Only(r) /\ req'[r].at = req[r].at /\ req'[r].user = u
             /\ req'[r].pc = "remove" /\ req'[r].ids = {m.id}
             /\ req'[r].threadId = m.threadId
  BY <1>1 DEF TypeOK, Deleting, Only, Req
<1>2. ASSUME RefuseDelete(r, u)
      PROVE  Only(r) /\ req'[r].at = req[r].at /\ req'[r].user = u /\ req'[r].pc = "failed"
  BY <1>2 DEF TypeOK, RefuseDelete, Only, Req
<1>3. QED
  BY <1>1, <1>2 DEF DeleteMessage, At

-----------------------------------------------------------------------------
(* What no step undoes *)

ThreadsStay ==
  \A t \in threads : \E s \in threads' :
    s.id = t.id /\ s.userAId = t.userAId /\ s.userBId = t.userBId

PostedStay ==
  \A r \in Request : Posted(r) =>
    /\ req'[r].at # Never /\ req'[r].user = req[r].user /\ req'[r].peer = req[r].peer
    /\ req'[r].threadId = req[r].threadId

(* A row of messages is an old one, which at most became read, or new. *)
MessagesStay ==
  \A m \in messages' :
    \/ ~Posted(m.id)
    \/ \E n \in messages : /\ n.id = m.id /\ n.senderId = m.senderId
                           /\ n.threadId = m.threadId /\ (n.isRead => m.isRead)

EventsStay == \A u \in User : Received(u) \subseteq Received(u)'

Stay == ThreadsStay /\ PostedStay /\ MessagesStay /\ EventsStay

LEMMA ThreadsAlwaysStay == TypeOK /\ [Next]_vars => ThreadsStay
<1> SUFFICES ASSUME TypeOK, [Next]_vars PROVE ThreadsStay
  OBVIOUS
<1>1. CASE threads \subseteq threads'
  BY <1>1 DEF ThreadsStay
<1>2. ASSUME NEW r \in Request, Bump(r)
      PROVE  ThreadsStay
  <2> DEFINE bumped(t) == IF t.id = req[r].threadId
                          THEN [t EXCEPT !.lastMessageAt = req[r].at] ELSE t
  <2>1. threads' = {bumped(t) : t \in threads}
    BY <1>2 DEF Bump
  <2>2. \A t \in threads : /\ bumped(t).id = t.id /\ bumped(t).userAId = t.userAId
                           /\ bumped(t).userBId = t.userBId
    BY DEF TypeOK, Thread
  <2>3. QED
    BY <2>1, <2>2 DEF ThreadsStay
<1>3. threads \subseteq threads' \/ \E r \in Request : Bump(r)
  BY ZenonT(60) DEF Next, Call, Step, Send, OpenThread, MarkThreadRead, DeleteMessage, CheckBlock,
         FindThread, InsertThread, InsertMessage, Reload, EmitMessage, FindUnread, Flip,
         EmitRead, Remove, EmitDeleted, Fail, Block, Unblock, vars
<1>4. QED
  BY <1>1, <1>2, <1>3

(* A request posts once: what it is about was settled before. *)
LEMMA PostedAlwaysStay == TypeOK /\ Coherent /\ [Next]_vars => PostedStay
<1> SUFFICES ASSUME TypeOK, Coherent, [Next]_vars PROVE PostedStay
  OBVIOUS
<1>a. \A x \in Request :
        Posted(x) => req[x].pc \in {"bump", "reload", "emitMessage", "done", "failed"}
  BY DEF Coherent, HandlerAgrees
<1> USE DEF PostedStay, Posted, Only
<1>1. ASSUME NEW r \in Request, Call(r)
      PROVE  PostedStay
  <2>1. ASSUME NEW u \in User, NEW v \in User, NEW valid \in BOOLEAN, Send(r, u, v, valid)
        PROVE  PostedStay
    BY <1>a, <2>1, BeginMoves DEF Send
  <2>2. ASSUME NEW u \in User, NEW v \in User, NEW known \in BOOLEAN,
               OpenThread(r, u, v, known)
        PROVE  PostedStay
    BY <1>a, <2>2, BeginMoves DEF OpenThread
  <2>3. ASSUME NEW u \in User, NEW t \in Request, MarkThreadRead(r, u, t)
        PROVE  PostedStay
    BY <1>a, <2>3, MarkMoves
  <2>4. ASSUME NEW u \in User, NEW i \in Request, DeleteMessage(r, u, i)
        PROVE  PostedStay
    BY <1>a, <2>4, DeleteMoves
  <2>5. QED
    BY <1>1, <2>1, <2>2, <2>3, <2>4 DEF Call
<1>2. ASSUME NEW r \in Request, NEW pc, GoTo(r, pc)
      PROVE  PostedStay
  BY <1>2, GoToMoves DEF SameCall
<1>3. ASSUME NEW r \in Request, NEW t, WithThread(r, t), At(r, "findThread") \/ At(r, "insertThread")
      PROVE  PostedStay
  BY <1>3, <1>a, WithThreadMoves DEF At
<1>4. ASSUME NEW r \in Request, InsertMessage(r)
      PROVE  PostedStay
  BY <1>4, <1>a, InsertMessageMoves
<1>5. ASSUME NEW r \in Request, Reload(r)
      PROVE  PostedStay
  BY <1>5, ReloadMoves DEF SameCall
<1>6. ASSUME NEW r \in Request, FindUnread(r)
      PROVE  PostedStay
  BY <1>6, FindUnreadMoves DEF SameCall
<1>7. CASE req' = req
  BY <1>7
<1>8. ASSUME NEW r \in Request, Step(r) \/ Fail(r)
      PROVE  PostedStay
  BY <1>8, <1>2, <1>3, <1>4, <1>5, <1>6
     DEF Step, CheckBlock, FindThread, InsertThread, Bump, EmitMessage, Flip, EmitRead,
         Remove, EmitDeleted, Fail
<1>9. QED
  BY <1>1, <1>7, <1>8 DEF Next, Block, Unblock, vars

LEMMA MessagesAlwaysStay == TypeOK /\ Coherent /\ [Next]_vars => MessagesStay
<1> SUFFICES ASSUME TypeOK, Coherent, [Next]_vars PROVE MessagesStay
  OBVIOUS
<1>1. CASE messages' \subseteq messages
  BY <1>1 DEF MessagesStay
<1>2. ASSUME NEW r \in Request, InsertMessage(r)
      PROVE  MessagesStay
  <2>1. ~Posted(r)
    BY <1>2 DEF Coherent, HandlerAgrees, InsertMessage, At
  <2>2. QED
    BY <1>2, <2>1, InsertMessageMoves DEF MessagesStay
<1>3. ASSUME NEW r \in Request, Flip(r)
      PROVE  MessagesStay
  <2> DEFINE rows == UnreadIncoming(req[r].threadId, req[r].user)
             flipped(m) == IF m \in rows THEN [m EXCEPT !.isRead = TRUE] ELSE m
  <2>1. messages' = {flipped(m) : m \in messages}
    BY <1>3 DEF Flip, MarkRows
  <2>2. \A m \in messages : /\ flipped(m).id = m.id /\ flipped(m).senderId = m.senderId
                            /\ flipped(m).threadId = m.threadId
                            /\ m.isRead => flipped(m).isRead
    BY DEF TypeOK, Message
  <2> HIDE DEF flipped
  <2>3. QED
    BY <2>1, <2>2 DEF MessagesStay
<1>4. \/ messages' \subseteq messages
      \/ \E r \in Request : InsertMessage(r) \/ Flip(r)
  BY ZenonT(60) DEF Next, Call, Step, Send, OpenThread, MarkThreadRead, DeleteMessage, CheckBlock,
         FindThread, InsertThread, Bump, Reload, EmitMessage, FindUnread,
         EmitRead, Remove, EmitDeleted, Fail, Block, Unblock, vars
<1>5. QED
  BY <1>1, <1>2, <1>3, <1>4

-----------------------------------------------------------------------------
(* What users receive *)

LEMMA AppendElements ==
  ASSUME NEW s \in Seq(Event), NEW e
  PROVE  {Append(s, e)[i] : i \in DOMAIN Append(s, e)} = {s[i] : i \in DOMAIN s} \cup {e}
<1>1. /\ DOMAIN s = 1 .. Len(s) /\ Len(s) \in Nat
      /\ DOMAIN Append(s, e) = 1 .. Len(s) + 1
      /\ Append(s, e)[Len(s) + 1] = e
      /\ \A i \in 1 .. Len(s) : Append(s, e)[i] = s[i]
  OBVIOUS
<1>2. \A i \in 1 .. Len(s) + 1 : i = Len(s) + 1 \/ i \in 1 .. Len(s)
  BY <1>1
<1>3. \A i \in 1 .. Len(s) : i \in 1 .. Len(s) + 1
  BY <1>1
<1>4. Len(s) + 1 \in 1 .. Len(s) + 1
  BY <1>1
<1>5. QED
  BY <1>1, <1>2, <1>3, <1>4, Zenon

(* An event reaches the rooms it is emitted to, and only those. *)
LEMMA EmitReceived ==
  ASSUME TypeOK, NEW u \in User, NEW e, Emit(u, e)
  PROVE  \A w \in User :
           Received(w)' = IF w = u THEN Received(w) \cup {e} ELSE Received(w)
<1>1. inbox \in [User -> Seq(Event)] /\ inbox' = [inbox EXCEPT ![u] = Append(@, e)]
  BY DEF TypeOK, Emit
<1>2. \A w \in User : inbox'[w] = IF w = u THEN Append(inbox[w], e) ELSE inbox[w]
  BY <1>1
<1>3. \A w \in User : {Append(inbox[w], e)[i] : i \in DOMAIN Append(inbox[w], e)}
                        = Received(w) \cup {e}
  <2> SUFFICES ASSUME NEW w \in User
               PROVE  {Append(inbox[w], e)[i] : i \in DOMAIN Append(inbox[w], e)}
                        = Received(w) \cup {e}
    OBVIOUS
  <2>1. inbox[w] \in Seq(Event)
    BY <1>1
  <2>2. QED
    BY <2>1, AppendElements, Zenon DEF Received
<1>4. QED
  BY <1>2, <1>3 DEF Received

LEMMA EmitToBothReceived ==
  ASSUME TypeOK, NEW u \in User, NEW v \in User, u # v, NEW e, EmitToBoth(u, v, e)
  PROVE  \A w \in User :
           Received(w)' = IF w \in {u, v} THEN Received(w) \cup {e} ELSE Received(w)
<1>1. /\ inbox \in [User -> Seq(Event)]
      /\ inbox' = [inbox EXCEPT ![u] = Append(@, e), ![v] = Append(@, e)]
  BY DEF TypeOK, EmitToBoth
<1>2. \A w \in User : inbox'[w] = IF w \in {u, v} THEN Append(inbox[w], e) ELSE inbox[w]
  BY <1>1
<1>3. \A w \in User : {Append(inbox[w], e)[i] : i \in DOMAIN Append(inbox[w], e)}
                        = Received(w) \cup {e}
  <2> SUFFICES ASSUME NEW w \in User
               PROVE  {Append(inbox[w], e)[i] : i \in DOMAIN Append(inbox[w], e)}
                        = Received(w) \cup {e}
    OBVIOUS
  <2>1. inbox[w] \in Seq(Event)
    BY <1>1
  <2>2. QED
    BY <2>1, AppendElements, Zenon DEF Received
<1>4. QED
  BY <1>2, <1>3, ZenonT(60) DEF Received

(* The rooms of a handler about to emit: two different users of its thread. *)
LEMMA ReceivedMessage ==
  ASSUME TypeOK, Coherent, NEW r \in Request, EmitMessage(r)
  PROVE  /\ req[r].pc = "emitMessage" /\ req[r].user # req[r].peer
         /\ \A w \in User :
              Received(w)' = IF w \in {req[r].user, req[r].peer}
                             THEN Received(w) \cup {ReceivedEvent(r)} ELSE Received(w)
<1>1. PICK t \in threads : Participants(t) = {req[r].user, req[r].peer}
  BY DEF Coherent, HandlerAgrees, EmitMessage, At
<1>2. t.userAId < t.userBId /\ t.userAId \in Nat /\ t.userBId \in Nat
  BY UserAssumption DEF Coherent, PairsNormalized, TypeOK, Thread
<1>3. req[r].user # req[r].peer
  BY <1>1, <1>2 DEF Participants
<1>4. req[r].user \in User /\ req[r].peer \in User
  BY DEF TypeOK, Req
<1>5. QED
  BY <1>3, <1>4, EmitToBothReceived DEF EmitMessage, At

LEMMA ReceivedRead ==
  ASSUME TypeOK, Coherent, NEW r \in Request, EmitRead(r)
  PROVE  /\ req[r].pc = "emitRead"
         /\ \E t \in threads :
              /\ t.id = req[r].threadId
              /\ OtherParticipant(t, req[r].user) # req[r].user
              /\ Participants(t) = {req[r].user, OtherParticipant(t, req[r].user)}
              /\ \A w \in User :
                   Received(w)' = IF w = OtherParticipant(t, req[r].user)
                                  THEN Received(w) \cup
                                         {[kind |-> "read", threadId |-> t.id,
                                           ids |-> req[r].ids, by |-> req[r].user]}
                                  ELSE Received(w)
<1>1. PICK t \in threads :
        /\ t.id = req[r].threadId
        /\ Emit(OtherParticipant(t, req[r].user),
               [kind |-> "read", threadId |-> t.id, ids |-> req[r].ids, by |-> req[r].user])
  BY DEF EmitRead
<1>2. t.userAId < t.userBId /\ t.userAId \in User /\ t.userBId \in User
  BY DEF Coherent, PairsNormalized, TypeOK, Thread
<1>3. t.userAId # t.userBId
  <2>1. t.userAId \in Nat /\ t.userBId \in Nat
    BY <1>2, UserAssumption
  <2>2. QED
    BY <1>2, <2>1
<1>4. req[r].user \in Participants(t)
  BY <1>1 DEF Coherent, HandlerAgrees, ThreadIdsUnique, EmitRead, At
<1>5. OtherParticipant(t, req[r].user) \in User
  BY <1>2 DEF OtherParticipant
<1>6. QED
  BY <1>1, <1>3, <1>4, <1>5, EmitReceived DEF EmitRead, At, OtherParticipant, Participants

LEMMA ReceivedDeleted ==
  ASSUME TypeOK, Coherent, NEW r \in Request, EmitDeleted(r)
  PROVE  /\ req[r].pc = "emitDeleted"
         /\ \E t \in threads :
              /\ t.id = req[r].threadId
              /\ req[r].user \in Participants(t)
              /\ \A w \in User :
                   Received(w)' = IF w \in Participants(t)
                                  THEN Received(w) \cup
                                         {[kind |-> "deleted", threadId |-> t.id,
                                           ids |-> req[r].ids, by |-> req[r].user]}
                                  ELSE Received(w)
<1>1. PICK t \in threads :
        /\ t.id = req[r].threadId
        /\ EmitToBoth(OtherParticipant(t, req[r].user), req[r].user,
               [kind |-> "deleted", threadId |-> t.id, ids |-> req[r].ids,
                by |-> req[r].user])
  BY DEF EmitDeleted
<1>2. t.userAId < t.userBId /\ t.userAId \in User /\ t.userBId \in User
  BY DEF Coherent, PairsNormalized, TypeOK, Thread
<1>3. t.userAId # t.userBId
  <2>1. t.userAId \in Nat /\ t.userBId \in Nat
    BY <1>2, UserAssumption
  <2>2. QED
    BY <1>2, <2>1
<1>4. req[r].user \in Participants(t)
  BY <1>1 DEF Coherent, HandlerAgrees, ThreadIdsUnique, EmitDeleted, At
<1>5. /\ OtherParticipant(t, req[r].user) \in User /\ req[r].user \in User
      /\ OtherParticipant(t, req[r].user) # req[r].user
      /\ Participants(t) = {OtherParticipant(t, req[r].user), req[r].user}
  BY <1>2, <1>3, <1>4 DEF OtherParticipant, Participants
<1>6. QED
  BY <1>1, <1>4, <1>5, EmitToBothReceived DEF EmitDeleted, At

LEMMA EventsAlwaysStay == TypeOK /\ Coherent /\ [Next]_vars => EventsStay
<1> SUFFICES ASSUME TypeOK, Coherent, [Next]_vars PROVE EventsStay
  OBVIOUS
<1>1. CASE inbox' = inbox
  BY <1>1 DEF EventsStay, Received
<1>2. ASSUME NEW r \in Request, EmitMessage(r) \/ EmitRead(r) \/ EmitDeleted(r)
      PROVE  EventsStay
  BY <1>2, ReceivedMessage, ReceivedRead, ReceivedDeleted DEF EventsStay
<1>3. \/ inbox' = inbox
      \/ \E r \in Request : EmitMessage(r) \/ EmitRead(r) \/ EmitDeleted(r)
  BY ZenonT(60) DEF Next, Call, Step, Send, OpenThread, MarkThreadRead, DeleteMessage, CheckBlock,
         FindThread, InsertThread, InsertMessage, Bump, Reload, FindUnread, Flip, Remove,
         Fail, Block, Unblock, vars
<1>4. QED
  BY <1>1, <1>2, <1>3

LEMMA AlwaysStay == TypeOK /\ Coherent /\ [Next]_vars => Stay
BY ThreadsAlwaysStay, PostedAlwaysStay, MessagesAlwaysStay, EventsAlwaysStay DEF Stay

-----------------------------------------------------------------------------
(* What agrees keeps agreeing while the others move *)

LEMMA ThreadFrame ==
  ASSUME ThreadsStay, NEW i, NEW us,
         \E t \in threads : t.id = i /\ Participants(t) = us
  PROVE  \E t \in threads' : t.id = i /\ Participants(t) = us
<1>1. PICK t \in threads : t.id = i /\ Participants(t) = us
  OBVIOUS
<1>2. PICK s \in threads' : s.id = t.id /\ s.userAId = t.userAId /\ s.userBId = t.userBId
  BY DEF ThreadsStay
<1>3. QED
  BY <1>1, <1>2 DEF Participants

(* A deleted message stays deleted, a read one read. *)
LEMMA PostedFrame ==
  ASSUME TypeOK', Stay, NEW ids \in SUBSET Request, \A i \in ids : Posted(i)
  PROVE  /\ ids \cap Ids(messages) = {} => ids \cap Ids(messages)' = {}
         /\ (\A m \in messages : m.id \in ids => m.isRead) =>
              \A m \in messages' : m.id \in ids => m.isRead
BY DEF Stay, MessagesStay, Ids

LEMMA AnnouncedFrame ==
  ASSUME EventsStay, NEW u \in User, NEW kind, NEW i, Announced(u, kind, i)
  PROVE  Announced(u, kind, i)'
BY DEF EventsStay, Announced

LEMMA HandlerFrame ==
  ASSUME TypeOK, TypeOK', Coherent, Stay, NEW r \in Request, SameCall(r),
         req'[r].pc = req[r].pc, req'[r].ids = req[r].ids
  PROVE  HandlerAgrees(r)'
<1>a. HandlerAgrees(r) /\ req[r] \in Req
  BY DEF Coherent, TypeOK
<1>b. req[r].user \in User /\ req[r].peer \in User /\ req[r].ids \subseteq Request
  BY <1>a DEF Req
<1> USE DEF SameCall
<1>1. Posted(r)' <=> Posted(r)
  BY DEF Posted
<1>2. Posted(r) \/ req[r].pc \in {"insertMessage", "bump", "reload", "emitMessage"} =>
        \E t \in threads' : t.id = req[r].threadId /\ Participants(t) = {req[r].user, req[r].peer}
  BY <1>a, ThreadFrame DEF HandlerAgrees, Stay
<1>3. req[r].pc \in {"findUnread", "flip", "emitRead", "remove", "emitDeleted"} =>
        \E t \in threads' : t.id = req[r].threadId /\ req[r].user \in Participants(t)
  BY <1>a DEF HandlerAgrees, Stay, ThreadsStay, Participants
<1>4. Posted(r) /\ req[r].pc = "done" =>
        \A u \in {req[r].user, req[r].peer} : Announced(u, "received", r)'
  BY <1>a, <1>b, AnnouncedFrame DEF HandlerAgrees, Stay
<1>5. \A i \in Request : Posted(i) =>
        Posted(i)' /\ req'[i].user = req[i].user /\ req'[i].threadId = req[i].threadId
  BY DEF Stay, PostedStay, Posted
<1>6. req[r].pc \in {"flip", "emitRead"} =>
        \A i \in req[r].ids : /\ Posted(i)' /\ req'[i].user # req[r].user
                              /\ req'[i].threadId = req[r].threadId
  BY <1>a, <1>b, <1>5 DEF HandlerAgrees
<1>7. req[r].pc = "emitRead" => \A m \in messages' : m.id \in req[r].ids => m.isRead
  BY <1>a, <1>b, PostedFrame DEF HandlerAgrees
<1>8. req[r].pc \in {"remove", "emitDeleted"} =>
        \E i \in Request : req[r].ids = {i} /\ Posted(i)' /\ req'[i].user = req[r].user
  BY <1>a, <1>5 DEF HandlerAgrees
<1>9. req[r].pc = "emitDeleted" => req[r].ids \cap Ids(messages)' = {}
  BY <1>a, <1>b, PostedFrame DEF HandlerAgrees
<1>10. QED
  BY <1>a, <1>1, <1>2, <1>3, <1>4, <1>6, <1>7, <1>8, <1>9 DEF HandlerAgrees

LEMMA EventFrame ==
  ASSUME TypeOK, TypeOK', Stay, NEW u \in User, NEW e \in Event, EventAgrees(u, e)
  PROVE  EventAgrees(u, e)'
<1>a. e.ids \subseteq Request
  BY DEF Event
<1>1. \E t \in threads' : t.id = e.threadId /\ {u, e.by} \subseteq Participants(t)
  BY DEF EventAgrees, Stay, ThreadsStay, Participants
<1>2. \A i \in Request : Posted(i) => Posted(i)' /\ req'[i].user = req[i].user
  BY DEF Stay, PostedStay, Posted
<1>3. e.kind = "read" => /\ e.by # u
                         /\ \A i \in e.ids : Posted(i)' /\ req'[i].user = u
                         /\ \A m \in messages' : m.id \in e.ids => m.isRead
  BY <1>a, <1>2, PostedFrame DEF EventAgrees
<1>4. e.kind = "deleted" => (\A i \in e.ids : Posted(i)') /\ e.ids \cap Ids(messages)' = {}
  BY <1>a, <1>2, PostedFrame DEF EventAgrees
<1>5. QED
  BY <1>1, <1>3, <1>4 DEF EventAgrees

(* The messages agree when the new ones do. *)
LEMMA MessageFrame ==
  ASSUME TypeOK', Coherent, Stay,
         \A m \in messages' : ~Posted(m.id) => MessageAgrees(m)'
  PROVE  \A m \in messages' : MessageAgrees(m)'
<1> SUFFICES ASSUME NEW m \in messages', Posted(m.id) PROVE MessageAgrees(m)'
  OBVIOUS
<1>1. PICK n \in messages : n.id = m.id /\ n.senderId = m.senderId /\ n.threadId = m.threadId
  BY DEF Stay, MessagesStay
<1>2. MessageAgrees(n)
  BY DEF Coherent
<1>3. m.id \in Request
  BY DEF TypeOK, Message
<1>4. QED
  BY <1>1, <1>2, <1>3 DEF MessageAgrees, Stay, PostedStay, Posted

-----------------------------------------------------------------------------
(* The handler that moves *)

Quiet == {"idle", "checkBlock", "findThread", "insertThread", "done", "failed"}

(* A handler that has posted nothing and holds nothing has nothing to agree on. *)
LEMMA QuietHandler ==
  ASSUME NEW r \in Request, req'[r].at = Never, req'[r].pc \in Quiet
  PROVE  HandlerAgrees(r)'
BY DEF HandlerAgrees, Posted, Quiet

LEMMA NotPostedYet ==
  ASSUME Coherent, NEW r \in Request,
         req[r].pc \notin {"bump", "reload", "emitMessage", "done", "failed"}
  PROVE  req[r].at = Never
BY DEF Coherent, HandlerAgrees, Posted

(* The thread of a posted request, or of one about to post. *)
LEMMA PostingThread ==
  ASSUME Coherent, ThreadsStay, NEW r \in Request,
         Posted(r) \/ req[r].pc \in {"insertMessage", "bump", "reload", "emitMessage"}
  PROVE  \E t \in threads' :
           t.id = req[r].threadId /\ Participants(t) = {req[r].user, req[r].peer}
BY ThreadFrame DEF Coherent, HandlerAgrees

LEMMA CallAgrees ==
  ASSUME TypeOK, Coherent, Stay, NEW r \in Request, Call(r)
  PROVE  Only(r) /\ HandlerAgrees(r)'
<1>1. ASSUME NEW u \in User, NEW v \in User, NEW valid \in BOOLEAN, Send(r, u, v, valid)
      PROVE  Only(r) /\ HandlerAgrees(r)'
  BY <1>1, BeginMoves, NotPostedYet, QuietHandler DEF Send, Quiet
<1>2. ASSUME NEW u \in User, NEW v \in User, NEW known \in BOOLEAN, OpenThread(r, u, v, known)
      PROVE  Only(r) /\ HandlerAgrees(r)'
  BY <1>2, BeginMoves, NotPostedYet, QuietHandler DEF OpenThread, Quiet
<1>3. ASSUME NEW u \in User, NEW t \in Request, MarkThreadRead(r, u, t)
      PROVE  Only(r) /\ HandlerAgrees(r)'
  <2>1. req'[r].at = Never
    BY <1>3, MarkMoves, NotPostedYet
  <2>2. CASE req'[r].pc = "failed"
    BY <1>3, <2>1, <2>2, MarkMoves, QuietHandler DEF Quiet
  <2>3. CASE \E x \in threads : x.id = t /\ u \in Participants(x)
    <3>1. req'[r].pc = "findUnread" /\ req'[r].threadId = t /\ req'[r].user = u
      BY <1>3, <2>3, MarkMoves
    <3>2. UNCHANGED threads
      BY <1>3 DEF MarkThreadRead
    <3>3. HandlerAgrees(r)'
      BY <2>1, <2>3, <3>1, <3>2 DEF HandlerAgrees, Posted
    <3>4. QED
      BY <1>3, <3>3, MarkMoves
  <2>4. QED
    BY <1>3, <2>2, <2>3, MarkMoves
<1>4. ASSUME NEW u \in User, NEW i \in Request, DeleteMessage(r, u, i)
      PROVE  Only(r) /\ HandlerAgrees(r)'
  <2>1. req'[r].at = Never /\ req[r].at = Never /\ req'[r].user = u /\ Only(r)
    BY <1>4, DeleteMoves, NotPostedYet
  <2>2. CASE req'[r].pc = "failed"
    BY <2>1, <2>2, QuietHandler DEF Quiet
  <2>3. CASE req'[r].pc = "remove"
    <3>1. PICK m \in messages : /\ m.senderId = u /\ req'[r].ids = {m.id}
                                /\ req'[r].threadId = m.threadId
      BY <1>4, <2>3, DeleteMoves
    <3>2. /\ Posted(m.id) /\ req[m.id].user = u /\ req[m.id].threadId = m.threadId
          /\ m.id \in Request
      BY <3>1 DEF Coherent, MessageAgrees, TypeOK, Message
    <3>3. m.id # r /\ Posted(m.id)' /\ req'[m.id].user = u
      BY <2>1, <3>2 DEF Posted, Only
    <3>4. \E t \in threads' : t.id = m.threadId /\ u \in Participants(t)
      BY <3>2, PostingThread DEF Stay
    <3>5. QED
      BY <2>1, <2>3, <3>1, <3>2, <3>3, <3>4 DEF HandlerAgrees, Posted
  <2>4. QED
    BY <1>4, <2>1, <2>2, <2>3, DeleteMoves
<1>5. QED
  BY <1>1, <1>2, <1>3, <1>4 DEF Call

LEMMA SendingAgrees ==
  ASSUME TypeOK, Coherent, Stay, NEW r \in Request,
         \/ CheckBlock(r) \/ FindThread(r) \/ InsertThread(r) \/ InsertMessage(r)
         \/ Bump(r) \/ Reload(r) \/ EmitMessage(r)
  PROVE  Only(r) /\ HandlerAgrees(r)'
<1>1. CASE CheckBlock(r)
  BY <1>1, GoToMoves, NotPostedYet, QuietHandler DEF CheckBlock, At, SameCall, Quiet
(* getOrCreateThread returns t. *)
<1>2. ASSUME NEW t \in threads', WithThread(r, t.id), req[r].at = Never,
             Participants(t) = {req[r].user, req[r].peer}
      PROVE  Only(r) /\ HandlerAgrees(r)'
  <2>1. /\ Only(r) /\ req'[r].pc \in {"insertMessage", "done"} /\ req'[r].at = Never
        /\ req'[r].threadId = t.id /\ req'[r].user = req[r].user /\ req'[r].peer = req[r].peer
    BY <1>2, WithThreadMoves
  <2>2. QED
    BY <1>2, <2>1 DEF HandlerAgrees, Posted
<1>3. \A t : <<t.userAId, t.userBId>> = NormalizePair(req[r].user, req[r].peer)
               => Participants(t) = {req[r].user, req[r].peer}
  BY DEF NormalizePair, Participants
<1>4. CASE FindThread(r)
  <2>1. req[r].at = Never
    BY <1>4, NotPostedYet DEF FindThread, At
  <2>2. CASE GoTo(r, "insertThread")
    BY <2>1, <2>2, GoToMoves, QuietHandler DEF SameCall, Quiet
  <2>3. CASE \E t \in ThreadsOfPair(req[r].user, req[r].peer) : WithThread(r, t.id)
    <3>1. UNCHANGED threads
      BY <1>4 DEF FindThread
    <3>2. QED
      BY <1>2, <1>3, <2>1, <2>3, <3>1 DEF ThreadsOfPair
  <2>4. QED
    BY <1>4, <2>2, <2>3 DEF FindThread
<1>5. CASE InsertThread(r)
  <2>1. req[r].at = Never
    BY <1>5, NotPostedYet DEF InsertThread, At
  <2>2. CASE GoTo(r, "failed")
    BY <2>1, <2>2, GoToMoves, QuietHandler DEF SameCall, Quiet
  <2>3. CASE WithThread(r, r) /\ ~GoTo(r, "failed")
    <3> DEFINE pair == NormalizePair(req[r].user, req[r].peer)
               row == [id |-> r, userAId |-> pair[1], userBId |-> pair[2],
                       lastMessageAt |-> Never]
    <3>1. row \in threads' /\ row.id = r
      BY <1>5, <2>3 DEF InsertThread
    <3>2. Participants(row) = {req[r].user, req[r].peer}
      BY DEF NormalizePair, Participants
    <3> HIDE DEF row
    <3>3. QED
      BY <1>2, <2>1, <2>3, <3>1, <3>2
  <2>4. QED
    BY <1>5, <2>2, <2>3 DEF InsertThread
<1>6. CASE InsertMessage(r)
  <2>1. \E t \in threads' : /\ t.id = req'[r].threadId
                            /\ Participants(t) = {req'[r].user, req'[r].peer}
    BY <1>6, InsertMessageMoves, PostingThread DEF Stay
  <2>2. QED
    BY <1>6, <2>1, InsertMessageMoves DEF HandlerAgrees, Posted
<1>7. CASE Bump(r) \/ Reload(r)
  <2>1. /\ Only(r) /\ SameCall(r)
        /\ \/ req[r].pc = "bump" /\ req'[r].pc = "reload"
           \/ req[r].pc = "reload" /\ req'[r].pc = "emitMessage" /\ req'[r].ids \subseteq {r}
    BY <1>7, GoToMoves, ReloadMoves DEF Bump, At
  <2>2. \E t \in threads' : /\ t.id = req'[r].threadId
                            /\ Participants(t) = {req'[r].user, req'[r].peer}
    BY <2>1, PostingThread DEF Stay, SameCall
  <2>3. QED
    BY <2>1, <2>2 DEF HandlerAgrees, Posted
<1>8. CASE EmitMessage(r)
  <2>1. /\ Only(r) /\ SameCall(r) /\ req[r].pc = "emitMessage"
        /\ req'[r].pc = IF req[r].ids = {} THEN "failed" ELSE "done"
    BY <1>8, GoToMoves DEF EmitMessage, At
  <2>2. \E t \in threads' : /\ t.id = req'[r].threadId
                            /\ Participants(t) = {req'[r].user, req'[r].peer}
    BY <2>1, PostingThread DEF Stay, SameCall
  <2>3. ASSUME req'[r].pc = "done", NEW u \in {req[r].user, req[r].peer}
        PROVE  Announced(u, "received", r)'
    <3>1. r \in req[r].ids
      BY <2>1, <2>3 DEF Coherent, HandlerAgrees
    <3>2. u \in User
      BY DEF TypeOK, Req
    <3>3. ReceivedEvent(r) \in Received(u)'
      BY <1>8, <3>2, ReceivedMessage
    <3>4. QED
      BY <3>1, <3>3 DEF Announced, ReceivedEvent
  <2>4. QED
    BY <2>1, <2>2, <2>3 DEF HandlerAgrees, Posted, SameCall
<1>9. QED
  BY <1>1, <1>4, <1>5, <1>6, <1>7, <1>8

LEMMA MarkingAgrees ==
  ASSUME TypeOK, TypeOK', Coherent, Stay, NEW r \in Request,
         FindUnread(r) \/ Flip(r) \/ EmitRead(r)
  PROVE  Only(r) /\ HandlerAgrees(r)'
<1>a. /\ req[r].at = Never /\ req[r].user \in User /\ req[r].ids \subseteq Request
      /\ \E t \in threads' : t.id = req[r].threadId /\ req[r].user \in Participants(t)
  <2>1. req[r].pc \in {"findUnread", "flip", "emitRead"}
    BY DEF FindUnread, Flip, EmitRead, At
  <2>2. PICK t \in threads : t.id = req[r].threadId /\ req[r].user \in Participants(t)
    BY <2>1 DEF Coherent, HandlerAgrees
  <2>3. QED
    BY <2>1, <2>2, NotPostedYet, ZenonT(60) DEF Stay, ThreadsStay, Participants, TypeOK, Req
<1>b. \A i \in Request : Posted(i) =>
        Posted(i)' /\ req'[i].user = req[i].user /\ req'[i].threadId = req[i].threadId
  BY DEF Stay, PostedStay, Posted
<1>1. CASE FindUnread(r)
  <2>1. /\ Only(r) /\ SameCall(r) /\ req'[r].pc \in {"done", "flip"}
        /\ req'[r].ids = Ids(UnreadIncoming(req[r].threadId, req[r].user))
    BY <1>1, FindUnreadMoves
  <2>2. \A i \in req'[r].ids : /\ i \in Request /\ Posted(i) /\ req[i].user # req[r].user
                               /\ req[i].threadId = req[r].threadId
    BY <2>1 DEF Ids, UnreadIncoming, Coherent, MessageAgrees, TypeOK, Message
  <2>3. QED
    BY <1>a, <1>b, <2>1, <2>2 DEF HandlerAgrees, SameCall, Posted
<1>2. CASE Flip(r)
  <2> DEFINE rows == UnreadIncoming(req[r].threadId, req[r].user)
  <2>1. /\ Only(r) /\ SameCall(r) /\ req[r].pc = "flip" /\ req'[r].ids = req[r].ids
        /\ req'[r].pc \in {"done", "emitRead"}
        /\ messages' = {IF m \in rows THEN [m EXCEPT !.isRead = TRUE] ELSE m : m \in messages}
    BY <1>2, GoToMoves DEF Flip, At, MarkRows
  <2>2. \A i \in req[r].ids : /\ Posted(i) /\ req[i].user # req[r].user
                              /\ req[i].threadId = req[r].threadId
    BY <2>1 DEF Coherent, HandlerAgrees
  <2>3. ASSUME NEW m \in messages', m.id \in req[r].ids
        PROVE  m.isRead
    <3>1. PICK n \in messages : m = IF n \in rows THEN [n EXCEPT !.isRead = TRUE] ELSE n
      BY <2>1
    <3>2. n \in Message
      BY DEF TypeOK
    <3>3. CASE n \in rows
      BY <3>1, <3>2, <3>3 DEF Message
    <3>4. CASE n \notin rows
      <4>1. m = n
        BY <3>1, <3>4
      <4>2. n.threadId = req[r].threadId /\ n.senderId # req[r].user
        BY <2>2, <2>3, <4>1 DEF Coherent, MessageAgrees
      <4>3. QED
        BY <3>4, <4>1, <4>2 DEF UnreadIncoming
    <3>5. QED
      BY <3>3, <3>4
  <2>4. QED
    BY <1>a, <1>b, <2>1, <2>2, <2>3 DEF HandlerAgrees, SameCall, Posted
<1>3. CASE EmitRead(r)
  BY <1>3, <1>a, GoToMoves, QuietHandler DEF EmitRead, SameCall, Quiet
<1>4. QED
  BY <1>1, <1>2, <1>3

LEMMA DeletingAgrees ==
  ASSUME TypeOK, TypeOK', Coherent, Stay, NEW r \in Request, Remove(r) \/ EmitDeleted(r)
  PROVE  Only(r) /\ HandlerAgrees(r)'
<1>1. /\ req[r].at = Never /\ req[r].pc \in {"remove", "emitDeleted"}
      /\ Only(r) /\ SameCall(r) /\ req'[r].ids = req[r].ids
      /\ \/ Remove(r) /\ req'[r].pc = "emitDeleted"
         \/ req'[r].pc = "done"
  BY NotPostedYet, GoToMoves DEF Remove, EmitDeleted, At
<1>2. CASE req'[r].pc = "done"
  BY <1>1, <1>2, QuietHandler DEF SameCall, Quiet
<1>3. CASE Remove(r) /\ req'[r].pc = "emitDeleted"
  <2>1. \E t \in threads' : t.id = req[r].threadId /\ req[r].user \in Participants(t)
    BY <1>1 DEF Coherent, HandlerAgrees, Stay, ThreadsStay, Participants
  <2>2. \E i \in Request : req[r].ids = {i} /\ Posted(i)' /\ req'[i].user = req[r].user
    BY <1>1 DEF Coherent, HandlerAgrees, Stay, PostedStay, Posted
  <2>3. req[r].ids \cap Ids(messages)' = {}
    BY <1>3 DEF Remove, Ids
  <2>4. QED
    BY <1>1, <1>3, <2>1, <2>2, <2>3 DEF HandlerAgrees, SameCall, Posted
<1>4. QED
  BY <1>1, <1>2, <1>3

LEMMA FailingAgrees ==
  ASSUME TypeOK, Coherent, Stay, NEW r \in Request, Fail(r)
  PROVE  Only(r) /\ HandlerAgrees(r)'
<1>1. Only(r) /\ SameCall(r) /\ req'[r].pc = "failed"
  BY GoToMoves DEF Fail
<1>2. Posted(r) => \E t \in threads' : /\ t.id = req'[r].threadId
                                       /\ Participants(t) = {req'[r].user, req'[r].peer}
  BY <1>1, PostingThread DEF Stay, SameCall
<1>3. QED
  BY <1>1, <1>2 DEF HandlerAgrees, SameCall, Posted

LEMMA HandlersStep ==
  TypeOK /\ TypeOK' /\ Coherent /\ [Next]_vars => \A x \in Request : HandlerAgrees(x)'
<1> SUFFICES ASSUME TypeOK, TypeOK', Coherent, [Next]_vars, NEW x \in Request
             PROVE  HandlerAgrees(x)'
  OBVIOUS
<1>a. Stay
  BY AlwaysStay
<1>1. CASE req'[x] = req[x]
  BY <1>1, <1>a, HandlerFrame DEF SameCall
<1>2. ASSUME NEW r \in Request, Call(r) \/ Step(r) \/ Fail(r)
      PROVE  HandlerAgrees(x)'
  <2>1. Only(r) /\ HandlerAgrees(r)'
    BY <1>2, <1>a, CallAgrees, SendingAgrees, MarkingAgrees, DeletingAgrees, FailingAgrees
       DEF Step
  <2>2. QED
    BY <1>1, <2>1 DEF Only
<1>3. QED
  BY <1>1, <1>2 DEF Next, Block, Unblock, vars

-----------------------------------------------------------------------------
(* Rows and events *)

LEMMA MessagesStep ==
  TypeOK /\ TypeOK' /\ Coherent /\ [Next]_vars => \A m \in messages' : MessageAgrees(m)'
<1> SUFFICES ASSUME TypeOK, TypeOK', Coherent, [Next]_vars,
                    NEW m \in messages', ~Posted(m.id)
             PROVE  MessageAgrees(m)'
  BY AlwaysStay, MessageFrame
<1>1. m \notin messages
  BY DEF Coherent, MessageAgrees
<1>2. ASSUME NEW r \in Request, InsertMessage(r)
      PROVE  MessageAgrees(m)'
  BY <1>1, <1>2, InsertMessageMoves DEF MessageAgrees, Posted
<1>3. ASSUME NEW r \in Request, Flip(r)
      PROVE  FALSE
  <2>1. PICK n \in messages : m = n \/ m = [n EXCEPT !.isRead = TRUE]
    BY <1>3 DEF Flip, MarkRows
  <2>2. m.id = n.id
    BY <2>1 DEF TypeOK, Message
  <2>3. QED
    BY <2>2 DEF Coherent, MessageAgrees
<1>4. messages' \subseteq messages \/ \E r \in Request : InsertMessage(r) \/ Flip(r)
  BY ZenonT(60) DEF Next, Call, Step, Send, OpenThread, MarkThreadRead, DeleteMessage, CheckBlock,
         FindThread, InsertThread, Bump, Reload, EmitMessage, FindUnread,
         EmitRead, Remove, EmitDeleted, Fail, Block, Unblock, vars
<1>5. QED
  BY <1>1, <1>2, <1>3, <1>4

LEMMA EventsStep ==
  TypeOK /\ TypeOK' /\ Coherent /\ [Next]_vars =>
    \A u \in User : \A e \in Received(u)' : EventAgrees(u, e)'
<1> SUFFICES ASSUME TypeOK, TypeOK', Coherent, [Next]_vars, NEW u \in User,
                    NEW e, e \in Received(u)'
             PROVE  EventAgrees(u, e)'
  OBVIOUS
<1>a. Stay
  BY AlwaysStay
<1>b. e \in Event
  BY DEF TypeOK, Received
<1>1. CASE e \in Received(u)
  BY <1>1, <1>a, <1>b, EventFrame DEF Coherent
<1>2. ASSUME NEW r \in Request, EmitMessage(r), e \notin Received(u)
      PROVE  EventAgrees(u, e)'
  <2>1. e = ReceivedEvent(r) /\ u \in {req[r].user, req[r].peer} /\ req[r].pc = "emitMessage"
    BY <1>2, ReceivedMessage
  <2>2. \E t \in threads' : /\ t.id = req[r].threadId
                            /\ Participants(t) = {req[r].user, req[r].peer}
    BY <1>a, <2>1, PostingThread DEF Stay
  <2>3. e.kind = "received" /\ e.threadId = req[r].threadId /\ e.by = req[r].user
    BY <2>1 DEF ReceivedEvent
  <2>4. QED
    BY <2>1, <2>2, <2>3 DEF EventAgrees
<1>3. ASSUME NEW r \in Request, EmitRead(r), e \notin Received(u)
      PROVE  EventAgrees(u, e)'
  <2>1. req[r].pc = "emitRead" /\ UNCHANGED <<threads, messages>>
    BY <1>3 DEF EmitRead, At
  <2>2. PICK t \in threads :
          /\ t.id = req[r].threadId /\ u # req[r].user
          /\ Participants(t) = {req[r].user, u}
          /\ e = [kind |-> "read", threadId |-> t.id, ids |-> req[r].ids, by |-> req[r].user]
    BY <1>3, ReceivedRead
  <2>3. \A i \in req[r].ids : /\ i \in Request /\ Posted(i) /\ req[i].user # req[r].user
                              /\ req[i].threadId = t.id
    BY <2>1, <2>2 DEF Coherent, HandlerAgrees, TypeOK, Req
  <2>4. ASSUME NEW i \in req[r].ids
        PROVE  Posted(i)' /\ req'[i].user = u
    <3>1. PICK s \in threads : s.id = t.id /\ Participants(s) = {req[i].user, req[i].peer}
      BY <2>3 DEF Coherent, HandlerAgrees
    <3>2. s = t
      BY <3>1 DEF Coherent, ThreadIdsUnique
    <3>3. req[i].user = u
      BY <2>2, <2>3, <3>1, <3>2
    <3>4. QED
      BY <1>a, <2>3, <3>3 DEF Stay, PostedStay, Posted
  <2>5. \A m \in messages' : m.id \in req[r].ids => m.isRead
    BY <2>1 DEF Coherent, HandlerAgrees
  <2>6. QED
    BY <2>1, <2>2, <2>4, <2>5 DEF EventAgrees
<1>4. ASSUME NEW r \in Request, EmitDeleted(r), e \notin Received(u)
      PROVE  EventAgrees(u, e)'
  <2>1. req[r].pc = "emitDeleted" /\ UNCHANGED <<threads, messages>>
    BY <1>4 DEF EmitDeleted, At
  <2>2. PICK t \in threads :
          /\ t.id = req[r].threadId /\ req[r].user \in Participants(t)
          /\ u \in Participants(t)
          /\ e = [kind |-> "deleted", threadId |-> t.id, ids |-> req[r].ids,
                  by |-> req[r].user]
    BY <1>4, ReceivedDeleted
  <2>3. \A i \in req[r].ids : Posted(i)'
    BY <1>a, <2>1 DEF Coherent, HandlerAgrees, Stay, PostedStay, Posted
  <2>4. req[r].ids \cap Ids(messages)' = {}
    BY <2>1 DEF Coherent, HandlerAgrees, Ids
  <2>5. QED
    BY <2>1, <2>2, <2>3, <2>4 DEF EventAgrees
<1>5. \/ inbox' = inbox
      \/ \E r \in Request : EmitMessage(r) \/ EmitRead(r) \/ EmitDeleted(r)
  BY ZenonT(60) DEF Next, Call, Step, Send, OpenThread, MarkThreadRead, DeleteMessage, CheckBlock,
         FindThread, InsertThread, InsertMessage, Bump, Reload, FindUnread, Flip, Remove,
         Fail, Block, Unblock, vars
<1>6. CASE inbox' = inbox
  BY <1>1, <1>6 DEF Received
<1>7. QED
  BY <1>1, <1>2, <1>3, <1>4, <1>5, <1>6

(* A handler past its thread lookup never returns to it, and a thread is named
   by the request that inserts it. *)
LEMMA ThreadIdsStep == TypeOK /\ Coherent /\ [Next]_vars => ThreadIdsUnique'
<1> SUFFICES ASSUME TypeOK, Coherent, [Next]_vars PROVE ThreadIdsUnique'
  OBVIOUS
<1> DEFINE Before == {"idle", "checkBlock", "findThread", "insertThread"}
<1>1. ASSUME NEW x \in Request, req[x].pc \notin Before
      PROVE  req'[x].pc \notin Before
  <2>1. ASSUME NEW r \in Request, Call(r)
        PROVE  Only(r) /\ req[r].pc = "idle"
    BY <2>1, BeginMoves, MarkMoves, DeleteMoves DEF Call, Send, OpenThread
  <2>2. ASSUME NEW r \in Request, FindThread(r) \/ InsertThread(r) \/ CheckBlock(r)
        PROVE  Only(r) /\ req[r].pc \in Before
    BY <2>2, GoToMoves, WithThreadMoves DEF FindThread, InsertThread, CheckBlock, At
  <2>3. ASSUME NEW r \in Request, InsertMessage(r) \/ Reload(r) \/ FindUnread(r)
        PROVE  Only(r) /\ req'[r].pc \notin Before
    BY <2>3, InsertMessageMoves, ReloadMoves, FindUnreadMoves
  <2>4. ASSUME NEW r \in Request,
               \/ Bump(r) \/ EmitMessage(r) \/ Flip(r) \/ EmitRead(r) \/ Remove(r)
               \/ EmitDeleted(r) \/ Fail(r)
        PROVE  Only(r) /\ req'[r].pc \notin Before
    BY <2>4, GoToMoves DEF Bump, EmitMessage, Flip, EmitRead, Remove, EmitDeleted, Fail
  <2>5. QED
    BY <1>1, <2>1, <2>2, <2>3, <2>4 DEF Only, Next, Step, Block, Unblock, vars
<1>2. \A t \in threads : t.id \in Request /\ req'[t.id].pc \notin Before
  BY <1>1 DEF Coherent, ThreadIdsUnique, TypeOK, Thread
<1>3. CASE threads' = threads
  BY <1>2, <1>3 DEF Coherent, ThreadIdsUnique
<1>4. ASSUME NEW r \in Request, InsertThread(r)
      PROVE  ThreadIdsUnique'
  <2>1. CASE threads' = threads
    BY <1>3, <2>1
  <2>2. CASE WithThread(r, r) /\ \E row : row.id = r /\ threads' = threads \cup {row}
    <3>1. req[r].pc = "insertThread" /\ req'[r].pc \notin Before
      BY <1>4, <2>2, WithThreadMoves DEF InsertThread, At
    <3>2. \A t \in threads : t.id # r
      BY <3>1 DEF Coherent, ThreadIdsUnique
    <3>3. QED
      BY <1>2, <2>2, <3>1, <3>2 DEF Coherent, ThreadIdsUnique
  <2>3. QED
    <3> DEFINE pair == NormalizePair(req[r].user, req[r].peer)
               row  == [id |-> r, userAId |-> pair[1], userBId |-> pair[2],
                        lastMessageAt |-> Never]
    <3>1. \/ threads' = threads
          \/ threads' = threads \cup {row} /\ WithThread(r, r)
      BY <1>4 DEF InsertThread
    <3>2. row.id = r
      OBVIOUS
    <3> HIDE DEF row
    <3>3. QED
      BY <2>1, <2>2, <3>1, <3>2
<1>5. ASSUME NEW r \in Request, Bump(r)
      PROVE  ThreadIdsUnique'
  <2> DEFINE bumped(t) == IF t.id = req[r].threadId
                          THEN [t EXCEPT !.lastMessageAt = req[r].at] ELSE t
  <2>1. threads' = {bumped(t) : t \in threads}
    BY <1>5 DEF Bump
  <2>2. \A t \in threads : bumped(t).id = t.id
    BY DEF TypeOK, Thread
  <2> HIDE DEF bumped
  <2>3. QED
    BY <1>2, <2>1, <2>2 DEF Coherent, ThreadIdsUnique
<1>6. threads' = threads \/ \E r \in Request : InsertThread(r) \/ Bump(r)
  BY ZenonT(60) DEF Next, Call, Step, Send, OpenThread, MarkThreadRead, DeleteMessage, CheckBlock,
         FindThread, InsertMessage, Reload, EmitMessage, FindUnread, Flip,
         EmitRead, Remove, EmitDeleted, Fail, Block, Unblock, vars
<1>7. QED
  BY <1>3, <1>4, <1>5, <1>6

-----------------------------------------------------------------------------
(* The theorems *)

LEMMA CoherentInit == Init => Coherent
<1> SUFFICES ASSUME Init PROVE Coherent
  OBVIOUS
<1>1. IdleReq.pc = "idle" /\ IdleReq.at = Never
  BY DEF IdleReq
<1>2. \A r \in Request : HandlerAgrees(r)
  BY <1>1 DEF Init, HandlerAgrees, Posted
<1>3. PairsNormalized /\ WallsHold
  BY <1>1 DEF Init, PairsNormalized, WallsHold, WalledSendsStoreNothing, Ids
<1>4. \A u \in User : Received(u) = {}
  BY DEF Init, Received
<1>5. QED
  BY <1>2, <1>3, <1>4 DEF Init, Coherent, ThreadIdsUnique

(* Whatever calls interleave and wherever they fail, tables, handlers and what
   users have been told agree at every await. *)
THEOREM AlwaysCoherent == Spec => []Coherent
<1>1. TypeOK /\ TypeOK' /\ Coherent /\ [Next]_vars => Coherent'
  <2>1. Coherent => PairsNormalized /\ WallsHold
    BY DEF Coherent
  <2>2. QED
    BY <2>1, PairsStep, WallsStep, ThreadIdsStep, HandlersStep, MessagesStep, EventsStep
       DEF Coherent
<1>2. QED
  BY <1>1, CoherentInit, TypeCorrect, PTL DEF Spec

(* No message and no event of a thread comes from or goes to a third user. *)
THEOREM Confidential == Spec => []NothingLeavesThread
<1>1. TypeOK /\ Coherent => NothingLeavesThread
  <2> SUFFICES ASSUME TypeOK, Coherent PROVE NothingLeavesThread
    OBVIOUS
  <2>1. ASSUME NEW m \in messages
        PROVE  \E t \in threads : t.id = m.threadId /\ m.senderId \in Participants(t)
    <3>1. /\ m.id \in Request /\ Posted(m.id)
          /\ req[m.id].user = m.senderId /\ req[m.id].threadId = m.threadId
      BY DEF Coherent, MessageAgrees, TypeOK, Message
    <3>2. \E t \in threads : /\ t.id = req[m.id].threadId
                             /\ Participants(t) = {req[m.id].user, req[m.id].peer}
      BY <3>1 DEF Coherent, HandlerAgrees
    <3>3. QED
      BY <3>1, <3>2
  <2>2. ASSUME NEW u \in User, NEW i \in DOMAIN inbox[u]
        PROVE  \E t \in threads :
                 t.id = inbox[u][i].threadId /\ {u, inbox[u][i].by} \subseteq Participants(t)
    BY DEF Coherent, EventAgrees, Received
  <2>3. QED
    BY <2>1, <2>2 DEF NothingLeavesThread
<1>2. QED
  BY <1>1, AlwaysCoherent, TypeCorrect, PTL

(* A read receipt is never ahead of the database. *)
THEOREM ReceiptsHonest == Spec => []AnnouncedReadIsRead
<1>1. TypeOK /\ Coherent => AnnouncedReadIsRead
  <2> SUFFICES ASSUME TypeOK, Coherent, NEW u \in User, NEW i \in DOMAIN inbox[u],
                      inbox[u][i].kind = "read"
               PROVE  /\ inbox[u][i].by # u
                      /\ \A m \in messages :
                           m.id \in inbox[u][i].ids => m.isRead /\ m.senderId = u
    BY DEF AnnouncedReadIsRead
  <2>1. EventAgrees(u, inbox[u][i])
    BY DEF Coherent, Received
  <2>2. \A m \in messages : req[m.id].user = m.senderId
    BY DEF Coherent, MessageAgrees
  <2>3. QED
    BY <2>1, <2>2 DEF EventAgrees
<1>2. QED
  BY <1>1, AlwaysCoherent, TypeCorrect, PTL

(* The events alone put every stored message of a returned send on both screens. *)
THEOREM EventsSuffice == Spec => []ScreensComplete
<1>1. TypeOK /\ Coherent => ScreensComplete
  <2> SUFFICES ASSUME TypeOK, Coherent, NEW m \in messages, NEW t \in threads,
                      m.threadId = t.id, NEW u \in Participants(t)
               PROVE  /\ req[m.id].pc = "done" => Announced(u, "received", m.id)
                      /\ ~Announced(u, "deleted", m.id)
    BY DEF ScreensComplete
  <2>1. m.id \in Request /\ Posted(m.id) /\ req[m.id].threadId = t.id
    BY DEF Coherent, MessageAgrees, TypeOK, Message
  <2>2. HandlerAgrees(m.id)
    BY <2>1 DEF Coherent
  <2>3. u \in {req[m.id].user, req[m.id].peer}
    <3>1. PICK s \in threads : /\ s.id = req[m.id].threadId
                               /\ Participants(s) = {req[m.id].user, req[m.id].peer}
      BY <2>1, <2>2 DEF HandlerAgrees
    <3>2. s = t
      BY <2>1, <3>1 DEF Coherent, ThreadIdsUnique
    <3>3. QED
      BY <3>1, <3>2
  <2>4. req[m.id].pc = "done" => Announced(u, "received", m.id)
    BY <2>1, <2>2, <2>3 DEF HandlerAgrees
  <2>5. u \in User
    BY DEF TypeOK, Thread, Participants
  <2>6. ~Announced(u, "deleted", m.id)
    BY <2>5 DEF Coherent, EventAgrees, Announced, Ids
  <2>7. QED
    BY <2>4, <2>6
<1>2. QED
  BY <1>1, AlwaysCoherent, TypeCorrect, PTL

(* A message is deleted only by its sender and becomes read only by the other
   participant. *)
THEOREM OwnersChange == Spec => OnlyTheRightUserChanges
<1> DEFINE By(m) ==
      \E r \in Request :
        \/ /\ At(r, "remove") /\ req[r].user = m.senderId
           /\ m.id \notin Ids(messages')
        \/ /\ At(r, "flip") /\ req[r].user # m.senderId
           /\ \E t \in threads : t.id = m.threadId /\ req[r].user \in Participants(t)
           /\ [m EXCEPT !.isRead = TRUE] \in messages'
<1>1. TypeOK /\ Coherent /\ [Next]_vars => \A m \in messages : m \notin messages' => By(m)
  <2> SUFFICES ASSUME TypeOK, Coherent, [Next]_vars, NEW m \in messages, m \notin messages'
               PROVE  By(m)
    OBVIOUS
  <2>1. ASSUME NEW r \in Request, Remove(r)
        PROVE  By(m)
    <3>1. m.id \in req[r].ids /\ At(r, "remove")
      BY <2>1 DEF Remove
    <3>2. req[r].user = m.senderId
      BY <3>1 DEF Coherent, HandlerAgrees, MessageAgrees, At
    <3>3. m.id \notin Ids(messages')
      BY <2>1, <3>1 DEF Remove, Ids
    <3>4. QED
      BY <3>1, <3>2, <3>3
  <2>2. ASSUME NEW r \in Request, Flip(r)
        PROVE  By(m)
    <3> DEFINE rows == UnreadIncoming(req[r].threadId, req[r].user)
    <3>1. At(r, "flip")
          /\ messages' = {IF n \in rows THEN [n EXCEPT !.isRead = TRUE] ELSE n : n \in messages}
      BY <2>2 DEF Flip, MarkRows
    <3>2. m \in rows /\ [m EXCEPT !.isRead = TRUE] \in messages'
      BY <3>1
    <3>3. \E t \in threads : t.id = req[r].threadId /\ req[r].user \in Participants(t)
      BY <3>1 DEF Coherent, HandlerAgrees, At
    <3>4. QED
      BY <3>1, <3>2, <3>3 DEF UnreadIncoming
  <2>3. messages \subseteq messages' \/ \E r \in Request : Remove(r) \/ Flip(r)
    BY ZenonT(60) DEF Next, Call, Step, Send, OpenThread, MarkThreadRead, DeleteMessage, CheckBlock,
           FindThread, InsertThread, InsertMessage, Bump, Reload, EmitMessage, FindUnread,
           EmitRead, EmitDeleted, Fail, Block, Unblock, vars
  <2>4. QED
    BY <2>1, <2>2, <2>3
<1>2. TypeOK /\ Coherent /\ [Next]_vars =>
        [\A m \in messages : m \notin messages' => By(m)]_vars
  BY <1>1
<1>3. QED
  BY <1>2, AlwaysCoherent, TypeCorrect, PTL DEF Spec, OnlyTheRightUserChanges

-----------------------------------------------------------------------------
(* Messaging implements Conversation *)

PostedIds == {r \in Request : req[r].at # Never}

Letter(m, to) == [id |-> m.id, from |-> m.senderId, to |-> to, read |-> m.isRead]

LEMMA LettersByMessage ==
  /\ Letters = {Letter(m, req[m.id].peer) : m \in messages}
  /\ Letters' = {Letter(m, req'[m.id].peer) : m \in messages'}
BY DEF Letters, Letter

(* Nobody but a send that inserts posts, and a posted message keeps its recipient. *)
LEMMA PostedSame ==
  ASSUME TypeOK, Coherent, [Next]_vars, ~\E r \in Request : InsertMessage(r)
  PROVE  PostedIds' = PostedIds
<1>1. \A r \in Request : req'[r].at = req[r].at
  <2>1. ASSUME NEW r \in Request, NEW t, WithThread(r, t)
        PROVE  Only(r) /\ req'[r].at = req[r].at
    BY <2>1, WithThreadMoves
  <2>2. ASSUME NEW r \in Request, NEW pc, GoTo(r, pc)
        PROVE  Only(r) /\ req'[r].at = req[r].at
    BY <2>2, GoToMoves DEF SameCall
  <2>3. ASSUME NEW r \in Request, Call(r)
        PROVE  Only(r) /\ req'[r].at = req[r].at
    BY <2>3, BeginMoves, MarkMoves, DeleteMoves DEF Call, Send, OpenThread
  <2>4. ASSUME NEW r \in Request, Step(r) \/ Fail(r)
        PROVE  Only(r) /\ req'[r].at = req[r].at
    BY <2>1, <2>2, <2>4, ReloadMoves, FindUnreadMoves
       DEF Step, CheckBlock, FindThread, InsertThread, Bump, EmitMessage, Flip, EmitRead,
           Remove, EmitDeleted, Fail, SameCall
  <2>5. QED
    BY <2>3, <2>4 DEF Only, Next, Block, Unblock, vars
<1>2. QED
  BY <1>1 DEF PostedIds

LEMMA PeerStays ==
  ASSUME TypeOK, Coherent, PostedStay, NEW m \in messages
  PROVE  Posted(m.id) /\ req'[m.id].peer = req[m.id].peer
BY DEF Coherent, MessageAgrees, TypeOK, Message, PostedStay

LEMMA InsertPosts ==
  ASSUME TypeOK, Coherent, Stay, NEW r \in Request, InsertMessage(r)
  PROVE  \E u, v \in User : Promise!Post(r, u, v)
<1> DEFINE row == [id |-> r, threadId |-> req[r].threadId, senderId |-> req[r].user,
                   isRead |-> FALSE, createdAt |-> req'[r].at]
<1>1. /\ Only(r) /\ req[r].pc = "insertMessage" /\ req'[r].peer = req[r].peer
      /\ req'[r].at # Never /\ messages' = messages \cup {row}
  BY InsertMessageMoves
<1>2. r \notin PostedIds /\ PostedIds' = PostedIds \cup {r}
  BY <1>1, NotPostedYet DEF PostedIds, Only
<1>3. req[r].user # req[r].peer
  <2>1. PICK t \in threads : Participants(t) = {req[r].user, req[r].peer}
    BY <1>1 DEF Coherent, HandlerAgrees
  <2>2. t.userAId < t.userBId /\ t.userAId \in Nat /\ t.userBId \in Nat
    BY UserAssumption DEF Coherent, PairsNormalized, TypeOK, Thread
  <2>3. QED
    BY <2>1, <2>2 DEF Participants
<1>4. Letters' = Letters \cup
        {[id |-> r, from |-> req[r].user, to |-> req[r].peer, read |-> FALSE]}
  <2>1. \A m \in messages : req'[m.id].peer = req[m.id].peer
    BY PeerStays DEF Stay
  <2>2. row.id = r /\ Letter(row, req[r].peer) =
          [id |-> r, from |-> req[r].user, to |-> req[r].peer, read |-> FALSE]
    BY DEF Letter
  <2> HIDE DEF row
  <2>3. QED
    BY <1>1, <2>1, <2>2, LettersByMessage
<1>5. req[r].user \in User /\ req[r].peer \in User
  BY DEF TypeOK, Req
<1>6. QED
  BY <1>2, <1>3, <1>4, <1>5 DEF Promise!Post, PostedIds

(* What flips is what the other participant has sent and is not read yet. *)
LEMMA FlipReads ==
  ASSUME TypeOK, Coherent, Stay, NEW r \in Request, Flip(r), PostedIds' = PostedIds
  PROVE  \E u, v \in User : Promise!ReadAll(u, v)
<1>1. /\ req[r].pc = "flip" /\ req[r].user \in User
      /\ messages' = MarkRows(UnreadIncoming(req[r].threadId, req[r].user))
  BY DEF Flip, At, TypeOK, Req
<1>2. PICK t \in threads : t.id = req[r].threadId /\ req[r].user \in Participants(t)
  BY <1>1 DEF Coherent, HandlerAgrees
<1> DEFINE u == req[r].user
           v == OtherParticipant(t, u)
           rows == UnreadIncoming(t.id, u)
           flipped(m) == IF m \in rows THEN [m EXCEPT !.isRead = TRUE] ELSE m
           seen(l) == IF l.from = v /\ l.to = u THEN [l EXCEPT !.read = TRUE] ELSE l
<1>3. /\ v \in User /\ u # v /\ Participants(t) = {u, v}
      /\ t.userAId \in Nat /\ t.userBId \in Nat /\ t.userAId < t.userBId
  <2>1. /\ t.userAId \in User /\ t.userBId \in User /\ t.userAId < t.userBId
    BY DEF Coherent, PairsNormalized, TypeOK, Thread
  <2>2. t.userAId \in Nat /\ t.userBId \in Nat
    BY <2>1, UserAssumption
  <2>3. QED
    BY <1>2, <2>1, <2>2 DEF Participants, OtherParticipant
<1>4. ASSUME NEW m \in messages
      PROVE  (m.threadId = t.id /\ m.senderId # u) <=> (m.senderId = v /\ req[m.id].peer = u)
  <2>1. /\ req[m.id].user = m.senderId /\ req[m.id].threadId = m.threadId
        /\ Posted(m.id) /\ m.id \in Request
    BY DEF Coherent, MessageAgrees, TypeOK, Message
  <2>2. PICK s \in threads : /\ s.id = m.threadId
                             /\ Participants(s) = {m.senderId, req[m.id].peer}
    BY <2>1 DEF Coherent, HandlerAgrees
  <2>3. s.userAId \in Nat /\ s.userBId \in Nat /\ s.userAId < s.userBId
    BY UserAssumption DEF Coherent, PairsNormalized, TypeOK, Thread
  <2>4. ASSUME m.threadId = t.id, m.senderId # u
        PROVE  m.senderId = v /\ req[m.id].peer = u
    BY <1>3, <2>2, <2>4 DEF Coherent, ThreadIdsUnique
  <2>5. ASSUME m.senderId = v, req[m.id].peer = u
        PROVE  m.threadId = t.id /\ m.senderId # u
    <3>1. s.userAId = t.userAId /\ s.userBId = t.userBId
      BY <1>3, <2>2, <2>3, <2>5 DEF Participants
    <3>2. s = t
      BY <3>1 DEF Coherent, PairsNormalized
    <3>3. QED
      BY <1>3, <2>2, <2>5, <3>2
  <2>6. QED
    BY <2>4, <2>5
<1>5. ASSUME NEW m \in messages
      PROVE  /\ flipped(m).id = m.id /\ req'[m.id].peer = req[m.id].peer
             /\ Letter(flipped(m), req[m.id].peer) = seen(Letter(m, req[m.id].peer))
  <2>1. m \in Message /\ req'[m.id].peer = req[m.id].peer
    BY PeerStays DEF TypeOK, Stay
  <2>2. CASE m.senderId = v /\ req[m.id].peer = u
    <3>1. flipped(m) = [m EXCEPT !.isRead = TRUE]
      BY <1>4, <2>1, <2>2 DEF UnreadIncoming, Message
    <3>2. seen(Letter(m, req[m.id].peer)) = [Letter(m, req[m.id].peer) EXCEPT !.read = TRUE]
      BY <2>2 DEF Letter
    <3>3. QED
      BY <2>1, <3>1, <3>2 DEF Letter, Message
  <2>3. CASE ~(m.senderId = v /\ req[m.id].peer = u)
    <3>1. flipped(m) = m
      BY <1>4, <2>3 DEF UnreadIncoming
    <3>2. seen(Letter(m, req[m.id].peer)) = Letter(m, req[m.id].peer)
      BY <2>3 DEF Letter
    <3>3. QED
      BY <2>1, <3>1, <3>2
  <2>4. QED
    BY <2>2, <2>3
<1>6. Letters' = {seen(l) : l \in Letters}
  <2>1. messages' = {flipped(m) : m \in messages}
    BY <1>1, <1>2 DEF MarkRows
  <2> HIDE DEF flipped, seen
  <2>2. QED
    BY <1>5, <2>1, LettersByMessage
<1>7. Promise!ReadAll(u, v)
  BY <1>6 DEF Promise!ReadAll, PostedIds
<1>8. QED
  BY <1>1, <1>3, <1>7

LEMMA RemoveRetracts ==
  ASSUME TypeOK, Coherent, Stay, NEW r \in Request, Remove(r), PostedIds' = PostedIds
  PROVE  \E i \in Request : Promise!Retract(i)
<1>1. PICK i \in Request : req[r].ids = {i}
  BY DEF Remove, At, Coherent, HandlerAgrees
<1>2. messages' = {m \in messages : m.id # i}
  BY <1>1 DEF Remove
<1>3. Letters' = {l \in Letters : l.id # i}
  <2>1. \A m \in messages : /\ req'[m.id].peer = req[m.id].peer
                            /\ Letter(m, req[m.id].peer).id = m.id
    BY PeerStays DEF Letter, Stay
  <2>2. QED
    BY <1>2, <2>1, LettersByMessage
<1>4. Promise!Retract(i)
  BY <1>3 DEF Promise!Retract, PostedIds
<1>5. QED
  BY <1>4

(* Threads, requests and their races implement a conversation. *)
THEOREM Refinement == Spec => ImplementsConversation
<1>1. Init => Promise!Init
  BY DEF Init, Promise!Init, Letters, IdleReq
<1>2. TypeOK /\ Coherent /\ [Next]_vars => [Promise!Next]_<<Letters, PostedIds>>
  <2> SUFFICES ASSUME TypeOK, Coherent, [Next]_vars
               PROVE  Promise!Next \/ (Letters' = Letters /\ PostedIds' = PostedIds)
    OBVIOUS
  <2>1. Stay
    BY AlwaysStay
  <2>2. ASSUME NEW r \in Request, InsertMessage(r)
        PROVE  Promise!Next
    BY <2>1, <2>2, InsertPosts DEF Promise!Next
  <2>3. CASE ~\E r \in Request : InsertMessage(r)
    <3>1. PostedIds' = PostedIds
      BY <2>3, PostedSame
    <3>2. ASSUME NEW r \in Request, Flip(r)
          PROVE  Promise!Next
      BY <2>1, <3>1, <3>2, FlipReads DEF Promise!Next
    <3>3. ASSUME NEW r \in Request, Remove(r)
          PROVE  Promise!Next
      BY <2>1, <3>1, <3>3, RemoveRetracts DEF Promise!Next
    <3>4. CASE messages' = messages
      BY <2>1, <3>1, <3>4, PeerStays DEF Letters, Stay
    <3>5. messages' = messages \/ \E r \in Request : Flip(r) \/ Remove(r)
      BY <2>3, ZenonT(60) DEF Next, Call, Step, Send, OpenThread, MarkThreadRead, DeleteMessage,
             CheckBlock, FindThread, InsertThread, Bump, Reload, EmitMessage, FindUnread,
             EmitRead, EmitDeleted, Fail, Block, Unblock, vars
    <3>6. QED
      BY <3>1, <3>2, <3>3, <3>4, <3>5
  <2>4. QED
    BY <2>2, <2>3
<1>3. QED
  BY <1>1, <1>2, AlwaysCoherent, TypeCorrect, PTL
     DEF Spec, ImplementsConversation, Promise!Spec, PostedIds
=============================================================================
