----------------------------- MODULE Messaging -----------------------------
(***************************************************************************)
(* Direct messages: MessagesService over the tables message_threads and    *)
(* messages, the realtime events it emits and the block table it consults. *)
(*                                                                         *)
(* Every GraphQL call in flight is a request r with a record req[r] whose  *)
(* pc names the statement it awaits.  The server is one Node.js process,   *)
(* so the code between two awaits is atomic, and each SQL statement is     *)
(* atomic in the database; nothing holds over two statements.  An action   *)
(* is one statement with the code around it that touches nothing shared.   *)
(* Where that code emits an event, the emission is an action of its own:   *)
(* the answer of a query may reach the process after later statements.     *)
(*                                                                         *)
(* A table is the set of its rows.  A generated uuid is named by the       *)
(* request that generated it: a request makes one thread and one message   *)
(* at most.  Users are numbers because normalizePair compares their ids.   *)
(*                                                                         *)
(* A definition marked Mutant is not part of the specification: it is what *)
(* a slip would make of the definition after it, and shows that a property *)
(* tells the two apart.                                                    *)
(***************************************************************************)
EXTENDS Integers, FiniteSets, Sequences

CONSTANTS
  User,       \* registered users; rows of users are never deleted
  Request,    \* GraphQL calls; each is made once (bound)
  Blockable,  \* ordered pairs of users whose block may change (bound)
  MayFail,    \* requests whose statement may reject, or die with the process
  MaxTime,    \* last instant of the clock (bound)
  None        \* no thread yet

ASSUME UserAssumption      == User \subseteq Nat /\ User # {}
ASSUME BlockableAssumption == Blockable \subseteq User \X User
ASSUME MayFailAssumption   == MayFail \subseteq Request
ASSUME MaxTimeAssumption   == MaxTime \in Nat \ {0}
ASSUME NoneAssumption      == None \notin Request

VARIABLES
  threads,   \* table message_threads
  messages,  \* table messages
  blocks,    \* table blocks, as the pairs <<blockerId, blockedId>>
  req,       \* the requests
  inbox,     \* events emitted to each user's room, oldest first
  now,       \* the time of the latest insert
  walled     \* history: sends that have faced a block ever since they began

vars == <<threads, messages, blocks, req, inbox, now, walled>>

Never == 0   \* lastMessageAt = null

Thread  == [id : Request, userAId : User, userBId : User,
            lastMessageAt : Never .. MaxTime]
Message == [id : Request, threadId : Request, senderId : User,
            isRead : BOOLEAN, createdAt : 1 .. MaxTime]

(* message_received has no message when the reload found no row; by is the
   senderId, the readerId or the user who deleted. *)
Event == [kind : {"received", "read", "deleted"}, threadId : Request,
          ids : SUBSET Request, by : User]

Running == {"checkBlock", "findThread", "insertThread", "insertMessage", "bump",
            "reload", "emitMessage", "findUnread", "flip", "emitRead", "remove",
            "emitDeleted"}

(* thread, ids and at are the handler's local variables: the thread row it
   works on, the message ids it holds and saved.createdAt. *)
Req == [op : {"none", "send", "open", "mark", "delete"},
        pc : Running \cup {"idle", "done", "failed"},
        user : User, peer : User,
        threadId : Request \cup {None}, ids : SUBSET Request,
        at : Never .. MaxTime]

IdleReq == [op |-> "none", pc |-> "idle",
            user |-> CHOOSE u \in User : TRUE, peer |-> CHOOSE u \in User : TRUE,
            threadId |-> None, ids |-> {}, at |-> Never]

-----------------------------------------------------------------------------
(* What the code computes. *)

Participants(t) == {t.userAId, t.userBId}

OtherParticipant(t, u) == IF t.userAId = u THEN t.userBId ELSE t.userAId

(* Mutant: the pair in the order of the call. *)
UnnormalizedPair(a, b) == <<a, b>>

NormalizePair(a, b) == IF a < b THEN <<a, b>> ELSE <<b, a>>

(* Mutant: only the blocks the sender made. *)
BlockedOneWay(u, v) == u # v /\ <<u, v>> \in blocks

IsBlockedEitherWay(u, v) == u # v /\ (<<u, v>> \in blocks \/ <<v, u>> \in blocks)

(* The UNIQUE(userAId, userBId) lookup of getOrCreateThread. *)
ThreadsOfPair(u, v) ==
  {t \in threads : <<t.userAId, t.userBId>> = NormalizePair(u, v)}

UnreadIncoming(t, u) ==
  {m \in messages : m.threadId = t /\ m.senderId # u /\ ~m.isRead}

Ids(rows) == {m.id : m \in rows}

At(r, pc) == req[r].pc = pc

GoTo(r, pc) == req' = [req EXCEPT ![r].pc = pc]

(* emitToUser: the event joins the room user:<id> of u. *)
Emit(u, e) == inbox' = [inbox EXCEPT ![u] = Append(@, e)]

EmitToBoth(u, v, e) ==
  inbox' = [inbox EXCEPT ![u] = Append(@, e), ![v] = Append(@, e)]

Begin(r, op, pc, u, v) ==
  /\ At(r, "idle")
  /\ req' = [req EXCEPT ![r].op = op, ![r].pc = pc, ![r].user = u, ![r].peer = v]

-----------------------------------------------------------------------------
(* send *)

(* The checks before the block check: a message to oneself, an empty one and
   one to an unknown recipient are refused.  valid abstracts the last two. *)
Send(r, u, v, valid) ==
  /\ Begin(r, "send", IF u = v \/ ~valid THEN "failed" ELSE "checkBlock", u, v)
  /\ walled' = IF IsBlockedEitherWay(u, v) THEN walled \cup {r} ELSE walled
  /\ UNCHANGED <<threads, messages, blocks, inbox, now>>

(* Mutant: isBlocking instead of isBlockedEitherWay. *)
CheckBlockOneWay(r) ==
  /\ At(r, "checkBlock")
  /\ GoTo(r, IF BlockedOneWay(req[r].user, req[r].peer) THEN "failed" ELSE "findThread")
  /\ UNCHANGED <<threads, messages, blocks, inbox, now, walled>>

CheckBlock(r) ==
  /\ At(r, "checkBlock")
  /\ GoTo(r, IF IsBlockedEitherWay(req[r].user, req[r].peer)
             THEN "failed" ELSE "findThread")
  /\ UNCHANGED <<threads, messages, blocks, inbox, now, walled>>

(* What follows getOrCreateThread: send inserts its message; what
   getThreadWithUser still does is to read the thread back. *)
WithThread(r, t) ==
  req' = [req EXCEPT ![r].threadId = t,
                     ![r].pc = IF req[r].op = "send" THEN "insertMessage" ELSE "done"]

FindThread(r) ==
  /\ At(r, "findThread")
  /\ LET found == ThreadsOfPair(req[r].user, req[r].peer)
     IN  IF found = {} THEN GoTo(r, "insertThread")
                       ELSE \E t \in found : WithThread(r, t.id)
  /\ UNCHANGED <<threads, messages, blocks, inbox, now, walled>>

(* The insert violates the unique constraint, and the call throws, when the
   pair has got a thread since the lookup. *)
InsertThread(r) ==
  /\ At(r, "insertThread")
  /\ LET pair == NormalizePair(req[r].user, req[r].peer)
     IN  IF ThreadsOfPair(req[r].user, req[r].peer) # {}
         THEN GoTo(r, "failed") /\ UNCHANGED threads
         ELSE /\ threads' = threads \cup
                   {[id |-> r, userAId |-> pair[1], userBId |-> pair[2],
                     lastMessageAt |-> Never]}
              /\ WithThread(r, r)
  /\ UNCHANGED <<messages, blocks, inbox, now, walled>>

(* Mutant: createdAt is left out of the insert. *)
InsertUnstampedMessage(r) ==
  /\ At(r, "insertMessage")
  /\ messages' = messages \cup
       {[id |-> r, threadId |-> req[r].threadId, senderId |-> req[r].user,
         isRead |-> FALSE, createdAt |-> Never]}
  /\ req' = [req EXCEPT ![r].pc = "bump", ![r].at = now]
  /\ UNCHANGED <<threads, blocks, inbox, now, walled>>

(* Any time may have passed since the insert before this one. *)
InsertMessage(r) ==
  /\ At(r, "insertMessage")
  /\ \E at \in now .. MaxTime :
       /\ messages' = messages \cup
            {[id |-> r, threadId |-> req[r].threadId, senderId |-> req[r].user,
              isRead |-> FALSE, createdAt |-> at]}
       /\ req' = [req EXCEPT ![r].pc = "bump", ![r].at = at]
       /\ now' = at
  /\ UNCHANGED <<threads, blocks, inbox, walled>>

(* thread.lastMessageAt = saved.createdAt; threadRepo.save(thread): an update
   of that column whatever the row holds by now. *)
Bump(r) ==
  /\ At(r, "bump")
  /\ threads' = {IF t.id = req[r].threadId
                 THEN [t EXCEPT !.lastMessageAt = req[r].at] ELSE t : t \in threads}
  /\ GoTo(r, "reload")
  /\ UNCHANGED <<messages, blocks, inbox, now, walled>>

(* The reload finds nothing when the message was deleted meanwhile. *)
Reload(r) ==
  /\ At(r, "reload")
  /\ req' = [req EXCEPT ![r].pc = "emitMessage", ![r].ids = {r} \cap Ids(messages)]
  /\ UNCHANGED <<threads, messages, blocks, inbox, now, walled>>

ReceivedEvent(r) == [kind |-> "received", threadId |-> req[r].threadId,
                     ids |-> req[r].ids, by |-> req[r].user]

(* Mutant: no echo to the sender's own sockets. *)
EmitMessageToRecipient(r) ==
  /\ At(r, "emitMessage")
  /\ Emit(req[r].peer, ReceivedEvent(r))
  /\ GoTo(r, IF req[r].ids = {} THEN "failed" ELSE "done")
  /\ UNCHANGED <<threads, messages, blocks, now, walled>>

(* The recipient and then the sender get the event.  Without a message the
   push branch dereferences null and the call throws after the emissions. *)
EmitMessage(r) ==
  /\ At(r, "emitMessage")
  /\ EmitToBoth(req[r].peer, req[r].user, ReceivedEvent(r))
  /\ GoTo(r, IF req[r].ids = {} THEN "failed" ELSE "done")
  /\ UNCHANGED <<threads, messages, blocks, now, walled>>

-----------------------------------------------------------------------------
(* getThreadWithUser: no block check *)

OpenThread(r, u, v, known) ==
  /\ Begin(r, "open", IF u = v \/ ~known THEN "failed" ELSE "findThread", u, v)
  /\ UNCHANGED <<threads, messages, blocks, inbox, now, walled>>

-----------------------------------------------------------------------------
(* markThreadRead *)

(* Mutant: the participant check is missing. *)
MarkAnyThreadRead(r, u, t) ==
  /\ At(r, "idle")
  /\ req' = [req EXCEPT ![r].op = "mark", ![r].user = u, ![r].threadId = t,
                        ![r].pc = IF \E x \in threads : x.id = t
                                  THEN "findUnread" ELSE "failed"]
  /\ UNCHANGED <<threads, messages, blocks, inbox, now, walled>>

(* t is any id a client may pass; only a participant goes on. *)
MarkThreadRead(r, u, t) ==
  /\ At(r, "idle")
  /\ req' = [req EXCEPT ![r].op = "mark", ![r].user = u, ![r].threadId = t,
                        ![r].pc = IF \E x \in threads : x.id = t /\ u \in Participants(x)
                                  THEN "findUnread" ELSE "failed"]
  /\ UNCHANGED <<threads, messages, blocks, inbox, now, walled>>

(* Mutant: the event goes out before the update. *)
FindUnreadAndTell(r) ==
  /\ At(r, "findUnread")
  /\ LET ids == Ids(UnreadIncoming(req[r].threadId, req[r].user))
     IN  /\ req' = [req EXCEPT ![r].ids = ids,
                               ![r].pc = IF ids = {} THEN "done" ELSE "flip"]
         /\ \E t \in threads :
              /\ t.id = req[r].threadId
              /\ Emit(OtherParticipant(t, req[r].user),
                      [kind |-> "read", threadId |-> t.id, ids |-> ids,
                       by |-> req[r].user])
  /\ UNCHANGED <<threads, messages, blocks, now, walled>>

FindUnread(r) ==
  /\ At(r, "findUnread")
  /\ LET ids == Ids(UnreadIncoming(req[r].threadId, req[r].user))
     IN  req' = [req EXCEPT ![r].ids = ids,
                            ![r].pc = IF ids = {} THEN "done" ELSE "flip"]
  /\ UNCHANGED <<threads, messages, blocks, inbox, now, walled>>

MarkRows(rows) == {IF m \in rows THEN [m EXCEPT !.isRead = TRUE] ELSE m : m \in messages}

(* Mutant: the update is limited to the ids of the lookup. *)
FlipFound(r) ==
  /\ At(r, "flip")
  /\ LET rows == {m \in UnreadIncoming(req[r].threadId, req[r].user) : m.id \in req[r].ids}
     IN  messages' = MarkRows(rows) /\ GoTo(r, IF rows = {} THEN "done" ELSE "emitRead")
  /\ UNCHANGED <<threads, blocks, inbox, now, walled>>

(* The update repeats the condition of the lookup: it also flips what has
   arrived since.  affected = 0 ends the call without an event. *)
Flip(r) ==
  /\ At(r, "flip")
  /\ LET rows == UnreadIncoming(req[r].threadId, req[r].user)
     IN  messages' = MarkRows(rows) /\ GoTo(r, IF rows = {} THEN "done" ELSE "emitRead")
  /\ UNCHANGED <<threads, blocks, inbox, now, walled>>

(* The other participant is told of the ids of the lookup. *)
EmitRead(r) ==
  /\ At(r, "emitRead")
  /\ \E t \in threads :
       /\ t.id = req[r].threadId
       /\ Emit(OtherParticipant(t, req[r].user),
               [kind |-> "read", threadId |-> t.id, ids |-> req[r].ids,
                by |-> req[r].user])
  /\ GoTo(r, "done")
  /\ UNCHANGED <<threads, messages, blocks, now, walled>>

-----------------------------------------------------------------------------
(* deleteMessage *)

Deleting(r, u, m) ==
  req' = [req EXCEPT ![r].op = "delete", ![r].user = u, ![r].ids = {m.id},
                     ![r].threadId = m.threadId, ![r].pc = "remove"]

RefuseDelete(r, u) ==
  req' = [req EXCEPT ![r].op = "delete", ![r].user = u, ![r].pc = "failed"]

(* Mutant: the sender check is missing. *)
DeleteAnyMessage(r, u, i) ==
  /\ At(r, "idle")
  /\ \/ \E m \in messages : m.id = i /\ Deleting(r, u, m)
     \/ i \notin Ids(messages) /\ RefuseDelete(r, u)
  /\ UNCHANGED <<threads, messages, blocks, inbox, now, walled>>

(* i is any id a client may pass; only the sender goes on. *)
DeleteMessage(r, u, i) ==
  /\ At(r, "idle")
  /\ \/ \E m \in messages : m.id = i /\ m.senderId = u /\ Deleting(r, u, m)
     \/ (\A m \in messages : m.id = i => m.senderId # u) /\ RefuseDelete(r, u)
  /\ UNCHANGED <<threads, messages, blocks, inbox, now, walled>>

(* messageRepo.remove: a delete by id, silent when the row is gone already. *)
Remove(r) ==
  /\ At(r, "remove")
  /\ messages' = {m \in messages : m.id \notin req[r].ids}
  /\ GoTo(r, "emitDeleted")
  /\ UNCHANGED <<threads, blocks, inbox, now, walled>>

EmitDeleted(r) ==
  /\ At(r, "emitDeleted")
  /\ \E t \in threads :
       /\ t.id = req[r].threadId
       /\ EmitToBoth(OtherParticipant(t, req[r].user), req[r].user,
                     [kind |-> "deleted", threadId |-> t.id, ids |-> req[r].ids,
                      by |-> req[r].user])
  /\ GoTo(r, "done")
  /\ UNCHANGED <<threads, messages, blocks, now, walled>>

-----------------------------------------------------------------------------
(* The environment *)

(* BlocksService.block and unblock, as the one row they write. *)
Block(u, v) ==
  /\ <<u, v>> \in Blockable
  /\ u # v
  /\ blocks' = blocks \cup {<<u, v>>}
  /\ UNCHANGED <<threads, messages, req, inbox, now, walled>>

Unblock(u, v) ==
  /\ blocks' = blocks \ {<<u, v>>}
  /\ walled' = {r \in walled : \/ <<req[r].user, req[r].peer>> \in blocks'
                               \/ <<req[r].peer, req[r].user>> \in blocks'}
  /\ UNCHANGED <<threads, messages, req, inbox, now>>

(* The awaited statement rejects, or the process dies: the call ends and what
   it has written stays. *)
Fail(r) ==
  /\ r \in MayFail
  /\ req[r].pc \in Running
  /\ GoTo(r, "failed")
  /\ UNCHANGED <<threads, messages, blocks, inbox, now, walled>>

-----------------------------------------------------------------------------
Init ==
  /\ threads = {}
  /\ messages = {}
  /\ blocks = {}
  /\ req = [r \in Request |-> IdleReq]
  /\ inbox = [u \in User |-> << >>]
  /\ now = 1
  /\ walled = {}

(* A resolver is called with the signed-in user and the client's arguments. *)
Call(r) ==
  \/ \E u, v \in User, valid \in BOOLEAN : Send(r, u, v, valid)
  \/ \E u, v \in User, known \in BOOLEAN : OpenThread(r, u, v, known)
  \/ \E u \in User, t \in Request : MarkThreadRead(r, u, t)
  \/ \E u \in User, i \in Request : DeleteMessage(r, u, i)

Step(r) ==
  \/ CheckBlock(r) \/ FindThread(r) \/ InsertThread(r) \/ InsertMessage(r)
  \/ Bump(r) \/ Reload(r) \/ EmitMessage(r)
  \/ FindUnread(r) \/ Flip(r) \/ EmitRead(r)
  \/ Remove(r) \/ EmitDeleted(r)

Next ==
  \/ \E r \in Request : Call(r) \/ Step(r) \/ Fail(r)
  \/ \E u, v \in User : Block(u, v) \/ Unblock(u, v)

Spec == Init /\ [][Next]_vars

-----------------------------------------------------------------------------
(* Properties *)

TypeOK ==
  /\ threads \subseteq Thread
  /\ messages \subseteq Message
  /\ blocks \subseteq Blockable
  /\ req \in [Request -> Req]
  /\ inbox \in [User -> Seq(Event)]
  /\ now \in 1 .. MaxTime
  /\ walled \subseteq Request
  /\ \A r \in Request :
       req[r].pc \in {"insertMessage", "bump", "reload", "emitMessage"} =>
         req[r].threadId # None

(* Two users share one thread at most, however their first contacts race and
   whoever writes first: the unique constraint is on the ordered pair, so it
   rests on normalizePair.  Everything keyed by thread relies on it. *)
OneThreadPerPair ==
  \A s, t \in threads : Participants(s) = Participants(t) => s = t

(* Nothing about a thread, no message and no realtime event, comes from or
   goes to anyone but its two participants. *)
NothingLeavesThread ==
  /\ \A m \in messages : \E t \in threads :
       t.id = m.threadId /\ m.senderId \in Participants(t)
  /\ \A u \in User : \A i \in DOMAIN inbox[u] : \E t \in threads :
       t.id = inbox[u][i].threadId /\ {u, inbox[u][i].by} \subseteq Participants(t)

(* A user told that messages were read is told so of messages of its own, by
   the other participant, and each one that still exists is read. *)
AnnouncedReadIsRead ==
  \A u \in User : \A i \in DOMAIN inbox[u] :
    LET e == inbox[u][i]
    IN  e.kind = "read" =>
          /\ e.by # u
          /\ \A m \in messages : m.id \in e.ids => m.isRead /\ m.senderId = u

(* What u has been told. *)
Received(u) == {inbox[u][i] : i \in DOMAIN inbox[u]}

Announced(u, kind, m) == \E e \in Received(u) : e.kind = kind /\ m \in e.ids

(* Once a send has returned, its message is on the screen of both participants
   for as long as it is stored: both rooms got it and nobody was told that it
   is deleted. *)
ScreensComplete ==
  \A m \in messages : \A t \in threads :
    m.threadId = t.id =>
      \A u \in Participants(t) :
        /\ req[m.id].pc = "done" => Announced(u, "received", m.id)
        /\ ~Announced(u, "deleted", m.id)

(* A send that faced a block when it began, in either direction, and ever
   since, stores no message, however late it looks. *)
WalledSendsStoreNothing == walled \cap Ids(messages) = {}

(* Threads are stored in the order of normalizePair, once per ordered pair. *)
PairsNormalized ==
  /\ \A t \in threads : t.userAId < t.userBId
  /\ \A s, t \in threads : s.userAId = t.userAId /\ s.userBId = t.userBId => s = t
  /\ \A r \in Request :
       req[r].pc \in {"checkBlock", "findThread", "insertThread"} =>
         req[r].user # req[r].peer

(* A walled send waits for its block check or was refused by it. *)
WallsHold ==
  /\ \A r \in walled : /\ req[r].pc \in {"checkBlock", "failed"}
                       /\ \/ <<req[r].user, req[r].peer>> \in blocks
                          \/ <<req[r].peer, req[r].user>> \in blocks
  /\ \A r \in Request : At(r, "idle") => r \notin Ids(messages)
  /\ WalledSendsStoreNothing

Posted(r) == req[r].at # Never

(* A handler of r agrees with the tables at every await, whatever the others
   have done since its lookup: its thread exists and has it (and the recipient)
   as participants, what it marks is the other's and what it deletes its own,
   and once it is about to tell, what it tells is so. *)
HandlerAgrees(r) ==
  LET q == req[r]
  IN  /\ Posted(r) => q.pc \in {"bump", "reload", "emitMessage", "done", "failed"}
      /\ Posted(r) \/ q.pc \in {"insertMessage", "bump", "reload", "emitMessage"} =>
           \E t \in threads : t.id = q.threadId /\ Participants(t) = {q.user, q.peer}
      /\ q.pc \in {"findUnread", "flip", "emitRead", "remove", "emitDeleted"} =>
           \E t \in threads : t.id = q.threadId /\ q.user \in Participants(t)
      /\ q.pc = "emitMessage" => q.ids \subseteq {r}
      /\ Posted(r) /\ q.pc = "done" =>
           \A u \in {q.user, q.peer} : Announced(u, "received", r)
      /\ q.pc \in {"flip", "emitRead"} =>
           \A i \in q.ids : Posted(i) /\ req[i].user # q.user /\ req[i].threadId = q.threadId
      /\ q.pc = "emitRead" => \A m \in messages : m.id \in q.ids => m.isRead
      /\ q.pc \in {"remove", "emitDeleted"} =>
           \E i \in Request : q.ids = {i} /\ Posted(i) /\ req[i].user = q.user
      /\ q.pc = "emitDeleted" => q.ids \cap Ids(messages) = {}

(* A stored message is one its request has posted, to its thread. *)
MessageAgrees(m) ==
  Posted(m.id) /\ req[m.id].user = m.senderId /\ req[m.id].threadId = m.threadId

(* What an event e told to u stays so. *)
EventAgrees(u, e) ==
  /\ \E t \in threads : t.id = e.threadId /\ {u, e.by} \subseteq Participants(t)
  /\ e.kind = "read" => /\ e.by # u
                        /\ \A i \in e.ids : Posted(i) /\ req[i].user = u
                        /\ \A m \in messages : m.id \in e.ids => m.isRead
  /\ e.kind = "deleted" => /\ \A i \in e.ids : Posted(i)
                           /\ e.ids \cap Ids(messages) = {}

(* A thread has the uuid its request drew when it inserted it. *)
ThreadIdsUnique ==
  /\ \A s, t \in threads : s.id = t.id => s = t
  /\ \A t \in threads :
       req[t.id].pc \notin {"idle", "checkBlock", "findThread", "insertThread"}

(* The inductive invariant behind the properties of messages and events: tables,
   handlers and what users have been told agree. *)
Coherent ==
  /\ PairsNormalized /\ WallsHold /\ ThreadIdsUnique
  /\ \A r \in Request : HandlerAgrees(r)
  /\ \A m \in messages : MessageAgrees(m)
  /\ \A u \in User : \A e \in Received(u) : EventAgrees(u, e)

(* A message is deleted only by a request of its sender, and becomes read only
   by a request of the other participant; a read message stays read. *)
OnlyTheRightUserChanges ==
  [][\A m \in messages : m \notin messages' =>
       \E r \in Request :
         \/ /\ At(r, "remove") /\ req[r].user = m.senderId
            /\ m.id \notin Ids(messages')
         \/ /\ At(r, "flip") /\ req[r].user # m.senderId
            /\ \E t \in threads : t.id = m.threadId /\ req[r].user \in Participants(t)
            /\ [m EXCEPT !.isRead = TRUE] \in messages'
     ]_vars

(* A message goes to the recipient its caller named, and was posted when its
   row was inserted. *)
Letters == {[id |-> m.id, from |-> m.senderId, to |-> req[m.id].peer, read |-> m.isRead] :
             m \in messages}

Promise == INSTANCE Conversation WITH
  Mail <- Request, letters <- Letters, posted <- {r \in Request : req[r].at # Never}

(* Threads, requests and their races implement a conversation: posting is
   atomic and happens once, a markThreadRead that flips reads everything the
   other has sent, and no late write brings a deleted message back. *)
ImplementsConversation == Promise!Spec

(* "Timestamp of the most recent message": once no send is under way, no
   message of a thread is more recent than its lastMessageAt. *)
LastMessageAtIsLatest ==
  (\A r \in Request : req[r].op = "send" => req[r].pc \in {"done", "failed"}) =>
    \A t \in threads : \A m \in messages :
      m.threadId = t.id => m.createdAt <= t.lastMessageAt
=============================================================================
