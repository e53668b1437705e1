--------------------------- MODULE StoriesProofs ---------------------------
(***************************************************************************)
(* Safety of Stories (stories, their audience, views and reactions, and    *)
(* what the queries hand out) for every set of users, stories, emojis and  *)
(* calls, any follows and any length of a day.                             *)
(***************************************************************************)
EXTENDS Stories, TLAPS

-----------------------------------------------------------------------------
(* The inductive invariant *)

(* An id is published once; views and reactions have a story; who is on the list
   of the author of a story has been admitted to it. *)
TablesAgree ==
  /\ \A d \in drafts : d.id \notin published
  /\ \A d, e \in drafts : d.id = e.id => d = e
  /\ \A x, y \in stories : x.id = y.id => x = y
  /\ \A x \in stories : x.id \in published
  /\ \A v \in views : Exists(v[2])
  /\ \A x \in reactions : Exists(x.story)
  /\ \A x \in stories, v \in User : <<x.author, v>> \in close => <<v, x.id>> \in admitted

SavingPC == {"selectReaction", "updateReaction", "reinsertReaction"}

(* Id is that of a call that is over, and stands for the reaction of u to s, in
   the table and in the memory of every handler. *)
Owned(id, u, s) ==
  /\ req[id].pc = "over"
  /\ \A x \in reactions : x.id = id => x.user = u /\ x.story = s
  /\ \A i \in Request : req[i].pc \in SavingPC /\ req[i].copy.id = id
                          => req[i].user = u /\ req[i].story = s

IdsAgree ==
  /\ \A x \in reactions : Owned(x.id, x.user, x.story)
  /\ \A x, y \in reactions : x.id = y.id => x = y

(* The audience of s, if s is for close friends, includes u. *)
Entitled(u, s) ==
  \A x \in stories : x.id = s /\ x.visibility = "close_friends"
                       => u = x.author \/ <<u, s>> \in admitted

SeenPC   == {"findView", "insertView", "findReaction", "insertReaction"} \cup SavingPC

(* The statements of an operation. *)
PCsOf(op) ==
  CASE op = "none"   -> {"idle", "over"}
    [] op = "view"   -> {"checkFriend", "findView", "insertView"}
    [] op = "react"  -> {"checkFriend"} \cup SeenPC
    [] op = "delete" -> {"removeStory"}
    [] op = "feed"   -> {"findFollowing", "findFeed", "checkAuthor", "show"}
    [] op = "active" -> {"findActive", "checkStory", "show"}
    [] op = "open"   -> {"checkFriend", "show"}

(* The copy of a reaction r has in memory is of r's user and story; its row is
   there unless a rival or the story took it away. *)
CopyAgrees(r) ==
  LET q == req[r]
  IN  /\ q.copy \in Reaction /\ q.copy.user = q.user /\ q.copy.story = q.story
      /\ q.copy.emoji = q.emoji /\ Owned(q.copy.id, q.user, q.story)
      /\ ~q.rival /\ Exists(q.story) /\ q.pc # "reinsertReaction"
           => \E x \in reactions : x.id = q.copy.id

(* What a handler has in memory: of its story the author, or that the user may
   see it; that no other call reacts for the user, or that there is a rival. *)
HandlerAgrees(r) ==
  LET q == req[r]
  IN  /\ q.pc \in PCsOf(q.op)
      /\ q.op \in {"view", "react"} => q.user \in User /\ q.story \in published
      /\ q.op = "react" => q.emoji \in Emoji
      /\ q.op = "delete" => q.story \in Story
      /\ q.pc = "checkFriend" /\ q.op # "open"
           => \A x \in stories : x.id = q.story => x.author = q.author
      /\ q.pc \in SeenPC => Entitled(q.user, q.story)
      /\ q.op = "react" /\ ~q.rival => Reacting(q.user, q.story) = {r}
      /\ q.pc \in SavingPC => CopyAgrees(r)

(* x, in memory, is a story that was in the table, and its row if it still is. *)
Faithful(x) == x.id \in published /\ \A y \in stories : y.id = x.id => y = x

(* x has been in the table: it is, or its author has deleted it, or its day is over. *)
Lasting(x) == x \in stories \/ x.id \in removed \/ x.expiresAt <= now

MayHold(u, x) == x.visibility = "public" \/ u = x.author \/ <<u, x.id>> \in admitted

(* The answer of r must hold x. *)
Due(r, x) ==
  /\ now < x.expiresAt /\ x.id \notin removed
  /\ \/ x.visibility = "public" \/ x.author = req[r].user
     \/ <<x.author, req[r].user>> \in close /\ ~req[r].rival

(* What a query has in memory: rows of the table, those left to check being for
   close friends, those kept being for the reader; and once the table has been
   read whatever is due is among them. *)
ReaderAgrees(r) ==
  LET q == req[r]
  IN  /\ q.user \in User
      /\ \A x \in q.found \cup q.kept \cup q.begun : Faithful(x)
      /\ \A x \in q.kept \cap stories : MayHold(q.user, x)
      /\ \A x \in q.found : x.visibility = "close_friends" /\ x.author # q.user
      /\ q.pc = "checkFriend" => q.kept = {} /\ \A x \in q.found : x.author = q.author
      /\ \A x \in q.begun : Lasting(x)
      /\ q.op = "feed" => \A x \in q.begun : x.author \in Authors(q.user)
      /\ q.op = "active" => \A x \in q.begun : x.author = q.author
      /\ q.asof <= now
      /\ q.pc \notin {"findFollowing", "findFeed", "findActive"}
           => \A x \in q.begun : Due(r, x) => x \in q.found \cup q.kept
      /\ q.pc = "show" => q.found = {}

(* Of a story that is not there nothing is answered; while a call reacts, what
   the story will show is open. *)
AnswersAgree ==
  \A u \in User, s \in Story :
    /\ ~Exists(s) => answer[<<u, s>>] = "none"
    /\ Exists(s) /\ Reacting(u, s) # {} => answer[<<u, s>>] = "unknown"

Coherent ==
  /\ TablesAgree
  /\ IdsAgree
  /\ \A r \in Request : HandlerAgrees(r)
  /\ \A r \in Request : IF req[r].op \in Reads THEN ReaderAgrees(r) ELSE req[r].kept = {}
  /\ AnswersAgree
  /\ OnlyTheAdmitted
  /\ ReactionsAsAnswered

Inv == TypeOK /\ Coherent

-----------------------------------------------------------------------------
(* How the calls in flight move *)

Only(r) == \A i \in Request : i # r => req'[i] = req[i]

(* What a call has loaded, and whether it has a rival. *)
SameCall(i) ==
  /\ req'[i].op = req[i].op /\ req'[i].user = req[i].user /\ req'[i].story = req[i].story
  /\ req'[i].author = req[i].author /\ req'[i].emoji = req[i].emoji

SameHands(i) ==
  /\ req'[i].asof = req[i].asof /\ req'[i].found = req[i].found
  /\ req'[i].kept = req[i].kept /\ req'[i].begun = req[i].begun

LEMMA OverFields ==
  /\ Over \in Req /\ Over.pc = "over" /\ Over.op = "none" /\ Over.rival = FALSE
  /\ Over.kept = {}
  /\ IdleReq \in Req /\ IdleReq.pc = "idle" /\ IdleReq.op = "none" /\ IdleReq.kept = {}
<1>1. 0 \in 0 .. MaxTime
  BY DayAssumption
<1>2. IdleReq \in Req /\ IdleReq.pc = "idle" /\ IdleReq.op = "none" /\ IdleReq.kept = {}
      /\ IdleReq.rival = FALSE
  BY <1>1, ZenonT(60) DEF IdleReq, Req
<1>3. Over \in Req /\ Over.pc = "over" /\ Over.op = "none" /\ Over.rival = FALSE /\ Over.kept = {}
  BY <1>2 DEF Over, Req
<1> QED BY <1>2, <1>3

LEMMA GoToRuns ==
  ASSUME TypeOK, NEW r \in Request, NEW pc \in Running, GoTo(r, pc)
  PROVE  /\ Only(r) /\ SameCall(r) /\ req'[r].rival = req[r].rival
         /\ req'[r].copy = req[r].copy /\ req'[r].pc = pc /\ SameHands(r)
         /\ req' \in [Request -> Req]
<1> DEFINE q == [req[r] EXCEPT !.pc = pc]
<1>1. req[r] \in Req
  BY DEF TypeOK
<1>2. /\ q \in Req /\ q.op = req[r].op /\ q.user = req[r].user /\ q.story = req[r].story
      /\ q.author = req[r].author /\ q.emoji = req[r].emoji /\ q.rival = req[r].rival
      /\ q.copy = req[r].copy /\ q.pc = pc /\ q.asof = req[r].asof /\ q.found = req[r].found
      /\ q.kept = req[r].kept /\ q.begun = req[r].begun
  BY <1>1 DEF Req
<1>3. req' = [req EXCEPT ![r] = q]
  BY DEF TypeOK, GoTo
<1> HIDE DEF q
<1>4. Only(r) /\ req'[r] = q /\ req' \in [Request -> Req]
  BY <1>2, <1>3 DEF TypeOK, Only
<1> QED BY <1>2, <1>4 DEF SameCall, SameHands

LEMMA GoToOver ==
  ASSUME TypeOK, NEW r \in Request, NEW pc, pc \notin Running, GoTo(r, pc)
  PROVE  Only(r) /\ req'[r] = Over /\ req' \in [Request -> Req]
<1>1. req' = [req EXCEPT ![r] = Over]
  BY DEF GoTo
<1> QED BY <1>1, OverFields DEF TypeOK, Only

(* The author of a story is found, and is the author of its row. *)
LEMMA AuthorTypes ==
  ASSUME TypeOK, NEW s
  PROVE  AuthorOf(s) \in User \cup {None}
<1>1. CASE Exists(s)
  <2>1. PICK x : x = (CHOOSE y \in stories : y.id = s)
    OBVIOUS
  <2>2. x \in stories
    BY <1>1, <2>1 DEF Exists
  <2> QED BY <1>1, <2>1, <2>2 DEF AuthorOf, Exists, TypeOK, StoryRow
<1>2. CASE ~Exists(s)
  BY <1>2 DEF AuthorOf, Exists
<1> QED BY <1>1, <1>2

LEMMA AuthorFound ==
  ASSUME Inv, NEW x \in stories
  PROVE  AuthorOf(x.id) = x.author
<1>1. PICK y : y = (CHOOSE z \in stories : z.id = x.id)
  OBVIOUS
<1>2. y \in stories /\ y.id = x.id
  BY <1>1
<1>3. y = x
  BY <1>2 DEF Inv, Coherent, TablesAgree
<1> QED BY <1>1, <1>3 DEF AuthorOf

Asking(r) ==
  \E u \in User : \/ GetFeed(r, u)
                  \/ \E author \in User : GetActiveByUser(r, u, author)
                  \/ \E s \in Story : GetById(r, u, s)

(* What a call is when it starts. *)
Starts(r) ==
  /\ req[r].pc = "idle"
  /\ \/ req'[r] = Over
     \/ /\ Asking(r) /\ req'[r].op \in Reads
        /\ req'[r].pc \in Running /\ req'[r].pc \in PCsOf(req'[r].op)
     \/ \E u \in User, s \in Story :
          /\ req'[r].kept = {}
          /\ req'[r].user = u /\ req'[r].story = s /\ req'[r].author = AuthorOf(s)
          /\ Exists(s)
          /\ \/ req'[r].op = "delete" /\ req'[r].pc = "removeStory"
             \/ /\ req'[r].op \in {"view", "react"} /\ req'[r].pc = AfterStory(u, s, "findView")
                /\ req'[r].pc \in {"checkFriend", "findView"}
                /\ req'[r].op = "view" => req'[r].rival = FALSE
                /\ req'[r].op = "react" => /\ req'[r].emoji \in Emoji
                                           /\ req'[r].rival = (Reacting(u, s) # {})

LEMMA LoadedFields ==
  ASSUME TypeOK, NEW op \in {"view", "react", "delete"}, NEW pc \in Running,
         NEW u \in User, NEW s \in Story, NEW e \in Emoji \cup {None}, NEW rival \in BOOLEAN
  PROVE  /\ Loaded(op, pc, u, s, e, rival) \in Req
         /\ Loaded(op, pc, u, s, e, rival).op = op /\ Loaded(op, pc, u, s, e, rival).pc = pc
         /\ Loaded(op, pc, u, s, e, rival).user = u /\ Loaded(op, pc, u, s, e, rival).story = s
         /\ Loaded(op, pc, u, s, e, rival).author = AuthorOf(s)
         /\ Loaded(op, pc, u, s, e, rival).emoji = e
         /\ Loaded(op, pc, u, s, e, rival).rival = rival
         /\ Loaded(op, pc, u, s, e, rival).kept = {}
<1>1. AuthorOf(s) \in User \cup {None}
  BY AuthorTypes
<1>2. PICK a \in User \cup {None} : a = AuthorOf(s)
  BY <1>1
<1>3. Loaded(op, pc, u, s, e, rival) =
        [op |-> op, pc |-> pc, user |-> u, story |-> s, author |-> a, emoji |-> e,
         copy |-> None, asof |-> 0, found |-> {}, kept |-> {}, begun |-> {}, rival |-> rival]
  BY <1>2 DEF Loaded, IdleReq
<1> QED BY <1>2, <1>3, DayAssumption DEF Req

LEMMA AfterStoryLeads ==
  ASSUME NEW u, NEW s
  PROVE  \/ AfterStory(u, s, "findView") = "failed"
         \/ AfterStory(u, s, "findView") \in {"checkFriend", "findView"} /\ Exists(s)
BY DEF AfterStory, Exists

LEMMA ViewStarts ==
  ASSUME TypeOK, NEW r \in Request, NEW u \in User, NEW s \in Story, View(r, u, s)
  PROVE  Only(r) /\ Starts(r) /\ req' \in [Request -> Req] /\ UNCHANGED <<tables, drafts, now, history>>
<1>0. PICK no \in BOOLEAN : no = FALSE
  OBVIOUS
<1> DEFINE q == Loaded("view", AfterStory(u, s, "findView"), u, s, None, no)
<1>1. /\ req[r].pc = "idle" /\ req' = [req EXCEPT ![r] = q]
      /\ UNCHANGED <<tables, drafts, now, history>>
  BY <1>0 DEF View, Begin, At
<1>2. CASE AfterStory(u, s, "findView") = "failed"
  <2>1. q = Over
    BY <1>2 DEF Loaded, Running
  <2> QED BY <1>1, <2>1, OverFields DEF TypeOK, Only, Starts
<1>3. CASE AfterStory(u, s, "findView") \in {"checkFriend", "findView"} /\ Exists(s)
  <2>1. AfterStory(u, s, "findView") \in Running
    BY <1>3 DEF Running
  <2>2. /\ q \in Req /\ q.op = "view" /\ q.pc = AfterStory(u, s, "findView") /\ q.user = u /\ q.story = s
        /\ q.author = AuthorOf(s) /\ q.rival = no /\ q.kept = {}
    BY <2>1, LoadedFields
  <2> HIDE DEF q
  <2>3. Only(r) /\ req'[r] = q /\ req' \in [Request -> Req]
    BY <1>1, <2>2 DEF TypeOK, Only
  <2> QED BY <1>0, <1>1, <1>3, <2>2, <2>3 DEF Starts
<1> QED BY <1>2, <1>3, AfterStoryLeads

LEMMA DeleteStarts ==
  ASSUME TypeOK, NEW r \in Request, NEW u \in User, NEW s \in Story, Delete(r, u, s)
  PROVE  Only(r) /\ Starts(r) /\ req' \in [Request -> Req] /\ UNCHANGED <<tables, drafts, now, history>>
<1>1. PICK pc : /\ pc = IF \E x \in stories : x.id = s /\ x.author = u
                        THEN "removeStory" ELSE "failed"
                /\ Begin(r, "delete", pc, u, s, None)
  BY DEF Delete
<1>0. PICK no \in BOOLEAN : no = FALSE
  OBVIOUS
<1> DEFINE q == Loaded("delete", pc, u, s, None, no)
<1>2. /\ req[r].pc = "idle" /\ req' = [req EXCEPT ![r] = q]
      /\ UNCHANGED <<tables, drafts, now, history>>
  BY <1>0, <1>1 DEF Delete, Begin, At
<1>3. CASE pc = "failed"
  <2>1. q = Over
    BY <1>3 DEF Loaded, Running
  <2> QED BY <1>2, <2>1, OverFields DEF TypeOK, Only, Starts
<1>4. CASE pc = "removeStory"
  <2>1. pc \in Running /\ Exists(s)
    BY <1>1, <1>4 DEF Running, Exists
  <2>2. /\ q \in Req /\ q.op = "delete" /\ q.pc = pc /\ q.user = u /\ q.story = s
        /\ q.author = AuthorOf(s) /\ q.kept = {}
    BY <2>1, LoadedFields
  <2> HIDE DEF q
  <2>3. Only(r) /\ req'[r] = q /\ req' \in [Request -> Req]
    BY <1>2, <2>2 DEF TypeOK, Only
  <2> QED BY <1>2, <1>4, <2>1, <2>2, <2>3 DEF Starts
<1> QED BY <1>1, <1>3, <1>4

(* A query that starts, with what it has in memory. *)
LEMMA AskStarts ==
  ASSUME TypeOK, NEW r \in Request, Asking(r)
  PROVE  Only(r) /\ Starts(r) /\ req' \in [Request -> Req] /\ UNCHANGED <<tables, drafts, now, history>>
<1>1. ASSUME NEW q \in Req, q.op \in Reads, q.pc \in Running, q.pc \in PCsOf(q.op),
             req' = [req EXCEPT ![r] = q], req[r].pc = "idle"
      PROVE  Only(r) /\ Starts(r) /\ req' \in [Request -> Req]
  <2>1. Only(r) /\ req'[r] = q /\ req' \in [Request -> Req]
    BY <1>1 DEF TypeOK, Only
  <2> QED BY <1>1, <2>1 DEF Starts
<1>2. ASSUME NEW u \in User, GetFeed(r, u)
      PROVE  Only(r) /\ Starts(r) /\ req' \in [Request -> Req] /\ UNCHANGED <<tables, drafts, now, history>>
  <2> DEFINE q == [IdleReq EXCEPT !.op = "feed", !.pc = "findFollowing", !.user = u,
                                  !.begun = {x \in stories : x.author \in Authors(u)}]
  <2>1. q \in Req /\ q.op = "feed" /\ q.pc = "findFollowing"
    BY OverFields, ZenonT(60) DEF Req, Running, TypeOK
  <2>2. req' = [req EXCEPT ![r] = q] /\ req[r].pc = "idle" /\ UNCHANGED <<tables, drafts, now, history>>
    BY <1>2 DEF GetFeed, At
  <2> HIDE DEF q
  <2> QED BY <1>1, <2>1, <2>2 DEF Reads, Running, PCsOf
<1>3. ASSUME NEW u \in User, NEW author \in User, GetActiveByUser(r, u, author)
      PROVE  Only(r) /\ Starts(r) /\ req' \in [Request -> Req] /\ UNCHANGED <<tables, drafts, now, history>>
  <2> DEFINE q == [IdleReq EXCEPT !.op = "active", !.pc = "findActive", !.user = u,
                                  !.author = author, !.asof = now,
                                  !.begun = {x \in stories : x.author = author}]
  <2>1. q \in Req /\ q.op = "active" /\ q.pc = "findActive"
    BY OverFields, ZenonT(60) DEF Req, Running, TypeOK
  <2>2. req' = [req EXCEPT ![r] = q] /\ req[r].pc = "idle" /\ UNCHANGED <<tables, drafts, now, history>>
    BY <1>3 DEF GetActiveByUser, At
  <2> HIDE DEF q
  <2> QED BY <1>1, <2>1, <2>2 DEF Reads, Running, PCsOf
<1>4. ASSUME NEW u \in User, NEW s \in Story, GetById(r, u, s)
      PROVE  Only(r) /\ Starts(r) /\ req' \in [Request -> Req] /\ UNCHANGED <<tables, drafts, now, history>>
  <2>1. PICK rows, pc, a : rows = {x \in stories : x.id = s} /\ pc = AfterStory(u, s, "show")
                            /\ a = AuthorOf(s)
    OBVIOUS
  <2>2. PICK next, found, kept : /\ next = IF pc = "failed" THEN "show" ELSE pc
                                 /\ found = IF pc = "checkFriend" THEN rows ELSE {}
                                 /\ kept = IF pc = "show" THEN rows ELSE {}
    OBVIOUS
  <2> DEFINE q == [IdleReq EXCEPT !.op = "open", !.pc = next, !.user = u, !.author = a,
                                  !.begun = rows, !.found = found, !.kept = kept]
  <2>3. pc \in {"failed", "checkFriend", "show"}
    BY <2>1 DEF AfterStory
  <2>4. rows \subseteq StoryRow /\ found \subseteq StoryRow /\ kept \subseteq StoryRow
        /\ next \in {"checkFriend", "show"} /\ a \in User \cup {None}
    BY <2>1, <2>2, <2>3, AuthorTypes DEF TypeOK
  <2>5. q \in Req /\ q.op = "open" /\ q.pc = next
    <3>1. next \in Running \cup {"idle", "over"}
      BY <2>4 DEF Running
    <3>2. rows \in SUBSET StoryRow /\ found \in SUBSET StoryRow /\ kept \in SUBSET StoryRow
      BY <2>4
    <3> QED BY <2>4, <3>1, <3>2, OverFields, ZenonT(60) DEF Req
  <2>6. req' = [req EXCEPT ![r] = q] /\ req[r].pc = "idle" /\ UNCHANGED <<tables, drafts, now, history>>
    BY <1>4, <2>1, <2>2 DEF GetById, At
  <2> HIDE DEF q
  <2> QED BY <1>1, <2>4, <2>5, <2>6 DEF Reads, Running, PCsOf
<1> QED BY <1>2, <1>3, <1>4 DEF Asking

LEMMA AskReads ==
  ASSUME TypeOK, NEW r \in Request, Asking(r)
  PROVE  req'[r].op \in Reads
<1>1. ASSUME NEW u \in User, GetFeed(r, u)
      PROVE  req'[r].op \in Reads
  BY <1>1, OverFields DEF GetFeed, TypeOK, Reads, Req
<1>2. ASSUME NEW u \in User, NEW author \in User, GetActiveByUser(r, u, author)
      PROVE  req'[r].op \in Reads
  BY <1>2, OverFields DEF GetActiveByUser, TypeOK, Reads, Req
<1>3. ASSUME NEW u \in User, NEW s \in Story, GetById(r, u, s)
      PROVE  req'[r].op \in Reads
  BY <1>3, OverFields DEF GetById, TypeOK, Reads, Req
<1> QED BY <1>1, <1>2, <1>3 DEF Asking

(* A call that reacts for u to s learns of a rival; the others wait. *)
Marked(i, u, s) ==
  req'[i] = IF i \in Reacting(u, s) THEN [req[i] EXCEPT !.rival = TRUE] ELSE req[i]

LEMMA RivalTyped == \A q \in Req : [q EXCEPT !.rival = TRUE] \in Req
BY ZenonT(60) DEF Req

LEMMA ReactStarts ==
  ASSUME TypeOK, NEW r \in Request, NEW u \in User, NEW s \in Story, NEW e \in Emoji,
         React(r, u, s, e)
  PROVE  /\ Starts(r) /\ \A i \in Request : i # r => Marked(i, u, s)
         /\ \/ req'[r] = Over /\ answer' = answer
            \/ /\ req'[r].op = "react" /\ req'[r].user = u /\ req'[r].story = s
               /\ Exists(s) /\ answer' = [answer EXCEPT ![<<u, s>>] = "unknown"]
         /\ req' \in [Request -> Req] /\ UNCHANGED <<tables, drafts, now, published, removed, admitted>>
<1>0. PICK rival \in BOOLEAN : rival = (Reacting(u, s) # {})
  OBVIOUS
<1> DEFINE q == Loaded("react", AfterStory(u, s, "findView"), u, s, e, rival)
<1>1. /\ req[r].pc = "idle" /\ req' = [Rivals(u, s) EXCEPT ![r] = q]
      /\ UNCHANGED <<tables, drafts, now, published, removed, admitted>>
  BY <1>0 DEF React, At
<1>2. ASSUME NEW i \in Request
      PROVE  [req[i] EXCEPT !.rival = TRUE] \in Req /\ req[i] \in Req
  BY RivalTyped DEF TypeOK
<1>3. Rivals(u, s) \in [Request -> Req]
  BY <1>2 DEF Rivals
<1>4. q \in Req =>
        /\ req'[r] = q /\ req' \in [Request -> Req]
        /\ \A i \in Request : i # r => Marked(i, u, s)
  <2> HIDE DEF q
  <2>1. \A i \in Request : i # r => req'[i] = Rivals(u, s)[i]
    BY <1>1, <1>3
  <2>2. \A i \in Request : i # r => Marked(i, u, s)
    BY <2>1 DEF Marked, Rivals
  <2> QED BY <1>1, <1>3, <2>2
<1>5. CASE AfterStory(u, s, "findView") = "failed"
  <2>1. q = Over
    BY <1>5 DEF Loaded, Running
  <2>2. answer' = answer
    BY <1>5 DEF React, Running, TypeOK
  <2> QED BY <1>1, <1>4, <2>1, <2>2, OverFields DEF Starts
<1>6. CASE AfterStory(u, s, "findView") \in {"checkFriend", "findView"} /\ Exists(s)
  <2>1. AfterStory(u, s, "findView") \in Running
    BY <1>6 DEF Running
  <2>2. /\ q \in Req /\ q.op = "react" /\ q.pc = AfterStory(u, s, "findView") /\ q.user = u /\ q.story = s
        /\ q.author = AuthorOf(s) /\ q.rival = rival /\ q.emoji = e /\ q.kept = {}
    BY <2>1, LoadedFields
  <2> HIDE DEF q
  <2>3. answer' = [answer EXCEPT ![<<u, s>>] = "unknown"]
    BY <2>1 DEF React
  <2>4. req'[r] = q
    BY <1>4, <2>2
  <2>5. Starts(r)
    BY <1>0, <1>1, <1>6, <2>2, <2>4 DEF Starts
  <2> QED BY <1>1, <1>4, <1>6, <2>2, <2>3, <2>4, <2>5
<1> QED BY <1>5, <1>6, AfterStoryLeads

Waits(i) ==
  /\ SameCall(i) /\ SameHands(i) /\ req'[i].pc = req[i].pc /\ req'[i].copy = req[i].copy
  /\ req'[i].rival = req[i].rival \/ req'[i].rival = TRUE

LEMMA MarkedWaits ==
  ASSUME TypeOK, NEW i \in Request, NEW u, NEW s, Marked(i, u, s)
  PROVE  Waits(i) /\ (i \in Reacting(u, s) => req'[i].rival = TRUE)
<1>1. req[i] \in Req
  BY DEF TypeOK
<1>2. CASE i \in Reacting(u, s)
  <2>1. req'[i] = [req[i] EXCEPT !.rival = TRUE]
    BY <1>2 DEF Marked
  <2> QED BY <1>1, <2>1 DEF Req, Waits, SameCall, SameHands
<1>3. CASE i \notin Reacting(u, s)
  BY <1>3 DEF Marked, Waits, SameCall, SameHands
<1> QED BY <1>2, <1>3

(* A change of a list marks the readers, and nobody else. *)
LEMMA ListMarks ==
  ASSUME TypeOK, NEW u \in User, NEW v \in User, NEW on \in BOOLEAN, SetCloseFriend(u, v, on)
  PROVE  /\ req' \in [Request -> Req]
         /\ \A i \in Request : Waits(i) /\ (req[i].op \in Reads /\ req[i].user = v => req'[i].rival = TRUE)
<1>1. ASSUME NEW i \in Request
      PROVE  [req[i] EXCEPT !.rival = TRUE] \in Req /\ req[i] \in Req
  BY RivalTyped DEF TypeOK
<1>2. req' = [i \in Request |-> IF req[i].op \in Reads /\ req[i].user = v
                               THEN [req[i] EXCEPT !.rival = TRUE] ELSE req[i]]
  BY DEF SetCloseFriend
<1>3. ASSUME NEW i \in Request, req[i].op \in Reads, req[i].user = v
      PROVE  Waits(i) /\ req'[i].rival = TRUE
  <2>1. req'[i] = [req[i] EXCEPT !.rival = TRUE]
    BY <1>2, <1>3
  <2> QED BY <1>1, <2>1 DEF Req, Waits, SameCall, SameHands
<1>4. ASSUME NEW i \in Request, ~(req[i].op \in Reads /\ req[i].user = v)
      PROVE  Waits(i)
  <2>1. req'[i] = req[i]
    BY <1>2, <1>4
  <2> QED BY <2>1 DEF Waits, SameCall, SameHands
<1>5. req' \in [Request -> Req]
  BY <1>1, <1>2
<1> QED BY <1>3, <1>4, <1>5

LEMMA RemovalMarks ==
  ASSUME TypeOK, NEW u \in User, NEW s \in Story, RemoveReaction(u, s)
  PROVE  req' \in [Request -> Req] /\ \A i \in Request : Marked(i, u, s)
<1>1. ASSUME NEW i \in Request
      PROVE  [req[i] EXCEPT !.rival = TRUE] \in Req /\ req[i] \in Req
  BY RivalTyped DEF TypeOK
<1> QED BY <1>1 DEF RemoveReaction, Rivals, Marked

Reading(r) ==
  \/ FindFollowing(r) \/ FindFeed(r) \/ CheckAuthor(r) \/ FindActive(r) \/ CheckStory(r)
  \/ CheckFriend(r) /\ req[r].op = "open"

(* What a call does that goes on to another statement. *)
Goes(r) ==
  /\ req[r].pc \in Running /\ SameCall(r) /\ req'[r].rival = req[r].rival
  /\ req[r].pc # "findReaction" => req'[r].copy = req[r].copy
  /\ SameHands(r) \/ req[r].op \in Reads
  /\ \/ /\ Reading(r) /\ req[r].op \in Reads
        /\ req'[r].pc \in Running /\ req'[r].pc \in PCsOf(req[r].op)
     \/ /\ req[r].pc = "checkFriend" /\ req'[r].pc = "findView" /\ req[r].op # "open"
        /\ OnCloseFriendsList(req[r].author, req[r].user)
     \/ req[r].pc = "findView" /\ req'[r].pc = "insertView"
     \/ /\ req[r].pc \in {"findView", "insertView"} /\ req[r].op # "view"
        /\ req'[r].pc = "findReaction"
     \/ req[r].pc = "findReaction" /\ req'[r].pc = "insertReaction"
     \/ /\ req[r].pc = "findReaction" /\ req'[r].pc = "selectReaction"
        /\ reactions' = reactions
        /\ \E x \in ReactionsOf(req[r].user, req[r].story) :
             req'[r].copy = [x EXCEPT !.emoji = req[r].emoji]
     \/ req[r].pc = "selectReaction" /\ req'[r].pc = "reinsertReaction"
     \/ req[r].pc = "selectReaction" /\ req'[r].pc = "updateReaction"

Ends(r) == req[r].pc \in Running /\ req'[r] = Over

Moves(r) == Only(r) /\ (Goes(r) \/ Ends(r)) /\ req' \in [Request -> Req]

LEMMA EndsMove ==
  ASSUME TypeOK, NEW r \in Request, req[r].pc \in Running, NEW pc \in {"done", "failed"},
         GoTo(r, pc)
  PROVE  Moves(r) /\ Ends(r)
<1>1. pc \notin Running
  BY DEF Running
<1> QED BY <1>1, GoToOver DEF Moves, Ends

LEMMA FindReactionMoves ==
  ASSUME Inv, NEW r \in Request, FindReaction(r)
  PROVE  Moves(r)
<1>1. TypeOK /\ req[r].pc = "findReaction" /\ req[r] \in Req
  BY DEF Inv, TypeOK, FindReaction, At
<1>2. CASE GoTo(r, "insertReaction")
  BY <1>1, <1>2, GoToRuns DEF Running, Moves, Goes
<1>3. ASSUME NEW x \in ReactionsOf(req[r].user, req[r].story),
             req' = [req EXCEPT ![r].pc = "selectReaction",
                                ![r].copy = [x EXCEPT !.emoji = req[r].emoji]]
      PROVE  Moves(r)
  <2> DEFINE copy == [x EXCEPT !.emoji = req[r].emoji]
             q == [req[r] EXCEPT !.pc = "selectReaction", !.copy = copy]
  <2>1. req[r].emoji \in Emoji
    BY <1>1 DEF Inv, Coherent, HandlerAgrees, PCsOf, Req
  <2>2. copy \in Reaction
    BY <2>1 DEF ReactionsOf, Inv, TypeOK, Reaction
  <2>3. /\ q \in Req /\ q.op = req[r].op /\ q.user = req[r].user /\ q.story = req[r].story
        /\ q.author = req[r].author /\ q.emoji = req[r].emoji /\ q.rival = req[r].rival
        /\ q.copy = copy /\ q.pc = "selectReaction" /\ q.asof = req[r].asof
        /\ q.found = req[r].found /\ q.kept = req[r].kept /\ q.begun = req[r].begun
    <3> HIDE DEF copy
    <3> QED BY <1>1, <2>2 DEF Req, Running
  <2>4. req' = [req EXCEPT ![r] = q]
    BY <1>1, <1>3 DEF TypeOK
  <2>5. Goes(r)
    <3>1. req'[r] = q
      BY <1>1, <2>4 DEF TypeOK
    <3> HIDE DEF q
    <3>2. SameCall(r) /\ req'[r].rival = req[r].rival /\ req'[r].pc = "selectReaction"
          /\ req'[r].copy = copy
      BY <2>3, <3>1 DEF SameCall
    <3>4. SameHands(r)
      BY <2>3, <3>1 DEF SameHands
    <3>3. reactions' = reactions
      BY DEF FindReaction, tables
    <3> QED BY <1>1, <1>3, <3>2, <3>3, <3>4 DEF Goes, Running
  <2> HIDE DEF q
  <2>6. Only(r) /\ req' \in [Request -> Req]
    BY <1>1, <2>3, <2>4 DEF TypeOK, Only
  <2> QED BY <2>5, <2>6 DEF Moves
<1> QED BY <1>2, <1>3 DEF FindReaction

(* The statements of the queries: what they leave in memory. *)
LEMMA ReadMoves ==
  ASSUME Inv, NEW r \in Request, Reading(r)
  PROVE  Moves(r) /\ Goes(r) /\ req[r].op \in Reads /\ UNCHANGED <<tables, drafts, now, history>>
<1>1. TypeOK /\ req[r] \in Req /\ req[r].pc \in PCsOf(req[r].op) /\ req[r].pc \in Running
  BY DEF Inv, TypeOK, Coherent, HandlerAgrees, Reading, FindFollowing, FindFeed, CheckAuthor,
         FindActive, CheckStory, CheckFriend, At, Running
<1>2. UNCHANGED <<tables, drafts, now, history>>
  BY DEF Reading, FindFollowing, FindFeed, CheckAuthor, FindActive, CheckStory, CheckFriend
<1>3. ASSUME NEW pc \in Running, NEW asof \in 0 .. MaxTime,
             NEW found \in SUBSET StoryRow, NEW kept \in SUBSET StoryRow,
             req' = [req EXCEPT ![r] = [req[r] EXCEPT !.pc = pc, !.asof = asof,
                                                      !.found = found, !.kept = kept]],
             req[r].op \in Reads, pc \in PCsOf(req[r].op)
      PROVE  Moves(r) /\ Goes(r)
  <2> DEFINE q == [req[r] EXCEPT !.pc = pc, !.asof = asof, !.found = found, !.kept = kept]
  <2>1. /\ q \in Req /\ q.op = req[r].op /\ q.user = req[r].user /\ q.story = req[r].story
        /\ q.author = req[r].author /\ q.emoji = req[r].emoji /\ q.rival = req[r].rival
        /\ q.copy = req[r].copy /\ q.pc = pc
    BY <1>1 DEF Req
  <2>2. req' = [req EXCEPT ![r] = q]
    BY <1>3
  <2> HIDE DEF q
  <2>3. Only(r) /\ req' \in [Request -> Req] /\ req'[r] = q
    BY <1>1, <2>1, <2>2 DEF TypeOK, Only
  <2>4. SameCall(r) /\ req'[r].rival = req[r].rival /\ req'[r].copy = req[r].copy
    BY <2>1, <2>3 DEF SameCall
  <2>5. Goes(r)
    BY <1>1, <1>3, <2>1, <2>3, <2>4 DEF Goes
  <2> QED BY <2>3, <2>5 DEF Moves
<1>4. ASSUME NEW all, NEW kept, NEW next \in Running, all \subseteq StoryRow, kept \subseteq all,
             Sort(r, all, kept, next), req[r].op \in Reads,
             "show" \in PCsOf(req[r].op), next \in PCsOf(req[r].op)
      PROVE  Moves(r) /\ Goes(r)
  <2>1. PICK pc : pc = IF all \subseteq kept THEN "show" ELSE next
    OBVIOUS
  <2>2. req' = [req EXCEPT ![r] = [req[r] EXCEPT !.pc = pc, !.asof = 0, !.found = all \ kept,
                                                 !.kept = req[r].kept \cup kept]]
    BY <1>1, <1>4, <2>1 DEF Sort, TypeOK
  <2>3. pc \in Running /\ pc \in PCsOf(req[r].op)
    BY <1>4, <2>1 DEF Running
  <2>4. all \ kept \in SUBSET StoryRow /\ req[r].kept \cup kept \in SUBSET StoryRow /\ 0 \in 0 .. MaxTime
    BY <1>1, <1>4, DayAssumption DEF Req
  <2> QED BY <1>3, <1>4, <2>2, <2>3, <2>4
<1>5. CASE FindFollowing(r)
  <2>1. req[r].pc = "findFollowing" /\ req[r].op = "feed"
    BY <1>1, <1>5 DEF FindFollowing, At, PCsOf, Req, SeenPC, SavingPC
  <2>2. req' = [req EXCEPT ![r] = [req[r] EXCEPT !.pc = "findFeed", !.asof = now,
                                       !.found = req[r].found, !.kept = req[r].kept]]
    BY <1>1, <1>5 DEF FindFollowing, TypeOK, Req
  <2>3. now \in 0 .. MaxTime /\ req[r].found \in SUBSET StoryRow /\ req[r].kept \in SUBSET StoryRow
    BY <1>1 DEF TypeOK, Req
  <2>4. "findFeed" \in Running /\ req[r].op \in Reads /\ "findFeed" \in PCsOf(req[r].op)
    BY <2>1 DEF Running, Reads, PCsOf
  <2> QED BY <1>2, <1>3, <2>2, <2>3, <2>4
<1>6. CASE FindFeed(r)
  <2>1. req[r].pc = "findFeed" /\ req[r].op = "feed"
    BY <1>1, <1>6 DEF FindFeed, At, PCsOf, Req, SeenPC, SavingPC
  <2>2. PICK all, kept : /\ all \subseteq stories /\ kept \subseteq all
                         /\ Sort(r, all, kept, "checkAuthor")
    BY <1>6 DEF FindFeed
  <2> QED BY <1>1, <1>2, <1>4, <2>1, <2>2 DEF TypeOK, Running, Reads, PCsOf
<1>7. CASE FindActive(r)
  <2>1. req[r].pc = "findActive" /\ req[r].op = "active"
    BY <1>1, <1>7 DEF FindActive, At, PCsOf, Req, SeenPC, SavingPC
  <2>2. PICK all, kept : /\ all \subseteq stories /\ kept \subseteq all
                         /\ Sort(r, all, kept, "checkStory")
    BY <1>7 DEF FindActive
  <2> QED BY <1>1, <1>2, <1>4, <2>1, <2>2 DEF TypeOK, Running, Reads, PCsOf
<1>8. CASE CheckAuthor(r)
  <2>1. req[r].pc = "checkAuthor" /\ req[r].op = "feed"
    BY <1>1, <1>8 DEF CheckAuthor, At, PCsOf, Req, SeenPC, SavingPC
  <2>2. PICK x \in req[r].found :
          LET theirs  == {y \in req[r].found : y.author = x.author}
              allowed == OnCloseFriendsList(x.author, req[r].user)
          IN  req' = [req EXCEPT ![r].found = @ \ theirs,
                        ![r].kept = IF allowed THEN @ \cup theirs ELSE @,
                        ![r].pc = IF req[r].found \subseteq theirs THEN "show" ELSE @]
    BY <1>8 DEF CheckAuthor
  <2>3. PICK theirs, kept, pc :
          /\ theirs = {y \in req[r].found : y.author = x.author}
          /\ kept = IF OnCloseFriendsList(x.author, req[r].user) THEN req[r].kept \cup theirs
                    ELSE req[r].kept
          /\ pc = IF req[r].found \subseteq theirs THEN "show" ELSE "checkAuthor"
    OBVIOUS
  <2>4. req' = [req EXCEPT ![r] = [req[r] EXCEPT !.pc = pc, !.asof = req[r].asof,
                                       !.found = req[r].found \ theirs, !.kept = kept]]
    BY <1>1, <2>1, <2>2, <2>3, ZenonT(60) DEF TypeOK, Req
  <2>5. req[r].found \ theirs \in SUBSET StoryRow /\ kept \in SUBSET StoryRow
        /\ pc \in {"show", "checkAuthor"} /\ req[r].asof \in 0 .. MaxTime
    BY <1>1, <2>3 DEF Req
  <2> QED BY <1>2, <1>3, <2>1, <2>4, <2>5 DEF Running, Reads, PCsOf
<1>9. CASE CheckStory(r)
  <2>1. req[r].pc = "checkStory" /\ req[r].op = "active"
    BY <1>1, <1>9 DEF CheckStory, At, PCsOf, Req, SeenPC, SavingPC
  <2>2. PICK x \in req[r].found :
          req' = [req EXCEPT ![r].found = @ \ {x},
                    ![r].kept = IF OnCloseFriendsList(x.author, req[r].user) THEN @ \cup {x} ELSE @,
                    ![r].pc = IF req[r].found = {x} THEN "show" ELSE @]
    BY <1>9 DEF CheckStory
  <2>3. PICK kept, pc :
          /\ kept = IF OnCloseFriendsList(x.author, req[r].user) THEN req[r].kept \cup {x}
                    ELSE req[r].kept
          /\ pc = IF req[r].found = {x} THEN "show" ELSE "checkStory"
    OBVIOUS
  <2>4. req' = [req EXCEPT ![r] = [req[r] EXCEPT !.pc = pc, !.asof = req[r].asof,
                                       !.found = req[r].found \ {x}, !.kept = kept]]
    BY <1>1, <2>1, <2>2, <2>3, ZenonT(60) DEF TypeOK, Req
  <2>5. req[r].found \ {x} \in SUBSET StoryRow /\ kept \in SUBSET StoryRow
        /\ pc \in {"show", "checkStory"} /\ req[r].asof \in 0 .. MaxTime
    BY <1>1, <2>3 DEF Req
  <2> QED BY <1>2, <1>3, <2>1, <2>4, <2>5, ZenonT(60) DEF Running, Reads, PCsOf
<1>10. CASE CheckFriend(r) /\ req[r].op = "open"
  <2>1. PICK kept : /\ kept = IF OnCloseFriendsList(req[r].author, req[r].user)
                              THEN req[r].found ELSE {}
    OBVIOUS
  <2>2. req' = [req EXCEPT ![r] = [req[r] EXCEPT !.pc = "show", !.asof = req[r].asof,
                                       !.found = {}, !.kept = kept]]
    <3>1. req' = [req EXCEPT ![r].pc = "show", ![r].found = {}, ![r].kept = kept]
      BY <1>10, <2>1 DEF CheckFriend, Checked
    <3> QED BY <1>1, <3>1 DEF TypeOK, Req
  <2>3. kept \in SUBSET StoryRow /\ {} \in SUBSET StoryRow /\ req[r].asof \in 0 .. MaxTime
    BY <1>1, <2>1 DEF Req
  <2> QED BY <1>2, <1>3, <1>10, <2>2, <2>3 DEF Running, Reads, PCsOf
<1> QED BY <1>5, <1>6, <1>7, <1>8, <1>9, <1>10 DEF Reading

LEMMA StoreMoves ==
  ASSUME TypeOK, NEW r \in Request, req[r].pc \in Running, NEW row, StoreReaction(r, row)
  PROVE  Moves(r) /\ Ends(r)
BY EndsMove DEF StoreReaction

LEMMA StepMoves ==
  ASSUME Inv, NEW r \in Request, Step(r) \/ Fail(r)
  PROVE  Moves(r)
<1>0. TypeOK
  BY DEF Inv
<1>1. CASE CheckFriend(r) /\ req[r].op # "open"
  <2>1. req[r].pc = "checkFriend" /\ req[r].pc \in Running
    BY <1>1 DEF CheckFriend, At, Running
  <2>2. CASE OnCloseFriendsList(req[r].author, req[r].user) /\ GoTo(r, "findView")
    BY <1>0, <1>1, <2>1, <2>2, GoToRuns DEF Running, Moves, Goes
  <2> QED BY <1>0, <1>1, <2>1, <2>2, EndsMove DEF CheckFriend, Checked
<1>2. CASE req[r].pc \in {"findView", "insertView"} /\ GoTo(r, AfterView(r))
  <2>1. req[r].pc \in Running
    BY <1>2 DEF Running
  <2>2. CASE req[r].op = "view"
    BY <1>0, <1>2, <2>1, <2>2, EndsMove DEF AfterView
  <2>3. CASE req[r].op # "view"
    BY <1>0, <1>2, <2>1, <2>3, GoToRuns DEF AfterView, Running, Moves, Goes
  <2> QED BY <2>2, <2>3
<1>3. CASE FindView(r)
  <2>1. req[r].pc = "findView"
    BY <1>3 DEF FindView, At
  <2>2. CASE GoTo(r, "insertView")
    BY <1>0, <2>1, <2>2, GoToRuns DEF Running, Moves, Goes
  <2> QED BY <1>2, <1>3, <2>1, <2>2 DEF FindView
<1>4. CASE InsertView(r) \/ InsertViewIgnored(r)
  BY <1>2, <1>4 DEF InsertView, InsertViewIgnored, At
<1>5. CASE FindReaction(r)
  BY <1>5, FindReactionMoves
<1>6. CASE InsertReaction(r) \/ ReinsertReaction(r)
  BY <1>0, <1>6, StoreMoves DEF InsertReaction, ReinsertReaction, At, Running
<1>7. CASE SelectReaction(r)
  <2>1. req[r].pc = "selectReaction"
    BY <1>7 DEF SelectReaction, At
  <2>2. ASSUME NEW pc \in {"reinsertReaction", "updateReaction"}, GoTo(r, pc)
        PROVE  Moves(r)
    BY <1>0, <2>1, <2>2, GoToRuns DEF Running, Moves, Goes
  <2> QED BY <1>0, <1>7, <2>1, <2>2, EndsMove DEF SelectReaction, Running
<1>8. CASE UpdateReaction(r)
  BY <1>0, <1>8, EndsMove DEF UpdateReaction, At, Running
<1>9. CASE RemoveStory(r)
  BY <1>0, <1>9, EndsMove DEF RemoveStory, At, Running
<1>10. CASE Fail(r)
  BY <1>0, <1>10, EndsMove DEF Fail
<1>11. CASE Show(r)
  BY <1>0, <1>11, EndsMove DEF Show, At, Running
<1>12. CASE Reading(r)
  BY <1>12, ReadMoves
<1> QED BY <1>1, <1>3, <1>4, <1>5, <1>6, <1>7, <1>8, <1>9, <1>10, <1>11, <1>12 DEF Step, Reading

(* The calls in flight change only by one that starts or goes on, and by a rival. *)
LEMMA ReqMoves ==
  ASSUME Inv, [Next]_vars
  PROVE  \/ req' = req
         \/ \E r \in Request : Only(r) /\ Starts(r) /\ req'[r].op # "react"
         \/ \E r \in Request : Moves(r)
         \/ \E r \in Request, u \in User, s \in Story :
              /\ Starts(r) /\ \A i \in Request : i # r => Marked(i, u, s)
              /\ req'[r].op = "react" => req'[r].user = u /\ req'[r].story = s
         \/ \A i \in Request : Waits(i)
<1>0. TypeOK
  BY DEF Inv
<1>1. ASSUME NEW r \in Request, NEW u \in User, NEW s \in Story, View(r, u, s) \/ Delete(r, u, s)
      PROVE  Only(r) /\ Starts(r) /\ req'[r].op # "react"
  <2>1. Only(r) /\ Starts(r)
    BY <1>0, <1>1, ViewStarts, DeleteStarts
  <2>2. PICK op, pc : op # "react" /\ Begin(r, op, pc, u, s, None)
    BY <1>1 DEF View, Delete
  <2>3. req'[r] = Loaded(op, pc, u, s, None, FALSE)
    BY <1>0, <2>2 DEF Begin, TypeOK
  <2>4. req'[r].op # "react"
    <3>1. CASE pc \in Running
      BY <2>2, <2>3, <3>1 DEF Loaded
    <3>2. CASE pc \notin Running
      BY <2>3, <3>2, OverFields DEF Loaded
    <3> QED BY <3>1, <3>2
  <2> QED BY <2>1, <2>4
<1>2. ASSUME NEW r \in Request, NEW u \in User, NEW s \in Story, NEW e \in Emoji, React(r, u, s, e)
      PROVE  /\ Starts(r) /\ \A i \in Request : i # r => Marked(i, u, s)
             /\ req'[r].op = "react" => req'[r].user = u /\ req'[r].story = s
  BY <1>0, <1>2, ReactStarts, OverFields
<1>3. ASSUME NEW r \in Request, Call(r)
      PROVE  \/ Only(r) /\ Starts(r) /\ req'[r].op # "react"
             \/ \E u \in User, s \in Story :
                  /\ Starts(r) /\ \A i \in Request : i # r => Marked(i, u, s)
                  /\ req'[r].op = "react" => req'[r].user = u /\ req'[r].story = s
  <2>1. ASSUME Asking(r)
        PROVE  Only(r) /\ Starts(r) /\ req'[r].op # "react"
    <3>1. Only(r) /\ Starts(r)
      BY <1>0, <2>1, AskStarts
    <3>2. req'[r].op # "react"
      BY <1>0, <2>1, AskReads DEF Reads
    <3> QED BY <3>1, <3>2
  <2> QED BY <1>1, <1>2, <1>3, <2>1 DEF Call, Asking
<1>4. ASSUME Instant
      PROVE  req' = req \/ \A i \in Request : Waits(i)
  <2>1. ASSUME NEW u \in Author, NEW v \in User, NEW on \in BOOLEAN, SetCloseFriend(u, v, on)
        PROVE  \A i \in Request : Waits(i)
    BY <1>0, <2>1, ListMarks, AuthorAssumption
  <2>2. ASSUME NEW u \in User, NEW s \in Story, RemoveReaction(u, s)
        PROVE  \A i \in Request : Waits(i)
    BY <1>0, <2>2, RemovalMarks, MarkedWaits
  <2> QED BY <1>4, <2>1, <2>2
     DEF Instant, Publish, InsertStory, LoseStory, CleanupExpiredStories, Tick
<1>5. CASE UNCHANGED vars
  BY <1>5 DEF vars
<1> QED BY <1>3, <1>4, <1>5, StepMoves DEF Next

(* In every step each call waits, starts, goes on or ends. *)
LEMMA Each ==
  ASSUME Inv, [Next]_vars, NEW i \in Request
  PROVE  Waits(i) \/ Starts(i) \/ Goes(i) \/ Ends(i)
<1>1. TypeOK
  BY DEF Inv
<1>2. req'[i] = req[i] => Waits(i)
  BY DEF Waits, SameCall, SameHands
<1> QED BY <1>1, <1>2, ReqMoves, MarkedWaits DEF Only, Moves

LEMMA OverLasts ==
  ASSUME Inv, [Next]_vars, NEW i \in Request, req[i].pc = "over"
  PROVE  req'[i].pc = "over"
BY Each DEF Waits, Starts, Goes, Ends, Running

-----------------------------------------------------------------------------
(* Type correctness *)

(* TypeOK without the calls in flight. *)
StateTypes ==
  /\ stories \cup drafts \subseteq StoryRow
  /\ views \cup admitted \subseteq User \X Story
  /\ reactions \subseteq Reaction
  /\ close \subseteq Follows
  /\ now \in 0 .. MaxTime
  /\ published \cup removed \subseteq Story
  /\ answer \in [User \X Story -> Emoji \cup {"none", "unknown"}]

LEMMA ReqTypes ==
  ASSUME Inv, [Next]_vars
  PROVE  req' \in [Request -> Req]
<1>0. TypeOK /\ req \in [Request -> Req]
  BY DEF Inv, TypeOK
<1>1. ASSUME NEW r \in Request, Call(r) \/ Step(r) \/ Fail(r)
      PROVE  req' \in [Request -> Req]
  BY <1>0, <1>1, ViewStarts, DeleteStarts, ReactStarts, AskStarts, StepMoves DEF Call, Asking, Moves
<1>2. ASSUME Instant
      PROVE  req' \in [Request -> Req]
  <2>1. ASSUME NEW u \in Author, NEW v \in User, NEW on \in BOOLEAN, SetCloseFriend(u, v, on)
        PROVE  req' \in [Request -> Req]
    BY <1>0, <2>1, ListMarks, AuthorAssumption
  <2> QED BY <1>0, <1>2, <2>1, RemovalMarks
     DEF Instant, Publish, InsertStory, LoseStory, CleanupExpiredStories, Tick
<1> QED BY <1>0, <1>1, <1>2 DEF Next, vars

LEMMA DeletionTypes ==
  ASSUME TypeOK, NEW gone, DeleteStories(gone), removed' \subseteq Story
  PROVE  StateTypes'
<1>1. answer' \in [User \X Story -> Emoji \cup {"none", "unknown"}]
  BY DEF DeleteStories, TypeOK
<1> QED BY <1>1 DEF DeleteStories, TypeOK, StateTypes

LEMMA AnsweredTypes ==
  ASSUME TypeOK, NEW r \in Request, req[r].emoji \in Emoji
  PROVE  Answered(r) \in [User \X Story -> Emoji \cup {"none", "unknown"}]
BY DEF TypeOK, Answered

(* The statements of react write what they have in memory. *)
LEMMA ReactionTypes ==
  ASSUME Inv, NEW r \in Request,
         InsertReaction(r) \/ SelectReaction(r) \/ UpdateReaction(r) \/ ReinsertReaction(r)
  PROVE  StateTypes'
<1>0. TypeOK /\ HandlerAgrees(r) /\ req[r] \in Req
  BY DEF Inv, TypeOK, Coherent
<1>1. req[r].pc \in {"insertReaction"} \cup SavingPC
  BY DEF InsertReaction, SelectReaction, UpdateReaction, ReinsertReaction, At, SavingPC
<1>2. req[r].op = "react"
  BY <1>0, <1>1 DEF HandlerAgrees, PCsOf, SavingPC, Req
<1>3. req[r].user \in User /\ req[r].story \in Story /\ req[r].emoji \in Emoji
  BY <1>0, <1>2 DEF HandlerAgrees, TypeOK
<1>4. Answered(r) \in [User \X Story -> Emoji \cup {"none", "unknown"}]
  BY <1>0, <1>3, AnsweredTypes
<1>5. ASSUME NEW row \in Reaction, StoreReaction(r, row)
      PROVE  StateTypes'
  BY <1>0, <1>4, <1>5 DEF StoreReaction, StateTypes, TypeOK
<1>6. CASE InsertReaction(r)
  <2>1. [id |-> r, user |-> req[r].user, story |-> req[r].story, emoji |-> req[r].emoji]
          \in Reaction
    BY <1>3 DEF Reaction
  <2> QED BY <1>5, <1>6, <2>1 DEF InsertReaction
<1>7. req[r].pc \in SavingPC => req[r].copy \in Reaction
  BY <1>0 DEF HandlerAgrees, CopyAgrees
<1>8. CASE ReinsertReaction(r)
  BY <1>5, <1>7, <1>8 DEF ReinsertReaction, At, SavingPC
<1>9. CASE UpdateReaction(r)
  <2>1. reactions' \subseteq Reaction
    BY <1>0, <1>7, <1>9 DEF UpdateReaction, At, SavingPC, TypeOK
  <2> QED BY <1>0, <1>4, <1>9, <2>1 DEF UpdateReaction, StateTypes, TypeOK
<1>10. CASE SelectReaction(r)
  <2>1. answer' \in [User \X Story -> Emoji \cup {"none", "unknown"}]
    BY <1>0, <1>4, <1>10 DEF SelectReaction, TypeOK
  <2> QED BY <1>0, <1>10, <2>1 DEF SelectReaction, StateTypes, TypeOK, tables
<1> QED BY <1>6, <1>8, <1>9, <1>10

LEMMA InsertViewTypes ==
  ASSUME Inv, NEW r \in Request, InsertView(r)
  PROVE  StateTypes'
<1>0. TypeOK /\ HandlerAgrees(r) /\ req[r] \in Req
  BY DEF Inv, TypeOK, Coherent
<1>1. req[r].op \in {"view", "react"}
  BY <1>0 DEF InsertView, At, HandlerAgrees, PCsOf, Req
<1>2. req[r].user \in User /\ req[r].story \in Story
  BY <1>0, <1>1 DEF HandlerAgrees, TypeOK
<1>3. views' \subseteq User \X Story
  BY <1>0, <1>2 DEF InsertView, TypeOK
<1> QED BY <1>0, <1>3 DEF InsertView, StateTypes, TypeOK, history

LEMMA InstantTypes ==
  ASSUME Inv, Instant
  PROVE  StateTypes'
<1>0. TypeOK
  BY DEF Inv
<1>1. ASSUME NEW u \in User, NEW s \in Story, NEW v \in {"public", "close_friends"},
             Publish(u, s, v)
      PROVE  StateTypes'
  <2> DEFINE row == [id |-> s, author |-> u, visibility |-> v, expiresAt |-> now + Day]
  <2>1. now + Day \in Day .. MaxTime + Day
    BY <1>0, DayAssumption DEF TypeOK
  <2>2. row \in StoryRow
    BY <2>1 DEF StoryRow
  <2>3. drafts' = drafts \cup {row} /\ UNCHANGED <<tables, now, history>>
    BY <1>1 DEF Publish
  <2> HIDE DEF row
  <2> QED BY <1>0, <2>2, <2>3 DEF StateTypes, TypeOK, tables, history
<1>2. ASSUME NEW u \in User, NEW s \in Story, RemoveReaction(u, s)
      PROVE  StateTypes'
  <2>1. answer' \in [User \X Story -> Emoji \cup {"none", "unknown"}]
    BY <1>0, <1>2 DEF RemoveReaction, TypeOK
  <2> QED BY <1>0, <1>2, <2>1 DEF RemoveReaction, StateTypes, TypeOK
<1>3. ASSUME NEW u \in User, NEW v \in User, NEW on \in BOOLEAN, SetCloseFriend(u, v, on)
      PROVE  StateTypes'
  <2>1. close' \subseteq Follows
    BY <1>0, <1>3 DEF SetCloseFriend, TypeOK
  <2>2. \A x \in stories : x.id \in Story
    BY <1>0 DEF TypeOK, StoryRow
  <2>3. admitted' \subseteq User \X Story
    BY <1>0, <1>3, <2>2 DEF SetCloseFriend, TypeOK
  <2> QED BY <1>0, <1>3, <2>1, <2>3 DEF SetCloseFriend, StateTypes, TypeOK
<1>4. ASSUME CleanupExpiredStories
      PROVE  StateTypes'
  BY <1>0, <1>4, DeletionTypes DEF CleanupExpiredStories, TypeOK
<1>5. ASSUME Tick
      PROVE  StateTypes'
  BY <1>0, <1>5, DayAssumption DEF Tick, StateTypes, TypeOK, tables, history
<1>6. ASSUME NEW d \in drafts, InsertStory(d)
      PROVE  StateTypes'
  <2>1. d \in StoryRow /\ d.id \in Story
    BY <1>0 DEF TypeOK, StoryRow
  <2>2. admitted' \subseteq User \X Story
    BY <1>0, <1>6, <2>1 DEF InsertStory, TypeOK
  <2> QED BY <1>0, <1>6, <2>1, <2>2 DEF InsertStory, StateTypes, TypeOK
<1>7. ASSUME NEW d \in drafts, LoseStory(d)
      PROVE  StateTypes'
  BY <1>0, <1>7 DEF LoseStory, StateTypes, TypeOK, tables, history
<1> QED BY <1>1, <1>2, <1>3, <1>4, <1>5, <1>6, <1>7, AuthorAssumption DEF Instant

LEMMA TypeOKStep ==
  ASSUME Inv, [Next]_vars
  PROVE  TypeOK'
<1>0. TypeOK /\ StateTypes
  BY DEF Inv, TypeOK, StateTypes
<1>1. ASSUME UNCHANGED <<tables, drafts, now, history>>
      PROVE  StateTypes'
  BY <1>0, <1>1 DEF StateTypes, tables, history
<1>2. ASSUME NEW r \in Request, NEW u \in User, NEW s \in Story, NEW e \in Emoji, React(r, u, s, e)
      PROVE  StateTypes'
  <2>1. answer' \in [User \X Story -> Emoji \cup {"none", "unknown"}]
    BY <1>0, <1>2, ReactStarts DEF TypeOK
  <2> QED BY <1>0, <1>2, <2>1 DEF React, StateTypes, tables
<1>3. ASSUME NEW r \in Request, Call(r)
      PROVE  StateTypes'
  BY <1>0, <1>1, <1>2, <1>3, ViewStarts, DeleteStarts, AskStarts DEF Call, Asking
<1>4. ASSUME NEW r \in Request, Step(r) \/ Fail(r)
      PROVE  StateTypes'
  <2>1. CASE CheckFriend(r) \/ FindView(r) \/ InsertViewIgnored(r) \/ FindReaction(r) \/ Fail(r)
             \/ Show(r)
    BY <1>1, <2>1 DEF CheckFriend, FindView, InsertViewIgnored, FindReaction, Fail, Show
  <2>2. CASE RemoveStory(r)
    <3>1. HandlerAgrees(r) /\ req[r] \in Req /\ req[r].op = "delete"
      BY <2>2 DEF Inv, Coherent, TypeOK, RemoveStory, At, HandlerAgrees, PCsOf, Req, SeenPC, SavingPC
    <3>2. req[r].story \in Story
      BY <3>1 DEF HandlerAgrees
    <3> QED BY <1>0, <2>2, <3>2, DeletionTypes DEF RemoveStory, TypeOK
  <2>3. CASE Reading(r)
    BY <1>1, <2>3, ReadMoves
  <2> QED BY <1>4, <2>1, <2>2, <2>3, InsertViewTypes, ReactionTypes DEF Step, Reading
<1>5. ASSUME UNCHANGED vars
      PROVE  StateTypes'
  BY <1>0, <1>5 DEF vars, tables, history, StateTypes
<1>6. StateTypes'
  BY <1>3, <1>4, <1>5, InstantTypes DEF Next
<1> QED BY <1>6, ReqTypes DEF StateTypes, TypeOK

-----------------------------------------------------------------------------
(* What a step does to the tables *)

LEMMA StoriesStay ==
  ASSUME Inv, [Next]_vars
  PROVE  \/ UNCHANGED <<stories, published, admitted, close>>
         \/ \E d \in drafts : InsertStory(d)
         \/ \E u, v \in User, on \in BOOLEAN : SetCloseFriend(u, v, on)
         \/ \E gone : DeleteStories(gone)
<1>0. TypeOK
  BY DEF Inv
<1>1. ASSUME NEW r \in Request, Call(r)
      PROVE  UNCHANGED <<stories, published, admitted, close>>
  BY <1>0, <1>1, ViewStarts, DeleteStarts, ReactStarts, AskStarts DEF Call, Asking, tables, history
<1>2. ASSUME NEW r \in Request, Step(r) \/ Fail(r), ~RemoveStory(r)
      PROVE  UNCHANGED <<stories, published, admitted, close>>
  BY <1>2 DEF Step, Fail, CheckFriend, FindView, InsertView, InsertViewIgnored, FindReaction,
              InsertReaction, SelectReaction, UpdateReaction, ReinsertReaction, StoreReaction,
              FindFollowing, FindFeed, CheckAuthor, FindActive, CheckStory, Show, tables, history
<1>3. ASSUME NEW r \in Request, RemoveStory(r)
      PROVE  \E gone : DeleteStories(gone)
  BY <1>3 DEF RemoveStory
<1>4. ASSUME CleanupExpiredStories
      PROVE  \E gone : DeleteStories(gone)
  BY <1>4 DEF CleanupExpiredStories
<1>5. ASSUME NEW u \in User, NEW s \in Story, RemoveReaction(u, s)
      PROVE  UNCHANGED <<stories, published, admitted, close>>
  BY <1>5 DEF RemoveReaction
<1>6. ASSUME Tick \/ UNCHANGED vars
      PROVE  UNCHANGED <<stories, published, admitted, close>>
  BY <1>6 DEF Tick, vars, tables, history
<1>7. ASSUME NEW u \in User, NEW s \in Story, NEW v, Publish(u, s, v)
      PROVE  UNCHANGED <<stories, published, admitted, close>>
  BY <1>7 DEF Publish, tables, history
<1>8. ASSUME NEW d, LoseStory(d)
      PROVE  UNCHANGED <<stories, published, admitted, close>>
  BY <1>8 DEF LoseStory, tables, history
<1> QED BY <1>1, <1>2, <1>3, <1>4, <1>5, <1>6, <1>7, <1>8, AuthorAssumption DEF Next, Instant

(* A story is published once, and its audience only grows while it is up. *)
StoriesGrow ==
  /\ published \subseteq published'
  /\ \A x \in stories' : x \in stories \/ x.id \notin published
  /\ \A x \in stories', v \in User : <<v, x.id>> \in admitted => <<v, x.id>> \in admitted'

LEMMA StoriesLast ==
  ASSUME Inv, [Next]_vars
  PROVE  StoriesGrow
<1>1. CASE UNCHANGED <<stories, published, admitted, close>>
  BY <1>1 DEF StoriesGrow
<1>2. ASSUME NEW d \in drafts, InsertStory(d)
      PROVE  StoriesGrow
  <2>1. d.id \notin published
    BY DEF Inv, Coherent, TablesAgree
  <2> QED BY <1>2, <2>1 DEF InsertStory, StoriesGrow
<1>3. ASSUME NEW u \in User, NEW v \in User, NEW on \in BOOLEAN, SetCloseFriend(u, v, on)
      PROVE  StoriesGrow
  BY <1>3 DEF SetCloseFriend, StoriesGrow
<1>4. ASSUME NEW gone, DeleteStories(gone)
      PROVE  StoriesGrow
  BY <1>4 DEF DeleteStories, StoriesGrow
<1> QED BY <1>1, <1>2, <1>3, <1>4, StoriesStay

(* A story that was published and exists existed before. *)
LEMMA ExistedBefore ==
  ASSUME Inv, [Next]_vars, NEW s \in published, Exists(s)'
  PROVE  Exists(s)
BY StoriesLast DEF StoriesGrow, Exists

LEMMA EntitledLasts ==
  ASSUME Inv, [Next]_vars, NEW u \in User, NEW s \in published, Entitled(u, s)
  PROVE  Entitled(u, s)'
BY StoriesLast DEF StoriesGrow, Entitled

(* The row a reaction is about to store. *)
RowToStore(r) ==
  IF req[r].pc = "insertReaction"
  THEN [id |-> r, user |-> req[r].user, story |-> req[r].story, emoji |-> req[r].emoji]
  ELSE req[r].copy

Inserts(r, row) ==
  /\ req[r].pc \in {"insertReaction", "reinsertReaction"} /\ row = RowToStore(r)
  /\ Exists(row.story) /\ ReactionsOf(row.user, row.story) = {}
  /\ reactions' = reactions \cup {row} /\ answer' = Answered(r) /\ stories' = stories
  /\ Moves(r) /\ Ends(r)

Confirms(r) ==
  /\ req[r].pc = "selectReaction" /\ req[r].copy \in reactions
  /\ reactions' = reactions /\ answer' = Answered(r) /\ stories' = stories
  /\ Moves(r) /\ Ends(r)

(* UpdateReaction, in terms of what is in the table. *)
Updates(r) ==
  /\ req[r].pc = "updateReaction"
  /\ \A x : x \in reactions' <=>
              \/ x \in reactions /\ x.id # req[r].copy.id
              \/ x = req[r].copy /\ \E y \in reactions : y.id = req[r].copy.id
  /\ answer' = Answered(r) /\ stories' = stories
  /\ Moves(r) /\ Ends(r)

LEMMA UpdatesRow ==
  ASSUME Inv, NEW r \in Request, UpdateReaction(r)
  PROVE  Updates(r)
<1>1. TypeOK /\ req[r].pc = "updateReaction" /\ Moves(r) /\ Ends(r)
  BY EndsMove DEF Inv, UpdateReaction, At, Running
<1>2. PICK c : c = req[r].copy
  OBVIOUS
<1>3. reactions' = {IF x.id = c.id THEN c ELSE x : x \in reactions}
  BY <1>2 DEF UpdateReaction
<1>4. \A x : x \in reactions' <=>
              \/ x \in reactions /\ x.id # c.id
              \/ x = c /\ \E y \in reactions : y.id = c.id
  BY <1>3, SMT
<1> QED BY <1>1, <1>2, <1>4 DEF Updates, UpdateReaction

(* Where reactions and what is answered about them change. *)
LEMMA ReactionsStay ==
  ASSUME Inv, [Next]_vars
  PROVE  \/ UNCHANGED <<reactions, answer>> /\ ~\E gone : DeleteStories(gone)
         \/ \E r \in Request : Confirms(r) \/ Updates(r) \/ \E row : Inserts(r, row)
         \/ \E u \in User, s \in Story : RemoveReaction(u, s)
         \/ \E gone : DeleteStories(gone)
         \/ \E r \in Request, u \in User, s \in Story, e \in Emoji : React(r, u, s, e)
<1> USE DEF Inv
<1>1. ASSUME NEW r \in Request, Asking(r) \/ \E u \in User, s \in Story : View(r, u, s) \/ Delete(r, u, s)
      PROVE  UNCHANGED <<reactions, answer>>
  BY <1>1, AskStarts DEF View, Delete, tables, history
<1>2. ASSUME NEW r \in Request, InsertReaction(r) \/ ReinsertReaction(r)
      PROVE  UNCHANGED <<reactions, answer>> \/ \E row : Inserts(r, row)
  <2>1. PICK row : /\ row = RowToStore(r) /\ StoreReaction(r, row)
                   /\ req[r].pc \in {"insertReaction", "reinsertReaction"}
    BY <1>2 DEF InsertReaction, ReinsertReaction, RowToStore, At
  <2>2. Moves(r) /\ Ends(r)
    BY <2>1, StoreMoves DEF Running
  <2> QED BY <2>1, <2>2 DEF StoreReaction, Inserts
<1>3. ASSUME NEW r \in Request, SelectReaction(r)
      PROVE  UNCHANGED <<reactions, answer>> \/ Confirms(r)
  <2>1. req[r].pc = "selectReaction" /\ UNCHANGED <<reactions, stories>>
    BY <1>3 DEF SelectReaction, At, tables
  <2>2. CASE req[r].copy \in {x \in reactions : x.id = req[r].copy.id}
    <3>1. GoTo(r, "done") /\ answer' = Answered(r) /\ req[r].copy \in reactions
      BY <1>3, <2>2 DEF SelectReaction
    <3>2. Moves(r) /\ Ends(r)
      BY <2>1, <3>1, EndsMove DEF Running
    <3> QED BY <2>1, <3>1, <3>2 DEF Confirms
  <2>3. CASE req[r].copy \notin {x \in reactions : x.id = req[r].copy.id}
    BY <1>3, <2>1, <2>3 DEF SelectReaction
  <2> QED BY <2>2, <2>3
<1>4. ASSUME NEW r \in Request, Step(r) \/ Fail(r), ~RemoveStory(r), ~SelectReaction(r),
             ~InsertReaction(r), ~ReinsertReaction(r), ~UpdateReaction(r)
      PROVE  UNCHANGED <<reactions, answer>>
  BY <1>4 DEF Step, Fail, CheckFriend, FindView, InsertView, InsertViewIgnored, FindReaction,
              FindFollowing, FindFeed, CheckAuthor, FindActive, CheckStory, Show, tables, history
<1>5. ASSUME NEW r \in Request, RemoveStory(r)
      PROVE  \E gone : DeleteStories(gone)
  BY <1>5 DEF RemoveStory
<1>6. ASSUME CleanupExpiredStories
      PROVE  \E gone : DeleteStories(gone)
  BY <1>6 DEF CleanupExpiredStories
<1>7. ASSUME \/ \E u \in User, s \in Story, v \in {"public", "close_friends"} : Publish(u, s, v)
             \/ \E d \in drafts : InsertStory(d) \/ LoseStory(d)
      PROVE  UNCHANGED <<reactions, answer>>
  BY <1>7 DEF Publish, InsertStory, LoseStory, tables, history
<1>8. ASSUME NEW u \in User, NEW v \in User, NEW on \in BOOLEAN, SetCloseFriend(u, v, on)
      PROVE  UNCHANGED <<reactions, answer>>
  BY <1>8 DEF SetCloseFriend
<1>9. ASSUME Tick \/ UNCHANGED vars
      PROVE  UNCHANGED <<reactions, answer>>
  BY <1>9 DEF Tick, vars, tables, history
<1> QED BY <1>1, <1>2, <1>3, <1>4, <1>5, <1>6, <1>7, <1>8, <1>9, UpdatesRow, AuthorAssumption
     DEF Next, Instant, Call, Asking

(* What a call that writes a reaction knows. *)
Writes(r, row) ==
  /\ r \in Request /\ req[r].op = "react" /\ req[r].user \in User /\ req[r].story \in Story
  /\ req[r].emoji \in Emoji /\ Entitled(req[r].user, req[r].story)
  /\ row \in Reaction /\ row.user = req[r].user /\ row.story = req[r].story
  /\ row.emoji = req[r].emoji

LEMMA WriterKnows ==
  ASSUME Inv, NEW r \in Request
  PROVE  /\ req[r].pc \in SavingPC => Writes(r, req[r].copy)
         /\ req[r].pc = "insertReaction" => Writes(r, RowToStore(r))
<1>1. HandlerAgrees(r) /\ TypeOK /\ req[r] \in Req
  BY DEF Inv, Coherent, TypeOK
<1>2. ASSUME req[r].pc \in SavingPC \cup {"insertReaction"}
      PROVE  /\ req[r].op = "react" /\ req[r].user \in User /\ req[r].story \in Story
             /\ req[r].emoji \in Emoji /\ Entitled(req[r].user, req[r].story)
  <2>1. req[r].op = "react" /\ req[r].pc \in SeenPC
    BY <1>1, <1>2 DEF HandlerAgrees, PCsOf, SavingPC, SeenPC, Req
  <2> QED BY <1>1, <2>1 DEF HandlerAgrees, TypeOK
<1>3. ASSUME req[r].pc \in SavingPC
      PROVE  Writes(r, req[r].copy)
  BY <1>1, <1>2, <1>3 DEF HandlerAgrees, CopyAgrees, Writes
<1>4. ASSUME req[r].pc = "insertReaction"
      PROVE  Writes(r, RowToStore(r))
  <2>1. /\ req[r].op = "react" /\ req[r].user \in User /\ req[r].story \in Story
        /\ req[r].emoji \in Emoji /\ Entitled(req[r].user, req[r].story)
    BY <1>2, <1>4
  <2>2. RowToStore(r) = [id |-> r, user |-> req[r].user, story |-> req[r].story,
                         emoji |-> req[r].emoji]
    BY <1>4 DEF RowToStore
  <2> QED BY <2>1, <2>2 DEF Writes, Reaction
<1> QED BY <1>3, <1>4

(* A row that is stored has a fresh id, or one that is its owner's. *)
LEMMA InsertFresh ==
  ASSUME Inv, NEW r \in Request, NEW row, Inserts(r, row)
  PROVE  /\ Writes(r, row) /\ \A x \in reactions : x.id # row.id
         /\ row.id = r \/ Owned(row.id, row.user, row.story)
<1>1. CASE req[r].pc = "insertReaction"
  <2>1. Writes(r, row) /\ row.id = r
    BY <1>1, WriterKnows DEF Inserts, RowToStore
  <2>2. \A x \in reactions : x.id # r
    BY <1>1 DEF Inv, Coherent, IdsAgree, Owned
  <2> QED BY <2>1, <2>2
<1>2. CASE req[r].pc = "reinsertReaction"
  <2>1. Writes(r, row) /\ row = req[r].copy /\ req[r].pc \in SavingPC
    BY <1>2, WriterKnows DEF Inserts, RowToStore, SavingPC
  <2>2. Owned(row.id, row.user, row.story)
    BY <2>1 DEF Inv, Coherent, HandlerAgrees, CopyAgrees
  <2>3. ASSUME NEW x \in reactions, x.id = row.id
        PROVE  FALSE
    <3>1. x \in ReactionsOf(row.user, row.story)
      BY <2>2, <2>3 DEF Owned, ReactionsOf
    <3> QED BY <3>1 DEF Inserts
  <2> QED BY <2>1, <2>2, <2>3
<1> QED BY <1>1, <1>2 DEF Inserts

(* A row of the table has an owner; an owned row stays its owner's. *)
LEMMA RowsLast ==
  ASSUME Inv, [Next]_vars, NEW id, NEW u, NEW s, Owned(id, u, s),
         NEW x \in reactions', x.id = id
  PROVE  x.user = u /\ x.story = s
<1>1. CASE x \in reactions
  BY <1>1 DEF Owned
<1>2. ASSUME NEW r \in Request, NEW row, Inserts(r, row), x = row
      PROVE  x.user = u /\ x.story = s
  <2>1. CASE req[r].pc = "insertReaction"
    BY <1>2, <2>1 DEF Inserts, RowToStore, Owned
  <2>2. CASE req[r].pc = "reinsertReaction"
    <3>1. Writes(r, row) /\ row = req[r].copy /\ req[r].pc \in SavingPC
      BY <1>2, <2>2, WriterKnows DEF Inserts, RowToStore, SavingPC
    <3> QED BY <1>2, <3>1 DEF Owned, Writes
  <2> QED BY <1>2, <2>1, <2>2 DEF Inserts
<1>3. ASSUME NEW r \in Request, Updates(r), x \notin reactions
      PROVE  x.user = u /\ x.story = s
  <2>1. x = req[r].copy /\ req[r].pc \in SavingPC
    BY <1>3 DEF Updates, SavingPC
  <2>2. Writes(r, req[r].copy)
    BY <2>1, WriterKnows
  <2> QED BY <2>1, <2>2 DEF Owned, Writes
<1>4. ASSUME NEW v \in User, NEW t \in Story, RemoveReaction(v, t)
      PROVE  x \in reactions
  BY <1>4 DEF RemoveReaction
<1>5. ASSUME NEW gone, DeleteStories(gone)
      PROVE  x \in reactions
  BY <1>5 DEF DeleteStories
<1>6. ASSUME NEW r \in Request, NEW v \in User, NEW t \in Story, NEW e \in Emoji, React(r, v, t, e)
      PROVE  x \in reactions
  BY <1>6 DEF React, tables
<1> QED BY <1>1, <1>2, <1>3, <1>4, <1>5, <1>6, ReactionsStay DEF Inserts, Confirms

(* The copy of a call that is about to save was its copy, or has just been found. *)
LEMMA CopiesFrom ==
  ASSUME Inv, [Next]_vars, NEW i \in Request, req'[i].pc \in SavingPC
  PROVE  /\ SameCall(i)
         /\ \/ req[i].pc \in SavingPC /\ req'[i].copy = req[i].copy
            \/ /\ reactions' = reactions /\ req'[i].pc = "selectReaction"
               /\ req[i].pc = "findReaction"
               /\ \E x \in ReactionsOf(req[i].user, req[i].story) :
                    req'[i].copy = [x EXCEPT !.emoji = req[i].emoji]
<1>1. CASE Waits(i)
  BY <1>1 DEF Waits
<1>2. CASE Starts(i)
  BY <1>2, OverFields DEF Starts, SavingPC, PCsOf, Reads
<1>3. CASE Goes(i)
  BY <1>3 DEF Goes, SavingPC, PCsOf, Reads
<1>4. CASE Ends(i)
  BY <1>4, OverFields DEF Ends, SavingPC
<1> QED BY <1>1, <1>2, <1>3, <1>4, Each

LEMMA FoundCopy ==
  ASSUME Inv, NEW x \in reactions, NEW e \in Emoji, NEW c, c = [x EXCEPT !.emoji = e]
  PROVE  c \in Reaction /\ c.id = x.id /\ c.user = x.user /\ c.story = x.story /\ c.emoji = e
BY DEF Inv, TypeOK, Reaction

LEMMA ReactsEmoji ==
  ASSUME Inv, NEW i \in Request, req[i].pc \in {"findReaction"} \cup SavingPC
  PROVE  /\ req[i].op = "react" /\ req[i].emoji \in Emoji
         /\ req[i].user \in User /\ req[i].story \in Story /\ req[i].story \in published
<1>1. HandlerAgrees(i) /\ req[i] \in Req /\ TypeOK
  BY DEF Inv, Coherent, TypeOK
<1>2. req[i].op = "react"
  BY <1>1 DEF HandlerAgrees, PCsOf, SavingPC, Req
<1> QED BY <1>1, <1>2 DEF HandlerAgrees, TypeOK

LEMMA OwnedLasts ==
  ASSUME Inv, [Next]_vars, NEW id \in Request, NEW u, NEW s, Owned(id, u, s)
  PROVE  Owned(id, u, s)'
<1>1. req'[id].pc = "over"
  BY OverLasts DEF Owned
<1>2. \A x \in reactions' : x.id = id => x.user = u /\ x.story = s
  BY RowsLast
<1>3. ASSUME NEW i \in Request, req'[i].pc \in SavingPC, req'[i].copy.id = id
      PROVE  req'[i].user = u /\ req'[i].story = s
  <2>1. SameCall(i)
    BY <1>3, CopiesFrom
  <2>2. CASE req[i].pc \in SavingPC /\ req'[i].copy = req[i].copy
    BY <1>3, <2>1, <2>2 DEF Owned, SameCall
  <2>3. ASSUME req[i].pc = "findReaction", NEW x \in ReactionsOf(req[i].user, req[i].story),
               req'[i].copy = [x EXCEPT !.emoji = req[i].emoji]
        PROVE  req'[i].user = u /\ req'[i].story = s
    <3>1. x \in reactions /\ x.user = req[i].user /\ x.story = req[i].story
      BY DEF ReactionsOf
    <3>2. x.id = id
      BY <1>3, <2>3, <3>1, FoundCopy, ReactsEmoji
    <3> QED BY <2>1, <3>1, <3>2 DEF Owned, SameCall
  <2> QED BY <1>3, <2>2, <2>3, CopiesFrom
<1> QED BY <1>1, <1>2, <1>3 DEF Owned

-----------------------------------------------------------------------------
(* The tables *)

LEMMA IdsStep ==
  ASSUME Inv, [Next]_vars
  PROVE  IdsAgree'
<1>1. ASSUME NEW x \in reactions
      PROVE  x \in Reaction /\ Owned(x.id, x.user, x.story) /\ Owned(x.id, x.user, x.story)'
  BY OwnedLasts DEF Inv, TypeOK, Coherent, IdsAgree, Reaction
<1>2. \A x, y \in reactions : x.id = y.id => x = y
  BY DEF Inv, Coherent, IdsAgree
<1>3. CASE reactions' \subseteq reactions
  BY <1>1, <1>2, <1>3 DEF IdsAgree
<1>4. ASSUME NEW r \in Request, NEW row, Inserts(r, row)
      PROVE  IdsAgree'
  <2>1. /\ reactions' = reactions \cup {row} /\ row \in Reaction
        /\ \A x \in reactions : x.id # row.id
    BY <1>4, InsertFresh DEF Inserts, Writes
  <2>2. Owned(row.id, row.user, row.story)'
    <3>1. CASE Owned(row.id, row.user, row.story)
      BY <2>1, <3>1, OwnedLasts DEF Reaction
    <3>2. CASE row.id = r
      <4>1. req'[r].pc = "over" /\ req[r].pc # "over"
        BY <1>4, OverFields DEF Inserts, Ends, Running
      <4>2. ASSUME NEW i \in Request, req'[i].pc \in SavingPC, req'[i].copy.id = r
            PROVE  FALSE
        <5>1. CASE req[i].pc \in SavingPC /\ req'[i].copy = req[i].copy
          BY <4>1, <4>2, <5>1 DEF Inv, Coherent, HandlerAgrees, CopyAgrees, Owned
        <5>2. CASE reactions' = reactions
          BY <1>4, <2>1, <5>2
        <5> QED BY <4>2, <5>1, <5>2, CopiesFrom
      <4> QED BY <2>1, <3>2, <4>1, <4>2 DEF Owned
    <3> QED BY <1>4, <3>1, <3>2, InsertFresh
  <2> QED BY <1>1, <1>2, <2>1, <2>2 DEF IdsAgree
<1>5. ASSUME NEW r \in Request, Updates(r)
      PROVE  IdsAgree'
  <2>1. PICK c : c = req[r].copy
    OBVIOUS
  <2>2. \A x : x \in reactions' <=>
               \/ x \in reactions /\ x.id # c.id
               \/ x = c /\ \E y \in reactions : y.id = c.id
    BY <1>5, <2>1 DEF Updates
  <2>3. c \in Reaction /\ Owned(c.id, c.user, c.story)
    <3>1. req[r].pc \in SavingPC
      BY <1>5 DEF Updates, SavingPC
    <3> QED BY <2>1, <3>1 DEF Inv, Coherent, HandlerAgrees, CopyAgrees
  <2>4. Owned(c.id, c.user, c.story)'
    BY <2>3, OwnedLasts DEF Reaction
  <2>5. ASSUME NEW x \in reactions'
        PROVE  Owned(x.id, x.user, x.story)'
    BY <1>1, <2>2, <2>4, <2>5
  <2>6. \A x, y \in reactions' : x.id = y.id => x = y
    BY <1>2, <2>2
  <2> QED BY <2>5, <2>6 DEF IdsAgree
<1>6. ASSUME NEW u \in User, NEW s \in Story, RemoveReaction(u, s)
      PROVE  reactions' \subseteq reactions
  BY <1>6 DEF RemoveReaction
<1>7. ASSUME NEW gone, DeleteStories(gone)
      PROVE  reactions' \subseteq reactions
  BY <1>7 DEF DeleteStories
<1>8. ASSUME NEW r \in Request, NEW u \in User, NEW s \in Story, NEW e \in Emoji, React(r, u, s, e)
      PROVE  reactions' \subseteq reactions
  BY <1>8 DEF React, tables
<1> QED BY <1>3, <1>4, <1>5, <1>6, <1>7, <1>8, ReactionsStay DEF Confirms

LEMMA ViewsStay ==
  ASSUME Inv, [Next]_vars
  PROVE  \/ views' = views
         \/ \E r \in Request : InsertView(r)
         \/ \E gone : DeleteStories(gone)
<1>0. TypeOK
  BY DEF Inv
<1>1. ASSUME NEW r \in Request, Call(r)
      PROVE  views' = views
  BY <1>0, <1>1, ViewStarts, DeleteStarts, ReactStarts, AskStarts DEF Call, Asking, tables
<1>2. ASSUME NEW r \in Request, Step(r) \/ Fail(r), ~RemoveStory(r), ~InsertView(r)
      PROVE  views' = views
  BY <1>2 DEF Step, Fail, CheckFriend, FindView, InsertViewIgnored, FindReaction,
              InsertReaction, SelectReaction, UpdateReaction, ReinsertReaction, StoreReaction,
              FindFollowing, FindFeed, CheckAuthor, FindActive, CheckStory, Show, tables
<1>3. ASSUME NEW r \in Request, RemoveStory(r)
      PROVE  \E gone : DeleteStories(gone)
  BY <1>3 DEF RemoveStory
<1>4. ASSUME CleanupExpiredStories
      PROVE  \E gone : DeleteStories(gone)
  BY <1>4 DEF CleanupExpiredStories
<1>5. ASSUME Instant, ~CleanupExpiredStories
      PROVE  views' = views
  BY <1>5 DEF Instant, Publish, InsertStory, LoseStory, RemoveReaction, SetCloseFriend, Tick, tables
<1>6. ASSUME UNCHANGED vars
      PROVE  views' = views
  BY <1>6 DEF vars, tables
<1> QED BY <1>1, <1>2, <1>3, <1>4, <1>5, <1>6 DEF Next

(* The ids of the rows under way are new. *)
LEMMA DraftsStep ==
  ASSUME Inv, [Next]_vars
  PROVE  /\ \A d \in drafts' : d.id \notin published'
         /\ \A d, e \in drafts' : d.id = e.id => d = e
<1> DEFINE Agree == /\ \A d \in drafts' : d.id \notin published'
                    /\ \A d, e \in drafts' : d.id = e.id => d = e
<1>0. TypeOK /\ TablesAgree
  BY DEF Inv, Coherent
<1>1. ASSUME UNCHANGED <<drafts, published>>
      PROVE  Agree
  BY <1>0, <1>1 DEF TablesAgree
<1>2. ASSUME NEW r \in Request, Call(r)
      PROVE  UNCHANGED <<drafts, published>>
  BY <1>0, <1>2, ViewStarts, DeleteStarts, ReactStarts, AskStarts DEF Call, Asking, history
<1>3. ASSUME NEW r \in Request, Step(r) \/ Fail(r)
      PROVE  UNCHANGED <<drafts, published>>
  BY <1>3 DEF Step, Fail, CheckFriend, FindView, InsertView, InsertViewIgnored, FindReaction,
              InsertReaction, SelectReaction, UpdateReaction, ReinsertReaction, StoreReaction,
              FindFollowing, FindFeed, CheckAuthor, FindActive, CheckStory, Show,
              RemoveStory, DeleteStories, history
<1>4. ASSUME NEW u \in User, NEW s \in Story, NEW v, Publish(u, s, v)
      PROVE  Agree
  <2>1. PICK row : row = [id |-> s, author |-> u, visibility |-> v, expiresAt |-> now + Day]
    OBVIOUS
  <2>2. drafts' = drafts \cup {row} /\ row.id = s /\ published' = published
        /\ s \notin published /\ \A d \in drafts : d.id # s
    BY <1>4, <2>1 DEF Publish, history
  <2> QED BY <1>0, <2>2 DEF TablesAgree
<1>5. ASSUME NEW d \in drafts, InsertStory(d) \/ LoseStory(d)
      PROVE  Agree
  BY <1>0, <1>5 DEF InsertStory, LoseStory, TablesAgree, history
<1>6. ASSUME Instant, ~\E d \in drafts : InsertStory(d) \/ LoseStory(d),
             ~\E u \in User, s \in Story, v \in {"public", "close_friends"} : Publish(u, s, v)
      PROVE  UNCHANGED <<drafts, published>>
  BY <1>6, AuthorAssumption
     DEF Instant, SetCloseFriend, RemoveReaction, CleanupExpiredStories, DeleteStories, Tick, history
<1>7. ASSUME UNCHANGED vars
      PROVE  UNCHANGED <<drafts, published>>
  BY <1>7 DEF vars, history
<1> QED BY <1>1, <1>2, <1>3, <1>4, <1>5, <1>6, <1>7 DEF Next

LEMMA TablesStep ==
  ASSUME Inv, [Next]_vars
  PROVE  TablesAgree'
<1>0. TypeOK /\ TablesAgree
  BY DEF Inv, Coherent
<1>1. /\ \A x, y \in stories' : x.id = y.id => x = y
      /\ \A x \in stories' : x.id \in published'
      /\ \A x \in stories', v \in User : <<x.author, v>> \in close' => <<v, x.id>> \in admitted'
  <2> DEFINE Agree == /\ \A x, y \in stories' : x.id = y.id => x = y
                      /\ \A x \in stories' : x.id \in published'
                      /\ \A x \in stories', v \in User :
                           <<x.author, v>> \in close' => <<v, x.id>> \in admitted'
  <2>1. CASE UNCHANGED <<stories, published, admitted, close>>
    BY <1>0, <2>1 DEF TablesAgree
  <2>2. ASSUME NEW d \in drafts, InsertStory(d)
        PROVE  Agree
    <3>1. /\ stories' = stories \cup {d} /\ d.id \notin published
          /\ published' = published \cup {d.id} /\ close' = close
          /\ admitted' = admitted \cup {<<v, d.id>> : v \in {v \in User : <<d.author, v>> \in close}}
      BY <1>0, <2>2 DEF InsertStory, TablesAgree
    <3> QED BY <1>0, <3>1 DEF TablesAgree
  <2>3. ASSUME NEW u \in User, NEW v \in User, NEW on \in BOOLEAN, SetCloseFriend(u, v, on)
        PROVE  Agree
    <3>1. /\ stories' = stories /\ published' = published
          /\ admitted \subseteq admitted'
      BY <2>3 DEF SetCloseFriend
    <3>2. ASSUME NEW x \in stories, NEW w \in User, <<x.author, w>> \in close'
          PROVE  <<w, x.id>> \in admitted'
      <4>1. CASE <<x.author, w>> \in close
        BY <1>0, <3>1, <4>1 DEF TablesAgree
      <4>2. CASE <<x.author, w>> \notin close
        <5>1. on /\ <<x.author, w>> = <<u, v>>
          BY <2>3, <3>2, <4>2 DEF SetCloseFriend
        <5>2. x.author = u /\ w = v
          BY <5>1
        <5> QED BY <2>3, <5>1, <5>2 DEF SetCloseFriend
      <4> QED BY <4>1, <4>2
    <3> QED BY <1>0, <3>1, <3>2 DEF TablesAgree
  <2>4. ASSUME NEW gone, DeleteStories(gone)
        PROVE  Agree
    BY <1>0, <2>4 DEF DeleteStories, TablesAgree
  <2> QED BY <2>1, <2>2, <2>3, <2>4, StoriesStay
<1>2. ASSUME NEW s, Exists(s), ~\E gone : DeleteStories(gone)
      PROVE  Exists(s)'
  BY <1>2, StoriesStay DEF InsertStory, SetCloseFriend, Exists
<1>3. ASSUME NEW gone, DeleteStories(gone)
      PROVE  /\ \A v \in views' : Exists(v[2])'
             /\ \A x \in reactions' : Exists(x.story)'
  BY <1>0, <1>3 DEF DeleteStories, TablesAgree, Exists
<1>4. ASSUME ~\E gone : DeleteStories(gone), NEW v \in views'
      PROVE  Exists(v[2])'
  <2>1. CASE v \in views
    <3>1. PICK s : s = v[2]
      OBVIOUS
    <3> QED BY <1>0, <1>2, <1>4, <2>1, <3>1 DEF TablesAgree
  <2>2. CASE v \notin views
    <3>1. PICK r \in Request : InsertView(r)
      BY <1>4, <2>2, ViewsStay
    <3>2. PICK s : s = req[r].story
      OBVIOUS
    <3>3. v = <<req[r].user, s>> /\ Exists(s)
      BY <1>4, <2>2, <3>1, <3>2 DEF InsertView
    <3>4. v[2] = s
      BY <3>3
    <3> QED BY <1>2, <1>4, <3>3, <3>4
  <2> QED BY <2>1, <2>2
<1>5. ASSUME ~\E gone : DeleteStories(gone), NEW x \in reactions'
      PROVE  Exists(x.story)'
  <2>1. CASE x \in reactions
    <3>1. PICK s : s = x.story
      OBVIOUS
    <3> QED BY <1>0, <1>2, <1>5, <2>1, <3>1 DEF TablesAgree
  <2>2. CASE x \notin reactions
    <3>1. PICK r \in Request : Updates(r) \/ Inserts(r, x)
      BY <1>5, <2>2, ReactionsStay DEF Confirms, Inserts, RemoveReaction, React, tables
    <3>2. CASE Inserts(r, x)
      BY <1>2, <1>5, <3>2 DEF Inserts
    <3>3. CASE Updates(r)
      <4>1. PICK y \in reactions : y.id = x.id /\ x = req[r].copy
        BY <1>5, <2>2, <3>3 DEF Updates
      <4>2. y.story = x.story
        BY <3>3, <4>1 DEF Updates, SavingPC, Inv, Coherent, HandlerAgrees, CopyAgrees, Owned
      <4>3. PICK s : s = x.story
        OBVIOUS
      <4>4. Exists(s)
        BY <1>0, <4>2, <4>3 DEF TablesAgree
      <4> QED BY <1>2, <1>5, <4>3, <4>4
    <3> QED BY <3>1, <3>2, <3>3
  <2> QED BY <2>1, <2>2
<1>6. /\ \A d \in drafts' : d.id \notin published'
      /\ \A d, e \in drafts' : d.id = e.id => d = e
  BY DraftsStep
<1> QED BY <1>1, <1>3, <1>4, <1>5, <1>6 DEF TablesAgree

-----------------------------------------------------------------------------
(* The handlers *)

(* A call without a rival is alone in changing its reaction. *)
LEMMA AloneStep ==
  ASSUME Inv, [Next]_vars, NEW i \in Request, req'[i].op = "react", req'[i].rival = FALSE
  PROVE  Reacting(req[i].user, req[i].story)' = {i}
<1>0. TypeOK /\ HandlerAgrees(i)
  BY DEF Inv, Coherent
<1>1. PICK u, s : u = req'[i].user /\ s = req'[i].story
  OBVIOUS
<1>2. i \in Reacting(u, s)'
  BY <1>1 DEF Reacting
<1>3. ~Ends(i)
  BY OverFields DEF Ends
<1>4. ASSUME Waits(i) \/ Goes(i)
      PROVE  Reacting(u, s) = {i}
  <2>1. req[i].op = "react" /\ ~req[i].rival /\ u = req[i].user /\ s = req[i].story
    BY <1>1, <1>4 DEF Waits, Goes, SameCall, Inv, TypeOK, Req
  <2> QED BY <1>0, <2>1 DEF HandlerAgrees
<1>5. ASSUME NEW j \in Reacting(u, s)', Waits(j) \/ Goes(j)
      PROVE  j \in Reacting(u, s)
  BY <1>5 DEF Reacting, Waits, Goes, SameCall
<1>6. ASSUME NEW j \in Reacting(u, s)', Ends(j)
      PROVE  FALSE
  BY <1>6, OverFields DEF Ends, Reacting
<1>7. ASSUME \A j \in Request : req'[j].op = "react" => ~Starts(j)
      PROVE  Reacting(u, s)' = {i}
  <2>1. Reacting(u, s) = {i}
    BY <1>3, <1>4, <1>7, Each
  <2>2. \A j \in Reacting(u, s)' : j \in Reacting(u, s)
    BY <1>5, <1>6, <1>7, Each DEF Reacting
  <2> QED BY <1>2, <2>1, <2>2
<1>8. ASSUME NEW r \in Request, NEW v \in User, NEW t \in Story, Starts(r),
             \A j \in Request : j # r => Marked(j, v, t),
             req'[r].op = "react" => req'[r].user = v /\ req'[r].story = t
      PROVE  Reacting(u, s)' = {i}
  <2>1. \A j \in Request : j # r => Waits(j)
    BY <1>0, <1>8, MarkedWaits
  <2>2. CASE i = r
    <3>1. Reacting(u, s) = {}
      BY <1>1, <1>8, <2>2, OverFields DEF Starts, Reads
    <3>2. \A j \in Reacting(u, s)' : j = i
      BY <1>5, <2>1, <2>2, <3>1 DEF Reacting
    <3> QED BY <1>2, <3>2
  <2>3. CASE i # r
    <3>1. Reacting(u, s) = {i}
      BY <1>4, <2>1, <2>3
    <3>2. i \notin Reacting(v, t)
      BY <1>0, <1>8, <2>3, MarkedWaits
    <3>3. r \notin Reacting(u, s)'
      BY <1>1, <1>8, <3>1, <3>2 DEF Reacting
    <3>4. \A j \in Reacting(u, s)' : j = i
      BY <1>5, <2>1, <3>1, <3>3 DEF Reacting
    <3> QED BY <1>2, <3>4
  <2> QED BY <2>2, <2>3
<1>9. ASSUME NEW r \in Request, Only(r) \/ Moves(r), Starts(r) => req'[r].op # "react"
      PROVE  \A j \in Request : req'[j].op = "react" => ~Starts(j)
  <2>1. ASSUME NEW j \in Request, req'[j].op = "react", Starts(j), j # r
        PROVE  FALSE
    <3>1. req'[j] = req[j] /\ req[j].pc = "idle"
      BY <1>9, <2>1 DEF Only, Moves, Starts
    <3>2. req[j].op # "react"
      BY <3>1 DEF Inv, Coherent, HandlerAgrees, PCsOf, SeenPC, SavingPC
    <3> QED BY <2>1, <3>1, <3>2
  <2> QED BY <1>9, <2>1
<1>10. ASSUME \A j \in Request : Waits(j)
       PROVE  \A j \in Request : req'[j].op = "react" => ~Starts(j)
  <2>1. ASSUME NEW j \in Request, req'[j].op = "react", Starts(j)
        PROVE  FALSE
    <3>1. req[j].pc = "idle" /\ req[j].op = "react"
      BY <1>10, <2>1 DEF Starts, Waits, SameCall
    <3> QED BY <3>1 DEF Inv, Coherent, HandlerAgrees, PCsOf, SeenPC, SavingPC
  <2> QED BY <2>1
<1>11. ASSUME req' = req
       PROVE  \A j \in Request : req'[j].op = "react" => ~Starts(j)
  BY <1>11 DEF Starts, Inv, Coherent, HandlerAgrees, PCsOf, SeenPC, SavingPC
<1>12. ASSUME NEW r \in Request, Moves(r)
       PROVE  Starts(r) => req'[r].op # "react"
  BY <1>12 DEF Moves, Starts, Goes, Ends, Running
<1>13. Reacting(u, s)' = {i}
  BY <1>7, <1>8, <1>9, <1>10, <1>11, <1>12, ReqMoves
<1> QED BY <1>1, <1>13 DEF Reacting

LEMMA CopyStep ==
  ASSUME Inv, [Next]_vars, NEW i \in Request, req'[i].pc \in SavingPC
  PROVE  CopyAgrees(i)'
<1>0. TypeOK /\ TypeOK' /\ SameCall(i)
  BY TypeOKStep, CopiesFrom DEF Inv
<1>1. PICK u, s, c, e : u = req[i].user /\ s = req[i].story /\ c = req'[i].copy /\ e = req[i].emoji
  OBVIOUS
<1>2. req'[i].user = u /\ req'[i].story = s /\ req'[i].emoji = e
  BY <1>0, <1>1 DEF SameCall
<1>3. CASE req[i].pc \in SavingPC /\ req'[i].copy = req[i].copy
  <2>1. CopyAgrees(i) /\ req[i].copy = c
    BY <1>1, <1>3 DEF Inv, Coherent, HandlerAgrees
  <2>2. c \in Reaction /\ c.user = u /\ c.story = s /\ c.emoji = e /\ Owned(c.id, u, s)
    BY <1>1, <2>1 DEF CopyAgrees
  <2>3. Owned(c.id, u, s)'
    BY <2>2, OwnedLasts DEF Reaction
  <2>4. ASSUME ~req'[i].rival, Exists(s)', req'[i].pc # "reinsertReaction"
        PROVE  \E x \in reactions' : x.id = c.id
    <3>1. Waits(i) \/ Goes(i)
      BY <1>3, Each, OverFields DEF Starts, Ends, SavingPC
    <3>2. ~req[i].rival /\ req[i].pc # "reinsertReaction"
      <4>1. req[i].op = "react"
        BY <1>3, ReactsEmoji
      <4> QED BY <1>0, <1>3, <2>4, <3>1, <4>1 DEF Waits, Goes, TypeOK, Req, Reads, SavingPC
    <3>3. Exists(s)
      BY <1>1, <1>3, <2>4, ExistedBefore, ReactsEmoji
    <3>4. PICK x \in reactions : x.id = c.id
      BY <1>1, <2>1, <3>2, <3>3 DEF CopyAgrees
    <3>5. x.user = u /\ x.story = s
      BY <2>2, <3>4 DEF Owned
    <3>6. ASSUME NEW v \in User, NEW t \in Story, RemoveReaction(v, t), x \notin reactions'
          PROVE  FALSE
      <4>1. v = u /\ t = s
        BY <3>5, <3>6 DEF RemoveReaction, ReactionsOf
      <4>2. i \in Reacting(u, s)
        BY <1>1, <1>3, ReactsEmoji DEF Reacting
      <4> QED BY <1>0, <2>4, <3>6, <4>1, <4>2, RemovalMarks, MarkedWaits
    <3>7. ASSUME NEW gone, DeleteStories(gone), x \notin reactions'
          PROVE  FALSE
      <4>1. s \in gone
        BY <3>5, <3>7 DEF DeleteStories
      <4> QED BY <2>4, <3>7, <4>1 DEF DeleteStories, Exists
    <3>8. ASSUME NEW r \in Request, Updates(r)
          PROVE  \E y \in reactions' : y.id = c.id
      BY <3>4, <3>8 DEF Updates
    <3> QED BY <3>4, <3>6, <3>7, <3>8, ReactionsStay DEF Inserts, Confirms, React, tables
  <2> QED BY <1>1, <1>2, <2>2, <2>3, <2>4 DEF CopyAgrees
<1>4. ASSUME reactions' = reactions, req[i].pc = "findReaction",
             NEW x \in ReactionsOf(u, s), c = [x EXCEPT !.emoji = e]
      PROVE  CopyAgrees(i)'
  <2>1. x \in reactions /\ x.user = u /\ x.story = s /\ e \in Emoji
    BY <1>1, <1>4, ReactsEmoji DEF ReactionsOf
  <2>2. c \in Reaction /\ c.id = x.id /\ c.user = u /\ c.story = s /\ c.emoji = e
    BY <1>4, <2>1, FoundCopy
  <2>3. Owned(c.id, u, s)
    BY <2>1, <2>2 DEF Inv, Coherent, IdsAgree
  <2>4. Owned(c.id, u, s)'
    BY <2>2, <2>3, OwnedLasts DEF Reaction
  <2>5. \E y \in reactions' : y.id = c.id
    BY <1>4, <2>1, <2>2
  <2> QED BY <1>1, <1>2, <2>2, <2>4, <2>5 DEF CopyAgrees
<1> QED BY <1>1, <1>3, <1>4, CopiesFrom

LEMMA StartedAgrees ==
  ASSUME Inv, [Next]_vars, NEW i \in Request, Starts(i)
  PROVE  HandlerAgrees(i)'
<1>0. TypeOK /\ TablesAgree /\ TypeOK'
  BY TypeOKStep DEF Inv, Coherent
<1>1. CASE req'[i] = Over
  BY <1>1, OverFields DEF HandlerAgrees, PCsOf, SeenPC, SavingPC
<1>2. ASSUME NEW u \in User, NEW s \in Story,
             req'[i].user = u, req'[i].story = s, req'[i].author = AuthorOf(s), Exists(s),
             \/ req'[i].op = "delete" /\ req'[i].pc = "removeStory"
             \/ /\ req'[i].op \in {"view", "react"} /\ req'[i].pc = AfterStory(u, s, "findView")
                /\ req'[i].pc \in {"checkFriend", "findView"}
                /\ req'[i].op = "react" => req'[i].emoji \in Emoji
      PROVE  HandlerAgrees(i)'
  <2>1. s \in published /\ s \in published'
    BY <1>0, <1>2, StoriesLast DEF Exists, TablesAgree, StoriesGrow
  <2>2. ASSUME NEW x \in stories', x.id = s
        PROVE  x.author = req'[i].author
    <3>1. x \in stories
      BY <2>1, <2>2, StoriesLast DEF StoriesGrow
    <3> QED BY <1>2, <2>2, <3>1, AuthorFound
  <2>3. ASSUME req'[i].pc = "findView"
        PROVE  Entitled(u, s)'
    <3>1. Entitled(u, s)
      BY <1>2, <2>3 DEF AfterStory, Entitled
    <3> QED BY <2>1, <3>1, EntitledLasts
  <2>4. req'[i].op = "react" /\ ~req'[i].rival => Reacting(req[i].user, req[i].story)' = {i}
    BY <1>0, AloneStep DEF TypeOK, Req
  <2>5. CASE req'[i].op = "delete"
    BY <1>2, <2>5 DEF HandlerAgrees, PCsOf, SeenPC, SavingPC
  <2>6. CASE req'[i].op \in {"view", "react"}
    BY <1>2, <2>1, <2>2, <2>3, <2>4, <2>6 DEF HandlerAgrees, PCsOf, SeenPC, SavingPC
  <2> QED BY <1>2, <2>5, <2>6
<1>3. CASE req'[i].op \in Reads /\ req'[i].pc \in PCsOf(req'[i].op)
  BY <1>3 DEF HandlerAgrees, PCsOf, Reads, SeenPC, SavingPC
<1> QED BY <1>1, <1>2, <1>3 DEF Starts

(* A call that is let in is entitled. *)
LEMMA CheckEntitles ==
  ASSUME Inv, NEW r \in Request, req[r].pc = "checkFriend", req[r].op # "open", req[r].user \in User,
         OnCloseFriendsList(req[r].author, req[r].user)
  PROVE  Entitled(req[r].user, req[r].story)
<1>1. ASSUME NEW x \in stories, x.id = req[r].story
      PROVE  req[r].user = x.author \/ <<req[r].user, req[r].story>> \in admitted
  <2>1. x.author = req[r].author
    BY <1>1 DEF Inv, Coherent, HandlerAgrees
  <2> QED BY <1>1, <2>1 DEF OnCloseFriendsList, Inv, Coherent, TablesAgree
<1> QED BY <1>1 DEF Entitled

LEMMA GoingAgrees ==
  ASSUME Inv, [Next]_vars, NEW i \in Request, Waits(i) \/ Goes(i)
  PROVE  HandlerAgrees(i)'
<1>0. TypeOK /\ TypeOK' /\ HandlerAgrees(i) /\ SameCall(i) /\ published \subseteq published'
  BY TypeOKStep, StoriesLast DEF Inv, Coherent, StoriesGrow, Waits, Goes
<1>1. PICK u, s : u = req[i].user /\ s = req[i].story
  OBVIOUS
<1>2. req'[i].user = u /\ req'[i].story = s /\ req'[i].op = req[i].op
      /\ req'[i].author = req[i].author /\ req'[i].emoji = req[i].emoji
  BY <1>0, <1>1 DEF SameCall
<1>3. req'[i].pc \in PCsOf(req[i].op)
  <2>1. req[i].op \in {"none", "view", "react", "delete", "feed", "active", "open"}
    BY <1>0 DEF TypeOK, Req
  <2> QED BY <1>0, <2>1 DEF HandlerAgrees, PCsOf, Waits, Goes, SeenPC, SavingPC
<1>4. req[i].op \in {"view", "react"} => u \in User /\ s \in published /\ s \in published'
  BY <1>0, <1>1 DEF HandlerAgrees
<1>5. req'[i].pc \in {"checkFriend"} \cup SeenPC => req[i].op \in {"view", "react", "open"}
                                                   /\ (req'[i].pc \in SeenPC => req[i].op # "open")
  BY <1>0, <1>3 DEF PCsOf, SeenPC, SavingPC, TypeOK, Req
<1>6. ASSUME req'[i].pc = "checkFriend", req'[i].op # "open", NEW x \in stories', x.id = s
      PROVE  x.author = req'[i].author
  <2>1. x \in stories
    BY <1>2, <1>4, <1>5, <1>6, StoriesLast DEF StoriesGrow
  <2>2. req[i].pc = "checkFriend"
    BY <1>0, <1>2, <1>6 DEF Waits, Goes, PCsOf, Reads
  <2> QED BY <1>0, <1>1, <1>2, <1>6, <2>1, <2>2 DEF HandlerAgrees
<1>7. ASSUME req'[i].pc \in SeenPC
      PROVE  Entitled(u, s)'
  <2>1. CASE req[i].pc \in SeenPC
    BY <1>0, <1>1, <1>4, <1>5, <1>7, <2>1, EntitledLasts DEF HandlerAgrees
  <2>2. CASE req[i].pc \notin SeenPC
    <3>1. req[i].pc = "checkFriend" /\ OnCloseFriendsList(req[i].author, req[i].user)
          /\ req[i].op # "open"
      BY <1>7, <2>2 DEF Waits, Goes, SeenPC, SavingPC, Reads, PCsOf
    <3>2. Entitled(u, s)
      BY <1>1, <1>4, <1>5, <1>7, <3>1, CheckEntitles
    <3> QED BY <1>4, <1>5, <1>7, <3>2, EntitledLasts
  <2> QED BY <2>1, <2>2
<1>8. req'[i].op = "react" /\ ~req'[i].rival => Reacting(req[i].user, req[i].story)' = {i}
  BY <1>0, AloneStep DEF TypeOK, Req
<1>9. PCsOf(req[i].op)' = PCsOf(req[i].op)
  BY <1>2
<1>10. /\ req'[i].op = "react" => req'[i].emoji \in Emoji
       /\ req'[i].op = "delete" => s \in Story
  BY <1>0, <1>1, <1>2 DEF HandlerAgrees
<1> QED BY <1>2, <1>3, <1>4, <1>6, <1>7, <1>8, <1>9, <1>10, CopyStep DEF HandlerAgrees

LEMMA HandlersStep ==
  ASSUME Inv, [Next]_vars
  PROVE  \A i \in Request : HandlerAgrees(i)'
<1>1. ASSUME NEW i \in Request, Ends(i)
      PROVE  HandlerAgrees(i)'
  BY <1>1, OverFields DEF Ends, HandlerAgrees, PCsOf, SeenPC, SavingPC
<1> QED BY <1>1, Each, StartedAgrees, GoingAgrees

-----------------------------------------------------------------------------
(* What the queries have in memory *)

(* A story that leaves the table has been deleted by its author, or is over. *)
LEMMA TimePasses ==
  ASSUME Inv, [Next]_vars
  PROVE  removed \subseteq removed' /\ now <= now' /\ \A x \in stories : Lasting(x)'
<1>0. TypeOK /\ now \in Int /\ now <= now
  BY DEF Inv, TypeOK
<1>1. ASSUME stories \subseteq stories', UNCHANGED <<removed, now>>
      PROVE  removed \subseteq removed' /\ now <= now' /\ \A x \in stories : Lasting(x)'
  BY <1>0, <1>1 DEF Lasting
<1>2. ASSUME NEW r \in Request, Call(r)
      PROVE  UNCHANGED <<stories, removed, now>>
  BY <1>0, <1>2, ViewStarts, DeleteStarts, ReactStarts, AskStarts DEF Call, Asking, tables, history
<1>3. ASSUME NEW r \in Request, Step(r) \/ Fail(r), ~RemoveStory(r)
      PROVE  UNCHANGED <<stories, removed, now>>
  BY <1>3 DEF Step, Fail, CheckFriend, FindView, InsertView, InsertViewIgnored, FindReaction,
              InsertReaction, SelectReaction, UpdateReaction, ReinsertReaction, StoreReaction,
              FindFollowing, FindFeed, CheckAuthor, FindActive, CheckStory, Show, tables, history
<1>4. ASSUME NEW r \in Request, RemoveStory(r)
      PROVE  removed \subseteq removed' /\ now <= now' /\ \A x \in stories : Lasting(x)'
  BY <1>0, <1>4 DEF RemoveStory, DeleteStories, Lasting
<1>5. ASSUME CleanupExpiredStories
      PROVE  removed \subseteq removed' /\ now <= now' /\ \A x \in stories : Lasting(x)'
  <2>1. removed' = removed /\ now' = now
    BY <1>5 DEF CleanupExpiredStories, DeleteStories
  <2>2. ASSUME NEW x \in stories, x \notin stories'
        PROVE  x.expiresAt <= now
    <3>1. PICK y \in stories : Reclaimable(y) /\ y.id = x.id
      BY <1>5, <2>2 DEF CleanupExpiredStories, DeleteStories
    <3>2. y = x /\ x.expiresAt \in Int
      BY <1>0, <3>1, DayAssumption DEF Inv, Coherent, TablesAgree, TypeOK, StoryRow
    <3> QED BY <1>0, <3>1, <3>2, DayAssumption DEF Reclaimable
  <2> QED BY <1>0, <2>1, <2>2 DEF Lasting
<1>6. ASSUME Tick
      PROVE  removed \subseteq removed' /\ now <= now' /\ \A x \in stories : Lasting(x)'
  BY <1>0, <1>6 DEF Tick, Lasting, tables, history
<1>7. ASSUME Instant, ~CleanupExpiredStories, ~Tick
      PROVE  stories \subseteq stories' /\ UNCHANGED <<removed, now>>
  BY <1>7 DEF Instant, Publish, InsertStory, LoseStory, SetCloseFriend, RemoveReaction, tables, history
<1>8. ASSUME UNCHANGED vars
      PROVE  UNCHANGED <<stories, removed, now>>
  BY <1>8 DEF vars, tables, history
<1> QED BY <1>1, <1>2, <1>3, <1>4, <1>5, <1>6, <1>7, <1>8 DEF Next

(* A place on a list that has just been given marks the reader. *)
LEMMA PlaceKept ==
  ASSUME Inv, [Next]_vars, NEW i \in Request, req[i].op \in Reads, req'[i].rival = FALSE,
         NEW a, <<a, req[i].user>> \in close'
  PROVE  <<a, req[i].user>> \in close
<1>0. TypeOK
  BY DEF Inv
<1>1. ASSUME NEW u \in User, NEW v \in User, NEW on \in BOOLEAN, SetCloseFriend(u, v, on)
      PROVE  <<a, req[i].user>> \in close
  <2>1. req[i].user # v
    BY <1>0, <1>1, ListMarks
  <2>2. <<a, req[i].user>> # <<u, v>>
    BY <2>1
  <2>3. close' \subseteq close \cup {<<u, v>>}
    BY <1>1 DEF SetCloseFriend
  <2> QED BY <2>2, <2>3
<1> QED BY <1>1, StoriesStay DEF InsertStory, DeleteStories

LEMMA ReaderWaits ==
  ASSUME Inv, [Next]_vars, NEW i \in Request, Waits(i), req[i].op \in Reads
  PROVE  ReaderAgrees(i)'
<1>0. TypeOK /\ ReaderAgrees(i) /\ req[i] \in Req
  BY DEF Inv, Coherent, TypeOK
<1>1. PICK q : q = req[i]
  OBVIOUS
<1>2. /\ req'[i].op = q.op /\ req'[i].pc = q.pc /\ req'[i].user = q.user
      /\ req'[i].author = q.author /\ req'[i].asof = q.asof
      /\ req'[i].found = q.found /\ req'[i].kept = q.kept /\ req'[i].begun = q.begun
  BY <1>1 DEF Waits, SameCall, SameHands
<1>3. q.found \cup q.kept \cup q.begun \subseteq StoryRow /\ q.asof \in Int /\ now \in Int /\ now' \in Int
  <2>1. TypeOK'
    BY TypeOKStep
  <2> QED BY <1>0, <1>1, <2>1, DayAssumption DEF Req, TypeOK
<1>4. \A x \in q.found \cup q.kept \cup q.begun : Faithful(x)'
  BY <1>0, <1>1, StoriesLast DEF ReaderAgrees, Faithful, StoriesGrow
<1>5. ASSUME NEW x \in q.kept \cap stories'
      PROVE  MayHold(q.user, x)'
  <2>1. x \in stories
    BY <1>0, <1>1, <1>5, StoriesLast DEF ReaderAgrees, Faithful, StoriesGrow
  <2>2. MayHold(q.user, x) /\ q.user \in User
    BY <1>0, <1>1, <1>5, <2>1 DEF ReaderAgrees
  <2> QED BY <1>5, <2>2, StoriesLast DEF MayHold, StoriesGrow
<1>6. ASSUME NEW x \in q.begun
      PROVE  Lasting(x)'
  <2>1. Lasting(x) /\ x.expiresAt \in Int
    BY <1>0, <1>1, <1>3, <1>6, DayAssumption DEF ReaderAgrees, StoryRow
  <2> QED BY <1>3, <2>1, TimePasses DEF Lasting
<1>7. ASSUME NEW x \in q.begun, Due(i, x)'
      PROVE  Due(i, x)
  <2>1. now < x.expiresAt /\ x.id \notin removed
    <3>1. now' < x.expiresAt /\ x.id \notin removed' /\ x.expiresAt \in Int
      BY <1>3, <1>7, DayAssumption DEF Due, StoryRow
    <3> QED BY <1>3, <3>1, TimePasses
  <2>2. ASSUME <<x.author, q.user>> \in close', req'[i].rival = FALSE
        PROVE  <<x.author, q.user>> \in close /\ req[i].rival = FALSE
    BY <1>0, <1>1, <2>2, PlaceKept DEF Waits
  <2>3. req'[i].rival \in BOOLEAN
    BY TypeOKStep DEF TypeOK, Req
  <2>4. \/ x.visibility = "public" \/ x.author = q.user
        \/ <<x.author, q.user>> \in close' /\ req'[i].rival = FALSE
    BY <1>2, <1>7, <2>3 DEF Due
  <2> QED BY <1>1, <2>1, <2>2, <2>4 DEF Due
<1>8. q.asof <= now'
  BY <1>0, <1>1, <1>3, TimePasses DEF ReaderAgrees
<1> QED BY <1>0, <1>1, <1>2, <1>4, <1>5, <1>6, <1>7, <1>8 DEF ReaderAgrees, Authors

(* A row of the table, in the memory of a query. *)
LEMMA RowsAgree ==
  ASSUME Inv, NEW x \in stories
  PROVE  /\ Faithful(x) /\ Lasting(x) /\ x.id \in Story /\ x.author \in User
         /\ x.expiresAt \in Int /\ x.visibility \in {"public", "close_friends"}
         /\ \A u \in User : <<x.author, u>> \in close => MayHold(u, x)
BY DayAssumption DEF Inv, Coherent, TablesAgree, TypeOK, StoryRow, Faithful, Lasting, MayHold

(* ReaderAgrees only reads its tables, which a statement of a query leaves alone. *)
LEMMA ReaderReads ==
  ASSUME Inv, NEW i \in Request, UNCHANGED <<tables, drafts, now, history>>,
         NEW q, q = req'[i], q.user \in User,
         \A x \in q.found \cup q.kept \cup q.begun : Faithful(x),
         \A x \in q.kept \cap stories : MayHold(q.user, x),
         \A x \in q.found : x.visibility = "close_friends" /\ x.author # q.user,
         q.pc = "checkFriend" => q.kept = {} /\ \A x \in q.found : x.author = q.author,
         \A x \in q.begun : Lasting(x),
         q.op = "feed" => \A x \in q.begun : x.author \in Authors(q.user),
         q.op = "active" => \A x \in q.begun : x.author = q.author,
         q.asof <= now,
         q.pc \notin {"findFollowing", "findFeed", "findActive"} =>
           \A x \in q.begun :
             /\ now < x.expiresAt /\ x.id \notin removed
             /\ \/ x.visibility = "public" \/ x.author = q.user
                \/ <<x.author, q.user>> \in close /\ ~q.rival
             => x \in q.found \cup q.kept,
         q.pc = "show" => q.found = {}
  PROVE  ReaderAgrees(i)'
<1>1. /\ stories' = stories /\ published' = published /\ removed' = removed /\ now' = now
      /\ admitted' = admitted /\ close' = close
  BY DEF tables, history
<1>2. \A x : (Faithful(x)' <=> Faithful(x)) /\ (Lasting(x)' <=> Lasting(x))
  BY <1>1 DEF Faithful, Lasting
<1>3. \A x \in q.kept \cap stories' : MayHold(q.user, x)'
  BY <1>1 DEF MayHold
<1>4. q.pc \notin {"findFollowing", "findFeed", "findActive"} =>
        \A x \in q.begun : Due(i, x)' => x \in q.found \cup q.kept
  BY <1>1 DEF Due
<1> QED BY <1>1, <1>2, <1>3, <1>4 DEF ReaderAgrees, Authors

LEMMA AskAgrees ==
  ASSUME Inv, [Next]_vars, NEW i \in Request, Asking(i)
  PROVE  ReaderAgrees(i)'
<1>0. TypeOK /\ UNCHANGED <<tables, drafts, now, history>> /\ now \in Nat /\ 0 <= now /\ now <= now
  BY AskStarts DEF Inv, TypeOK
<1>1. ASSUME NEW u \in User, GetFeed(i, u)
      PROVE  ReaderAgrees(i)'
  <2>1. PICK q : /\ q = [IdleReq EXCEPT !.op = "feed", !.pc = "findFollowing", !.user = u,
                           !.begun = {x \in stories : x.author \in Authors(u)}]
                 /\ q = req'[i]
    BY <1>0, <1>1 DEF GetFeed, TypeOK
  <2>2. /\ q.op = "feed" /\ q.pc = "findFollowing" /\ q.user = u /\ q.asof = 0
        /\ q.found = {} /\ q.kept = {} /\ q.begun = {x \in stories : x.author \in Authors(u)}
    BY <2>1 DEF IdleReq
  <2> QED BY <1>0, <2>1, <2>2, RowsAgree, ReaderReads
<1>2. ASSUME NEW u \in User, NEW author \in User, GetActiveByUser(i, u, author)
      PROVE  ReaderAgrees(i)'
  <2>1. PICK q : /\ q = [IdleReq EXCEPT !.op = "active", !.pc = "findActive", !.user = u,
                           !.author = author, !.asof = now,
                           !.begun = {x \in stories : x.author = author}]
                 /\ q = req'[i]
    BY <1>0, <1>2 DEF GetActiveByUser, TypeOK
  <2>2. /\ q.op = "active" /\ q.pc = "findActive" /\ q.user = u /\ q.asof = now
        /\ q.author = author /\ q.found = {} /\ q.kept = {}
        /\ q.begun = {x \in stories : x.author = author}
    BY <2>1 DEF IdleReq
  <2> QED BY <1>0, <2>1, <2>2, RowsAgree, ReaderReads
<1>3. ASSUME NEW u \in User, NEW s \in Story, GetById(i, u, s)
      PROVE  ReaderAgrees(i)'
  <2>1. PICK rows, pc : rows = {x \in stories : x.id = s} /\ pc = AfterStory(u, s, "show")
    OBVIOUS
  <2>2. PICK q : /\ q = [IdleReq EXCEPT !.op = "open", !.pc = IF pc = "failed" THEN "show" ELSE pc,
                           !.user = u, !.author = AuthorOf(s), !.begun = rows,
                           !.found = IF pc = "checkFriend" THEN rows ELSE {},
                           !.kept = IF pc = "show" THEN rows ELSE {}]
                 /\ q = req'[i]
    BY <1>0, <1>3, <2>1 DEF GetById, TypeOK
  <2>3. /\ q.op = "open" /\ q.pc = (IF pc = "failed" THEN "show" ELSE pc) /\ q.user = u
        /\ q.author = AuthorOf(s) /\ q.asof = 0 /\ q.begun = rows
        /\ q.found = (IF pc = "checkFriend" THEN rows ELSE {})
        /\ q.kept = (IF pc = "show" THEN rows ELSE {})
    BY <2>2 DEF IdleReq
  <2>4. \A x \in rows : Faithful(x) /\ Lasting(x) /\ x.author = AuthorOf(s)
                        /\ x.expiresAt \in Int /\ x.visibility \in {"public", "close_friends"}
    BY <2>1, RowsAgree, AuthorFound
  <2>5. CASE pc = "failed"
    <3>1. \A x \in rows : ~(now < x.expiresAt)
      BY <1>0, <2>1, <2>4, <2>5 DEF AfterStory
    <3> QED BY <1>0, <2>2, <2>3, <2>4, <2>5, <3>1, ReaderReads
  <2>6. CASE pc = "checkFriend"
    <3>1. \A x \in rows : x.visibility = "close_friends" /\ x.author # u
      BY <2>1, <2>6 DEF AfterStory, Inv, Coherent, TablesAgree
    <3> QED BY <1>0, <2>2, <2>3, <2>4, <2>6, <3>1, ReaderReads, ZenonT(60)
  <2>7. CASE pc = "show"
    <3>1. \A x \in rows : MayHold(u, x)
      BY <2>1, <2>4, <2>7 DEF AfterStory, MayHold
    <3> QED BY <1>0, <2>2, <2>3, <2>4, <2>7, <3>1, ReaderReads
  <2> QED BY <2>1, <2>5, <2>6, <2>7 DEF AfterStory
<1> QED BY <1>1, <1>2, <1>3 DEF Asking

(* What a query has read and sorted. *)
LEMMA SortAgrees ==
  ASSUME Inv, [Next]_vars, NEW i \in Request, req[i].op \in Reads,
         UNCHANGED <<tables, drafts, now, history>>,
         NEW all, NEW kept, NEW next \in {"checkAuthor", "checkStory"},
         all \subseteq stories,
         kept = {x \in all : x.visibility = "public" \/ x.author = req[i].user},
         Sort(i, all, kept, next), req[i].pc # "show",
         \A x \in req[i].begun : x \in stories /\ now < x.expiresAt => x \in all
  PROVE  ReaderAgrees(i)'
<1>0. TypeOK /\ ReaderAgrees(i) /\ req[i] \in Req /\ now \in Nat /\ 0 <= now
  BY DEF Inv, Coherent, TypeOK
<1>1. PICK p : p = req[i]
  OBVIOUS
<1>2. PICK pc : pc = IF all \subseteq kept THEN "show" ELSE next
  OBVIOUS
<1>3. PICK q : /\ q = [p EXCEPT !.pc = pc, !.asof = 0, !.found = all \ kept, !.kept = p.kept \cup kept]
               /\ q = req'[i]
  BY <1>0, <1>1, <1>2 DEF Sort, TypeOK
<1>4. /\ q.op = p.op /\ q.user = p.user /\ q.author = p.author /\ q.begun = p.begun
      /\ q.rival = p.rival /\ q.pc = pc /\ q.asof = 0 /\ q.found = all \ kept
      /\ q.kept = p.kept \cup kept
  BY <1>0, <1>1, <1>3 DEF Req
<1>5. /\ \A x \in p.kept \cup p.begun : Faithful(x)
      /\ \A x \in p.kept \cap stories : MayHold(p.user, x)
      /\ \A x \in p.begun : Lasting(x)
      /\ p.op = "feed" => \A x \in p.begun : x.author \in Authors(p.user)
      /\ p.op = "active" => \A x \in p.begun : x.author = p.author
      /\ p.user \in User
  BY <1>0, <1>1 DEF ReaderAgrees
<1>6. /\ \A x \in all : Faithful(x) /\ (x \notin kept => x.visibility = "close_friends" /\ x.author # p.user)
      /\ \A x \in kept : MayHold(p.user, x)
  BY <1>1, RowsAgree DEF MayHold
<1>7. \A x \in p.begun : now < x.expiresAt /\ x.id \notin removed => x \in all
  <2>1. \A x \in p.begun : x.expiresAt \in Int
    BY <1>0, <1>1, DayAssumption DEF Req, StoryRow
  <2> QED BY <1>0, <1>1, <1>5, <2>1 DEF Lasting
<1>8. q.pc = "show" => q.found = {}
  BY <1>2, <1>4
<1>9. q.pc # "checkFriend" /\ q.asof <= now
  BY <1>0, <1>2, <1>4
<1>10. /\ \A x \in q.found \cup q.kept \cup q.begun : Faithful(x)
       /\ \A x \in q.kept \cap stories : MayHold(q.user, x)
       /\ \A x \in q.found : x.visibility = "close_friends" /\ x.author # q.user
       /\ \A x \in q.begun : Lasting(x)
       /\ q.op = "feed" => \A x \in q.begun : x.author \in Authors(q.user)
       /\ q.op = "active" => \A x \in q.begun : x.author = q.author
       /\ q.user \in User
  <2>1. kept \subseteq all
    OBVIOUS
  <2> QED BY <1>4, <1>5, <1>6, <2>1
<1>11. \A x \in q.begun : now < x.expiresAt /\ x.id \notin removed => x \in q.found \cup q.kept
  BY <1>4, <1>7
<1> QED BY <1>3, <1>8, <1>9, <1>10, <1>11, ReaderReads

(* A check of an author's stories, of one story, or of the story of getById: those
   checked leave found, and are kept if the reader is on the list. *)
LEMMA CheckAgrees ==
  ASSUME Inv, [Next]_vars, NEW i \in Request, req[i].op \in Reads,
         UNCHANGED <<tables, drafts, now, history>>,
         req[i].pc \in {"checkAuthor", "checkStory", "checkFriend"},
         NEW checked, checked \subseteq req[i].found, NEW a,
         \A x \in checked : x.author = a,
         NEW pc, pc \in {"show", "checkAuthor", "checkStory"},
         pc = "show" => req[i].found \subseteq checked,
         NEW kept,
         OnCloseFriendsList(a, req[i].user) => kept = req[i].kept \cup checked,
         ~OnCloseFriendsList(a, req[i].user) => kept = req[i].kept,
         req' = [req EXCEPT ![i] = [req[i] EXCEPT !.pc = pc, !.found = req[i].found \ checked,
                                                  !.kept = kept]]
  PROVE  ReaderAgrees(i)'
<1>0. TypeOK /\ ReaderAgrees(i) /\ req[i] \in Req
  BY DEF Inv, Coherent, TypeOK
<1>1. PICK p : p = req[i]
  OBVIOUS
<1>2. PICK q : /\ q = [p EXCEPT !.pc = pc, !.found = p.found \ checked, !.kept = kept]
               /\ q = req'[i]
  BY <1>0, <1>1 DEF TypeOK
<1>3. /\ q.op = p.op /\ q.user = p.user /\ q.author = p.author /\ q.begun = p.begun
      /\ q.rival = p.rival /\ q.asof = p.asof /\ q.pc = pc /\ q.found = p.found \ checked
      /\ q.kept = kept
  BY <1>0, <1>1, <1>2 DEF Req
<1>4. /\ \A x \in p.found \cup p.kept \cup p.begun : Faithful(x)
      /\ \A x \in p.kept \cap stories : MayHold(p.user, x)
      /\ \A x \in p.found : x.visibility = "close_friends" /\ x.author # p.user
      /\ \A x \in p.begun : Lasting(x)
      /\ p.op = "feed" => \A x \in p.begun : x.author \in Authors(p.user)
      /\ p.op = "active" => \A x \in p.begun : x.author = p.author
      /\ p.asof <= now /\ p.user \in User
      /\ \A x \in p.begun : Due(i, x) => x \in p.found \cup p.kept
  BY <1>0, <1>1 DEF ReaderAgrees
<1>5. kept \subseteq p.kept \cup checked
  BY <1>1
<1>6. ASSUME NEW x \in kept \cap stories
      PROVE  MayHold(p.user, x)
  <2>1. CASE x \in p.kept
    BY <1>4, <1>6, <2>1
  <2>2. CASE x \notin p.kept
    <3>1. x \in checked /\ OnCloseFriendsList(x.author, p.user)
      BY <1>1, <1>5, <1>6, <2>2
    <3> QED BY <1>4, <1>6, <3>1, RowsAgree DEF OnCloseFriendsList, MayHold
  <2> QED BY <2>1, <2>2
<1>7. ASSUME NEW x \in p.begun, now < x.expiresAt, x.id \notin removed,
             \/ x.visibility = "public" \/ x.author = p.user
             \/ <<x.author, p.user>> \in close /\ ~p.rival
      PROVE  x \in q.found \cup q.kept
  <2>1. x \in p.found \cup p.kept
    BY <1>1, <1>4, <1>7 DEF Due
  <2>2. CASE x \in checked
    <3>1. OnCloseFriendsList(a, p.user)
      BY <1>1, <1>4, <1>7, <2>2 DEF OnCloseFriendsList
    <3> QED BY <1>1, <1>3, <2>2, <3>1
  <2>3. CASE x \notin checked
    BY <1>1, <1>3, <2>1, <2>3
  <2> QED BY <2>2, <2>3
<1>8. q.pc = "show" => q.found = {}
  BY <1>1, <1>3
<1>9. /\ \A x \in q.found \cup q.kept \cup q.begun : Faithful(x)
      /\ \A x \in q.kept \cap stories : MayHold(q.user, x)
      /\ \A x \in q.found : x.visibility = "close_friends" /\ x.author # q.user
      /\ \A x \in q.begun : Lasting(x)
      /\ q.op = "feed" => \A x \in q.begun : x.author \in Authors(q.user)
      /\ q.op = "active" => \A x \in q.begun : x.author = q.author
      /\ q.asof <= now /\ q.user \in User /\ q.pc # "checkFriend"
  <2>1. checked \subseteq p.found
    BY <1>1
  <2> QED BY <1>3, <1>4, <1>5, <1>6, <2>1
<1>10. \A x \in q.begun :
         /\ now < x.expiresAt /\ x.id \notin removed
         /\ \/ x.visibility = "public" \/ x.author = q.user
            \/ <<x.author, q.user>> \in close /\ ~q.rival
         => x \in q.found \cup q.kept
  BY <1>3, <1>7
<1> QED BY <1>2, <1>8, <1>9, <1>10, ReaderReads

LEMMA ReadAgrees ==
  ASSUME Inv, [Next]_vars, NEW i \in Request, Reading(i)
  PROVE  ReaderAgrees(i)'
<1>0. /\ TypeOK /\ ReaderAgrees(i) /\ req[i] \in Req /\ req[i].op \in Reads
      /\ req[i].pc \in PCsOf(req[i].op) /\ UNCHANGED <<tables, drafts, now, history>>
  BY ReadMoves DEF Inv, Coherent, TypeOK, HandlerAgrees
<1>1. \A x \in req[i].begun : x.expiresAt \in Int
  BY <1>0, DayAssumption DEF Req, StoryRow
<1>2. CASE FindFollowing(i)
  <2>1. PICK p, q : p = req[i] /\ q = [p EXCEPT !.pc = "findFeed", !.asof = now] /\ q = req'[i]
    BY <1>0, <1>2 DEF FindFollowing, TypeOK
  <2>2. /\ q.op = p.op /\ q.user = p.user /\ q.author = p.author /\ q.begun = p.begun
        /\ q.asof = now /\ q.pc = "findFeed" /\ q.found = p.found /\ q.kept = p.kept
    BY <1>0, <2>1 DEF Req
  <2>3. now <= now
    BY <1>0 DEF TypeOK
  <2>4. /\ \A x \in p.found \cup p.kept \cup p.begun : Faithful(x)
        /\ \A x \in p.kept \cap stories : MayHold(p.user, x)
        /\ \A x \in p.found : x.visibility = "close_friends" /\ x.author # p.user
        /\ \A x \in p.begun : Lasting(x)
        /\ p.op = "feed" => \A x \in p.begun : x.author \in Authors(p.user)
        /\ p.op = "active" => \A x \in p.begun : x.author = p.author
        /\ p.user \in User
    BY <1>0, <2>1 DEF ReaderAgrees
  <2>5. /\ \A x \in q.found \cup q.kept \cup q.begun : Faithful(x)
        /\ \A x \in q.kept \cap stories : MayHold(q.user, x)
        /\ \A x \in q.found : x.visibility = "close_friends" /\ x.author # q.user
        /\ \A x \in q.begun : Lasting(x)
        /\ q.op = "feed" => \A x \in q.begun : x.author \in Authors(q.user)
        /\ q.op = "active" => \A x \in q.begun : x.author = q.author
        /\ q.asof <= now /\ q.user \in User
    BY <2>2, <2>3, <2>4
  <2> QED BY <1>0, <2>1, <2>2, <2>5, ReaderReads
<1>3. CASE FindFeed(i)
  <2>1. req[i].pc = "findFeed" /\ req[i].op = "feed"
    BY <1>0, <1>3 DEF FindFeed, At, PCsOf, Reads
  <2>2. PICK all, kept :
          /\ all = {x \in stories : x.author \in Authors(req[i].user) /\ x.expiresAt > req[i].asof}
          /\ kept = {x \in all : x.visibility = "public" \/ x.author = req[i].user}
          /\ Sort(i, all, kept, "checkAuthor")
    BY <1>3 DEF FindFeed
  <2>3. \A x \in req[i].begun : x \in stories /\ now < x.expiresAt => x \in all
    <3>1. req[i].asof <= now /\ req[i].asof \in Int /\ now \in Int
      BY <1>0, DayAssumption DEF ReaderAgrees, Req, TypeOK
    <3> QED BY <1>0, <1>1, <2>1, <2>2, <3>1 DEF ReaderAgrees
  <2> QED BY <1>0, <2>1, <2>2, <2>3, SortAgrees
<1>4. CASE FindActive(i)
  <2>1. req[i].pc = "findActive" /\ req[i].op = "active"
    BY <1>0, <1>4 DEF FindActive, At, PCsOf, Reads
  <2>2. PICK all, kept :
          /\ all = {x \in stories : x.author = req[i].author /\ x.expiresAt > req[i].asof}
          /\ kept = {x \in all : x.visibility = "public" \/ x.author = req[i].user}
          /\ Sort(i, all, kept, "checkStory")
    BY <1>4 DEF FindActive
  <2>3. \A x \in req[i].begun : x \in stories /\ now < x.expiresAt => x \in all
    <3>1. req[i].asof <= now /\ req[i].asof \in Int /\ now \in Int
      BY <1>0, DayAssumption DEF ReaderAgrees, Req, TypeOK
    <3> QED BY <1>0, <1>1, <2>1, <2>2, <3>1 DEF ReaderAgrees
  <2> QED BY <1>0, <2>1, <2>2, <2>3, SortAgrees
<1>5. CASE CheckAuthor(i)
  <2>1. req[i].pc = "checkAuthor"
    BY <1>5 DEF CheckAuthor, At
  <2>2. PICK x \in req[i].found :
          LET theirs  == {y \in req[i].found : y.author = x.author}
              allowed == OnCloseFriendsList(x.author, req[i].user)
          IN  req' = [req EXCEPT ![i].found = @ \ theirs,
                        ![i].kept = IF allowed THEN @ \cup theirs ELSE @,
                        ![i].pc = IF req[i].found \subseteq theirs THEN "show" ELSE @]
    BY <1>5 DEF CheckAuthor
  <2>3. PICK theirs, kept, pc :
          /\ theirs = {y \in req[i].found : y.author = x.author}
          /\ kept = IF OnCloseFriendsList(x.author, req[i].user) THEN req[i].kept \cup theirs
                    ELSE req[i].kept
          /\ pc = IF req[i].found \subseteq theirs THEN "show" ELSE "checkAuthor"
    OBVIOUS
  <2>4. req' = [req EXCEPT ![i] = [req[i] EXCEPT !.pc = pc, !.found = req[i].found \ theirs,
                                                 !.kept = kept]]
    BY <1>0, <2>1, <2>2, <2>3, ZenonT(60) DEF TypeOK, Req
  <2>5. PICK a : a = x.author
    OBVIOUS
  <2>6. /\ theirs \subseteq req[i].found /\ \A y \in theirs : y.author = a
        /\ pc \in {"show", "checkAuthor", "checkStory"}
        /\ pc = "show" => req[i].found \subseteq theirs
        /\ OnCloseFriendsList(a, req[i].user) => kept = req[i].kept \cup theirs
        /\ ~OnCloseFriendsList(a, req[i].user) => kept = req[i].kept
    BY <2>3, <2>5
  <2> QED BY <1>0, <2>1, <2>4, <2>6, CheckAgrees
<1>6. CASE CheckStory(i)
  <2>1. req[i].pc = "checkStory"
    BY <1>6 DEF CheckStory, At
  <2>2. PICK x \in req[i].found :
          req' = [req EXCEPT ![i].found = @ \ {x},
                    ![i].kept = IF OnCloseFriendsList(x.author, req[i].user) THEN @ \cup {x} ELSE @,
                    ![i].pc = IF req[i].found = {x} THEN "show" ELSE @]
    BY <1>6 DEF CheckStory
  <2>3. PICK kept, pc :
          /\ kept = IF OnCloseFriendsList(x.author, req[i].user) THEN req[i].kept \cup {x}
                    ELSE req[i].kept
          /\ pc = IF req[i].found = {x} THEN "show" ELSE "checkStory"
    OBVIOUS
  <2>4. req' = [req EXCEPT ![i] = [req[i] EXCEPT !.pc = pc, !.found = req[i].found \ {x},
                                                 !.kept = kept]]
    BY <1>0, <2>1, <2>2, <2>3, ZenonT(60) DEF TypeOK, Req
  <2>5. PICK a, checked : a = x.author /\ checked = {x}
    OBVIOUS
  <2>6. /\ checked \subseteq req[i].found /\ \A y \in checked : y.author = a
        /\ pc \in {"show", "checkAuthor", "checkStory"}
        /\ pc = "show" => req[i].found \subseteq checked
        /\ OnCloseFriendsList(a, req[i].user) => kept = req[i].kept \cup checked
        /\ ~OnCloseFriendsList(a, req[i].user) => kept = req[i].kept
    BY <2>3, <2>5
  <2>7. req' = [req EXCEPT ![i] = [req[i] EXCEPT !.pc = pc, !.found = req[i].found \ checked,
                                                 !.kept = kept]]
    BY <2>4, <2>5
  <2> QED BY <1>0, <2>1, <2>6, <2>7, CheckAgrees
<1>7. CASE CheckFriend(i) /\ req[i].op = "open"
  <2>1. req[i].pc = "checkFriend" /\ req[i].kept = {}
    BY <1>0, <1>7 DEF CheckFriend, At, ReaderAgrees
  <2>2. PICK kept : kept = IF OnCloseFriendsList(req[i].author, req[i].user)
                          THEN req[i].found ELSE {}
    OBVIOUS
  <2>3. req' = [req EXCEPT ![i].pc = "show", ![i].found = {}, ![i].kept = kept]
    BY <1>7, <2>2 DEF CheckFriend, Checked
  <2>4. PICK checked : checked = req[i].found
    OBVIOUS
  <2>5. req' = [req EXCEPT ![i] = [req[i] EXCEPT !.pc = "show", !.found = req[i].found \ checked,
                                                 !.kept = kept]]
    BY <1>0, <2>3, <2>4 DEF TypeOK, Req
  <2>6. \A x \in checked : x.author = req[i].author
    BY <1>0, <2>1, <2>4 DEF ReaderAgrees
  <2> QED BY <1>0, <2>1, <2>2, <2>4, <2>5, <2>6, CheckAgrees, ZenonT(60)
<1> QED BY <1>2, <1>3, <1>4, <1>5, <1>6, <1>7 DEF Reading

LEMMA ReadersStep ==
  ASSUME Inv, [Next]_vars
  PROVE  \A i \in Request : IF req'[i].op \in Reads THEN ReaderAgrees(i)' ELSE req'[i].kept = {}
<1>1. ASSUME NEW i \in Request, Waits(i)
      PROVE  IF req'[i].op \in Reads THEN ReaderAgrees(i)' ELSE req'[i].kept = {}
  BY <1>1, ReaderWaits DEF Waits, SameCall, SameHands, Inv, Coherent
<1>2. ASSUME NEW i \in Request, Starts(i)
      PROVE  IF req'[i].op \in Reads THEN ReaderAgrees(i)' ELSE req'[i].kept = {}
  BY <1>2, AskAgrees, OverFields DEF Starts, Reads
<1>3. ASSUME NEW i \in Request, Goes(i)
      PROVE  IF req'[i].op \in Reads THEN ReaderAgrees(i)' ELSE req'[i].kept = {}
  <2>1. CASE req[i].op \in Reads
    <3>1. Reading(i)
      <4>1. HandlerAgrees(i) /\ req[i] \in Req
        BY DEF Inv, Coherent, TypeOK
      <4> QED BY <1>3, <2>1, <4>1 DEF Goes, HandlerAgrees, PCsOf, Reads
    <3> QED BY <1>3, <2>1, <3>1, ReadAgrees DEF Goes, SameCall
  <2>2. CASE req[i].op \notin Reads
    BY <1>3, <2>2 DEF Goes, SameCall, SameHands, Inv, Coherent
  <2> QED BY <2>1, <2>2
<1>4. ASSUME NEW i \in Request, Ends(i)
      PROVE  IF req'[i].op \in Reads THEN ReaderAgrees(i)' ELSE req'[i].kept = {}
  BY <1>4, OverFields DEF Ends, Reads
<1> QED BY <1>1, <1>2, <1>3, <1>4, Each

-----------------------------------------------------------------------------
(* The audience *)

(* Whoever is in the tables is entitled. *)
LEMMA EntryEntitled ==
  ASSUME Inv, NEW u \in User, NEW s,
         <<u, s>> \in views \/ ReactionsOf(u, s) # {}
  PROVE  Entitled(u, s)
<1>1. ASSUME NEW x \in stories, x.id = s, x.visibility = "close_friends"
      PROVE  u = x.author \/ <<u, s>> \in admitted
  <2>1. OnlyTheAdmitted
    BY DEF Inv, Coherent
  <2>2. u \in User
    BY DEF Inv, TypeOK, ReactionsOf, Reaction
  <2> QED BY <1>1, <2>1, <2>2 DEF OnlyTheAdmitted, HasSeen
<1> QED BY <1>1 DEF Entitled

(* Whoever is in the tables after a step was entitled before it. *)
LEMMA EntriesEntitled ==
  ASSUME Inv, [Next]_vars, NEW u \in User, NEW s,
         <<u, s>> \in views' \/ \E x \in reactions' : x.user = u /\ x.story = s
  PROVE  s \in published /\ Entitled(u, s)
<1>0. TypeOK /\ TablesAgree /\ OnlyTheAdmitted
  BY DEF Inv, Coherent
<1>1. ASSUME Exists(s)
      PROVE  s \in published
  BY <1>0, <1>1 DEF Exists, TablesAgree
<1>2. CASE <<u, s>> \in views
  <2>1. Exists(s)
    <3>1. PICK v : v = <<u, s>>
      OBVIOUS
    <3>2. Exists(v[2]) /\ v[2] = s
      BY <1>0, <1>2, <3>1 DEF TablesAgree
    <3> QED BY <3>2
  <2> QED BY <1>1, <1>2, <2>1, EntryEntitled
<1>3. ASSUME NEW x \in reactions, x.user = u, x.story = s
      PROVE  s \in published /\ Entitled(u, s)
  <2>1. Exists(s) /\ ReactionsOf(u, s) # {}
    BY <1>0, <1>3 DEF TablesAgree, ReactionsOf
  <2> QED BY <1>1, <1>3, <2>1, EntryEntitled
<1>4. ASSUME NEW r \in Request, InsertView(r), <<u, s>> \notin views, <<u, s>> \in views'
      PROVE  s \in published /\ Entitled(u, s)
  <2>1. req[r].pc = "insertView" /\ <<u, s>> = <<req[r].user, req[r].story>> /\ Exists(req[r].story)
    BY <1>4 DEF InsertView, At
  <2>2. u = req[r].user /\ s = req[r].story
    BY <2>1
  <2> QED BY <1>1, <2>1, <2>2 DEF Inv, Coherent, HandlerAgrees, SeenPC
<1>5. ASSUME NEW gone, DeleteStories(gone)
      PROVE  views' \subseteq views /\ reactions' \subseteq reactions
  BY <1>5 DEF DeleteStories
<1>6. CASE <<u, s>> \in views'
  BY <1>2, <1>4, <1>5, <1>6, ViewsStay
<1>7. ASSUME NEW x \in reactions', x \notin reactions, x.user = u, x.story = s
      PROVE  s \in published /\ Entitled(u, s)
  <2>1. PICK r \in Request : Updates(r) \/ Inserts(r, x)
    BY <1>5, <1>7, ReactionsStay DEF Confirms, Inserts, RemoveReaction, React, tables
  <2>2. CASE Inserts(r, x)
    BY <1>1, <1>7, <2>2, InsertFresh DEF Inserts, Writes
  <2>3. CASE Updates(r)
    <3>1. x = req[r].copy /\ req[r].pc \in SavingPC
      BY <1>7, <2>3 DEF Updates, SavingPC
    <3> QED BY <1>7, <3>1, WriterKnows, ReactsEmoji DEF Writes
  <2> QED BY <2>1, <2>2, <2>3
<1> QED BY <1>3, <1>6, <1>7

LEMMA AudienceStep ==
  ASSUME Inv, [Next]_vars
  PROVE  OnlyTheAdmitted'
<1>1. ASSUME NEW x \in stories', x.visibility = "close_friends", NEW u \in User,
             <<u, x.id>> \in views' \/ \E y \in reactions' : y.user = u /\ y.story = x.id
      PROVE  u = x.author \/ <<u, x.id>> \in admitted'
  <2>1. PICK s : s = x.id
    OBVIOUS
  <2>2. Entitled(u, s)'
    BY <1>1, <2>1, EntriesEntitled, EntitledLasts
  <2> QED BY <1>1, <2>1, <2>2 DEF Entitled
<1>2. ASSUME NEW x \in stories', x.visibility = "close_friends", NEW u \in User,
             NEW r \in Request, req'[r].user = u, x \in req'[r].kept
      PROVE  u = x.author \/ <<u, x.id>> \in admitted'
  <2>1. ReaderAgrees(r)'
    BY <1>2, ReadersStep
  <2> QED BY <1>2, <2>1 DEF ReaderAgrees, MayHold
<1>3. ASSUME NEW x \in stories', x.visibility = "close_friends", NEW u \in User,
             \/ <<u, x.id>> \in views'
             \/ ReactionsOf(u, x.id)' # {}
             \/ \E r \in Request : req'[r].user = u /\ x \in req'[r].kept
      PROVE  u = x.author \/ <<u, x.id>> \in admitted'
  BY <1>1, <1>2, <1>3 DEF ReactionsOf
<1> QED BY <1>3 DEF OnlyTheAdmitted, HasSeen

-----------------------------------------------------------------------------
(* The answers *)

(* Only react makes a call that reacts. *)
LEMMA ReactingStarts ==
  ASSUME Inv, [Next]_vars, NEW i \in Request, Starts(i), req'[i].op = "react"
  PROVE  answer' = [answer EXCEPT ![<<req'[i].user, req'[i].story>>] = "unknown"]
<1>0. TypeOK
  BY DEF Inv
<1>1. req[i].pc = "idle" /\ req[i].op # "react"
  BY DEF Starts, Inv, Coherent, HandlerAgrees, PCsOf, SeenPC, SavingPC
<1>2. ~Waits(i)
  BY <1>1 DEF Waits, SameCall
<1>3. req'[i] # req[i]
  BY <1>1
<1>4. ASSUME NEW r \in Request, NEW u \in User, NEW s \in Story, View(r, u, s) \/ Delete(r, u, s)
      PROVE  FALSE
  <2>1. Only(r)
    BY <1>0, <1>4, ViewStarts, DeleteStarts
  <2>2. i = r
    BY <1>3, <2>1 DEF Only
  <2>3. PICK op, pc : op # "react" /\ Begin(r, op, pc, u, s, None)
    BY <1>4 DEF View, Delete
  <2>4. req'[r] = Loaded(op, pc, u, s, None, FALSE)
    BY <1>0, <2>3 DEF Begin, TypeOK
  <2>5. CASE pc \in Running
    BY <2>2, <2>3, <2>4, <2>5 DEF Loaded
  <2>6. CASE pc \notin Running
    BY <2>2, <2>4, <2>6, OverFields DEF Loaded
  <2> QED BY <2>5, <2>6
<1>5. ASSUME NEW r \in Request, NEW u \in User, NEW s \in Story, NEW e \in Emoji, React(r, u, s, e)
      PROVE  answer' = [answer EXCEPT ![<<req'[i].user, req'[i].story>>] = "unknown"]
  <2>1. i = r
    BY <1>0, <1>2, <1>5, ReactStarts, MarkedWaits
  <2> QED BY <1>0, <1>5, <2>1, ReactStarts, OverFields
<1>6. ASSUME NEW r \in Request, Step(r) \/ Fail(r)
      PROVE  FALSE
  <2>1. Moves(r)
    BY <1>6, StepMoves
  <2> QED BY <1>1, <1>3, <2>1 DEF Moves, Only, Goes, Ends, Running
<1>7. ASSUME Instant
      PROVE  FALSE
  <2>1. ASSUME NEW u \in Author, NEW v \in User, NEW on \in BOOLEAN, SetCloseFriend(u, v, on)
        PROVE  FALSE
    BY <1>0, <1>2, <2>1, ListMarks, AuthorAssumption
  <2> QED BY <1>0, <1>2, <1>3, <1>7, <2>1, RemovalMarks, MarkedWaits
     DEF Instant, Publish, InsertStory, LoseStory, CleanupExpiredStories, Tick
<1>9. ASSUME NEW r \in Request, Asking(r)
      PROVE  FALSE
  <2>1. Only(r) /\ req'[r].op # "react"
    BY <1>0, <1>9, AskStarts, AskReads DEF Reads
  <2> QED BY <1>3, <2>1 DEF Only
<1>8. ASSUME UNCHANGED vars
      PROVE  FALSE
  BY <1>3, <1>8 DEF vars
<1> QED BY <1>4, <1>5, <1>6, <1>7, <1>8, <1>9 DEF Next, Call, Asking

(* A call that writes without a rival sets the answer of its own reaction only. *)
LEMMA AnsweredChanges ==
  ASSUME Inv, NEW r \in Request, NEW u \in User, NEW s \in Story
  PROVE  IF u = req[r].user /\ s = req[r].story /\ ~req[r].rival /\ Exists(req[r].story)
         THEN Answered(r)[<<u, s>>] = req[r].emoji
         ELSE Answered(r)[<<u, s>>] = answer[<<u, s>>]
<1>1. answer \in [User \X Story -> Emoji \cup {"none", "unknown"}]
  BY DEF Inv, TypeOK
<1>2. <<u, s>> \in User \X Story
  OBVIOUS
<1>3. CASE req[r].rival \/ ~Exists(req[r].story)
  BY <1>3 DEF Answered
<1>4. CASE ~(req[r].rival \/ ~Exists(req[r].story))
  <2>1. Answered(r) = [answer EXCEPT ![<<req[r].user, req[r].story>>] = req[r].emoji]
    BY <1>4 DEF Answered
  <2>2. CASE u = req[r].user /\ s = req[r].story
    BY <1>1, <1>2, <1>4, <2>1, <2>2
  <2>3. CASE ~(u = req[r].user /\ s = req[r].story)
    <3>1. <<u, s>> # <<req[r].user, req[r].story>>
      BY <2>3
    <3> QED BY <1>1, <1>2, <2>1, <2>3, <3>1
  <2> QED BY <2>2, <2>3
<1> QED BY <1>3, <1>4

LEMMA AnswersStep ==
  ASSUME Inv, [Next]_vars
  PROVE  AnswersAgree'
<1>0. TypeOK /\ AnswersAgree
  BY DEF Inv, Coherent
<1>1. ASSUME NEW u \in User, NEW s \in Story, ~Exists(s)'
      PROVE  answer'[<<u, s>>] = "none"
  <2>0. <<u, s>> \in User \X Story /\ answer \in [User \X Story -> Emoji \cup {"none", "unknown"}]
    BY <1>0 DEF TypeOK
  <2>1. ~Exists(s) => answer[<<u, s>>] = "none"
    BY <1>0 DEF AnswersAgree
  <2>2. CASE UNCHANGED <<reactions, answer>> /\ ~\E gone : DeleteStories(gone)
    <3>1. ~Exists(s)
      BY <1>1, <2>2, StoriesStay DEF InsertStory, SetCloseFriend, Exists
    <3> QED BY <2>1, <2>2, <3>1
  <2>3. ASSUME NEW r \in Request, answer' = Answered(r), stories' = stories
        PROVE  answer'[<<u, s>>] = "none"
    <3>1. ~Exists(s)
      BY <1>1, <2>3 DEF Exists
    <3> QED BY <2>1, <2>3, <3>1, AnsweredChanges
  <2>4. ASSUME NEW v \in User, NEW t \in Story, RemoveReaction(v, t)
        PROVE  answer'[<<u, s>>] = "none"
    <3>1. ~Exists(s) /\ Exists(t)
      BY <1>1, <2>4 DEF RemoveReaction, Exists
    <3>2. s # t
      BY <3>1
    <3>3. <<u, s>> # <<v, t>>
      BY <3>2
    <3> QED BY <2>0, <2>1, <2>4, <3>1, <3>3 DEF RemoveReaction
  <2>5. ASSUME NEW gone, DeleteStories(gone)
        PROVE  answer'[<<u, s>>] = "none"
    <3>1. s \in gone \/ ~Exists(s)
      BY <1>1, <2>5 DEF DeleteStories, Exists
    <3>2. answer'[<<u, s>>] = IF s \in gone THEN "none" ELSE answer[<<u, s>>]
      BY <2>0, <2>5 DEF DeleteStories
    <3> QED BY <2>1, <3>1, <3>2
  <2>6. ASSUME NEW r \in Request, NEW v \in User, NEW t \in Story, NEW e \in Emoji, React(r, v, t, e)
        PROVE  answer'[<<u, s>>] = "none"
    <3>1. ~Exists(s)
      BY <1>1, <2>6 DEF React, tables, Exists
    <3>2. CASE answer' = answer
      BY <2>1, <3>1, <3>2
    <3>3. CASE Exists(t) /\ answer' = [answer EXCEPT ![<<v, t>>] = "unknown"]
      <4>1. s # t
        BY <3>1, <3>3
      <4>2. <<u, s>> # <<v, t>>
        BY <4>1
      <4> QED BY <2>0, <2>1, <3>1, <3>3, <4>2
    <3> QED BY <1>0, <2>6, <3>2, <3>3, ReactStarts
  <2> QED BY <2>2, <2>3, <2>4, <2>5, <2>6, ReactionsStay DEF Confirms, Updates, Inserts
<1>2. ASSUME NEW u \in User, NEW s \in Story, Exists(s)', NEW i \in Reacting(u, s)'
      PROVE  answer'[<<u, s>>] = "unknown"
  <2>0. <<u, s>> \in User \X Story /\ answer \in [User \X Story -> Emoji \cup {"none", "unknown"}]
        /\ i \in Request /\ req'[i].op = "react" /\ req'[i].user = u /\ req'[i].story = s
    BY <1>0 DEF TypeOK, Reacting
  <2>1. CASE Starts(i)
    BY <2>0, <2>1, ReactingStarts
  <2>2. CASE Waits(i) \/ Goes(i)
    <3>1. i \in Reacting(u, s) /\ req[i].op = "react"
      BY <2>0, <2>2 DEF Waits, Goes, SameCall, Reacting
    <3>2. Exists(s)
      BY <1>2, <2>0, <3>1, ExistedBefore DEF Inv, Coherent, HandlerAgrees, Reacting
    <3>3. answer[<<u, s>>] = "unknown"
      BY <1>0, <3>1, <3>2 DEF AnswersAgree
    <3>4. ASSUME NEW r \in Request, Ends(r), answer' = Answered(r), req[r].op = "react"
          PROVE  answer'[<<u, s>>] = "unknown"
      <4>1. CASE u = req[r].user /\ s = req[r].story /\ ~req[r].rival
        <5>1. Reacting(u, s) = {r}
          BY <3>4, <4>1 DEF Inv, Coherent, HandlerAgrees
        <5>2. i = r
          BY <3>1, <5>1
        <5> QED BY <2>0, <3>4, <5>2, OverFields DEF Ends
      <4>2. CASE ~(u = req[r].user /\ s = req[r].story /\ ~req[r].rival)
        BY <3>3, <3>4, <4>2, AnsweredChanges
      <4> QED BY <4>1, <4>2
    <3>5. ASSUME NEW r \in Request, Confirms(r) \/ Updates(r) \/ \E row : Inserts(r, row)
          PROVE  Ends(r) /\ answer' = Answered(r) /\ req[r].op = "react"
      <4>1. Ends(r) /\ answer' = Answered(r)
            /\ req[r].pc \in SavingPC \cup {"insertReaction"}
        BY <3>5 DEF Confirms, Updates, Inserts, SavingPC
      <4> QED BY <4>1, WriterKnows DEF Writes
    <3>6. ASSUME NEW v \in User, NEW t \in Story, RemoveReaction(v, t)
          PROVE  answer'[<<u, s>>] = "unknown"
      <4>1. CASE <<u, s>> = <<v, t>>
        <5>1. u = v /\ s = t
          BY <4>1
        <5> QED BY <2>0, <3>1, <3>6, <5>1 DEF RemoveReaction
      <4> QED BY <2>0, <3>3, <3>6, <4>1 DEF RemoveReaction
    <3>7. ASSUME NEW gone, DeleteStories(gone)
          PROVE  answer'[<<u, s>>] = "unknown"
      <4>1. s \notin gone
        BY <1>2, <3>7 DEF DeleteStories, Exists
      <4>2. answer'[<<u, s>>] = IF s \in gone THEN "none" ELSE answer[<<u, s>>]
        BY <2>0, <3>7 DEF DeleteStories
      <4> QED BY <3>3, <4>1, <4>2
    <3>8. ASSUME NEW r \in Request, NEW v \in User, NEW t \in Story, NEW e \in Emoji, React(r, v, t, e)
          PROVE  answer'[<<u, s>>] = "unknown"
      BY <1>0, <2>0, <3>3, <3>8, ReactStarts
    <3> QED BY <3>3, <3>4, <3>5, <3>6, <3>7, <3>8, ReactionsStay
  <2>3. ~Ends(i)
    BY <2>0, OverFields DEF Ends
  <2> QED BY <2>0, <2>1, <2>2, <2>3, Each
<1> QED BY <1>1, <1>2 DEF AnswersAgree

(* ReactionsAsAnswered, of one user and one story. *)
Shown(u, s) ==
  /\ \A x, y \in ReactionsOf(u, s) : x = y
  /\ answer[<<u, s>>] = "none" => ReactionsOf(u, s) = {}
  /\ answer[<<u, s>>] \in Emoji /\ Exists(s)
       => /\ ReactionsOf(u, s) # {}
          /\ \A x \in ReactionsOf(u, s) : x.emoji = answer[<<u, s>>]

LEMMA ShownBefore ==
  ASSUME Inv, NEW u \in User, NEW s \in Story
  PROVE  Shown(u, s)
<1>1. PICK emojis : emojis = {x.emoji : x \in ReactionsOf(u, s)}
  OBVIOUS
<1>2. /\ \A x, y \in ReactionsOf(u, s) : x = y
      /\ answer[<<u, s>>] = "none" => emojis = {}
      /\ answer[<<u, s>>] \in Emoji /\ Exists(s) => emojis = {answer[<<u, s>>]}
  BY <1>1 DEF Inv, Coherent, ReactionsAsAnswered
<1> QED BY <1>1, <1>2 DEF Shown

(* What is neither written nor answered stays shown. *)
LEMMA ShownLasts ==
  ASSUME Inv, [Next]_vars, NEW u \in User, NEW s \in Story,
         ReactionsOf(u, s)' = ReactionsOf(u, s), answer'[<<u, s>>] = answer[<<u, s>>]
  PROVE  Shown(u, s)'
<1>1. ASSUME answer[<<u, s>>] \in Emoji
      PROVE  Exists(s)
  BY <1>1, NoneAssumption DEF Inv, Coherent, AnswersAgree
<1>2. Shown(u, s)
  BY ShownBefore
<1> QED BY <1>1, <1>2 DEF Shown

(* A call that has written leaves its row alone in the table, and its emoji as
   the answer unless there is a rival. *)
LEMMA WrittenShown ==
  ASSUME Inv, [Next]_vars, NEW r \in Request, NEW row, Writes(r, row),
         answer' = Answered(r), stories' = stories, Exists(row.story),
         ReactionsOf(row.user, row.story)' = {row}
  PROVE  Shown(row.user, row.story)'
<1>1. PICK u \in User, s \in Story : u = row.user /\ s = row.story
  BY DEF Writes
<1>2. ReactionsOf(u, s)' = {row} /\ u = req[r].user /\ s = req[r].story
      /\ row.emoji = req[r].emoji /\ req[r].emoji \in Emoji
  BY <1>1 DEF Writes
<1>3. CASE req[r].rival
  <2>1. r \in Reacting(u, s)
    BY <1>2 DEF Reacting, Writes
  <2>2. answer[<<u, s>>] = "unknown"
    BY <1>1, <2>1 DEF Inv, Coherent, AnswersAgree
  <2>3. answer'[<<u, s>>] = "unknown"
    BY <1>3, <2>2, AnsweredChanges
  <2>4. Shown(u, s)'
    BY <1>2, <2>3, NoneAssumption DEF Shown
  <2> QED BY <1>1, <2>4
<1>4. CASE ~req[r].rival
  <2>1. answer'[<<u, s>>] = req[r].emoji
    BY <1>1, <1>2, <1>4, AnsweredChanges
  <2>2. req[r].emoji # "none"
    BY <1>2, NoneAssumption
  <2>3. Shown(u, s)'
    BY <1>2, <2>1, <2>2 DEF Shown
  <2> QED BY <1>1, <2>3
<1> QED BY <1>3, <1>4

(* A call whose row is gone has a rival, or no story: it answers nothing. *)
LEMMA LostAnswersNothing ==
  ASSUME Inv, NEW r \in Request, req[r].pc = "updateReaction",
         \A y \in reactions : y.id # req[r].copy.id,
         NEW u \in User, NEW s \in Story
  PROVE  Answered(r)[<<u, s>>] = answer[<<u, s>>]
<1>1. req[r].rival \/ ~Exists(req[r].story)
  BY DEF Inv, Coherent, HandlerAgrees, CopyAgrees, SavingPC
<1> QED BY <1>1, AnsweredChanges

LEMMA ShownStep ==
  ASSUME Inv, [Next]_vars
  PROVE  ReactionsAsAnswered'
<1>0. TypeOK /\ TablesAgree /\ IdsAgree
  BY DEF Inv, Coherent
<1>1. ASSUME NEW u \in User, NEW s \in Story
      PROVE  Shown(u, s)'
  <2>0. <<u, s>> \in User \X Story /\ answer \in [User \X Story -> Emoji \cup {"none", "unknown"}]
    BY <1>0 DEF TypeOK
  <2>1. CASE UNCHANGED <<reactions, answer>>
    BY <2>1, ShownLasts DEF ReactionsOf
  <2>2. ASSUME NEW r \in Request, NEW row, Writes(r, row), answer' = Answered(r),
               stories' = stories, Exists(row.story),
               ReactionsOf(row.user, row.story)' = {row},
               u # row.user \/ s # row.story => ReactionsOf(u, s)' = ReactionsOf(u, s)
        PROVE  Shown(u, s)'
    <3>1. CASE u = row.user /\ s = row.story
      BY <2>2, <3>1, WrittenShown
    <3>2. CASE u # row.user \/ s # row.story
      <4>1. answer'[<<u, s>>] = answer[<<u, s>>]
        BY <2>2, <3>2, AnsweredChanges DEF Writes
      <4> QED BY <2>2, <3>2, <4>1, ShownLasts
    <3> QED BY <3>1, <3>2
  <2>3. ASSUME NEW r \in Request, NEW row, Inserts(r, row)
        PROVE  Shown(u, s)'
    <3>1. Writes(r, row)
      BY <2>3, InsertFresh
    <3>2. ReactionsOf(row.user, row.story)' = {row}
      BY <2>3 DEF Inserts, ReactionsOf
    <3>3. u # row.user \/ s # row.story => ReactionsOf(u, s)' = ReactionsOf(u, s)
      BY <2>3 DEF Inserts, ReactionsOf
    <3> QED BY <2>2, <2>3, <3>1, <3>2, <3>3 DEF Inserts
  <2>4. ASSUME NEW r \in Request, Confirms(r)
        PROVE  Shown(u, s)'
    <3>1. PICK row : row = req[r].copy
      OBVIOUS
    <3>2. Writes(r, row) /\ row \in reactions
      BY <2>4, <3>1, WriterKnows DEF Confirms, SavingPC
    <3>3. ReactionsOf(row.user, row.story)' = {row}
      <4>1. Shown(row.user, row.story) /\ row \in ReactionsOf(row.user, row.story)
        BY <3>2, ShownBefore DEF Writes, ReactionsOf
      <4>2. ReactionsOf(row.user, row.story) = {row}
        BY <4>1 DEF Shown
      <4> QED BY <2>4, <4>2 DEF Confirms, ReactionsOf
    <3>4. ReactionsOf(u, s)' = ReactionsOf(u, s)
      BY <2>4 DEF Confirms, ReactionsOf
    <3>5. Exists(row.story)
      BY <1>0, <3>2 DEF TablesAgree
    <3> QED BY <2>2, <2>4, <3>2, <3>3, <3>4, <3>5 DEF Confirms
  <2>5. ASSUME NEW r \in Request, Updates(r)
        PROVE  Shown(u, s)'
    <3>1. PICK row : row = req[r].copy
      OBVIOUS
    <3>2. Writes(r, row) /\ Owned(row.id, row.user, row.story)
      BY <2>5, <3>1, WriterKnows DEF Updates, SavingPC, Inv, Coherent, HandlerAgrees, CopyAgrees
    <3>3. \A x : x \in reactions' <=>
                  \/ x \in reactions /\ x.id # row.id
                  \/ x = row /\ \E y \in reactions : y.id = row.id
      BY <2>5, <3>1 DEF Updates
    <3>4. ASSUME NEW y \in reactions, y.id = row.id
          PROVE  Shown(u, s)'
      <4>1. y.user = row.user /\ y.story = row.story
        BY <3>2, <3>4 DEF Owned
      <4>2. Shown(row.user, row.story) /\ y \in ReactionsOf(row.user, row.story)
        BY <3>2, <4>1, ShownBefore DEF Writes, ReactionsOf
      <4>3. \A x \in reactions : x.user = row.user /\ x.story = row.story => x = y
        BY <4>2 DEF Shown, ReactionsOf
      <4>4. \A x : x \in reactions' /\ x.user = row.user /\ x.story = row.story <=> x = row
        BY <3>3, <3>4, <4>1, <4>3
      <4>5. ReactionsOf(row.user, row.story)' = {row}
        BY <4>4 DEF ReactionsOf
      <4>6. ASSUME u # row.user \/ s # row.story
            PROVE  ReactionsOf(u, s)' = ReactionsOf(u, s)
        <5>1. \A x : x \in reactions /\ x.user = u /\ x.story = s => x.id # row.id
          BY <3>2, <4>6 DEF Owned
        <5>2. \A x : x \in reactions' /\ x.user = u /\ x.story = s
                      <=> x \in reactions /\ x.user = u /\ x.story = s
          BY <3>3, <4>6, <5>1
        <5> QED BY <5>2 DEF ReactionsOf
      <4>7. Exists(row.story)
        BY <1>0, <4>1 DEF TablesAgree
      <4> QED BY <2>2, <2>5, <3>2, <4>5, <4>6, <4>7 DEF Updates
    <3>5. CASE \A y \in reactions : y.id # row.id
      <4>1. \A x : x \in reactions' <=> x \in reactions
        BY <3>3, <3>5
      <4>2. ReactionsOf(u, s)' = ReactionsOf(u, s)
        BY <4>1 DEF ReactionsOf
      <4>3. answer'[<<u, s>>] = answer[<<u, s>>]
        BY <2>5, <3>1, <3>5, LostAnswersNothing DEF Updates
      <4> QED BY <4>2, <4>3, ShownLasts
    <3> QED BY <3>4, <3>5
  <2>6. ASSUME NEW v \in User, NEW t \in Story, RemoveReaction(v, t)
        PROVE  Shown(u, s)'
    <3>1. CASE u = v /\ s = t
      <4>1. answer'[<<u, s>>] \in {"none", "unknown"}
        BY <2>0, <2>6, <3>1 DEF RemoveReaction
      <4>2. ReactionsOf(u, s)' = {}
        BY <2>6, <3>1 DEF RemoveReaction, ReactionsOf
      <4> QED BY <4>1, <4>2, NoneAssumption DEF Shown
    <3>2. CASE u # v \/ s # t
      <4>1. <<u, s>> # <<v, t>>
        BY <3>2
      <4>2. answer'[<<u, s>>] = answer[<<u, s>>]
        BY <2>0, <2>6, <4>1 DEF RemoveReaction
      <4>3. ReactionsOf(u, s)' = ReactionsOf(u, s)
        BY <2>6, <3>2 DEF RemoveReaction, ReactionsOf
      <4> QED BY <4>2, <4>3, ShownLasts
    <3> QED BY <3>1, <3>2
  <2>7. ASSUME NEW gone, DeleteStories(gone)
        PROVE  Shown(u, s)'
    <3>1. answer'[<<u, s>>] = IF s \in gone THEN "none" ELSE answer[<<u, s>>]
      BY <2>0, <2>7 DEF DeleteStories
    <3>2. CASE s \in gone
      <4>1. ReactionsOf(u, s)' = {}
        BY <2>7, <3>2 DEF DeleteStories, ReactionsOf
      <4> QED BY <3>1, <3>2, <4>1, NoneAssumption DEF Shown
    <3>3. CASE s \notin gone
      <4>1. ReactionsOf(u, s)' = ReactionsOf(u, s)
        BY <2>7, <3>3 DEF DeleteStories, ReactionsOf
      <4> QED BY <3>1, <3>3, <4>1, ShownLasts
    <3> QED BY <3>2, <3>3
  <2>8. ASSUME NEW r \in Request, NEW v \in User, NEW t \in Story, NEW e \in Emoji, React(r, v, t, e)
        PROVE  Shown(u, s)'
    <3>1. ReactionsOf(u, s)' = ReactionsOf(u, s)
      BY <2>8 DEF React, tables, ReactionsOf
    <3>2. answer'[<<u, s>>] \in {answer[<<u, s>>], "unknown"}
      BY <1>0, <2>0, <2>8, ReactStarts, ZenonT(60)
    <3>3. CASE answer'[<<u, s>>] = "unknown"
      <4>1. Shown(u, s)
        BY ShownBefore
      <4> QED BY <3>1, <3>3, <4>1, NoneAssumption DEF Shown
    <3> QED BY <3>1, <3>2, <3>3, ShownLasts
  <2> QED BY <2>1, <2>3, <2>4, <2>5, <2>6, <2>7, <2>8, ReactionsStay
<1>2. ASSUME NEW u \in User, NEW s \in Story, NEW emojis, emojis = {x.emoji : x \in ReactionsOf(u, s)'}
      PROVE  /\ \A x, y \in ReactionsOf(u, s)' : x = y
             /\ answer'[<<u, s>>] = "none" => emojis = {}
             /\ answer'[<<u, s>>] \in Emoji /\ Exists(s)' => emojis = {answer'[<<u, s>>]}
  BY <1>1, <1>2 DEF Shown
<1> QED BY <1>2 DEF ReactionsAsAnswered

-----------------------------------------------------------------------------
(* The theorems *)

LEMMA InvInit ==
  ASSUME Init
  PROVE  Inv
<1>1. TypeOK
  <2>1. now \in 0 .. MaxTime
    BY DayAssumption DEF Init
  <2>2. req \in [Request -> Req]
    BY OverFields DEF Init
  <2>3. answer \in [User \X Story -> Emoji \cup {"none", "unknown"}]
    BY DEF Init
  <2> QED BY <2>1, <2>2, <2>3 DEF Init, TypeOK
<1>2. TablesAgree /\ IdsAgree /\ OnlyTheAdmitted
  BY DEF Init, TablesAgree, IdsAgree, OnlyTheAdmitted
<1>3. ASSUME NEW r \in Request
      PROVE  HandlerAgrees(r)
  <2>1. req[r] = IdleReq
    BY DEF Init
  <2> QED BY <2>1, OverFields DEF HandlerAgrees, PCsOf, SeenPC, SavingPC
<1>4. AnswersAgree /\ ReactionsAsAnswered
  <2>1. ASSUME NEW u \in User, NEW s \in Story
        PROVE  answer[<<u, s>>] = "none" /\ ReactionsOf(u, s) = {} /\ ~Exists(s)
    BY DEF Init, ReactionsOf, Exists
  <2>2. "none" \notin Emoji
    BY NoneAssumption
  <2> QED BY <2>1, <2>2 DEF AnswersAgree, ReactionsAsAnswered
<1>5. ASSUME NEW r \in Request
      PROVE  req[r].op \notin Reads /\ req[r].kept = {}
  BY OverFields DEF Init, Reads
<1> QED BY <1>1, <1>2, <1>3, <1>4, <1>5 DEF Inv, Coherent

LEMMA InvStep ==
  ASSUME Inv, [Next]_vars
  PROVE  Inv'
BY TypeOKStep, TablesStep, IdsStep, HandlersStep, ReadersStep, AnswersStep, AudienceStep, ShownStep
   DEF Inv, Coherent

(* The inductive invariant holds: the tables, the memory of every call in flight
   and what the last call answered agree, between any two statements. *)
THEOREM AlwaysInv == Spec => []Inv
<1>1. Init => Inv
  BY InvInit
<1>2. Inv /\ [Next]_vars => Inv'
  BY InvStep
<1> QED BY <1>1, <1>2, PTL DEF Spec

(* The state has its type: every row, every call in flight and every answer is
   one the code can write. *)
THEOREM TypeCorrect == Spec => []TypeOK
<1>1. Inv => TypeOK
  BY DEF Inv
<1> QED BY <1>1, AlwaysInv, PTL

(* getFeed, getActiveByUser and getById hand out every story that was there when
   they were asked, is up and not deleted when they answer, and is for the reader:
   the hourly clean-up, the clock they have read statements before and the changes
   of the lists around them take nothing out. *)
THEOREM NothingMissingHolds == Spec => []NothingUpIsMissing
<1>1. ASSUME Inv, NEW r \in Request, At(r, "show")
      PROVE  ReaderAgrees(r) /\ req[r].pc = "show"
  <2>1. HandlerAgrees(r) /\ req[r] \in Req /\ req[r].pc = "show"
    BY <1>1 DEF Inv, Coherent, TypeOK, At
  <2>2. req[r].op \in Reads
    BY <2>1 DEF HandlerAgrees, PCsOf, Req, Reads, SeenPC, SavingPC
  <2> QED BY <1>1, <2>1, <2>2 DEF Inv, Coherent
<1>2. ASSUME Inv
      PROVE  NothingUpIsMissing
  <2>1. ASSUME NEW r \in Request, At(r, "show"), NEW x \in req[r].begun, Due(r, x)
        PROVE  x \in req[r].kept
    BY <1>1, <1>2, <2>1 DEF ReaderAgrees
  <2> QED BY <2>1 DEF NothingUpIsMissing, Due
<1>3. Inv => NothingUpIsMissing
  BY <1>2
<1> QED BY <1>3, AlwaysInv, PTL

(* findVisibleOrThrow checks the list of close friends in a query of its own, and
   the view and the reaction are written statements later: still, nobody gets
   into them who was not on the list while the story was up. *)
THEOREM AudienceHolds == Spec => []OnlyTheAdmitted
<1>1. Inv => OnlyTheAdmitted
  BY DEF Inv, Coherent
<1> QED BY <1>1, AlwaysInv, PTL

(* react finds, selects, then updates or inserts in as many statements: a user
   still has one reaction at most, and the story shows what an undisturbed call
   answered. *)
THEOREM ReactionsHold == Spec => []ReactionsAsAnswered
<1>1. Inv => ReactionsAsAnswered
  BY DEF Inv, Coherent
<1> QED BY <1>1, AlwaysInv, PTL
=============================================================================
