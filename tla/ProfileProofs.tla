--------------------------- MODULE ProfileProofs ----------------------------
(***************************************************************************)
(* Safety of Profile (accounts, highlights, bookmarks and collections) for *)
(* every set of users, calls, media, stories, posts and names.             *)
(***************************************************************************)
EXTENDS Profile, TLAPS

AccountPC == {"insertUser", "storeToken"}

HighlightPC == Writing \cup {"insertHighlight"}

TogglePC == {"findBookmark", "removeBookmark", "insertBookmark"}

NamePC == {"insertCollection", "findClash", "selectCollection", "updateCollection",
           "reinsertCollection"}

LibraryPC == TogglePC \cup NamePC \cup {"removeCollection", "findPost", "findItem",
                                        "insertItem", "deleteItem"}

(* The calls that have not yet inserted the row they give their id to. *)
Fresh(r) == req[r].pc \in {"idle", "insertUser", "insertHighlight", "insertCollection"}

-----------------------------------------------------------------------------
(* Accounts: a session is opened only for a registered user whom no logout has
   settled, and one that a logout has settled has had tokens. *)

Registered == {x.id : x \in users}

AccountsCoherent ==
  /\ \A u \in Registered : ~Fresh(u)
  /\ loggedOut \cup issued \subseteq Registered
  /\ \A r \in Request :
       req[r].pc = "storeToken" => req[r].account \in Registered \ loggedOut
  /\ LoggedOutStaysOut

-----------------------------------------------------------------------------
(* Highlights: a writer that no other overlaps knows the state of its highlight. *)

(* The items are those of one call. *)
Whole(h) == /\ ItemsOf(h) # {}
            /\ \E r \in Request : \A i \in ItemsOf(h) : i.by = r

WriterAgrees(r) ==
  LET q == req[r]
  IN  /\ ~Fresh(q.highlight)
      /\ q.pc \in {"insertItems", "deleteItems"} => q.media # {}
      /\ q.pc = "selectHighlight" => \A i \in q.copy : i.highlight = q.highlight
      /\ q.pc = "saveHighlight" => \A i \in q.missing : i.highlight = q.highlight

(* What a writer knows of a highlight that nothing has disturbed. *)
SoleWriter(r, h) ==
  /\ Writers(h) = {r}
  /\ HighlightExists(h)
  /\ IF At(r, "insertItems") THEN ItemsOf(h) = {} ELSE Whole(h)
  /\ At(r, "selectHighlight") => req[r].copy = ItemsOf(h)
  /\ At(r, "saveHighlight") =>
       req[r].missing = {} /\ req[r].orphans = {} /\ ~req[r].insert

HighlightAgrees(h) ==
  h \notin disturbed =>
    /\ \A r \in Writers(h) : SoleWriter(r, h)
    /\ Writers(h) = {} /\ HighlightExists(h) => Whole(h)

HighlightsCoherent ==
  /\ \A x \in highlights : ~Fresh(x.id)
  /\ \A i \in items : ~Fresh(i.highlight)
  /\ \A r \in Request : req[r].pc = "insertHighlight" => req[r].media # {}
  /\ \A r \in Request : req[r].pc \in Writing => WriterAgrees(r)
  /\ \A h \in Request : HighlightAgrees(h)

-----------------------------------------------------------------------------
(* Bookmarks: a toggle without a rival is the only one to write its bookmark. *)

ToggleAgrees(r) ==
  LET q == req[r]
  IN  /\ answered[<<q.user, q.post>>] = "unknown" \/ q.post \notin posts
      /\ q.pc = "removeBookmark" =>
           /\ q.row \in Bookmark /\ q.row.user = q.user /\ q.row.post = q.post
           /\ q.rival \/ BookmarksOf(q.user, q.post) \subseteq {q.row}
      /\ \A s \in Toggling(q.user, q.post) : s = r \/ q.rival

BookmarksCoherent ==
  /\ \A b, c \in bookmarks : b.user = c.user /\ b.post = c.post => b = c
  /\ \A b \in bookmarks : b.post \in posts
  /\ \A u \in User, p \in Post : p \notin posts => answered[<<u, p>>] = "off"
  /\ \A r \in Request : req[r].op = "toggle" => ToggleAgrees(r)
  /\ BookmarksAsAnswered

-----------------------------------------------------------------------------
(* Collections: the row of a call about to write a name is the only one that may
   have it, unless the name is contested. *)

NamerAgrees(r) ==
  LET row == req[r].row
  IN  /\ IF At(r, "insertCollection") THEN row.id = r ELSE ~Fresh(row.id)
      /\ <<row.user, row.name>> \in contested
         \/ /\ Namers(row.user, row.name) = {r}
            /\ At(r, "findClash") \/ \A c \in Named(row.user, row.name) : c.id = row.id

CollectionsCoherent ==
  /\ \A c \in collections : ~Fresh(c.id)
  /\ \A c, d \in collections : c.id = d.id => c = d
  /\ \A r \in Request : req[r].op = "name" => NamerAgrees(r)
  /\ OneNamePerUser

-----------------------------------------------------------------------------
(* The inductive invariant *)
Coherent == AccountsCoherent /\ HighlightsCoherent /\ BookmarksCoherent /\ CollectionsCoherent

Inv == ProfileTypeOK /\ Coherent

-----------------------------------------------------------------------------
(* Handlers *)

(* What a handler has in memory at each of its statements. *)
LEMMA Shapes ==
  ASSUME NEW q \in Memory
  PROVE  /\ q.pc = "insertUser" =>
              q \in [op : {"register"}, pc : {"insertUser"}, username : Name, email : Name]
         /\ q.pc = "storeToken" =>
              q \in [op : {"signIn"}, pc : {"storeToken"}, account : Request]
         /\ q.pc = "insertHighlight" =>
              q \in [op : {"create"}, pc : {"insertHighlight"}, user : User,
                          media : SUBSET Medium]
         /\ q.pc = "findItems" =>
              q \in [op : {"update"}, pc : {"findItems"}, user : User,
                          highlight : Request, media : (SUBSET Medium) \cup {None}]
         /\ q.pc = "selectHighlight" =>
              q \in [op : {"update"}, pc : {"selectHighlight"}, user : User,
                          highlight : Request, media : (SUBSET Medium) \cup {None},
                          copy : SUBSET Item]
         /\ q.pc = "saveHighlight" =>
              q \in [op : {"update"}, pc : {"saveHighlight"}, user : User,
                          highlight : Request, media : (SUBSET Medium) \cup {None},
                          missing : SUBSET Item, orphans : SUBSET Item, insert : BOOLEAN]
         /\ q.pc \in {"deleteItems", "insertItems"} =>
              q \in [op : {"create", "update"}, pc : {"deleteItems", "insertItems"},
                          highlight : Request, media : SUBSET Medium]
         /\ q.pc = "removeHighlight" =>
              q \in [op : {"delete"}, pc : {"removeHighlight"}, highlight : Request]
         /\ q.pc \in TogglePC =>
              q \in [op : {"toggle"}, pc : TogglePC, user : User, post : Post,
                          row : Bookmark \cup {None}, rival : BOOLEAN]
         /\ q.pc \in NamePC => q \in [op : {"name"}, pc : NamePC, row : Collection]
         /\ q.pc = "removeCollection" =>
              q \in [op : {"drop"}, pc : {"removeCollection"}, row : Collection]
         /\ q.pc \in {"findPost", "findItem", "insertItem"} =>
              q \in [op : {"add"}, pc : {"findPost", "findItem", "insertItem"},
                          row : Collection, post : Post]
         /\ q.pc = "deleteItem" =>
              q \in [op : {"remove"}, pc : {"deleteItem"}, row : Collection, post : Post]
         /\ q.pc \in {"idle", "over"} \cup AccountPC \cup HighlightPC \cup LibraryPC
         /\ q.op = "toggle" <=> q.pc \in TogglePC
         /\ q.op = "name" <=> q.pc \in NamePC
<1>2. CASE q \in {Idle, Over}
  BY <1>2 DEF Idle, Over, TogglePC, NamePC
<1>3. CASE q \in AccountMemory
  BY <1>3 DEF AccountMemory, AccountPC, TogglePC, NamePC
<1>4. CASE q \in HighlightMemory
  BY <1>4 DEF HighlightMemory, HighlightPC, Writing, TogglePC, NamePC
<1>5. CASE q \in LibraryMemory
  BY <1>5 DEF LibraryMemory, LibraryPC, TogglePC, NamePC
<1>6. QED
  BY <1>2, <1>3, <1>4, <1>5 DEF Memory

-----------------------------------------------------------------------------
(* What a statement does to the requests *)

Only(r) == \A x \in Request : x # r => req'[x] = req[x]

LEMMA Sets ==
  ASSUME ProfileTypeOK, NEW r \in Request, NEW q, req' = [req EXCEPT ![r] = q]
  PROVE  Only(r) /\ req'[r] = q /\ (q \in Memory => req' \in [Request -> Memory])
BY DEF ProfileTypeOK, Only

LEMMA BeginSets ==
  ASSUME ProfileTypeOK, NEW r \in Request, NEW q, Begin(r, q)
  PROVE  /\ req[r].pc = "idle" /\ Only(r) /\ req'[r] = q
         /\ q \in Memory => req' \in [Request -> Memory]
BY Sets DEF Begin, At

LEMMA GoToSets ==
  ASSUME ProfileTypeOK, NEW r \in Request, NEW pc, GoTo(r, pc)
  PROVE  /\ Only(r) /\ req'[r] = [req[r] EXCEPT !.pc = pc]
         /\ [req[r] EXCEPT !.pc = pc] \in Memory => req' \in [Request -> Memory]
<1>1. req' = [req EXCEPT ![r] = [req[r] EXCEPT !.pc = pc]]
  BY DEF ProfileTypeOK, GoTo
<1>2. QED
  BY <1>1, Sets

LEMMA AnswerSets ==
  ASSUME ProfileTypeOK, NEW r \in Request, Answer(r)
  PROVE  Only(r) /\ req'[r] = Over /\ req' \in [Request -> Memory]
BY Sets DEF Answer, Memory

(* The requests that change are at statements PC of one component. *)
Within(PC) ==
  \A x \in Request :
    \/ req'[x] = req[x]
    \/ /\ req[x].pc \in {"idle"} \cup PC
       /\ req'[x].pc \in {"over"} \cup PC
       /\ req'[x].pc \in {"insertUser", "insertHighlight", "insertCollection"}
            => req[x].pc = "idle"

(* A step of one request. *)
LEMMA OneWithin ==
  ASSUME NEW PC, NEW r \in Request, Only(r), req[r].pc \in {"idle"} \cup PC,
         req'[r].pc \in {"over"} \cup PC,
         req'[r].pc \in {"insertUser", "insertHighlight", "insertCollection"}
           => req[r].pc = "idle"
  PROVE  Within(PC)
BY DEF Only, Within

(* Fresh no more, after the step. *)
Inserted(w) ==
  req'[w].pc \notin {"idle", "insertUser", "insertHighlight", "insertCollection"}

LEMMA InsertedStays ==
  ASSUME NEW PC, "idle" \notin PC, Within(PC)
  PROVE  \A w \in Request : ~Fresh(w) => Inserted(w)
BY DEF Within, Fresh, Inserted

(* A request that has inserted a row never goes back. *)
LEMMA NotFreshStays ==
  ASSUME NEW PC, "idle" \notin PC, Within(PC), NEW r \in Request, ~Fresh(r)
  PROVE  ~Fresh(r)'
BY DEF Within, Fresh

-----------------------------------------------------------------------------
(* Accounts *)

LEMMA AccountsMove ==
  ASSUME ProfileTypeOK, AccountsNext, Coherent
  PROVE  Within(AccountPC) /\ req' \in [Request -> Memory] /\ AccountsTypeOK'
<1> USE DEF AccountPC
<1>a. Over \in Memory /\ Over.pc = "over" /\ AccountsTypeOK
  BY DEF Over, Memory, ProfileTypeOK
<1>b. ASSUME NEW u \in Request
      PROVE  Payload(u) \in Memory /\ Payload(u).pc = "storeToken"
  BY DEF Payload, Memory, AccountMemory
<1>c. ASSUME NEW u, NEW set \in BOOLEAN, SetToken(u, set)
      PROVE  users' \subseteq Account
  <2> DEFINE stored(x) == IF x.id = u THEN [x EXCEPT !.refreshToken = set] ELSE x
  <2>1. users' = {stored(x) : x \in users}
    BY <1>c, Zenon DEF SetToken
  <2>2. \A x \in users : stored(x) \in Account
    BY <1>a DEF AccountsTypeOK, Account
  <2> HIDE DEF stored
  <2>3. QED
    BY <2>1, <2>2
<1>1. ASSUME NEW r \in Request, NEW q \in Memory, Begin(r, q), q.pc \in {"over"} \cup AccountPC
      PROVE  Within(AccountPC) /\ req' \in [Request -> Memory]
  BY <1>1, BeginSets, OneWithin
<1>2. ASSUME NEW r \in Request, NEW username \in Name, NEW email \in Name, NEW low,
             Register(r, username, email, low)
      PROVE  Within(AccountPC) /\ req' \in [Request -> Memory] /\ AccountsTypeOK'
  <2> DEFINE q == [op |-> "register", pc |-> "insertUser", username |-> username, email |-> email]
  <2>1. q \in Memory /\ q.pc = "insertUser"
    BY DEF Memory, AccountMemory
  <2>2. Begin(r, Over) \/ Begin(r, q)
    BY <1>2 DEF Register
  <2> HIDE DEF q
  <2>3. Within(AccountPC) /\ req' \in [Request -> Memory]
    BY <1>1, <1>a, <2>1, <2>2
  <2>4. QED
    BY <1>2, <1>a, <2>3 DEF Register, accountVars, AccountsTypeOK
<1>3. ASSUME NEW r \in Request, NEW u \in Request, Login(r, u) \/ Refresh(r, u)
      PROVE  Within(AccountPC) /\ req' \in [Request -> Memory] /\ AccountsTypeOK'
  <2>1. Begin(r, Over) \/ Begin(r, Payload(u))
    BY <1>3 DEF Login, Refresh
  <2>2. Within(AccountPC) /\ req' \in [Request -> Memory]
    BY <1>1, <1>a, <1>b, <2>1
  <2>3. QED
    BY <1>3, <1>a, <2>2 DEF Login, Refresh, accountVars, AccountsTypeOK
<1>4. ASSUME NEW r \in Request, Answer(r), req[r].pc \in AccountPC
      PROVE  Within(AccountPC) /\ req' \in [Request -> Memory]
  BY <1>4, <1>a, AnswerSets, OneWithin
<1>5. ASSUME NEW r \in Request, InsertUser(r)
      PROVE  Within(AccountPC) /\ req' \in [Request -> Memory] /\ AccountsTypeOK'
  <2>1. req[r].pc = "insertUser" /\ req[r].username \in Name /\ req[r].email \in Name
    BY <1>5, Shapes DEF ProfileTypeOK, InsertUser, At
  <2>2. CASE Answer(r) /\ UNCHANGED users
    BY <1>4, <1>5, <1>a, <2>1, <2>2 DEF InsertUser, AccountsTypeOK
  <2>3. CASE /\ users' = users \cup {[id |-> r, username |-> req[r].username,
                                      email |-> req[r].email, refreshToken |-> FALSE]}
             /\ req' = [req EXCEPT ![r] = Payload(r)]
    <3>1. Within(AccountPC) /\ req' \in [Request -> Memory]
      <4>1. Only(r) /\ req'[r] = Payload(r)
        BY <2>3, Sets
      <4>2. QED
        BY <1>b, <2>1, <2>3, <4>1, Sets, OneWithin
    <3>2. users' \subseteq Account
      <4>1. [id |-> r, username |-> req[r].username, email |-> req[r].email,
             refreshToken |-> FALSE] \in Account
        BY <2>1 DEF Account
      <4>2. QED
        BY <1>a, <2>3, <4>1 DEF AccountsTypeOK
    <3>3. QED
      BY <1>5, <1>a, <3>1, <3>2 DEF InsertUser, AccountsTypeOK
  <2>4. QED
    BY <1>5, <2>2, <2>3 DEF InsertUser
<1>6. ASSUME NEW r \in Request, StoreToken(r)
      PROVE  Within(AccountPC) /\ req' \in [Request -> Memory] /\ AccountsTypeOK'
  <2>1. req[r].pc = "storeToken" /\ req[r].account \in Request
    BY <1>6, Shapes DEF ProfileTypeOK, StoreToken, At
  <2>2. QED
    BY <1>4, <1>6, <1>a, <1>c, <2>1 DEF StoreToken, AccountsTypeOK
<1>7. ASSUME NEW r \in Request, AbortAccount(r)
      PROVE  Within(AccountPC) /\ req' \in [Request -> Memory] /\ AccountsTypeOK'
  <2>1. req[r].pc \in AccountPC
    <3>1. req[r] \in Memory /\ req[r].op \in {"register", "signIn"}
      BY <1>7 DEF ProfileTypeOK, AbortAccount
    <3>2. QED
      BY <3>1 DEF Memory, Idle, Over, AccountMemory, HighlightMemory, LibraryMemory
  <2>2. QED
    BY <1>4, <1>7, <1>a, <2>1 DEF AbortAccount, Abort, accountVars, AccountsTypeOK
<1>8. ASSUME NEW u \in Request, Logout(u)
      PROVE  Within(AccountPC) /\ req' \in [Request -> Memory] /\ AccountsTypeOK'
  BY <1>8, <1>a, <1>c DEF Logout, Within, AccountsTypeOK, ProfileTypeOK
<1>9. QED
  BY <1>2, <1>3, <1>5, <1>6, <1>7, <1>8 DEF AccountsNext

-----------------------------------------------------------------------------
(* Highlights: types *)

LEMMA HighlightsMove ==
  ASSUME ProfileTypeOK, HighlightsNext, Coherent
  PROVE  Within(HighlightPC) /\ req' \in [Request -> Memory] /\ HighlightsTypeOK'
<1> USE DEF HighlightPC, Writing
<1> DEFINE Goal == Within(HighlightPC) /\ req' \in [Request -> Memory]
<1>a. Over \in Memory /\ Over.pc = "over" /\ HighlightsTypeOK
  BY DEF Over, Memory, ProfileTypeOK
<1>1. ASSUME NEW r \in Request, NEW q \in HighlightMemory, Begin(r, q)
      PROVE  Goal
  <2>1. q \in Memory /\ q.pc \in HighlightPC
    BY DEF HighlightMemory, Memory
  <2>2. QED
    BY <1>1, <2>1, BeginSets, OneWithin
<1>2. ASSUME NEW r \in Request, Begin(r, Over)
      PROVE  Goal
  BY <1>2, <1>a, BeginSets, OneWithin
<1>3. ASSUME NEW r \in Request, Answer(r), req[r].pc \in HighlightPC
      PROVE  Goal
  BY <1>3, <1>a, AnswerSets, OneWithin
<1>4. ASSUME NEW r \in Request, NEW q \in HighlightMemory, req' = [req EXCEPT ![r] = q],
             req[r].pc \in HighlightPC, q.pc # "insertHighlight"
      PROVE  Goal
  <2>1. q \in Memory /\ q.pc \in Writing
    BY <1>4 DEF HighlightMemory, Memory
  <2>2. QED
    BY <1>4, <2>1, Sets, OneWithin
<1> HIDE DEF Goal
<1>5. ASSUME NEW r \in Request, NEW u \in User, NEW media \in SUBSET Medium, Create(r, u, media)
      PROVE  Goal /\ HighlightsTypeOK'
  <2> DEFINE q == [op |-> "create", pc |-> "insertHighlight", user |-> u, media |-> media]
  <2>1. q \in HighlightMemory
    BY DEF HighlightMemory
  <2>2. Begin(r, Over) \/ Begin(r, q)
    BY <1>5 DEF Create
  <2> HIDE DEF q
  <2>3. Goal
    BY <1>1, <1>2, <2>1, <2>2
  <2>4. QED
    BY <1>5, <1>a, <2>3 DEF Create, highlightVars, HighlightsTypeOK
<1>6. ASSUME NEW r \in Request, NEW u \in User, NEW named \in SUBSET Story, NEW twice,
             CreateFromStories(r, u, named, twice)
      PROVE  Goal /\ HighlightsTypeOK'
  <2> DEFINE q == [op |-> "create", pc |-> "insertHighlight", user |-> u, media |-> named]
  <2>1. q \in HighlightMemory
    BY StoryAssumption DEF HighlightMemory
  <2>2. Begin(r, Over) \/ Begin(r, q)
    BY <1>6 DEF CreateFromStories
  <2> HIDE DEF q
  <2>3. Goal
    BY <1>1, <1>2, <2>1, <2>2
  <2>4. QED
    BY <1>6, <1>a, <2>3 DEF CreateFromStories, highlightVars, HighlightsTypeOK
<1>7. ASSUME NEW r \in Request, InsertHighlight(r)
      PROVE  Goal /\ HighlightsTypeOK'
  <2>1. req[r].pc = "insertHighlight" /\ req[r].user \in User /\ req[r].media \in SUBSET Medium
    BY <1>7, Shapes DEF ProfileTypeOK, InsertHighlight, At
  <2>2. [op |-> "create", pc |-> "insertItems", highlight |-> r, media |-> req[r].media]
          \in HighlightMemory
    BY <2>1 DEF HighlightMemory
  <2>3. Goal
    BY <1>4, <1>7, <2>1, <2>2 DEF InsertHighlight
  <2>4. [id |-> r, user |-> req[r].user] \in Highlight
    BY <2>1 DEF Highlight
  <2>5. QED
    BY <1>7, <1>a, <2>3, <2>4 DEF InsertHighlight, HighlightsTypeOK
<1>8. ASSUME NEW r \in Request, InsertItems(r)
      PROVE  Goal /\ HighlightsTypeOK'
  <2>1. /\ req[r].pc = "insertItems" /\ req[r].highlight \in Request
        /\ req[r].media \in SUBSET Medium
    BY <1>8, Shapes DEF ProfileTypeOK, InsertItems, At
  <2>2. Goal
    BY <1>3, <1>8, <2>1 DEF InsertItems
  <2>3. {[highlight |-> req[r].highlight, by |-> r, media |-> n] : n \in req[r].media}
          \subseteq Item
    BY <2>1 DEF Item
  <2>4. QED
    BY <1>8, <1>a, <2>2, <2>3 DEF InsertItems, HighlightsTypeOK
<1>9. ASSUME NEW r \in Request, NEW u \in User, NEW h \in Request,
             NEW media \in (SUBSET Medium) \cup {None}, Update(r, u, h, media)
      PROVE  Goal /\ HighlightsTypeOK'
  <2> DEFINE q == [op |-> "update", pc |-> "findItems", user |-> u, highlight |-> h,
                   media |-> media]
  <2>1. q \in HighlightMemory
    BY DEF HighlightMemory
  <2>2. Begin(r, Over) \/ Begin(r, q)
    BY <1>9 DEF Update
  <2> HIDE DEF q
  <2>3. Goal
    BY <1>1, <1>2, <2>1, <2>2
  <2>4. QED
    BY <1>9, <1>a, <2>3 DEF Update, Disturb, HighlightsTypeOK
<1>10. ASSUME NEW r \in Request, FindItems(r)
       PROVE  Goal /\ HighlightsTypeOK'
  <2> DEFINE q == [op |-> "update", pc |-> "selectHighlight", user |-> req[r].user,
                   highlight |-> req[r].highlight, media |-> req[r].media,
                   copy |-> ItemsOf(req[r].highlight)]
  <2>1. /\ req[r].pc = "findItems" /\ req[r].user \in User /\ req[r].highlight \in Request
        /\ req[r].media \in (SUBSET Medium) \cup {None}
    BY <1>10, Shapes DEF ProfileTypeOK, FindItems, At
  <2>2. ItemsOf(req[r].highlight) \in SUBSET Item
    BY <1>a DEF ItemsOf, HighlightsTypeOK
  <2>3. q \in HighlightMemory /\ q.pc = "selectHighlight"
    BY <2>1, <2>2 DEF HighlightMemory
  <2>4. req' = [req EXCEPT ![r] = q]
    BY <1>10 DEF FindItems
  <2> HIDE DEF q
  <2>5. Goal
    BY <1>4, <2>1, <2>3, <2>4
  <2>6. QED
    BY <1>10, <1>a, <2>5 DEF FindItems, highlightVars, HighlightsTypeOK
<1>11. ASSUME NEW r \in Request, SelectHighlight(r)
       PROVE  Goal /\ HighlightsTypeOK'
  <2> DEFINE missing == req[r].copy \ ItemsOf(req[r].highlight)
             orphans == ItemsOf(req[r].highlight) \ req[r].copy
             insert  == ~HighlightExists(req[r].highlight)
             q == [op |-> "update", pc |-> "saveHighlight", user |-> req[r].user,
                   highlight |-> req[r].highlight, media |-> req[r].media,
                   missing |-> missing, orphans |-> orphans, insert |-> insert]
  <2>1. /\ req[r].pc = "selectHighlight" /\ req[r].user \in User /\ req[r].highlight \in Request
        /\ req[r].media \in (SUBSET Medium) \cup {None} /\ req[r].copy \in SUBSET Item
    BY <1>11, Shapes DEF ProfileTypeOK, SelectHighlight, At
  <2>2. missing \in SUBSET Item /\ orphans \in SUBSET Item /\ insert \in BOOLEAN
    BY <1>a, <2>1 DEF ItemsOf, HighlightsTypeOK
  <2>3. req' = [req EXCEPT ![r] = q]
    BY <1>11 DEF SelectHighlight
  <2> HIDE DEF missing, orphans, insert
  <2>4. q \in HighlightMemory /\ q.pc = "saveHighlight"
    BY <2>1, <2>2 DEF HighlightMemory
  <2> HIDE DEF q
  <2>5. Goal
    BY <1>4, <2>1, <2>3, <2>4
  <2>6. QED
    BY <1>11, <1>a, <2>5 DEF SelectHighlight, highlightVars, HighlightsTypeOK
<1>12. ASSUME NEW r \in Request, SaveHighlight(r)
       PROVE  Goal /\ HighlightsTypeOK'
  <2>1. /\ req[r].pc = "saveHighlight" /\ req[r].user \in User /\ req[r].highlight \in Request
        /\ req[r].media \in (SUBSET Medium) \cup {None} /\ req[r].missing \in SUBSET Item
    BY <1>12, Shapes DEF ProfileTypeOK, SaveHighlight, At
  <2>2. CASE Answer(r) /\ UNCHANGED <<highlights, items>>
    BY <1>3, <1>12, <1>a, <2>1, <2>2 DEF SaveHighlight, HighlightsTypeOK
  <2>3. CASE /\ req' = [req EXCEPT ![r] = AfterSave(r)]
             /\ items' = items \cup req[r].missing
             /\ highlights' = IF req[r].insert
                              THEN highlights \cup {[id |-> req[r].highlight,
                                                     user |-> req[r].user]}
                              ELSE highlights
    <3>1. ASSUME AfterSave(r) = Over
          PROVE  Goal
      BY <1>3, <2>1, <2>3, <3>1 DEF Answer
    <3>2. ASSUME req[r].media \notin {None, {}}
          PROVE  Goal
      <4>1. AfterSave(r) \in HighlightMemory /\ AfterSave(r).pc = "deleteItems"
        BY <2>1, <3>2 DEF AfterSave, HighlightMemory
      <4>2. QED
        BY <1>4, <2>1, <2>3, <4>1
    <3>3. Goal
      BY <3>1, <3>2 DEF AfterSave
    <3>4. [id |-> req[r].highlight, user |-> req[r].user] \in Highlight
      BY <2>1 DEF Highlight
    <3>5. QED
      BY <1>12, <1>a, <2>1, <2>3, <3>3, <3>4 DEF SaveHighlight, HighlightsTypeOK
  <2>4. QED
    BY <1>12, <2>2, <2>3 DEF SaveHighlight
<1>13. ASSUME NEW r \in Request, DeleteItems(r)
       PROVE  Goal /\ HighlightsTypeOK'
  <2> DEFINE q == [req[r] EXCEPT !.pc = "insertItems"]
  <2>1. req[r].pc = "deleteItems" /\ req[r] \in HighlightMemory
    <3>1. req[r].pc = "deleteItems" /\ req[r] \in Memory
      BY <1>13 DEF DeleteItems, At, ProfileTypeOK
    <3>2. QED
      BY <3>1 DEF Memory, Idle, Over, AccountMemory, LibraryMemory
  <2>2. q \in HighlightMemory /\ q.pc = "insertItems"
    BY <2>1 DEF HighlightMemory
  <2>3. req' = [req EXCEPT ![r] = q]
    BY <1>13 DEF DeleteItems, GoTo, ProfileTypeOK
  <2> HIDE DEF q
  <2>4. Goal
    BY <1>4, <2>1, <2>2, <2>3
  <2>5. QED
    BY <1>13, <1>a, <2>4 DEF DeleteItems, HighlightsTypeOK
<1>14. ASSUME NEW r \in Request, NEW u \in User, NEW h \in Request, Delete(r, u, h)
       PROVE  Goal /\ HighlightsTypeOK'
  <2> DEFINE q == [op |-> "delete", pc |-> "removeHighlight", highlight |-> h]
  <2>1. q \in HighlightMemory
    BY DEF HighlightMemory
  <2>2. Begin(r, Over) \/ Begin(r, q)
    BY <1>14 DEF Delete
  <2> HIDE DEF q
  <2>3. Goal
    BY <1>1, <1>2, <2>1, <2>2
  <2>4. QED
    BY <1>14, <1>a, <2>3 DEF Delete, Disturb, HighlightsTypeOK
<1>15. ASSUME NEW r \in Request, RemoveHighlight(r)
       PROVE  Goal /\ HighlightsTypeOK'
  BY <1>3, <1>15, <1>a DEF RemoveHighlight, At, HighlightsTypeOK
<1>16. ASSUME NEW r \in Request, AbortHighlight(r)
       PROVE  Goal /\ HighlightsTypeOK'
  <2>1. req[r].pc \in HighlightPC /\ Answer(r)
    BY <1>16 DEF AbortHighlight, Abort
  <2>2. At(r, "insertItems") => req[r].highlight \in Request
    BY Shapes DEF ProfileTypeOK, At
  <2>3. QED
    BY <1>3, <1>16, <1>a, <2>1, <2>2 DEF AbortHighlight, HighlightsTypeOK
<1>17. ASSUME NEW u \in User, NEW s \in Story, PublishStory(u, s) \/ DropStory(u, s)
       PROVE  Goal /\ HighlightsTypeOK'
  BY <1>17, <1>a DEF PublishStory, DropStory, Within, ProfileTypeOK, HighlightsTypeOK, Goal
<1>18. QED
  BY <1>5, <1>6, <1>7, <1>8, <1>9, <1>10, <1>11, <1>12, <1>13, <1>14, <1>15, <1>16, <1>17
     DEF HighlightsNext, Goal

-----------------------------------------------------------------------------
(* Library: types *)

BookmarkStep ==
  \/ \E r \in Request :
       \/ \E u \in User, p \in Post : ToggleBookmark(r, u, p)
       \/ FindBookmark(r) \/ RemoveBookmark(r) \/ InsertBookmark(r)
       \/ AbortLibrary(r) /\ req[r].pc \in TogglePC
  \/ \E p \in Post : DropPost(p)

CollectionPC == LibraryPC \ TogglePC

CollectionStep ==
  \E r \in Request :
    \/ \E u \in User, name \in Title : CreateCollection(r, u, name)
    \/ \E c \in collections :
         \/ \E name \in Title : UpdateCollection(r, c, name)
         \/ DeleteCollection(r, c)
         \/ \E p \in Post : AddItem(r, c, p) \/ RemoveItem(r, c, p)
    \/ InsertCollection(r) \/ FindClash(r) \/ SelectCollection(r) \/ UpdateRow(r)
    \/ ReinsertCollection(r) \/ RemoveCollection(r)
    \/ FindPost(r) \/ FindItem(r) \/ InsertItem(r) \/ DeleteItem(r)
    \/ AbortLibrary(r) /\ req[r].pc \in CollectionPC

LEMMA LibrarySteps ==
  ASSUME ProfileTypeOK, LibraryNext
  PROVE  BookmarkStep \/ CollectionStep
<1>1. ASSUME NEW r \in Request, AbortLibrary(r)
      PROVE  req[r].pc \in TogglePC \cup CollectionPC
  <2>1. req[r] \in Memory /\ req[r].op \in {"toggle", "name", "drop", "add", "remove"}
    BY <1>1 DEF ProfileTypeOK, AbortLibrary
  <2>2. QED
    BY <2>1 DEF Memory, Idle, Over, AccountMemory, HighlightMemory, LibraryMemory, LibraryPC,
               CollectionPC, TogglePC, NamePC
<1>2. QED
  BY <1>1 DEF LibraryNext, BookmarkStep, CollectionStep

LEMMA BookmarksMove ==
  ASSUME ProfileTypeOK, BookmarkStep
  PROVE  /\ Within(TogglePC) /\ req' \in [Request -> Memory] /\ LibraryTypeOK'
         /\ UNCHANGED <<collections, contested>>
<1> USE DEF TogglePC
<1> DEFINE Goal == Within(TogglePC) /\ req' \in [Request -> Memory]
           Toggle == [op : {"toggle"}, pc : TogglePC, user : User, post : Post,
                      row : Bookmark \cup {None}, rival : BOOLEAN]
<1>a. Over \in Memory /\ Over.pc = "over" /\ LibraryTypeOK
  BY DEF Over, Memory, ProfileTypeOK
<1>b. Toggle \subseteq Memory /\ \A q \in Toggle : q.pc \in TogglePC
  BY DEF Memory, LibraryMemory
<1>1. ASSUME NEW r \in Request, Answer(r), req[r].pc \in TogglePC
      PROVE  Goal
  BY <1>1, <1>a, AnswerSets, OneWithin
<1>2. ASSUME NEW r \in Request, NEW q \in Toggle, req' = [req EXCEPT ![r] = q],
             req[r].pc \in TogglePC
      PROVE  Goal
  BY <1>2, <1>b, Sets, OneWithin
<1>3. ASSUME NEW r \in Request, NEW u \in User, NEW p \in Post, ToggleBookmark(r, u, p)
      PROVE  Goal /\ LibraryTypeOK' /\ UNCHANGED <<collections, contested>>
  <2> DEFINE q == [op |-> "toggle", pc |-> "findBookmark", user |-> u, post |-> p,
                   row |-> None, rival |-> Toggling(u, p) # {}]
  <2>1. q \in Toggle
    OBVIOUS
  <2> HIDE DEF q
  <2>2. req' = [x \in Request |-> IF x = r THEN q
                                  ELSE IF x \in Toggling(u, p) THEN [req[x] EXCEPT !.rival = TRUE]
                                  ELSE req[x]]
    BY <1>3 DEF ToggleBookmark, q
  <2>3. \A x \in Toggling(u, p) : req[x] \in Toggle
    <3>1. \A x \in Toggling(u, p) : x \in Request /\ req[x].op = "toggle"
      BY DEF Toggling, InFlight
    <3>2. QED
      BY <3>1, Shapes DEF ProfileTypeOK
  <2>4. \A x \in Toggling(u, p) : /\ [req[x] EXCEPT !.rival = TRUE] \in Toggle
                                  /\ [req[x] EXCEPT !.rival = TRUE].pc = req[x].pc
    BY <2>3
  <2> HIDE DEF Toggle
  <2>5. req' \in [Request -> Memory]
    BY <1>b, <2>1, <2>2, <2>4 DEF ProfileTypeOK
  <2>6. Within(TogglePC)
    <3>1. req[r].pc = "idle"
      BY <1>3 DEF ToggleBookmark, At
    <3>2. \A x \in Request :
            req'[x] = IF x = r THEN q
                      ELSE IF x \in Toggling(u, p) THEN [req[x] EXCEPT !.rival = TRUE]
                      ELSE req[x]
      BY <2>2
    <3>3. QED
      BY <1>b, <2>1, <2>3, <2>4, <3>1, <3>2 DEF Within
  <2>7. answered' \in [User \X Post -> {"on", "off", "unknown"}]
    BY <1>3, <1>a DEF ToggleBookmark, LibraryTypeOK
  <2>8. QED
    BY <1>3, <1>a, <2>5, <2>6, <2>7 DEF ToggleBookmark, LibraryTypeOK
<1>4. ASSUME NEW r \in Request, FindBookmark(r)
      PROVE  Goal /\ LibraryTypeOK' /\ UNCHANGED <<collections, contested>>
  <2>1. req[r] \in Toggle
    BY <1>4, Shapes DEF ProfileTypeOK, FindBookmark, At
  <2>2. CASE GoTo(r, "insertBookmark")
    <3>1. [req[r] EXCEPT !.pc = "insertBookmark"] \in Toggle
      BY <2>1
    <3>2. req' = [req EXCEPT ![r] = [req[r] EXCEPT !.pc = "insertBookmark"]]
      BY <2>2 DEF GoTo, ProfileTypeOK
    <3> HIDE DEF Goal
    <3>3. QED
      BY <1>2, <1>4, <1>a, <2>1, <3>1, <3>2 DEF FindBookmark, libraryVars, LibraryTypeOK
  <2>3. ASSUME NEW b \in BookmarksOf(req[r].user, req[r].post),
               req' = [req EXCEPT ![r].pc = "removeBookmark", ![r].row = b]
        PROVE  Goal /\ LibraryTypeOK' /\ UNCHANGED <<collections, contested>>
    <3>1. b \in Bookmark
      BY <1>a DEF BookmarksOf, LibraryTypeOK
    <3>2. [req[r] EXCEPT !.pc = "removeBookmark", !.row = b] \in Toggle
      BY <2>1, <3>1
    <3>3. req' = [req EXCEPT ![r] = [req[r] EXCEPT !.pc = "removeBookmark", !.row = b]]
      BY <2>3 DEF ProfileTypeOK
    <3> HIDE DEF Goal
    <3>4. QED
      BY <1>2, <1>4, <1>a, <2>1, <3>2, <3>3 DEF FindBookmark, libraryVars, LibraryTypeOK
  <2>4. QED
    BY <1>4, <2>2, <2>3 DEF FindBookmark
<1> HIDE DEF Goal
<1>5. ASSUME NEW r \in Request, NEW is \in {"on", "off"}, Say(r, is), req[r].pc \in TogglePC,
             bookmarks' \subseteq Bookmark
      PROVE  Goal /\ LibraryTypeOK' /\ UNCHANGED <<collections, contested>>
  <2>1. answered' \in [User \X Post -> {"on", "off", "unknown"}]
    <3>1. req[r].user \in User /\ req[r].post \in Post
      BY <1>5, Shapes DEF ProfileTypeOK
    <3>2. QED
      BY <1>5, <1>a, <3>1 DEF Say, LibraryTypeOK
  <2>2. QED
    BY <1>1, <1>5, <1>a, <2>1 DEF Say, LibraryTypeOK
<1>6. ASSUME NEW r \in Request, RemoveBookmark(r)
      PROVE  Goal /\ LibraryTypeOK' /\ UNCHANGED <<collections, contested>>
  BY <1>5, <1>6, <1>a DEF RemoveBookmark, At, LibraryTypeOK
<1>7. ASSUME NEW r \in Request, InsertBookmark(r)
      PROVE  Goal /\ LibraryTypeOK' /\ UNCHANGED <<collections, contested>>
  <2>1. req[r].pc = "insertBookmark" /\ req[r].user \in User /\ req[r].post \in Post
    BY <1>7, Shapes DEF ProfileTypeOK, InsertBookmark, At
  <2>2. [id |-> r, user |-> req[r].user, post |-> req[r].post] \in Bookmark
    BY <2>1 DEF Bookmark
  <2>3. CASE /\ bookmarks' = bookmarks \cup {[id |-> r, user |-> req[r].user,
                                              post |-> req[r].post]}
             /\ Say(r, "on")
    BY <1>5, <1>a, <2>1, <2>2, <2>3 DEF LibraryTypeOK
  <2>4. CASE Answer(r) /\ UNCHANGED libraryVars
    BY <1>1, <1>a, <2>1, <2>4 DEF libraryVars, LibraryTypeOK
  <2>5. QED
    BY <1>7, <2>3, <2>4 DEF InsertBookmark
<1>8. ASSUME NEW r \in Request, AbortLibrary(r), req[r].pc \in TogglePC
      PROVE  Goal /\ LibraryTypeOK' /\ UNCHANGED <<collections, contested>>
  BY <1>1, <1>8, <1>a DEF AbortLibrary, Abort, libraryVars, LibraryTypeOK
<1>9. ASSUME NEW p \in Post, DropPost(p)
      PROVE  Goal /\ LibraryTypeOK' /\ UNCHANGED <<collections, contested>>
  <2>1. answered' \in [User \X Post -> {"on", "off", "unknown"}]
    BY <1>9, <1>a DEF DropPost, LibraryTypeOK
  <2>2. QED
    BY <1>9, <1>a, <2>1 DEF DropPost, Within, ProfileTypeOK, LibraryTypeOK, Goal
<1>10. QED
  BY <1>3, <1>4, <1>6, <1>7, <1>8, <1>9 DEF BookmarkStep, Goal

LEMMA CollectionsMove ==
  ASSUME ProfileTypeOK, CollectionStep
  PROVE  /\ Within(CollectionPC) /\ req' \in [Request -> Memory] /\ LibraryTypeOK'
         /\ UNCHANGED <<posts, bookmarks, answered>>
         /\ \E r \in Request : Only(r)
<1> DEFINE Goal == Within(CollectionPC) /\ req' \in [Request -> Memory] /\ \E r \in Request : Only(r)
           Rest == UNCHANGED <<posts, bookmarks, answered>>
<1>a. Over \in Memory /\ Over.pc = "over" /\ LibraryTypeOK
  BY DEF Over, Memory, ProfileTypeOK
<1>b. \A q \in LibraryMemory : q \in Memory /\ q.pc \notin {"insertUser", "insertHighlight"}
  BY DEF Memory, LibraryMemory
<1>1. ASSUME NEW r \in Request, Answer(r), req[r].pc \in CollectionPC
      PROVE  Goal
  BY <1>1, <1>a, AnswerSets, OneWithin
<1>2. ASSUME NEW r \in Request, NEW q \in LibraryMemory, req' = [req EXCEPT ![r] = q],
             req[r].pc \in CollectionPC, q.pc \in CollectionPC, q.pc # "insertCollection"
      PROVE  Goal
  BY <1>2, <1>b, Sets, OneWithin
<1>3. ASSUME NEW r \in Request, NEW q \in LibraryMemory, Begin(r, q), q.pc \in CollectionPC
      PROVE  Goal
  BY <1>3, <1>b, BeginSets, OneWithin
<1>4. ASSUME NEW r \in Request, Begin(r, Over)
      PROVE  Goal
  BY <1>4, <1>a, BeginSets, OneWithin
<1>5. ASSUME NEW r \in Request, NEW pc, GoTo(r, pc), pc # "insertCollection",
             \/ req[r].pc \in NamePC /\ pc \in NamePC
             \/ req[r].pc = "findPost" /\ pc = "findItem"
             \/ req[r].pc = "findItem" /\ pc = "insertItem"
      PROVE  Goal
  <2> DEFINE q == [req[r] EXCEPT !.pc = pc]
  <2>1. q \in LibraryMemory /\ q.pc = pc
    <3>1. CASE req[r].pc \in NamePC /\ pc \in NamePC
      <4>1. req[r] \in [op : {"name"}, pc : NamePC, row : Collection]
        BY <3>1, Shapes DEF ProfileTypeOK
      <4>2. q \in [op : {"name"}, pc : NamePC, row : Collection] /\ q.pc = pc
        BY <3>1, <4>1
      <4>3. QED
        BY <4>2 DEF LibraryMemory, NamePC
    <3>2. CASE req[r].pc \in {"findPost", "findItem"} /\ pc \in {"findItem", "insertItem"}
      <4>1. req[r] \in [op : {"add"}, pc : {"findPost", "findItem", "insertItem"},
                        row : Collection, post : Post]
        BY <3>2, Shapes DEF ProfileTypeOK
      <4>2. /\ q.pc = pc
            /\ q \in [op : {"add"}, pc : {"findPost", "findItem", "insertItem"},
                      row : Collection, post : Post]
        BY <3>2, <4>1
      <4>3. QED
        BY <4>2 DEF LibraryMemory
    <3>3. QED
      BY <1>5, <3>1, <3>2
  <2>2. req' = [req EXCEPT ![r] = q]
    BY <1>5 DEF GoTo, ProfileTypeOK
  <2>3. req[r].pc \in CollectionPC /\ pc \in CollectionPC
    BY <1>5 DEF CollectionPC, LibraryPC, NamePC, TogglePC
  <2> HIDE DEF q, Goal
  <2>4. QED
    BY <1>2, <1>5, <2>1, <2>2, <2>3
<1> HIDE DEF Goal
<1>6. ASSUME NEW r \in Request, NEW row \in Collection,
             NEW pc \in NamePC, StartNaming(r, row, pc)
      PROVE  Goal /\ LibraryTypeOK' /\ Rest
  <2> DEFINE q == [op |-> "name", pc |-> pc, row |-> row]
  <2>1. q \in LibraryMemory /\ q.pc \in CollectionPC
    BY DEF LibraryMemory, NamePC, CollectionPC, LibraryPC, TogglePC
  <2>2. Begin(r, q)
    BY <1>6 DEF StartNaming
  <2> HIDE DEF q
  <2>3. Goal
    BY <1>3, <2>1, <2>2
  <2>4. contested' \subseteq User \X Title
    BY <1>6, <1>a DEF StartNaming, LibraryTypeOK, Collection
  <2>5. QED
    BY <1>6, <1>a, <2>3, <2>4 DEF StartNaming, LibraryTypeOK
<1>7. ASSUME NEW r \in Request, NEW u \in User, NEW name \in Title, CreateCollection(r, u, name)
      PROVE  Goal /\ LibraryTypeOK' /\ Rest
  <2>1. [id |-> r, user |-> u, name |-> name] \in Collection
    BY DEF Collection
  <2>2. CASE Begin(r, Over) /\ UNCHANGED libraryVars
    BY <1>4, <1>a, <2>2 DEF libraryVars, LibraryTypeOK
  <2>3. CASE StartNaming(r, [id |-> r, user |-> u, name |-> name], "insertCollection")
    BY <1>6, <2>1, <2>3 DEF NamePC
  <2>4. QED
    BY <1>7, <2>2, <2>3 DEF CreateCollection
<1>8. ASSUME NEW r \in Request, NEW c \in collections, NEW name \in Title,
             UpdateCollection(r, c, name)
      PROVE  Goal /\ LibraryTypeOK' /\ Rest
  <2>1. [c EXCEPT !.name = name] \in Collection
    BY <1>a DEF LibraryTypeOK, Collection
  <2>2. (IF c.name = name THEN "selectCollection" ELSE "findClash") \in NamePC
    BY DEF NamePC
  <2>3. QED
    BY <1>6, <1>8, <2>1, <2>2 DEF UpdateCollection
<1>9. ASSUME NEW r \in Request, NEW c \in collections, NEW q \in LibraryMemory,
             Begin(r, q), q.pc \in CollectionPC, UNCHANGED libraryVars
      PROVE  Goal /\ LibraryTypeOK' /\ Rest
  BY <1>3, <1>9, <1>a DEF libraryVars, LibraryTypeOK
<1>10. ASSUME NEW r \in Request, NEW c \in collections, DeleteCollection(r, c)
       PROVE  Goal /\ LibraryTypeOK' /\ Rest
  <2>1. [op |-> "drop", pc |-> "removeCollection", row |-> c] \in LibraryMemory
    BY <1>a DEF LibraryMemory, LibraryTypeOK
  <2>2. "removeCollection" \in CollectionPC
    BY DEF CollectionPC, LibraryPC, TogglePC
  <2>3. QED
    BY <1>9, <1>10, <2>1, <2>2 DEF DeleteCollection
<1>d. ASSUME NEW r \in Request, NEW c \in collections, NEW p \in Post,
             AddItem(r, c, p) \/ RemoveItem(r, c, p)
      PROVE  Goal /\ LibraryTypeOK' /\ Rest
  <2>1. /\ [op |-> "add", pc |-> "findPost", row |-> c, post |-> p] \in LibraryMemory
        /\ [op |-> "remove", pc |-> "deleteItem", row |-> c, post |-> p] \in LibraryMemory
    BY <1>a DEF LibraryMemory, LibraryTypeOK
  <2>2. {"findPost", "deleteItem"} \subseteq CollectionPC
    BY DEF CollectionPC, LibraryPC, TogglePC
  <2>3. QED
    BY <1>9, <1>d, <2>1, <2>2 DEF AddItem, RemoveItem
<1>c. /\ {"insertCollection", "updateCollection", "reinsertCollection", "removeCollection",
          "insertItem", "deleteItem", "findClash", "selectCollection", "findPost",
          "findItem"} \subseteq CollectionPC
      /\ {"insertCollection", "findClash", "selectCollection", "updateCollection",
          "reinsertCollection"} \subseteq NamePC
  BY DEF CollectionPC, LibraryPC, TogglePC, NamePC
<1>11. ASSUME NEW r \in Request, InsertCollection(r)
       PROVE  Goal /\ LibraryTypeOK' /\ Rest
  <2>1. req[r].pc = "insertCollection" /\ req[r].row \in Collection
    BY <1>11, <1>c, Shapes DEF ProfileTypeOK, InsertCollection, At
  <2>2. QED
    BY <1>1, <1>11, <1>a, <1>c, <2>1 DEF InsertCollection, LibraryTypeOK
<1>12. ASSUME NEW r \in Request, FindClash(r)
       PROVE  Goal /\ LibraryTypeOK' /\ Rest
  <2>1. req[r].pc = "findClash"
    BY <1>12 DEF FindClash, At
  <2>2. Goal
    BY <1>1, <1>5, <1>12, <1>c, <2>1 DEF FindClash
  <2>3. QED
    BY <1>12, <1>a, <2>2 DEF FindClash, libraryVars, LibraryTypeOK
<1>13. ASSUME NEW r \in Request, SelectCollection(r)
       PROVE  Goal /\ LibraryTypeOK' /\ Rest
  <2>1. req[r].pc = "selectCollection"
    BY <1>13 DEF SelectCollection, At
  <2>2. \/ Answer(r)
        \/ \E pc \in {"updateCollection", "reinsertCollection"} : GoTo(r, pc)
    BY <1>13 DEF SelectCollection
  <2>3. Goal
    BY <1>1, <1>5, <1>c, <2>1, <2>2
  <2>4. QED
    BY <1>13, <1>a, <2>3 DEF SelectCollection, libraryVars, LibraryTypeOK
<1>14. ASSUME NEW r \in Request, UpdateRow(r) \/ ReinsertCollection(r)
       PROVE  Goal /\ LibraryTypeOK' /\ Rest
  <2>1. req[r].pc \in {"updateCollection", "reinsertCollection"} /\ req[r].row \in Collection
    BY <1>14, <1>c, Shapes DEF ProfileTypeOK, UpdateRow, ReinsertCollection, At
  <2>2. Goal
    BY <1>1, <1>14, <1>c, <2>1 DEF UpdateRow, ReinsertCollection
  <2>3. collections' \subseteq Collection
    BY <1>14, <1>a, <2>1 DEF UpdateRow, ReinsertCollection, LibraryTypeOK
  <2>4. QED
    BY <1>14, <1>a, <2>2, <2>3 DEF UpdateRow, ReinsertCollection, LibraryTypeOK
<1>15. ASSUME NEW r \in Request, RemoveCollection(r) \/ DeleteItem(r)
       PROVE  Goal /\ LibraryTypeOK' /\ Rest
  <2>1. Goal
    BY <1>1, <1>15, <1>c DEF RemoveCollection, DeleteItem, At
  <2>2. QED
    BY <1>15, <1>a, <2>1 DEF RemoveCollection, DeleteItem, LibraryTypeOK
<1>16. ASSUME NEW r \in Request, FindPost(r) \/ FindItem(r)
       PROVE  Goal /\ LibraryTypeOK' /\ Rest
  <2>1. Goal
    BY <1>1, <1>5, <1>16, <1>c DEF FindPost, FindItem, At
  <2>2. QED
    BY <1>16, <1>a, <2>1 DEF FindPost, FindItem, libraryVars, LibraryTypeOK
<1>17. ASSUME NEW r \in Request, InsertItem(r)
       PROVE  Goal /\ LibraryTypeOK' /\ Rest
  <2>1. req[r].pc = "insertItem" /\ req[r].row \in Collection /\ req[r].post \in Post
    BY <1>17, Shapes DEF ProfileTypeOK, InsertItem, At
  <2>2. <<req[r].row.id, req[r].post>> \in Request \X Post
    BY <2>1 DEF Collection
  <2>3. saved' \subseteq Request \X Post
    BY <1>17, <1>a, <2>2 DEF InsertItem, LibraryTypeOK
  <2>4. QED
    BY <1>1, <1>17, <1>a, <1>c, <2>1, <2>3 DEF InsertItem, LibraryTypeOK
<1>18. ASSUME NEW r \in Request, AbortLibrary(r), req[r].pc \in CollectionPC
       PROVE  Goal /\ LibraryTypeOK' /\ Rest
  BY <1>1, <1>18, <1>a DEF AbortLibrary, Abort, libraryVars, LibraryTypeOK
<1>19. QED
  BY <1>7, <1>8, <1>d, <1>10, <1>11, <1>12, <1>13, <1>14, <1>15, <1>16, <1>17, <1>18
     DEF CollectionStep, Goal

(* Type correctness of a step. *)
LEMMA TypeStep == Inv /\ [Next]_vars => ProfileTypeOK'
<1> SUFFICES ASSUME Inv, [Next]_vars PROVE ProfileTypeOK'
  OBVIOUS
<1> USE DEF Inv, ProfileTypeOK
<1>1. CASE AccountsNext /\ UNCHANGED <<highlightVars, libraryVars>>
  BY <1>1, AccountsMove DEF highlightVars, libraryVars, HighlightsTypeOK, LibraryTypeOK
<1>2. CASE HighlightsNext /\ UNCHANGED <<accountVars, libraryVars>>
  BY <1>2, HighlightsMove DEF accountVars, libraryVars, AccountsTypeOK, LibraryTypeOK
<1>3. CASE LibraryNext /\ UNCHANGED <<accountVars, highlightVars>>
  BY <1>3, LibrarySteps, BookmarksMove, CollectionsMove
     DEF accountVars, highlightVars, AccountsTypeOK, HighlightsTypeOK
<1>4. CASE UNCHANGED vars
  BY <1>4 DEF vars, accountVars, highlightVars, libraryVars, AccountsTypeOK,
              HighlightsTypeOK, LibraryTypeOK
<1>5. QED
  BY <1>1, <1>2, <1>3, <1>4 DEF Next

-----------------------------------------------------------------------------
(* Accounts: the invariant *)

LEMMA AccountsFrame ==
  ASSUME Inv, NEW PC, Within(PC), PC \cap (AccountPC \cup {"idle"}) = {},
         UNCHANGED accountVars
  PROVE  AccountsCoherent'
<1>1. \A u \in Registered : u \in Request /\ ~Fresh(u)'
  BY NotFreshStays DEF Inv, Coherent, AccountsCoherent, Registered, ProfileTypeOK,
                       AccountsTypeOK, Account
<1>2. \A r \in Request : req'[r].pc = "storeToken" => req'[r] = req[r]
  BY DEF Within, AccountPC
<1>3. Registered' = Registered /\ loggedOut' = loggedOut
  BY DEF Registered, accountVars
<1>4. QED
  BY <1>1, <1>2, <1>3 DEF Inv, Coherent, AccountsCoherent, accountVars, LoggedOutStaysOut

(* Storing or clearing a token registers nobody. *)
LEMMA TokenRegisters ==
  ASSUME ProfileTypeOK, NEW u, NEW set \in BOOLEAN, SetToken(u, set)
  PROVE  /\ Registered' = Registered
         /\ \A y \in users' : \E x \in users :
              /\ y.id = x.id
              /\ y.refreshToken = IF x.id = u THEN set ELSE x.refreshToken
<1> DEFINE stored(x) == IF x.id = u THEN [x EXCEPT !.refreshToken = set] ELSE x
<1>1. users' = {stored(x) : x \in users}
  BY Zenon DEF SetToken
<1>2. \A x \in users :
        /\ stored(x).id = x.id
        /\ stored(x).refreshToken = IF x.id = u THEN set ELSE x.refreshToken
  BY DEF ProfileTypeOK, AccountsTypeOK, Account
<1> HIDE DEF stored
<1>3. QED
  BY <1>1, <1>2 DEF Registered

LEMMA AccountsCohere ==
  ASSUME Inv, AccountsNext
  PROVE  AccountsCoherent'
<1>a. ProfileTypeOK /\ Coherent /\ AccountsCoherent /\ Within(AccountPC)
  BY AccountsMove DEF Inv, Coherent
<1>b. \A u \in Registered : u \in Request /\ ~Fresh(u)'
  <2>1. Registered \subseteq Request
    BY <1>a DEF Registered, ProfileTypeOK, AccountsTypeOK, Account
  <2>2. QED
    BY <1>a, <2>1, NotFreshStays DEF AccountsCoherent, AccountPC
<1>c. \A x \in users : x.id \in Registered
  BY DEF Registered
<1>1. ASSUME NEW r \in Request, Answer(r), Registered' = Registered
      PROVE  \A x \in Request :
               req'[x].pc = "storeToken" => req[x].pc = "storeToken" /\ req'[x] = req[x]
  BY <1>1, <1>a, AnswerSets DEF Only, Over
<1>2. ASSUME NEW r \in Request, NEW u \in Registered \ loggedOut', Begin(r, Payload(u)),
             UNCHANGED <<users, issued>>, loggedOut' \subseteq loggedOut
      PROVE  AccountsCoherent'
  <2>1. Only(r) /\ req'[r] = Payload(u)
    BY <1>2, <1>a, BeginSets
  <2>2. \A x \in Request :
          req'[x].pc = "storeToken" => req'[x].account \in Registered \ loggedOut'
    BY <1>2, <1>a, <2>1 DEF Only, Payload, AccountsCoherent
  <2>3. Registered' = Registered
    BY <1>2 DEF Registered
  <2>4. QED
    BY <1>2, <1>a, <1>b, <2>2, <2>3 DEF AccountsCoherent, LoggedOutStaysOut
<1>3. ASSUME NEW r \in Request, NEW q, Begin(r, q), q.pc # "storeToken",
             UNCHANGED accountVars
      PROVE  AccountsCoherent'
  <2>1. Only(r) /\ req'[r] = q
    BY <1>3, <1>a, BeginSets
  <2>2. \A x \in Request :
          req'[x].pc = "storeToken" => req'[x].account \in Registered \ loggedOut
    BY <1>3, <1>a, <2>1 DEF Only, AccountsCoherent
  <2>3. Registered' = Registered
    BY <1>3 DEF Registered, accountVars
  <2>4. QED
    BY <1>3, <1>a, <1>b, <2>2, <2>3 DEF AccountsCoherent, LoggedOutStaysOut, accountVars
<1>4. ASSUME NEW r \in Request, NEW username \in Name, NEW email \in Name, NEW low,
             Register(r, username, email, low)
      PROVE  AccountsCoherent'
  <2> DEFINE q == [op |-> "register", pc |-> "insertUser", username |-> username, email |-> email]
  <2>1. Begin(r, Over) \/ Begin(r, q)
    BY <1>4 DEF Register
  <2>2. q.pc # "storeToken" /\ Over.pc # "storeToken"
    BY DEF Over
  <2> HIDE DEF q
  <2>3. QED
    BY <1>3, <1>4, <2>1, <2>2 DEF Register
<1>5. ASSUME NEW r \in Request, NEW u \in Request, Login(r, u)
      PROVE  AccountsCoherent'
  BY <1>2, <1>5, <1>c DEF Login, AccountOf
<1>6. ASSUME NEW r \in Request, NEW u \in Request, Refresh(r, u)
      PROVE  AccountsCoherent'
  <2>1. CASE Begin(r, Over)
    BY <1>3, <1>6, <2>1 DEF Refresh, Over
  <2>2. CASE Begin(r, Payload(u)) /\ \E x \in AccountOf(u) : x.refreshToken
    <3>1. u \in Registered \ loggedOut
      BY <1>a, <1>c, <2>2 DEF AccountOf, AccountsCoherent, LoggedOutStaysOut
    <3>2. QED
      BY <1>2, <1>6, <2>2, <3>1 DEF Refresh, accountVars
  <2>3. QED
    BY <1>6, <2>1, <2>2 DEF Refresh
<1>7. ASSUME NEW r \in Request, InsertUser(r)
      PROVE  AccountsCoherent'
  <2>1. req[r].pc = "insertUser" /\ r \notin Registered /\ UNCHANGED <<issued, loggedOut>>
    BY <1>7, <1>a DEF InsertUser, At, AccountsCoherent, Fresh
  <2>2. CASE Answer(r) /\ UNCHANGED users
    <3>1. Registered' = Registered
      BY <2>2 DEF Registered
    <3>2. QED
      BY <1>1, <1>a, <1>b, <2>1, <2>2, <3>1 DEF AccountsCoherent, LoggedOutStaysOut
  <2>3. CASE /\ users' = users \cup {[id |-> r, username |-> req[r].username,
                                      email |-> req[r].email, refreshToken |-> FALSE]}
             /\ req' = [req EXCEPT ![r] = Payload(r)]
    <3>1. Registered' = Registered \cup {r}
      <4> DEFINE new == [id |-> r, username |-> req[r].username, email |-> req[r].email,
                         refreshToken |-> FALSE]
      <4>1. users' = users \cup {new} /\ new.id = r
        BY <2>3
      <4> HIDE DEF new
      <4>2. QED
        BY <4>1 DEF Registered
    <3>2. Only(r) /\ req'[r] = Payload(r)
      BY <1>a, <2>3, Sets
    <3>3. r \notin loggedOut
      BY <1>a, <2>1 DEF AccountsCoherent
    <3>4. \A x \in Request :
            req'[x].pc = "storeToken" => req'[x].account \in Registered' \ loggedOut'
      BY <1>a, <2>1, <3>1, <3>2, <3>3 DEF Only, Payload, AccountsCoherent
    <3>5. ~Fresh(r)'
      BY <3>2 DEF Fresh, Payload
    <3>6. LoggedOutStaysOut'
      BY <1>a, <2>1, <2>3, <3>3 DEF AccountsCoherent, LoggedOutStaysOut
    <3>7. QED
      BY <1>a, <1>b, <2>1, <3>1, <3>4, <3>5, <3>6 DEF AccountsCoherent
  <2>4. QED
    BY <1>7, <2>2, <2>3 DEF InsertUser
<1>8. ASSUME NEW r \in Request, StoreToken(r)
      PROVE  AccountsCoherent'
  <2>1. req[r].account \in Registered \ loggedOut
    BY <1>8, <1>a DEF StoreToken, At, AccountsCoherent
  <2>2. /\ Registered' = Registered
        /\ \A y \in users' : \E x \in users :
             /\ y.id = x.id
             /\ y.refreshToken = IF x.id = req[r].account THEN TRUE ELSE x.refreshToken
    BY <1>8, <1>a, TokenRegisters DEF StoreToken
  <2>3. LoggedOutStaysOut'
    BY <1>8, <1>a, <2>1, <2>2 DEF StoreToken, AccountsCoherent, LoggedOutStaysOut
  <2>4. QED
    BY <1>1, <1>8, <1>a, <1>b, <2>1, <2>2, <2>3 DEF StoreToken, AccountsCoherent
<1>9. ASSUME NEW r \in Request, AbortAccount(r)
      PROVE  AccountsCoherent'
  <2>1. Registered' = Registered
    BY <1>9 DEF AbortAccount, accountVars, Registered
  <2>2. QED
    BY <1>1, <1>9, <1>a, <1>b, <2>1
       DEF AbortAccount, Abort, accountVars, AccountsCoherent, LoggedOutStaysOut
<1>10. ASSUME NEW u \in Request, Logout(u)
       PROVE  AccountsCoherent'
  <2>1. /\ Registered' = Registered
        /\ \A y \in users' : \E x \in users :
             /\ y.id = x.id
             /\ y.refreshToken = IF x.id = u THEN FALSE ELSE x.refreshToken
    BY <1>10, <1>a, TokenRegisters DEF Logout
  <2>2. LoggedOutStaysOut'
    BY <1>10, <1>a, <2>1 DEF Logout, AccountsCoherent, LoggedOutStaysOut
  <2>3. loggedOut' \subseteq Registered
    BY <1>10, <1>a DEF Logout, AccountsCoherent
  <2>4. \A r \in Request : req[r].pc = "storeToken" => req[r].account \notin loggedOut'
    BY <1>10, <1>a DEF Logout, AccountsCoherent, SigningIn, InFlight
  <2>5. QED
    BY <1>10, <1>a, <1>b, <2>1, <2>2, <2>3, <2>4 DEF Logout, AccountsCoherent
<1>11. QED
  BY <1>4, <1>5, <1>6, <1>7, <1>8, <1>9, <1>10 DEF AccountsNext

-----------------------------------------------------------------------------
(* Bookmarks: the invariant *)

LEMMA TogglingIs ==
  ASSUME ProfileTypeOK, NEW u, NEW p
  PROVE  Toggling(u, p) =
           {r \in Request : req[r].op = "toggle" /\ req[r].user = u /\ req[r].post = p}
<1>1. \A r \in Request : req[r].op = "toggle" => req[r].pc \notin {"idle", "over"}
  BY Shapes DEF ProfileTypeOK, TogglePC
<1>2. QED
  BY <1>1 DEF Toggling, InFlight

(* What is needed of the requests that go on toggling. *)
ToggleKeeps(x) ==
  /\ answered'[<<req'[x].user, req'[x].post>>] = "unknown" \/ req'[x].post \notin posts'
  /\ req'[x].pc = "removeBookmark" =>
       /\ req'[x].row \in Bookmark
       /\ req'[x].row.user = req'[x].user /\ req'[x].row.post = req'[x].post
       /\ \/ req'[x].rival
          \/ \A b \in bookmarks' : b.user = req'[x].user /\ b.post = req'[x].post
                                     => b = req'[x].row
  /\ \A s \in Request :
       req'[s].op = "toggle" /\ req'[s].user = req'[x].user /\ req'[s].post = req'[x].post
         => s = x \/ req'[x].rival

LEMMA ToggleKept ==
  ASSUME NEW x \in Request, ToggleKeeps(x)
  PROVE  ToggleAgrees(x)'
BY DEF ToggleKeeps, ToggleAgrees, BookmarksOf, Toggling, InFlight

(* The same, of the state before. *)
LEMMA ToggleKnows ==
  ASSUME Inv, NEW x \in Request, req[x].op = "toggle"
  PROVE  /\ req[x].user \in User /\ req[x].post \in Post /\ req[x].rival \in BOOLEAN
         /\ answered[<<req[x].user, req[x].post>>] = "unknown" \/ req[x].post \notin posts
         /\ req[x].pc = "removeBookmark" =>
              /\ req[x].row \in Bookmark
              /\ req[x].row.user = req[x].user /\ req[x].row.post = req[x].post
              /\ \/ req[x].rival
                 \/ \A b \in bookmarks : b.user = req[x].user /\ b.post = req[x].post
                                           => b = req[x].row
         /\ \A s \in Request :
              req[s].op = "toggle" /\ req[s].user = req[x].user /\ req[s].post = req[x].post
                => s = x \/ req[x].rival
<1>1. ToggleAgrees(x) /\ ProfileTypeOK
  BY DEF Inv, Coherent, BookmarksCoherent
<1>2. /\ req[x].user \in User /\ req[x].post \in Post /\ req[x].rival \in BOOLEAN
  BY <1>1, Shapes DEF ProfileTypeOK
<1>3. QED
  BY <1>1, <1>2, TogglingIs DEF ToggleAgrees, BookmarksOf

LEMMA BookmarksFrame ==
  ASSUME Inv, req' \in [Request -> Memory], NEW PC, Within(PC),
         PC \cap (TogglePC \cup {"idle"}) = {}, UNCHANGED <<posts, bookmarks, answered>>
  PROVE  BookmarksCoherent'
<1>1. \A x \in Request : req'[x].op = "toggle" => req'[x] = req[x]
  BY Shapes DEF Within, TogglePC
<1>2. ASSUME NEW x \in Request, req'[x].op = "toggle"
      PROVE  ToggleAgrees(x)'
  <2>1. req'[x] = req[x] /\ req[x].op = "toggle"
    BY <1>1, <1>2
  <2>a. \A s \in Request :
          req[s].op = "toggle" /\ req[s].user = req[x].user /\ req[s].post = req[x].post
            => s = x \/ req[x].rival
    BY <2>1, ToggleKnows
  <2>2. \A s \in Request :
          req'[s].op = "toggle" /\ req'[s].user = req[x].user /\ req'[s].post = req[x].post
            => s = x \/ req[x].rival
    BY <1>1, <2>a
  <2>3. ToggleKeeps(x)
    BY <2>1, <2>2, ToggleKnows DEF ToggleKeeps
  <2>4. QED
    BY <2>3, ToggleKept
<1>3. QED
  BY <1>2 DEF Inv, Coherent, BookmarksCoherent, BookmarksAsAnswered, BookmarksOf

(* A toggle ends: with an answer, an error, or not at all. *)
LEMMA ToggleEnds ==
  ASSUME Inv, NEW r \in Request, req[r].op = "toggle", Answer(r), posts' = posts,
         NEW u, u = req[r].user, NEW p, p = req[r].post,
         \A v \in User, o \in Post : <<v, o>> # <<u, p>> =>
           answered'[<<v, o>>] = answered[<<v, o>>],
         req[r].rival => answered' = answered,
         \A x \in Request : req[x].op = "toggle" /\ req[x].pc = "removeBookmark" /\ x # r =>
           \/ req[x].rival
           \/ \A b \in bookmarks' : b.user = req[x].user /\ b.post = req[x].post
                                      => b = req[x].row
  PROVE  \A x \in Request : req'[x].op = "toggle" => ToggleAgrees(x)'
<1>1. Only(r) /\ req'[r].op # "toggle"
  BY AnswerSets DEF Inv, Over
<1>2. ASSUME NEW x \in Request, req'[x].op = "toggle"
      PROVE  ToggleAgrees(x)'
  <2>1. x # r /\ req'[x] = req[x]
    BY <1>1, <1>2 DEF Only
  <2>2. \A s \in Request : req'[s].op = "toggle" => req'[s] = req[s] /\ req[s].op = "toggle"
    BY <1>1 DEF Only
  <2>a. req[x].op = "toggle"
    BY <1>2, <2>1
  <2>c. \A s \in Request :
          req[s].op = "toggle" /\ req[s].user = req[x].user /\ req[s].post = req[x].post
            => s = x \/ req[x].rival
    BY <2>a, ToggleKnows
  <2>b. \A s \in Request :
          req'[s].op = "toggle" /\ req'[s].user = req[x].user /\ req'[s].post = req[x].post
            => s = x \/ req[x].rival
    BY <2>2, <2>c
  <2>3. CASE req[x].user = u /\ req[x].post = p
    <3>0. \A s \in Request : req[s].op = "toggle" /\ req[s].user = u /\ req[s].post = p
                               => s = r \/ req[r].rival
      BY ToggleKnows
    <3>1. req[r].rival
      BY <2>1, <2>3, <2>a, <3>0
    <3>2. ToggleKeeps(x)
      BY <2>1, <2>a, <2>b, <3>1, ToggleKnows DEF ToggleKeeps
    <3>3. QED
      BY <3>2, ToggleKept
  <2>4. CASE ~(req[x].user = u /\ req[x].post = p)
    <3>1. answered'[<<req[x].user, req[x].post>>] = answered[<<req[x].user, req[x].post>>]
      BY <2>4, <2>a, ToggleKnows
    <3>2. ToggleKeeps(x)
      BY <2>1, <2>a, <2>b, <3>1, ToggleKnows DEF ToggleKeeps
    <3>3. QED
      BY <3>2, ToggleKept
  <2>5. QED
    BY <2>3, <2>4
<1>3. QED
  BY <1>2

LEMMA ToggleBegins ==
  ASSUME Inv, NEW r \in Request, NEW u \in User, NEW p \in Post, ToggleBookmark(r, u, p)
  PROVE  BookmarksCoherent'
<1>a. ProfileTypeOK /\ BookmarksCoherent /\ answered \in [User \X Post -> {"on", "off", "unknown"}]
  BY DEF Inv, Coherent, ProfileTypeOK, LibraryTypeOK
<1> DEFINE q == [op |-> "toggle", pc |-> "findBookmark", user |-> u, post |-> p,
                 row |-> None, rival |-> Toggling(u, p) # {}]
<1>1. /\ q.op = "toggle" /\ q.pc = "findBookmark" /\ q.user = u /\ q.post = p
      /\ Toggling(u, p) # {} => q.rival
  OBVIOUS
<1> HIDE DEF q
<1>2. \A x \in Request :
        req'[x] = IF x = r THEN q
                  ELSE IF x \in Toggling(u, p) THEN [req[x] EXCEPT !.rival = TRUE]
                  ELSE req[x]
  BY DEF ToggleBookmark, q
<1>3. ASSUME NEW x \in Request, req'[x].op = "toggle", x # r
      PROVE  /\ req[x].op = "toggle" /\ req'[x].user = req[x].user /\ req'[x].post = req[x].post
             /\ req'[x].pc = req[x].pc /\ req'[x].row = req[x].row
             /\ req'[x].rival = (req[x].rival \/ x \in Toggling(u, p))
  <2>1. CASE x \in Toggling(u, p)
    <3>1. req[x].op = "toggle"
      BY <2>1 DEF Toggling
    <3>2. req[x] \in [op : {"toggle"}, pc : TogglePC, user : User, post : Post,
                      row : Bookmark \cup {None}, rival : BOOLEAN]
      BY <1>a, <3>1, Shapes DEF ProfileTypeOK
    <3>3. req'[x] = [req[x] EXCEPT !.rival = TRUE]
      BY <1>2, <1>3, <2>1
    <3>4. QED
      BY <2>1, <3>1, <3>2, <3>3
  <2>2. CASE x \notin Toggling(u, p)
    <3>1. req'[x] = req[x]
      BY <1>2, <1>3, <2>2
    <3>2. req[x].rival \in BOOLEAN
      BY <1>3, <3>1, ToggleKnows
    <3>3. QED
      BY <1>3, <2>2, <3>1, <3>2
  <2>3. QED
    BY <2>1, <2>2
<1>4. \A v \in User, o \in Post :
        answered'[<<v, o>>] = IF <<v, o>> = <<u, p>> THEN "unknown" ELSE answered[<<v, o>>]
  BY <1>a DEF ToggleBookmark
<1>5. posts' = posts /\ bookmarks' = bookmarks
  BY DEF ToggleBookmark
<1>6. ASSUME NEW x \in Request, req'[x].op = "toggle", x # r
      PROVE  ToggleAgrees(x)'
  <2>1. /\ req[x].op = "toggle" /\ req'[x].user = req[x].user /\ req'[x].post = req[x].post
        /\ req'[x].pc = req[x].pc /\ req'[x].row = req[x].row
        /\ req'[x].rival = (req[x].rival \/ x \in Toggling(u, p))
    BY <1>3, <1>6
  <2>2. answered'[<<req'[x].user, req'[x].post>>] = "unknown" \/ req'[x].post \notin posts'
    BY <1>4, <1>5, <1>6, <2>1, ToggleKnows
  <2>3. x \in Toggling(u, p) <=> req[x].user = u /\ req[x].post = p
    BY <1>a, <2>1, TogglingIs
  <2>4. ASSUME NEW s \in Request, req'[s].op = "toggle", req'[s].user = req'[x].user,
               req'[s].post = req'[x].post, s # x
        PROVE  req'[x].rival
    <3>1. CASE s = r
      BY <1>1, <1>2, <2>1, <2>3, <2>4, <3>1
    <3>2. CASE s # r
      <4>1. req[s].op = "toggle" /\ req[s].user = req[x].user /\ req[s].post = req[x].post
        BY <1>3, <2>1, <2>4, <3>2
      <4>2. req[x].rival
        BY <2>1, <2>4, <4>1, ToggleKnows
      <4>3. QED
        BY <2>1, <4>2
    <3>3. QED
      BY <3>1, <3>2
  <2>5. ToggleKeeps(x)
    BY <1>5, <1>6, <2>1, <2>2, <2>4, ToggleKnows DEF ToggleKeeps
  <2>6. QED
    BY <2>5, ToggleKept
<1>7. ToggleAgrees(r)'
  <2>1. \A s \in Request : req'[s].op = "toggle" /\ req'[s].user = u /\ req'[s].post = p /\ s # r
                             => s \in Toggling(u, p)
    BY <1>3, <1>a, TogglingIs
  <2>2. req'[r] = q
    BY <1>2
  <2>3. ToggleKeeps(r)
    BY <1>1, <1>4, <2>1, <2>2 DEF ToggleKeeps
  <2>4. QED
    BY <2>3, ToggleKept
<1>8. BookmarksAsAnswered'
  <2>1. \A v \in User, o \in Post : BookmarksOf(v, o)' = BookmarksOf(v, o)
    BY <1>5 DEF BookmarksOf
  <2>2. ASSUME NEW v \in User, NEW o \in Post
        PROVE  /\ answered'[<<v, o>>] = "on"  => BookmarksOf(v, o) # {}
               /\ answered'[<<v, o>>] = "off" => BookmarksOf(v, o) = {}
    BY <1>4, <1>a DEF BookmarksCoherent, BookmarksAsAnswered
  <2>3. QED
    BY <2>1, <2>2 DEF BookmarksAsAnswered
<1>9. \A v \in User, o \in Post : o \notin posts' => answered'[<<v, o>>] = "off"
  <2>1. p \in posts
    BY DEF ToggleBookmark
  <2>2. QED
    BY <1>4, <1>5, <1>a, <2>1 DEF BookmarksCoherent
<1>10. QED
  BY <1>5, <1>6, <1>7, <1>8, <1>9, <1>a DEF BookmarksCoherent

LEMMA ToggleFinds ==
  ASSUME Inv, NEW r \in Request, FindBookmark(r)
  PROVE  BookmarksCoherent'
<1>a. ProfileTypeOK /\ BookmarksCoherent /\ req[r].pc = "findBookmark" /\ UNCHANGED libraryVars
  BY DEF Inv, Coherent, FindBookmark, At
<1>b. req[r] \in [op : {"toggle"}, pc : TogglePC, user : User, post : Post,
                  row : Bookmark \cup {None}, rival : BOOLEAN]
  BY <1>a, Shapes DEF ProfileTypeOK, TogglePC
<1>1. /\ Only(r) /\ req'[r].op = "toggle" /\ req'[r].user = req[r].user
      /\ req'[r].post = req[r].post /\ req'[r].rival = req[r].rival
      /\ req'[r].pc = "removeBookmark" => req'[r].row \in BookmarksOf(req[r].user, req[r].post)
  <2>1. CASE GoTo(r, "insertBookmark")
    <3>1. Only(r) /\ req'[r] = [req[r] EXCEPT !.pc = "insertBookmark"]
      BY <1>a, <2>1, GoToSets
    <3>2. QED
      BY <1>b, <3>1
  <2>2. ASSUME NEW b \in BookmarksOf(req[r].user, req[r].post),
               req' = [req EXCEPT ![r].pc = "removeBookmark", ![r].row = b]
        PROVE  /\ Only(r) /\ req'[r].op = "toggle" /\ req'[r].user = req[r].user
               /\ req'[r].post = req[r].post /\ req'[r].rival = req[r].rival
               /\ req'[r].row = b
    BY <1>a, <1>b, <2>2 DEF Only, ProfileTypeOK
  <2>3. QED
    BY <2>1, <2>2 DEF FindBookmark
<1>2. ASSUME NEW x \in Request, req'[x].op = "toggle"
      PROVE  ToggleAgrees(x)'
  <2>1. /\ req[x].op = "toggle" /\ req'[x].user = req[x].user /\ req'[x].post = req[x].post
        /\ req'[x].rival = req[x].rival
    BY <1>1, <1>2, <1>b DEF Only
  <2>2. \A s \in Request :
          req[s].op = "toggle" /\ req[s].user = req[x].user /\ req[s].post = req[x].post
            => s = x \/ req[x].rival
    BY <2>1, ToggleKnows
  <2>3. \A s \in Request :
          req'[s].op = "toggle" => /\ req[s].op = "toggle" /\ req'[s].user = req[s].user
                                   /\ req'[s].post = req[s].post
    BY <1>1, <1>b DEF Only
  <2>4. req'[x].pc = "removeBookmark" =>
          /\ req'[x].row \in Bookmark
          /\ req'[x].row.user = req'[x].user /\ req'[x].row.post = req'[x].post
          /\ \/ req'[x].rival
             \/ \A b \in bookmarks' : b.user = req'[x].user /\ b.post = req'[x].post
                                        => b = req'[x].row
    <3>1. CASE x = r
      BY <1>1, <1>a, <2>1, <3>1 DEF BookmarksOf, BookmarksCoherent, ProfileTypeOK,
                                    LibraryTypeOK, libraryVars
    <3>2. CASE x # r
      <4>1. req'[x] = req[x] /\ bookmarks' = bookmarks
        BY <1>1, <1>a, <3>2 DEF Only, libraryVars
      <4>2. req[x].pc = "removeBookmark" =>
              /\ req[x].row \in Bookmark
              /\ req[x].row.user = req[x].user /\ req[x].row.post = req[x].post
              /\ \/ req[x].rival
                 \/ \A b \in bookmarks : b.user = req[x].user /\ b.post = req[x].post
                                           => b = req[x].row
        BY <2>1, ToggleKnows
      <4>3. QED
        BY <4>1, <4>2
    <3>3. QED
      BY <3>1, <3>2
  <2>5. ToggleKeeps(x)
    <3>1. answered'[<<req'[x].user, req'[x].post>>] = "unknown" \/ req'[x].post \notin posts'
      BY <1>a, <2>1, ToggleKnows DEF libraryVars
    <3>2. QED
      BY <2>1, <2>2, <2>3, <2>4, <3>1 DEF ToggleKeeps
  <2>6. QED
    BY <2>5, ToggleKept
<1>3. QED
  BY <1>2, <1>a DEF BookmarksCoherent, BookmarksAsAnswered, BookmarksOf, libraryVars

LEMMA ToggleRemoves ==
  ASSUME Inv, NEW r \in Request, RemoveBookmark(r)
  PROVE  BookmarksCoherent'
<1>a. /\ ProfileTypeOK /\ BookmarksCoherent /\ req[r].pc = "removeBookmark"
      /\ req[r].op = "toggle" /\ posts' = posts /\ Answer(r)
  BY Shapes DEF Inv, Coherent, RemoveBookmark, Say, At, ProfileTypeOK, TogglePC
<1> DEFINE u == req[r].user
           p == req[r].post
<1>b. /\ u \in User /\ p \in Post /\ req[r].row.user = u /\ req[r].row.post = p
      /\ answered[<<u, p>>] = "unknown" \/ p \notin posts
      /\ req[r].rival \/ \A b \in bookmarks : b.user = u /\ b.post = p => b = req[r].row
  BY <1>a, ToggleKnows
<1>c. answered \in [User \X Post -> {"on", "off", "unknown"}]
  BY <1>a DEF ProfileTypeOK, LibraryTypeOK
<1> HIDE DEF u, p
<1>d. bookmarks' = bookmarks \ {req[r].row}
  BY DEF RemoveBookmark
<1>1. answered' = IF req[r].rival THEN answered ELSE [answered EXCEPT ![<<u, p>>] = "off"]
  BY DEF RemoveBookmark, Say, u, p
<1>2. \A v \in User, o \in Post : <<v, o>> # <<u, p>> => answered'[<<v, o>>] = answered[<<v, o>>]
  BY <1>1, <1>c
<1>3. \A x \in Request : req'[x].op = "toggle" => ToggleAgrees(x)'
  <2>1. \A x \in Request : req[x].op = "toggle" /\ req[x].pc = "removeBookmark" /\ x # r =>
          \/ req[x].rival
          \/ \A b \in bookmarks' : b.user = req[x].user /\ b.post = req[x].post
                                     => b = req[x].row
    BY <1>d, ToggleKnows
  <2>2. QED
    BY <1>1, <1>2, <1>a, <2>1, ToggleEnds DEF u, p
<1>4. ASSUME NEW v \in User, NEW o \in Post
      PROVE  /\ answered'[<<v, o>>] = "on"  =>
                  \E b \in bookmarks' : b.user = v /\ b.post = o
             /\ answered'[<<v, o>>] = "off" =>
                  ~\E b \in bookmarks' : b.user = v /\ b.post = o
             /\ o \notin posts' => answered'[<<v, o>>] = "off"
  <2>0. /\ answered[<<v, o>>] = "on"  => \E b \in bookmarks : b.user = v /\ b.post = o
        /\ answered[<<v, o>>] = "off" => ~\E b \in bookmarks : b.user = v /\ b.post = o
        /\ o \notin posts => answered[<<v, o>>] = "off"
    BY <1>a DEF BookmarksCoherent, BookmarksAsAnswered, BookmarksOf
  <2>1. CASE <<v, o>> # <<u, p>>
    BY <1>2, <1>a, <1>b, <1>d, <2>0, <2>1
  <2>2. CASE v = u /\ o = p /\ req[r].rival
    <3>1. answered' = answered /\ answered[<<v, o>>] \in {"unknown", "off"}
      BY <1>1, <1>b, <2>0, <2>2
    <3>2. QED
      BY <1>a, <1>d, <2>0, <3>1
  <2>3. CASE v = u /\ o = p /\ ~req[r].rival
    <3>1. answered'[<<v, o>>] = "off"
      BY <1>1, <1>b, <1>c, <2>3
    <3>2. QED
      BY <1>b, <1>d, <2>3, <3>1
  <2>4. QED
    BY <2>1, <2>2, <2>3
<1>5. BookmarksAsAnswered' /\ \A v \in User, o \in Post : o \notin posts' =>
                                 answered'[<<v, o>>] = "off"
  BY <1>4 DEF BookmarksAsAnswered, BookmarksOf
<1>6. QED
  BY <1>3, <1>5, <1>a, <1>d DEF BookmarksCoherent

(* An insert that throws, or a failure. *)
LEMMA ToggleFails ==
  ASSUME Inv, NEW r \in Request, req[r].pc \in TogglePC, Answer(r), UNCHANGED libraryVars
  PROVE  BookmarksCoherent'
<1>1. req[r].op = "toggle" /\ ProfileTypeOK /\ BookmarksCoherent
  BY Shapes DEF Inv, ProfileTypeOK, Coherent
<1>2. UNCHANGED <<posts, bookmarks, answered>>
  BY DEF libraryVars
<1>3. \A x \in Request : req[x].op = "toggle" /\ req[x].pc = "removeBookmark" /\ x # r =>
          \/ req[x].rival
          \/ \A b \in bookmarks' : b.user = req[x].user /\ b.post = req[x].post
                                     => b = req[x].row
  BY <1>2, ToggleKnows
<1>4. \A x \in Request : req'[x].op = "toggle" => ToggleAgrees(x)'
  BY <1>1, <1>2, <1>3, ToggleEnds
<1>5. QED
  BY <1>1, <1>2, <1>4 DEF BookmarksCoherent, BookmarksAsAnswered, BookmarksOf

LEMMA ToggleInserts ==
  ASSUME Inv, NEW r \in Request, InsertBookmark(r)
  PROVE  BookmarksCoherent'
<1>a. /\ ProfileTypeOK /\ BookmarksCoherent /\ req[r].pc = "insertBookmark"
      /\ req[r].op = "toggle" /\ req[r].pc \in TogglePC
  BY Shapes DEF Inv, Coherent, InsertBookmark, At, ProfileTypeOK, TogglePC
<1> DEFINE u == req[r].user
           p == req[r].post
           new == [id |-> r, user |-> u, post |-> p]
<1>b. /\ u \in User /\ p \in Post /\ new.user = u /\ new.post = p
      /\ answered[<<u, p>>] = "unknown" \/ p \notin posts
      /\ \A s \in Request : req[s].op = "toggle" /\ req[s].user = u /\ req[s].post = p
                              => s = r \/ req[r].rival
  BY <1>a, ToggleKnows
<1>c. answered \in [User \X Post -> {"on", "off", "unknown"}]
  BY <1>a DEF ProfileTypeOK, LibraryTypeOK
<1>1. CASE Answer(r) /\ UNCHANGED libraryVars
  BY <1>1, <1>a, ToggleFails
<1>2. ASSUME p \in posts, BookmarksOf(u, p) = {}, bookmarks' = bookmarks \cup {new}, Say(r, "on")
      PROVE  BookmarksCoherent'
  <2>a. /\ answered' = IF req[r].rival THEN answered ELSE [answered EXCEPT ![<<u, p>>] = "on"]
        /\ posts' = posts /\ Answer(r)
    BY <1>2 DEF Say
  <2>b. r \in Request /\ u = req[r].user /\ p = req[r].post
    OBVIOUS
  <2> HIDE DEF new, u, p
  <2>c. \A b \in bookmarks : ~(b.user = u /\ b.post = p)
    BY <1>2 DEF BookmarksOf
  <2>1. \A v \in User, o \in Post : <<v, o>> # <<u, p>> => answered'[<<v, o>>] = answered[<<v, o>>]
    BY <1>c, <2>a
  <2>2. ASSUME NEW x \in Request, req[x].op = "toggle", req[x].pc = "removeBookmark", x # r,
               ~req[x].rival, NEW b \in bookmarks', b.user = req[x].user, b.post = req[x].post
        PROVE  b = req[x].row
    <3>1. ~(req[x].user = u /\ req[x].post = p)
      <4>1. \A s \in Request :
              req[s].op = "toggle" /\ req[s].user = req[x].user /\ req[s].post = req[x].post
                => s = x \/ req[x].rival
        BY <2>2, ToggleKnows
      <4>2. QED
        BY <1>a, <2>2, <2>b, <4>1
    <3>2. b \in bookmarks
      BY <1>2, <1>b, <2>2, <3>1
    <3>3. QED
      BY <2>2, <3>2, ToggleKnows
  <2>3. \A x \in Request : req'[x].op = "toggle" => ToggleAgrees(x)'
    BY <1>a, <2>1, <2>2, <2>a, <2>b, ToggleEnds
  <2>4. ASSUME NEW v \in User, NEW o \in Post
        PROVE  /\ answered'[<<v, o>>] = "on"  =>
                    \E b \in bookmarks' : b.user = v /\ b.post = o
               /\ answered'[<<v, o>>] = "off" =>
                    ~\E b \in bookmarks' : b.user = v /\ b.post = o
               /\ o \notin posts' => answered'[<<v, o>>] = "off"
    <3>0. /\ answered[<<v, o>>] = "on"  => \E b \in bookmarks : b.user = v /\ b.post = o
          /\ answered[<<v, o>>] = "off" => ~\E b \in bookmarks : b.user = v /\ b.post = o
          /\ o \notin posts => answered[<<v, o>>] = "off"
      BY <1>a DEF BookmarksCoherent, BookmarksAsAnswered, BookmarksOf
    <3>1. CASE <<v, o>> # <<u, p>>
      <4>1. \A b \in bookmarks' : b.user = v /\ b.post = o => b \in bookmarks
        BY <1>2, <1>b, <3>1
      <4>2. bookmarks \subseteq bookmarks'
        BY <1>2
      <4>3. QED
        BY <2>1, <2>a, <3>0, <3>1, <4>1, <4>2
    <3>2. CASE v = u /\ o = p
      <4>1. answered'[<<v, o>>] \in {"on", "unknown"}
        BY <1>2, <1>b, <1>c, <2>a, <3>2
      <4>2. QED
        BY <1>2, <1>b, <2>a, <3>2, <4>1
    <3>3. QED
      BY <3>1, <3>2
  <2>5. BookmarksAsAnswered' /\ \A v \in User, o \in Post : o \notin posts' =>
                                   answered'[<<v, o>>] = "off"
    BY <2>4 DEF BookmarksAsAnswered, BookmarksOf
  <2>6. /\ \A b, c \in bookmarks' : b.user = c.user /\ b.post = c.post => b = c
        /\ \A b \in bookmarks' : b.post \in posts'
    BY <1>2, <1>a, <1>b, <2>a, <2>c DEF BookmarksCoherent
  <2>7. QED
    BY <2>3, <2>5, <2>6 DEF BookmarksCoherent
<1>3. QED
  BY <1>1, <1>2 DEF InsertBookmark

LEMMA PostGoes ==
  ASSUME Inv, NEW p \in Post, DropPost(p)
  PROVE  BookmarksCoherent'
<1>a. ProfileTypeOK /\ BookmarksCoherent
  BY DEF Inv, Coherent
<1>1. /\ posts' = posts \ {p} /\ req' = req
      /\ bookmarks' = {b \in bookmarks : b.post # p}
      /\ \A v \in User, o \in Post :
           answered'[<<v, o>>] = IF o = p THEN "off" ELSE answered[<<v, o>>]
  BY DEF DropPost
<1>2. ASSUME NEW x \in Request, req'[x].op = "toggle"
      PROVE  ToggleAgrees(x)'
  <2>1. ToggleKeeps(x)
    BY <1>1, <1>2, ToggleKnows DEF ToggleKeeps
  <2>2. QED
    BY <2>1, ToggleKept
<1>3. ASSUME NEW v \in User, NEW o \in Post
      PROVE  /\ answered'[<<v, o>>] = "on"  =>
                  \E b \in bookmarks' : b.user = v /\ b.post = o
             /\ answered'[<<v, o>>] = "off" =>
                  ~\E b \in bookmarks' : b.user = v /\ b.post = o
             /\ o \notin posts' => answered'[<<v, o>>] = "off"
  <2>1. /\ answered[<<v, o>>] = "on"  => \E b \in bookmarks : b.user = v /\ b.post = o
        /\ answered[<<v, o>>] = "off" => ~\E b \in bookmarks : b.user = v /\ b.post = o
        /\ o \notin posts => answered[<<v, o>>] = "off"
    BY <1>a DEF BookmarksCoherent, BookmarksAsAnswered, BookmarksOf
  <2>2. QED
    BY <1>1, <2>1
<1>4. BookmarksAsAnswered' /\ \A v \in User, o \in Post : o \notin posts' =>
                                 answered'[<<v, o>>] = "off"
  BY <1>3 DEF BookmarksAsAnswered, BookmarksOf
<1>5. QED
  BY <1>1, <1>2, <1>4, <1>a DEF BookmarksCoherent

LEMMA BookmarksCohere ==
  ASSUME Inv, BookmarkStep
  PROVE  BookmarksCoherent'
<1>1. ASSUME NEW r \in Request, AbortLibrary(r), req[r].pc \in TogglePC
      PROVE  BookmarksCoherent'
  BY <1>1, ToggleFails DEF AbortLibrary, Abort
<1>2. QED
  BY <1>1, ToggleBegins, ToggleFinds, ToggleRemoves, ToggleInserts, PostGoes DEF BookmarkStep

-----------------------------------------------------------------------------
(* Collections: the invariant *)

LEMMA NamersIs ==
  ASSUME ProfileTypeOK, NEW u, NEW name
  PROVE  Namers(u, name) =
           {r \in Request : req[r].op = "name" /\ req[r].row.user = u /\ req[r].row.name = name}
<1>1. \A r \in Request : req[r].op = "name" => req[r].pc \notin {"idle", "over"}
  BY Shapes DEF ProfileTypeOK, NamePC
<1>2. QED
  BY <1>1 DEF Namers, InFlight

(* The calls x and s are about to write one name. *)
SameName(x, s) == /\ req[s].op = "name" /\ req[x].op = "name"
                  /\ req[s].row.user = req[x].row.user /\ req[s].row.name = req[x].row.name

Contested(x) == <<req[x].row.user, req[x].row.name>> \in contested

LEMMA NamerKnows ==
  ASSUME Inv, NEW x \in Request, req[x].op = "name"
  PROVE  /\ req[x].row \in Collection /\ req[x].pc \in NamePC
         /\ IF req[x].pc = "insertCollection" THEN req[x].row.id = x ELSE ~Fresh(req[x].row.id)
         /\ ~Contested(x) =>
              /\ \A s \in Request : SameName(x, s) => s = x
              /\ req[x].pc # "findClash" =>
                   \A c \in collections :
                     c.user = req[x].row.user /\ c.name = req[x].row.name => c.id = req[x].row.id
<1>1. NamerAgrees(x) /\ ProfileTypeOK
  BY DEF Inv, Coherent, CollectionsCoherent
<1>2. req[x].row \in Collection /\ req[x].pc \in NamePC
  BY <1>1, Shapes DEF ProfileTypeOK
<1>3. Namers(req[x].row.user, req[x].row.name) =
        {r \in Request : req[r].op = "name" /\ req[r].row.user = req[x].row.user
                                            /\ req[r].row.name = req[x].row.name}
  BY <1>1, NamersIs
<1>4. QED
  BY <1>1, <1>2, <1>3 DEF NamerAgrees, Named, SameName, Contested, At

(* The same, of the state after, and enough for it. *)
LEMMA NamerKept ==
  ASSUME NEW x \in Request, req' \in [Request -> Memory], req'[x].op = "name",
         IF req'[x].pc = "insertCollection" THEN req'[x].row.id = x ELSE Inserted(req'[x].row.id),
         ~Contested(x)' =>
           /\ \A s \in Request : SameName(x, s)' => s = x
           /\ req'[x].pc # "findClash" =>
                \A c \in collections' :
                  c.user = req'[x].row.user /\ c.name = req'[x].row.name => c.id = req'[x].row.id
  PROVE  NamerAgrees(x)'
<1>1. Namers(req[x].row.user, req[x].row.name)' =
        {r \in Request : req'[r].op = "name" /\ req'[r].row.user = req'[x].row.user
                                             /\ req'[r].row.name = req'[x].row.name}
  <2>1. \A r \in Request : req'[r].op = "name" => req'[r].pc \notin {"idle", "over"}
    BY Shapes DEF NamePC
  <2>2. QED
    BY <2>1 DEF Namers, InFlight
<1>2. x \in Namers(req[x].row.user, req[x].row.name)'
  BY <1>1
<1>3. ~Contested(x)' => \A s \in Namers(req[x].row.user, req[x].row.name)' : s = x
  BY <1>1 DEF SameName
<1>4. ~Contested(x)' => Namers(req[x].row.user, req[x].row.name)' = {x}
  BY <1>2, <1>3
<1>5. QED
  BY <1>4 DEF NamerAgrees, Named, Contested, At, Fresh, Inserted

(* A call that goes on naming while r moves. *)
LEMMA OthersNaming ==
  ASSUME Inv, NEW r \in Request, Only(r), Within(CollectionPC), req' \in [Request -> Memory],
         contested \subseteq contested',
         NEW x \in Request, x # r, req[x].op = "name",
         SameName(x, r)' => SameName(x, r) \/ Contested(x)',
         \A c \in collections' :
           c.user = req[x].row.user /\ c.name = req[x].row.name =>
             c \in collections \/ Contested(x)'
  PROVE  NamerAgrees(x)'
<1>1. req'[x] = req[x]
  BY DEF Only
<1>2. IF req'[x].pc = "insertCollection" THEN req'[x].row.id = x ELSE Inserted(req'[x].row.id)
  <2>1. CASE req[x].pc = "insertCollection"
    BY <1>1, <2>1, NamerKnows
  <2>2. CASE req[x].pc # "insertCollection"
    <3>1. ~Fresh(req[x].row.id) /\ req[x].row.id \in Request
      BY <2>2, NamerKnows DEF Collection
    <3>2. Inserted(req[x].row.id)
      <4>1. "idle" \notin CollectionPC
        BY DEF CollectionPC, LibraryPC, NamePC
      <4>2. QED
        BY <3>1, <4>1, InsertedStays
    <3>3. QED
      BY <1>1, <2>2, <3>2
  <2>3. QED
    BY <2>1, <2>2
<1>3. ASSUME ~Contested(x)', NEW s \in Request, SameName(x, s)'
      PROVE  s = x
  <2>1. ~Contested(x)
    BY <1>1, <1>3 DEF Contested
  <2>2. SameName(x, s)
    <3>1. CASE s = r
      BY <1>3, <3>1
    <3>2. CASE s # r
      BY <1>1, <1>3, <3>2 DEF SameName, Only
    <3>3. QED
      BY <3>1, <3>2
  <2>3. QED
    BY <2>1, <2>2, NamerKnows
<1>4. ASSUME ~Contested(x)', req'[x].pc # "findClash", NEW c \in collections',
             c.user = req'[x].row.user, c.name = req'[x].row.name
      PROVE  c.id = req'[x].row.id
  <2>1. ~Contested(x) /\ c \in collections
    BY <1>1, <1>4 DEF Contested
  <2>2. QED
    BY <1>1, <1>4, <2>1, NamerKnows
<1>5. QED
  BY <1>1, <1>2, <1>3, <1>4, NamerKept

LEMMA CollectionsFrame ==
  ASSUME Inv, req' \in [Request -> Memory], NEW PC, Within(PC),
         PC \cap (NamePC \cup {"idle"}) = {}, UNCHANGED <<collections, contested>>
  PROVE  CollectionsCoherent'
<1>a. CollectionsCoherent /\ ProfileTypeOK
  BY DEF Inv, Coherent
<1>b. \A w \in Request : ~Fresh(w) => Inserted(w)
  BY InsertedStays
<1>1. \A x \in Request : req'[x].op = "name" => req'[x] = req[x]
  BY Shapes DEF Within, NamePC
<1>2. ASSUME NEW x \in Request, req'[x].op = "name"
      PROVE  NamerAgrees(x)'
  <2>1. req'[x] = req[x] /\ req[x].op = "name"
    BY <1>1, <1>2
  <2>2. IF req'[x].pc = "insertCollection" THEN req'[x].row.id = x ELSE Inserted(req'[x].row.id)
    <3>1. req[x].pc # "insertCollection" => ~Fresh(req[x].row.id) /\ req[x].row.id \in Request
      BY <2>1, NamerKnows DEF Collection
    <3>2. req[x].pc # "insertCollection" => Inserted(req[x].row.id)
      BY <1>b, <3>1
    <3>3. QED
      BY <2>1, <3>2, NamerKnows
  <2>3. \A s \in Request : SameName(x, s)' => SameName(x, s)
    BY <1>1 DEF SameName
  <2>4. Contested(x)' <=> Contested(x)
    BY <2>1 DEF Contested
  <2>5. QED
    BY <2>1, <2>2, <2>3, <2>4, NamerKnows, NamerKept
<1>3. \A c \in collections' : Inserted(c.id)
  BY <1>a, <1>b DEF CollectionsCoherent, ProfileTypeOK, LibraryTypeOK, Collection
<1>4. QED
  BY <1>2, <1>3, <1>a DEF CollectionsCoherent, OneNamePerUser, Fresh, Inserted

(* The step of a call that writes no name, or has stopped. *)
LEMMA NamesShrink ==
  ASSUME Inv, NEW r \in Request, Only(r), Within(CollectionPC), req' \in [Request -> Memory],
         req'[r].op # "name", contested' = contested, collections' \subseteq collections
  PROVE  CollectionsCoherent'
<1>a. CollectionsCoherent /\ ProfileTypeOK
  BY DEF Inv, Coherent
<1>b. \A w \in Request : ~Fresh(w) => Inserted(w)
  <2>1. "idle" \notin CollectionPC
    BY DEF CollectionPC, LibraryPC, NamePC
  <2>2. QED
    BY <2>1, InsertedStays
<1>1. ASSUME NEW x \in Request, req'[x].op = "name"
      PROVE  NamerAgrees(x)'
  <2>1. x # r /\ req[x].op = "name"
    BY <1>1 DEF Only
  <2>2. ~SameName(x, r)'
    BY DEF SameName
  <2>3. QED
    BY <2>1, <2>2, OthersNaming
<1>2. \A c \in collections' : Inserted(c.id)
  BY <1>a, <1>b DEF CollectionsCoherent, ProfileTypeOK, LibraryTypeOK, Collection
<1>3. QED
  BY <1>1, <1>2, <1>a DEF CollectionsCoherent, OneNamePerUser, Fresh, Inserted

(* The row is written under its name. *)
LEMMA NameWritten ==
  ASSUME Inv, NEW r \in Request, Only(r), Within(CollectionPC), req' \in [Request -> Memory],
         req[r].op = "name", req[r].pc # "findClash", req'[r] = Over, contested' = contested,
         \A c \in collections' : c = req[r].row \/ (c \in collections /\ c.id # req[r].row.id)
  PROVE  CollectionsCoherent'
<1> DEFINE row == req[r].row
<1>a. CollectionsCoherent /\ ProfileTypeOK
  BY DEF Inv, Coherent
<1>b. \A w \in Request : ~Fresh(w) => Inserted(w)
  <2>1. "idle" \notin CollectionPC
    BY DEF CollectionPC, LibraryPC, NamePC
  <2>2. QED
    BY <2>1, InsertedStays
<1>c. /\ row \in Collection
      /\ IF req[r].pc = "insertCollection" THEN row.id = r ELSE ~Fresh(row.id)
      /\ ~Contested(r) =>
           /\ \A s \in Request : SameName(r, s) => s = r
           /\ \A c \in collections : c.user = row.user /\ c.name = row.name => c.id = row.id
  BY NamerKnows
<1>d. Contested(r) <=> <<row.user, row.name>> \in contested
  BY DEF Contested
<1>1. ASSUME NEW x \in Request, req'[x].op = "name"
      PROVE  NamerAgrees(x)'
  <2>1. x # r /\ req'[x] = req[x] /\ ~SameName(x, r)'
    BY <1>1 DEF Only, Over, SameName
  <2>2. ASSUME NEW c \in collections', c.user = req[x].row.user, c.name = req[x].row.name
        PROVE  c \in collections \/ Contested(x)'
    <3>1. CASE c = row
      <4>1. SameName(r, x) /\ Contested(x)' <=> SameName(r, x) /\ Contested(r)
        BY <1>1, <2>1 DEF SameName, Contested
      <4>2. SameName(r, x)
        BY <1>1, <2>1, <2>2, <3>1 DEF SameName
      <4>3. QED
        BY <1>c, <2>1, <4>1, <4>2
    <3>2. QED
      BY <2>2, <3>1
  <2>3. QED
    BY <1>1, <2>1, <2>2, OthersNaming
<1>2. Inserted(row.id)
  <2>1. Inserted(r)
    BY DEF Inserted, Over
  <2>2. CASE req[r].pc = "insertCollection"
    BY <1>c, <2>1, <2>2
  <2>3. CASE req[r].pc # "insertCollection"
    BY <1>b, <1>c, <2>3 DEF Collection
  <2>4. QED
    BY <2>2, <2>3
<1> HIDE DEF row
<1>e. \A c \in collections' : c = row \/ (c \in collections /\ c.id # row.id)
  BY DEF row
<1>3. \A c \in collections' : Inserted(c.id)
  <2>1. \A c \in collections : Inserted(c.id)
    BY <1>a, <1>b DEF CollectionsCoherent, ProfileTypeOK, LibraryTypeOK, Collection
  <2>2. QED
    BY <1>2, <1>e, <2>1
<1>4. \A c, d \in collections' : c.id = d.id => c = d
  BY <1>a, <1>e DEF CollectionsCoherent
<1>5. ASSUME NEW c \in collections', NEW d \in collections', c.user = d.user, c.name = d.name
      PROVE  c = d \/ <<c.user, c.name>> \in contested'
  <2>1. CASE c \in collections /\ d \in collections
    BY <1>5, <1>a, <2>1 DEF CollectionsCoherent, OneNamePerUser, Fresh, Inserted
  <2>2. CASE c = row
    BY <1>5, <1>c, <1>d, <1>e, <2>2
  <2>3. CASE d = row
    BY <1>5, <1>c, <1>d, <1>e, <2>3
  <2>4. QED
    BY <1>e, <2>1, <2>2, <2>3
<1>6. QED
  BY <1>1, <1>3, <1>4, <1>5 DEF CollectionsCoherent, OneNamePerUser, Fresh, Inserted

(* The next statement of a call that writes a name. *)
LEMMA NameGoes ==
  ASSUME Inv, NEW r \in Request, NEW pc \in NamePC \ {"insertCollection", "findClash"},
         Within(CollectionPC), req' \in [Request -> Memory], GoTo(r, pc), UNCHANGED libraryVars,
         req[r].pc \in NamePC \ {"insertCollection"},
         req[r].pc = "findClash" => Named(req[r].row.user, req[r].row.name) = {}
  PROVE  CollectionsCoherent'
<1>a. CollectionsCoherent /\ ProfileTypeOK /\ UNCHANGED <<collections, contested>>
  BY DEF Inv, Coherent, libraryVars
<1>b. \A w \in Request : ~Fresh(w) => Inserted(w)
  <2>1. "idle" \notin CollectionPC
    BY DEF CollectionPC, LibraryPC, NamePC
  <2>2. QED
    BY <2>1, InsertedStays
<1>c. req[r] \in [op : {"name"}, pc : NamePC, row : Collection]
  BY <1>a, Shapes DEF ProfileTypeOK
<1>1. /\ Only(r) /\ req'[r].op = "name" /\ req'[r].row = req[r].row /\ req'[r].pc = pc
      /\ req[r].op = "name"
  <2>1. Only(r) /\ req'[r] = [req[r] EXCEPT !.pc = pc]
    BY <1>a, GoToSets
  <2>2. QED
    BY <1>c, <2>1
<1>d. /\ ~Fresh(req[r].row.id) /\ req[r].row.id \in Request
      /\ ~Contested(r) =>
           /\ \A s \in Request : SameName(r, s) => s = r
           /\ req[r].pc # "findClash" =>
                \A c \in collections :
                  c.user = req[r].row.user /\ c.name = req[r].row.name => c.id = req[r].row.id
  BY <1>1, NamerKnows DEF Collection
<1>2. ASSUME NEW x \in Request, req'[x].op = "name"
      PROVE  NamerAgrees(x)'
  <2>1. CASE x # r
    <3>1. req'[x] = req[x] /\ req[x].op = "name"
      BY <1>1, <1>2, <2>1 DEF Only
    <3>2. SameName(x, r)' => SameName(x, r)
      BY <1>1, <3>1 DEF SameName
    <3>3. QED
      BY <1>1, <1>a, <2>1, <3>1, <3>2, OthersNaming
  <2>2. CASE x = r
    <3>1. Contested(r)' <=> Contested(r)
      BY <1>1, <1>a DEF Contested
    <3>2. \A s \in Request : SameName(r, s)' => SameName(r, s)
      BY <1>1 DEF SameName, Only
    <3>3. ASSUME ~Contested(r)', NEW c \in collections',
                 c.user = req'[r].row.user, c.name = req'[r].row.name
          PROVE  c.id = req'[r].row.id
      <4>1. c \in collections /\ ~Contested(r)
        BY <1>a, <3>1, <3>3
      <4>2. req[r].pc = "findClash" => FALSE
        BY <1>1, <3>3, <4>1 DEF Named
      <4>3. QED
        BY <1>1, <1>d, <3>3, <4>1, <4>2
    <3>4. Inserted(req'[r].row.id)
      BY <1>1, <1>b, <1>d
    <3>5. \A s \in Request : ~Contested(r)' /\ SameName(r, s)' => s = r
      BY <1>d, <3>1, <3>2
    <3>6. NamerAgrees(r)'
      BY <1>1, <3>3, <3>4, <3>5, NamerKept
    <3>7. QED
      BY <2>2, <3>6
  <2>3. QED
    BY <2>1, <2>2
<1>3. \A c \in collections' : Inserted(c.id)
  BY <1>a, <1>b DEF CollectionsCoherent, ProfileTypeOK, LibraryTypeOK, Collection
<1>4. QED
  BY <1>2, <1>3, <1>a DEF CollectionsCoherent, OneNamePerUser, Fresh, Inserted

LEMMA NameStarts ==
  ASSUME Inv, NEW r \in Request, NEW row \in Collection,
         NEW pc \in {"insertCollection", "findClash", "selectCollection"},
         Within(CollectionPC), req' \in [Request -> Memory], StartNaming(r, row, pc),
         pc = "insertCollection" => row.id = r /\ Named(row.user, row.name) = {},
         pc = "selectCollection" => row \in collections,
         pc # "insertCollection" => ~Fresh(row.id)
  PROVE  CollectionsCoherent'
<1>a. CollectionsCoherent /\ ProfileTypeOK /\ collections' = collections
  BY DEF Inv, Coherent, StartNaming
<1>b. \A w \in Request : ~Fresh(w) => Inserted(w)
  <2>1. "idle" \notin CollectionPC
    BY DEF CollectionPC, LibraryPC, NamePC
  <2>2. QED
    BY <2>1, InsertedStays
<1>1. /\ Only(r) /\ req'[r].op = "name" /\ req'[r].row = row /\ req'[r].pc = pc
      /\ req[r].op # "name"
  <2> DEFINE q == [op |-> "name", pc |-> pc, row |-> row]
  <2>1. Begin(r, q)
    BY DEF StartNaming
  <2>2. q.op = "name" /\ q.row = row /\ q.pc = pc
    OBVIOUS
  <2> HIDE DEF q
  <2>3. req[r].pc = "idle" /\ Only(r) /\ req'[r] = q
    BY <1>a, <2>1, BeginSets
  <2>4. req[r].op # "name"
    BY <1>a, <2>3, Shapes DEF ProfileTypeOK, NamePC
  <2>5. QED
    BY <2>2, <2>3, <2>4
<1>2. /\ contested \subseteq contested'
      /\ Namers(row.user, row.name) # {} => <<row.user, row.name>> \in contested'
  BY DEF StartNaming
<1>3. ASSUME NEW s \in Request, req[s].op = "name", req[s].row.user = row.user,
             req[s].row.name = row.name
      PROVE  <<row.user, row.name>> \in contested'
  BY <1>2, <1>3, <1>a, NamersIs
<1>4. ASSUME NEW x \in Request, req'[x].op = "name"
      PROVE  NamerAgrees(x)'
  <2>1. CASE x # r
    <3>1. req'[x] = req[x] /\ req[x].op = "name"
      BY <1>1, <1>4, <2>1 DEF Only
    <3>2. SameName(x, r)' => Contested(x)'
      BY <1>1, <1>3, <3>1 DEF SameName, Contested
    <3>3. QED
      BY <1>1, <1>2, <1>a, <2>1, <3>1, <3>2, OthersNaming
  <2>2. CASE x = r
    <3>1. Contested(r)' <=> <<row.user, row.name>> \in contested'
      BY <1>1 DEF Contested
    <3>2. ASSUME ~Contested(r)', NEW s \in Request, SameName(r, s)', s # r
          PROVE  FALSE
      <4>1. req'[s] = req[s]
        BY <1>1, <3>2 DEF Only
      <4>2. QED
        BY <1>1, <1>3, <3>1, <3>2, <4>1 DEF SameName
    <3>3. ASSUME ~Contested(r)', pc # "findClash", NEW c \in collections,
                 c.user = row.user, c.name = row.name
          PROVE  c.id = row.id
      <4>1. <<row.user, row.name>> \notin contested
        BY <1>2, <3>1, <3>3
      <4>2. CASE pc = "insertCollection"
        BY <3>3, <4>2 DEF Named
      <4>3. CASE pc = "selectCollection"
        BY <1>a, <3>3, <4>1, <4>3 DEF CollectionsCoherent, OneNamePerUser
      <4>4. QED
        BY <3>3, <4>2, <4>3
    <3>4. IF pc = "insertCollection" THEN row.id = r ELSE Inserted(row.id)
      BY <1>b DEF Collection
    <3>5. NamerAgrees(r)'
      BY <1>1, <1>a, <3>2, <3>3, <3>4, NamerKept
    <3>6. QED
      BY <2>2, <3>5
  <2>3. QED
    BY <2>1, <2>2
<1>5. \A c \in collections' : Inserted(c.id)
  BY <1>a, <1>b DEF CollectionsCoherent, ProfileTypeOK, LibraryTypeOK, Collection
<1>6. QED
  BY <1>2, <1>4, <1>5, <1>a DEF CollectionsCoherent, OneNamePerUser, Fresh, Inserted

LEMMA CollectionsCohere ==
  ASSUME Inv, CollectionStep
  PROVE  CollectionsCoherent'
<1>a. CollectionsCoherent /\ ProfileTypeOK /\ Within(CollectionPC) /\ req' \in [Request -> Memory]
  BY CollectionsMove DEF Inv, Coherent
<1>b. collections \subseteq Collection
  BY <1>a DEF ProfileTypeOK, LibraryTypeOK
<1>1. ASSUME NEW r \in Request, NEW q, Begin(r, q), q.op # "name", UNCHANGED libraryVars
      PROVE  CollectionsCoherent'
  <2>1. Only(r) /\ req'[r].op # "name"
    BY <1>1, <1>a, BeginSets
  <2>2. QED
    BY <1>1, <1>a, <2>1, NamesShrink DEF libraryVars
<1>2. ASSUME NEW r \in Request, Answer(r), contested' = contested, collections' \subseteq collections
      PROVE  CollectionsCoherent'
  <2>1. Only(r) /\ req'[r].op # "name"
    BY <1>2, <1>a, AnswerSets DEF Over
  <2>2. QED
    BY <1>2, <1>a, <2>1, NamesShrink
<1>3. ASSUME NEW r \in Request, NEW u \in User, NEW name \in Title, CreateCollection(r, u, name)
      PROVE  CollectionsCoherent'
  <2> DEFINE row == [id |-> r, user |-> u, name |-> name]
  <2>1. row \in Collection /\ row.id = r /\ row.user = u /\ row.name = name
    BY DEF Collection
  <2>2. \/ Begin(r, Over) /\ UNCHANGED libraryVars
        \/ Named(u, name) = {} /\ StartNaming(r, row, "insertCollection")
    BY <1>3 DEF CreateCollection
  <2> HIDE DEF row
  <2>3. CASE Begin(r, Over) /\ UNCHANGED libraryVars
    BY <1>1, <2>3 DEF Over
  <2>4. CASE Named(u, name) = {} /\ StartNaming(r, row, "insertCollection")
    BY <1>a, <2>1, <2>4, NameStarts
  <2>5. QED
    BY <2>2, <2>3, <2>4
<1>4. ASSUME NEW r \in Request, NEW c \in collections, NEW name \in Title,
             UpdateCollection(r, c, name)
      PROVE  CollectionsCoherent'
  <2> DEFINE row == [c EXCEPT !.name = name]
             pc == IF c.name = name THEN "selectCollection" ELSE "findClash"
  <2>1. c \in [id : Request, user : User, name : Title]
    BY <1>b DEF Collection
  <2>2. row \in Collection /\ row.id = c.id /\ (c.name = name => row = c)
    BY <2>1 DEF Collection
  <2>3. pc \in {"findClash", "selectCollection"} /\ (pc = "selectCollection" => c.name = name)
    OBVIOUS
  <2>4. StartNaming(r, row, pc)
    BY <1>4 DEF UpdateCollection
  <2> HIDE DEF row, pc
  <2>5. ~Fresh(row.id)
    BY <1>a, <2>2 DEF CollectionsCoherent
  <2>6. QED
    BY <1>a, <2>2, <2>3, <2>4, <2>5, NameStarts
<1>5. ASSUME NEW r \in Request, NEW c \in collections, DeleteCollection(r, c)
      PROVE  CollectionsCoherent'
  BY <1>1, <1>5 DEF DeleteCollection
<1>6. ASSUME NEW r \in Request, NEW c \in collections, NEW p \in Post,
             AddItem(r, c, p) \/ RemoveItem(r, c, p)
      PROVE  CollectionsCoherent'
  BY <1>1, <1>6 DEF AddItem, RemoveItem
<1>7. ASSUME NEW r \in Request,
             InsertCollection(r) \/ UpdateRow(r) \/ ReinsertCollection(r)
      PROVE  CollectionsCoherent'
  <2>1. /\ req[r].pc \in {"insertCollection", "updateCollection", "reinsertCollection"}
        /\ req[r].op = "name" /\ Answer(r) /\ contested' = contested
    <3>1. req[r].pc \in {"insertCollection", "updateCollection", "reinsertCollection"}
      BY <1>7 DEF InsertCollection, UpdateRow, ReinsertCollection, At
    <3>2. QED
      BY <1>7, <1>a, <3>1, Shapes
         DEF InsertCollection, UpdateRow, ReinsertCollection, ProfileTypeOK, NamePC
  <2>2. \/ collections' \subseteq collections
        \/ \A c \in collections' : c = req[r].row \/ (c \in collections /\ c.id # req[r].row.id)
    <3>1. CASE InsertCollection(r)
      <4>1. req[r].pc = "insertCollection" /\ collections' = collections \cup {req[r].row}
        BY <3>1 DEF InsertCollection, At
      <4>2. req[r].row.id = r
        BY <2>1, <4>1, NamerKnows
      <4>3. \A c \in collections : c.id # r
        BY <1>a, <4>1 DEF CollectionsCoherent, Fresh
      <4>4. QED
        BY <4>1, <4>2, <4>3
    <3>2. CASE UpdateRow(r)
      <4> DEFINE row == req[r].row
      <4>1. collections' = {IF c.id = row.id THEN row ELSE c : c \in collections}
        BY <3>2 DEF UpdateRow
      <4> HIDE DEF row
      <4>2. \A c \in collections' : c = row \/ (c \in collections /\ c.id # row.id)
        BY <4>1
      <4>3. QED
        BY <4>2 DEF row
    <3>3. CASE ReinsertCollection(r)
      <4>1. CASE \E c \in collections : c.id = req[r].row.id
        BY <3>3, <4>1 DEF ReinsertCollection
      <4>2. CASE ~\E c \in collections : c.id = req[r].row.id
        BY <3>3, <4>2 DEF ReinsertCollection
      <4>3. QED
        BY <4>1, <4>2
    <3>4. QED
      BY <1>7, <3>1, <3>2, <3>3
  <2>3. Only(r) /\ req'[r] = Over
    BY <1>a, <2>1, AnswerSets
  <2>4. QED
    BY <1>2, <1>a, <2>1, <2>2, <2>3, NameWritten
<1>8. ASSUME NEW r \in Request, FindClash(r)
      PROVE  CollectionsCoherent'
  <2>1. CASE Answer(r)
    BY <1>2, <1>8, <2>1 DEF FindClash, libraryVars
  <2>2. CASE Named(req[r].row.user, req[r].row.name) = {} /\ GoTo(r, "selectCollection")
    BY <1>8, <1>a, <2>2, NameGoes DEF FindClash, At, NamePC
  <2>3. QED
    BY <1>8, <2>1, <2>2 DEF FindClash
<1>9. ASSUME NEW r \in Request, SelectCollection(r)
      PROVE  CollectionsCoherent'
  <2>1. CASE Answer(r)
    BY <1>2, <1>9, <2>1 DEF SelectCollection, libraryVars
  <2>2. ASSUME NEW pc \in {"updateCollection", "reinsertCollection"}, GoTo(r, pc)
        PROVE  CollectionsCoherent'
    BY <1>9, <1>a, <2>2, NameGoes DEF SelectCollection, At, NamePC
  <2>3. QED
    BY <1>9, <2>1, <2>2 DEF SelectCollection
<1>10. ASSUME NEW r \in Request, RemoveCollection(r) \/ InsertItem(r) \/ DeleteItem(r)
       PROVE  CollectionsCoherent'
  BY <1>2, <1>10 DEF RemoveCollection, InsertItem, DeleteItem
<1>11. ASSUME NEW r \in Request, FindPost(r) \/ FindItem(r)
       PROVE  CollectionsCoherent'
  <2>1. CASE Answer(r)
    BY <1>2, <1>11, <2>1 DEF FindPost, FindItem, libraryVars
  <2>2. ASSUME NEW pc, GoTo(r, pc), req[r].pc \in {"findPost", "findItem"}
        PROVE  CollectionsCoherent'
    <3>1. req[r] \in [op : {"add"}, pc : {"findPost", "findItem", "insertItem"},
                      row : Collection, post : Post]
      BY <1>a, <2>2, Shapes DEF ProfileTypeOK
    <3>2. Only(r) /\ req'[r] = [req[r] EXCEPT !.pc = pc]
      BY <1>a, <2>2, GoToSets
    <3>3. req'[r].op # "name"
      BY <3>1, <3>2
    <3>4. QED
      BY <1>11, <1>a, <3>2, <3>3, NamesShrink DEF FindPost, FindItem, libraryVars
  <2>3. QED
    BY <1>11, <2>1, <2>2 DEF FindPost, FindItem, At
<1>12. ASSUME NEW r \in Request, AbortLibrary(r)
       PROVE  CollectionsCoherent'
  BY <1>2, <1>12 DEF AbortLibrary, Abort, libraryVars
<1>13. QED
  BY <1>3, <1>4, <1>5, <1>6, <1>7, <1>8, <1>9, <1>10, <1>11, <1>12 DEF CollectionStep

-----------------------------------------------------------------------------
(* Highlights: the invariant *)

LEMMA WritersIs ==
  ASSUME NEW h
  PROVE  /\ Writers(h) = {r \in Request : req[r].pc \in Writing /\ req[r].highlight = h}
         /\ Writers(h)' = {r \in Request : req'[r].pc \in Writing /\ req'[r].highlight = h}
BY DEF Writers, InFlight, Writing

(* What is known of a highlight by a call that writes it. *)
LEMMA WriterKnows ==
  ASSUME Inv, NEW r \in Request, req[r].pc \in Writing, NEW h, h = req[r].highlight
  PROVE  /\ h \in Request /\ ~Fresh(h) /\ WriterAgrees(r)
         /\ h \notin disturbed =>
              /\ Writers(h) = {r}
              /\ HighlightExists(h)
              /\ IF req[r].pc = "insertItems" THEN ItemsOf(h) = {} ELSE Whole(h)
              /\ req[r].pc = "selectHighlight" => req[r].copy = ItemsOf(h)
              /\ req[r].pc = "saveHighlight" =>
                   req[r].missing = {} /\ req[r].orphans = {} /\ ~req[r].insert
<1>1. HighlightsCoherent /\ ProfileTypeOK
  BY DEF Inv, Coherent
<1>2. h \in Request
  BY <1>1, Shapes DEF ProfileTypeOK, Writing
<1>3. ~Fresh(h) /\ WriterAgrees(r)
  BY <1>1 DEF HighlightsCoherent, WriterAgrees
<1>4. h \notin disturbed => SoleWriter(r, h)
  BY <1>1, <1>2, WritersIs DEF HighlightsCoherent, HighlightAgrees
<1>5. QED
  BY <1>2, <1>3, <1>4 DEF SoleWriter, At

LEMMA WholeStays ==
  ASSUME NEW h, ItemsOf(h)' = ItemsOf(h)
  PROVE  Whole(h)' <=> Whole(h)
BY DEF Whole

(* A request that does not move. *)
LEMMA WriterStays ==
  ASSUME Inv, \A w \in Request : ~Fresh(w) => Inserted(w),
         NEW x \in Request, req'[x] = req[x], req[x].pc \in Writing
  PROVE  WriterAgrees(x)'
<1>1. req[x].highlight \in Request /\ ~Fresh(req[x].highlight) /\ WriterAgrees(x)
  BY WriterKnows
<1>2. Inserted(req[x].highlight)
  BY <1>1
<1>3. QED
  BY <1>1, <1>2 DEF WriterAgrees, Inserted, Fresh

(* A highlight whose writers, items and row stay. *)
LEMMA HighlightStays ==
  ASSUME NEW h, HighlightAgrees(h), disturbed \subseteq disturbed',
         \A x \in Request :
           \/ req'[x] = req[x]
           \/ /\ ~(req[x].pc \in Writing /\ req[x].highlight = h)
              /\ ~(req'[x].pc \in Writing /\ req'[x].highlight = h),
         ItemsOf(h)' = ItemsOf(h), HighlightExists(h)' <=> HighlightExists(h)
  PROVE  HighlightAgrees(h)'
<1>1. Writers(h)' = Writers(h)
  BY WritersIs
<1>2. \A x \in Writers(h) : x \in Request /\ req'[x] = req[x]
  BY WritersIs
<1>3. Whole(h)' <=> Whole(h)
  BY WholeStays
<1>4. ASSUME NEW x \in Writers(h), SoleWriter(x, h)
      PROVE  SoleWriter(x, h)'
  BY <1>1, <1>2, <1>3, <1>4 DEF SoleWriter, At
<1>5. QED
  BY <1>1, <1>3, <1>4 DEF HighlightAgrees

(* A highlight that only r writes, if any. *)
LEMMA HighlightKept ==
  ASSUME NEW h, NEW r \in Request, Only(r), Writers(h) \subseteq {r},
         req'[r].pc \in Writing /\ req'[r].highlight = h =>
           /\ HighlightExists(h)'
           /\ IF req'[r].pc = "insertItems" THEN ItemsOf(h)' = {} ELSE Whole(h)'
           /\ req'[r].pc = "selectHighlight" => req'[r].copy = ItemsOf(h)'
           /\ req'[r].pc = "saveHighlight" =>
                req'[r].missing = {} /\ req'[r].orphans = {} /\ ~req'[r].insert,
         ~(req'[r].pc \in Writing /\ req'[r].highlight = h) /\ HighlightExists(h)' => Whole(h)'
  PROVE  HighlightAgrees(h)'
<1>1. \A x \in Writers(h)' : x = r
  BY WritersIs DEF Only
<1>2. CASE req'[r].pc \in Writing /\ req'[r].highlight = h
  <2>1. Writers(h)' = {r}
    BY <1>1, <1>2, WritersIs
  <2>2. SoleWriter(r, h)'
    BY <1>2, <2>1 DEF SoleWriter, At
  <2>3. QED
    BY <2>1, <2>2 DEF HighlightAgrees
<1>3. CASE ~(req'[r].pc \in Writing /\ req'[r].highlight = h)
  <2>1. Writers(h)' = {}
    BY <1>1, <1>3, WritersIs
  <2>2. QED
    BY <1>3, <2>1 DEF HighlightAgrees
<1>4. QED
  BY <1>2, <1>3

LEMMA HighlightsFrame ==
  ASSUME Inv, NEW PC, Within(PC), PC \cap (HighlightPC \cup {"idle"}) = {},
         UNCHANGED <<highlights, items, disturbed>>
  PROVE  HighlightsCoherent'
<1>a. /\ HighlightsCoherent
      /\ \A x \in highlights : x.id \in Request
      /\ \A i \in items : i.highlight \in Request
  BY DEF Inv, Coherent, ProfileTypeOK, HighlightsTypeOK, Highlight, Item
<1>b. \A w \in Request : ~Fresh(w) => Inserted(w)
  BY InsertedStays
<1>1. \A x \in Request : \/ req'[x] = req[x]
                         \/ req[x].pc \notin HighlightPC /\ req'[x].pc \notin HighlightPC
  BY DEF Within, HighlightPC, Writing
<1>2. \A x \in Request : req'[x].pc \in Writing => WriterAgrees(x)'
  BY <1>1, <1>b, WriterStays DEF HighlightPC
<1>3. ASSUME NEW h \in Request
      PROVE  HighlightAgrees(h)'
  <2>1. ItemsOf(h)' = ItemsOf(h) /\ (HighlightExists(h)' <=> HighlightExists(h))
    BY DEF ItemsOf, HighlightExists
  <2>2. HighlightAgrees(h)
    BY <1>a DEF HighlightsCoherent
  <2>3. QED
    BY <1>1, <2>1, <2>2, HighlightStays DEF HighlightPC
<1>4. \A x \in Request : req'[x].pc = "insertHighlight" => req'[x].media # {}
  BY <1>1, <1>a DEF HighlightsCoherent, HighlightPC
<1>5. /\ \A x \in highlights' : Inserted(x.id)
      /\ \A i \in items' : Inserted(i.highlight)
  BY <1>a, <1>b DEF HighlightsCoherent
<1>6. QED
  BY <1>2, <1>3, <1>4, <1>5 DEF HighlightsCoherent, Fresh, Inserted

(* A step of r on the highlight h. *)
LEMMA HighlightsStep ==
  ASSUME Inv, NEW r \in Request, NEW h \in Request, Only(r), Within(HighlightPC),
         disturbed \subseteq disturbed',
         req[r].pc \in Writing => req[r].highlight = h,
         req'[r].pc \in Writing => req'[r].highlight = h /\ WriterAgrees(r)',
         req'[r].pc = "insertHighlight" => req'[r].media # {},
         \A i \in items' : i \in items \/ i.highlight = h,
         \A i \in items : i \in items' \/ i.highlight = h,
         \A x \in highlights' : x \in highlights \/ x.id = h,
         \A x \in highlights : x \in highlights' \/ x.id = h,
         Inserted(h) \/ (items' \subseteq items /\ highlights' \subseteq highlights),
         HighlightAgrees(h)'
  PROVE  HighlightsCoherent'
<1>a. /\ HighlightsCoherent
      /\ \A x \in highlights : x.id \in Request
      /\ \A i \in items : i.highlight \in Request
  BY DEF Inv, Coherent, ProfileTypeOK, HighlightsTypeOK, Highlight, Item
<1>b. \A w \in Request : ~Fresh(w) => Inserted(w)
  <2>1. "idle" \notin HighlightPC
    BY DEF HighlightPC, Writing
  <2>2. QED
    BY <2>1, InsertedStays
<1>1. \A x \in Request : req'[x].pc \in Writing => WriterAgrees(x)'
  BY <1>b, WriterStays DEF Only
<1>2. ASSUME NEW g \in Request, g # h
      PROVE  HighlightAgrees(g)'
  <2>1. ItemsOf(g)' = ItemsOf(g) /\ (HighlightExists(g)' <=> HighlightExists(g))
    BY <1>2 DEF ItemsOf, HighlightExists
  <2>2. HighlightAgrees(g)
    BY <1>a DEF HighlightsCoherent
  <2>3. QED
    BY <1>2, <2>1, <2>2, HighlightStays DEF Only
<1>3. \A x \in Request : req'[x].pc = "insertHighlight" => req'[x].media # {}
  BY <1>a DEF HighlightsCoherent, Only
<1>4. /\ \A x \in highlights' : Inserted(x.id)
      /\ \A i \in items' : Inserted(i.highlight)
  BY <1>a, <1>b DEF HighlightsCoherent
<1>5. QED
  BY <1>1, <1>2, <1>3, <1>4 DEF HighlightsCoherent, Fresh, Inserted

(* A request that writes nothing yet, or no more. *)
LEMMA HighlightsCalm ==
  ASSUME Inv, NEW r \in Request, Only(r), Within(HighlightPC),
         req[r].pc \notin Writing, req'[r].pc \notin Writing,
         req'[r].pc = "insertHighlight" => req'[r].media # {},
         UNCHANGED <<highlights, items>>, disturbed \subseteq disturbed'
  PROVE  HighlightsCoherent'
<1>1. HighlightAgrees(r)
  BY DEF Inv, Coherent, HighlightsCoherent
<1>2. ItemsOf(r)' = ItemsOf(r) /\ (HighlightExists(r)' <=> HighlightExists(r))
  BY DEF ItemsOf, HighlightExists
<1>3. HighlightAgrees(r)'
  BY <1>1, <1>2, HighlightStays DEF Only
<1>4. QED
  BY <1>3, HighlightsStep

LEMMA HighlightsCohere ==
  ASSUME Inv, HighlightsNext
  PROVE  HighlightsCoherent'
<1>a. /\ HighlightsCoherent /\ ProfileTypeOK /\ Within(HighlightPC) /\ req' \in [Request -> Memory]
      /\ \A x \in highlights : x.id \in Request
      /\ \A i \in items : i.highlight \in Request
  BY HighlightsMove DEF Inv, Coherent, ProfileTypeOK, HighlightsTypeOK, Highlight, Item
<1>b. \A w \in Request : ~Fresh(w) => Inserted(w)
  <2>1. "idle" \notin HighlightPC
    BY DEF HighlightPC, Writing
  <2>2. QED
    BY <1>a, <2>1, InsertedStays
(* The beginning of a creation. *)
<1>1. ASSUME NEW r \in Request, NEW u, NEW media, NEW refused \in BOOLEAN,
             media = {} => refused,
             Begin(r, IF refused THEN Over
                      ELSE [op |-> "create", pc |-> "insertHighlight", user |-> u,
                            media |-> media]),
             UNCHANGED highlightVars
      PROVE  HighlightsCoherent'
  <2> DEFINE q == IF refused THEN Over
                  ELSE [op |-> "create", pc |-> "insertHighlight", user |-> u, media |-> media]
  <2>1. q.pc \in {"over", "insertHighlight"} /\ (q.pc = "insertHighlight" => q.media # {})
    BY <1>1 DEF Over
  <2>2. Begin(r, q)
    BY <1>1
  <2> HIDE DEF q
  <2>3. req[r].pc = "idle" /\ Only(r) /\ req'[r] = q
    BY <1>a, <2>2, BeginSets
  <2>4. QED
    BY <1>1, <1>a, <2>1, <2>3, HighlightsCalm DEF Writing, highlightVars
<1>2. ASSUME NEW r \in Request, NEW u \in User, NEW media \in SUBSET Medium, Create(r, u, media)
      PROVE  HighlightsCoherent'
  <2>1. (media = {}) \in BOOLEAN
    OBVIOUS
  <2>2. QED
    BY <1>1, <1>2, <2>1 DEF Create
<1>3. ASSUME NEW r \in Request, NEW u \in User, NEW named \in SUBSET Story,
             NEW twice \in BOOLEAN, CreateFromStories(r, u, named, twice)
      PROVE  HighlightsCoherent'
  <2> DEFINE refused == named = {} \/ twice \/ {s \in named : <<u, s>> \in stories} # named
  <2>1. refused \in BOOLEAN /\ (named = {} => refused)
    OBVIOUS
  <2>2. /\ Begin(r, IF refused THEN Over
                    ELSE [op |-> "create", pc |-> "insertHighlight", user |-> u,
                          media |-> named])
        /\ UNCHANGED highlightVars
    BY <1>3 DEF CreateFromStories
  <2> HIDE DEF refused
  <2>3. QED
    BY <1>1, <2>1, <2>2
<1>4. ASSUME NEW r \in Request, InsertHighlight(r)
      PROVE  HighlightsCoherent'
  <2> DEFINE row == [id |-> r, user |-> req[r].user]
             q == [op |-> "create", pc |-> "insertItems", highlight |-> r,
                   media |-> req[r].media]
  <2>1. /\ row.id = r /\ q.pc = "insertItems" /\ q.highlight = r /\ q.media = req[r].media
        /\ highlights' = highlights \cup {row} /\ items' = items /\ disturbed' = disturbed
        /\ req[r].pc = "insertHighlight" /\ req' = [req EXCEPT ![r] = q]
    BY <1>4 DEF InsertHighlight, At
  <2> HIDE DEF row, q
  <2>2. Only(r) /\ req'[r] = q
    BY <1>a, <2>1, Sets
  <2>3. Fresh(r) /\ Inserted(r) /\ req[r].media # {}
    BY <1>a, <2>1, <2>2 DEF Fresh, Inserted, HighlightsCoherent
  <2>4. WriterAgrees(r)'
    <3>1. Fresh(req[r].highlight)' = FALSE
      BY <2>1, <2>2 DEF Fresh
    <3>2. QED
      BY <2>1, <2>2, <2>3, <3>1 DEF WriterAgrees
  <2>5. Writers(r) = {}
    <3>1. \A x \in Request : req[x].pc \in Writing => req[x].highlight # r
      BY <2>3, WriterKnows
    <3>2. QED
      BY <3>1, WritersIs
  <2>6. ItemsOf(r)' = {}
    <3>1. \A i \in items : i.highlight # r
      BY <1>a, <2>3 DEF HighlightsCoherent
    <3>2. QED
      BY <2>1, <3>1 DEF ItemsOf
  <2>7. HighlightExists(r)'
    BY <2>1 DEF HighlightExists
  <2>8. HighlightAgrees(r)'
    BY <2>1, <2>2, <2>5, <2>6, <2>7, HighlightKept DEF Writing
  <2>9. QED
    BY <1>a, <2>1, <2>2, <2>3, <2>4, <2>8, HighlightsStep DEF Writing
(* A writer goes on with its highlight. *)
<1>5. ASSUME NEW r \in Request, NEW h, req[r].pc \in Writing, h = req[r].highlight, Only(r),
             disturbed \subseteq disturbed',
             req'[r].pc \in Writing =>
               /\ req'[r].highlight = h
               /\ req'[r].pc \in {"insertItems", "deleteItems"} => req'[r].media # {}
               /\ req'[r].pc = "selectHighlight" => \A i \in req'[r].copy : i.highlight = h
               /\ req'[r].pc = "saveHighlight" => \A i \in req'[r].missing : i.highlight = h,
             req'[r].pc # "insertHighlight",
             \A i \in items' : i \in items \/ i.highlight = h,
             \A i \in items : i \in items' \/ i.highlight = h,
             \A x \in highlights' : x \in highlights \/ x.id = h,
             \A x \in highlights : x \in highlights' \/ x.id = h,
             h \in disturbed' \/
               /\ req'[r].pc \in Writing =>
                    /\ HighlightExists(h)'
                    /\ IF req'[r].pc = "insertItems" THEN ItemsOf(h)' = {} ELSE Whole(h)'
                    /\ req'[r].pc = "selectHighlight" => req'[r].copy = ItemsOf(h)'
                    /\ req'[r].pc = "saveHighlight" =>
                         req'[r].missing = {} /\ req'[r].orphans = {} /\ ~req'[r].insert
               /\ req'[r].pc \notin Writing /\ HighlightExists(h)' => Whole(h)'
      PROVE  HighlightsCoherent'
  <2>1. h \in Request /\ ~Fresh(h) /\ (h \notin disturbed => Writers(h) = {r})
    BY <1>5, WriterKnows
  <2>2. Inserted(h)
    BY <1>b, <2>1
  <2>3. req'[r].pc \in Writing => WriterAgrees(r)'
    BY <1>5, <2>2 DEF WriterAgrees, Inserted, Fresh
  <2>4. HighlightAgrees(h)'
    <3>1. CASE h \in disturbed'
      BY <3>1 DEF HighlightAgrees
    <3>2. CASE h \notin disturbed'
      <4>1. Writers(h) \subseteq {r}
        BY <1>5, <2>1, <3>2
      <4>2. QED
        BY <1>5, <3>2, <4>1, HighlightKept
    <3>3. QED
      BY <3>1, <3>2
  <2>5. QED
    BY <1>5, <1>a, <2>1, <2>2, <2>3, <2>4, HighlightsStep
(* A writer that does not change the rows. *)
<1>6. ASSUME NEW h, UNCHANGED <<highlights, items>>
      PROVE  ItemsOf(h)' = ItemsOf(h) /\ (HighlightExists(h)' <=> HighlightExists(h))
             /\ (Whole(h)' <=> Whole(h))
  <2>1. ItemsOf(h)' = ItemsOf(h) /\ (HighlightExists(h)' <=> HighlightExists(h))
    BY <1>6 DEF ItemsOf, HighlightExists
  <2>2. QED
    BY <2>1, WholeStays
<1>7. ASSUME NEW r \in Request, InsertItems(r)
      PROVE  HighlightsCoherent'
  <2>0. PICK h : h = req[r].highlight
    OBVIOUS
  <2> DEFINE item(m) == [highlight |-> h, by |-> r, media |-> m]
             new == {item(m) : m \in req[r].media}
  <2>1. /\ req[r].pc = "insertItems" /\ req[r].pc \in Writing
        /\ highlights' = highlights /\ disturbed' = disturbed /\ Answer(r)
        /\ items' = IF HighlightExists(h) THEN items \cup new ELSE items
    BY <1>7, <2>0 DEF InsertItems, At, Writing
  <2>2. Only(r) /\ req'[r].pc = "over"
    BY <1>a, <2>1, AnswerSets DEF Over
  <2>3. req[r].media # {}
    <3>1. WriterAgrees(r)
      BY <2>1, WriterKnows
    <3>2. QED
      BY <2>1, <3>1 DEF WriterAgrees
  <2>4. new # {} /\ \A i \in new : i.highlight = h /\ i.by = r
    <3>1. \A m : item(m).highlight = h /\ item(m).by = r
      OBVIOUS
    <3> HIDE DEF item
    <3>2. QED
      BY <2>3, <3>1
  <2> HIDE DEF new
  <2>5. ASSUME h \notin disturbed
        PROVE  Whole(h)'
    <3>1. HighlightExists(h) /\ ItemsOf(h) = {}
      BY <2>1, <2>5, <2>0, WriterKnows
    <3>2. ItemsOf(h)' = new
      BY <2>1, <2>4, <3>1 DEF ItemsOf
    <3>3. QED
      BY <2>4, <3>2 DEF Whole
  <2>6. QED
    BY <1>5, <2>1, <2>2, <2>4, <2>5, <2>0 DEF Writing
<1>8. ASSUME NEW r \in Request, FindItems(r)
      PROVE  HighlightsCoherent'
  <2>0. PICK h : h = req[r].highlight
    OBVIOUS
  <2> DEFINE q == [op |-> "update", pc |-> "selectHighlight", user |-> req[r].user,
                   highlight |-> h, media |-> req[r].media, copy |-> ItemsOf(h)]
  <2>1. /\ req[r].pc = "findItems" /\ req[r].pc \in Writing /\ h = req[r].highlight
        /\ UNCHANGED <<highlights, items, disturbed>> /\ req' = [req EXCEPT ![r] = q]
        /\ q.pc = "selectHighlight" /\ q.highlight = h /\ q.copy = ItemsOf(h)
    BY <1>8, <2>0 DEF FindItems, At, Writing, highlightVars
  <2> HIDE DEF q
  <2>2. Only(r) /\ req'[r] = q
    BY <1>a, <2>1, Sets
  <2>3. \A i \in ItemsOf(h) : i.highlight = h
    BY DEF ItemsOf
  <2>4. h \notin disturbed => HighlightExists(h) /\ Whole(h)
    BY <2>1, WriterKnows
  <2>5. QED
    BY <1>5, <1>6, <2>1, <2>2, <2>3, <2>4
<1>9. ASSUME NEW r \in Request, SelectHighlight(r)
      PROVE  HighlightsCoherent'
  <2>0. PICK h : h = req[r].highlight
    OBVIOUS
  <2> DEFINE q == [op |-> "update", pc |-> "saveHighlight", user |-> req[r].user,
                   highlight |-> h, media |-> req[r].media,
                   missing |-> req[r].copy \ ItemsOf(h), orphans |-> ItemsOf(h) \ req[r].copy,
                   insert |-> ~HighlightExists(h)]
  <2>1. /\ req[r].pc = "selectHighlight" /\ req[r].pc \in Writing /\ h = req[r].highlight
        /\ UNCHANGED <<highlights, items, disturbed>> /\ req' = [req EXCEPT ![r] = q]
        /\ q.pc = "saveHighlight" /\ q.highlight = h
        /\ q.missing = req[r].copy \ ItemsOf(h) /\ q.orphans = ItemsOf(h) \ req[r].copy
        /\ q.insert = ~HighlightExists(h)
    BY <1>9, <2>0 DEF SelectHighlight, At, Writing, highlightVars
  <2> HIDE DEF q
  <2>2. Only(r) /\ req'[r] = q
    BY <1>a, <2>1, Sets
  <2>3. \A i \in q.missing : i.highlight = h
    BY <2>1, WriterKnows DEF WriterAgrees
  <2>4. h \notin disturbed => HighlightExists(h) /\ Whole(h) /\ req[r].copy = ItemsOf(h)
    BY <2>1, WriterKnows
  <2>5. QED
    BY <1>5, <1>6, <2>1, <2>2, <2>3, <2>4
<1>10. ASSUME NEW r \in Request, Answer(r), req[r].pc \in Writing,
              UNCHANGED <<highlights, items>>, disturbed \subseteq disturbed',
              \/ req[r].highlight \in disturbed'
              \/ req[r].pc # "insertItems"
       PROVE  HighlightsCoherent'
  <2>0. PICK h : h = req[r].highlight
    OBVIOUS
  <2>2. Only(r) /\ req'[r].pc = "over"
    BY <1>10, <1>a, AnswerSets DEF Over
  <2>3. h \in disturbed' \/ Whole(h)
    BY <1>10, <2>0, WriterKnows
  <2>4. QED
    BY <1>5, <1>6, <1>10, <2>0, <2>2, <2>3 DEF Writing
<1>11. ASSUME NEW r \in Request, SaveHighlight(r)
       PROVE  HighlightsCoherent'
  <2>0. PICK h : h = req[r].highlight
    OBVIOUS
  <2> DEFINE row == [id |-> h, user |-> req[r].user]
             q == AfterSave(r)
  <2>1. /\ req[r].pc = "saveHighlight" /\ req[r].pc \in Writing /\ disturbed' = disturbed
        /\ h = req[r].highlight /\ row.id = h
    BY <1>11, <2>0 DEF SaveHighlight, At, Writing
  <2>2. CASE Answer(r) /\ UNCHANGED <<highlights, items>>
    BY <1>10, <2>1, <2>2
  <2>3. CASE /\ req' = [req EXCEPT ![r] = q]
             /\ items' = items \cup req[r].missing
             /\ highlights' = IF req[r].insert THEN highlights \cup {row} ELSE highlights
    <3>1. \/ q.pc = "over"
          \/ q.pc = "deleteItems" /\ q.highlight = h /\ q.media # {}
      BY <2>0 DEF AfterSave, Over
    <3> HIDE DEF q, row
    <3>2. Only(r) /\ req'[r] = q
      BY <1>a, <2>3, Sets
    <3>3. \A i \in req[r].missing : i.highlight = h
      BY <2>1, WriterKnows DEF WriterAgrees
    <3>4. ASSUME h \notin disturbed
          PROVE  HighlightExists(h)' /\ Whole(h)'
      <4>1. HighlightExists(h) /\ Whole(h) /\ req[r].missing = {} /\ ~req[r].insert
        BY <2>1, <3>4, WriterKnows
      <4>2. UNCHANGED <<highlights, items>>
        BY <2>3, <4>1
      <4>3. QED
        BY <1>6, <4>1, <4>2
    <3>5. QED
      BY <1>5, <2>1, <2>3, <3>1, <3>2, <3>3, <3>4 DEF Writing
  <2>4. QED
    BY <1>11, <2>0, <2>2, <2>3 DEF SaveHighlight
<1>12. ASSUME NEW r \in Request, DeleteItems(r)
       PROVE  HighlightsCoherent'
  <2>0. PICK h : h = req[r].highlight
    OBVIOUS
  <2>1. /\ req[r].pc = "deleteItems" /\ req[r].pc \in Writing /\ h = req[r].highlight
        /\ UNCHANGED <<highlights, disturbed>> /\ GoTo(r, "insertItems")
        /\ items' = items \ ItemsOf(h)
    BY <1>12, <2>0 DEF DeleteItems, At, Writing
  <2>2. Only(r) /\ req'[r] = [req[r] EXCEPT !.pc = "insertItems"]
    BY <1>a, <2>1, GoToSets
  <2>3. req[r] \in [op : {"create", "update"}, pc : {"deleteItems", "insertItems"},
                    highlight : Request, media : SUBSET Medium]
    BY <1>a, <2>1, Shapes DEF ProfileTypeOK
  <2>4. req'[r].pc = "insertItems" /\ req'[r].highlight = h /\ req'[r].media = req[r].media
    BY <2>1, <2>2, <2>3
  <2>5. req[r].media # {} /\ (h \notin disturbed => HighlightExists(h))
    BY <2>1, WriterKnows DEF WriterAgrees
  <2>6. ItemsOf(h)' = {} /\ (HighlightExists(h)' <=> HighlightExists(h))
    BY <2>1 DEF ItemsOf, HighlightExists
  <2>7. \A i \in items : i \in items' \/ i.highlight = h
    BY <2>1 DEF ItemsOf
  <2>8. /\ \A i \in items' : i \in items
        /\ highlights' = highlights /\ disturbed' = disturbed
        /\ h \in disturbed' \/ HighlightExists(h)'
        /\ req'[r].pc \in Writing
    BY <2>1, <2>4, <2>5, <2>6 DEF Writing
  <2>9. QED
    BY <1>5, <2>1, <2>2, <2>4, <2>5, <2>6, <2>7, <2>8
<1>13. ASSUME NEW r \in Request, RemoveHighlight(r)
       PROVE  HighlightsCoherent'
  <2>0. PICK h : h = req[r].highlight
    OBVIOUS
  <2>1. /\ req[r].pc = "removeHighlight" /\ req[r].pc \in Writing /\ h = req[r].highlight
        /\ disturbed' = disturbed /\ Answer(r)
        /\ highlights' = {x \in highlights : x.id # h}
        /\ items' = items \ ItemsOf(h)
    BY <1>13, <2>0 DEF RemoveHighlight, At, Writing
  <2>2. Only(r) /\ req'[r].pc = "over"
    BY <1>a, <2>1, AnswerSets DEF Over
  <2>3. ~HighlightExists(h)'
    BY <2>1 DEF HighlightExists
  <2>4. \A i \in items : i \in items' \/ i.highlight = h
    BY <2>1 DEF ItemsOf
  <2>5. QED
    BY <1>5, <2>1, <2>2, <2>3, <2>4 DEF Writing
(* A call starts on the highlight h. *)
<1>14. ASSUME NEW r \in Request, NEW h \in Request, NEW q, Begin(r, q), Disturb(h),
              UNCHANGED <<highlights, items>>,
              \/ q = Over
              \/ /\ HighlightExists(h) /\ q.highlight = h
                 /\ q.pc \in {"findItems", "removeHighlight"}
       PROVE  HighlightsCoherent'
  <2>1. req[r].pc = "idle" /\ Only(r) /\ req'[r] = q
    BY <1>14, <1>a, BeginSets
  <2>2. disturbed \subseteq disturbed' /\ (Writers(h) # {} => h \in disturbed')
        /\ \A g \in disturbed' : g \in disturbed \/ g = h
    BY <1>14 DEF Disturb
  <2>3. CASE q = Over
    BY <1>14, <1>a, <2>1, <2>2, <2>3, HighlightsCalm DEF Over, Writing
  <2>4. CASE HighlightExists(h) /\ q.highlight = h /\ q.pc \in {"findItems", "removeHighlight"}
    <3>1. ~Fresh(h)
      BY <1>a, <2>4 DEF HighlightsCoherent, HighlightExists, Fresh
    <3>2. Inserted(h)
      BY <1>b, <3>1
    <3>3. WriterAgrees(r)'
      BY <2>1, <2>4, <3>2 DEF WriterAgrees, Inserted, Fresh
    <3>4. HighlightAgrees(h)'
      <4>1. CASE h \in disturbed'
        BY <4>1 DEF HighlightAgrees
      <4>2. CASE h \notin disturbed'
        <5>1. Writers(h) = {} /\ h \notin disturbed
          BY <2>2, <4>2
        <5>2. Whole(h)
          BY <1>a, <2>4, <5>1 DEF HighlightsCoherent, HighlightAgrees
        <5>3. Whole(h)' /\ HighlightExists(h)'
          BY <1>6, <1>14, <2>4, <5>2
        <5>4. QED
          BY <2>1, <2>4, <5>1, <5>3, HighlightKept
      <4>3. QED
        BY <4>1, <4>2
    <3>5. QED
      BY <1>14, <1>a, <2>1, <2>2, <2>4, <3>2, <3>3, <3>4, HighlightsStep DEF Writing
  <2>5. QED
    BY <1>14, <2>3, <2>4
<1>15. ASSUME NEW r \in Request, NEW u \in User, NEW h \in Request,
              NEW media \in (SUBSET Medium) \cup {None}, Update(r, u, h, media)
       PROVE  HighlightsCoherent'
  <2> DEFINE q == [op |-> "update", pc |-> "findItems", user |-> u, highlight |-> h,
                   media |-> media]
  <2>1. q.pc = "findItems" /\ q.highlight = h
    OBVIOUS
  <2>2. \/ Begin(r, Over)
        \/ Begin(r, q) /\ [id |-> h, user |-> u] \in highlights
    BY <1>15 DEF Update
  <2>3. [id |-> h, user |-> u] \in highlights => HighlightExists(h)
    BY DEF HighlightExists
  <2> HIDE DEF q
  <2>4. QED
    BY <1>14, <1>15, <2>1, <2>2, <2>3 DEF Update
<1>16. ASSUME NEW r \in Request, NEW u \in User, NEW h \in Request, Delete(r, u, h)
       PROVE  HighlightsCoherent'
  <2> DEFINE q == [op |-> "delete", pc |-> "removeHighlight", highlight |-> h]
  <2>1. q.pc = "removeHighlight" /\ q.highlight = h
    OBVIOUS
  <2>2. \/ Begin(r, Over)
        \/ Begin(r, q) /\ [id |-> h, user |-> u] \in highlights
    BY <1>16 DEF Delete
  <2>3. [id |-> h, user |-> u] \in highlights => HighlightExists(h)
    BY DEF HighlightExists
  <2> HIDE DEF q
  <2>4. QED
    BY <1>14, <1>16, <2>1, <2>2, <2>3 DEF Delete
<1>17. ASSUME NEW r \in Request, AbortHighlight(r)
       PROVE  HighlightsCoherent'
  <2>1. /\ Answer(r) /\ UNCHANGED <<highlights, items>>
        /\ req[r].pc \in Writing \cup {"insertHighlight"} /\ disturbed \subseteq disturbed'
        /\ req[r].pc = "insertItems" => req[r].highlight \in disturbed'
        /\ req[r].pc # "insertItems" => disturbed' = disturbed
    BY <1>17 DEF AbortHighlight, Abort, At
  <2>2. CASE req[r].pc \in Writing
    BY <1>10, <2>1, <2>2
  <2>3. CASE req[r].pc = "insertHighlight"
    <3>1. Only(r) /\ req'[r].pc = "over"
      BY <1>a, <2>1, AnswerSets DEF Over
    <3>2. QED
      BY <1>a, <2>1, <2>3, <3>1, HighlightsCalm DEF Writing
  <2>4. QED
    BY <2>1, <2>2, <2>3
<1>18. ASSUME NEW u \in User, NEW s \in Story, PublishStory(u, s) \/ DropStory(u, s)
       PROVE  HighlightsCoherent'
  <2>1. req' = req /\ UNCHANGED <<highlights, items, disturbed>>
    BY <1>18 DEF PublishStory, DropStory
  <2>2. Within({})
    BY <2>1 DEF Within
  <2>3. QED
    BY <2>1, <2>2, HighlightsFrame
<1>19. QED
  BY <1>2, <1>3, <1>4, <1>7, <1>8, <1>9, <1>11, <1>12, <1>13, <1>15, <1>16, <1>17, <1>18
     DEF HighlightsNext

-----------------------------------------------------------------------------
(* The invariant *)

LEMMA InvInit == Init => Inv
<1> SUFFICES ASSUME Init PROVE Inv
  OBVIOUS
<1> USE DEF Init, AccountsInit, HighlightsInit, LibraryInit
<1>1. \A r \in Request : req[r] = Idle /\ req[r].op = "none" /\ req[r].pc = "idle"
  BY DEF Idle
<1>2. ProfileTypeOK
  BY DEF ProfileTypeOK, Memory, AccountsTypeOK, HighlightsTypeOK, LibraryTypeOK
<1>3. AccountsCoherent
  BY <1>1 DEF AccountsCoherent, Registered, LoggedOutStaysOut
<1>4. HighlightsCoherent
  <2>1. \A h \in Request : Writers(h) = {} /\ ~HighlightExists(h)
    BY <1>1 DEF Writers, InFlight, HighlightExists
  <2>2. QED
    BY <1>1, <2>1 DEF HighlightsCoherent, HighlightAgrees, Writing
<1>5. BookmarksCoherent
  BY <1>1 DEF BookmarksCoherent, BookmarksAsAnswered, BookmarksOf
<1>6. CollectionsCoherent
  BY <1>1 DEF CollectionsCoherent, OneNamePerUser
<1>7. QED
  BY <1>2, <1>3, <1>4, <1>5, <1>6 DEF Inv, Coherent

(* The statements of the parts are not those of one another. *)
LEMMA PartsDiffer ==
  /\ AccountPC \cap (HighlightPC \cup TogglePC \cup NamePC \cup {"idle"}) = {}
  /\ HighlightPC \cap (AccountPC \cup TogglePC \cup NamePC \cup {"idle"}) = {}
  /\ TogglePC \cap (AccountPC \cup HighlightPC \cup NamePC \cup {"idle"}) = {}
  /\ CollectionPC \cap (AccountPC \cup HighlightPC \cup TogglePC \cup {"idle"}) = {}
BY DEF AccountPC, HighlightPC, Writing, TogglePC, NamePC, CollectionPC, LibraryPC

LEMMA InvStep == Inv /\ [Next]_vars => Inv'
<1> SUFFICES ASSUME Inv, [Next]_vars PROVE Inv'
  OBVIOUS
<1>1. ProfileTypeOK' /\ req' \in [Request -> Memory] /\ ProfileTypeOK /\ Coherent
  BY TypeStep DEF Inv, ProfileTypeOK
<1>2. ASSUME AccountsNext, UNCHANGED <<highlightVars, libraryVars>>
      PROVE  Coherent'
  <2>1. Within(AccountPC) /\ AccountsCoherent'
    BY <1>1, <1>2, AccountsMove, AccountsCohere
  <2>2. HighlightsCoherent'
    BY <1>2, <2>1, PartsDiffer, HighlightsFrame DEF highlightVars
  <2>3. BookmarksCoherent' /\ CollectionsCoherent'
    BY <1>1, <1>2, <2>1, PartsDiffer, BookmarksFrame, CollectionsFrame DEF libraryVars
  <2>4. QED
    BY <2>1, <2>2, <2>3 DEF Coherent
<1>3. ASSUME HighlightsNext, UNCHANGED <<accountVars, libraryVars>>
      PROVE  Coherent'
  <2>1. Within(HighlightPC) /\ HighlightsCoherent'
    BY <1>1, <1>3, HighlightsMove, HighlightsCohere
  <2>2. AccountsCoherent'
    BY <1>3, <2>1, PartsDiffer, AccountsFrame
  <2>3. BookmarksCoherent' /\ CollectionsCoherent'
    BY <1>1, <1>3, <2>1, PartsDiffer, BookmarksFrame, CollectionsFrame DEF libraryVars
  <2>4. QED
    BY <2>1, <2>2, <2>3 DEF Coherent
<1>4. ASSUME LibraryNext, UNCHANGED <<accountVars, highlightVars>>
      PROVE  Coherent'
  <2>1. CASE BookmarkStep
    <3>1. Within(TogglePC) /\ UNCHANGED <<collections, contested>> /\ BookmarksCoherent'
      BY <1>1, <2>1, BookmarksMove, BookmarksCohere
    <3>2. AccountsCoherent' /\ HighlightsCoherent'
      BY <1>4, <3>1, PartsDiffer, AccountsFrame, HighlightsFrame DEF highlightVars
    <3>3. CollectionsCoherent'
      BY <1>1, <3>1, PartsDiffer, CollectionsFrame
    <3>4. QED
      BY <3>1, <3>2, <3>3 DEF Coherent
  <2>2. CASE CollectionStep
    <3>1. /\ Within(CollectionPC) /\ UNCHANGED <<posts, bookmarks, answered>>
          /\ CollectionsCoherent'
      BY <1>1, <2>2, CollectionsMove, CollectionsCohere
    <3>2. AccountsCoherent' /\ HighlightsCoherent'
      BY <1>4, <3>1, PartsDiffer, AccountsFrame, HighlightsFrame DEF highlightVars
    <3>3. BookmarksCoherent'
      BY <1>1, <3>1, PartsDiffer, BookmarksFrame
    <3>4. QED
      BY <3>1, <3>2, <3>3 DEF Coherent
  <2>3. QED
    BY <1>1, <1>4, <2>1, <2>2, LibrarySteps
<1>5. ASSUME UNCHANGED vars
      PROVE  Coherent'
  <2>1. req' = req /\ UNCHANGED <<accountVars, highlightVars, libraryVars>>
    BY <1>5 DEF vars
  <2>2. Within({})
    BY <2>1 DEF Within
  <2>3. QED
    BY <1>1, <2>1, <2>2, AccountsFrame, HighlightsFrame, BookmarksFrame, CollectionsFrame
       DEF Coherent, highlightVars, libraryVars
<1>6. QED
  BY <1>1, <1>2, <1>3, <1>4, <1>5 DEF Next, Inv

-----------------------------------------------------------------------------
(* The theorems *)

(* Whatever calls are in flight and wherever one of them stops, the tables and what
   each handler has in memory agree. *)
THEOREM AlwaysInv == Spec => []Inv
<1>1. QED
  BY InvInit, InvStep, PTL DEF Spec

(* Tables and handlers hold what their columns and variables may hold. *)
THEOREM TypeCorrect == Spec => []ProfileTypeOK
<1>1. Inv => ProfileTypeOK
  BY DEF Inv
<1>2. QED
  BY <1>1, AlwaysInv, PTL

(* No refresh token from before a logout opens a session again, until the user
   logs in: AuthService.refresh against logout and the calls that store a token. *)
THEOREM LogoutHolds == Spec => []LoggedOutStaysOut
<1>1. Inv => LoggedOutStaysOut
  BY DEF Inv, Coherent, AccountsCoherent
<1>2. QED
  BY <1>1, AlwaysInv, PTL

(* A highlight that its calls have left alone, and that no failure or overlap has
   touched, has the items of one call: HighlightsService writes the two tables in
   statements of their own. *)
THEOREM HighlightsAreWhole == Spec => []HighlightsWhole
<1>1. Inv => HighlightsWhole
  <2> SUFFICES ASSUME Inv, NEW x \in highlights, Writers(x.id) = {}, x.id \notin disturbed
               PROVE  Whole(x.id)
    BY DEF HighlightsWhole, Whole
  <2>1. x.id \in Request /\ HighlightExists(x.id)
    BY DEF Inv, ProfileTypeOK, HighlightsTypeOK, Highlight, HighlightExists
  <2>2. HighlightAgrees(x.id)
    BY <2>1 DEF Inv, Coherent, HighlightsCoherent
  <2>3. QED
    BY <2>1, <2>2 DEF HighlightAgrees
<1>2. QED
  BY <1>1, AlwaysInv, PTL

(* Only calls that overlap give a user two collections of one name: the lookup of
   CollectionsService is enough for calls one after another. *)
THEOREM NamesAreUnique == Spec => []OneNamePerUser
<1>1. Inv => OneNamePerUser
  BY DEF Inv, Coherent, CollectionsCoherent
<1>2. QED
  BY <1>1, AlwaysInv, PTL

(* A bookmark is what the last toggle without a rival has answered. *)
THEOREM AnswersHold == Spec => []BookmarksAsAnswered
<1>1. Inv => BookmarksAsAnswered
  BY DEF Inv, Coherent, BookmarksCoherent
<1>2. QED
  BY <1>1, AlwaysInv, PTL
=============================================================================
