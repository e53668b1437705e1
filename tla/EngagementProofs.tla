-------------------------- MODULE EngagementProofs --------------------------
(***************************************************************************)
(* Safety of Engagement (posts, likes, comments, views and their counters) *)
(* for every set of users and posts and any number of calls.               *)
(***************************************************************************)
EXTENDS Engagement, FiniteSetTheorems, TLAPS

-----------------------------------------------------------------------------
(* The inductive invariant *)

(* The foreign keys hold, and an id is published once. *)
TablesAgree ==
  /\ IsFiniteSet(likes) /\ IsFiniteSet(comments) /\ IsFiniteSet(views)
  /\ shelved \subseteq born /\ \A x \in posts : x.id \in born
  /\ \A x, y \in posts : x.id = y.id => x = y
  /\ \A l \in likes : Exists(l.post)
  /\ \A c \in comments : Exists(c.post)
  /\ \A v \in views : Exists(v[2])

SavePC == {"selectPost", "updatePost", "reinsertPost"}

CommentPC == {"insertComment", "selectComment", "reinsertComment", "deleteReplies",
              "removeComment"}

(* The operation a call at a statement belongs to. *)
OpAt(pc) ==
  CASE pc \in {"findLike", "removeLike", "insertLike"}   -> {"like"}
    [] pc = "checkBlock"                                 -> {"like", "comment"}
    [] pc = "insertComment"                              -> {"comment"}
    [] pc \in {"selectComment", "reinsertComment"}       -> {"editComment"}
    [] pc \in {"deleteReplies", "removeComment"}         -> {"deleteComment"}
    [] pc \in SavePC                                     -> Saves
    [] pc = "removePost"                                 -> {"delete"}
    [] pc \in {"findView", "insertView"}                 -> {"view"}
    [] pc \in {"count", "notify"}                        -> {"like", "comment", "deleteComment",
                                                             "view", "share"}
    [] pc = "idle"                                       -> {"none"}
    [] pc \in {"done", "failed"} -> {"like", "comment", "editComment", "deleteComment", "archive",
                                     "unarchive", "edit", "delete", "view", "share"}

(* What a handler has in memory, of its own post and user. *)
HandlerAgrees(r) ==
  LET q == req[r]
  IN  /\ q.op \in OpAt(q.pc)
      /\ q.pc # "idle" => q.post \in born
      /\ q.owed # 0 => q.pc \in {"count", "failed"}
      /\ q.pc \in {"checkBlock", "findLike", "removeLike", "insertLike", "findView",
                   "insertView", "removePost"} \cup SavePC => q.user \in User
      /\ q.pc = "removeLike" => q.row \in Like /\ q.row.user = q.user /\ q.row.post = q.post
      /\ q.pc \in CommentPC \/ (q.pc = "checkBlock" /\ q.op = "comment") =>
           q.row \in Comment /\ q.row.post = q.post
      /\ q.pc \in {"findView", "insertView"} => q.post \in Reel
      /\ q.pc \in SavePC =>
           /\ q.copy \in PostRow /\ q.copy.id = q.post /\ q.copy.author = q.user
           /\ q.op = "archive" => q.copy.archived
      /\ r \in vanished \cup revived => q.pc \in {"count", "notify", "done", "failed"}

(* The calls that have counted what they had to, or never will. *)
Spent == {r \in Request : req[r].pc \in {"notify", "done", "failed"}}

Within(x, n) == \A k \in Counter : x.counts[k] <= n /\ 0 - x.counts[k] <= n

(* A counter has not moved farther than calls have counted; nor a copy of it. *)
CountersBounded ==
  /\ \A x \in posts : Within(x, Cardinality(Spent))
  /\ \A r \in Request : req[r].pc \in SavePC => Within(req[r].copy, Cardinality(Spent))

(* The calls that only the author of their post may make. *)
Owning(r) == req[r].pc \in SavePC \cup {"removePost"}

OwnersAgree ==
  \A r \in Request : Owning(r) =>
    /\ \A x \in posts : x.id = req[r].post => x.author = req[r].user
    /\ \A s \in Request : Owning(s) /\ req[s].post = req[r].post => req[s].user = req[r].user

(* A save without a rival is alone, and knows the flag of the row. *)
SaversAgree ==
  \A r \in Request : req[r].pc \in SavePC =>
    /\ req[r].post \in shelved => req[r].copy.archived
    /\ r \notin rivals =>
         /\ \A s \in Request : req[s].pc \in SavePC /\ req[s].post = req[r].post => s = r
         /\ req[r].pc = "updatePost" =>
              \A x \in posts : x.id = req[r].post =>
                "archived" \in req[r].columns \/ x.archived = req[r].copy.archived

Coherent ==
  /\ TablesAgree
  /\ \A r \in Request : HandlerAgrees(r)
  /\ CountersBounded
  /\ OwnersAgree
  /\ SaversAgree
  /\ LikesAccounted /\ CommentsNotUndercounted /\ ViewsAccounted
  /\ ArchivedStaysArchived

Inv == TypeOK /\ Coherent

-----------------------------------------------------------------------------
(* Counting *)

LEMMA CardNat ==
  ASSUME NEW S \in SUBSET Request
  PROVE  IsFiniteSet(S) /\ Cardinality(S) \in Nat /\ Cardinality(S) <= Cardinality(Request)
<1>1. IsFiniteSet(Request)
  BY MayFailAssumption
<1>2. IsFiniteSet(S) /\ Cardinality(S) <= Cardinality(Request)
  BY <1>1, FS_Subset
<1> QED BY <1>2, FS_CardinalityType

(* A set of calls that takes one in. *)
LEMMA CardTakes ==
  ASSUME NEW S \in SUBSET Request, NEW T \in SUBSET Request, NEW r \in Request,
         r \notin S, T = S \cup {r}
  PROVE  Cardinality(T) = Cardinality(S) + 1
BY CardNat, FS_AddElement

(* The calls owing by to counter k of p, in the requests f. *)
OwingIn(f, p, k, by) ==
  {r \in Request : f[r].post = p /\ f[r].counter = k /\ f[r].owed = by}

OwedIn(f, p, k) == Cardinality(OwingIn(f, p, k, 1)) - Cardinality(OwingIn(f, p, k, -1))

LEMMA OwedIs ==
  ASSUME NEW p, NEW k
  PROVE  Owed(p, k) = OwedIn(req, p, k) /\ Owed(p, k)' = OwedIn(req', p, k)
BY DEF Owed, OwedIn, OwingIn

LEMMA OwedInt ==
  ASSUME NEW f, NEW p, NEW k
  PROVE  OwedIn(f, p, k) \in Int
<1>1. OwingIn(f, p, k, 1) \in SUBSET Request /\ OwingIn(f, p, k, -1) \in SUBSET Request
  BY DEF OwingIn
<1> QED BY <1>1, CardNat DEF OwedIn

(* Only what a call owes to the counter matters. *)
LEMMA OwedSame ==
  ASSUME NEW f, NEW g, NEW p, NEW k,
         \A s \in Request :
           \/ f[s].post = g[s].post /\ f[s].counter = g[s].counter /\ f[s].owed = g[s].owed
           \/ /\ f[s].owed = 0 \/ f[s].counter # k \/ f[s].post # p
              /\ g[s].owed = 0 \/ g[s].counter # k \/ g[s].post # p
  PROVE  OwedIn(f, p, k) = OwedIn(g, p, k)
<1>1. OwingIn(f, p, k, 1) = OwingIn(g, p, k, 1)
  BY DEF OwingIn
<1>2. OwingIn(f, p, k, -1) = OwingIn(g, p, k, -1)
  BY DEF OwingIn
<1> QED BY <1>1, <1>2 DEF OwedIn

(* A call that owed nothing owes by to counter k of p. *)
LEMMA OwedTaken ==
  ASSUME NEW f, NEW g, NEW p, NEW k, NEW r \in Request, NEW by \in {1, -1},
         \A s \in Request \ {r} : f[s] = g[s],
         f[r].owed = 0, g[r].post = p, g[r].counter = k, g[r].owed = by
  PROVE  OwedIn(g, p, k) = OwedIn(f, p, k) + by
<1>0. 1 # 0 /\ -1 # 0 /\ 1 # -1
  OBVIOUS
<1>1. /\ OwingIn(g, p, k, by) = OwingIn(f, p, k, by) \cup {r}
      /\ r \notin OwingIn(f, p, k, by)
  BY <1>0 DEF OwingIn
<1>2. \A n \in {1, -1} \ {by} : OwingIn(g, p, k, n) = OwingIn(f, p, k, n)
  BY <1>0 DEF OwingIn
<1>3. \A n \in {1, -1} : /\ OwingIn(f, p, k, n) \in SUBSET Request
                         /\ OwingIn(g, p, k, n) \in SUBSET Request
  BY DEF OwingIn
<1>4. Cardinality(OwingIn(g, p, k, by)) = Cardinality(OwingIn(f, p, k, by)) + 1
  BY <1>1, <1>3, CardTakes
<1>5. \A n \in {1, -1} : /\ Cardinality(OwingIn(f, p, k, n)) \in Nat
                         /\ Cardinality(OwingIn(g, p, k, n)) \in Nat
  BY <1>3, CardNat
<1>6. CASE by = 1
  <2>1. OwingIn(g, p, k, -1) = OwingIn(f, p, k, -1)
    BY <1>2, <1>6
  <2> QED BY <1>4, <1>5, <1>6, <2>1 DEF OwedIn
<1>7. CASE by = -1
  <2>1. OwingIn(g, p, k, 1) = OwingIn(f, p, k, 1)
    BY <1>2, <1>7
  <2> QED BY <1>4, <1>5, <1>7, <2>1 DEF OwedIn
<1> QED BY <1>6, <1>7

(* The calls of a history set, by operation and post. *)
OfIn(f, calls, op, p) == {r \in calls : f[r].op = op /\ f[r].post = p}

LEMMA OfIs ==
  ASSUME NEW op, NEW p
  PROVE  /\ Of(vanished, op, p) = OfIn(req, vanished, op, p)
         /\ Of(revived, op, p) = OfIn(req, revived, op, p)
         /\ Of(vanished, op, p)' = OfIn(req', vanished', op, p)
         /\ Of(revived, op, p)' = OfIn(req', revived', op, p)
BY DEF Of, OfIn

LEMMA OfSame ==
  ASSUME NEW f, NEW g, NEW calls, NEW op, NEW p,
         \A s \in calls : f[s].op = g[s].op /\ f[s].post = g[s].post
  PROVE  OfIn(f, calls, op, p) = OfIn(g, calls, op, p)
BY DEF OfIn

LEMMA OfNat ==
  ASSUME NEW f, NEW calls \in SUBSET Request, NEW op, NEW p
  PROVE  Cardinality(OfIn(f, calls, op, p)) \in Nat
BY CardNat DEF OfIn

(* A call that joins the history set. *)
LEMMA OfTaken ==
  ASSUME NEW f, NEW g, NEW calls \in SUBSET Request, NEW r \in Request, NEW op, NEW p,
         r \notin calls, \A s \in calls : f[s].op = g[s].op /\ f[s].post = g[s].post
  PROVE  Cardinality(OfIn(g, calls \cup {r}, op, p)) =
           Cardinality(OfIn(f, calls, op, p))
             + (IF g[r].op = op /\ g[r].post = p THEN 1 ELSE 0)
<1>1. CASE g[r].op = op /\ g[r].post = p
  <2>1. OfIn(g, calls \cup {r}, op, p) = OfIn(f, calls, op, p) \cup {r}
    BY <1>1 DEF OfIn
  <2>2. /\ r \notin OfIn(f, calls, op, p) /\ OfIn(f, calls, op, p) \in SUBSET Request
        /\ OfIn(g, calls \cup {r}, op, p) \in SUBSET Request
    BY DEF OfIn
  <2> QED BY <1>1, <2>1, <2>2, CardTakes
<1>2. CASE ~(g[r].op = op /\ g[r].post = p)
  <2>1. OfIn(g, calls \cup {r}, op, p) = OfIn(f, calls, op, p)
    BY <1>2 DEF OfIn
  <2>2. Cardinality(OfIn(f, calls, op, p)) \in Nat
    BY OfNat
  <2> QED BY <1>2, <2>1, <2>2
<1> QED BY <1>1, <1>2

(* The rows of a finite table that belong to p. *)
LEMMA RowsNat ==
  ASSUME NEW table, IsFiniteSet(table), NEW rows \in SUBSET table
  PROVE  IsFiniteSet(rows) /\ Cardinality(rows) \in Nat
BY FS_Subset, FS_CardinalityType

(* Fewer rows count less. *)
LEMMA RowsShrink ==
  ASSUME NEW rows, IsFiniteSet(rows), NEW fewer \in SUBSET rows
  PROVE  /\ Cardinality(fewer) \in Nat /\ Cardinality(rows) \in Nat
         /\ Cardinality(fewer) <= Cardinality(rows)
         /\ fewer # rows => Cardinality(fewer) + 1 <= Cardinality(rows)
<1>1. /\ IsFiniteSet(fewer) /\ Cardinality(fewer) <= Cardinality(rows)
      /\ Cardinality(rows) = Cardinality(fewer) => rows = fewer
  BY FS_Subset
<1>2. Cardinality(fewer) \in Nat /\ Cardinality(rows) \in Nat
  BY <1>1, FS_CardinalityType
<1> QED BY <1>1, <1>2

-----------------------------------------------------------------------------
(* What a statement does to the requests *)

Only(r) == \A s \in Request \ {r} : req'[s] = req[s]

(* What no later statement reads is forgotten. *)
Forgotten(q) == q.user = None /\ q.row = None /\ q.copy = None /\ q.columns = {}

LEMMA GoToSets ==
  ASSUME NEW r \in Request, NEW pc \in Running, req \in [Request -> Req], GoTo(r, pc)
  PROVE  /\ req' \in [Request -> Req] /\ Only(r) /\ req'[r].pc = pc
         /\ req'[r].op = req[r].op /\ req'[r].user = req[r].user
         /\ req'[r].post = req[r].post /\ req'[r].row = req[r].row
         /\ req'[r].copy = req[r].copy /\ req'[r].columns = req[r].columns
         /\ req'[r].counter = req[r].counter /\ req'[r].owed = req[r].owed
BY DEF GoTo, Only, Req

LEMMA AnswerSets ==
  ASSUME NEW r \in Request, NEW pc \in {"done", "failed"}, req \in [Request -> Req],
         Answer(r, pc)
  PROVE  /\ req' \in [Request -> Req] /\ Only(r) /\ req'[r].pc = pc
         /\ req'[r].op = req[r].op /\ req'[r].post = req[r].post
         /\ Forgotten(req'[r])
         /\ req'[r].counter = req[r].counter /\ req'[r].owed = req[r].owed
<1>1. req[r] \in Req
  OBVIOUS
<1> DEFINE q == [Forget(req[r]) EXCEPT !.pc = pc]
<1>2. /\ q \in Req /\ q.pc = pc /\ q.op = req[r].op /\ q.post = req[r].post
      /\ q.user = None /\ q.row = None /\ q.copy = None /\ q.columns = {}
      /\ q.counter = req[r].counter /\ q.owed = req[r].owed
  BY <1>1 DEF Forget, Req
<1>3. req' = [req EXCEPT ![r] = q]
  BY DEF Answer
<1> HIDE DEF q
<1>4. req' \in [Request -> Req] /\ req'[r] = q /\ Only(r)
  BY <1>2, <1>3 DEF Only
<1> QED BY <1>2, <1>4 DEF Forgotten

LEMMA OweSets ==
  ASSUME NEW r \in Request, NEW k \in Counter, NEW by \in {1, -1}, req \in [Request -> Req],
         Owe(r, k, by)
  PROVE  /\ req' \in [Request -> Req] /\ Only(r) /\ req'[r].pc = "count"
         /\ req'[r].op = req[r].op /\ req'[r].post = req[r].post
         /\ Forgotten(req'[r])
         /\ req'[r].counter = k /\ req'[r].owed = by
<1>1. req[r] \in Req
  OBVIOUS
<1> DEFINE q == [Forget(req[r]) EXCEPT !.pc = "count", !.counter = k, !.owed = by]
<1>2. /\ q \in Req /\ q.pc = "count" /\ q.op = req[r].op /\ q.post = req[r].post
      /\ q.user = None /\ q.row = None /\ q.copy = None /\ q.columns = {}
      /\ q.counter = k /\ q.owed = by
  BY <1>1 DEF Forget, Req, Running
<1>3. req' = [req EXCEPT ![r] = q]
  BY DEF Owe
<1> HIDE DEF q
<1>4. req' \in [Request -> Req] /\ req'[r] = q /\ Only(r)
  BY <1>2, <1>3 DEF Only
<1> QED BY <1>2, <1>4 DEF Forgotten

LEMMA BeginSets ==
  ASSUME NEW r \in Request, NEW pc \in Running, NEW u \in User, NEW p \in Post,
         NEW op \in {"like", "delete", "view"},
         req \in [Request -> Req], Begin(r, op, pc, u, p)
  PROVE  /\ req[r].pc = "idle"
         /\ req' \in [Request -> Req] /\ Only(r) /\ req'[r].pc = pc
         /\ req'[r].op = op /\ req'[r].user = u /\ req'[r].post = p
         /\ req'[r].row = req[r].row /\ req'[r].copy = req[r].copy
         /\ req'[r].counter = req[r].counter /\ req'[r].owed = req[r].owed
<1>1. req[r] \in Req
  OBVIOUS
<1> DEFINE q == [req[r] EXCEPT !.op = op, !.pc = pc, !.user = u, !.post = p]
<1>2. /\ q \in Req /\ q.pc = pc /\ q.op = op /\ q.user = u /\ q.post = p
      /\ q.row = req[r].row /\ q.copy = req[r].copy
      /\ q.counter = req[r].counter /\ q.owed = req[r].owed
  BY <1>1 DEF Req
<1>3. req' = [req EXCEPT ![r] = q] /\ req[r].pc = "idle"
  BY DEF Begin, At
<1> HIDE DEF q
<1>4. req' \in [Request -> Req] /\ req'[r] = q /\ Only(r)
  BY <1>2, <1>3 DEF Only
<1> QED BY <1>2, <1>3, <1>4

-----------------------------------------------------------------------------
(* What a step of one call leaves true *)

LEMMA HandlersKeep ==
  ASSUME NEW r \in Request, \A s \in Request : HandlerAgrees(s), Only(r),
         born \subseteq born', vanished' \cup revived' \subseteq vanished \cup revived \cup {r},
         HandlerAgrees(r)'
  PROVE  (\A s \in Request : HandlerAgrees(s))'
<1>1. ASSUME NEW s \in Request, s # r
      PROVE  HandlerAgrees(s)'
  <2>1. req'[s] = req[s]
    BY <1>1 DEF Only
  <2>2. s \in vanished' \cup revived' => s \in vanished \cup revived
    BY <1>1
  <2> QED BY <2>1, <2>2 DEF HandlerAgrees
<1> QED BY <1>1

(* A call that has paid its debt stays so. *)
LEMMA SpentGrows ==
  ASSUME NEW r \in Request, Only(r),
         req[r].pc \in {"notify", "done", "failed"} => req'[r].pc \in {"notify", "done", "failed"}
  PROVE  Cardinality(Spent) \in Nat /\ Cardinality(Spent)' \in Nat
         /\ Cardinality(Spent) <= Cardinality(Spent)'
<1>1. Spent \in SUBSET Request /\ Spent' \in SUBSET Request
  BY DEF Spent
<1>2. Spent \subseteq Spent'
  BY DEF Spent, Only
<1>3. IsFiniteSet(Spent') /\ Cardinality(Spent) \in Nat /\ Cardinality(Spent)' \in Nat
  BY <1>1, CardNat
<1>4. Cardinality(Spent) <= Cardinality(Spent')
  BY <1>2, <1>3, FS_Subset
<1> QED BY <1>3, <1>4

LEMMA WithinMore ==
  ASSUME NEW x \in PostRow, NEW m \in Nat, NEW n \in Nat, m <= n, Within(x, m)
  PROVE  Within(x, n)
<1>1. \A k \in Counter : x.counts[k] \in Int
  <2>1. Cardinality(Request) \in Nat
    BY CardNat
  <2> QED BY <2>1 DEF PostRow, Count
<1> QED BY <1>1 DEF Within

LEMMA BoundedKeeps ==
  ASSUME NEW r \in Request, CountersBounded, posts \subseteq PostRow, Only(r),
         req[r].pc \in {"notify", "done", "failed"} => req'[r].pc \in {"notify", "done", "failed"},
         \A s \in Request : HandlerAgrees(s),
         \A x \in posts' : \/ Within(x, Cardinality(Spent)')
                           \/ \E y \in posts : x = y
                           \/ \E s \in Request : req[s].pc \in SavePC /\ x = req[s].copy,
         req'[r].pc \in SavePC => \/ Within(req'[r].copy, Cardinality(Spent)')
                                  \/ req[r].pc \in SavePC /\ req'[r].copy = req[r].copy
  PROVE  CountersBounded'
<1>1. Cardinality(Spent) \in Nat /\ Cardinality(Spent)' \in Nat
      /\ Cardinality(Spent) <= Cardinality(Spent)'
  BY SpentGrows
<1>2. \A s \in Request : req[s].pc \in SavePC => /\ Within(req[s].copy, Cardinality(Spent)')
                                                 /\ Within(req[s].copy, Cardinality(Spent))
  BY <1>1, WithinMore DEF CountersBounded, HandlerAgrees
<1>3. \A y \in posts : Within(y, Cardinality(Spent)')
  BY <1>1, WithinMore DEF CountersBounded
<1>4. \A x \in posts' : Within(x, Cardinality(Spent)')
  BY <1>2, <1>3
<1>5. \A s \in Request : req'[s].pc \in SavePC => Within(req'[s].copy, Cardinality(Spent)')
  BY <1>2 DEF Only
<1> QED BY <1>4, <1>5 DEF CountersBounded

(* The rows are those of before, counters aside. *)
RowsOf(after, before) ==
  \A x \in after : \E y \in before : y.id = x.id /\ y.author = x.author
                                     /\ y.archived = x.archived

(* A call that is no save, and no deletion that has to be its author's. *)
LEMMA Steady ==
  ASSUME NEW r \in Request, OwnersAgree, SaversAgree, ArchivedStaysArchived, Only(r),
         req'[r].pc \notin SavePC \cup {"removePost"}, RowsOf(posts', posts),
         shelved' \subseteq shelved, rivals' = rivals
  PROVE  OwnersAgree' /\ SaversAgree' /\ ArchivedStaysArchived'
<1>1. \A s \in Request : req'[s].pc \in SavePC \cup {"removePost"} => s # r /\ req'[s] = req[s]
  BY DEF Only
<1>2. OwnersAgree'
  BY <1>1 DEF OwnersAgree, Owning, RowsOf
<1>3. SaversAgree'
  <2>1. ASSUME NEW s \in Request, req'[s].pc \in SavePC
        PROVE  /\ req[s].pc \in SavePC /\ req'[s] = req[s]
               /\ req'[s].post \in shelved' => req'[s].copy.archived
    BY <1>1, <2>1 DEF SaversAgree
  <2>2. ASSUME NEW s \in Request, req'[s].pc \in SavePC, s \notin rivals'
        PROVE  /\ \A t \in Request : req'[t].pc \in SavePC /\ req'[t].post = req'[s].post => t = s
               /\ req'[s].pc = "updatePost" =>
                    \A x \in posts' : x.id = req'[s].post =>
                      "archived" \in req'[s].columns \/ x.archived = req'[s].copy.archived
    BY <1>1, <2>1, <2>2 DEF SaversAgree, RowsOf
  <2> QED BY <2>1, <2>2 DEF SaversAgree
<1>4. ArchivedStaysArchived'
  BY DEF ArchivedStaysArchived, RowsOf
<1> QED BY <1>2, <1>3, <1>4

-----------------------------------------------------------------------------
(* The ledgers: what a step of a call does to the three counts of a post *)

Kept == {"likes", "comments", "views"}

(* The debts of the call r to the counters kept are those of before. *)
SameDebt(before, after) ==
  \/ /\ after.post = before.post /\ after.counter = before.counter
     /\ after.owed = before.owed
  \/ before.owed = 0 /\ (after.owed = 0 \/ after.counter \notin Kept)

LEMMA DebtKept ==
  ASSUME NEW r \in Request, Only(r), SameDebt(req[r], req'[r])
  PROVE  \A p, k : k \in Kept => Owed(p, k)' = Owed(p, k)
<1> SUFFICES ASSUME NEW p, NEW k \in Kept
             PROVE  Owed(p, k)' = Owed(p, k)
  OBVIOUS
<1>1. OwedIn(req, p, k) = OwedIn(req', p, k)
  BY OwedSame DEF Only, SameDebt
<1> QED BY <1>1, OwedIs

(* The call names its operation and post before it joins a history set. *)
SameName(r) ==
  r \in vanished \cup revived => req'[r].op = req[r].op /\ req'[r].post = req[r].post

LEMMA VanishedKept ==
  ASSUME NEW r \in Request, Only(r), SameName(r), vanished' = vanished,
         vanished \subseteq Request
  PROVE  \A op, p : Of(vanished, op, p)' = Of(vanished, op, p)
<1> SUFFICES ASSUME NEW op, NEW p
             PROVE  Of(vanished, op, p)' = Of(vanished, op, p)
  OBVIOUS
<1>1. OfIn(req, vanished, op, p) = OfIn(req', vanished, op, p)
  <2>1. \A s \in vanished : req[s].op = req'[s].op /\ req[s].post = req'[s].post
    BY DEF Only, SameName
  <2> QED BY <2>1, OfSame
<1> QED BY <1>1, OfIs

LEMMA RevivedKept ==
  ASSUME NEW r \in Request, Only(r), SameName(r), revived' = revived,
         revived \subseteq Request
  PROVE  \A op, p : Of(revived, op, p)' = Of(revived, op, p)
<1> SUFFICES ASSUME NEW op, NEW p
             PROVE  Of(revived, op, p)' = Of(revived, op, p)
  OBVIOUS
<1>1. OfIn(req, revived, op, p) = OfIn(req', revived, op, p)
  <2>1. \A s \in revived : req[s].op = req'[s].op /\ req[s].post = req'[s].post
    BY DEF Only, SameName
  <2> QED BY <2>1, OfSame
<1> QED BY <1>1, OfIs

LEMMA LedgersKept ==
  ASSUME NEW r \in Request, LikesAccounted, CommentsNotUndercounted, ViewsAccounted,
         UNCHANGED <<posts, likes, comments, views, vanished, revived>>,
         resaved \subseteq resaved', vanished \cup revived \subseteq Request, Only(r),
         SameDebt(req[r], req'[r]), SameName(r)
  PROVE  LikesAccounted' /\ CommentsNotUndercounted' /\ ViewsAccounted'
<1>1. \A p, k : k \in Kept => Owed(p, k)' = Owed(p, k)
  BY DebtKept
<1>2. \A op, p : Of(vanished, op, p)' = Of(vanished, op, p)
  BY VanishedKept
<1>3. \A op, p : Of(revived, op, p)' = Of(revived, op, p)
  BY RevivedKept
<1>4. LikesAccounted'
  <2> SUFFICES ASSUME NEW x \in posts, x.id \notin resaved'
               PROVE  x.counts["likes"] + Owed(x.id, "likes")' =
                        Cardinality({l \in likes : l.post = x.id})
                          - Cardinality(Of(vanished, "like", x.id)')
    BY DEF LikesAccounted
  <2>1. Owed(x.id, "likes")' = Owed(x.id, "likes")
    BY <1>1 DEF Kept
  <2>2. Of(vanished, "like", x.id)' = Of(vanished, "like", x.id)
    BY <1>2
  <2> QED BY <2>1, <2>2 DEF LikesAccounted
<1>5. CommentsNotUndercounted'
  <2> SUFFICES ASSUME NEW x \in posts, x.id \notin resaved'
               PROVE  Cardinality({c \in comments : c.post = x.id}) <=
                        x.counts["comments"] + Owed(x.id, "comments")'
                          + Cardinality(Of(vanished, "deleteComment", x.id)')
                          + Cardinality(Of(revived, "editComment", x.id)')
    BY DEF CommentsNotUndercounted
  <2>1. Owed(x.id, "comments")' = Owed(x.id, "comments")
    BY <1>1 DEF Kept
  <2>2. Of(vanished, "deleteComment", x.id)' = Of(vanished, "deleteComment", x.id)
    BY <1>2
  <2>3. Of(revived, "editComment", x.id)' = Of(revived, "editComment", x.id)
    BY <1>3
  <2> QED BY <2>1, <2>2, <2>3 DEF CommentsNotUndercounted
<1>6. ViewsAccounted'
  <2> SUFFICES ASSUME NEW x \in posts, x.id \notin resaved'
               PROVE  x.counts["views"] + Owed(x.id, "views")' =
                        Cardinality({v \in views : v[2] = x.id})
    BY DEF ViewsAccounted
  <2>1. Owed(x.id, "views")' = Owed(x.id, "views")
    BY <1>1 DEF Kept
  <2> QED BY <2>1 DEF ViewsAccounted
<1> QED BY <1>4, <1>5, <1>6

Paid == {"notify", "done", "failed"}

(* A call that changes no table, and begins neither a save nor a deletion of a post. *)
LEMMA Plain ==
  ASSUME NEW r \in Request, Inv, req' \in [Request -> Req], Only(r),
         UNCHANGED <<posts, likes, comments, views, history>>, HandlerAgrees(r)',
         req'[r].pc \notin SavePC \cup {"removePost"},
         req[r].pc \in Paid => req'[r].pc \in Paid,
         SameDebt(req[r], req'[r]), SameName(r)
  PROVE  Inv'
<1> USE DEF Inv, Coherent
<1>1. TypeOK'
  BY DEF TypeOK, history
<1>2. TablesAgree'
  BY DEF TablesAgree, history, Exists
<1>3. (\A s \in Request : HandlerAgrees(s))'
  BY HandlersKeep DEF history
<1>4. CountersBounded'
  BY BoundedKeeps DEF TypeOK, Paid
<1>5. OwnersAgree' /\ SaversAgree' /\ ArchivedStaysArchived'
  <2>1. RowsOf(posts', posts)
    BY DEF RowsOf
  <2> QED BY <2>1, Steady DEF history
<1>6. LikesAccounted' /\ CommentsNotUndercounted' /\ ViewsAccounted'
  BY LedgersKept DEF history, TypeOK
<1> QED BY <1>1, <1>2, <1>3, <1>4, <1>5, <1>6

-----------------------------------------------------------------------------
(* The handlers that change no table *)

LEMMA Born ==
  ASSUME Inv, NEW p \in Post, Exists(p)
  PROVE  p \in born
BY DEF Inv, Coherent, TablesAgree, Exists

(* A call that has not begun owes nothing and is in no history set. *)
LEMMA IdleIsFree ==
  ASSUME Inv, NEW r \in Request, req[r].pc = "idle"
  PROVE  req[r].owed = 0 /\ r \notin vanished \cup revived /\ req[r] \in Req
BY DEF Inv, Coherent, HandlerAgrees, TypeOK

LEMMA AnswerStep ==
  ASSUME Inv, NEW r \in Request, NEW pc \in {"done", "failed"}, Answer(r, pc),
         req[r].pc \in Running, req[r].owed = 0 \/ pc = "failed",
         UNCHANGED <<posts, likes, comments, views, history>>
  PROVE  Inv'
<1>1. req \in [Request -> Req]
  BY DEF Inv, TypeOK
<1>2. /\ req' \in [Request -> Req] /\ Only(r) /\ req'[r].pc = pc
      /\ req'[r].op = req[r].op /\ req'[r].post = req[r].post
      /\ Forgotten(req'[r])
      /\ req'[r].counter = req[r].counter /\ req'[r].owed = req[r].owed
  BY <1>1, AnswerSets
<1>3. HandlerAgrees(r)
  BY DEF Inv, Coherent
<1>4. req'[r].op \in OpAt(pc)
  BY <1>2, <1>3 DEF HandlerAgrees, OpAt, Running, SavePC, Saves
<1>5. HandlerAgrees(r)'
  BY <1>2, <1>3, <1>4 DEF HandlerAgrees, Running, SavePC, CommentPC, history
<1>6. SameDebt(req[r], req'[r]) /\ SameName(r)
  BY <1>2 DEF SameDebt, SameName
<1> QED BY <1>2, <1>5, <1>6, Plain DEF SavePC, Paid

(* A call that goes on to its next statement. *)
LEMMA GoToStep ==
  ASSUME Inv, NEW r \in Request, NEW pc \in Running \ (SavePC \cup {"removePost"}), GoTo(r, pc),
         req[r].pc \notin Paid \cup {"idle", "count"}, req[r].op \in OpAt(pc),
         HandlerAgrees(r)', UNCHANGED <<posts, likes, comments, views, history>>
  PROVE  Inv'
<1>1. req \in [Request -> Req]
  BY DEF Inv, TypeOK
<1>2. /\ req' \in [Request -> Req] /\ Only(r) /\ req'[r].pc = pc
      /\ req'[r].op = req[r].op /\ req'[r].post = req[r].post
      /\ req'[r].counter = req[r].counter /\ req'[r].owed = req[r].owed
  BY <1>1, GoToSets
<1>3. SameDebt(req[r], req'[r]) /\ SameName(r)
  BY <1>2 DEF SameDebt, SameName
<1> QED BY <1>2, <1>3, Plain

LEMMA CheckBlockStep ==
  ASSUME Inv, NEW r \in Request, CheckBlock(r)
  PROVE  Inv'
<1>1. req \in [Request -> Req] /\ HandlerAgrees(r) /\ req[r].pc = "checkBlock"
  BY DEF Inv, Coherent, TypeOK, CheckBlock, At
<1>2. req[r].owed = 0 /\ req[r].op \in {"like", "comment"}
  BY <1>1 DEF HandlerAgrees, OpAt, SavePC
<1>3. CASE Answer(r, "failed")
  BY <1>1, <1>2, <1>3, AnswerStep DEF CheckBlock, Running
<1>4. CASE GoTo(r, IF req[r].op = "like" THEN "findLike" ELSE "insertComment")
  <2> DEFINE pc == IF req[r].op = "like" THEN "findLike" ELSE "insertComment"
  <2>1. pc \in {"findLike", "insertComment"} /\ pc \in Running /\ GoTo(r, pc)
    BY <1>4 DEF Running
  <2>2. /\ req'[r].pc = pc /\ req'[r].op = req[r].op /\ req'[r].user = req[r].user
        /\ req'[r].post = req[r].post /\ req'[r].row = req[r].row
        /\ req'[r].owed = req[r].owed
    BY <1>1, <2>1, GoToSets
  <2>3. req[r].op \in OpAt(pc)
    <3>1. \/ req[r].op = "like" /\ pc = "findLike"
          \/ req[r].op = "comment" /\ pc = "insertComment"
      BY <1>2
    <3>2. "like" \in OpAt("findLike") /\ "comment" \in OpAt("insertComment")
      BY DEF OpAt, SavePC, Saves
    <3> HIDE DEF pc
    <3> QED BY <3>1, <3>2
  <2>4. HandlerAgrees(r)'
    BY <1>1, <1>2, <2>2, <2>3 DEF HandlerAgrees, CheckBlock, history, SavePC, CommentPC
  <2> HIDE DEF pc
  <2>5. pc \in Running \ (SavePC \cup {"removePost"})
    BY <2>1 DEF SavePC
  <2>6. req[r].pc \notin Paid \cup {"idle", "count"}
    BY <1>1 DEF Paid
  <2> QED BY <2>1, <2>3, <2>4, <2>5, <2>6, GoToStep DEF CheckBlock
<1> QED BY <1>3, <1>4 DEF CheckBlock

LEMMA FindLikeStep ==
  ASSUME Inv, NEW r \in Request, FindLike(r)
  PROVE  Inv'
<1>1. req \in [Request -> Req] /\ HandlerAgrees(r) /\ req[r].pc = "findLike" /\ likes \subseteq Like
  BY DEF Inv, Coherent, TypeOK, FindLike, At
<1>2. req[r].owed = 0 /\ req[r].op = "like"
  BY <1>1 DEF HandlerAgrees, OpAt, SavePC
<1>3. CASE GoTo(r, "insertLike")
  <2>1. /\ req'[r].pc = "insertLike" /\ req'[r].op = req[r].op /\ req'[r].user = req[r].user
        /\ req'[r].post = req[r].post /\ req'[r].owed = req[r].owed
    BY <1>1, <1>3, GoToSets DEF Running
  <2>2. HandlerAgrees(r)'
    BY <1>1, <1>2, <2>1 DEF HandlerAgrees, OpAt, FindLike, history, SavePC, CommentPC
  <2>3. "insertLike" \in Running \ (SavePC \cup {"removePost"}) /\ req[r].op \in OpAt("insertLike")
    BY <1>2 DEF Running, SavePC, OpAt
  <2>4. req[r].pc \notin Paid \cup {"idle", "count"}
    BY <1>1 DEF Paid
  <2> QED BY <1>3, <2>2, <2>3, <2>4, GoToStep DEF FindLike
<1>4. ASSUME NEW l \in likes, l.user = req[r].user, l.post = req[r].post,
             req' = [req EXCEPT ![r].pc = "removeLike", ![r].row = l]
      PROVE  Inv'
  <2>0. req[r] \in Req /\ l \in Like
    BY <1>1
  <2> DEFINE q == [req[r] EXCEPT !.pc = "removeLike", !.row = l]
  <2>1. /\ q \in Req /\ q.pc = "removeLike" /\ q.row = l /\ q.op = req[r].op
        /\ q.user = req[r].user /\ q.post = req[r].post
        /\ q.counter = req[r].counter /\ q.owed = req[r].owed
    BY <2>0 DEF Req, Running
  <2>2. req' = [req EXCEPT ![r] = q]
    BY <1>4
  <2> HIDE DEF q
  <2>3. req' \in [Request -> Req] /\ req'[r] = q /\ Only(r)
    BY <1>1, <2>1, <2>2 DEF Only
  <2>4. HandlerAgrees(r)'
    <3>1. q.op \in OpAt("removeLike")
      BY <1>2, <2>1 DEF OpAt, SavePC, Saves
    <3>2. born' = born /\ vanished' = vanished /\ revived' = revived
      BY DEF FindLike, history
    <3> QED
      BY <1>1, <1>2, <1>4, <2>0, <2>1, <2>3, <3>1, <3>2 DEF HandlerAgrees, SavePC, CommentPC
  <2>5. SameDebt(req[r], req'[r]) /\ SameName(r)
    BY <2>1, <2>3 DEF SameDebt, SameName
  <2>6. req'[r].pc \notin SavePC \cup {"removePost"} /\ req[r].pc \notin Paid
    BY <1>1, <2>1, <2>3 DEF SavePC, Paid
  <2> QED BY <2>3, <2>4, <2>5, <2>6, Plain DEF FindLike
<1> QED BY <1>3, <1>4 DEF FindLike

LEMMA NotifyStep ==
  ASSUME Inv, NEW r \in Request, Notify(r)
  PROVE  Inv'
<1>1. HandlerAgrees(r) /\ req[r].pc = "notify"
  BY DEF Inv, Coherent, Notify, At
<1>2. req[r].owed = 0
  BY <1>1 DEF HandlerAgrees
<1> QED BY <1>1, <1>2, AnswerStep DEF Notify, Running

LEMMA FailStep ==
  ASSUME Inv, NEW r \in Request, Fail(r)
  PROVE  Inv'
BY AnswerStep DEF Fail

LEMMA SelectCommentStep ==
  ASSUME Inv, NEW r \in Request, SelectComment(r)
  PROVE  Inv'
<1>1. req \in [Request -> Req] /\ HandlerAgrees(r) /\ req[r].pc = "selectComment"
  BY DEF Inv, Coherent, TypeOK, SelectComment, At
<1>2. req[r].owed = 0 /\ req[r].op = "editComment"
  BY <1>1 DEF HandlerAgrees, OpAt, SavePC
<1>3. CASE Answer(r, "done")
  BY <1>1, <1>2, <1>3, AnswerStep DEF SelectComment, Running
<1>4. CASE GoTo(r, "reinsertComment")
  <2>1. /\ req'[r].pc = "reinsertComment" /\ req'[r].op = req[r].op
        /\ req'[r].user = req[r].user /\ req'[r].row = req[r].row
        /\ req'[r].post = req[r].post /\ req'[r].owed = req[r].owed
    BY <1>1, <1>4, GoToSets DEF Running
  <2>2. HandlerAgrees(r)'
    BY <1>1, <1>2, <2>1 DEF HandlerAgrees, OpAt, SelectComment, history, SavePC, CommentPC
  <2>3. /\ "reinsertComment" \in Running \ (SavePC \cup {"removePost"})
        /\ req[r].op \in OpAt("reinsertComment")
    BY <1>2 DEF Running, SavePC, OpAt
  <2>4. req[r].pc \notin Paid \cup {"idle", "count"}
    BY <1>1 DEF Paid
  <2> QED BY <1>4, <2>2, <2>3, <2>4, GoToStep DEF SelectComment
<1> QED BY <1>3, <1>4 DEF SelectComment

LEMMA FindViewStep ==
  ASSUME Inv, NEW r \in Request, FindView(r)
  PROVE  Inv'
<1>1. req \in [Request -> Req] /\ HandlerAgrees(r) /\ req[r].pc = "findView"
  BY DEF Inv, Coherent, TypeOK, FindView, At
<1>2. req[r].owed = 0 /\ req[r].op = "view"
  BY <1>1 DEF HandlerAgrees, OpAt, SavePC
<1>3. CASE Answer(r, "done")
  BY <1>1, <1>2, <1>3, AnswerStep DEF FindView, Running
<1>4. CASE GoTo(r, "insertView")
  <2>1. /\ req'[r].pc = "insertView" /\ req'[r].op = req[r].op
        /\ req'[r].user = req[r].user
        /\ req'[r].post = req[r].post /\ req'[r].owed = req[r].owed
    BY <1>1, <1>4, GoToSets DEF Running
  <2>2. HandlerAgrees(r)'
    BY <1>1, <1>2, <2>1 DEF HandlerAgrees, OpAt, FindView, history, SavePC, CommentPC
  <2>3. "insertView" \in Running \ (SavePC \cup {"removePost"}) /\ req[r].op \in OpAt("insertView")
    BY <1>2 DEF Running, SavePC, OpAt
  <2>4. req[r].pc \notin Paid \cup {"idle", "count"}
    BY <1>1 DEF Paid
  <2> QED BY <1>4, <2>2, <2>3, <2>4, GoToStep DEF FindView
<1> QED BY <1>3, <1>4 DEF FindView

-----------------------------------------------------------------------------
(* The calls that begin *)

LEMMA ToggleStep ==
  ASSUME Inv, NEW r \in Request, NEW u \in User, NEW p \in Post, Toggle(r, u, p)
  PROVE  Inv'
<1>1. req \in [Request -> Req] /\ p \in born
  BY Born DEF Inv, TypeOK, Toggle
<1>2. /\ req[r].pc = "idle" /\ req' \in [Request -> Req] /\ Only(r) /\ req'[r].pc = "checkBlock"
      /\ req'[r].op = "like" /\ req'[r].user = u /\ req'[r].post = p
      /\ req'[r].owed = req[r].owed
  <2>1. Begin(r, "like", "checkBlock", u, p) /\ "checkBlock" \in Running
    BY DEF Toggle, Running
  <2> QED BY <1>1, <2>1, BeginSets
<1>3. req[r].owed = 0 /\ r \notin vanished \cup revived
  BY <1>2, IdleIsFree
<1>4. HandlerAgrees(r)'
  <2>1. "like" \in OpAt("checkBlock")
    BY DEF OpAt, SavePC, Saves
  <2>2. UNCHANGED <<born, vanished, revived>>
    BY DEF Toggle, history
  <2> QED BY <1>1, <1>2, <1>3, <2>1, <2>2 DEF HandlerAgrees, SavePC, CommentPC
<1>5. SameDebt(req[r], req'[r]) /\ SameName(r)
  BY <1>2, <1>3 DEF SameDebt, SameName
<1> QED BY <1>2, <1>4, <1>5, Plain DEF Toggle, SavePC, Paid

LEMMA ViewStep ==
  ASSUME Inv, NEW r \in Request, NEW u \in User, NEW p \in Post, View(r, u, p)
  PROVE  Inv'
<1>1. req \in [Request -> Req] /\ p \in born /\ p \in Reel
  BY Born DEF Inv, TypeOK, View, Watchable, Exists
<1>2. /\ req[r].pc = "idle" /\ req' \in [Request -> Req] /\ Only(r) /\ req'[r].pc = "findView"
      /\ req'[r].op = "view" /\ req'[r].user = u /\ req'[r].post = p
      /\ req'[r].owed = req[r].owed
  <2>1. Begin(r, "view", "findView", u, p) /\ "findView" \in Running
    BY DEF View, Running
  <2> QED BY <1>1, <2>1, BeginSets
<1>3. req[r].owed = 0 /\ r \notin vanished \cup revived
  BY <1>2, IdleIsFree
<1>4. HandlerAgrees(r)'
  <2>1. "view" \in OpAt("findView")
    BY DEF OpAt, SavePC, Saves
  <2>2. UNCHANGED <<born, vanished, revived>>
    BY DEF View, history
  <2> QED BY <1>1, <1>2, <1>3, <2>1, <2>2 DEF HandlerAgrees, SavePC, CommentPC
<1>5. SameDebt(req[r], req'[r]) /\ SameName(r)
  BY <1>2, <1>3 DEF SameDebt, SameName
<1> QED BY <1>2, <1>4, <1>5, Plain DEF View, SavePC, Paid

LEMMA ShareStep ==
  ASSUME Inv, NEW r \in Request, NEW p \in Post, Share(r, p)
  PROVE  Inv'
<1>1. req \in [Request -> Req] /\ p \in born /\ req[r].pc = "idle"
  BY Born DEF Inv, TypeOK, Share, Watchable, Exists, At
<1>2. req[r].owed = 0 /\ r \notin vanished \cup revived /\ req[r] \in Req
  BY <1>1, IdleIsFree
<1> DEFINE q == [req[r] EXCEPT !.op = "share", !.post = p, !.pc = "count",
                               !.counter = "shares", !.owed = 1]
<1>3. /\ q \in Req /\ q.op = "share" /\ q.post = p /\ q.pc = "count" /\ q.counter = "shares"
      /\ q.owed = 1
  <2>1. req[r] \in Req
    BY <1>2
  <2>2. "count" \in Running /\ "shares" \in Counter
    BY DEF Running, Counter
  <2>3. q \in Req
    BY <2>1, <2>2 DEF Req
  <2>4. /\ q.op = "share" /\ q.post = p /\ q.pc = "count" /\ q.counter = "shares"
        /\ q.owed = 1
    BY <2>1 DEF Req
  <2> QED BY <2>3, <2>4
<1>4. req' = [req EXCEPT ![r] = q]
  BY DEF Share
<1> HIDE DEF q
<1>5. req' \in [Request -> Req] /\ req'[r] = q /\ Only(r)
  BY <1>1, <1>3, <1>4 DEF Only
<1>6. HandlerAgrees(r)'
  <2>1. "share" \in OpAt("count")
    BY DEF OpAt, SavePC, Saves
  <2>2. UNCHANGED <<born, vanished, revived>>
    BY DEF Share, history
  <2> QED BY <1>1, <1>2, <1>3, <1>5, <2>1, <2>2 DEF HandlerAgrees, SavePC, CommentPC
<1>7. SameDebt(req[r], req'[r]) /\ SameName(r)
  BY <1>2, <1>3, <1>5 DEF SameDebt, SameName, Kept
<1> QED BY <1>1, <1>3, <1>5, <1>6, <1>7, Plain DEF Share, SavePC, Paid

LEMMA CreateStep ==
  ASSUME Inv, NEW r \in Request, NEW u \in User, NEW p \in Post,
         NEW parent \in Request \cup {None}, Create(r, u, p, parent)
  PROVE  Inv'
<1>1. req \in [Request -> Req] /\ p \in born /\ req[r].pc = "idle"
  BY Born DEF Inv, TypeOK, Create, Exists, At
<1>2. req[r].owed = 0 /\ r \notin vanished \cup revived /\ req[r] \in Req
  BY <1>1, IdleIsFree
<1> DEFINE c == [id |-> r, user |-> u, post |-> p, parent |-> parent]
           q == [req[r] EXCEPT !.op = "comment", !.pc = "checkBlock", !.user = u, !.post = p,
                               !.row = c]
<1>3. c \in Comment /\ c.post = p
  BY DEF Comment
<1> HIDE DEF c
<1>4. /\ q \in Req /\ q.op = "comment" /\ q.post = p /\ q.pc = "checkBlock" /\ q.user = u
      /\ q.row = c /\ q.owed = req[r].owed
  <2>1. req[r] \in Req /\ c \in Comment
    BY <1>2, <1>3
  <2> QED BY <2>1 DEF Req, Running
<1>5. req' = [req EXCEPT ![r] = q]
  BY DEF Create, c
<1> HIDE DEF q
<1>6. req' \in [Request -> Req] /\ req'[r] = q /\ Only(r)
  BY <1>1, <1>4, <1>5 DEF Only
<1>7. HandlerAgrees(r)'
  <2>1. "comment" \in OpAt("checkBlock")
    BY DEF OpAt, SavePC, Saves
  <2>2. UNCHANGED <<born, vanished, revived>>
    BY DEF Create, history
  <2> QED BY <1>1, <1>2, <1>3, <1>4, <1>6, <2>1, <2>2 DEF HandlerAgrees, SavePC, CommentPC
<1>8. SameDebt(req[r], req'[r]) /\ SameName(r)
  BY <1>2, <1>4, <1>6 DEF SameDebt, SameName
<1> QED BY <1>1, <1>4, <1>6, <1>7, <1>8, Plain DEF Create, SavePC, Paid

(* A call that takes a comment it has read. *)
LEMMA TakeStep ==
  ASSUME Inv, NEW r \in Request, req[r].pc = "idle", NEW u \in User, NEW c \in comments,
         NEW op, NEW pc,
         \/ op = "editComment" /\ pc = "selectComment"
         \/ op = "deleteComment" /\ pc = "deleteReplies",
         Take(r, op, pc, u, c), UNCHANGED <<posts, likes, comments, views, history>>
  PROVE  Inv'
<1>1. /\ req \in [Request -> Req] /\ c \in Comment /\ c.post \in born /\ c.post \in Post
  BY Born DEF Inv, Coherent, TypeOK, TablesAgree, Comment
<1>2. req[r].owed = 0 /\ r \notin vanished \cup revived /\ req[r] \in Req
  BY IdleIsFree
<1> DEFINE q == [req[r] EXCEPT !.op = op, !.pc = pc, !.user = u, !.post = c.post, !.row = c]
<1>3. op \in {"editComment", "deleteComment"} /\ pc \in Running
  BY DEF Running
<1>4. /\ q \in Req /\ q.op = op /\ q.post = c.post /\ q.pc = pc /\ q.user = u
      /\ q.row = c /\ q.owed = req[r].owed
  <2>1. PICK p \in Post, row \in Comment : p = c.post /\ row = c
    BY <1>1
  <2> QED BY <1>2, <1>3, <2>1, ZenonT(60) DEF Req
<1>5. req' = [req EXCEPT ![r] = q]
  BY DEF Take
<1> HIDE DEF q
<1>6. req' \in [Request -> Req] /\ req'[r] = q /\ Only(r)
  BY <1>1, <1>4, <1>5 DEF Only
<1>7. HandlerAgrees(r)'
  <2>1. /\ "editComment" \in OpAt("selectComment") /\ "deleteComment" \in OpAt("deleteReplies")
    BY DEF OpAt, SavePC, Saves
  <2>2. UNCHANGED <<born, vanished, revived>>
    BY DEF history
  <2> QED BY <1>1, <1>2, <1>4, <1>6, <2>1, <2>2 DEF HandlerAgrees, SavePC, CommentPC
<1>8. SameDebt(req[r], req'[r]) /\ SameName(r)
  BY <1>2, <1>4, <1>6 DEF SameDebt, SameName
<1> QED BY <1>1, <1>4, <1>6, <1>7, <1>8, Plain DEF SavePC, Paid

LEMMA EditCommentStep ==
  ASSUME Inv, NEW r \in Request, NEW u \in User, EditComment(r, u)
  PROVE  Inv'
BY TakeStep DEF EditComment, At

LEMMA DeleteCommentStep ==
  ASSUME Inv, NEW r \in Request, NEW u \in User, DeleteComment(r, u)
  PROVE  Inv'
BY TakeStep DEF DeleteComment, At

-----------------------------------------------------------------------------
(* The statements that write likes, comments and views *)

LikeRows(p)    == Cardinality({l \in likes : l.post = p})
CommentRows(p) == Cardinality({c \in comments : c.post = p})
ViewRows(p)    == Cardinality({v \in views : v[2] = p})

Unliked(p)   == Cardinality(Of(vanished, "like", p))
Uncounted(p) == Cardinality(Of(vanished, "deleteComment", p))
Restored(p)  == Cardinality(Of(revived, "editComment", p))

LEMMA Numbers ==
  ASSUME TypeOK, TablesAgree, NEW p
  PROVE  /\ LikeRows(p) \in Nat /\ CommentRows(p) \in Nat /\ ViewRows(p) \in Nat
         /\ Unliked(p) \in Nat /\ Uncounted(p) \in Nat /\ Restored(p) \in Nat
         /\ \A k : Owed(p, k) \in Int
         /\ \A x \in posts : \A k \in Counter : x.counts[k] \in Int
<1>1. LikeRows(p) \in Nat /\ CommentRows(p) \in Nat /\ ViewRows(p) \in Nat
  <2>1. /\ {l \in likes : l.post = p} \in SUBSET likes
        /\ {c \in comments : c.post = p} \in SUBSET comments
        /\ {v \in views : v[2] = p} \in SUBSET views
    OBVIOUS
  <2> QED BY <2>1, RowsNat DEF LikeRows, CommentRows, ViewRows, TablesAgree
<1>2. Unliked(p) \in Nat /\ Uncounted(p) \in Nat /\ Restored(p) \in Nat
  <2>1. vanished \in SUBSET Request /\ revived \in SUBSET Request
    BY DEF TypeOK
  <2>2. /\ Of(vanished, "like", p) \in SUBSET Request
        /\ Of(vanished, "deleteComment", p) \in SUBSET Request
        /\ Of(revived, "editComment", p) \in SUBSET Request
    BY <2>1 DEF Of
  <2> QED BY <2>2, CardNat DEF Unliked, Uncounted, Restored
<1>3. \A k : Owed(p, k) \in Int
  <2> SUFFICES ASSUME NEW k PROVE Owed(p, k) \in Int
    OBVIOUS
  <2> QED BY OwedInt, OwedIs
<1>4. \A x \in posts : \A k \in Counter : x.counts[k] \in Int
  <2>1. Cardinality(Request) \in Nat
    BY CardNat
  <2> QED BY <2>1 DEF TypeOK, PostRow, Count
<1> QED BY <1>1, <1>2, <1>3, <1>4

LEMMA NumbersNext ==
  ASSUME (TypeOK /\ TablesAgree)', NEW p
  PROVE  /\ LikeRows(p)' \in Nat /\ CommentRows(p)' \in Nat /\ ViewRows(p)' \in Nat
         /\ Unliked(p)' \in Nat /\ Uncounted(p)' \in Nat /\ Restored(p)' \in Nat
         /\ \A k : Owed(p, k)' \in Int
<1>1. LikeRows(p)' \in Nat /\ CommentRows(p)' \in Nat /\ ViewRows(p)' \in Nat
  <2>1. /\ {l \in likes' : l.post = p} \in SUBSET likes'
        /\ {c \in comments' : c.post = p} \in SUBSET comments'
        /\ {v \in views' : v[2] = p} \in SUBSET views'
    OBVIOUS
  <2> QED BY <2>1, RowsNat DEF LikeRows, CommentRows, ViewRows, TablesAgree
<1>2. Unliked(p)' \in Nat /\ Uncounted(p)' \in Nat /\ Restored(p)' \in Nat
  <2>1. vanished' \in SUBSET Request /\ revived' \in SUBSET Request
    BY DEF TypeOK
  <2>2. /\ Of(vanished, "like", p)' \in SUBSET Request
        /\ Of(vanished, "deleteComment", p)' \in SUBSET Request
        /\ Of(revived, "editComment", p)' \in SUBSET Request
    BY <2>1 DEF Of
  <2> QED BY <2>2, CardNat DEF Unliked, Uncounted, Restored
<1>3. \A k : Owed(p, k)' \in Int
  <2> SUFFICES ASSUME NEW k PROVE Owed(p, k)' \in Int
    OBVIOUS
  <2> QED BY OwedInt, OwedIs
<1> QED BY <1>1, <1>2, <1>3

(* The ledgers of the posts in the order of a step: what it adds to the rows it
   owes to the counter, or has in the history. *)
LikesMove(p) ==
  Owed(p, "likes")' - Owed(p, "likes") =
    (LikeRows(p)' - LikeRows(p)) - (Unliked(p)' - Unliked(p))

CommentsMove(p) ==
  CommentRows(p)' - CommentRows(p) <=
    (Owed(p, "comments")' - Owed(p, "comments"))
      + (Uncounted(p)' - Uncounted(p)) + (Restored(p)' - Restored(p))

ViewsMove(p) ==
  Owed(p, "views")' - Owed(p, "views") = ViewRows(p)' - ViewRows(p)

(* The same for a row x that was y, whose counters have moved. *)
LikesShift(x, y) ==
  x.counts["likes"] - y.counts["likes"] + Owed(y.id, "likes")' - Owed(y.id, "likes") =
    (LikeRows(y.id)' - LikeRows(y.id)) - (Unliked(y.id)' - Unliked(y.id))

CommentsShift(x, y) ==
  CommentRows(y.id)' - CommentRows(y.id) <=
    x.counts["comments"] - y.counts["comments"]
      + (Owed(y.id, "comments")' - Owed(y.id, "comments"))
      + (Uncounted(y.id)' - Uncounted(y.id)) + (Restored(y.id)' - Restored(y.id))

ViewsShift(x, y) ==
  x.counts["views"] - y.counts["views"] + Owed(y.id, "views")' - Owed(y.id, "views") =
    ViewRows(y.id)' - ViewRows(y.id)

(* A balance carried on: a and b are a counter, o and n what is owed to it, l and m
   the rows, u and v those of the history, after and before. *)
LEMMA Balance ==
  \A a, b, o, n, l, m, u, v \in Int :
    b + o = l - u /\ a - b + n - o = (m - l) - (v - u) => a + n = m - v
OBVIOUS

LEMMA LedgersShift ==
  ASSUME Inv, (TypeOK /\ TablesAgree)',
         \A x \in posts' : x.id \notin resaved' =>
           \E y \in posts : /\ y.id = x.id /\ y.id \notin resaved
                            /\ LikesShift(x, y) /\ CommentsShift(x, y) /\ ViewsShift(x, y)
  PROVE  LikesAccounted' /\ CommentsNotUndercounted' /\ ViewsAccounted'
<1>1. TypeOK /\ TablesAgree /\ LikesAccounted /\ CommentsNotUndercounted /\ ViewsAccounted
  BY DEF Inv, Coherent
<1>2. ASSUME NEW x \in posts', x.id \notin resaved'
      PROVE  /\ x.counts["likes"] + Owed(x.id, "likes")' = LikeRows(x.id)' - Unliked(x.id)'
             /\ CommentRows(x.id)' <=
                  x.counts["comments"] + Owed(x.id, "comments")'
                    + Uncounted(x.id)' + Restored(x.id)'
             /\ x.counts["views"] + Owed(x.id, "views")' = ViewRows(x.id)'
  <2>1. PICK y \in posts : /\ y.id = x.id /\ y.id \notin resaved
                           /\ LikesShift(x, y) /\ CommentsShift(x, y) /\ ViewsShift(x, y)
    BY <1>2
  <2> DEFINE p == y.id
  <2>2. /\ y.counts["likes"] + Owed(p, "likes") = LikeRows(p) - Unliked(p)
        /\ CommentRows(p) <= y.counts["comments"] + Owed(p, "comments")
                               + Uncounted(p) + Restored(p)
        /\ y.counts["views"] + Owed(p, "views") = ViewRows(p)
    BY <1>1, <2>1 DEF LikesAccounted, LikeRows, Unliked, CommentsNotUndercounted, CommentRows,
                      Uncounted, Restored, ViewsAccounted, ViewRows
  <2>3. /\ LikeRows(p) \in Nat /\ CommentRows(p) \in Nat /\ ViewRows(p) \in Nat
        /\ Unliked(p) \in Nat /\ Uncounted(p) \in Nat /\ Restored(p) \in Nat
        /\ \A k : Owed(p, k) \in Int
        /\ \A k \in Counter : y.counts[k] \in Int
    BY <1>1, Numbers
  <2>4. /\ LikeRows(p)' \in Nat /\ CommentRows(p)' \in Nat /\ ViewRows(p)' \in Nat
        /\ Unliked(p)' \in Nat /\ Uncounted(p)' \in Nat /\ Restored(p)' \in Nat
        /\ \A k : Owed(p, k)' \in Int
    BY NumbersNext
  <2>5. \A k \in Counter : x.counts[k] \in Int
    <3>1. Cardinality(Request) \in Nat /\ x \in PostRow
      BY CardNat DEF TypeOK
    <3> QED BY <3>1 DEF PostRow, Count
  <2>6. {"likes", "comments", "views"} \subseteq Counter
    BY DEF Counter
  <2>7. x.counts["likes"] + Owed(p, "likes")' = LikeRows(p)' - Unliked(p)'
    <3>1. y.counts["likes"] + Owed(p, "likes") = LikeRows(p) - Unliked(p)
      BY <2>2
    <3>2. x.counts["likes"] - y.counts["likes"] + Owed(p, "likes")' - Owed(p, "likes") =
            (LikeRows(p)' - LikeRows(p)) - (Unliked(p)' - Unliked(p))
      BY <2>1 DEF LikesShift
    <3>3. /\ LikeRows(p) \in Nat /\ Unliked(p) \in Nat /\ Owed(p, "likes") \in Int
          /\ LikeRows(p)' \in Nat /\ Unliked(p)' \in Nat /\ Owed(p, "likes")' \in Int
          /\ x.counts["likes"] \in Int /\ y.counts["likes"] \in Int
      BY <2>3, <2>4, <2>5, <2>6
    <3> QED BY <3>1, <3>2, <3>3, Balance
  <2>8. CommentRows(p)' <= x.counts["comments"] + Owed(p, "comments")'
                             + Uncounted(p)' + Restored(p)'
    BY <2>1, <2>2, <2>3, <2>4, <2>5, <2>6 DEF CommentsShift
  <2>9. x.counts["views"] + Owed(p, "views")' = ViewRows(p)'
    BY <2>1, <2>2, <2>3, <2>4, <2>5, <2>6 DEF ViewsShift
  <2> QED BY <2>1, <2>7, <2>8, <2>9
<1>3. LikesAccounted'
  BY <1>2 DEF LikesAccounted, LikeRows, Unliked
<1>4. CommentsNotUndercounted'
  BY <1>2 DEF CommentsNotUndercounted, CommentRows, Uncounted, Restored
<1>5. ViewsAccounted'
  BY <1>2 DEF ViewsAccounted, ViewRows
<1> QED BY <1>3, <1>4, <1>5

(* And for rows whose counters a save has not overwritten, and nothing has moved. *)
LEMMA LedgersMove ==
  ASSUME Inv, (TypeOK /\ TablesAgree)',
         \A x \in posts' : x.id \notin resaved' =>
           \E y \in posts : /\ y.id = x.id /\ y.id \notin resaved
                            /\ \A k \in Counter : y.counts[k] = x.counts[k]
                            /\ LikesMove(y.id) /\ CommentsMove(y.id) /\ ViewsMove(y.id)
  PROVE  LikesAccounted' /\ CommentsNotUndercounted' /\ ViewsAccounted'
<1> SUFFICES ASSUME NEW x \in posts', x.id \notin resaved'
             PROVE  \E y \in posts : /\ y.id = x.id /\ y.id \notin resaved
                                     /\ LikesShift(x, y) /\ CommentsShift(x, y) /\ ViewsShift(x, y)
  BY LedgersShift
<1>1. PICK y \in posts : /\ y.id = x.id /\ y.id \notin resaved
                         /\ \A k \in Counter : y.counts[k] = x.counts[k]
                         /\ LikesMove(y.id) /\ CommentsMove(y.id) /\ ViewsMove(y.id)
  OBVIOUS
<1> DEFINE p == y.id
<1>2. /\ x.counts["likes"] = y.counts["likes"] /\ y.counts["likes"] \in Int
      /\ x.counts["comments"] = y.counts["comments"] /\ y.counts["comments"] \in Int
      /\ x.counts["views"] = y.counts["views"] /\ y.counts["views"] \in Int
  BY <1>1, Numbers DEF Inv, Coherent, Counter
<1>3. /\ LikeRows(p) \in Nat /\ CommentRows(p) \in Nat /\ ViewRows(p) \in Nat
      /\ Unliked(p) \in Nat /\ Uncounted(p) \in Nat /\ Restored(p) \in Nat
      /\ \A k : Owed(p, k) \in Int
  BY Numbers DEF Inv, Coherent
<1>4. /\ LikeRows(p)' \in Nat /\ CommentRows(p)' \in Nat /\ ViewRows(p)' \in Nat
      /\ Unliked(p)' \in Nat /\ Uncounted(p)' \in Nat /\ Restored(p)' \in Nat
      /\ \A k : Owed(p, k)' \in Int
  BY NumbersNext
<1>5. LikesShift(x, y)
  BY <1>1, <1>2, <1>3, <1>4 DEF LikesMove, LikesShift
<1>6. CommentsShift(x, y)
  BY <1>1, <1>2, <1>3, <1>4 DEF CommentsMove, CommentsShift
<1>7. ViewsShift(x, y)
  BY <1>1, <1>2, <1>3, <1>4 DEF ViewsMove, ViewsShift
<1> QED BY <1>1, <1>5, <1>6, <1>7

(* A call that writes a table and leaves the posts alone. *)
LEMMA Writer ==
  ASSUME NEW r \in Request, Inv, req' \in [Request -> Req], Only(r),
         UNCHANGED <<posts, born, resaved, rivals, shelved>>, (TypeOK /\ TablesAgree)',
         vanished' \cup revived' \subseteq vanished \cup revived \cup {r},
         HandlerAgrees(r)', req'[r].pc \notin SavePC \cup {"removePost"},
         req[r].pc \notin Paid,
         \A p : LikesMove(p) /\ CommentsMove(p) /\ ViewsMove(p)
  PROVE  Inv'
<1>1. (\A s \in Request : HandlerAgrees(s))'
  BY HandlersKeep DEF Inv, Coherent
<1>2. CountersBounded'
  BY BoundedKeeps DEF Inv, Coherent, TypeOK, Paid
<1>3. OwnersAgree' /\ SaversAgree' /\ ArchivedStaysArchived'
  <2>1. RowsOf(posts', posts)
    BY DEF RowsOf
  <2> QED BY <2>1, Steady DEF Inv, Coherent
<1>4. LikesAccounted' /\ CommentsNotUndercounted' /\ ViewsAccounted'
  BY LedgersMove
<1> QED BY <1>1, <1>2, <1>3, <1>4 DEF Inv, Coherent

LEMMA OweMoves ==
  ASSUME Inv, NEW r \in Request, NEW k \in Counter, NEW by \in {1, -1}, Owe(r, k, by),
         req[r].owed = 0
  PROVE  \A p, j : Owed(p, j)' = Owed(p, j) + (IF p = req[r].post /\ j = k THEN by ELSE 0)
<1>1. req \in [Request -> Req]
  BY DEF Inv, TypeOK
<1>2. Only(r) /\ req'[r].post = req[r].post /\ req'[r].counter = k /\ req'[r].owed = by
  BY <1>1, OweSets
<1> SUFFICES ASSUME NEW p, NEW j
             PROVE  Owed(p, j)' = Owed(p, j) + (IF p = req[r].post /\ j = k THEN by ELSE 0)
  OBVIOUS
<1>3. Owed(p, j) = OwedIn(req, p, j) /\ Owed(p, j)' = OwedIn(req', p, j)
  BY OwedIs
<1>4. CASE p = req[r].post /\ j = k
  <2>1. OwedIn(req', p, j) = OwedIn(req, p, j) + by
    BY <1>2, <1>4, OwedTaken DEF Only
  <2> QED BY <1>3, <1>4, <2>1
<1>5. CASE ~(p = req[r].post /\ j = k)
  <2>1. OwedIn(req, p, j) = OwedIn(req', p, j)
    BY <1>2, <1>5, OwedSame DEF Only
  <2>2. OwedIn(req, p, j) \in Int
    BY OwedInt
  <2> QED BY <1>3, <1>5, <2>1, <2>2
<1> QED BY <1>4, <1>5

LEMMA VanishedMoves ==
  ASSUME TypeOK, NEW r \in Request, Only(r), r \notin vanished, vanished' = vanished \cup {r},
         req'[r].op = req[r].op, req'[r].post = req[r].post
  PROVE  \A op, p : Cardinality(Of(vanished, op, p))' =
           Cardinality(Of(vanished, op, p))
             + (IF req[r].op = op /\ req[r].post = p THEN 1 ELSE 0)
<1> SUFFICES ASSUME NEW op, NEW p
             PROVE  Cardinality(Of(vanished, op, p)') =
                      Cardinality(Of(vanished, op, p))
                        + (IF req[r].op = op /\ req[r].post = p THEN 1 ELSE 0)
  OBVIOUS
<1>1. vanished \in SUBSET Request /\ \A s \in vanished : req[s].op = req'[s].op
                                                          /\ req[s].post = req'[s].post
  BY DEF TypeOK, Only
<1>2. Cardinality(OfIn(req', vanished \cup {r}, op, p)) =
        Cardinality(OfIn(req, vanished, op, p))
          + (IF req'[r].op = op /\ req'[r].post = p THEN 1 ELSE 0)
  BY <1>1, OfTaken
<1> QED BY <1>2, OfIs

LEMMA RevivedMoves ==
  ASSUME TypeOK, NEW r \in Request, Only(r), r \notin revived, revived' = revived \cup {r},
         req'[r].op = req[r].op, req'[r].post = req[r].post
  PROVE  \A op, p : Cardinality(Of(revived, op, p))' =
           Cardinality(Of(revived, op, p))
             + (IF req[r].op = op /\ req[r].post = p THEN 1 ELSE 0)
<1> SUFFICES ASSUME NEW op, NEW p
             PROVE  Cardinality(Of(revived, op, p)') =
                      Cardinality(Of(revived, op, p))
                        + (IF req[r].op = op /\ req[r].post = p THEN 1 ELSE 0)
  OBVIOUS
<1>1. revived \in SUBSET Request /\ \A s \in revived : req[s].op = req'[s].op
                                                          /\ req[s].post = req'[s].post
  BY DEF TypeOK, Only
<1>2. Cardinality(OfIn(req', revived \cup {r}, op, p)) =
        Cardinality(OfIn(req, revived, op, p))
          + (IF req'[r].op = op /\ req'[r].post = p THEN 1 ELSE 0)
  BY <1>1, OfTaken
<1> QED BY <1>2, OfIs

(* What a handler that is about to write a row knows, and what it leaves. *)
Write == {"removeLike", "insertLike", "insertComment", "reinsertComment", "removeComment",
          "insertView", "deleteReplies"}

LEMMA WriterKnows ==
  ASSUME Inv, NEW r \in Request, req[r].pc \in Write
  PROVE  /\ req \in [Request -> Req] /\ HandlerAgrees(r)
         /\ req[r].owed = 0 /\ r \notin vanished \cup revived /\ req[r].post \in born
         /\ req[r].pc \notin Paid \cup {"idle"}
BY DEF Inv, Coherent, TypeOK, HandlerAgrees, Write, Paid

LEMMA OweAgrees ==
  ASSUME Inv, NEW r \in Request, req[r].pc \in Write, NEW k \in Counter, NEW by \in {1, -1},
         Owe(r, k, by), born' = born, req[r].op \in OpAt("count")
  PROVE  /\ req' \in [Request -> Req] /\ Only(r) /\ HandlerAgrees(r)'
         /\ req'[r].pc \notin SavePC \cup {"removePost"} /\ req[r].pc \notin Paid
         /\ req'[r].op = req[r].op /\ req'[r].post = req[r].post
<1>1. req \in [Request -> Req] /\ req[r].post \in born /\ req[r].pc \notin Paid
  BY WriterKnows
<1>2. /\ req' \in [Request -> Req] /\ Only(r) /\ req'[r].pc = "count"
      /\ req'[r].op = req[r].op /\ req'[r].post = req[r].post
  BY <1>1, OweSets
<1> QED BY <1>1, <1>2 DEF HandlerAgrees, SavePC, CommentPC

LEMMA RemoveLikeStep ==
  ASSUME Inv, NEW r \in Request, RemoveLike(r)
  PROVE  Inv'
<1>1. req[r].pc = "removeLike" /\ req[r].pc \in Write
  BY DEF RemoveLike, At, Write
<1>2. /\ req[r].owed = 0 /\ r \notin vanished \cup revived /\ req[r].op = "like"
      /\ req[r].row \in Like /\ req[r].row.post = req[r].post
  <2>1. HandlerAgrees(r) /\ req[r].owed = 0 /\ r \notin vanished \cup revived
    BY <1>1, WriterKnows
  <2> QED BY <1>1, <2>1 DEF HandlerAgrees, OpAt, SavePC
<1>3. "like" \in OpAt("count") /\ "likes" \in Counter /\ Owe(r, "likes", -1)
  BY DEF OpAt, SavePC, Saves, Counter, RemoveLike
<1>4. /\ req' \in [Request -> Req] /\ Only(r) /\ HandlerAgrees(r)'
      /\ req'[r].pc \notin SavePC \cup {"removePost"} /\ req[r].pc \notin Paid
      /\ req'[r].op = req[r].op /\ req'[r].post = req[r].post
  BY <1>1, <1>2, <1>3, OweAgrees DEF RemoveLike
<1>5. /\ UNCHANGED <<posts, comments, views, born, resaved, revived, rivals, shelved>>
      /\ likes' = likes \ {req[r].row}
      /\ vanished' = IF req[r].row \in likes THEN vanished ELSE vanished \cup {r}
  BY DEF RemoveLike
<1>6. TypeOK'
  BY <1>4, <1>5 DEF Inv, TypeOK
<1>7. TablesAgree'
  <2>1. IsFiniteSet(likes')
    BY <1>5, FS_RemoveElement DEF Inv, Coherent, TablesAgree
  <2> QED BY <1>5, <2>1 DEF Inv, Coherent, TablesAgree, Exists
<1>8. \A p, j : Owed(p, j)' = Owed(p, j) + (IF p = req[r].post /\ j = "likes" THEN -1 ELSE 0)
  BY <1>2, <1>3, OweMoves
<1>9. ASSUME NEW p
      PROVE  /\ LikeRows(p)' - Unliked(p)' =
                  LikeRows(p) - Unliked(p) - (IF p = req[r].post THEN 1 ELSE 0)
             /\ Uncounted(p)' = Uncounted(p)
  <2>0. LikeRows(p) \in Nat /\ Unliked(p) \in Nat /\ Uncounted(p) \in Nat
    BY Numbers DEF Inv, Coherent
  <2>1. CASE req[r].row \in likes
    <3>1. \A op, q : Of(vanished, op, q)' = Of(vanished, op, q)
      <4>1. vanished' = vanished /\ SameName(r) /\ vanished \subseteq Request
        BY <1>4, <1>5, <2>1 DEF SameName, Inv, TypeOK
      <4> QED BY <1>4, <4>1, VanishedKept
    <3>2. Unliked(p)' = Unliked(p) /\ Uncounted(p)' = Uncounted(p)
      BY <3>1 DEF Unliked, Uncounted
    <3> DEFINE mine == {l \in likes : l.post = p}
    <3>3. IsFiniteSet(mine)
      BY RowsNat DEF Inv, Coherent, TablesAgree
    <3>4. LikeRows(p)' = LikeRows(p) - (IF p = req[r].post THEN 1 ELSE 0)
      <4>1. {l \in likes' : l.post = p} = mine \ {req[r].row}
        BY <1>5
      <4>2. req[r].row \in mine <=> p = req[r].post
        BY <1>2, <2>1
      <4>3. Cardinality(mine \ {req[r].row}) =
              IF req[r].row \in mine THEN Cardinality(mine) - 1 ELSE Cardinality(mine)
        BY <3>3, FS_RemoveElement
      <4>4. LikeRows(p)' = Cardinality(mine \ {req[r].row}) /\ LikeRows(p) = Cardinality(mine)
        BY <4>1 DEF LikeRows
      <4> HIDE DEF mine
      <4> QED BY <2>0, <4>2, <4>3, <4>4
    <3> QED BY <2>0, <3>2, <3>4
  <2>2. CASE req[r].row \notin likes
    <3>1. likes' = likes /\ vanished' = vanished \cup {r}
      BY <1>5, <2>2
    <3>2. \A op, q : Cardinality(Of(vanished, op, q))' =
            Cardinality(Of(vanished, op, q))
              + (IF req[r].op = op /\ req[r].post = q THEN 1 ELSE 0)
      BY <1>2, <1>4, <3>1, VanishedMoves DEF Inv
    <3>3. Unliked(p)' = Unliked(p) + (IF req[r].post = p THEN 1 ELSE 0)
      BY <1>2, <3>2 DEF Unliked
    <3>4. Uncounted(p)' = Uncounted(p)
      <4>1. Uncounted(p)' = Uncounted(p) + 0
        BY <1>2, <3>2 DEF Uncounted
      <4> QED BY <2>0, <4>1
    <3>5. LikeRows(p)' = LikeRows(p)
      BY <3>1 DEF LikeRows
    <3> QED BY <2>0, <3>3, <3>4, <3>5
  <2> QED BY <2>1, <2>2
<1>10. ASSUME NEW p
       PROVE  LikesMove(p) /\ CommentsMove(p) /\ ViewsMove(p)
  <2>1. /\ LikeRows(p) \in Nat /\ Unliked(p) \in Nat /\ Uncounted(p) \in Nat
        /\ \A k : Owed(p, k) \in Int
        /\ CommentRows(p) \in Nat /\ ViewRows(p) \in Nat /\ Restored(p) \in Nat
    BY Numbers DEF Inv, Coherent
  <2>2. LikeRows(p)' \in Nat /\ Unliked(p)' \in Nat
    BY <1>6, <1>7, NumbersNext
  <2>3. CommentRows(p)' = CommentRows(p) /\ ViewRows(p)' = ViewRows(p)
    BY <1>5 DEF CommentRows, ViewRows
  <2>4. Restored(p)' = Restored(p)
    <3>1. SameName(r) /\ revived \subseteq Request
      BY <1>4 DEF SameName, Inv, TypeOK
    <3> QED BY <1>4, <1>5, <3>1, RevivedKept DEF Restored
  <2>5. /\ Owed(p, "comments")' = Owed(p, "comments") + 0
        /\ Owed(p, "views")' = Owed(p, "views") + 0
        /\ Owed(p, "likes")' = Owed(p, "likes") + (IF p = req[r].post THEN -1 ELSE 0)
    BY <1>8
  <2>6. LikesMove(p)
    BY <1>9, <2>1, <2>2, <2>5 DEF LikesMove
  <2>7. CommentsMove(p)
    BY <1>9, <2>1, <2>3, <2>4, <2>5 DEF CommentsMove
  <2>8. ViewsMove(p)
    BY <2>1, <2>3, <2>5 DEF ViewsMove
  <2> QED BY <2>6, <2>7, <2>8
<1> QED BY <1>4, <1>5, <1>6, <1>7, <1>10, Writer

(* The history of a statement that finds what it looked for. *)
LEMMA NoHistory ==
  ASSUME Inv, NEW r \in Request, Only(r), req'[r].op = req[r].op, req'[r].post = req[r].post,
         UNCHANGED <<vanished, revived>>
  PROVE  \A p : Unliked(p)' = Unliked(p) /\ Uncounted(p)' = Uncounted(p)
                /\ Restored(p)' = Restored(p)
<1>1. SameName(r) /\ vanished \subseteq Request /\ revived \subseteq Request
  BY DEF SameName, Inv, TypeOK
<1>2. /\ \A op, p : Of(vanished, op, p)' = Of(vanished, op, p)
      /\ \A op, p : Of(revived, op, p)' = Of(revived, op, p)
  BY <1>1, VanishedKept, RevivedKept
<1> QED BY <1>2 DEF Unliked, Uncounted, Restored

LEMMA LikeAdds ==
  ASSUME TypeOK, TablesAgree, NEW l, l \notin likes, likes' = likes \cup {l}
  PROVE  \A p : LikeRows(p)' = LikeRows(p) + (IF l.post = p THEN 1 ELSE 0)
<1> SUFFICES ASSUME NEW p
             PROVE  LikeRows(p)' = LikeRows(p) + (IF l.post = p THEN 1 ELSE 0)
  OBVIOUS
<1> DEFINE mine == {x \in likes : x.post = p}
<1>1. IsFiniteSet(mine) /\ LikeRows(p) = Cardinality(mine) /\ LikeRows(p) \in Nat
  BY RowsNat, Numbers DEF TablesAgree, LikeRows
<1>2. CASE l.post = p
  <2>1. {x \in likes' : x.post = p} = mine \cup {l}
    BY <1>2
  <2>2. Cardinality(mine \cup {l}) = Cardinality(mine) + 1
    BY <1>1, FS_AddElement
  <2> QED BY <1>1, <1>2, <2>1, <2>2 DEF LikeRows
<1>3. CASE l.post # p
  <2>1. {x \in likes' : x.post = p} = mine
    BY <1>3
  <2>2. LikeRows(p)' = LikeRows(p)
    BY <2>1 DEF LikeRows
  <2> QED BY <1>1, <1>3, <2>2
<1> QED BY <1>2, <1>3

LEMMA CommentAdds ==
  ASSUME TypeOK, TablesAgree, NEW c, comments' = comments \cup {c}
  PROVE  \A p : CommentRows(p)' \in Nat /\
                 CommentRows(p)' <= CommentRows(p) + (IF c.post = p THEN 1 ELSE 0)
<1> SUFFICES ASSUME NEW p
             PROVE  CommentRows(p)' \in Nat /\
                    CommentRows(p)' <= CommentRows(p) + (IF c.post = p THEN 1 ELSE 0)
  OBVIOUS
<1> DEFINE mine == {x \in comments : x.post = p}
<1>1. IsFiniteSet(mine) /\ CommentRows(p) = Cardinality(mine) /\ CommentRows(p) \in Nat
  BY RowsNat, Numbers DEF TablesAgree, CommentRows
<1>2. CASE c.post = p
  <2>1. {x \in comments' : x.post = p} = mine \cup {c}
    BY <1>2
  <2>2. /\ Cardinality(mine \cup {c}) <= Cardinality(mine) + 1
        /\ Cardinality(mine \cup {c}) \in Nat
    <3>1. Cardinality(mine \cup {c}) =
            IF c \in mine THEN Cardinality(mine) ELSE Cardinality(mine) + 1
      BY <1>1, FS_AddElement
    <3>2. Cardinality(mine) \in Nat
      BY <1>1
    <3> HIDE DEF mine
    <3> QED BY <3>1, <3>2
  <2> QED BY <1>1, <1>2, <2>1, <2>2 DEF CommentRows
<1>3. CASE c.post # p
  <2>1. {x \in comments' : x.post = p} = mine
    BY <1>3
  <2>2. CommentRows(p)' = CommentRows(p)
    BY <2>1 DEF CommentRows
  <2> QED BY <1>1, <1>3, <2>2
<1> QED BY <1>2, <1>3

LEMMA ViewAdds ==
  ASSUME TypeOK, TablesAgree, NEW v, v \notin views, views' = views \cup {v}
  PROVE  \A p : ViewRows(p)' = ViewRows(p) + (IF v[2] = p THEN 1 ELSE 0)
<1> SUFFICES ASSUME NEW p
             PROVE  ViewRows(p)' = ViewRows(p) + (IF v[2] = p THEN 1 ELSE 0)
  OBVIOUS
<1> DEFINE mine == {x \in views : x[2] = p}
<1>1. IsFiniteSet(mine) /\ ViewRows(p) = Cardinality(mine) /\ ViewRows(p) \in Nat
  BY RowsNat, Numbers DEF TablesAgree, ViewRows
<1>2. CASE v[2] = p
  <2>1. {x \in views' : x[2] = p} = mine \cup {v}
    BY <1>2
  <2>2. Cardinality(mine \cup {v}) = Cardinality(mine) + 1
    BY <1>1, FS_AddElement
  <2> QED BY <1>1, <1>2, <2>1, <2>2 DEF ViewRows
<1>3. CASE v[2] # p
  <2>1. {x \in views' : x[2] = p} = mine
    BY <1>3
  <2>2. ViewRows(p)' = ViewRows(p)
    BY <2>1 DEF ViewRows
  <2> QED BY <1>1, <1>3, <2>2
<1> QED BY <1>2, <1>3

LEMMA InsertLikeStep ==
  ASSUME Inv, NEW r \in Request, InsertLike(r)
  PROVE  Inv'
<1>1. req[r].pc = "insertLike" /\ req[r].pc \in Write
  BY DEF InsertLike, At, Write
<1>2. /\ req[r].owed = 0 /\ r \notin vanished \cup revived /\ req[r].op = "like"
      /\ req[r].user \in User /\ req[r].post \in Post
  <2>1. HandlerAgrees(r) /\ req[r].owed = 0 /\ r \notin vanished \cup revived /\ req[r].post \in born
    BY <1>1, WriterKnows
  <2> QED BY <1>1, <2>1 DEF HandlerAgrees, OpAt, SavePC, Inv, TypeOK
<1> DEFINE l == [id |-> r, user |-> req[r].user, post |-> req[r].post]
<1>3. CASE Answer(r, "failed") /\ UNCHANGED likes
  BY <1>1, <1>2, <1>3, AnswerStep DEF InsertLike, Running
<1>4. CASE /\ Exists(req[r].post)
           /\ ~\E m \in likes : m.user = req[r].user /\ m.post = req[r].post
           /\ likes' = likes \cup {l} /\ Owe(r, "likes", 1)
  <2>1. l \in Like /\ l.post = req[r].post /\ l \notin likes
    BY <1>2, <1>4 DEF Like
  <2> HIDE DEF l
  <2>2. "like" \in OpAt("count") /\ "likes" \in Counter /\ UNCHANGED <<posts, comments, views, history>>
    BY DEF OpAt, SavePC, Saves, Counter, InsertLike
  <2>3. /\ req' \in [Request -> Req] /\ Only(r) /\ HandlerAgrees(r)'
        /\ req'[r].pc \notin SavePC \cup {"removePost"} /\ req[r].pc \notin Paid
        /\ req'[r].op = req[r].op /\ req'[r].post = req[r].post
    BY <1>1, <1>2, <1>4, <2>2, OweAgrees DEF history
  <2>4. TypeOK'
    BY <1>4, <2>1, <2>2, <2>3 DEF Inv, TypeOK, history
  <2>5. TablesAgree'
    <3>1. IsFiniteSet(likes')
      BY <1>4, FS_AddElement DEF Inv, Coherent, TablesAgree
    <3> QED BY <1>4, <2>1, <2>2, <3>1 DEF Inv, Coherent, TablesAgree, Exists, history
  <2>6. \A p, j : Owed(p, j)' = Owed(p, j) + (IF p = req[r].post /\ j = "likes" THEN 1 ELSE 0)
    BY <1>2, <1>4, <2>2, OweMoves
  <2>7. \A p : LikeRows(p)' = LikeRows(p) + (IF req[r].post = p THEN 1 ELSE 0)
    BY <1>4, <2>1, LikeAdds DEF Inv, Coherent
  <2>8. \A p : Unliked(p)' = Unliked(p) /\ Uncounted(p)' = Uncounted(p)
               /\ Restored(p)' = Restored(p)
    BY <2>2, <2>3, NoHistory DEF history
  <2>9. ASSUME NEW p
        PROVE  LikesMove(p) /\ CommentsMove(p) /\ ViewsMove(p)
    <3>1. /\ LikeRows(p) \in Nat /\ Unliked(p) \in Nat /\ Uncounted(p) \in Nat
          /\ \A k : Owed(p, k) \in Int
          /\ CommentRows(p) \in Nat /\ ViewRows(p) \in Nat /\ Restored(p) \in Nat
      BY Numbers DEF Inv, Coherent
    <3>2. CommentRows(p)' = CommentRows(p) /\ ViewRows(p)' = ViewRows(p)
      BY <2>2 DEF CommentRows, ViewRows
    <3>3. /\ Owed(p, "comments")' = Owed(p, "comments") + 0
          /\ Owed(p, "views")' = Owed(p, "views") + 0
          /\ Owed(p, "likes")' = Owed(p, "likes") + (IF p = req[r].post THEN 1 ELSE 0)
      BY <2>6
    <3>4. LikesMove(p)
      BY <2>7, <2>8, <3>1, <3>3 DEF LikesMove
    <3>5. CommentsMove(p)
      BY <2>8, <3>1, <3>2, <3>3 DEF CommentsMove
    <3>6. ViewsMove(p)
      BY <3>1, <3>2, <3>3 DEF ViewsMove
    <3> QED BY <3>4, <3>5, <3>6
  <2> QED BY <2>2, <2>3, <2>4, <2>5, <2>9, Writer DEF history
<1> QED BY <1>3, <1>4 DEF InsertLike

LEMMA InsertViewStep ==
  ASSUME Inv, NEW r \in Request, InsertView(r)
  PROVE  Inv'
<1>1. req[r].pc = "insertView" /\ req[r].pc \in Write
  BY DEF InsertView, At, Write
<1>2. /\ req[r].owed = 0 /\ r \notin vanished \cup revived /\ req[r].op = "view"
      /\ req[r].user \in User /\ req[r].post \in Reel
  <2>1. HandlerAgrees(r) /\ req[r].owed = 0 /\ r \notin vanished \cup revived /\ req[r].post \in born
    BY <1>1, WriterKnows
  <2> QED BY <1>1, <2>1 DEF HandlerAgrees, OpAt, SavePC, Inv, TypeOK
<1> DEFINE v == <<req[r].user, req[r].post>>
<1>3. CASE Answer(r, "failed") /\ UNCHANGED views
  BY <1>1, <1>2, <1>3, AnswerStep DEF InsertView, Running
<1>4. CASE /\ Exists(req[r].post) /\ v \notin views
           /\ views' = views \cup {v} /\ Owe(r, "views", 1)
  <2>1. v \in User \X Reel /\ v[2] = req[r].post /\ v \notin views
    BY <1>2, <1>4
  <2> HIDE DEF v
  <2>2. "view" \in OpAt("count") /\ "views" \in Counter /\ UNCHANGED <<posts, likes, comments, history>>
    BY DEF OpAt, SavePC, Saves, Counter, InsertView
  <2>3. /\ req' \in [Request -> Req] /\ Only(r) /\ HandlerAgrees(r)'
        /\ req'[r].pc \notin SavePC \cup {"removePost"} /\ req[r].pc \notin Paid
        /\ req'[r].op = req[r].op /\ req'[r].post = req[r].post
    BY <1>1, <1>2, <1>4, <2>2, OweAgrees DEF history
  <2>4. TypeOK'
    BY <1>4, <2>1, <2>2, <2>3 DEF Inv, TypeOK, history
  <2>5. TablesAgree'
    <3>1. IsFiniteSet(views')
      BY <1>4, FS_AddElement DEF Inv, Coherent, TablesAgree
    <3> QED BY <1>4, <2>1, <2>2, <3>1 DEF Inv, Coherent, TablesAgree, Exists, history
  <2>6. \A p, j : Owed(p, j)' = Owed(p, j) + (IF p = req[r].post /\ j = "views" THEN 1 ELSE 0)
    BY <1>2, <1>4, <2>2, OweMoves
  <2>7. \A p : ViewRows(p)' = ViewRows(p) + (IF req[r].post = p THEN 1 ELSE 0)
    BY <1>4, <2>1, ViewAdds DEF Inv, Coherent
  <2>8. \A p : Unliked(p)' = Unliked(p) /\ Uncounted(p)' = Uncounted(p)
               /\ Restored(p)' = Restored(p)
    BY <2>2, <2>3, NoHistory DEF history
  <2>9. ASSUME NEW p
        PROVE  LikesMove(p) /\ CommentsMove(p) /\ ViewsMove(p)
    <3>1. /\ LikeRows(p) \in Nat /\ Unliked(p) \in Nat /\ Uncounted(p) \in Nat
          /\ \A k : Owed(p, k) \in Int
          /\ CommentRows(p) \in Nat /\ ViewRows(p) \in Nat /\ Restored(p) \in Nat
      BY Numbers DEF Inv, Coherent
    <3>2. CommentRows(p)' = CommentRows(p) /\ LikeRows(p)' = LikeRows(p)
      BY <2>2 DEF CommentRows, LikeRows
    <3>3. /\ Owed(p, "comments")' = Owed(p, "comments") + 0
          /\ Owed(p, "likes")' = Owed(p, "likes") + 0
          /\ Owed(p, "views")' = Owed(p, "views") + (IF p = req[r].post THEN 1 ELSE 0)
      BY <2>6
    <3>4. LikesMove(p)
      BY <2>8, <3>1, <3>2, <3>3 DEF LikesMove
    <3>5. CommentsMove(p)
      BY <2>8, <3>1, <3>2, <3>3 DEF CommentsMove
    <3>6. ViewsMove(p)
      BY <2>7, <3>1, <3>3 DEF ViewsMove
    <3> QED BY <3>4, <3>5, <3>6
  <2> QED BY <2>2, <2>3, <2>4, <2>5, <2>9, Writer DEF history
<1> QED BY <1>3, <1>4 DEF InsertView

(* Comments go. *)
LEMMA CommentsShrink ==
  ASSUME TypeOK, TablesAgree, comments' \subseteq comments
  PROVE  /\ IsFiniteSet(comments')
         /\ \A p : /\ CommentRows(p)' \in Nat /\ CommentRows(p)' <= CommentRows(p)
                   /\ \A c \in comments \ comments' :
                        c.post = p => CommentRows(p)' + 1 <= CommentRows(p)
<1>1. IsFiniteSet(comments) /\ IsFiniteSet(comments')
  BY FS_Subset DEF TablesAgree
<1> SUFFICES ASSUME NEW p
             PROVE  /\ CommentRows(p)' \in Nat /\ CommentRows(p)' <= CommentRows(p)
                    /\ \A c \in comments \ comments' :
                         c.post = p => CommentRows(p)' + 1 <= CommentRows(p)
  BY <1>1
<1> DEFINE mine == {c \in comments : c.post = p}
           left == {c \in comments' : c.post = p}
<1>2. IsFiniteSet(mine) /\ left \in SUBSET mine
  BY <1>1, RowsNat
<1>3. /\ Cardinality(left) \in Nat /\ Cardinality(mine) \in Nat
      /\ Cardinality(left) <= Cardinality(mine)
      /\ left # mine => Cardinality(left) + 1 <= Cardinality(mine)
  BY <1>2, RowsShrink
<1>4. \A c \in comments \ comments' : c.post = p => left # mine
  OBVIOUS
<1>5. CommentRows(p) = Cardinality(mine) /\ CommentRows(p)' = Cardinality(left)
  BY DEF CommentRows
<1> QED BY <1>3, <1>4, <1>5

(* What is deleted is in its own cascade. *)
LEMMA CascadeHolds ==
  ASSUME NEW cs \in SUBSET comments
  PROVE  cs \subseteq Cascade(cs)
BY DEF Cascade

LEMMA InsertCommentStep ==
  ASSUME Inv, NEW r \in Request, InsertComment(r)
  PROVE  Inv'
<1>1. req[r].pc = "insertComment" /\ req[r].pc \in Write
  BY DEF InsertComment, At, Write
<1> DEFINE c == req[r].row
<1>2. /\ req[r].owed = 0 /\ r \notin vanished \cup revived /\ req[r].op = "comment"
      /\ c \in Comment /\ c.post = req[r].post
  <2>1. HandlerAgrees(r) /\ req[r].owed = 0 /\ r \notin vanished \cup revived
    BY <1>1, WriterKnows
  <2> QED BY <1>1, <2>1 DEF HandlerAgrees, OpAt, SavePC, CommentPC
<1> HIDE DEF c
<1>3. CASE Answer(r, "failed") /\ UNCHANGED comments
  BY <1>1, <1>2, <1>3, AnswerStep DEF InsertComment, Running
<1>4. CASE References(c) /\ comments' = comments \cup {c} /\ Owe(r, "comments", 1)
  <2>2. /\ "comment" \in OpAt("count") /\ "comments" \in Counter
        /\ UNCHANGED <<posts, likes, views, history>>
    BY DEF OpAt, SavePC, Saves, Counter, InsertComment
  <2>3. /\ req' \in [Request -> Req] /\ Only(r) /\ HandlerAgrees(r)'
        /\ req'[r].pc \notin SavePC \cup {"removePost"} /\ req[r].pc \notin Paid
        /\ req'[r].op = req[r].op /\ req'[r].post = req[r].post
    BY <1>1, <1>2, <1>4, <2>2, OweAgrees DEF history
  <2>4. TypeOK'
    BY <1>2, <1>4, <2>2, <2>3 DEF Inv, TypeOK, history
  <2>5. TablesAgree'
    <3>1. IsFiniteSet(comments')
      BY <1>4, FS_AddElement DEF Inv, Coherent, TablesAgree
    <3> QED BY <1>4, <2>2, <3>1 DEF Inv, Coherent, TablesAgree, Exists, References, history
  <2>6. \A p, j : Owed(p, j)' = Owed(p, j) + (IF p = req[r].post /\ j = "comments" THEN 1 ELSE 0)
    BY <1>2, <1>4, <2>2, OweMoves
  <2>7. \A p : CommentRows(p)' \in Nat /\
               CommentRows(p)' <= CommentRows(p) + (IF req[r].post = p THEN 1 ELSE 0)
    BY <1>2, <1>4, CommentAdds DEF Inv, Coherent
  <2>8. \A p : Unliked(p)' = Unliked(p) /\ Uncounted(p)' = Uncounted(p)
               /\ Restored(p)' = Restored(p)
    BY <2>2, <2>3, NoHistory DEF history
  <2>9. ASSUME NEW p
        PROVE  LikesMove(p) /\ CommentsMove(p) /\ ViewsMove(p)
    <3>1. /\ LikeRows(p) \in Nat /\ Unliked(p) \in Nat /\ Uncounted(p) \in Nat
          /\ \A k : Owed(p, k) \in Int
          /\ CommentRows(p) \in Nat /\ ViewRows(p) \in Nat /\ Restored(p) \in Nat
      BY Numbers DEF Inv, Coherent
    <3>2. LikeRows(p)' = LikeRows(p) /\ ViewRows(p)' = ViewRows(p)
      BY <2>2 DEF LikeRows, ViewRows
    <3>3. /\ Owed(p, "likes")' = Owed(p, "likes") + 0
          /\ Owed(p, "views")' = Owed(p, "views") + 0
          /\ Owed(p, "comments")' = Owed(p, "comments") + (IF p = req[r].post THEN 1 ELSE 0)
      BY <2>6
    <3>4. LikesMove(p)
      BY <2>8, <3>1, <3>2, <3>3 DEF LikesMove
    <3>5. CommentsMove(p)
      BY <2>7, <2>8, <3>1, <3>3 DEF CommentsMove
    <3>6. ViewsMove(p)
      BY <3>1, <3>2, <3>3 DEF ViewsMove
    <3> QED BY <3>4, <3>5, <3>6
  <2> QED BY <2>2, <2>3, <2>4, <2>5, <2>9, Writer DEF history
<1> QED BY <1>3, <1>4 DEF InsertComment, c

LEMMA ReinsertCommentStep ==
  ASSUME Inv, NEW r \in Request, ReinsertComment(r)
  PROVE  Inv'
<1>1. req[r].pc = "reinsertComment" /\ req[r].pc \in Write
  BY DEF ReinsertComment, At, Write
<1> DEFINE c == req[r].row
<1>2. /\ req[r].owed = 0 /\ r \notin vanished \cup revived /\ req[r].op = "editComment"
      /\ c \in Comment /\ c.post = req[r].post /\ req[r].post \in born
      /\ req \in [Request -> Req] /\ req[r].pc \notin Paid
  <2>1. /\ HandlerAgrees(r) /\ req[r].owed = 0 /\ r \notin vanished \cup revived
        /\ req[r].post \in born /\ req \in [Request -> Req] /\ req[r].pc \notin Paid
    BY <1>1, WriterKnows
  <2> QED BY <1>1, <2>1 DEF HandlerAgrees, OpAt, SavePC, CommentPC
<1> HIDE DEF c
<1>3. CASE Answer(r, "failed") /\ UNCHANGED <<comments, revived>>
  BY <1>1, <1>2, <1>3, AnswerStep DEF ReinsertComment, Running, history
<1>4. CASE /\ References(c) /\ comments' = comments \cup {c}
           /\ revived' = revived \cup {r} /\ Answer(r, "done")
  <2>2. UNCHANGED <<posts, likes, views, born, resaved, vanished, rivals, shelved>>
    BY DEF ReinsertComment
  <2>3. /\ req' \in [Request -> Req] /\ Only(r) /\ req'[r].pc = "done"
        /\ req'[r].op = req[r].op /\ req'[r].post = req[r].post
        /\ req'[r].counter = req[r].counter /\ req'[r].owed = req[r].owed
    BY <1>2, <1>4, AnswerSets
  <2>10. HandlerAgrees(r)'
    <3>1. "editComment" \in OpAt("done")
      BY DEF OpAt, SavePC, Saves
    <3> QED BY <1>2, <2>2, <2>3, <3>1 DEF HandlerAgrees, SavePC, CommentPC
  <2>4. TypeOK'
    BY <1>2, <1>4, <2>2, <2>3 DEF Inv, TypeOK
  <2>5. TablesAgree'
    <3>1. IsFiniteSet(comments')
      BY <1>4, FS_AddElement DEF Inv, Coherent, TablesAgree
    <3> QED BY <1>4, <2>2, <3>1 DEF Inv, Coherent, TablesAgree, Exists, References
  <2>6. \A p, k : k \in Kept => Owed(p, k)' = Owed(p, k)
    BY <2>3, DebtKept DEF SameDebt
  <2>7. \A p : CommentRows(p)' \in Nat /\
               CommentRows(p)' <= CommentRows(p) + (IF req[r].post = p THEN 1 ELSE 0)
    BY <1>2, <1>4, CommentAdds DEF Inv, Coherent
  <2>8. \A p : /\ Unliked(p)' = Unliked(p) /\ Uncounted(p)' = Uncounted(p)
               /\ Restored(p)' = Restored(p) + (IF req[r].post = p THEN 1 ELSE 0)
    <3>1. SameName(r) /\ vanished \subseteq Request
      BY <2>3 DEF SameName, Inv, TypeOK
    <3>2. \A op, p : Of(vanished, op, p)' = Of(vanished, op, p)
      BY <2>2, <2>3, <3>1, VanishedKept
    <3>3. \A op, p : Cardinality(Of(revived, op, p))' =
            Cardinality(Of(revived, op, p))
              + (IF req[r].op = op /\ req[r].post = p THEN 1 ELSE 0)
      BY <1>2, <1>4, <2>3, RevivedMoves DEF Inv
    <3>4. \A p : Restored(p)' = Restored(p) + (IF req[r].post = p THEN 1 ELSE 0)
      BY <1>2, <3>3 DEF Restored
    <3> QED BY <3>2, <3>4 DEF Unliked, Uncounted
  <2>9. ASSUME NEW p
        PROVE  LikesMove(p) /\ CommentsMove(p) /\ ViewsMove(p)
    <3>1. /\ LikeRows(p) \in Nat /\ Unliked(p) \in Nat /\ Uncounted(p) \in Nat
          /\ \A k : Owed(p, k) \in Int
          /\ CommentRows(p) \in Nat /\ ViewRows(p) \in Nat /\ Restored(p) \in Nat
      BY Numbers DEF Inv, Coherent
    <3>2. LikeRows(p)' = LikeRows(p) /\ ViewRows(p)' = ViewRows(p)
      BY <2>2 DEF LikeRows, ViewRows
    <3>3. /\ Owed(p, "likes")' = Owed(p, "likes")
          /\ Owed(p, "views")' = Owed(p, "views")
          /\ Owed(p, "comments")' = Owed(p, "comments")
      BY <2>6 DEF Kept
    <3>4. LikesMove(p)
      BY <2>8, <3>1, <3>2, <3>3 DEF LikesMove
    <3>5. CommentsMove(p)
      BY <2>7, <2>8, <3>1, <3>3 DEF CommentsMove
    <3>6. ViewsMove(p)
      BY <3>1, <3>2, <3>3 DEF ViewsMove
    <3> QED BY <3>4, <3>5, <3>6
  <2>11. req'[r].pc \notin SavePC \cup {"removePost"}
    BY <2>3 DEF SavePC
  <2> QED BY <1>2, <1>4, <2>2, <2>3, <2>4, <2>5, <2>9, <2>10, <2>11, Writer
<1> QED BY <1>3, <1>4 DEF ReinsertComment, c

LEMMA DeleteRepliesStep ==
  ASSUME Inv, NEW r \in Request, DeleteReplies(r)
  PROVE  Inv'
<1>1. req[r].pc = "deleteReplies" /\ req[r].pc \in Write
  BY DEF DeleteReplies, At, Write
<1>2. /\ HandlerAgrees(r) /\ req[r].owed = 0 /\ r \notin vanished \cup revived
      /\ req \in [Request -> Req] /\ req[r].pc \notin Paid
  BY <1>1, WriterKnows
<1>3. req[r].op = "deleteComment"
  BY <1>1, <1>2 DEF HandlerAgrees, OpAt, SavePC
<1>4. comments' \subseteq comments /\ UNCHANGED <<posts, likes, views, history>>
      /\ GoTo(r, "removeComment")
  BY DEF DeleteReplies
<1>5. /\ req' \in [Request -> Req] /\ Only(r) /\ req'[r].pc = "removeComment"
      /\ req'[r].op = req[r].op /\ req'[r].post = req[r].post /\ req'[r].row = req[r].row
      /\ req'[r].counter = req[r].counter /\ req'[r].owed = req[r].owed
  BY <1>2, <1>4, GoToSets DEF Running
<1>6. HandlerAgrees(r)'
  <2>1. "deleteComment" \in OpAt("removeComment")
    BY DEF OpAt, SavePC, Saves
  <2> QED BY <1>1, <1>2, <1>3, <1>4, <1>5, <2>1 DEF HandlerAgrees, SavePC, CommentPC, history
<1>7. TypeOK'
  BY <1>4, <1>5 DEF Inv, TypeOK, history
<1>8. /\ IsFiniteSet(comments')
      /\ \A p : CommentRows(p)' \in Nat /\ CommentRows(p)' <= CommentRows(p)
  BY <1>4, CommentsShrink DEF Inv, Coherent
<1>9. TablesAgree'
  BY <1>4, <1>8 DEF Inv, Coherent, TablesAgree, Exists, history
<1>10. \A p, k : k \in Kept => Owed(p, k)' = Owed(p, k)
  BY <1>5, DebtKept DEF SameDebt
<1>11. \A p : Unliked(p)' = Unliked(p) /\ Uncounted(p)' = Uncounted(p)
              /\ Restored(p)' = Restored(p)
  BY <1>4, <1>5, NoHistory DEF history
<1>12. ASSUME NEW p
       PROVE  LikesMove(p) /\ CommentsMove(p) /\ ViewsMove(p)
  <2>1. /\ LikeRows(p) \in Nat /\ Unliked(p) \in Nat /\ Uncounted(p) \in Nat
        /\ \A k : Owed(p, k) \in Int
        /\ CommentRows(p) \in Nat /\ ViewRows(p) \in Nat /\ Restored(p) \in Nat
    BY Numbers DEF Inv, Coherent
  <2>2. LikeRows(p)' = LikeRows(p) /\ ViewRows(p)' = ViewRows(p)
    BY <1>4 DEF LikeRows, ViewRows
  <2>3. /\ Owed(p, "likes")' = Owed(p, "likes")
        /\ Owed(p, "views")' = Owed(p, "views")
        /\ Owed(p, "comments")' = Owed(p, "comments")
    BY <1>10 DEF Kept
  <2> QED BY <1>8, <1>11, <2>1, <2>2, <2>3 DEF LikesMove, CommentsMove, ViewsMove
<1>13. req'[r].pc \notin SavePC \cup {"removePost"}
  BY <1>5 DEF SavePC
<1> QED BY <1>2, <1>4, <1>5, <1>6, <1>7, <1>9, <1>12, <1>13, Writer DEF history

LEMMA RemoveCommentStep ==
  ASSUME Inv, NEW r \in Request, RemoveComment(r)
  PROVE  Inv'
<1>1. req[r].pc = "removeComment" /\ req[r].pc \in Write
  BY DEF RemoveComment, At, Write
<1> DEFINE c == req[r].row
<1>2. /\ req[r].owed = 0 /\ r \notin vanished \cup revived /\ req[r].op = "deleteComment"
      /\ c \in Comment /\ c.post = req[r].post
  <2>1. HandlerAgrees(r) /\ req[r].owed = 0 /\ r \notin vanished \cup revived
    BY <1>1, WriterKnows
  <2> QED BY <1>1, <2>1 DEF HandlerAgrees, OpAt, SavePC, CommentPC
<1>3. "deleteComment" \in OpAt("count") /\ "comments" \in Counter /\ Owe(r, "comments", -1)
  BY DEF OpAt, SavePC, Saves, Counter, RemoveComment
<1>4. /\ req' \in [Request -> Req] /\ Only(r) /\ HandlerAgrees(r)'
      /\ req'[r].pc \notin SavePC \cup {"removePost"} /\ req[r].pc \notin Paid
      /\ req'[r].op = req[r].op /\ req'[r].post = req[r].post
  BY <1>1, <1>2, <1>3, OweAgrees DEF RemoveComment
<1>5. /\ UNCHANGED <<posts, likes, views, born, resaved, revived, rivals, shelved>>
      /\ comments' \subseteq comments
      /\ vanished' = IF c \in comments THEN vanished ELSE vanished \cup {r}
  BY DEF RemoveComment
<1>6. c \in comments => c \notin comments'
  <2> DEFINE cs == {d \in comments : d.id = c.id}
  <2>1. cs \subseteq Cascade(cs)
    BY CascadeHolds
  <2>2. c \in comments => c \in cs
    OBVIOUS
  <2>3. comments' = comments \ Cascade(cs)
    BY DEF RemoveComment
  <2> QED BY <2>1, <2>2, <2>3
<1> HIDE DEF c
<1>7. TypeOK'
  BY <1>4, <1>5 DEF Inv, TypeOK
<1>8. /\ IsFiniteSet(comments')
      /\ \A p : /\ CommentRows(p)' \in Nat /\ CommentRows(p)' <= CommentRows(p)
                /\ \A d \in comments \ comments' :
                     d.post = p => CommentRows(p)' + 1 <= CommentRows(p)
  BY <1>5, CommentsShrink DEF Inv, Coherent
<1>9. TablesAgree'
  BY <1>5, <1>8 DEF Inv, Coherent, TablesAgree, Exists
<1>10. \A p, j : Owed(p, j)' = Owed(p, j)
                   + (IF p = req[r].post /\ j = "comments" THEN -1 ELSE 0)
  BY <1>2, <1>3, OweMoves
<1>11. \A p : Restored(p)' = Restored(p)
  <2>1. SameName(r) /\ revived \subseteq Request
    BY <1>4 DEF SameName, Inv, TypeOK
  <2> QED BY <1>4, <1>5, <2>1, RevivedKept DEF Restored
<1>12. ASSUME NEW p
       PROVE  /\ Unliked(p)' = Unliked(p) /\ Uncounted(p)' \in Nat
              /\ CommentRows(p)' - Uncounted(p)' <=
                   CommentRows(p) - Uncounted(p) - (IF p = req[r].post THEN 1 ELSE 0)
  <2>0. CommentRows(p) \in Nat /\ Unliked(p) \in Nat /\ Uncounted(p) \in Nat
        /\ Uncounted(p)' \in Nat /\ CommentRows(p)' \in Nat
    BY <1>7, <1>9, Numbers, NumbersNext DEF Inv, Coherent
  <2>1. CASE c \in comments
    <3>1. \A op, q : Of(vanished, op, q)' = Of(vanished, op, q)
      <4>1. vanished' = vanished /\ SameName(r) /\ vanished \subseteq Request
        BY <1>4, <1>5, <2>1 DEF SameName, Inv, TypeOK
      <4> QED BY <1>4, <4>1, VanishedKept
    <3>2. Unliked(p)' = Unliked(p) /\ Uncounted(p)' = Uncounted(p)
      BY <3>1 DEF Unliked, Uncounted
    <3>3. CommentRows(p)' <= CommentRows(p) - (IF p = req[r].post THEN 1 ELSE 0)
      <4>1. p = req[r].post => CommentRows(p)' + 1 <= CommentRows(p)
        BY <1>2, <1>6, <1>8, <2>1
      <4> QED BY <1>8, <2>0, <4>1
    <3> QED BY <2>0, <3>2, <3>3
  <2>2. CASE c \notin comments
    <3>1. vanished' = vanished \cup {r}
      BY <1>5, <2>2
    <3>2. \A op, q : Cardinality(Of(vanished, op, q))' =
            Cardinality(Of(vanished, op, q))
              + (IF req[r].op = op /\ req[r].post = q THEN 1 ELSE 0)
      BY <1>2, <1>4, <3>1, VanishedMoves DEF Inv
    <3>3. Uncounted(p)' = Uncounted(p) + (IF req[r].post = p THEN 1 ELSE 0)
      BY <1>2, <3>2 DEF Uncounted
    <3>4. Unliked(p)' = Unliked(p)
      <4>1. Unliked(p)' = Unliked(p) + 0
        BY <1>2, <3>2 DEF Unliked
      <4> QED BY <2>0, <4>1
    <3>5. CommentRows(p)' <= CommentRows(p)
      BY <1>8
    <3> QED BY <2>0, <3>3, <3>4, <3>5
  <2> QED BY <2>1, <2>2
<1>13. ASSUME NEW p
       PROVE  LikesMove(p) /\ CommentsMove(p) /\ ViewsMove(p)
  <2>1. /\ LikeRows(p) \in Nat /\ Unliked(p) \in Nat /\ Uncounted(p) \in Nat
        /\ \A k : Owed(p, k) \in Int
        /\ CommentRows(p) \in Nat /\ ViewRows(p) \in Nat /\ Restored(p) \in Nat
    BY Numbers DEF Inv, Coherent
  <2>2. LikeRows(p)' = LikeRows(p) /\ ViewRows(p)' = ViewRows(p)
    BY <1>5 DEF LikeRows, ViewRows
  <2>3. CommentRows(p)' \in Nat /\ Restored(p)' = Restored(p)
    BY <1>8, <1>11
  <2>5. /\ Owed(p, "likes")' = Owed(p, "likes") + 0
        /\ Owed(p, "views")' = Owed(p, "views") + 0
        /\ Owed(p, "comments")' = Owed(p, "comments") + (IF p = req[r].post THEN -1 ELSE 0)
    BY <1>10
  <2>6. LikesMove(p)
    BY <1>12, <2>1, <2>2, <2>5 DEF LikesMove
  <2>7. CommentsMove(p)
    BY <1>12, <2>1, <2>3, <2>5 DEF CommentsMove
  <2>8. ViewsMove(p)
    BY <2>1, <2>2, <2>5 DEF ViewsMove
  <2> QED BY <2>6, <2>7, <2>8
<1> QED BY <1>4, <1>5, <1>7, <1>9, <1>13, Writer

-----------------------------------------------------------------------------
(* The statements that write posts *)

(* The row of a counter moved by n. *)
Bumped(x, k, n) == [x EXCEPT !.counts[k] = @ + n]

LEMMA BumpedIs ==
  ASSUME NEW x \in PostRow, NEW k \in Counter, NEW n \in {-1, 0, 1}
  PROVE  /\ Bumped(x, k, n).id = x.id /\ Bumped(x, k, n).author = x.author
         /\ Bumped(x, k, n).archived = x.archived
         /\ \A j \in Counter : /\ x.counts[j] \in Int
                               /\ Bumped(x, k, n).counts[j] =
                                    x.counts[j] + (IF j = k THEN n ELSE 0)
<1>1. Cardinality(Request) \in Nat
  BY CardNat
<1>2. x.counts \in [Counter -> Int]
  BY <1>1 DEF PostRow, Count
<1> DEFINE c == [x.counts EXCEPT ![k] = @ + n]
<1>3. \A j \in Counter : c[j] = x.counts[j] + (IF j = k THEN n ELSE 0) /\ x.counts[j] \in Int
  BY <1>2
<1>4. Bumped(x, k, n) = [x EXCEPT !.counts = c]
  BY DEF Bumped, PostRow
<1> HIDE DEF c
<1>5. /\ Bumped(x, k, n).id = x.id /\ Bumped(x, k, n).author = x.author
      /\ Bumped(x, k, n).archived = x.archived /\ Bumped(x, k, n).counts = c
  BY <1>4 DEF PostRow
<1> QED BY <1>3, <1>5

LEMMA BumpedTyped ==
  ASSUME NEW x \in PostRow, NEW k \in Counter, NEW n \in {-1, 0, 1}, NEW m \in Nat,
         Within(x, m), m + 1 <= Cardinality(Request)
  PROVE  Bumped(x, k, n) \in PostRow /\ Within(Bumped(x, k, n), m + 1)
<1>1. Cardinality(Request) \in Nat
  BY CardNat
<1>2. x.counts \in [Counter -> Int]
  BY <1>1 DEF PostRow, Count
<1> DEFINE c == [x.counts EXCEPT ![k] = @ + n]
<1>3. \A j \in Counter : c[j] \in Int /\ c[j] <= m + 1 /\ 0 - c[j] <= m + 1
  <2> SUFFICES ASSUME NEW j \in Counter
               PROVE  c[j] \in Int /\ c[j] <= m + 1 /\ 0 - c[j] <= m + 1
    OBVIOUS
  <2>1. x.counts[j] \in Int /\ x.counts[j] <= m /\ 0 - x.counts[j] <= m
    BY <1>2 DEF Within
  <2>2. c[j] = x.counts[j] + (IF j = k THEN n ELSE 0)
    BY <1>2
  <2> HIDE DEF c
  <2> QED BY <2>1, <2>2
<1>4. c \in [Counter -> Count]
  <2>1. \A j \in Counter : c[j] \in Count
    <3> HIDE DEF c
    <3> QED BY <1>1, <1>3 DEF Count
  <2> QED BY <1>2, <2>1
<1>5. Bumped(x, k, n) = [x EXCEPT !.counts = c]
  BY DEF Bumped, PostRow
<1> HIDE DEF c
<1>6. Bumped(x, k, n) \in PostRow /\ Bumped(x, k, n).counts = c
  BY <1>4, <1>5 DEF PostRow
<1> QED BY <1>3, <1>6 DEF Within

LEMMA CountRowStep ==
  ASSUME Inv, NEW r \in Request, CountRow(r)
  PROVE  Inv'
<1> DEFINE q == req[r]
           p == req[r].post
           k == req[r].counter
           n == req[r].owed
<1>1. /\ req \in [Request -> Req] /\ q \in Req /\ q.pc = "count" /\ HandlerAgrees(r)
      /\ k \in Counter /\ n \in {-1, 0, 1} /\ p \in born
  <2>1. req \in [Request -> Req] /\ q \in Req /\ q.pc = "count" /\ HandlerAgrees(r)
    BY DEF Inv, Coherent, TypeOK, CountRow, At
  <2>2. k \in Counter /\ n \in {-1, 0, 1}
    BY <2>1 DEF Req
  <2>3. p \in born
    BY <2>1 DEF HandlerAgrees
  <2> QED BY <2>1, <2>2, <2>3
<1>2. /\ UNCHANGED <<likes, comments, views, history>>
      /\ posts' = {IF x.id = p THEN Bumped(x, k, n) ELSE x : x \in posts}
  BY DEF CountRow, Bumped
<1> DEFINE pc == IF n = 1 /\ k \in {"likes", "comments"} THEN "notify" ELSE "done"
           after == [q EXCEPT !.owed = 0, !.pc = pc]
<1>3. pc \in {"notify", "done"}
  OBVIOUS
<1>4. req' = [req EXCEPT ![r] = after]
  BY <1>1 DEF CountRow
<1>5. /\ after \in Req /\ after.pc = pc /\ after.owed = 0 /\ after.op = q.op /\ after.post = p
      /\ after.counter = k
  <2> HIDE DEF pc
  <2> QED BY <1>1, <1>3, ZenonT(60) DEF Req, Running
<1> HIDE DEF after, pc
<1>6. req' \in [Request -> Req] /\ req'[r] = after /\ Only(r)
  BY <1>1, <1>4, <1>5 DEF Only
<1>7. HandlerAgrees(r)'
  <2>1. q.op \in OpAt("notify") /\ q.op \in OpAt("done")
    BY <1>1 DEF HandlerAgrees, OpAt, SavePC, Saves
  <2> QED BY <1>1, <1>2, <1>3, <1>5, <1>6, <2>1 DEF HandlerAgrees, SavePC, CommentPC, history
<1>8. /\ Cardinality(Spent) \in Nat /\ Cardinality(Spent)' = Cardinality(Spent) + 1
      /\ Cardinality(Spent) + 1 <= Cardinality(Request)
  <2>1. Spent \in SUBSET Request /\ Spent' \in SUBSET Request /\ r \notin Spent
    BY <1>1 DEF Spent
  <2>2. Spent' = Spent \cup {r}
    BY <1>3, <1>5, <1>6 DEF Spent, Only
  <2>3. Cardinality(Spent') = Cardinality(Spent) + 1
    BY <2>1, <2>2, CardTakes
  <2> QED BY <2>1, <2>3, CardNat
<1>9. \A x \in posts : x \in PostRow /\ Within(x, Cardinality(Spent))
  BY DEF Inv, Coherent, TypeOK, CountersBounded
<1>10. ASSUME NEW x \in posts'
       PROVE  \E y \in posts :
                /\ y.id = x.id /\ y.author = x.author /\ y.archived = x.archived
                /\ x = IF y.id = p THEN Bumped(y, k, n) ELSE y
                /\ \A j \in Counter : /\ y.counts[j] \in Int
                     /\ x.counts[j] = y.counts[j] + (IF y.id = p /\ j = k THEN n ELSE 0)
                /\ x \in PostRow
                /\ y = x \/ Within(x, Cardinality(Spent)')
  <2>1. PICK y \in posts : x = IF y.id = p THEN Bumped(y, k, n) ELSE y
    BY <1>2
  <2>2. y \in PostRow /\ Within(y, Cardinality(Spent))
    BY <1>9
  <2>3. CASE y.id = p
    <3>1. x = Bumped(y, k, n)
      BY <2>1, <2>3
    <3>2. /\ x.id = y.id /\ x.author = y.author /\ x.archived = y.archived
          /\ \A j \in Counter : /\ y.counts[j] \in Int
                                /\ x.counts[j] = y.counts[j] + (IF j = k THEN n ELSE 0)
      BY <1>1, <2>2, <3>1, BumpedIs
    <3>3. x \in PostRow /\ Within(x, Cardinality(Spent) + 1)
      BY <1>1, <1>8, <2>2, <3>1, BumpedTyped
    <3> QED BY <1>8, <2>1, <2>3, <3>2, <3>3
  <2>4. CASE y.id # p
    <3>1. x = y
      BY <2>1, <2>4
    <3>2. \A j \in Counter : y.counts[j] \in Int
      BY <2>2, CardNat DEF PostRow, Count
    <3> QED BY <2>1, <2>2, <2>4, <3>1, <3>2
  <2> QED BY <2>3, <2>4
<1>11. TypeOK'
  <2>1. posts' \subseteq PostRow
    BY <1>10
  <2> QED BY <1>2, <1>6, <2>1 DEF Inv, TypeOK, history
<1>12. TablesAgree'
  <2>1. \A z : Exists(z) => Exists(z)'
    <3> SUFFICES ASSUME NEW y \in posts
                 PROVE  \E x \in posts' : x.id = y.id
      BY DEF Exists
    <3>1. (IF y.id = p THEN Bumped(y, k, n) ELSE y) \in posts'
      BY <1>2
    <3>2. Bumped(y, k, n).id = y.id
      BY <1>1, <1>9, BumpedIs
    <3> QED BY <3>1, <3>2
  <2>2. \A x, y \in posts' : x.id = y.id => x = y
    BY <1>10 DEF Inv, Coherent, TablesAgree
  <2>3. \A x \in posts' : x.id \in born
    BY <1>10 DEF Inv, Coherent, TablesAgree
  <2> QED BY <1>2, <2>1, <2>2, <2>3 DEF Inv, Coherent, TablesAgree, history
<1>13. (\A s \in Request : HandlerAgrees(s))'
  BY <1>2, <1>6, <1>7, HandlersKeep DEF Inv, Coherent, history
<1>14. req'[r].pc \notin SavePC \cup {"removePost"} /\ req'[r].pc \in Paid
  BY <1>3, <1>5, <1>6 DEF SavePC, Paid
<1>15. CountersBounded'
  <2>1. \A x \in posts' : \/ Within(x, Cardinality(Spent)') \/ \E y \in posts : x = y
    BY <1>10
  <2> QED BY <1>6, <1>14, <2>1, BoundedKeeps DEF Inv, Coherent, TypeOK, Paid
<1>16. OwnersAgree' /\ SaversAgree' /\ ArchivedStaysArchived'
  <2>1. RowsOf(posts', posts)
    BY <1>10 DEF RowsOf
  <2> QED BY <1>2, <1>6, <1>14, <2>1, Steady DEF Inv, Coherent, history
<1>17. \A z, j : Owed(z, j)' = Owed(z, j) - (IF z = p /\ j = k THEN n ELSE 0)
  <2> SUFFICES ASSUME NEW z, NEW j
               PROVE  Owed(z, j)' = Owed(z, j) - (IF z = p /\ j = k THEN n ELSE 0)
    OBVIOUS
  <2>1. Owed(z, j) = OwedIn(req, z, j) /\ Owed(z, j)' = OwedIn(req', z, j)
    BY OwedIs
  <2>2. OwedIn(req, z, j) \in Int /\ OwedIn(req', z, j) \in Int
    BY OwedInt
  <2>3. CASE z = p /\ j = k /\ n # 0
    <3>1. OwedIn(req, z, j) = OwedIn(req', z, j) + n
      <4>1. n \in {1, -1}
        BY <1>1, <2>3
      <4> QED BY <1>5, <1>6, <2>3, <4>1, OwedTaken DEF Only
    <3> HIDE DEF n
    <3> QED BY <1>1, <2>1, <2>2, <2>3, <3>1
  <2>4. CASE ~(z = p /\ j = k) \/ n = 0
    <3>1. OwedIn(req, z, j) = OwedIn(req', z, j)
      BY <1>5, <1>6, <2>4, OwedSame DEF Only
    <3> QED BY <2>1, <2>2, <2>4, <3>1
  <2> QED BY <2>3, <2>4
<1>18. \A z : Unliked(z)' = Unliked(z) /\ Uncounted(z)' = Uncounted(z)
              /\ Restored(z)' = Restored(z)
  BY <1>2, <1>5, <1>6, NoHistory DEF history
<1>19. LikesAccounted' /\ CommentsNotUndercounted' /\ ViewsAccounted'
  <2> SUFFICES ASSUME NEW x \in posts', x.id \notin resaved'
               PROVE  \E y \in posts : /\ y.id = x.id /\ y.id \notin resaved
                        /\ LikesShift(x, y) /\ CommentsShift(x, y) /\ ViewsShift(x, y)
    BY <1>11, <1>12, LedgersShift
  <2>1. PICK y \in posts : /\ y.id = x.id
                           /\ \A j \in Counter : /\ y.counts[j] \in Int
                                /\ x.counts[j] = y.counts[j] + (IF y.id = p /\ j = k THEN n ELSE 0)
    BY <1>10
  <2>2. y.id \notin resaved
    BY <1>2, <2>1 DEF history
  <2>3. /\ LikeRows(y.id) \in Nat /\ CommentRows(y.id) \in Nat /\ ViewRows(y.id) \in Nat
        /\ Unliked(y.id) \in Nat /\ Uncounted(y.id) \in Nat /\ Restored(y.id) \in Nat
        /\ \A j : Owed(y.id, j) \in Int
    BY Numbers DEF Inv, Coherent
  <2>4. /\ LikeRows(y.id)' = LikeRows(y.id) /\ CommentRows(y.id)' = CommentRows(y.id)
        /\ ViewRows(y.id)' = ViewRows(y.id)
    BY <1>2 DEF LikeRows, CommentRows, ViewRows
  <2>5. \A j : Owed(y.id, j)' = Owed(y.id, j) - (IF y.id = p /\ j = k THEN n ELSE 0)
    BY <1>17
  <2>6. /\ Unliked(y.id)' = Unliked(y.id) /\ Uncounted(y.id)' = Uncounted(y.id)
        /\ Restored(y.id)' = Restored(y.id)
    BY <1>18
  <2>7. \A j \in Counter : (x.counts[j] - y.counts[j]) + (Owed(y.id, j)' - Owed(y.id, j)) = 0
    <3> SUFFICES ASSUME NEW j \in Counter
                 PROVE  (x.counts[j] - y.counts[j]) + (Owed(y.id, j)' - Owed(y.id, j)) = 0
      OBVIOUS
    <3>1. x.counts[j] = y.counts[j] + (IF y.id = p /\ j = k THEN n ELSE 0)
      BY <2>1
    <3>2. Owed(y.id, j)' = Owed(y.id, j) - (IF y.id = p /\ j = k THEN n ELSE 0)
      BY <2>5
    <3>3. Owed(y.id, j) \in Int /\ y.counts[j] \in Int /\ n \in Int
      BY <1>1, <2>1, <2>3
    <3> HIDE DEF n
    <3> QED BY <3>1, <3>2, <3>3
  <2>8. "likes" \in Counter /\ "comments" \in Counter /\ "views" \in Counter
    BY DEF Counter
  <2>9. LikesShift(x, y)
    BY <2>3, <2>4, <2>6, <2>7, <2>8 DEF LikesShift
  <2>10. CommentsShift(x, y)
    BY <2>3, <2>4, <2>6, <2>7, <2>8 DEF CommentsShift
  <2>11. ViewsShift(x, y)
    BY <2>3, <2>4, <2>6, <2>7, <2>8 DEF ViewsShift
  <2> QED BY <2>1, <2>2, <2>9, <2>10, <2>11
<1> QED BY <1>11, <1>12, <1>13, <1>15, <1>16, <1>19 DEF Inv, Coherent

-----------------------------------------------------------------------------
(* The saves and the deletion of a post *)

LEMMA SaverKnows ==
  ASSUME Inv, NEW r \in Request, req[r].pc \in SavePC
  PROVE  /\ req \in [Request -> Req] /\ req[r] \in Req /\ HandlerAgrees(r)
         /\ req[r].op \in Saves /\ req[r].owed = 0 /\ r \notin vanished \cup revived
         /\ req[r].post \in born /\ req[r].post \in Post /\ req[r].user \in User
         /\ req[r].copy \in PostRow /\ req[r].copy.id = req[r].post
         /\ req[r].copy.author = req[r].user
         /\ req[r].op = "archive" => req[r].copy.archived
         /\ req[r].pc \in Running /\ req[r].pc \notin Paid
<1>1. req \in [Request -> Req] /\ req[r] \in Req /\ HandlerAgrees(r) /\ born \subseteq Post
  BY DEF Inv, Coherent, TypeOK
<1>2. req[r].op \in Saves
  BY <1>1 DEF HandlerAgrees, OpAt, SavePC
<1> QED BY <1>1, <1>2 DEF HandlerAgrees, SavePC, Running, Paid

(* A save that ends: the row it leaves, if any, is the author's, and archived if
   the post is shelved. *)
LEMMA SaverEnds ==
  ASSUME Inv, NEW r \in Request, req[r].pc \in SavePC, Only(r), req'[r].pc \in Paid,
         rivals' = rivals, Shelve(r),
         \A x \in posts' :
           \/ x.id # req[r].post /\ x \in posts
           \/ /\ x.id = req[r].post /\ x.author = req[r].user
              /\ req[r].post \in shelved /\ req[r].copy.archived => x.archived
              /\ r \notin rivals /\ req[r].copy.archived => x.archived
  PROVE  OwnersAgree' /\ SaversAgree' /\ ArchivedStaysArchived'
<1> DEFINE q == req[r]
<1>1. OwnersAgree /\ SaversAgree /\ ArchivedStaysArchived
  BY DEF Inv, Coherent
<1>2. /\ q.op = "archive" => q.copy.archived
      /\ q.post \in shelved => q.copy.archived
      /\ shelved' = IF q.op = "archive" /\ r \notin rivals THEN shelved \cup {q.post} ELSE shelved
  BY <1>1, SaverKnows DEF SaversAgree, Shelve
<1>3. r \notin rivals =>
        \A s \in Request : req[s].pc \in SavePC /\ req[s].post = q.post => s = r
  BY <1>1 DEF SaversAgree
<1>4. \A s \in Request : req'[s].pc \in SavePC \cup {"removePost"} => s # r /\ req'[s] = req[s]
  BY DEF Only, Paid, SavePC
<1>5. OwnersAgree'
  <2>1. ASSUME NEW s \in Request, Owning(s)', NEW x \in posts', x.id = req'[s].post
        PROVE  x.author = req'[s].user
    <3>1. s # r /\ req'[s] = req[s] /\ Owning(s) /\ Owning(r)
      BY <1>4, <2>1 DEF Owning
    <3>2. CASE x \in posts
      BY <1>1, <2>1, <3>1, <3>2 DEF OwnersAgree
    <3>3. CASE x.id = q.post /\ x.author = q.user
      BY <1>1, <2>1, <3>1, <3>3 DEF OwnersAgree
    <3> QED BY <3>2, <3>3
  <2>2. ASSUME NEW s \in Request, Owning(s)', NEW t \in Request, Owning(t)',
               req'[t].post = req'[s].post
        PROVE  req'[t].user = req'[s].user
    BY <1>1, <1>4, <2>2 DEF OwnersAgree, Owning
  <2> QED BY <2>1, <2>2 DEF OwnersAgree
<1>6. SaversAgree'
  <2>1. ASSUME NEW s \in Request, req'[s].pc \in SavePC
        PROVE  /\ req[s].pc \in SavePC /\ req'[s] = req[s] /\ s # r
               /\ req'[s].post \in shelved' => req'[s].copy.archived
    <3>1. req[s].pc \in SavePC /\ req'[s] = req[s] /\ s # r
      BY <1>4, <2>1
    <3>2. req[s].post \in shelved => req[s].copy.archived
      BY <1>1, <3>1 DEF SaversAgree
    <3>3. req[s].post \in shelved' => req[s].post \in shelved
      BY <1>2, <1>3, <3>1
    <3> QED BY <3>1, <3>2, <3>3
  <2>2. ASSUME NEW s \in Request, req'[s].pc \in SavePC, s \notin rivals'
        PROVE  /\ \A t \in Request : req'[t].pc \in SavePC /\ req'[t].post = req'[s].post => t = s
               /\ req'[s].pc = "updatePost" =>
                    \A x \in posts' : x.id = req'[s].post =>
                      "archived" \in req'[s].columns \/ x.archived = req'[s].copy.archived
    <3>1. /\ req[s].pc \in SavePC /\ req'[s] = req[s] /\ s # r /\ s \notin rivals
      BY <2>1, <2>2
    <3>2. /\ \A t \in Request : req[t].pc \in SavePC /\ req[t].post = req[s].post => t = s
          /\ req[s].pc = "updatePost" =>
               \A x \in posts : x.id = req[s].post =>
                 "archived" \in req[s].columns \/ x.archived = req[s].copy.archived
      BY <1>1, <3>1 DEF SaversAgree
    <3>3. req[s].post # q.post
      BY <3>1, <3>2
    <3> QED BY <2>1, <3>1, <3>2, <3>3
  <2> QED BY <2>1, <2>2 DEF SaversAgree
<1>7. ArchivedStaysArchived'
  <2> SUFFICES ASSUME NEW x \in posts', x.id \in shelved'
               PROVE  x.archived
    BY DEF ArchivedStaysArchived
  <2>1. CASE x.id # q.post /\ x \in posts
    BY <1>1, <1>2, <2>1 DEF ArchivedStaysArchived
  <2>2. CASE x.id = q.post
    BY <1>2, <2>2
  <2> QED BY <2>1, <2>2
<1> QED BY <1>5, <1>6, <1>7

LEMMA SaveCopies ==
  ASSUME NEW x \in PostRow, NEW op \in Saves
  PROVE  /\ Edited(x, op) \in PostRow
         /\ Edited(x, op).id = x.id /\ Edited(x, op).author = x.author
         /\ Edited(x, op).counts = x.counts
         /\ op = "archive" => Edited(x, op).archived
         /\ op = "edit" => Edited(x, op).archived = x.archived
<1>1. CASE op = "archive"
  BY <1>1 DEF Edited, PostRow
<1>2. CASE op = "unarchive"
  BY <1>2 DEF Edited, PostRow
<1>3. CASE op = "edit"
  <2>1. Edited(x, op) = [x EXCEPT !.archived = x.archived]
    BY <1>3 DEF Edited
  <2> QED BY <1>3, <2>1 DEF PostRow
<1> QED BY <1>1, <1>2, <1>3 DEF Saves

LEMMA SavePostStep ==
  ASSUME Inv, NEW r \in Request, NEW u \in User, NEW op \in Saves, SavePost(r, u, op)
  PROVE  Inv'
<1>1. req \in [Request -> Req] /\ req[r].pc = "idle" /\ posts \subseteq PostRow
  BY DEF Inv, TypeOK, SavePost, At
<1>2. req[r].owed = 0 /\ r \notin vanished \cup revived /\ req[r] \in Req
  BY <1>1, IdleIsFree
<1>3. PICK x \in posts : x.author = u /\ StartSave(r, u, op, x, Edited(x, op))
  BY DEF SavePost
<1> DEFINE copy == Edited(x, op)
           p == x.id
           q == [req[r] EXCEPT !.op = op, !.pc = "selectPost", !.user = u, !.post = p,
                               !.copy = copy]
<1>4. x \in PostRow /\ p \in Post /\ p \in born
  BY <1>1 DEF PostRow, Inv, Coherent, TablesAgree
<1>5. /\ copy \in PostRow /\ copy.id = p /\ copy.author = u /\ copy.counts = x.counts
      /\ op = "archive" => copy.archived
      /\ op = "edit" => copy.archived = x.archived
  BY <1>3, <1>4, SaveCopies
<1>6. req' = [req EXCEPT ![r] = q]
  BY <1>3 DEF StartSave
<1> HIDE DEF copy
<1>7. /\ q \in Req /\ q.op = op /\ q.pc = "selectPost" /\ q.user = u /\ q.post = p
      /\ q.copy = copy /\ q.owed = req[r].owed /\ q.counter = req[r].counter
  <2>1. op \in {"archive", "unarchive", "edit"}
    BY DEF Saves
  <2>2. "selectPost" \in Running /\ req[r] \in Req /\ p \in Post /\ copy \in PostRow
    BY <1>2, <1>4, <1>5 DEF Running
  <2> HIDE DEF p
  <2>3. q \in Req
    BY <2>1, <2>2 DEF Req
  <2>4. /\ q.op = op /\ q.pc = "selectPost" /\ q.user = u /\ q.post = p
        /\ q.copy = copy /\ q.owed = req[r].owed /\ q.counter = req[r].counter
    BY <2>2 DEF Req
  <2> QED BY <2>3, <2>4
<1> HIDE DEF q
<1>8. req' \in [Request -> Req] /\ req'[r] = q /\ Only(r)
  BY <1>1, <1>6, <1>7 DEF Only
<1>9. /\ UNCHANGED <<posts, likes, comments, views, born, resaved, vanished, revived>>
      /\ shelved' = IF op = "unarchive" THEN shelved \ {p} ELSE shelved
      /\ rivals' = IF Saving(p) = {} THEN rivals ELSE rivals \cup {r} \cup Saving(p)
  BY <1>3 DEF SavePost, StartSave
<1>10. TypeOK'
  <2>1. Saving(p) \subseteq Request
    BY DEF Saving
  <2> QED BY <1>8, <1>9, <2>1 DEF Inv, TypeOK
<1>11. TablesAgree'
  BY <1>9 DEF Inv, Coherent, TablesAgree, Exists
<1>12. HandlerAgrees(r)'
  <2>1. op \in OpAt("selectPost")
    BY DEF OpAt, SavePC, Saves
  <2> QED BY <1>2, <1>4, <1>5, <1>7, <1>8, <1>9, <2>1 DEF HandlerAgrees, SavePC, CommentPC
<1>13. (\A s \in Request : HandlerAgrees(s))'
  BY <1>8, <1>9, <1>12, HandlersKeep DEF Inv, Coherent
<1>14. CountersBounded'
  <2>1. Within(copy, Cardinality(Spent)')
    <3>1. Within(x, Cardinality(Spent))
      BY DEF Inv, Coherent, CountersBounded
    <3>2. Within(copy, Cardinality(Spent))
      BY <1>5, <3>1 DEF Within
    <3> QED BY <1>1, <1>5, <1>8, <3>2, SpentGrows, WithinMore
  <2> QED BY <1>1, <1>7, <1>8, <1>9, <2>1, BoundedKeeps DEF Inv, Coherent, Paid
<1>15. \A y \in posts : y.id = p => y = x
  BY DEF Inv, Coherent, TablesAgree
<1>16. OwnersAgree'
  <2>0. OwnersAgree
    BY DEF Inv, Coherent
  <2>1. \A s \in Request : Owning(s)' /\ s # r => Owning(s) /\ req'[s] = req[s]
    BY <1>8 DEF Owning, Only
  <2>2. \A s \in Request : Owning(s) /\ req[s].post = p => req[s].user = u
    BY <1>3, <2>0 DEF OwnersAgree
  <2>3. ASSUME NEW s \in Request, Owning(s)', NEW y \in posts', y.id = req'[s].post
        PROVE  y.author = req'[s].user
    <3>1. CASE s = r
      BY <1>3, <1>7, <1>8, <1>9, <1>15, <2>3, <3>1
    <3>2. CASE s # r
      BY <1>9, <2>0, <2>1, <2>3, <3>2 DEF OwnersAgree
    <3> QED BY <3>1, <3>2
  <2>4. ASSUME NEW s \in Request, Owning(s)', NEW t \in Request, Owning(t)',
               req'[t].post = req'[s].post
        PROVE  req'[t].user = req'[s].user
    <3>1. CASE s = r
      BY <1>7, <1>8, <2>1, <2>2, <2>4, <3>1
    <3>2. CASE s # r
      <4>1. Owning(s) /\ req'[s] = req[s]
        BY <2>1, <2>4, <3>2
      <4>2. CASE t = r
        BY <1>7, <1>8, <2>2, <2>4, <4>1, <4>2
      <4>3. CASE t # r
        BY <2>0, <2>1, <2>4, <4>1, <4>3 DEF OwnersAgree
      <4> QED BY <4>2, <4>3
    <3> QED BY <3>1, <3>2
  <2> QED BY <2>3, <2>4 DEF OwnersAgree
<1>17. SaversAgree'
  <2>0. SaversAgree /\ ArchivedStaysArchived
    BY DEF Inv, Coherent
  <2>1. \A s \in Request : req'[s].pc \in SavePC /\ s # r => req[s].pc \in SavePC /\ req'[s] = req[s]
    BY <1>8 DEF Only
  <2>2. \A s \in Request : req[s].pc \in SavePC /\ req[s].post = p => s \in Saving(p)
    BY SaverKnows DEF Saving
  <2>3. ASSUME NEW s \in Request, req'[s].pc \in SavePC, req'[s].post \in shelved'
        PROVE  req'[s].copy.archived
    <3>1. CASE s = r
      <4>1. p \in shelved /\ op # "unarchive"
        BY <1>7, <1>8, <1>9, <2>3, <3>1
      <4>2. x.archived
        BY <2>0, <4>1 DEF ArchivedStaysArchived
      <4> QED BY <1>5, <1>7, <1>8, <3>1, <4>1, <4>2 DEF Saves
    <3>2. CASE s # r
      BY <1>9, <2>0, <2>1, <2>3, <3>2 DEF SaversAgree
    <3> QED BY <3>1, <3>2
  <2>4. ASSUME NEW s \in Request, req'[s].pc \in SavePC, s \notin rivals'
        PROVE  /\ \A t \in Request : req'[t].pc \in SavePC /\ req'[t].post = req'[s].post => t = s
               /\ req'[s].pc = "updatePost" =>
                    \A y \in posts' : y.id = req'[s].post =>
                      "archived" \in req'[s].columns \/ y.archived = req'[s].copy.archived
    <3>1. CASE s = r
      <4>1. Saving(p) = {}
        BY <1>9, <2>4, <3>1
      <4> QED BY <1>7, <1>8, <2>1, <2>2, <3>1, <4>1
    <3>2. CASE s # r
      <4>1. req[s].pc \in SavePC /\ req'[s] = req[s] /\ s \notin rivals
        BY <1>9, <2>1, <2>4, <3>2
      <4>2. req[s].post # p
        BY <1>9, <2>2, <2>4, <4>1
      <4>3. \A t \in Request : req'[t].pc \in SavePC /\ req'[t].post = req'[s].post => t = s
        BY <1>7, <1>8, <2>0, <2>1, <4>1, <4>2 DEF SaversAgree
      <4> QED BY <1>9, <2>0, <4>1, <4>3 DEF SaversAgree
    <3> QED BY <3>1, <3>2
  <2> QED BY <2>3, <2>4 DEF SaversAgree
<1>18. ArchivedStaysArchived'
  BY <1>9 DEF ArchivedStaysArchived, Inv, Coherent
<1>19. LikesAccounted' /\ CommentsNotUndercounted' /\ ViewsAccounted'
  <2>1. SameDebt(req[r], req'[r]) /\ SameName(r)
    BY <1>2, <1>7, <1>8 DEF SameDebt, SameName
  <2> QED BY <1>8, <1>9, <2>1, LedgersKept DEF Inv, Coherent, TypeOK
<1> QED BY <1>10, <1>11, <1>13, <1>14, <1>16, <1>17, <1>18, <1>19 DEF Inv, Coherent

LEMMA SelectPostStep ==
  ASSUME Inv, NEW r \in Request, SelectPost(r)
  PROVE  Inv'
<1> DEFINE q == req[r]
<1>1. /\ q.pc = "selectPost" /\ q.pc \in SavePC
      /\ UNCHANGED <<posts, likes, comments, views, born, resaved, vanished, revived, rivals>>
  BY DEF SelectPost, At, SavePC
<1>2. /\ req \in [Request -> Req] /\ q \in Req /\ HandlerAgrees(r) /\ q.op \in Saves
      /\ q.owed = 0 /\ r \notin vanished \cup revived
  BY <1>1, SaverKnows
<1>3. CASE \/ GoTo(r, "reinsertPost") /\ UNCHANGED shelved
           \/ \E x \in posts :
                /\ x.id = q.post
                /\ req' = [req EXCEPT ![r].pc = "updatePost", ![r].columns = Differ(x, q.copy)]
                /\ UNCHANGED shelved
  <2>1. \E pc \in {"reinsertPost", "updatePost"} :
          \E cs \in SUBSET (Counter \cup {"archived"}) :
            /\ req' = [req EXCEPT ![r] = [q EXCEPT !.pc = pc, !.columns = cs]]
            /\ pc = "updatePost" => \E x \in posts : x.id = q.post /\ cs = Differ(x, q.copy)
    <3>1. CASE GoTo(r, "reinsertPost")
      <4>1. q.columns \in SUBSET (Counter \cup {"archived"})
        BY <1>2 DEF Req
      <4>2. [q EXCEPT !.pc = "reinsertPost", !.columns = q.columns]
              = [q EXCEPT !.pc = "reinsertPost"]
        BY <1>2 DEF Req
      <4>3. req' = [req EXCEPT ![r] = [q EXCEPT !.pc = "reinsertPost", !.columns = q.columns]]
        BY <3>1, <4>2 DEF GoTo
      <4> QED BY <4>1, <4>3
    <3>2. CASE \E x \in posts :
                 /\ x.id = q.post
                 /\ req' = [req EXCEPT ![r].pc = "updatePost", ![r].columns = Differ(x, q.copy)]
      <4>1. PICK x \in posts :
                 /\ x.id = q.post
                 /\ req' = [req EXCEPT ![r].pc = "updatePost", ![r].columns = Differ(x, q.copy)]
        BY <3>2
      <4>2. Differ(x, q.copy) \in SUBSET (Counter \cup {"archived"})
        BY DEF Differ
      <4> QED BY <4>1, <4>2
    <3> QED BY <1>3, <3>1, <3>2
  <2>2. PICK pc \in {"reinsertPost", "updatePost"}, cs \in SUBSET (Counter \cup {"archived"}) :
          /\ req' = [req EXCEPT ![r] = [q EXCEPT !.pc = pc, !.columns = cs]]
          /\ pc = "updatePost" => \E x \in posts : x.id = q.post /\ cs = Differ(x, q.copy)
    BY <2>1
  <2> DEFINE after == [q EXCEPT !.pc = pc, !.columns = cs]
  <2>3. /\ after \in Req /\ after.pc = pc /\ after.columns = cs /\ after.op = q.op
        /\ after.user = q.user /\ after.post = q.post /\ after.copy = q.copy
        /\ after.owed = q.owed /\ after.counter = q.counter
    <3>1. pc \in Running /\ q \in Req
      BY <1>2 DEF Running
    <3> HIDE DEF q
    <3>2. after \in Req
      BY <3>1 DEF Req
    <3>3. /\ after.pc = pc /\ after.columns = cs /\ after.op = q.op
          /\ after.user = q.user /\ after.post = q.post /\ after.copy = q.copy
          /\ after.owed = q.owed /\ after.counter = q.counter
      BY <3>1 DEF Req
    <3> QED BY <3>2, <3>3
  <2> HIDE DEF after
  <2>4. req' \in [Request -> Req] /\ req'[r] = after /\ Only(r)
    BY <1>2, <2>2, <2>3 DEF Only, after
  <2>5. shelved' = shelved
    BY <1>3
  <2>6. HandlerAgrees(r)'
    <3>1. q.op \in OpAt("reinsertPost") /\ q.op \in OpAt("updatePost")
      BY <1>2 DEF OpAt, SavePC, Saves
    <3>2. pc \in SavePC
      BY DEF SavePC
    <3> QED BY <1>1, <1>2, <2>3, <2>4, <3>1, <3>2 DEF HandlerAgrees, SavePC, CommentPC
  <2>7. TypeOK'
    BY <1>1, <2>4, <2>5 DEF Inv, TypeOK
  <2>8. TablesAgree'
    BY <1>1, <2>5 DEF Inv, Coherent, TablesAgree, Exists
  <2>9. (\A s \in Request : HandlerAgrees(s))'
    BY <1>1, <2>4, <2>6, HandlersKeep DEF Inv, Coherent
  <2>10. CountersBounded'
    BY <1>1, <2>3, <2>4, BoundedKeeps DEF Inv, Coherent, TypeOK, SavePC
  <2>11. req'[r].pc \in SavePC
    BY <2>3, <2>4 DEF SavePC
  <2>12. OwnersAgree'
    <3>1. \A s \in Request : /\ Owning(s)' => Owning(s)
                             /\ req'[s].post = req[s].post
                             /\ Owning(s)' => req'[s].user = req[s].user
      BY <1>1, <2>3, <2>4 DEF Owning, Only
    <3> QED BY <1>1, <3>1 DEF OwnersAgree, Inv, Coherent
  <2>13. SaversAgree'
    <3>0. SaversAgree /\ \A x, y \in posts : x.id = y.id => x = y
      BY DEF Inv, Coherent, TablesAgree
    <3>1. \A s \in Request : /\ req'[s].pc \in SavePC => req[s].pc \in SavePC
                             /\ req'[s].post = req[s].post
                             /\ req'[s].pc \in SavePC => req'[s].copy = req[s].copy
      BY <1>1, <2>3, <2>4 DEF Only
    <3>2. \A s \in Request : req'[s].pc \in SavePC /\ req'[s].post \in shelved'
                               => req'[s].copy.archived
      BY <2>5, <3>0, <3>1 DEF SaversAgree
    <3>3. ASSUME NEW s \in Request, req'[s].pc \in SavePC, s \notin rivals'
          PROVE  \A t \in Request : req'[t].pc \in SavePC /\ req'[t].post = req'[s].post => t = s
      BY <1>1, <3>0, <3>1, <3>3 DEF SaversAgree
    <3>4. ASSUME NEW s \in Request, req'[s].pc = "updatePost", s \notin rivals',
                 NEW y \in posts', y.id = req'[s].post
          PROVE  "archived" \in req'[s].columns \/ y.archived = req'[s].copy.archived
      <4>1. CASE s = r
        <5>1. pc = "updatePost"
          BY <2>3, <2>4, <3>4, <4>1
        <5>2. PICK x \in posts : x.id = q.post /\ cs = Differ(x, q.copy)
          BY <2>2, <5>1
        <5>3. y = x
          BY <1>1, <2>3, <2>4, <3>0, <3>4, <4>1, <5>2
        <5>4. "archived" \in cs \/ y.archived = q.copy.archived
          BY <5>2, <5>3 DEF Differ
        <5> QED BY <2>3, <2>4, <4>1, <5>4
      <4>2. CASE s # r
        BY <1>1, <2>4, <3>0, <3>4, <4>2 DEF SaversAgree, SavePC, Only
      <4> QED BY <4>1, <4>2
    <3> QED BY <3>2, <3>3, <3>4 DEF SaversAgree
  <2>14. ArchivedStaysArchived'
    BY <1>1, <2>5 DEF ArchivedStaysArchived, Inv, Coherent
  <2>15. LikesAccounted' /\ CommentsNotUndercounted' /\ ViewsAccounted'
    <3>1. SameDebt(req[r], req'[r]) /\ SameName(r)
      BY <1>2, <2>3, <2>4 DEF SameDebt, SameName
    <3> QED BY <1>1, <2>4, <3>1, LedgersKept DEF Inv, Coherent, TypeOK
  <2> QED BY <2>7, <2>8, <2>9, <2>10, <2>12, <2>13, <2>14, <2>15 DEF Inv, Coherent
<1>4. ASSUME NEW x \in posts, x.id = q.post, Differ(x, q.copy) = {}, Answer(r, "done"), Shelve(r)
      PROVE  Inv'
  <2>1. /\ req' \in [Request -> Req] /\ Only(r) /\ req'[r].pc = "done"
        /\ req'[r].op = q.op /\ req'[r].post = q.post
        /\ req'[r].counter = q.counter /\ req'[r].owed = q.owed
    BY <1>2, <1>4, AnswerSets
  <2>2. x.archived = q.copy.archived
    BY <1>4 DEF Differ
  <2>3. HandlerAgrees(r)'
    <3>1. q.op \in OpAt("done")
      BY <1>2 DEF OpAt, SavePC, Saves
    <3> QED BY <1>1, <1>2, <2>1, <3>1 DEF HandlerAgrees, SavePC, CommentPC
  <2>4. q.post \in born /\ born \subseteq Post
    BY <1>1, SaverKnows DEF Inv, TypeOK
  <2>5. TypeOK'
    BY <1>1, <1>4, <2>1, <2>4 DEF Inv, TypeOK, Shelve
  <2>6. TablesAgree'
    BY <1>1, <1>4, <2>4 DEF Inv, Coherent, TablesAgree, Exists, Shelve
  <2>7. (\A s \in Request : HandlerAgrees(s))'
    BY <1>1, <2>1, <2>3, HandlersKeep DEF Inv, Coherent
  <2>8. req'[r].pc \in Paid /\ req'[r].pc \notin SavePC
    BY <2>1 DEF Paid, SavePC
  <2>9. CountersBounded'
    BY <1>1, <2>1, <2>8, BoundedKeeps DEF Inv, Coherent, TypeOK, Paid
  <2>10. OwnersAgree' /\ SaversAgree' /\ ArchivedStaysArchived'
    <3>1. \A y \in posts : y.id = q.post => y = x
      BY <1>4 DEF Inv, Coherent, TablesAgree
    <3>2. x.author = q.user
      BY <1>1, <1>4 DEF Inv, Coherent, OwnersAgree, Owning
    <3> QED BY <1>1, <1>4, <2>1, <2>2, <2>8, <3>1, <3>2, SaverEnds
  <2>11. LikesAccounted' /\ CommentsNotUndercounted' /\ ViewsAccounted'
    <3>1. SameDebt(req[r], req'[r]) /\ SameName(r)
      BY <1>2, <2>1 DEF SameDebt, SameName
    <3> QED BY <1>1, <2>1, <3>1, LedgersKept DEF Inv, Coherent, TypeOK
  <2> QED BY <2>5, <2>6, <2>7, <2>9, <2>10, <2>11 DEF Inv, Coherent
<1> QED BY <1>3, <1>4 DEF SelectPost

(* A row that a save has written the columns of a copy to. *)
Saved(x, copy, columns) ==
  [x EXCEPT !.archived = IF "archived" \in columns THEN copy.archived ELSE @,
            !.counts = [k \in Counter |->
               IF k \in columns THEN copy.counts[k] ELSE x.counts[k]]]

LEMMA SavedIs ==
  ASSUME NEW x \in PostRow, NEW copy \in PostRow, NEW columns, NEW n \in Nat,
         Within(x, n), Within(copy, n)
  PROVE  /\ Saved(x, copy, columns) \in PostRow
         /\ Saved(x, copy, columns).id = x.id /\ Saved(x, copy, columns).author = x.author
         /\ Saved(x, copy, columns).archived =
              IF "archived" \in columns THEN copy.archived ELSE x.archived
         /\ columns \cap Counter = {} =>
              \A k \in Counter : Saved(x, copy, columns).counts[k] = x.counts[k]
         /\ Within(Saved(x, copy, columns), n)
<1> DEFINE c == [k \in Counter |-> IF k \in columns THEN copy.counts[k] ELSE x.counts[k]]
           a == IF "archived" \in columns THEN copy.archived ELSE x.archived
<1>1. c \in [Counter -> Count] /\ a \in BOOLEAN
  BY DEF PostRow
<1>2. \A k \in Counter : c[k] = IF k \in columns THEN copy.counts[k] ELSE x.counts[k]
  OBVIOUS
<1>3. Saved(x, copy, columns) = [x EXCEPT !.archived = a, !.counts = c]
  BY DEF Saved
<1> HIDE DEF c, a
<1>4. /\ Saved(x, copy, columns) \in PostRow
      /\ Saved(x, copy, columns).id = x.id /\ Saved(x, copy, columns).author = x.author
      /\ Saved(x, copy, columns).archived = a /\ Saved(x, copy, columns).counts = c
  BY <1>1, <1>3 DEF PostRow
<1>5. Within(Saved(x, copy, columns), n)
  BY <1>2, <1>4 DEF Within
<1>6. columns \cap Counter = {} => \A k \in Counter : c[k] = x.counts[k]
  BY <1>2
<1> QED BY <1>4, <1>5, <1>6 DEF a

LEMMA UpdatePostStep ==
  ASSUME Inv, NEW r \in Request, UpdatePost(r)
  PROVE  Inv'
<1> DEFINE q == req[r]
           n == Cardinality(Spent)
<1>1. /\ q.pc = "updatePost" /\ q.pc \in SavePC /\ Answer(r, "done") /\ Shelve(r)
      /\ UNCHANGED <<likes, comments, views, born, vanished, revived, rivals>>
      /\ posts' = {IF x.id = q.post THEN Saved(x, q.copy, q.columns) ELSE x : x \in posts}
      /\ resaved' = IF q.columns \cap Counter = {} THEN resaved ELSE resaved \cup {q.post}
  BY DEF UpdatePost, At, SavePC, Saved
<1>2. /\ req \in [Request -> Req] /\ HandlerAgrees(r) /\ q.op \in Saves
      /\ q.owed = 0 /\ r \notin vanished \cup revived /\ q.post \in born /\ q.post \in Post
      /\ q.copy \in PostRow /\ q.pc \notin Paid
  BY <1>1, SaverKnows
<1>3. /\ req' \in [Request -> Req] /\ Only(r) /\ req'[r].pc = "done"
      /\ req'[r].op = q.op /\ req'[r].post = q.post
      /\ req'[r].counter = q.counter /\ req'[r].owed = q.owed
  BY <1>1, <1>2, AnswerSets
<1>4. HandlerAgrees(r)'
  <2>1. q.op \in OpAt("done")
    BY <1>2 DEF OpAt, SavePC, Saves
  <2> QED BY <1>1, <1>2, <1>3, <2>1 DEF HandlerAgrees, SavePC, CommentPC
<1>5. (\A s \in Request : HandlerAgrees(s))'
  BY <1>1, <1>3, <1>4, HandlersKeep DEF Inv, Coherent
<1>6. /\ n \in Nat /\ n' \in Nat /\ n <= n'
      /\ req'[r].pc \in Paid /\ req'[r].pc \notin SavePC
  BY <1>1, <1>2, <1>3, SpentGrows DEF Paid, SavePC
<1>7. \A x \in posts : x \in PostRow /\ Within(x, n)
  BY DEF Inv, Coherent, TypeOK, CountersBounded
<1>8. Within(q.copy, n)
  BY <1>1 DEF Inv, Coherent, CountersBounded
<1>9. ASSUME NEW y \in posts
      PROVE  LET x == Saved(y, q.copy, q.columns)
             IN  /\ x \in PostRow /\ x.id = y.id /\ x.author = y.author
                 /\ x.archived = IF "archived" \in q.columns THEN q.copy.archived ELSE y.archived
                 /\ q.columns \cap Counter = {} =>
                      \A k \in Counter : x.counts[k] = y.counts[k]
                 /\ Within(x, n')
  <2> DEFINE x == Saved(y, q.copy, q.columns)
  <2>1. /\ x \in PostRow /\ x.id = y.id /\ x.author = y.author
        /\ x.archived = IF "archived" \in q.columns THEN q.copy.archived ELSE y.archived
        /\ q.columns \cap Counter = {} => \A k \in Counter : x.counts[k] = y.counts[k]
        /\ Within(x, n)
    BY <1>2, <1>6, <1>7, <1>8, SavedIs
  <2>2. Within(x, n')
    BY <1>6, <2>1, WithinMore
  <2> QED BY <2>1, <2>2
<1>10. ASSUME NEW x \in posts'
       PROVE  \E y \in posts :
                /\ x = IF y.id = q.post THEN Saved(y, q.copy, q.columns) ELSE y
                /\ x \in PostRow /\ x.id = y.id /\ x.author = y.author
                /\ y.id # q.post => x = y
                /\ y.id = q.post => x.archived =
                     IF "archived" \in q.columns THEN q.copy.archived ELSE y.archived
                /\ x = y \/ Within(x, n')
                /\ x.id \notin resaved' => /\ y.id \notin resaved
                                           /\ \A k \in Counter : x.counts[k] = y.counts[k]
  <2>1. PICK y \in posts : x = IF y.id = q.post THEN Saved(y, q.copy, q.columns) ELSE y
    BY <1>1
  <2>2. CASE y.id = q.post
    <3>1. x = Saved(y, q.copy, q.columns)
      BY <2>1, <2>2
    <3>2. /\ x \in PostRow /\ x.id = y.id /\ x.author = y.author
          /\ x.archived = IF "archived" \in q.columns THEN q.copy.archived ELSE y.archived
          /\ q.columns \cap Counter = {} => \A k \in Counter : x.counts[k] = y.counts[k]
          /\ Within(x, n')
      BY <1>9, <3>1
    <3>3. x.id \notin resaved' => y.id \notin resaved /\ q.columns \cap Counter = {}
      BY <1>1, <2>2, <3>2
    <3> QED BY <2>1, <2>2, <3>2, <3>3
  <2>3. CASE y.id # q.post
    <3>1. x = y /\ x \in PostRow
      BY <1>7, <2>1, <2>3
    <3>2. x.id \notin resaved' => y.id \notin resaved
      BY <1>1, <3>1
    <3> QED BY <2>1, <2>3, <3>1, <3>2
  <2> QED BY <2>2, <2>3
<1>11. TypeOK'
  <2>1. posts' \subseteq PostRow
    BY <1>10
  <2> QED BY <1>1, <1>2, <1>3, <2>1 DEF Inv, TypeOK, Shelve
<1>12. TablesAgree'
  <2>1. \A z : Exists(z) => Exists(z)'
    <3> SUFFICES ASSUME NEW y \in posts
                 PROVE  \E x \in posts' : x.id = y.id
      BY DEF Exists
    <3>1. (IF y.id = q.post THEN Saved(y, q.copy, q.columns) ELSE y) \in posts'
      BY <1>1
    <3>2. Saved(y, q.copy, q.columns).id = y.id
      BY <1>9
    <3> QED BY <3>1, <3>2
  <2>2. \A x, y \in posts' : x.id = y.id => x = y
    <3>1. ASSUME NEW x \in posts', NEW y \in posts', x.id = y.id
          PROVE  x = y
      <4>1. PICK v \in posts : /\ x.id = v.id
                               /\ x = IF v.id = q.post THEN Saved(v, q.copy, q.columns) ELSE v
        BY <1>10
      <4>2. PICK w \in posts : /\ y.id = w.id
                               /\ y = IF w.id = q.post THEN Saved(w, q.copy, q.columns) ELSE w
        BY <1>10
      <4>3. v = w
        BY <3>1, <4>1, <4>2 DEF Inv, Coherent, TablesAgree
      <4> QED BY <4>1, <4>2, <4>3
    <3> QED BY <3>1
  <2>3. \A x \in posts' : x.id \in born
    BY <1>10 DEF Inv, Coherent, TablesAgree
  <2>4. shelved' \subseteq born
    BY <1>1, <1>2 DEF Inv, Coherent, TablesAgree, Shelve
  <2> QED BY <1>1, <2>1, <2>2, <2>3, <2>4 DEF Inv, Coherent, TablesAgree
<1>13. CountersBounded'
  <2>1. \A x \in posts' : \/ Within(x, n') \/ \E y \in posts : x = y
    BY <1>10
  <2> QED BY <1>2, <1>3, <1>6, <2>1, BoundedKeeps DEF Inv, Coherent, TypeOK, Paid
<1>14. OwnersAgree' /\ SaversAgree' /\ ArchivedStaysArchived'
  <2>1. ASSUME NEW x \in posts'
        PROVE  \/ x.id # q.post /\ x \in posts
               \/ /\ x.id = q.post /\ x.author = q.user
                  /\ q.post \in shelved /\ q.copy.archived => x.archived
                  /\ r \notin rivals /\ q.copy.archived => x.archived
    <3>1. PICK y \in posts :
                /\ x.id = y.id /\ x.author = y.author
                /\ y.id # q.post => x = y
                /\ y.id = q.post => x.archived =
                     IF "archived" \in q.columns THEN q.copy.archived ELSE y.archived
      BY <1>10
    <3>2. CASE y.id # q.post
      BY <3>1, <3>2
    <3>3. CASE y.id = q.post
      <4>1. y.author = q.user
        BY <1>1, <3>3 DEF Inv, Coherent, OwnersAgree, Owning
      <4>2. q.post \in shelved => y.archived
        BY <3>3 DEF Inv, Coherent, ArchivedStaysArchived
      <4>3. r \notin rivals => "archived" \in q.columns \/ y.archived = q.copy.archived
        BY <1>1, <3>3 DEF Inv, Coherent, SaversAgree
      <4> QED BY <3>1, <3>3, <4>1, <4>2, <4>3
    <3> QED BY <3>2, <3>3
  <2> QED BY <1>1, <1>3, <1>6, <2>1, SaverEnds
<1>15. LikesAccounted' /\ CommentsNotUndercounted' /\ ViewsAccounted'
  <2>1. \A z, k : k \in Kept => Owed(z, k)' = Owed(z, k)
    BY <1>3, DebtKept DEF SameDebt
  <2>2. \A z : Unliked(z)' = Unliked(z) /\ Uncounted(z)' = Uncounted(z)
               /\ Restored(z)' = Restored(z)
    BY <1>1, <1>3, NoHistory
  <2>3. ASSUME NEW z
        PROVE  LikesMove(z) /\ CommentsMove(z) /\ ViewsMove(z)
    <3>1. /\ LikeRows(z) \in Nat /\ Unliked(z) \in Nat /\ Uncounted(z) \in Nat
          /\ \A k : Owed(z, k) \in Int
          /\ CommentRows(z) \in Nat /\ ViewRows(z) \in Nat /\ Restored(z) \in Nat
      BY Numbers DEF Inv, Coherent
    <3>2. LikeRows(z)' = LikeRows(z) /\ ViewRows(z)' = ViewRows(z)
          /\ CommentRows(z)' = CommentRows(z)
      BY <1>1 DEF LikeRows, ViewRows, CommentRows
    <3>3. /\ Owed(z, "likes")' = Owed(z, "likes")
          /\ Owed(z, "views")' = Owed(z, "views")
          /\ Owed(z, "comments")' = Owed(z, "comments")
      BY <2>1 DEF Kept
    <3> QED BY <2>2, <3>1, <3>2, <3>3 DEF LikesMove, CommentsMove, ViewsMove
  <2> QED BY <1>10, <1>11, <1>12, <2>3, LedgersMove
<1> QED BY <1>5, <1>11, <1>12, <1>13, <1>14, <1>15 DEF Inv, Coherent

LEMMA ReinsertPostStep ==
  ASSUME Inv, NEW r \in Request, ReinsertPost(r)
  PROVE  Inv'
<1> DEFINE q == req[r]
<1>1. /\ q.pc = "reinsertPost" /\ q.pc \in SavePC
      /\ UNCHANGED <<likes, comments, views, born, vanished, revived, rivals>>
  BY DEF ReinsertPost, At, SavePC
<1>2. /\ req \in [Request -> Req] /\ HandlerAgrees(r) /\ q.op \in Saves
      /\ q.owed = 0 /\ r \notin vanished \cup revived /\ q.post \in born /\ q.post \in Post
      /\ q.copy \in PostRow /\ q.pc \notin Paid /\ q.pc \in Running /\ q.copy.id = q.post
      /\ q.copy.author = q.user
  BY <1>1, SaverKnows
<1>3. CASE Answer(r, "failed") /\ UNCHANGED <<posts, resaved, shelved>>
  BY <1>1, <1>2, <1>3, AnswerStep DEF history
<1>4. CASE /\ ~Exists(q.post)
           /\ posts' = posts \cup {q.copy}
           /\ resaved' = resaved \cup {q.post}
           /\ Answer(r, "done")
           /\ Shelve(r)
  <2>1. /\ req' \in [Request -> Req] /\ Only(r) /\ req'[r].pc = "done"
        /\ req'[r].op = q.op /\ req'[r].post = q.post
        /\ req'[r].counter = q.counter /\ req'[r].owed = q.owed
    BY <1>2, <1>4, AnswerSets
  <2>2. HandlerAgrees(r)'
    <3>1. q.op \in OpAt("done")
      BY <1>2 DEF OpAt, SavePC, Saves
    <3> QED BY <1>1, <1>2, <2>1, <3>1 DEF HandlerAgrees, SavePC, CommentPC
  <2>3. (\A s \in Request : HandlerAgrees(s))'
    BY <1>1, <2>1, <2>2, HandlersKeep DEF Inv, Coherent
  <2>4. TypeOK'
    BY <1>1, <1>2, <1>4, <2>1 DEF Inv, TypeOK, Shelve
  <2>5. TablesAgree'
    <3>1. \A z : Exists(z) => Exists(z)'
      BY <1>4 DEF Exists
    <3>2. \A x, y \in posts' : x.id = y.id => x = y
      BY <1>2, <1>4 DEF Inv, Coherent, TablesAgree, Exists
    <3>3. \A x \in posts' : x.id \in born
      BY <1>2, <1>4 DEF Inv, Coherent, TablesAgree
    <3>4. shelved' \subseteq born
      BY <1>2, <1>4 DEF Inv, Coherent, TablesAgree, Shelve
    <3> QED BY <1>1, <3>1, <3>2, <3>3, <3>4 DEF Inv, Coherent, TablesAgree
  <2>6. req'[r].pc \in Paid /\ req'[r].pc \notin SavePC
    BY <2>1 DEF Paid, SavePC
  <2>7. CountersBounded'
    <3>1. \A x \in posts' : \/ \E y \in posts : x = y
                            \/ \E s \in Request : req[s].pc \in SavePC /\ x = req[s].copy
      BY <1>1, <1>4
    <3> QED BY <1>2, <2>1, <2>6, <3>1, BoundedKeeps DEF Inv, Coherent, TypeOK, Paid
  <2>8. OwnersAgree' /\ SaversAgree' /\ ArchivedStaysArchived'
    <3>1. ASSUME NEW x \in posts'
          PROVE  \/ x.id # q.post /\ x \in posts
                 \/ /\ x.id = q.post /\ x.author = q.user
                    /\ q.post \in shelved /\ q.copy.archived => x.archived
                    /\ r \notin rivals /\ q.copy.archived => x.archived
      <4>1. CASE x = q.copy
        BY <1>2, <4>1
      <4>2. CASE x \in posts
        BY <1>4, <4>2 DEF Exists
      <4> QED BY <1>4, <4>1, <4>2
    <3> QED BY <1>1, <1>4, <2>1, <2>6, <3>1, SaverEnds
  <2>9. LikesAccounted' /\ CommentsNotUndercounted' /\ ViewsAccounted'
    <3>1. \A z, k : k \in Kept => Owed(z, k)' = Owed(z, k)
      BY <2>1, DebtKept DEF SameDebt
    <3>2. \A z : Unliked(z)' = Unliked(z) /\ Uncounted(z)' = Uncounted(z)
                 /\ Restored(z)' = Restored(z)
      BY <1>1, <2>1, NoHistory
    <3>3. ASSUME NEW z
          PROVE  LikesMove(z) /\ CommentsMove(z) /\ ViewsMove(z)
      <4>1. /\ LikeRows(z) \in Nat /\ Unliked(z) \in Nat /\ Uncounted(z) \in Nat
            /\ \A k : Owed(z, k) \in Int
            /\ CommentRows(z) \in Nat /\ ViewRows(z) \in Nat /\ Restored(z) \in Nat
        BY Numbers DEF Inv, Coherent
      <4>2. LikeRows(z)' = LikeRows(z) /\ ViewRows(z)' = ViewRows(z)
            /\ CommentRows(z)' = CommentRows(z)
        BY <1>1 DEF LikeRows, ViewRows, CommentRows
      <4>3. /\ Owed(z, "likes")' = Owed(z, "likes")
            /\ Owed(z, "views")' = Owed(z, "views")
            /\ Owed(z, "comments")' = Owed(z, "comments")
        BY <3>1 DEF Kept
      <4> QED BY <3>2, <4>1, <4>2, <4>3 DEF LikesMove, CommentsMove, ViewsMove
    <3>4. \A x \in posts' : x.id \notin resaved' => x \in posts /\ x.id \notin resaved
      BY <1>2, <1>4
    <3> QED BY <2>4, <2>5, <3>3, <3>4, LedgersMove
  <2> QED BY <2>3, <2>4, <2>5, <2>7, <2>8, <2>9 DEF Inv, Coherent
<1> QED BY <1>3, <1>4 DEF ReinsertPost

LEMMA DeletePostStep ==
  ASSUME Inv, NEW r \in Request, NEW u \in User, NEW p \in Post, DeletePost(r, u, p)
  PROVE  Inv'
<1>1. PICK x \in posts : x.id = p /\ x.author = u
  BY DEF DeletePost
<1>2. /\ req \in [Request -> Req] /\ p \in born
      /\ UNCHANGED <<posts, likes, comments, views, born, resaved, vanished, revived, rivals, shelved>>
  BY <1>1 DEF Inv, Coherent, TypeOK, TablesAgree, DeletePost, history
<1>3. /\ req[r].pc = "idle" /\ req' \in [Request -> Req] /\ Only(r) /\ req'[r].pc = "removePost"
      /\ req'[r].op = "delete" /\ req'[r].user = u /\ req'[r].post = p
      /\ req'[r].owed = req[r].owed
  <2>1. Begin(r, "delete", "removePost", u, p) /\ "removePost" \in Running
    BY DEF DeletePost, Running
  <2> QED BY <1>2, <2>1, BeginSets
<1>4. req[r].owed = 0 /\ r \notin vanished \cup revived
  BY <1>3, IdleIsFree
<1>5. HandlerAgrees(r)'
  <2>1. "delete" \in OpAt("removePost")
    BY DEF OpAt, SavePC, Saves
  <2> QED BY <1>2, <1>3, <1>4, <2>1 DEF HandlerAgrees, SavePC, CommentPC
<1>6. TypeOK'
  BY <1>2, <1>3 DEF Inv, TypeOK
<1>7. TablesAgree'
  BY <1>2 DEF Inv, Coherent, TablesAgree, Exists
<1>8. (\A s \in Request : HandlerAgrees(s))'
  BY <1>2, <1>3, <1>5, HandlersKeep DEF Inv, Coherent
<1>9. CountersBounded'
  BY <1>2, <1>3, BoundedKeeps DEF Inv, Coherent, TypeOK, SavePC
<1>10. OwnersAgree'
  <2>0. OwnersAgree /\ \A y \in posts : y.id = p => y = x
    BY <1>1 DEF Inv, Coherent, TablesAgree
  <2>1. \A s \in Request : Owning(s)' /\ s # r => Owning(s) /\ req'[s] = req[s]
    BY <1>3 DEF Owning, Only
  <2>2. \A s \in Request : Owning(s) /\ req[s].post = p => req[s].user = u
    BY <1>1, <2>0 DEF OwnersAgree
  <2>3. ASSUME NEW s \in Request, Owning(s)', NEW y \in posts', y.id = req'[s].post
        PROVE  y.author = req'[s].user
    <3>1. CASE s = r
      BY <1>1, <1>2, <1>3, <2>0, <2>3, <3>1
    <3>2. CASE s # r
      BY <1>2, <2>0, <2>1, <2>3, <3>2 DEF OwnersAgree
    <3> QED BY <3>1, <3>2
  <2>4. ASSUME NEW s \in Request, Owning(s)', NEW t \in Request, Owning(t)',
               req'[t].post = req'[s].post
        PROVE  req'[t].user = req'[s].user
    <3>1. CASE s = r
      BY <1>3, <2>1, <2>2, <2>4, <3>1
    <3>2. CASE s # r
      <4>1. Owning(s) /\ req'[s] = req[s]
        BY <2>1, <2>4, <3>2
      <4>2. CASE t = r
        BY <1>3, <2>2, <2>4, <4>1, <4>2
      <4>3. CASE t # r
        BY <2>0, <2>1, <2>4, <4>1, <4>3 DEF OwnersAgree
      <4> QED BY <4>2, <4>3
    <3> QED BY <3>1, <3>2
  <2> QED BY <2>3, <2>4 DEF OwnersAgree
<1>11. SaversAgree'
  <2>1. \A s \in Request : req'[s].pc \in SavePC => s # r /\ req'[s] = req[s]
    BY <1>3 DEF Only, SavePC
  <2> QED BY <1>2, <2>1 DEF SaversAgree, Inv, Coherent
<1>12. ArchivedStaysArchived'
  BY <1>2 DEF ArchivedStaysArchived, Inv, Coherent
<1>13. LikesAccounted' /\ CommentsNotUndercounted' /\ ViewsAccounted'
  <2>1. SameDebt(req[r], req'[r]) /\ SameName(r)
    BY <1>3, <1>4 DEF SameDebt, SameName
  <2> QED BY <1>2, <1>3, <2>1, LedgersKept DEF Inv, Coherent, TypeOK
<1> QED BY <1>6, <1>7, <1>8, <1>9, <1>10, <1>11, <1>12, <1>13 DEF Inv, Coherent

LEMMA RemovePostStep ==
  ASSUME Inv, NEW r \in Request, RemovePost(r)
  PROVE  Inv'
<1> DEFINE q == req[r]
<1>1. /\ q.pc = "removePost" /\ Answer(r, "done")
      /\ posts' = {x \in posts : x.id # q.post}
      /\ likes' = {l \in likes : l.post # q.post}
      /\ comments' = comments \ Cascade({c \in comments : c.post = q.post})
      /\ views' = {v \in views : v[2] # q.post}
      /\ UNCHANGED <<born, resaved, vanished, revived, rivals, shelved>>
  BY DEF RemovePost, At, history
<1>2. /\ req \in [Request -> Req] /\ HandlerAgrees(r) /\ q.op = "delete"
      /\ q.owed = 0 /\ r \notin vanished \cup revived
  <2>1. req \in [Request -> Req] /\ HandlerAgrees(r)
    BY DEF Inv, Coherent, TypeOK
  <2> QED BY <1>1, <2>1 DEF HandlerAgrees, OpAt, SavePC
<1>3. /\ req' \in [Request -> Req] /\ Only(r) /\ req'[r].pc = "done"
      /\ req'[r].op = q.op /\ req'[r].post = q.post
      /\ req'[r].counter = q.counter /\ req'[r].owed = q.owed
  BY <1>1, <1>2, AnswerSets
<1>4. HandlerAgrees(r)'
  <2>1. q.op \in OpAt("done")
    BY <1>2 DEF OpAt, SavePC, Saves
  <2> QED BY <1>1, <1>2, <1>3, <2>1 DEF HandlerAgrees, SavePC, CommentPC
<1>5. (\A s \in Request : HandlerAgrees(s))'
  BY <1>1, <1>3, <1>4, HandlersKeep DEF Inv, Coherent
<1>6. comments' \subseteq comments /\ \A c \in comments' : c.post # q.post
  <2> DEFINE cs == {c \in comments : c.post = q.post}
  <2>1. cs \subseteq Cascade(cs)
    BY CascadeHolds
  <2>2. comments' = comments \ Cascade(cs)
    BY <1>1
  <2> QED BY <2>1, <2>2
<1>7. TypeOK'
  BY <1>1, <1>3, <1>6 DEF Inv, TypeOK
<1>8. TablesAgree'
  <2>1. IsFiniteSet(likes') /\ IsFiniteSet(comments') /\ IsFiniteSet(views')
    <3>1. likes' \subseteq likes /\ views' \subseteq views
      BY <1>1
    <3> QED BY <1>6, <3>1, FS_Subset DEF Inv, Coherent, TablesAgree
  <2>2. \A z : Exists(z) /\ z # q.post => Exists(z)'
    BY <1>1 DEF Exists
  <2> QED BY <1>1, <1>6, <2>1, <2>2 DEF Inv, Coherent, TablesAgree
<1>9. req'[r].pc \in Paid /\ req'[r].pc \notin SavePC \cup {"removePost"}
  BY <1>3 DEF Paid, SavePC
<1>10. CountersBounded'
  <2>1. \A x \in posts' : \E y \in posts : x = y
    BY <1>1
  <2> QED BY <1>3, <1>9, <2>1, BoundedKeeps DEF Inv, Coherent, TypeOK, Paid
<1>11. OwnersAgree' /\ SaversAgree' /\ ArchivedStaysArchived'
  <2>1. RowsOf(posts', posts)
    BY <1>1 DEF RowsOf
  <2> QED BY <1>1, <1>3, <1>9, <2>1, Steady DEF Inv, Coherent
<1>12. LikesAccounted' /\ CommentsNotUndercounted' /\ ViewsAccounted'
  <2>1. \A z, k : k \in Kept => Owed(z, k)' = Owed(z, k)
    BY <1>3, DebtKept DEF SameDebt
  <2>2. \A z : Unliked(z)' = Unliked(z) /\ Uncounted(z)' = Uncounted(z)
               /\ Restored(z)' = Restored(z)
    BY <1>1, <1>3, NoHistory
  <2>3. ASSUME NEW z, z # q.post
        PROVE  LikesMove(z) /\ CommentsMove(z) /\ ViewsMove(z)
    <3>1. /\ LikeRows(z) \in Nat /\ Unliked(z) \in Nat /\ Uncounted(z) \in Nat
          /\ \A k : Owed(z, k) \in Int
          /\ CommentRows(z) \in Nat /\ ViewRows(z) \in Nat /\ Restored(z) \in Nat
      BY Numbers DEF Inv, Coherent
    <3>2. LikeRows(z)' = LikeRows(z) /\ ViewRows(z)' = ViewRows(z)
      <4>1. /\ {l \in likes' : l.post = z} = {l \in likes : l.post = z}
            /\ {v \in views' : v[2] = z} = {v \in views : v[2] = z}
        BY <1>1, <2>3
      <4> QED BY <4>1 DEF LikeRows, ViewRows
    <3>3. CommentRows(z)' \in Nat /\ CommentRows(z)' <= CommentRows(z)
      BY <1>6, CommentsShrink DEF Inv, Coherent
    <3>4. /\ Owed(z, "likes")' = Owed(z, "likes")
          /\ Owed(z, "views")' = Owed(z, "views")
          /\ Owed(z, "comments")' = Owed(z, "comments")
      BY <2>1 DEF Kept
    <3> QED BY <2>2, <3>1, <3>2, <3>3, <3>4 DEF LikesMove, CommentsMove, ViewsMove
  <2>4. \A x \in posts' : x \in posts /\ x.id # q.post
    BY <1>1
  <2> QED BY <1>1, <1>7, <1>8, <2>3, <2>4, LedgersMove
<1> QED BY <1>5, <1>7, <1>8, <1>10, <1>11, <1>12 DEF Inv, Coherent

LEMMA PublishStep ==
  ASSUME Inv, NEW u \in User, NEW p \in Post, Publish(u, p)
  PROVE  Inv'
<1> DEFINE new == [id |-> p, author |-> u, archived |-> FALSE, counts |-> [k \in Counter |-> 0]]
<1>1. /\ p \notin born /\ posts' = posts \cup {new} /\ born' = born \cup {p}
      /\ UNCHANGED <<likes, comments, views, req, resaved, vanished, revived, rivals, shelved>>
  BY DEF Publish
<1>2. /\ new \in PostRow /\ new.id = p /\ ~new.archived
      /\ \A k \in Counter : new.counts[k] = 0
  <2>1. 0 \in Count
    BY CardNat DEF Count
  <2> QED BY <2>1 DEF PostRow
<1> HIDE DEF new
<1>3. TypeOK /\ TablesAgree /\ (\A s \in Request : HandlerAgrees(s)) /\ CountersBounded
      /\ OwnersAgree /\ SaversAgree /\ ArchivedStaysArchived
  BY DEF Inv, Coherent
<1>4. ~Exists(p)
  BY <1>1, <1>3 DEF TablesAgree, Exists
<1>5. TypeOK'
  BY <1>1, <1>2, <1>3 DEF TypeOK
<1>6. TablesAgree'
  <2>1. \A z : Exists(z) => Exists(z)'
    BY <1>1 DEF Exists
  <2>2. \A x, y \in posts' : x.id = y.id => x = y
    BY <1>1, <1>2, <1>3, <1>4 DEF TablesAgree, Exists
  <2> QED BY <1>1, <1>2, <1>3, <2>1, <2>2 DEF TablesAgree
<1>7. (\A s \in Request : HandlerAgrees(s))'
  <2>1. ASSUME NEW s \in Request
        PROVE  HandlerAgrees(s)'
    <3>1. HandlerAgrees(s)
      BY <1>3
    <3> QED BY <1>1, <3>1 DEF HandlerAgrees
  <2> QED BY <2>1
<1>8. CountersBounded'
  <2>1. Cardinality(Spent)' = Cardinality(Spent) /\ Cardinality(Spent) \in Nat
    <3>1. Spent \in SUBSET Request
      BY DEF Spent
    <3> QED BY <1>1, <3>1, CardNat DEF Spent
  <2>2. Within(new, Cardinality(Spent))
    BY <1>2, <2>1 DEF Within
  <2> QED BY <1>1, <1>3, <2>1, <2>2 DEF CountersBounded
<1>9. \A s \in Request : req[s].post = p => req[s].pc = "idle" /\ req[s].owed = 0
  BY <1>1, <1>3 DEF HandlerAgrees
<1>10. OwnersAgree'
  <2>1. \A s \in Request : Owning(s) => req[s].post # p
    BY <1>9 DEF Owning, SavePC
  <2> QED BY <1>1, <1>2, <1>3, <2>1 DEF OwnersAgree, Owning
<1>11. SaversAgree'
  <2>1. \A s \in Request : req[s].pc \in SavePC => req[s].post # p
    BY <1>9 DEF SavePC
  <2> QED BY <1>1, <1>2, <1>3, <2>1 DEF SaversAgree
<1>12. ArchivedStaysArchived'
  BY <1>1, <1>2, <1>3 DEF ArchivedStaysArchived, TablesAgree
<1>13. /\ \A z, k : Owed(z, k)' = Owed(z, k)
       /\ \A z : Unliked(z)' = Unliked(z) /\ Uncounted(z)' = Uncounted(z)
                 /\ Restored(z)' = Restored(z)
       /\ \A z : LikeRows(z)' = LikeRows(z) /\ CommentRows(z)' = CommentRows(z)
                 /\ ViewRows(z)' = ViewRows(z)
  BY <1>1 DEF Owed, Unliked, Uncounted, Restored, Of, LikeRows, CommentRows, ViewRows
<1>14. /\ \A k : Owed(p, k) = 0
       /\ Unliked(p) = 0 /\ Uncounted(p) = 0 /\ Restored(p) = 0
       /\ LikeRows(p) = 0 /\ CommentRows(p) = 0 /\ ViewRows(p) = 0
  <2>1. \A k : Owed(p, k) = 0
    <3> SUFFICES ASSUME NEW k PROVE Owed(p, k) = 0
      OBVIOUS
    <3>1. OwingIn(req, p, k, 1) = {} /\ OwingIn(req, p, k, -1) = {}
      BY <1>9 DEF OwingIn
    <3>2. Cardinality({}) = 0
      BY FS_EmptySet
    <3>3. OwedIn(req, p, k) = 0
      BY <3>1, <3>2 DEF OwedIn
    <3> QED BY <3>3, OwedIs
  <2>2. Of(vanished, "like", p) = {} /\ Of(vanished, "deleteComment", p) = {}
        /\ Of(revived, "editComment", p) = {}
    <3>1. \A s \in vanished \cup revived : s \in Request /\ req[s].post # p
      BY <1>3, <1>9 DEF HandlerAgrees, TypeOK
    <3> QED BY <3>1 DEF Of
  <2>3. /\ {l \in likes : l.post = p} = {} /\ {c \in comments : c.post = p} = {}
        /\ {v \in views : v[2] = p} = {}
    BY <1>3, <1>4 DEF TablesAgree
  <2> QED BY <2>1, <2>2, <2>3, FS_EmptySet
          DEF Unliked, Uncounted, Restored, LikeRows, CommentRows, ViewRows
<1>15. LikesAccounted'
  <2> SUFFICES ASSUME NEW x \in posts', x.id \notin resaved'
               PROVE  x.counts["likes"] + Owed(x.id, "likes")' =
                        LikeRows(x.id)' - Unliked(x.id)'
    BY DEF LikesAccounted, LikeRows, Unliked
  <2>1. CASE x \in posts
    BY <1>1, <1>13, <2>1 DEF Inv, Coherent, LikesAccounted, LikeRows, Unliked
  <2>2. CASE x = new
    BY <1>2, <1>13, <1>14, <2>2 DEF Counter
  <2> QED BY <1>1, <2>1, <2>2
<1>16. CommentsNotUndercounted'
  <2> SUFFICES ASSUME NEW x \in posts', x.id \notin resaved'
               PROVE  CommentRows(x.id)' <=
                        x.counts["comments"] + Owed(x.id, "comments")'
                          + Uncounted(x.id)' + Restored(x.id)'
    BY DEF CommentsNotUndercounted, CommentRows, Uncounted, Restored
  <2>1. CASE x \in posts
    BY <1>1, <1>13, <2>1 DEF Inv, Coherent, CommentsNotUndercounted, CommentRows, Uncounted, Restored
  <2>2. CASE x = new
    BY <1>2, <1>13, <1>14, <2>2 DEF Counter
  <2> QED BY <1>1, <2>1, <2>2
<1>17. ViewsAccounted'
  <2> SUFFICES ASSUME NEW x \in posts', x.id \notin resaved'
               PROVE  x.counts["views"] + Owed(x.id, "views")' = ViewRows(x.id)'
    BY DEF ViewsAccounted, ViewRows
  <2>1. CASE x \in posts
    BY <1>1, <1>13, <2>1 DEF Inv, Coherent, ViewsAccounted, ViewRows
  <2>2. CASE x = new
    BY <1>2, <1>13, <1>14, <2>2 DEF Counter
  <2> QED BY <1>1, <2>1, <2>2
<1> QED BY <1>5, <1>6, <1>7, <1>8, <1>10, <1>11, <1>12, <1>15, <1>16, <1>17 DEF Inv, Coherent

-----------------------------------------------------------------------------
LEMMA InvInit == Init => Inv
<1> SUFFICES ASSUME Init PROVE Inv
  OBVIOUS
<1> USE DEF Init
<1>1. TypeOK
  <2>1. IdleReq \in Req
    BY DEF IdleReq, Req, Counter
  <2> QED BY <2>1 DEF TypeOK
<1>2. TablesAgree
  BY FS_EmptySet DEF TablesAgree
<1>3. \A r \in Request : req[r].pc = "idle" /\ req[r].op = "none" /\ req[r].owed = 0
  BY DEF IdleReq
<1>4. \A r \in Request : HandlerAgrees(r)
  <2>1. "none" \in OpAt("idle")
    BY DEF OpAt, SavePC, Saves
  <2> QED BY <1>3, <2>1 DEF HandlerAgrees, SavePC, CommentPC
<1>5. CountersBounded /\ OwnersAgree /\ SaversAgree
  BY <1>3 DEF CountersBounded, OwnersAgree, SaversAgree, Owning, SavePC
<1>6. LikesAccounted /\ CommentsNotUndercounted /\ ViewsAccounted /\ ArchivedStaysArchived
  BY DEF LikesAccounted, CommentsNotUndercounted, ViewsAccounted, ArchivedStaysArchived
<1> QED BY <1>1, <1>2, <1>4, <1>5, <1>6 DEF Inv, Coherent

LEMMA InvStutter ==
  ASSUME Inv, UNCHANGED vars
  PROVE  Inv'
<1> USE DEF vars, history
<1>1. TypeOK' /\ TablesAgree'
  BY DEF Inv, Coherent, TypeOK, TablesAgree, Exists
<1>2. (\A r \in Request : HandlerAgrees(r))'
  BY DEF Inv, Coherent, HandlerAgrees
<1>3. CountersBounded'
  BY DEF Inv, Coherent, CountersBounded, Spent
<1>4. OwnersAgree' /\ SaversAgree' /\ ArchivedStaysArchived'
  BY DEF Inv, Coherent, OwnersAgree, Owning, SaversAgree, ArchivedStaysArchived
<1>5. LikesAccounted' /\ CommentsNotUndercounted' /\ ViewsAccounted'
  BY DEF Inv, Coherent, LikesAccounted, CommentsNotUndercounted, ViewsAccounted, Owed, Of
<1> QED BY <1>1, <1>2, <1>3, <1>4, <1>5 DEF Inv, Coherent

LEMMA CallKeeps ==
  ASSUME Inv, NEW r \in Request, Call(r)
  PROVE  Inv'
<1>1. CASE \E p \in Post : Share(r, p)
  BY <1>1, ShareStep
<1>2. ASSUME NEW u \in User, EditComment(r, u) \/ DeleteComment(r, u)
      PROVE  Inv'
  BY <1>2, EditCommentStep, DeleteCommentStep
<1>3. ASSUME NEW u \in User, NEW op \in Saves, SavePost(r, u, op)
      PROVE  Inv'
  BY <1>3, SavePostStep
<1>4. ASSUME NEW u \in User, NEW p \in Post,
             Toggle(r, u, p) \/ DeletePost(r, u, p) \/ View(r, u, p)
      PROVE  Inv'
  BY <1>4, ToggleStep, DeletePostStep, ViewStep
<1>5. ASSUME NEW u \in User, NEW p \in Post, NEW parent \in Request \cup {None},
             Create(r, u, p, parent)
      PROVE  Inv'
  BY <1>5, CreateStep
<1> QED BY <1>1, <1>2, <1>3, <1>4, <1>5 DEF Call

LEMMA StepKeeps ==
  ASSUME Inv, NEW r \in Request, Step(r)
  PROVE  Inv'
<1>1. CASE CheckBlock(r) \/ FindLike(r) \/ RemoveLike(r) \/ InsertLike(r) \/ Notify(r)
  BY <1>1, CheckBlockStep, FindLikeStep, RemoveLikeStep, InsertLikeStep, NotifyStep
<1>2. CASE InsertComment(r) \/ SelectComment(r) \/ ReinsertComment(r) \/ DeleteReplies(r)
           \/ RemoveComment(r)
  BY <1>2, InsertCommentStep, SelectCommentStep, ReinsertCommentStep, DeleteRepliesStep,
     RemoveCommentStep
<1>3. CASE SelectPost(r) \/ UpdatePost(r) \/ ReinsertPost(r) \/ RemovePost(r) \/ CountRow(r)
  BY <1>3, SelectPostStep, UpdatePostStep, ReinsertPostStep, RemovePostStep, CountRowStep
<1>4. CASE FindView(r) \/ InsertView(r)
  BY <1>4, FindViewStep, InsertViewStep
<1> QED BY <1>1, <1>2, <1>3, <1>4 DEF Step

LEMMA InvStep == Inv /\ [Next]_vars => Inv'
<1> SUFFICES ASSUME Inv, [Next]_vars PROVE Inv'
  OBVIOUS
<1>1. CASE UNCHANGED vars
  BY <1>1, InvStutter
<1>2. ASSUME NEW r \in Request, Call(r) \/ Step(r) \/ Fail(r)
      PROVE  Inv'
  BY <1>2, CallKeeps, StepKeeps, FailStep
<1>3. ASSUME NEW u \in User, NEW p \in Post, Publish(u, p)
      PROVE  Inv'
  BY <1>3, PublishStep
<1> QED BY <1>1, <1>2, <1>3 DEF Next

(* The variables keep their types, tables, handlers and history agree, and the
   counters are balanced: the inductive invariant of PostsService, LikesService,
   CommentsService and ReelsService. *)
THEOREM AlwaysInv == Spec => []Inv
<1>1. Init => Inv
  BY InvInit
<1>2. Inv /\ [Next]_vars => Inv'
  BY InvStep
<1> QED BY <1>1, <1>2, PTL DEF Spec

(* Type correctness: above all, no counter leaves the range that the number of
   calls allows, however often an older copy of the post is written back. *)
THEOREM TypeCorrect == Spec => []TypeOK
<1>1. Inv => TypeOK
  BY DEF Inv
<1> QED BY <1>1, AlwaysInv, PTL

(* likesCount differs from the number of likes by what calls owe, or failed to
   add, and by the likes two calls have both removed, until a save of the post. *)
THEOREM LikesBalance == Spec => []LikesAccounted
<1>1. Inv => LikesAccounted
  BY DEF Inv, Coherent
<1> QED BY <1>1, AlwaysInv, PTL

(* commentsCount hides no comment, but for what calls owe and for the comments
   two calls have both deleted or an edit has brought back. *)
THEOREM CommentsBalance == Spec => []CommentsNotUndercounted
<1>1. Inv => CommentsNotUndercounted
  BY DEF Inv, Coherent
<1> QED BY <1>1, AlwaysInv, PTL

(* viewsCount is the number of distinct viewers, but for what calls owe. *)
THEOREM ViewsBalance == Spec => []ViewsAccounted
<1>1. Inv => ViewsAccounted
  BY DEF Inv, Coherent
<1> QED BY <1>1, AlwaysInv, PTL

(* A post archived by a save without a rival stays archived until its author
   unarchives it. *)
THEOREM ArchiveHolds == Spec => []ArchivedStaysArchived
<1>1. Inv => ArchivedStaysArchived
  BY DEF Inv, Coherent
<1> QED BY <1>1, AlwaysInv, PTL

(* The steps that take a like away, or write posts. *)
LEMMA TablesMove ==
  ASSUME [Next]_vars
  PROVE  \/ posts' = posts /\ likes \subseteq likes'
         \/ \E r \in Request : RemoveLike(r) \/ CountRow(r) \/ UpdatePost(r)
                               \/ ReinsertPost(r) \/ RemovePost(r)
         \/ \E u \in User, p \in Post : Publish(u, p)
<1>1. ASSUME NEW r \in Request, Call(r)
      PROVE  posts' = posts /\ likes' = likes
  BY <1>1 DEF Call, Share, EditComment, DeleteComment, SavePost, Toggle, DeletePost, View, Create
<1>2. ASSUME NEW r \in Request, Step(r)
      PROVE  \/ posts' = posts /\ likes \subseteq likes'
             \/ RemoveLike(r) \/ CountRow(r) \/ UpdatePost(r) \/ ReinsertPost(r) \/ RemovePost(r)
  BY <1>2 DEF Step, CheckBlock, FindLike, InsertLike, Notify, InsertComment, SelectComment,
              ReinsertComment, DeleteReplies, RemoveComment, SelectPost, FindView, InsertView
<1>3. ASSUME NEW r \in Request, Fail(r)
      PROVE  posts' = posts /\ likes' = likes
  BY <1>3 DEF Fail
<1>4. CASE UNCHANGED vars
  BY <1>4 DEF vars
<1> QED BY <1>1, <1>2, <1>3, <1>4 DEF Next

(* A call of user u about post p is at the statement pc. *)
By(pc, u, p) == \E r \in Request : At(r, pc) /\ req[r].user = u /\ req[r].post = p

(* The clauses of OnlyOwners on posts and likes. *)
GoesByAuthor == \A x \in posts : Exists(x.id)' \/ By("removePost", x.author, x.id)

ComesByAuthor == \A x \in posts' : \/ Exists(x.id) \/ x.id \notin born
                                   \/ By("reinsertPost", x.author, x.id)

FlagByAuthor == \A x \in posts, y \in posts' : x.id = y.id =>
                  /\ x.author = y.author
                  /\ x.archived # y.archived => By("updatePost", x.author, x.id)

LikeGoesByUser == \A l \in likes \ likes' : By("removeLike", l.user, l.post) \/ ~Exists(l.post)'

ByOwners == GoesByAuthor /\ ComesByAuthor /\ FlagByAuthor /\ LikeGoesByUser

LEMMA OwnersMove ==
  ASSUME Inv, [Next]_vars
  PROVE  ByOwners
<1>1. \A x, y \in posts : x.id = y.id => x = y
  BY DEF Inv, Coherent, TablesAgree
<1>2. CASE posts' = posts
  <2>1. GoesByAuthor /\ ComesByAuthor /\ FlagByAuthor
    BY <1>1, <1>2 DEF GoesByAuthor, ComesByAuthor, FlagByAuthor, Exists
  <2>2. CASE likes \subseteq likes'
    BY <2>1, <2>2 DEF ByOwners, LikeGoesByUser
  <2>3. ASSUME NEW r \in Request, RemoveLike(r)
        PROVE  LikeGoesByUser
    <3>1. HandlerAgrees(r) /\ req[r].pc = "removeLike" /\ likes' = likes \ {req[r].row}
      BY <2>3 DEF Inv, Coherent, RemoveLike, At
    <3>2. req[r].row.user = req[r].user /\ req[r].row.post = req[r].post
      BY <3>1 DEF HandlerAgrees
    <3> QED BY <3>1, <3>2 DEF LikeGoesByUser, By, At
  <2>4. ASSUME NEW r \in Request, CountRow(r) \/ UpdatePost(r) \/ ReinsertPost(r)
        PROVE  likes' = likes
    BY <2>4 DEF CountRow, UpdatePost, ReinsertPost
  <2>5. ASSUME NEW r \in Request, RemovePost(r)
        PROVE  LikeGoesByUser
    <3>1. /\ posts' = {x \in posts : x.id # req[r].post}
          /\ likes' = {l \in likes : l.post # req[r].post}
      BY <2>5 DEF RemovePost
    <3> QED BY <3>1 DEF LikeGoesByUser, Exists
  <2>6. ASSUME NEW u \in User, NEW p \in Post, Publish(u, p)
        PROVE  likes' = likes
    BY <2>6 DEF Publish
  <2> QED BY <2>1, <2>2, <2>3, <2>4, <2>5, <2>6, TablesMove DEF ByOwners
<1>3. ASSUME NEW r \in Request, CountRow(r)
      PROVE  ByOwners
  <2>1. /\ likes' = likes
        /\ posts' = {IF x.id = req[r].post THEN Bumped(x, req[r].counter, req[r].owed) ELSE x :
                     x \in posts}
    BY <1>3 DEF CountRow, Bumped
  <2>2. \A x \in posts : LET y == Bumped(x, req[r].counter, req[r].owed)
                         IN  y.id = x.id /\ y.author = x.author /\ y.archived = x.archived
    BY BumpedIs DEF Inv, TypeOK, Req
  <2>3. GoesByAuthor
    BY <2>1, <2>2 DEF GoesByAuthor, Exists
  <2>4. ComesByAuthor
    BY <2>1, <2>2 DEF ComesByAuthor, Exists
  <2>5. FlagByAuthor
    <3> SUFFICES ASSUME NEW x \in posts, NEW y \in posts', x.id = y.id
                 PROVE  x.author = y.author /\ x.archived = y.archived
      BY DEF FlagByAuthor
    <3>1. PICK z \in posts : y = IF z.id = req[r].post
                                 THEN Bumped(z, req[r].counter, req[r].owed) ELSE z
      BY <2>1
    <3>2. y.id = z.id /\ y.author = z.author /\ y.archived = z.archived
      BY <2>2, <3>1
    <3> QED BY <1>1, <3>2
  <2> QED BY <2>1, <2>3, <2>4, <2>5 DEF ByOwners, LikeGoesByUser
<1>4. ASSUME NEW r \in Request, UpdatePost(r)
      PROVE  ByOwners
  <2> DEFINE q == req[r]
  <2>1. /\ likes' = likes /\ At(r, "updatePost")
        /\ posts' = {IF x.id = q.post THEN Saved(x, q.copy, q.columns) ELSE x : x \in posts}
    BY <1>4 DEF UpdatePost, Saved
  <2>2. \A x \in posts : LET y == Saved(x, q.copy, q.columns)
                         IN  y.id = x.id /\ y.author = x.author
    <3> SUFFICES ASSUME NEW x \in posts
                 PROVE  LET y == Saved(x, q.copy, q.columns)
                        IN  y.id = x.id /\ y.author = x.author
      OBVIOUS
    <3>1. x \in PostRow
      BY DEF Inv, TypeOK
    <3> QED BY <3>1 DEF Saved, PostRow
  <2>3. GoesByAuthor
    BY <2>1, <2>2 DEF GoesByAuthor, Exists
  <2>4. ComesByAuthor
    BY <2>1, <2>2 DEF ComesByAuthor, Exists
  <2>5. FlagByAuthor
    <3> SUFFICES ASSUME NEW x \in posts, NEW y \in posts', x.id = y.id
                 PROVE  /\ x.author = y.author
                        /\ x.archived # y.archived => By("updatePost", x.author, x.id)
      BY DEF FlagByAuthor
    <3>1. PICK z \in posts : y = IF z.id = q.post THEN Saved(z, q.copy, q.columns) ELSE z
      BY <2>1
    <3>2. y.id = z.id /\ y.author = z.author /\ z = x
      BY <1>1, <2>2, <3>1
    <3>3. CASE x.id = q.post
      <4>1. x.author = q.user
        BY <2>1, <3>3 DEF Inv, Coherent, OwnersAgree, Owning, SavePC, At
      <4> QED BY <2>1, <3>2, <3>3, <4>1 DEF By
    <3>4. CASE x.id # q.post
      BY <3>1, <3>2, <3>4
    <3> QED BY <3>3, <3>4
  <2> QED BY <2>1, <2>3, <2>4, <2>5 DEF ByOwners, LikeGoesByUser
<1>5. ASSUME NEW r \in Request, ReinsertPost(r), posts' # posts
      PROVE  ByOwners
  <2> DEFINE q == req[r]
  <2>1. /\ likes' = likes /\ At(r, "reinsertPost")
        /\ posts' = posts \cup {q.copy} /\ ~Exists(q.post)
    BY <1>5 DEF ReinsertPost
  <2>2. q.copy.id = q.post /\ q.copy.author = q.user
    BY <2>1, SaverKnows DEF At, SavePC
  <2>3. GoesByAuthor
    BY <2>1 DEF GoesByAuthor, Exists
  <2>4. ComesByAuthor
    BY <2>1, <2>2 DEF ComesByAuthor, Exists, By
  <2>5. FlagByAuthor
    BY <1>1, <2>1, <2>2 DEF FlagByAuthor, Exists
  <2> QED BY <2>1, <2>3, <2>4, <2>5 DEF ByOwners, LikeGoesByUser
<1>6. ASSUME NEW r \in Request, RemovePost(r)
      PROVE  ByOwners
  <2> DEFINE q == req[r]
  <2>1. /\ At(r, "removePost")
        /\ posts' = {x \in posts : x.id # q.post}
        /\ likes' = {l \in likes : l.post # q.post}
    BY <1>6 DEF RemovePost
  <2>2. \A x \in posts : x.id = q.post => x.author = q.user
    BY <2>1 DEF Inv, Coherent, OwnersAgree, Owning, At
  <2>3. GoesByAuthor
    BY <2>1, <2>2 DEF GoesByAuthor, Exists, By
  <2>4. ComesByAuthor
    BY <2>1 DEF ComesByAuthor, Exists
  <2>5. FlagByAuthor
    BY <1>1, <2>1 DEF FlagByAuthor
  <2>6. LikeGoesByUser
    BY <2>1 DEF LikeGoesByUser, Exists
  <2> QED BY <2>3, <2>4, <2>5, <2>6 DEF ByOwners
<1>7. ASSUME NEW u \in User, NEW p \in Post, Publish(u, p)
      PROVE  ByOwners
  <2> DEFINE new == [id |-> p, author |-> u, archived |-> FALSE, counts |-> [k \in Counter |-> 0]]
  <2>1. p \notin born /\ posts' = posts \cup {new} /\ likes' = likes /\ new.id = p
    BY <1>7 DEF Publish
  <2> HIDE DEF new
  <2>2. \A x \in posts : x.id # p
    BY <2>1 DEF Inv, Coherent, TablesAgree
  <2>3. GoesByAuthor
    BY <2>1 DEF GoesByAuthor, Exists
  <2>4. ComesByAuthor
    BY <2>1 DEF ComesByAuthor, Exists
  <2>5. FlagByAuthor
    BY <1>1, <2>1, <2>2 DEF FlagByAuthor
  <2> QED BY <2>1, <2>3, <2>4, <2>5 DEF ByOwners, LikeGoesByUser
<1>8. ASSUME NEW r \in Request, RemoveLike(r)
      PROVE  posts' = posts
  BY <1>8 DEF RemoveLike
<1> QED BY <1>2, <1>3, <1>4, <1>5, <1>6, <1>7, <1>8, TablesMove

-----------------------------------------------------------------------------
(* Whose comments come and go *)

(* A call that has a comment in memory. *)
Holds(r) == req[r].pc \in CommentPC \/ (req[r].pc = "checkBlock" /\ req[r].op = "comment")

(* The comments stored and those in memory. *)
Known == comments \cup {req[r].row : r \in {s \in Request : Holds(s)}}

(* An id names one comment, of the call that has begun under it, and a handler
   has only comments of its user in memory. *)
KnownAgree ==
  /\ \A c \in Known : req[c.id].pc # "idle"
  /\ \A c, d \in Known : c.id = d.id => c = d
  /\ \A r \in Request : Holds(r) => req[r].row.user = req[r].user

LEMMA KnownTyped ==
  ASSUME Inv
  PROVE  \A c \in Known : c \in Comment /\ c.id \in Request
<1>1. \A c \in comments : c \in Comment
  BY DEF Inv, TypeOK
<1>2. \A r \in Request : Holds(r) => req[r].row \in Comment
  BY DEF Inv, Coherent, HandlerAgrees, Holds
<1>3. \A c \in Comment : c.id \in Request
  BY DEF Comment
<1> QED BY <1>1, <1>2, <1>3 DEF Known

(* A step of one call that stores and holds no comment but those known. *)
Familiar(r) ==
  /\ Only(r)
  /\ req'[r].pc # "idle"
  /\ comments' \subseteq Known
  /\ req'[r].pc \in CommentPC \/ (req'[r].pc = "checkBlock" /\ req'[r].op = "comment") =>
       req'[r].row \in Known /\ req'[r].row.user = req'[r].user

LEMMA FamiliarKeeps ==
  ASSUME Inv, KnownAgree, NEW r \in Request, Familiar(r)
  PROVE  KnownAgree'
<1>1. \A s \in Request : s # r => req'[s] = req[s]
  BY DEF Familiar, Only
<1>2. \A s \in Request : Holds(s)' => req'[s].row \in Known /\ req'[s].row.user = req'[s].user
  <2> SUFFICES ASSUME NEW s \in Request, Holds(s)'
               PROVE  req'[s].row \in Known /\ req'[s].row.user = req'[s].user
    OBVIOUS
  <2>1. CASE s = r
    BY <2>1 DEF Holds, Familiar
  <2>2. CASE s # r
    BY <1>1, <2>2 DEF Holds, Known, KnownAgree
  <2> QED BY <2>1, <2>2
<1>3. Known' \subseteq Known
  BY <1>2 DEF Known, Familiar
<1>4. \A c \in Known : req'[c.id].pc # "idle"
  BY <1>1, KnownTyped DEF KnownAgree, Familiar
<1> QED BY <1>2, <1>3, <1>4 DEF KnownAgree

LEMMA AnswerFamiliar ==
  ASSUME Inv, NEW r \in Request, NEW pc \in {"done", "failed"}, Answer(r, pc),
         comments' \subseteq Known
  PROVE  Familiar(r)
<1>1. Only(r) /\ req'[r].pc = pc
  BY AnswerSets DEF Inv, TypeOK
<1> QED BY <1>1 DEF Familiar, CommentPC

LEMMA OweFamiliar ==
  ASSUME Inv, NEW r \in Request, NEW k \in Counter, NEW by \in {1, -1}, Owe(r, k, by),
         comments' \subseteq Known
  PROVE  Familiar(r)
<1>1. Only(r) /\ req'[r].pc = "count"
  BY OweSets DEF Inv, TypeOK
<1> QED BY <1>1 DEF Familiar, CommentPC

LEMMA GoToFamiliar ==
  ASSUME Inv, KnownAgree, NEW r \in Request, NEW pc \in Running, GoTo(r, pc),
         pc \in CommentPC => Holds(r), pc # "checkBlock", comments' \subseteq Known
  PROVE  Familiar(r)
<1>1. /\ Only(r) /\ req'[r].pc = pc /\ req'[r].row = req[r].row /\ req'[r].user = req[r].user
  BY GoToSets DEF Inv, TypeOK
<1>2. pc # "idle"
  BY DEF Running
<1> QED BY <1>1, <1>2 DEF Familiar, KnownAgree, Known

LEMMA BeginFamiliar ==
  ASSUME Inv, NEW r \in Request, NEW u \in User, NEW p \in Post, NEW op \in {"like", "delete", "view"},
         NEW pc \in {"checkBlock", "removePost", "findView"}, Begin(r, op, pc, u, p),
         comments' \subseteq Known
  PROVE  Familiar(r)
<1>1. pc \in Running
  BY DEF Running
<1>2. Only(r) /\ req'[r].pc = pc /\ req'[r].op = op
  BY <1>1, BeginSets DEF Inv, TypeOK
<1> QED BY <1>2 DEF Familiar, CommentPC

LEMMA CallFamiliar ==
  ASSUME Inv, KnownAgree, NEW r \in Request, Call(r)
  PROVE  KnownAgree'
<1>1. comments \subseteq Known /\ req \in [Request -> Req] /\ req[r] \in Req
  BY DEF Known, Inv, TypeOK
<1>2. ASSUME NEW p \in Post, Share(r, p)
      PROVE  Familiar(r)
  <2>1. Only(r) /\ req'[r].pc = "count" /\ comments' = comments
    BY <1>1, <1>2 DEF Share, Only, Req
  <2> QED BY <1>1, <2>1 DEF Familiar, CommentPC
<1>3. ASSUME NEW u \in User, EditComment(r, u) \/ DeleteComment(r, u)
      PROVE  Familiar(r)
  <2>1. PICK c \in comments : /\ c.user = u
                              /\ \/ Take(r, "editComment", "selectComment", u, c)
                                 \/ Take(r, "deleteComment", "deleteReplies", u, c)
    BY <1>3 DEF EditComment, DeleteComment
  <2>2. /\ Only(r) /\ req'[r].pc \in {"selectComment", "deleteReplies"}
        /\ req'[r].row = c /\ req'[r].user = u
    BY <1>1, <2>1 DEF Take, Only, Req
  <2>3. comments' = comments
    BY <1>3 DEF EditComment, DeleteComment
  <2> QED BY <1>1, <2>1, <2>2, <2>3 DEF Familiar
<1>4. ASSUME NEW u \in User, NEW op \in Saves, SavePost(r, u, op)
      PROVE  Familiar(r)
  <2>1. Only(r) /\ req'[r].pc = "selectPost" /\ comments' = comments
    BY <1>1, <1>4 DEF SavePost, StartSave, Only, Req
  <2> QED BY <1>1, <2>1 DEF Familiar, CommentPC
<1>5. ASSUME NEW u \in User, NEW p \in Post, Toggle(r, u, p) \/ DeletePost(r, u, p) \/ View(r, u, p)
      PROVE  Familiar(r)
  BY <1>1, <1>5, BeginFamiliar DEF Toggle, DeletePost, View
<1>6. ASSUME NEW u \in User, NEW p \in Post, NEW parent \in Request \cup {None},
             Create(r, u, p, parent)
      PROVE  KnownAgree'
  <2> DEFINE new == [id |-> r, user |-> u, post |-> p, parent |-> parent]
  <2>1. /\ comments' = comments /\ At(r, "idle")
        /\ req' = [req EXCEPT ![r].op = "comment", ![r].pc = "checkBlock", ![r].user = u,
                              ![r].post = p, ![r].row = new]
    BY <1>6 DEF Create
  <2>2. new.id = r /\ new.user = u
    OBVIOUS
  <2> HIDE DEF new
  <2>3. /\ req'[r].pc = "checkBlock" /\ req'[r].row = new /\ req'[r].user = u
        /\ \A s \in Request : s # r => req'[s] = req[s]
    BY <1>1, <2>1 DEF Req
  <2>4. \A c \in Known : c.id \in Request /\ c.id # r
    BY <2>1, KnownTyped DEF KnownAgree, At
  <2>5. \A s \in Request : Holds(s)' => /\ req'[s].row \in Known \cup {new}
                                        /\ req'[s].row.user = req'[s].user
    <3> SUFFICES ASSUME NEW s \in Request, Holds(s)'
                 PROVE  req'[s].row \in Known \cup {new} /\ req'[s].row.user = req'[s].user
      OBVIOUS
    <3>1. CASE s = r
      BY <2>2, <2>3, <3>1
    <3>2. CASE s # r
      BY <2>3, <3>2 DEF Holds, Known, KnownAgree
    <3> QED BY <3>1, <3>2
  <2>6. Known' \subseteq Known \cup {new}
    BY <2>1, <2>5 DEF Known
  <2>7. \A c \in Known \cup {new} : req'[c.id].pc # "idle"
    BY <2>2, <2>3, <2>4 DEF KnownAgree
  <2>8. \A c, d \in Known \cup {new} : c.id = d.id => c = d
    BY <2>2, <2>4 DEF KnownAgree
  <2> QED BY <2>5, <2>6, <2>7, <2>8 DEF KnownAgree
<1> QED BY <1>2, <1>3, <1>4, <1>5, <1>6, FamiliarKeeps DEF Call

LEMMA StepFamiliar ==
  ASSUME Inv, KnownAgree, NEW r \in Request, Step(r)
  PROVE  Familiar(r)
<1>1. comments \subseteq Known /\ req \in [Request -> Req] /\ req[r] \in Req
  BY DEF Known, Inv, TypeOK
<1>2. CASE CheckBlock(r)
  <2>1. req[r].op \in {"like", "comment"} /\ req[r].pc = "checkBlock"
    BY <1>2 DEF Inv, Coherent, HandlerAgrees, OpAt, CheckBlock, At, SavePC
  <2>2. CASE GoTo(r, "findLike")
    BY <1>1, <1>2, <2>2, GoToFamiliar DEF CheckBlock, Running, CommentPC
  <2>3. CASE GoTo(r, "insertComment") /\ req[r].op = "comment"
    BY <1>1, <1>2, <2>1, <2>3, GoToFamiliar DEF CheckBlock, Running, Holds
  <2>4. CASE Answer(r, "failed")
    BY <1>1, <1>2, <2>4, AnswerFamiliar DEF CheckBlock
  <2> QED BY <1>2, <2>1, <2>2, <2>3, <2>4 DEF CheckBlock
<1>3. CASE FindLike(r)
  <2>1. CASE GoTo(r, "insertLike")
    BY <1>1, <1>3, <2>1, GoToFamiliar DEF FindLike, Running, CommentPC
  <2>2. ASSUME NEW l \in likes, req' = [req EXCEPT ![r].pc = "removeLike", ![r].row = l]
        PROVE  Familiar(r)
    <3>1. Only(r) /\ req'[r].pc = "removeLike" /\ comments' = comments
      BY <1>1, <1>3, <2>2 DEF Only, Req, FindLike
    <3> QED BY <1>1, <3>1 DEF Familiar, CommentPC
  <2> QED BY <1>3, <2>1, <2>2 DEF FindLike
<1>4. CASE RemoveLike(r)
  BY <1>1, <1>4, OweFamiliar DEF RemoveLike, Counter
<1>5. CASE InsertLike(r)
  BY <1>1, <1>5, OweFamiliar, AnswerFamiliar DEF InsertLike, Counter
<1>6. CASE InsertComment(r)
  <2>1. req[r].row \in Known
    BY <1>6 DEF InsertComment, At, Known, Holds, CommentPC
  <2> QED BY <1>1, <1>6, <2>1, OweFamiliar, AnswerFamiliar DEF InsertComment, Counter
<1>7. CASE SelectComment(r)
  <2>1. Holds(r)
    BY <1>7 DEF SelectComment, At, Holds, CommentPC
  <2> QED BY <1>1, <1>7, <2>1, GoToFamiliar, AnswerFamiliar DEF SelectComment, Running
<1>8. CASE ReinsertComment(r)
  <2>1. req[r].row \in Known
    BY <1>8 DEF ReinsertComment, At, Known, Holds, CommentPC
  <2> QED BY <1>1, <1>8, <2>1, AnswerFamiliar DEF ReinsertComment
<1>9. CASE DeleteReplies(r)
  <2>1. Holds(r) /\ comments' \subseteq Known
    BY <1>1, <1>9 DEF DeleteReplies, At, Holds, CommentPC
  <2> QED BY <1>9, <2>1, GoToFamiliar DEF DeleteReplies, Running
<1>10. CASE RemoveComment(r)
  <2>1. comments' \subseteq Known
    BY <1>1, <1>10 DEF RemoveComment
  <2> QED BY <1>10, <2>1, OweFamiliar DEF RemoveComment, Counter
<1>11. CASE SelectPost(r)
  <2>1. comments' = comments
    BY <1>11 DEF SelectPost
  <2>2. CASE GoTo(r, "reinsertPost")
    BY <1>1, <2>1, <2>2, GoToFamiliar DEF Running, CommentPC
  <2>3. CASE Answer(r, "done")
    BY <1>1, <2>1, <2>3, AnswerFamiliar
  <2>4. ASSUME NEW x \in posts, req' = [req EXCEPT ![r].pc = "updatePost",
                                          ![r].columns = Differ(x, req[r].copy)]
        PROVE  Familiar(r)
    <3>1. Only(r) /\ req'[r].pc = "updatePost"
      BY <1>1, <2>4 DEF Only, Req
    <3> QED BY <1>1, <2>1, <3>1 DEF Familiar, CommentPC
  <2> QED BY <1>11, <2>2, <2>3, <2>4 DEF SelectPost
<1>12. CASE UpdatePost(r)
  BY <1>1, <1>12, AnswerFamiliar DEF UpdatePost
<1>13. CASE ReinsertPost(r)
  BY <1>1, <1>13, AnswerFamiliar DEF ReinsertPost
<1>14. CASE RemovePost(r)
  <2>1. comments' \subseteq Known
    BY <1>1, <1>14 DEF RemovePost
  <2> QED BY <1>14, <2>1, AnswerFamiliar DEF RemovePost
<1>15. CASE FindView(r)
  BY <1>1, <1>15, GoToFamiliar, AnswerFamiliar DEF FindView, Running, CommentPC
<1>16. CASE InsertView(r)
  BY <1>1, <1>16, OweFamiliar, AnswerFamiliar DEF InsertView, Counter
<1>17. CASE CountRow(r)
  <2>1. Only(r) /\ req'[r].pc \in {"notify", "done"} /\ comments' = comments
    BY <1>1, <1>17 DEF CountRow, Only, Req
  <2> QED BY <1>1, <2>1 DEF Familiar, CommentPC
<1>18. CASE Notify(r)
  BY <1>1, <1>18, AnswerFamiliar DEF Notify
<1> QED BY <1>2, <1>3, <1>4, <1>5, <1>6, <1>7, <1>8, <1>9, <1>10, <1>11, <1>12, <1>13, <1>14,
           <1>15, <1>16, <1>17, <1>18 DEF Step

LEMMA KnownInit == Init => KnownAgree
BY DEF Init, IdleReq, KnownAgree, Known, Holds, CommentPC

LEMMA KnownStep ==
  ASSUME Inv, KnownAgree, [Next]_vars
  PROVE  KnownAgree'
<1>1. ASSUME NEW r \in Request, Fail(r)
      PROVE  KnownAgree'
  <2>1. comments' \subseteq Known
    BY <1>1 DEF Fail, Known
  <2> QED BY <1>1, <2>1, AnswerFamiliar, FamiliarKeeps DEF Fail
<1>2. CASE req' = req /\ comments' = comments
  BY <1>2 DEF KnownAgree, Known, Holds
<1>3. UNCHANGED vars => req' = req /\ comments' = comments
  BY DEF vars
<1>4. ASSUME NEW u \in User, NEW p \in Post, Publish(u, p)
      PROVE  req' = req /\ comments' = comments
  BY <1>4 DEF Publish
<1> QED BY <1>1, <1>2, <1>3, <1>4, CallFamiliar, StepFamiliar, FamiliarKeeps DEF Next

(* Nothing goes with a cascade but what it starts from and replies to what goes. *)
LEMMA CascadeLeast ==
  ASSUME NEW cs \in SUBSET comments, NEW c \in Cascade(cs)
  PROVE  c \in cs \/ \E d \in Cascade(cs) : c.parent = d.id
<1> DEFINE rest == Cascade(cs) \ {c}
<1> SUFFICES ASSUME c \notin cs, \A d \in Cascade(cs) : c.parent # d.id
             PROVE  FALSE
  OBVIOUS
<1>1. cs \subseteq rest /\ rest \in SUBSET comments
  BY CascadeHolds DEF Cascade
<1>2. \A e \in comments : (\E d \in rest : e.parent = d.id) => e \in rest
  <2> SUFFICES ASSUME NEW e \in comments, NEW d \in rest, e.parent = d.id
               PROVE  e \in rest
    OBVIOUS
  <2>1. e # c
    OBVIOUS
  <2>2. e \in Cascade(cs)
    BY DEF Cascade
  <2> QED BY <2>1, <2>2
<1>3. c \in rest
  BY <1>1, <1>2 DEF Cascade
<1> QED BY <1>3

(* A comment that goes with the comment it replies to. *)
LEMMA RepliesGo ==
  ASSUME Inv, KnownAgree, NEW cs \in SUBSET comments, NEW c \in Cascade(cs), c \notin cs,
         comments' = comments \ Cascade(cs)
  PROVE  c.parent # None /\ \A d \in comments' : d.id # c.parent
<1>1. PICK d \in Cascade(cs) : c.parent = d.id
  BY CascadeLeast
<1>2. d \in comments /\ d.id \in Request
  BY KnownTyped DEF Cascade, Known
<1>3. \A e \in comments : e.id = d.id => e = d
  BY <1>2 DEF KnownAgree, Known
<1> QED BY <1>1, <1>2, <1>3, NoneAssumption

(* A call of user u is at the statement pc with comment id in memory. *)
ByHolder(pc, u, id) ==
  \E r \in Request : At(r, pc) /\ req[r].user = u /\ req[r].row.id = id

(* The clauses of OnlyOwners on comments. *)
CommentComes ==
  \A c \in comments' \ comments :
    ByHolder("insertComment", c.user, c.id) \/ ByHolder("reinsertComment", c.user, c.id)

CommentGoes ==
  \A c \in comments \ comments' :
    \/ ByHolder("removeComment", c.user, c.id)
    \/ \E r \in Request : /\ At(r, "deleteReplies") /\ req[r].row.id = c.parent
                          /\ req[r].user = req[r].row.user
    \/ c.parent # None /\ \A d \in comments' : d.id # c.parent
    \/ ~Exists(c.post)'

LEMMA CommentsMoveByUsers ==
  ASSUME Inv, KnownAgree, [Next]_vars
  PROVE  CommentComes /\ CommentGoes
<1>1. CASE comments' = comments
  BY <1>1 DEF CommentComes, CommentGoes
<1>2. ASSUME NEW r \in Request, InsertComment(r) \/ ReinsertComment(r)
      PROVE  CommentComes /\ CommentGoes
  <2>1. /\ At(r, "insertComment") \/ At(r, "reinsertComment")
        /\ comments \subseteq comments' /\ comments' \subseteq comments \cup {req[r].row}
    BY <1>2 DEF InsertComment, ReinsertComment
  <2>2. req[r].row.user = req[r].user
    BY <2>1 DEF KnownAgree, Holds, CommentPC, At
  <2> QED BY <2>1, <2>2 DEF CommentComes, CommentGoes, ByHolder
<1>3. ASSUME NEW r \in Request, DeleteReplies(r)
      PROVE  CommentComes /\ CommentGoes
  <2> DEFINE cs == {c \in comments : c.parent = req[r].row.id}
  <2>1. At(r, "deleteReplies") /\ comments' = comments \ Cascade(cs)
    BY <1>3 DEF DeleteReplies
  <2>2. req[r].row.user = req[r].user
    BY <2>1 DEF KnownAgree, Holds, CommentPC, At
  <2>3. \A c \in Cascade(cs) : c \notin cs =>
          c.parent # None /\ \A d \in comments' : d.id # c.parent
    BY <2>1, RepliesGo
  <2> QED BY <2>1, <2>2, <2>3 DEF CommentComes, CommentGoes
<1>4. ASSUME NEW r \in Request, RemoveComment(r)
      PROVE  CommentComes /\ CommentGoes
  <2> DEFINE cs == {c \in comments : c.id = req[r].row.id}
  <2>1. At(r, "removeComment") /\ comments' = comments \ Cascade(cs)
    BY <1>4 DEF RemoveComment
  <2>2. Holds(r) /\ req[r].row.user = req[r].user
    BY <2>1 DEF KnownAgree, Holds, CommentPC, At
  <2>3. \A c \in cs : c = req[r].row
    BY <2>2 DEF KnownAgree, Known
  <2>4. \A c \in Cascade(cs) : c \notin cs =>
          c.parent # None /\ \A d \in comments' : d.id # c.parent
    BY <2>1, RepliesGo
  <2> QED BY <2>1, <2>2, <2>3, <2>4 DEF CommentComes, CommentGoes, ByHolder
<1>5. ASSUME NEW r \in Request, RemovePost(r)
      PROVE  CommentComes /\ CommentGoes
  <2> DEFINE cs == {c \in comments : c.post = req[r].post}
  <2>1. /\ posts' = {x \in posts : x.id # req[r].post}
        /\ comments' = comments \ Cascade(cs)
    BY <1>5 DEF RemovePost
  <2>2. \A c \in cs : ~Exists(c.post)'
    BY <2>1 DEF Exists
  <2>3. \A c \in Cascade(cs) : c \notin cs =>
          c.parent # None /\ \A d \in comments' : d.id # c.parent
    BY <2>1, RepliesGo
  <2> QED BY <2>1, <2>2, <2>3 DEF CommentComes, CommentGoes
<1>6. ASSUME NEW r \in Request, Call(r) \/ Fail(r)
      PROVE  comments' = comments
  BY <1>6 DEF Call, Fail, Share, EditComment, DeleteComment, SavePost, Toggle, DeletePost, View,
              Create
<1>7. ASSUME NEW r \in Request, Step(r)
      PROVE  \/ comments' = comments
             \/ InsertComment(r) \/ ReinsertComment(r) \/ DeleteReplies(r) \/ RemoveComment(r)
             \/ RemovePost(r)
  BY <1>7 DEF Step, CheckBlock, FindLike, RemoveLike, InsertLike, SelectComment, SelectPost,
              UpdatePost, ReinsertPost, FindView, InsertView, CountRow, Notify
<1>8. ASSUME NEW u \in User, NEW p \in Post, Publish(u, p)
      PROVE  comments' = comments
  BY <1>8 DEF Publish
<1>9. UNCHANGED vars => comments' = comments
  BY DEF vars
<1> QED BY <1>1, <1>2, <1>3, <1>4, <1>5, <1>6, <1>7, <1>8, <1>9 DEF Next

(* A post goes, comes back or changes its archived flag only in a call of its
   author; a like goes only by a call of its user or with the post.  A comment
   is written only by its user; it goes only by its user, under the user of the
   comment it replies to, with that comment or with the post. *)
THEOREM OwnersOnly == Spec => OnlyOwners
<1> DEFINE
      by(pc, u, p) == \E r \in Request : At(r, pc) /\ req[r].user = u /\ req[r].post = p
      at(pc, u, id) == \E r \in Request : At(r, pc) /\ req[r].user = u /\ req[r].row.id = id
      Owned == /\ \A x \in posts : Exists(x.id)' \/ by("removePost", x.author, x.id)
               /\ \A x \in posts' : \/ Exists(x.id) \/ x.id \notin born
                                    \/ by("reinsertPost", x.author, x.id)
               /\ \A x \in posts, y \in posts' : x.id = y.id =>
                    /\ x.author = y.author
                    /\ x.archived # y.archived => by("updatePost", x.author, x.id)
               /\ \A l \in likes \ likes' : \/ by("removeLike", l.user, l.post)
                                            \/ ~Exists(l.post)'
               /\ \A c \in comments' \ comments :
                    at("insertComment", c.user, c.id) \/ at("reinsertComment", c.user, c.id)
               /\ \A c \in comments \ comments' :
                    \/ at("removeComment", c.user, c.id)
                    \/ \E r \in Request : /\ At(r, "deleteReplies") /\ req[r].row.id = c.parent
                                          /\ req[r].user = req[r].row.user
                    \/ c.parent # None /\ \A d \in comments' : d.id # c.parent
                    \/ ~Exists(c.post)'
<1>1. ASSUME Inv, KnownAgree, [Next]_vars
      PROVE  Owned
  <2>1. ByOwners
    BY <1>1, OwnersMove
  <2>2. CommentComes /\ CommentGoes
    BY <1>1, CommentsMoveByUsers
  <2>3. CommentComes => \A c \in comments' \ comments :
          at("insertComment", c.user, c.id) \/ at("reinsertComment", c.user, c.id)
    BY DEF CommentComes, ByHolder
  <2>4. CommentGoes => \A c \in comments \ comments' :
          \/ at("removeComment", c.user, c.id)
          \/ \E r \in Request : /\ At(r, "deleteReplies") /\ req[r].row.id = c.parent
                                /\ req[r].user = req[r].row.user
          \/ c.parent # None /\ \A d \in comments' : d.id # c.parent
          \/ ~Exists(c.post)'
    BY DEF CommentGoes, ByHolder
  <2> QED BY <2>1, <2>2, <2>3, <2>4
             DEF ByOwners, GoesByAuthor, ComesByAuthor, FlagByAuthor, LikeGoesByUser, By
<1>2. Inv /\ KnownAgree /\ [Next]_vars => [Owned]_vars
  BY <1>1
<1>3. Spec => []KnownAgree
  BY AlwaysInv, KnownInit, KnownStep, PTL DEF Spec
<1> QED BY <1>2, <1>3, AlwaysInv, PTL DEF Spec, OnlyOwners
=============================================================================
