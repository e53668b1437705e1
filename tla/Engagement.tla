----------------------------- MODULE Engagement -----------------------------
(***************************************************************************)
(* Posts and reels with their likes, comments, views and the counters kept *)
(* of them: PostsService, LikesService, CommentsService and the writes of  *)
(* ReelsService.                                                           *)
(*                                                                         *)
(* A call in flight is a request r whose pc names the statement it awaits; *)
(* a statement is atomic, two statements are not.  A counter is a column   *)
(* of posts, changed by an atomic UPDATE of its own after the row it       *)
(* counts was written: between the two the call owes the counter.  A post  *)
(* is edited by save, which writes back every column, the counters too, in *)
(* which the table has moved away from the copy in memory.  A call that is *)
(* refused before it writes changes nothing and is not taken; what no      *)
(* later statement of a call reads, its request forgets.                   *)
(*                                                                         *)
(* A definition marked Mutant is not part of the specification.            *)
(***************************************************************************)
EXTENDS Integers, FiniteSets

CONSTANTS
  User,     \* registered users; rows of users are never deleted
  Post,     \* ids of the posts published, at most (bound)
  Reel,     \* those that are reels
  Request,  \* GraphQL calls of several statements; each is made once (bound)
  MayFail,  \* requests whose statement may reject, or die with the process
  None      \* no post, no comment, no copy

ASSUME ReelAssumption    == Reel \subseteq Post
ASSUME MayFailAssumption == MayFail \subseteq Request /\ IsFiniteSet(Request)
ASSUME NoneAssumption    == None \notin User \cup Post \cup Request

VARIABLES
  posts,     \* table posts
  likes,     \* table likes
  comments,  \* table comments
  views,     \* table reel_views, as the pairs <<userId, reelId>>
  req,       \* the requests
  born,      \* history: the posts published so far
  resaved,   \* history: posts whose counters a save has overwritten
  vanished,  \* history: calls that removed a row another had removed already
  revived,   \* history: calls whose save brought a deleted comment back
  rivals,    \* history: saves that have overlapped another save of their post
  shelved    \* history: posts archived by a save without a rival

history == <<born, resaved, vanished, revived, rivals, shelved>>
vars == <<posts, likes, comments, views, req, history>>

Counter == {"likes", "comments", "views", "shares"}
Count   == (0 - Cardinality(Request)) .. Cardinality(Request)

PostRow == [id : Post, author : User, archived : BOOLEAN, counts : [Counter -> Count]]
Like    == [id : Request, user : User, post : Post]
Comment == [id : Request, user : User, post : Post, parent : Request \cup {None}]

Running == {"checkBlock", "findLike", "removeLike", "insertLike", "insertComment",
            "selectComment", "reinsertComment", "deleteReplies", "removeComment",
            "selectPost", "updatePost", "reinsertPost", "removePost",
            "findView", "insertView", "count", "notify"}

(* row is the like or comment and copy the post in the handler's memory, columns
   what save will update, owed what the call has still to add to counter. *)
Req == [op : {"none", "like", "comment", "editComment", "deleteComment",
              "archive", "unarchive", "edit", "delete", "view", "share"},
        pc : Running \cup {"idle", "done", "failed"},
        user : User \cup {None}, post : Post \cup {None},
        row : Like \cup Comment \cup {None}, copy : PostRow \cup {None},
        columns : SUBSET (Counter \cup {"archived"}),
        counter : Counter, owed : {-1, 0, 1}]

IdleReq == [op |-> "none", pc |-> "idle", user |-> None, post |-> None, row |-> None,
            copy |-> None, columns |-> {}, counter |-> "likes", owed |-> 0]

-----------------------------------------------------------------------------
At(r, pc) == req[r].pc = pc

GoTo(r, pc) == req' = [req EXCEPT ![r].pc = pc]

Forget(q) == [q EXCEPT !.user = None, !.row = None, !.copy = None, !.columns = {}]

(* The call returns, or throws. *)
Answer(r, pc) == req' = [req EXCEPT ![r] = [Forget(@) EXCEPT !.pc = pc]]

(* The row is written: what remains is to count it. *)
Owe(r, counter, by) ==
  req' = [req EXCEPT ![r] = [Forget(@) EXCEPT !.pc = "count", !.counter = counter,
                                              !.owed = by]]

Begin(r, op, pc, u, p) ==
  /\ At(r, "idle")
  /\ req' = [req EXCEPT ![r].op = op, ![r].pc = pc, ![r].user = u, ![r].post = p]

Exists(p) == \E x \in posts : x.id = p

(* getById of ReelsService *)
Watchable(p) == p \in Reel /\ \E x \in posts : x.id = p /\ ~x.archived

(* The comments a foreign key cascade deletes with the comments cs: no smaller set
   has the replies to its own. *)
Cascade(cs) ==
  LET whole(ds) == cs \subseteq ds /\ \A c \in comments :
                     (\E d \in ds : c.parent = d.id) => c \in ds
  IN  {c \in comments : \A ds \in SUBSET comments : whole(ds) => c \in ds}

-----------------------------------------------------------------------------
(* Mutant: the counters are left to a database without defaults. *)
PublishUncounted(u, p) ==
  /\ p \notin born
  /\ posts' = posts \cup {[id |-> p, author |-> u, archived |-> FALSE,
                           counts |-> [k \in Counter |-> None]]}
  /\ born' = born \cup {p}
  /\ UNCHANGED <<likes, comments, views, req, resaved, vanished, revived, rivals, shelved>>

(* PostsService.create and ReelsService.create *)
Publish(u, p) ==
  /\ p \notin born
  /\ posts' = posts \cup {[id |-> p, author |-> u, archived |-> FALSE,
                           counts |-> [k \in Counter |-> 0]]}
  /\ born' = born \cup {p}
  /\ UNCHANGED <<likes, comments, views, req, resaved, vanished, revived, rivals, shelved>>

-----------------------------------------------------------------------------
(* LikesService.toggle *)

Toggle(r, u, p) ==
  /\ Exists(p)
  /\ Begin(r, "like", "checkBlock", u, p)
  /\ UNCHANGED <<posts, likes, comments, views, history>>

(* Either answer of the block table, which is SocialGraph's; nobody is blocked
   from their own post. *)
CheckBlock(r) ==
  /\ At(r, "checkBlock")
  /\ \/ GoTo(r, IF req[r].op = "like" THEN "findLike" ELSE "insertComment")
     \/ /\ \A x \in posts : x.id = req[r].post => x.author # req[r].user
        /\ Answer(r, "failed")
  /\ UNCHANGED <<posts, likes, comments, views, history>>

FindLike(r) ==
  /\ At(r, "findLike")
  /\ LET mine == {l \in likes : l.user = req[r].user /\ l.post = req[r].post}
     IN  \/ mine = {} /\ GoTo(r, "insertLike")
         \/ \E l \in mine : req' = [req EXCEPT ![r].pc = "removeLike", ![r].row = l]
  /\ UNCHANGED <<posts, likes, comments, views, history>>

(* likeRepo.remove: a delete by id, silent when the row is gone already. *)
RemoveLike(r) ==
  /\ At(r, "removeLike")
  /\ likes' = likes \ {req[r].row}
  /\ vanished' = IF req[r].row \in likes THEN vanished ELSE vanished \cup {r}
  /\ Owe(r, "likes", -1)
  /\ UNCHANGED <<posts, comments, views, born, resaved, revived, rivals, shelved>>

(* Mutant: the counter moves although the insert was refused. *)
InsertLikeAnyway(r) ==
  /\ At(r, "insertLike")
  /\ likes' = IF \/ ~Exists(req[r].post)
                 \/ \E l \in likes : l.user = req[r].user /\ l.post = req[r].post
              THEN likes
              ELSE likes \cup {[id |-> r, user |-> req[r].user, post |-> req[r].post]}
  /\ Owe(r, "likes", 1)
  /\ UNCHANGED <<posts, comments, views, history>>

(* The insert throws on a second like of the user and without its post. *)
InsertLike(r) ==
  /\ At(r, "insertLike")
  /\ IF \/ ~Exists(req[r].post)
        \/ \E l \in likes : l.user = req[r].user /\ l.post = req[r].post
     THEN Answer(r, "failed") /\ UNCHANGED likes
     ELSE /\ likes' = likes \cup {[id |-> r, user |-> req[r].user, post |-> req[r].post]}
          /\ Owe(r, "likes", 1)
  /\ UNCHANGED <<posts, comments, views, history>>

(* increment and decrement: nothing happens when the post is gone. *)
CountRow(r) ==
  /\ At(r, "count")
  /\ posts' = {IF x.id = req[r].post
               THEN [x EXCEPT !.counts[req[r].counter] = @ + req[r].owed] ELSE x :
               x \in posts}
  /\ req' = [req EXCEPT ![r].owed = 0,
               ![r].pc = IF req[r].owed = 1 /\ req[r].counter \in {"likes", "comments"}
                         THEN "notify" ELSE "done"]
  /\ UNCHANGED <<likes, comments, views, history>>

(* NotificationsService.create, awaited; it writes nothing here. *)
Notify(r) ==
  /\ At(r, "notify")
  /\ Answer(r, "done")
  /\ UNCHANGED <<posts, likes, comments, views, history>>

-----------------------------------------------------------------------------
(* CommentsService *)

(* parent is any id a client may pass, of a comment of whatever post. *)
Create(r, u, p, parent) ==
  /\ At(r, "idle")
  /\ Exists(p)
  /\ req' = [req EXCEPT
       ![r].op = "comment", ![r].pc = "checkBlock", ![r].user = u, ![r].post = p,
       ![r].row = [id |-> r, user |-> u, post |-> p, parent |-> parent]]
  /\ UNCHANGED <<posts, likes, comments, views, history>>

(* The insert throws without its post or its parent. *)
References(c) ==
  Exists(c.post) /\ (c.parent = None \/ \E d \in comments : d.id = c.parent)

InsertComment(r) ==
  /\ At(r, "insertComment")
  /\ IF References(req[r].row)
     THEN comments' = comments \cup {req[r].row} /\ Owe(r, "comments", 1)
     ELSE Answer(r, "failed") /\ UNCHANGED comments
  /\ UNCHANGED <<posts, likes, views, history>>

Take(r, op, pc, u, c) ==
  req' = [req EXCEPT ![r].op = op, ![r].pc = pc, ![r].user = u, ![r].post = c.post,
                     ![r].row = c]

(* update: a comment of another user, or none, is refused. *)
EditComment(r, u) ==
  /\ At(r, "idle")
  /\ \E c \in comments : c.user = u /\ Take(r, "editComment", "selectComment", u, c)
  /\ UNCHANGED <<posts, likes, comments, views, history>>

(* save of the edited comment: an update of its text, or an insert of the copy
   when the comment is gone. *)
SelectComment(r) ==
  /\ At(r, "selectComment")
  /\ IF req[r].row \in comments THEN Answer(r, "done") ELSE GoTo(r, "reinsertComment")
  /\ UNCHANGED <<posts, likes, comments, views, history>>

ReinsertComment(r) ==
  /\ At(r, "reinsertComment")
  /\ IF References(req[r].row) /\ req[r].row \notin comments
     THEN /\ comments' = comments \cup {req[r].row}
          /\ revived' = revived \cup {r}
          /\ Answer(r, "done")
     ELSE Answer(r, "failed") /\ UNCHANGED <<comments, revived>>
  /\ UNCHANGED <<posts, likes, views, born, resaved, vanished, rivals, shelved>>

(* delete: a comment of another user, or none, is refused. *)
DeleteComment(r, u) ==
  /\ At(r, "idle")
  /\ \E c \in comments : c.user = u /\ Take(r, "deleteComment", "deleteReplies", u, c)
  /\ UNCHANGED <<posts, likes, comments, views, history>>

(* Mutant: each reply deleted is also taken off the counter of the post. *)
DeleteRepliesTwiceCounted(r) ==
  /\ At(r, "deleteReplies")
  /\ LET replies == {c \in comments : c.parent = req[r].row.id}
     IN  /\ comments' = comments \ Cascade(replies)
         /\ posts' = {IF x.id = req[r].post
                      THEN [x EXCEPT !.counts["comments"] = @ - Cardinality(replies)]
                      ELSE x : x \in posts}
  /\ GoTo(r, "removeComment")
  /\ UNCHANGED <<likes, views, history>>

DeleteReplies(r) ==
  /\ At(r, "deleteReplies")
  /\ comments' = comments \ Cascade({c \in comments : c.parent = req[r].row.id})
  /\ GoTo(r, "removeComment")
  /\ UNCHANGED <<posts, likes, views, history>>

(* commentRepo.remove, silent like likeRepo.remove; one is owed, whatever the
   replies were. *)
RemoveComment(r) ==
  /\ At(r, "removeComment")
  /\ comments' = comments \ Cascade({c \in comments : c.id = req[r].row.id})
  /\ vanished' = IF req[r].row \in comments THEN vanished ELSE vanished \cup {r}
  /\ Owe(r, "comments", -1)
  /\ UNCHANGED <<posts, likes, views, born, resaved, revived, rivals, shelved>>

-----------------------------------------------------------------------------
(* PostsService.update, archive and delete, ReelsService.delete *)

Saves == {"archive", "unarchive", "edit"}

Edited(x, op) == [x EXCEPT !.archived = CASE op = "archive"   -> TRUE
                                          [] op = "unarchive" -> FALSE
                                          [] op = "edit"      -> @]

(* The saves of post p under way. *)
Saving(p) == {s \in Request : req[s].op \in Saves /\ req[s].post = p
                              /\ req[s].pc \in Running}

StartSave(r, u, op, x, copy) ==
  /\ req' = [req EXCEPT ![r].op = op, ![r].pc = "selectPost", ![r].user = u,
                        ![r].post = x.id, ![r].copy = copy]
  /\ shelved' = IF op = "unarchive" THEN shelved \ {x.id} ELSE shelved
  /\ rivals' = IF Saving(x.id) = {} THEN rivals ELSE rivals \cup {r} \cup Saving(x.id)

(* Mutant: an edit resets archived to the default of the column. *)
SavePostWithDefaults(r, u, op) ==
  /\ At(r, "idle")
  /\ \E x \in posts : x.author = u
                      /\ StartSave(r, u, op, x, [x EXCEPT !.archived = op = "archive"])
  /\ UNCHANGED <<posts, likes, comments, views, born, resaved, vanished, revived>>

(* A post of another user, or none, is refused. *)
SavePost(r, u, op) ==
  /\ At(r, "idle")
  /\ \E x \in posts : x.author = u /\ StartSave(r, u, op, x, Edited(x, op))
  /\ UNCHANGED <<posts, likes, comments, views, born, resaved, vanished, revived>>

Differ(x, y) ==
  {k \in Counter : x.counts[k] # y.counts[k]} \cup
  {k \in {"archived"} : x.archived # y.archived}

(* What a finished archive(true) without a rival settles. *)
Shelve(r) ==
  shelved' = IF req[r].op = "archive" /\ r \notin rivals
             THEN shelved \cup {req[r].post} ELSE shelved

(* The first half of save: the row as it is now against the copy. *)
SelectPost(r) ==
  /\ At(r, "selectPost")
  /\ LET rows == {x \in posts : x.id = req[r].post}
     IN  \/ rows = {} /\ GoTo(r, "reinsertPost") /\ UNCHANGED shelved
         \/ \E x \in rows :
              IF Differ(x, req[r].copy) = {} THEN Answer(r, "done") /\ Shelve(r)
              ELSE /\ req' = [req EXCEPT ![r].pc = "updatePost",
                                         ![r].columns = Differ(x, req[r].copy)]
                   /\ UNCHANGED shelved
  /\ UNCHANGED <<posts, likes, comments, views, born, resaved, vanished, revived, rivals>>

(* The second half: those columns of the row, if it is still there. *)
UpdatePost(r) ==
  /\ At(r, "updatePost")
  /\ LET q == req[r]
         written(x) ==
           [x EXCEPT !.archived = IF "archived" \in q.columns THEN q.copy.archived ELSE @,
                     !.counts = [k \in Counter |->
                        IF k \in q.columns THEN q.copy.counts[k] ELSE x.counts[k]]]
     IN  /\ posts' = {IF x.id = q.post THEN written(x) ELSE x : x \in posts}
         /\ resaved' = IF q.columns \cap Counter = {} THEN resaved
                       ELSE resaved \cup {q.post}
  /\ Answer(r, "done")
  /\ Shelve(r)
  /\ UNCHANGED <<likes, comments, views, born, vanished, revived, rivals>>

(* Or an insert of the copy, which throws when the post is back already. *)
ReinsertPost(r) ==
  /\ At(r, "reinsertPost")
  /\ IF Exists(req[r].post)
     THEN Answer(r, "failed") /\ UNCHANGED <<posts, resaved, shelved>>
     ELSE /\ posts' = posts \cup {req[r].copy}
          /\ resaved' = resaved \cup {req[r].post}
          /\ Answer(r, "done")
          /\ Shelve(r)
  /\ UNCHANGED <<likes, comments, views, born, vanished, revived, rivals>>

(* Mutant: the author check is missing. *)
DeleteAnyPost(r, u, p) ==
  /\ Exists(p)
  /\ Begin(r, "delete", "removePost", u, p)
  /\ UNCHANGED <<posts, likes, comments, views, history>>

DeletePost(r, u, p) ==
  /\ \E x \in posts : x.id = p /\ x.author = u
  /\ Begin(r, "delete", "removePost", u, p)
  /\ UNCHANGED <<posts, likes, comments, views, history>>

(* The delete cascades to everything that hangs on the post. *)
RemovePost(r) ==
  /\ At(r, "removePost")
  /\ posts' = {x \in posts : x.id # req[r].post}
  /\ likes' = {l \in likes : l.post # req[r].post}
  /\ comments' = comments \ Cascade({c \in comments : c.post = req[r].post})
  /\ views' = {v \in views : v[2] # req[r].post}
  /\ Answer(r, "done")
  /\ UNCHANGED history

-----------------------------------------------------------------------------
(* ReelsService.view and share *)

View(r, u, p) ==
  /\ Watchable(p)
  /\ Begin(r, "view", "findView", u, p)
  /\ UNCHANGED <<posts, likes, comments, views, history>>

FindView(r) ==
  /\ At(r, "findView")
  /\ IF <<req[r].user, req[r].post>> \in views THEN Answer(r, "done") ELSE GoTo(r, "insertView")
  /\ UNCHANGED <<posts, likes, comments, views, history>>

(* Mutant: a second view is ignored by the insert, and counted. *)
InsertViewOrIgnore(r) ==
  /\ At(r, "insertView")
  /\ IF Exists(req[r].post)
     THEN views' = views \cup {<<req[r].user, req[r].post>>} /\ Owe(r, "views", 1)
     ELSE Answer(r, "failed") /\ UNCHANGED views
  /\ UNCHANGED <<posts, likes, comments, history>>

(* The insert throws on a second view of the user and without its reel. *)
InsertView(r) ==
  /\ At(r, "insertView")
  /\ IF Exists(req[r].post) /\ <<req[r].user, req[r].post>> \notin views
     THEN views' = views \cup {<<req[r].user, req[r].post>>} /\ Owe(r, "views", 1)
     ELSE Answer(r, "failed") /\ UNCHANGED views
  /\ UNCHANGED <<posts, likes, comments, history>>

Share(r, p) ==
  /\ At(r, "idle")
  /\ Watchable(p)
  /\ req' = [req EXCEPT ![r].op = "share", ![r].post = p, ![r].pc = "count",
                        ![r].counter = "shares", ![r].owed = 1]
  /\ UNCHANGED <<posts, likes, comments, views, history>>

(* The awaited statement rejects, or the process dies: what was written stays
   and what was owed is never paid. *)
Fail(r) ==
  /\ r \in MayFail
  /\ req[r].pc \in Running
  /\ Answer(r, "failed")
  /\ UNCHANGED <<posts, likes, comments, views, history>>

-----------------------------------------------------------------------------
Init ==
  /\ posts = {} /\ likes = {} /\ comments = {} /\ views = {}
  /\ req = [r \in Request |-> IdleReq]
  /\ born = {} /\ resaved = {} /\ vanished = {} /\ revived = {} /\ rivals = {} /\ shelved = {}

Call(r) ==
  \/ \E p \in Post : Share(r, p)
  \/ \E u \in User :
       \/ EditComment(r, u) \/ DeleteComment(r, u)
       \/ \E op \in Saves : SavePost(r, u, op)
       \/ \E p \in Post : \/ Toggle(r, u, p) \/ DeletePost(r, u, p) \/ View(r, u, p)
                          \/ \E parent \in Request \cup {None} : Create(r, u, p, parent)

Step(r) ==
  \/ CheckBlock(r) \/ FindLike(r) \/ RemoveLike(r) \/ InsertLike(r)
  \/ InsertComment(r) \/ SelectComment(r) \/ ReinsertComment(r)
  \/ DeleteReplies(r) \/ RemoveComment(r)
  \/ SelectPost(r) \/ UpdatePost(r) \/ ReinsertPost(r) \/ RemovePost(r)
  \/ FindView(r) \/ InsertView(r) \/ CountRow(r) \/ Notify(r)

Next ==
  \/ \E r \in Request : Call(r) \/ Step(r) \/ Fail(r)
  \/ \E u \in User, p \in Post : Publish(u, p)

Spec == Init /\ [][Next]_vars

-----------------------------------------------------------------------------
(* Properties *)

TypeOK ==
  /\ posts \subseteq PostRow
  /\ likes \subseteq Like
  /\ comments \subseteq Comment
  /\ views \subseteq User \X Reel
  /\ req \in [Request -> Req]
  /\ born \cup resaved \cup shelved \subseteq Post
  /\ vanished \cup revived \cup rivals \subseteq Request

(* What calls have still to add to a counter of p, or failed to. *)
Owed(p, k) ==
  LET owing(n) == {r \in Request : /\ req[r].post = p /\ req[r].counter = k
                                   /\ req[r].owed = n}
  IN  Cardinality(owing(1)) - Cardinality(owing(-1))

Of(calls, op, p) == {r \in calls : req[r].op = op /\ req[r].post = p}

(* likesCount is the number of likes, up to what calls under way or failed owe
   and one for each call that unliked what a rival call had unliked already;
   only a save of the post can make it drift otherwise. *)
LikesAccounted ==
  \A x \in posts : x.id \notin resaved =>
    x.counts["likes"] + Owed(x.id, "likes") =
      Cardinality({l \in likes : l.post = x.id}) - Cardinality(Of(vanished, "like", x.id))

(* commentsCount hides no comment: it falls below their number by what calls
   owe, by the comments two calls have deleted and by those an edit brought
   back, and by nothing else. *)
CommentsNotUndercounted ==
  \A x \in posts : x.id \notin resaved =>
    Cardinality({c \in comments : c.post = x.id}) <=
      x.counts["comments"] + Owed(x.id, "comments")
        + Cardinality(Of(vanished, "deleteComment", x.id))
        + Cardinality(Of(revived, "editComment", x.id))

(* viewsCount is the number of distinct viewers, however often and concurrently
   they view, up to what calls owe. *)
ViewsAccounted ==
  \A x \in posts : x.id \notin resaved =>
    x.counts["views"] + Owed(x.id, "views") = Cardinality({v \in views : v[2] = x.id})

(* A post archived by a call that overlapped no other save of it stays archived
   until its author unarchives it: later edits keep the flag, and so does one
   that brings the post back after a deletion. *)
ArchivedStaysArchived == \A x \in posts : x.id \in shelved => x.archived

(* A post goes, comes back or changes its archived flag only in a call of its
   author; a like goes only by a call of its user or with the post.  A comment
   is written, and written back, only by its user; it goes only by its user,
   under the user of the comment it replies to, with that comment or with the
   post. *)
OnlyOwners ==
  [][LET by(pc, u, p) == \E r \in Request : At(r, pc) /\ req[r].user = u /\ req[r].post = p
         at(pc, u, id) == \E r \in Request : At(r, pc) /\ req[r].user = u /\ req[r].row.id = id
     IN  /\ \A x \in posts : Exists(x.id)' \/ by("removePost", x.author, x.id)
         /\ \A x \in posts' : \/ Exists(x.id) \/ x.id \notin born
                              \/ by("reinsertPost", x.author, x.id)
         /\ \A x \in posts, y \in posts' : x.id = y.id =>
              /\ x.author = y.author
              /\ x.archived # y.archived => by("updatePost", x.author, x.id)
         /\ \A l \in likes \ likes' : \/ by("removeLike", l.user, l.post)
                                      \/ ~Exists(l.post)'
         /\ \A c \in comments' \ comments :
              at("insertComment", c.user, c.id) \/ at("reinsertComment", c.user, c.id)
         /\ \A c \in comments \ comments' :
              \/ at("removeComment", c.user, c.id)
              \/ \E r \in Request : /\ At(r, "deleteReplies") /\ req[r].row.id = c.parent
                                    /\ req[r].user = req[r].row.user
              \/ c.parent # None /\ \A d \in comments' : d.id # c.parent
              \/ ~Exists(c.post)']_vars

Answered == \A r \in Request : req[r].pc \notin Running

(* "like counts auto-maintained": once all calls are answered, likesCount is
   the number of likes. *)
LikesCounted ==
  Answered => \A x \in posts : x.counts["likes"] = Cardinality({l \in likes : l.post = x.id})
=============================================================================
