------------------------------ MODULE Stories ------------------------------
(***************************************************************************)
(* Stories with their views and reactions, the queries that hand them out, *)
(* and their expiry: StoriesService.                                       *)
(*                                                                         *)
(* A call in flight is a request r whose pc names the statement it awaits. *)
(* now is the clock of the server and the database in days: a story        *)
(* expires a day after it was published and may be cleaned up a day after  *)
(* that.  The days of a call's statements may differ.  Each query has its  *)
(* own comparison with the clock and its own filter.                       *)
(*                                                                         *)
(* A definition marked Mutant is not part of the specification.            *)
(***************************************************************************)
EXTENDS Integers

CONSTANTS
  User,     \* registered users
  Author,   \* those who publish; the others' lists are not read (bound)
  Story,    \* ids of the stories published, at most (bound)
  Emoji,    \* emojis users react with
  Request,  \* calls of several statements; each is made once (bound)
  MayFail,  \* requests whose statement may reject, or die with the process
  Follows,  \* the follows, <<follower, following>>; SocialGraph changes them
  Accepted, \* those that are accepted
  Muted,    \* <<muter, muted>> with muteStories; SocialGraph changes them
  Day,      \* STORY_TTL_MS and CLEANUP_GRACE_MS
  MaxTime,  \* the clock stops there (bound)
  None      \* no user, no story, no emoji, no copy

ASSUME DayAssumption     == Day \in Nat \ {0} /\ MaxTime \in Nat
ASSUME AuthorAssumption  == Author \subseteq User
ASSUME FollowsAssumption == /\ Follows \subseteq User \X User
                            /\ Accepted \subseteq Follows
                            /\ Muted \subseteq User \X User
ASSUME MayFailAssumption == MayFail \subseteq Request
ASSUME NoneAssumption    == /\ None \notin User \cup Story \cup Emoji \cup Request
                            /\ {"none", "unknown"} \cap Emoji = {}

VARIABLES
  stories,    \* table stories
  views,      \* table story_views, as the pairs <<userId, storyId>>
  reactions,  \* table story_reactions
  close,      \* the follows with isCloseFriend, a subset of Follows
  drafts,     \* the rows whose save is under way
  now,        \* the time
  req,        \* the requests
  published,  \* history: the stories published so far
  removed,    \* history: those whose author has deleted them
  admitted,   \* history: <<u, s>>, u was on the list of the author of s after its publication
  answer      \* history: what the last change of a reaction without a rival left

tables  == <<stories, views, reactions, close>>
history == <<published, removed, admitted, answer>>
vars    == <<tables, drafts, now, req, history>>

StoryRow == [id : Story, author : User, visibility : {"public", "close_friends"},
             expiresAt : Day .. MaxTime + Day]
Reaction == [id : Request, user : User, story : Story, emoji : Emoji]

Running == {"checkFriend", "findView", "insertView", "findReaction", "insertReaction",
            "selectReaction", "updateReaction", "reinsertReaction", "removeStory",
            "findFollowing", "findFeed", "findActive", "checkAuthor", "checkStory", "show"}

(* author is that of the story in memory or of those asked for, copy the reaction
   to save; asof is the time a query compares with, found the stories left to
   check and kept those to hand out.  begun and rival are history: the stories
   asked for that were there when the call was made, and whether another change
   of the reaction, or of the place of the reader on a list, has overlapped it. *)
Req == [op : {"none", "view", "react", "delete", "feed", "active", "open"},
        pc : Running \cup {"idle", "over"},
        user : User \cup {None}, story : Story \cup {None}, author : User \cup {None},
        emoji : Emoji \cup {None}, copy : Reaction \cup {None}, asof : 0 .. MaxTime,
        found : SUBSET StoryRow, kept : SUBSET StoryRow,
        begun : SUBSET StoryRow, rival : BOOLEAN]

IdleReq == [op |-> "none", pc |-> "idle", user |-> None, story |-> None,
            author |-> None, emoji |-> None, copy |-> None, asof |-> 0,
            found |-> {}, kept |-> {}, begun |-> {}, rival |-> FALSE]

-----------------------------------------------------------------------------
At(r, pc) == req[r].pc = pc

(* A call that is done, or failed, forgets what it had in memory. *)
Over == [IdleReq EXCEPT !.pc = "over"]

GoTo(r, pc) ==
  req' = [req EXCEPT ![r] = IF pc \in Running THEN [@ EXCEPT !.pc = pc] ELSE Over]

(* The author in the copy of the story in memory. *)
AuthorOf(s) == IF \E x \in stories : x.id = s
               THEN (CHOOSE x \in stories : x.id = s).author ELSE None

Loaded(op, pc, u, s, e, rival) ==
  IF pc \in Running
  THEN [IdleReq EXCEPT !.op = op, !.pc = pc, !.user = u, !.story = s,
                       !.author = AuthorOf(s), !.emoji = e, !.rival = rival]
  ELSE Over

Begin(r, op, pc, u, s, e) ==
  /\ At(r, "idle")
  /\ req' = [req EXCEPT ![r] = Loaded(op, pc, u, s, e, FALSE)]

Exists(s) == \E x \in stories : x.id = s

ReactionsOf(u, s) == {x \in reactions : x.user = u /\ x.story = s}

(* Mutant: whom the owner follows is on the list. *)
OnListWhenFollowed(owner, viewer) == owner = viewer \/ <<owner, viewer>> \in Follows

(* follows.isOnCloseFriendsList; owners are on their own list. *)
OnCloseFriendsList(owner, viewer) == owner = viewer \/ <<owner, viewer>> \in close

-----------------------------------------------------------------------------
(* The author's calls, and the clean-up *)

(* create reads the clock and saves; whatever it answers, the row is stored with
   the time of the call. *)
Publish(u, s, visibility) ==
  /\ s \notin published /\ \A d \in drafts : d.id # s
  /\ drafts' = drafts \cup {[id |-> s, author |-> u, visibility |-> visibility,
                             expiresAt |-> now + Day]}
  /\ UNCHANGED <<tables, now, req, history>>

InsertStory(d) ==
  /\ drafts' = drafts \ {d}
  /\ stories' = stories \cup {d}
  /\ published' = published \cup {d.id}
  /\ admitted' = admitted \cup {<<v, d.id>> : v \in {v \in User : <<d.author, v>> \in close}}
  /\ UNCHANGED <<views, reactions, close, now, req, removed, answer>>

(* The insert rejects, or the process dies. *)
LoseStory(d) ==
  /\ drafts' = drafts \ {d}
  /\ UNCHANGED <<tables, now, req, history>>

Delete(r, u, s) ==
  /\ Begin(r, "delete",
           IF \E x \in stories : x.id = s /\ x.author = u THEN "removeStory" ELSE "failed",
           u, s, None)
  /\ UNCHANGED <<tables, drafts, now, history>>

(* The deletes of stories cascade to their views and reactions; the history
   forgets them too. *)
DeleteStories(gone) ==
  /\ stories' = {x \in stories : x.id \notin gone}
  /\ views' = {v \in views : v[2] \notin gone}
  /\ reactions' = {x \in reactions : x.story \notin gone}
  /\ admitted' = {v \in admitted : v[2] \notin gone}
  /\ answer' = [x \in User \X Story |-> IF x[2] \in gone THEN "none" ELSE answer[x]]
  /\ UNCHANGED <<close, drafts, now, published>>

RemoveStory(r) ==
  /\ At(r, "removeStory")
  /\ DeleteStories({req[r].story})
  /\ removed' = removed \cup {req[r].story}
  /\ GoTo(r, "done")

Reclaimable(x) == x.expiresAt < now - Day  \* LessThan(cutoff)

(* The hourly cron job *)
CleanupExpiredStories ==
  /\ DeleteStories({x.id : x \in {x \in stories : Reclaimable(x)}})
  /\ UNCHANGED <<req, removed>>

Reads == {"feed", "active", "open"}

(* toggleCloseFriend and what else changes the list of u; see SocialGraph.  The
   follow need not be accepted. *)
SetCloseFriend(u, v, on) ==
  /\ <<u, v>> \in Follows
  /\ close' = IF on THEN close \cup {<<u, v>>} ELSE close \ {<<u, v>>}
  /\ admitted' = IF on THEN admitted \cup {<<v, x.id>> : x \in {x \in stories : x.author = u}}
                 ELSE admitted
  /\ req' = [r \in Request |-> IF req[r].op \in Reads /\ req[r].user = v
                               THEN [req[r] EXCEPT !.rival = TRUE] ELSE req[r]]
  /\ UNCHANGED <<stories, views, reactions, drafts, now, published, removed, answer>>

(* Time that passes before the first story and after the last changes nothing. *)
Tick ==
  /\ now < MaxTime /\ stories \cup drafts # {}
  /\ now' = now + 1
  /\ UNCHANGED <<tables, drafts, req, history>>

-----------------------------------------------------------------------------
(* The queries: getFeed, getActiveByUser and getById *)

Authors(u) == {u} \cup {v \in User : <<u, v>> \in Accepted}

(* getFeed waits for the follows first and reads the clock then. *)
GetFeed(r, u) ==
  /\ At(r, "idle")
  /\ req' = [req EXCEPT ![r] = [IdleReq EXCEPT
       !.op = "feed", !.pc = "findFollowing", !.user = u,
       !.begun = {x \in stories : x.author \in Authors(u)}]]
  /\ UNCHANGED <<tables, drafts, now, history>>

FindFollowing(r) ==
  /\ At(r, "findFollowing")
  /\ req' = [req EXCEPT ![r].pc = "findFeed", ![r].asof = now]
  /\ UNCHANGED <<tables, drafts, now, history>>

(* What needs no check is kept, and next is the pc while there is more to check. *)
Sort(r, all, kept, next) ==
  req' = [req EXCEPT ![r].asof = 0, ![r].found = all \ kept, ![r].kept = @ \cup kept,
                     ![r].pc = IF all \subseteq kept THEN "show" ELSE next]

FindFeed(r) ==
  /\ At(r, "findFeed")
  /\ LET all == {x \in stories : x.author \in Authors(req[r].user) /\ x.expiresAt > req[r].asof}
     IN  Sort(r, all, {x \in all : x.visibility = "public" \/ x.author = req[r].user},
              "checkAuthor")
  /\ UNCHANGED <<tables, drafts, now, history>>

(* One isOnCloseFriendsList for an author; cfCache answers for the author's other
   stories. *)
CheckAuthor(r) ==
  /\ At(r, "checkAuthor")
  /\ \E x \in req[r].found :
       LET theirs  == {y \in req[r].found : y.author = x.author}
           allowed == OnCloseFriendsList(x.author, req[r].user)
       IN  req' = [req EXCEPT ![r].found = @ \ theirs,
                     ![r].kept = IF allowed THEN @ \cup theirs ELSE @,
                     ![r].pc = IF req[r].found \subseteq theirs THEN "show" ELSE @]
  /\ UNCHANGED <<tables, drafts, now, history>>

GetActiveByUser(r, u, author) ==
  /\ At(r, "idle")
  /\ req' = [req EXCEPT ![r] = [IdleReq EXCEPT
       !.op = "active", !.pc = "findActive", !.user = u, !.author = author, !.asof = now,
       !.begun = {x \in stories : x.author = author}]]
  /\ UNCHANGED <<tables, drafts, now, history>>

FindActive(r) ==
  /\ At(r, "findActive")
  /\ LET all == {x \in stories : x.author = req[r].author /\ x.expiresAt > req[r].asof}
     IN  Sort(r, all, {x \in all : x.visibility = "public" \/ x.author = req[r].user},
              "checkStory")
  /\ UNCHANGED <<tables, drafts, now, history>>

(* One isOnCloseFriendsList for each story *)
CheckStory(r) ==
  /\ At(r, "checkStory")
  /\ \E x \in req[r].found :
       req' = [req EXCEPT ![r].found = @ \ {x},
                 ![r].kept = IF OnCloseFriendsList(x.author, req[r].user) THEN @ \cup {x} ELSE @,
                 ![r].pc = IF req[r].found = {x} THEN "show" ELSE @]
  /\ UNCHANGED <<tables, drafts, now, history>>

(* findVisibleOrThrow after its query for the story: the next pc, where ok is what
   follows it. *)
AfterStory(u, s, ok) ==
  IF ~\E x \in stories : x.id = s /\ ~(x.expiresAt < now) THEN "failed"
  ELSE IF \E x \in stories : x.id = s /\ x.author # u /\ x.visibility = "close_friends"
       THEN "checkFriend"
  ELSE ok

(* A story that is not found hands nothing out. *)
GetById(r, u, s) ==
  /\ At(r, "idle")
  /\ LET rows == {x \in stories : x.id = s}
         pc   == AfterStory(u, s, "show")
     IN  req' = [req EXCEPT ![r] = [IdleReq EXCEPT
           !.op = "open", !.pc = IF pc = "failed" THEN "show" ELSE pc, !.user = u,
           !.author = AuthorOf(s), !.begun = rows,
           !.found = IF pc = "checkFriend" THEN rows ELSE {},
           !.kept = IF pc = "show" THEN rows ELSE {}]]
  /\ UNCHANGED <<tables, drafts, now, history>>

(* The answer goes to the reader. *)
Show(r) ==
  /\ At(r, "show")
  /\ GoTo(r, "done")
  /\ UNCHANGED <<tables, drafts, now, history>>

-----------------------------------------------------------------------------
(* view and react: first findVisibleOrThrow, in one or two queries *)

View(r, u, s) ==
  /\ Begin(r, "view", AfterStory(u, s, "findView"), u, s, None)
  /\ UNCHANGED <<tables, drafts, now, history>>

Reacting(u, s) == {r \in Request : req[r].op = "react" /\ req[r].user = u /\ req[r].story = s}

(* The requests after those that react to s for u have met a rival. *)
Rivals(u, s) == [r \in Request |-> IF r \in Reacting(u, s) THEN [req[r] EXCEPT !.rival = TRUE]
                                   ELSE req[r]]

React(r, u, s, e) ==
  /\ At(r, "idle")
  /\ req' = [Rivals(u, s) EXCEPT ![r] =
               Loaded("react", AfterStory(u, s, "findView"), u, s, e, Reacting(u, s) # {})]
  /\ answer' = [answer EXCEPT ![<<u, s>>] = IF AfterStory(u, s, "findView") \in Running THEN "unknown" ELSE @]
  /\ UNCHANGED <<tables, drafts, now, published, removed, admitted>>

(* The check of findVisibleOrThrow has answered: getById returns, the others go on. *)
Checked(r, allowed) ==
  IF req[r].op = "open"
  THEN req' = [req EXCEPT ![r].pc = "show", ![r].found = {},
                          ![r].kept = IF allowed THEN req[r].found ELSE {}]
  ELSE GoTo(r, IF allowed THEN "findView" ELSE "failed")

(* Mutant: the arguments are swapped. *)
CheckFriendOfViewer(r) ==
  /\ At(r, "checkFriend")
  /\ Checked(r, OnCloseFriendsList(req[r].user, req[r].author))
  /\ UNCHANGED <<tables, drafts, now, history>>

CheckFriend(r) ==
  /\ At(r, "checkFriend")
  /\ Checked(r, OnCloseFriendsList(req[r].author, req[r].user))
  /\ UNCHANGED <<tables, drafts, now, history>>

(* view has only to read the story again. *)
AfterView(r) == IF req[r].op = "view" THEN "done" ELSE "findReaction"

FindView(r) ==
  /\ At(r, "findView")
  /\ GoTo(r, IF <<req[r].user, req[r].story>> \in views THEN AfterView(r) ELSE "insertView")
  /\ UNCHANGED <<tables, drafts, now, history>>

(* Mutant: the ids are swapped. *)
InsertViewSwapped(r) ==
  /\ At(r, "insertView")
  /\ views' = IF Exists(req[r].story) THEN views \cup {<<req[r].story, req[r].user>>} ELSE views
  /\ GoTo(r, AfterView(r))
  /\ UNCHANGED <<stories, reactions, close, drafts, now, history>>

(* Whatever the insert throws is ignored: a second view of the user, a story that
   is gone, a database that does not answer. *)
InsertView(r) ==
  /\ At(r, "insertView")
  /\ views' = IF Exists(req[r].story) THEN views \cup {<<req[r].user, req[r].story>>} ELSE views
  /\ GoTo(r, AfterView(r))
  /\ UNCHANGED <<stories, reactions, close, drafts, now, history>>

InsertViewIgnored(r) ==
  /\ r \in MayFail
  /\ At(r, "insertView")
  /\ GoTo(r, AfterView(r))
  /\ UNCHANGED <<tables, drafts, now, history>>

(* The reaction of r is in place: what is left is to read the story again. *)
Answered(r) ==
  IF req[r].rival \/ ~Exists(req[r].story) THEN answer
  ELSE [answer EXCEPT ![<<req[r].user, req[r].story>>] = req[r].emoji]

(* Mutant: the first reaction stays. *)
FindReactionAndKeep(r) ==
  /\ At(r, "findReaction")
  /\ GoTo(r, IF ReactionsOf(req[r].user, req[r].story) = {} THEN "insertReaction" ELSE "done")
  /\ answer' = IF At(r, "findReaction") /\ ReactionsOf(req[r].user, req[r].story) # {}
               THEN Answered(r) ELSE answer
  /\ UNCHANGED <<tables, drafts, now, published, removed, admitted>>

FindReaction(r) ==
  /\ At(r, "findReaction")
  /\ LET mine == ReactionsOf(req[r].user, req[r].story)
     IN  \/ mine = {} /\ GoTo(r, "insertReaction")
         \/ \E x \in mine : req' = [req EXCEPT ![r].pc = "selectReaction",
                                             ![r].copy = [x EXCEPT !.emoji = req[r].emoji]]
  /\ UNCHANGED <<tables, drafts, now, history>>

(* Stores row, unless the user has a reaction to the story (unique) or the story
   is gone (foreign key): then the insert throws. *)
StoreReaction(r, row) ==
  /\ IF Exists(row.story) /\ ReactionsOf(row.user, row.story) = {}
     THEN reactions' = reactions \cup {row} /\ answer' = Answered(r)
     ELSE UNCHANGED <<reactions, answer>>
  /\ GoTo(r, "done")
  /\ UNCHANGED <<stories, views, close, drafts, now, published, removed, admitted>>

InsertReaction(r) ==
  /\ At(r, "insertReaction")
  /\ StoreReaction(r, [id |-> r, user |-> req[r].user, story |-> req[r].story,
                       emoji |-> req[r].emoji])

(* reactionRepo.save reads the row again, then updates it, or inserts the copy
   when the row is gone. *)
SelectReaction(r) ==
  /\ At(r, "selectReaction")
  /\ LET rows == {x \in reactions : x.id = req[r].copy.id}
     IN  IF req[r].copy \in rows THEN GoTo(r, "done") /\ answer' = Answered(r)
         ELSE /\ GoTo(r, IF rows = {} THEN "reinsertReaction" ELSE "updateReaction")
              /\ UNCHANGED answer
  /\ UNCHANGED <<tables, drafts, now, published, removed, admitted>>

UpdateReaction(r) ==
  /\ At(r, "updateReaction")
  /\ reactions' = {IF x.id = req[r].copy.id THEN req[r].copy ELSE x : x \in reactions}
  /\ GoTo(r, "done")
  /\ answer' = Answered(r)
  /\ UNCHANGED <<stories, views, close, drafts, now, published, removed, admitted>>

ReinsertReaction(r) ==
  /\ At(r, "reinsertReaction")
  /\ StoreReaction(r, req[r].copy)

(* One DELETE, whether or not the story is still visible; of a story that is gone
   there is nothing to delete. *)
RemoveReaction(u, s) ==
  /\ Exists(s)
  /\ reactions' = reactions \ ReactionsOf(u, s)
  /\ req' = Rivals(u, s)
  /\ answer' = [answer EXCEPT ![<<u, s>>] = IF Reacting(u, s) = {} THEN "none" ELSE "unknown"]
  /\ UNCHANGED <<stories, views, close, drafts, now, published, removed, admitted>>

(* The awaited statement rejects, or the process dies. *)
Fail(r) ==
  /\ r \in MayFail
  /\ req[r].pc \in Running
  /\ GoTo(r, "failed")
  /\ UNCHANGED <<tables, drafts, now, history>>

-----------------------------------------------------------------------------
Init ==
  /\ stories = {} /\ views = {} /\ reactions = {} /\ close = {} /\ drafts = {}
  /\ now = 0
  /\ req = [r \in Request |-> IdleReq]
  /\ published = {} /\ removed = {} /\ admitted = {}
  /\ answer = [x \in User \X Story |-> "none"]

Call(r) ==
  \E u \in User :
    \/ GetFeed(r, u)
    \/ \E author \in User : GetActiveByUser(r, u, author)
    \/ \E s \in Story : \/ View(r, u, s) \/ Delete(r, u, s) \/ GetById(r, u, s)
                       \/ \E e \in Emoji : React(r, u, s, e)

Step(r) ==
  \/ CheckFriend(r) \/ FindView(r) \/ InsertView(r) \/ InsertViewIgnored(r)
  \/ FindReaction(r) \/ InsertReaction(r) \/ SelectReaction(r) \/ UpdateReaction(r)
  \/ ReinsertReaction(r) \/ RemoveStory(r)
  \/ FindFollowing(r) \/ FindFeed(r) \/ CheckAuthor(r) \/ FindActive(r) \/ CheckStory(r)
  \/ Show(r)

(* What takes one statement, or none, and the statement of a publication. *)
Instant ==
  \/ \E u \in Author :
       \/ \E s \in Story, visibility \in {"public", "close_friends"} : Publish(u, s, visibility)
       \/ \E v \in User, on \in BOOLEAN : SetCloseFriend(u, v, on)
  \/ \E d \in drafts : InsertStory(d) \/ LoseStory(d)
  \/ \E u \in User, s \in Story : RemoveReaction(u, s)
  \/ CleanupExpiredStories
  \/ Tick

Next == Instant \/ \E r \in Request : Call(r) \/ Step(r) \/ Fail(r)

Spec == Init /\ [][Next]_vars

-----------------------------------------------------------------------------
(* Properties *)

TypeOK ==
  /\ stories \cup drafts \subseteq StoryRow
  /\ views \cup admitted \subseteq User \X Story
  /\ reactions \subseteq Reaction
  /\ close \subseteq Follows
  /\ now \in 0 .. MaxTime
  /\ req \in [Request -> Req]
  /\ published \cup removed \subseteq Story
  /\ answer \in [User \X Story -> Emoji \cup {"none", "unknown"}]

(* A story that was there when a reader asked, whose day is not over when the reader
   is answered and which its author has not deleted is in the answer, if it is
   public, the reader's own, or the reader has been on the list all the while:
   the clean-up has not taken it, and no filter and no clock of the call has left
   it out.  A feed need not hold the stories of those its reader has muted. *)
NothingUpIsMissing ==
  \A r \in Request : At(r, "show") =>
    \A x \in req[r].begun :
      /\ now < x.expiresAt /\ x.id \notin removed
      /\ req[r].op = "feed" => <<req[r].user, x.author>> \notin Muted
      /\ \/ x.visibility = "public" \/ x.author = req[r].user
         \/ <<x.author, req[r].user>> \in close /\ ~req[r].rival
      => x \in req[r].kept

HasSeen(u, x) ==
  \/ <<u, x.id>> \in views
  \/ ReactionsOf(u, x.id) # {}
  \/ \E r \in Request : req[r].user = u /\ x \in req[r].kept

(* Of a close-friends story that is up, only the author, and who has been on the
   author's list since its publication, is in the views and the reactions or is
   handed the story by a query: the check is a query of its own, in each of the
   three filters, and the list may change around it. *)
OnlyTheAdmitted ==
  \A x \in stories, u \in User :
    x.visibility = "close_friends" /\ HasSeen(u, x)
      => u = x.author \/ <<u, x.id>> \in admitted

(* A user has at most one reaction to a story, and after a reaction or a removal
   that nothing overlapped the story shows that emoji, or none, until the user
   changes it again. *)
ReactionsAsAnswered ==
  \A u \in User, s \in Story :
    LET emojis == {x.emoji : x \in ReactionsOf(u, s)}
    IN  /\ \A x, y \in ReactionsOf(u, s) : x = y
        /\ answer[<<u, s>>] = "none" => emojis = {}
        /\ answer[<<u, s>>] \in Emoji /\ Exists(s) => emojis = {answer[<<u, s>>]}

(* "muteStories: hide the muted user's stories from the muter's story tray": the
   feed holds none of a user its reader has muted.  getFeed takes the authors from
   the follows alone; getMutedStoriesIds, made for it, has no caller. *)
MutedNotInFeed ==
  \A r \in Request : At(r, "show") /\ req[r].op = "feed" =>
    \A x \in req[r].kept : <<req[r].user, x.author>> \notin Muted
=============================================================================
