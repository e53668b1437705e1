# Pixora: TLA+ models and proofs

Pixora is a photo sharing server: a NestJS process that answers GraphQL calls
with TypeORM over Postgres or SQLite (`src/src/app.module.ts`), pushes realtime
events over Socket.IO and sends web-push messages. This directory holds TLA+
models of its modules, the TLC configurations that check them and the TLAPS
proofs about them. Paths below are relative to the repository's server
sources, `src/src/`, unless they begin with `src/`.

Why models: the code has no transaction, lock or retry anywhere. Every call is a
sequence of awaited statements, one process runs many calls at a time, and each
`await` lets the others in. What a lookup found may be gone when it is
used; a counter and the rows it counts are written one after the other; the
process may end in between. Those are the behaviours the modules
explore exhaustively.

## Inventory

### Components modelled

**messages** (`modules/messages/`). State: `message_threads` (an ordered pair of
users, unique, and `lastMessageAt`), `messages` (sender, thread, `isRead`).
Operations: `send`, `getThreadWithUser`, `markThreadRead`, `deleteMessage`, and
reads. Asks *blocks* before a send, emits `message_received`, `message_read` and
`message_deleted` to the rooms of the two participants. Hard: two first
contacts at once, in either direction; a deletion between the insert and the reload
of a message; messages that arrive between the two statements of a read mark; a
block that comes or goes while a send is under way. Correct when: one thread per
pair, nothing leaves the pair, the events tell the truth, blocks hold, only the
sender deletes and only the reader reads.

**follows, mutes, blocks** (`modules/follows/`, `mutes/`, `blocks/`). State: one
row per ordered pair, with flags (`isAccepted`, `isCloseFriend`, `mutePosts`,
`muteStories`), and `users.isPrivate`. Operations: follow, unfollow, remove a
follower, toggle a close friend, mute, unmute, block, unblock. Hard: find-then-insert
against a unique constraint, `save` of a row loaded earlier (an insert
when the row is gone), a copy of `isPrivate` used two awaits later. Correct when:
one row per pair, blocks and private accounts are respected at the
moment they count, what was undone stays undone.

**posts, likes, comments, reels** (`modules/posts/`, `likes/`, `comments/`, `reels/`).
State: rows, and four counter columns of `posts` that shadow them. Operations:
publish, edit, archive, delete; toggle a like; comment, edit, delete with replies;
view and share a reel. Hard: the row and its counter are two statements, `save`
of a post writes loaded counters back, `remove` is silent on a missing row but the
decrement is not, cascades. Correct when: the counters agree with the rows but
for deviations one can name, owners alone change what is theirs, an archived
post stays archived.

**presence and the realtime gateway** (`modules/realtime/`). State: a
map in memory from user to sockets and grace timer; timeouts of `handleDisconnect`
in the gateway; the Socket.IO rooms. Operations: connect, disconnect,
`onlineStatus`, the two timers, the broadcast to mutual follows. Hard: timers
against reconnections, a timeout nobody clears, a broadcast that waits for a
query, an unhandled rejection that ends the process under clients that reconnect
and keep what they believe. Correct when: the map and the timers match, and a
friend's picture ends up right.

**notifications and push** (`modules/notifications/`, `modules/push/`,
`src/frontend-snippets/push-subscribe.ts`). State: `notifications` (recipient,
actor, `isRead`), `push_subscriptions` (one row per user and endpoint).
Operations: create (awaited by likes, comments and follows), `markAsRead`,
`markAllAsRead`, delete; subscribe, unsubscribe, `sendPush`. create emits
`notification_received` and starts `sendPush` without awaiting it. Hard: a
notification dismissed before its create has reloaded it, two `save`s of copies,
deliveries nobody waits for, the pruning of a row looked up long before. Correct
when: what is stored is told, what was removed stays removed but for a named race,
every device is tried, pruning hits dead endpoints only.

**stories** (`modules/stories/`). State: `stories` with `expiresAt` and an
audience, `story_views`, `story_reactions`. Operations: create, delete, view,
react, remove a reaction, the hourly clean-up; the feed, the stories of one
author, one story. Asks *follows* for the close-friends list. Hard: comparisons
with a clock that goes on between the statements, the audience check as a query
of its own, written three times, reactions against reactions and removals, views
whose insert may throw. Correct when: what is up is handed out and only to the
audience, the reaction shown is the one answered.

**highlights** (`modules/highlights/`). State: `highlights`,
`highlight_items` (copied from stories). Operations: create, create from stories,
update, delete. Hard: the highlight and its items are written apart, `save` cascades
to the items it had loaded. Correct when: a highlight has the items of one call, and
some.

**bookmarks and collections** (`modules/bookmarks/`, `modules/collections/`). State:
`bookmarks` (unique per user and post), `collections` (names, not unique for the
database), `collection_items`. Operations: toggle; create, rename, delete, add and
remove an item. Hard: look up, then insert, with or without a constraint.
Correct when: a toggle's answer is true, a name is used once per user.

**auth** (`modules/auth/`). State: `users.refreshToken`, one hash per user.
Operations: register, login, refresh, logout. Hard: a refresh or login that
overlaps a logout. Correct when: after a logout no refresh succeeds.

### Components left out

feed, explore, suggestions and search (reads: they change nothing, keep nothing
between two queries and promise no order; what they compute is SQL, sorting and
text matching), uploads (file I/O without shared state), resolvers, DTOs, guards
and decorators (they hand the signed-in user and the client's arguments to the
services; the actions that begin a call take every user and every id), bootstrap
and configuration, the scripts, the callbacks of `realtime-client.ts` and the prototype
under `src/upload/`. `PROJECT.json` lists each with its reason.

## How the models are built

* A GraphQL call in flight is a request `r`. `req[r].pc` names the statement it
  awaits; the other fields are the handler's local variables that outlive an await.
  One action is one SQL statement and the code around it that
  touches nothing shared: JavaScript runs to the next `await` undisturbed, and a
  single statement is atomic in the database. Nothing else is atomic.
* The first lookups of a call that only decide whether it goes on are part of
  the action that starts it. Where a value read there is used later
  (`isPrivate`, a loaded post), it is kept in `req[r]` and may be stale.
* `Repository.save` of a loaded row is what TypeORM makes of it: a SELECT by id,
  then an UPDATE of the columns in which that row differs from the copy in
  memory, or an INSERT when there is no row. They are two actions.
  `remove` is a DELETE by id that is silent when nothing is there.
  `increment` and `decrement` are one UPDATE each.
* A unique or foreign key that an INSERT violates makes the call throw: `failed`.
  In `Engagement` a call refused by its first lookup (no such post, not its
  author) writes nothing and is not a step; a request forgets the variables no
  later statement of its handler reads.
* `Fail(r)` is a statement that rejects, or the process ending: the call stops
  and what it has written stays. The rows survive because the state *is* the
  database; only `Presence` keeps memory. Its `Crash` clears the server's, and
  leaves the client's.
* A table is the set of its rows and a uuid is the name of the request that
  drew it. Texts, media and times that no property reads are left out.
* History variables (`walled`, `wasPublic`, `settled`, `vanished`, `resaved`,
  ...) record what a property needs to speak of the past; no guard reads them.
* A definition marked *Mutant* is not part of a specification. It is the
  definition after it with a plausible slip (a dropped guard, a swapped order),
  and the property named in `PROJECT.json` fails with it.

## Modules

| module | models | state ↔ code |
|---|---|---|
| `Messaging` | `messages.service.ts` whole, `emitToUser` | `threads`, `messages`, `blocks`: the tables; `inbox[u]`: events emitted to room `user:<u>`; `now`: the time of the latest insert |
| `Conversation` | the abstract promise of direct messages: post once, read all, retract for good | no code: `Messaging` implements it |
| `SocialGraph` | `follows.service.ts`, `mutes.service.ts`, `blocks.service.ts`, `isPrivate` | `edges`: follows and mutes, a row's true flags as a set; `blocks`; `private` |
| `Engagement` | `posts.service.ts`, `likes.service.ts`, `comments.service.ts`, writes of `reels.service.ts` | `posts` with `counts`, `likes`, `comments`, `views`: the tables |
| `Presence` | `presence.service.ts`, connection handlers of `realtime.gateway.ts`, `emitToFriends` | `known`, `sockets`, `timer`: the map `users`; `rechecks`: the `setTimeout` of `handleDisconnect`; `queue`: `emitToFriends` waiting for the mutual follows; `listening`, `believed`: the connection and the picture of one friend |
| `Notifications` | `notifications.service.ts`, `push.service.ts`, the browser in `push-subscribe.ts` | `notifs`, `subs`: the tables; `lookups`, `pushes`: the `sendPush` calls and deliveries that run in the background; `gone`: endpoints whose browser unsubscribed |
| `Stories` | `stories.service.ts`, the close-friends column of follows | `stories`, `views`, `reactions`, `close`: the tables; `drafts`: rows computed and not yet inserted; `now`: the clock, in days |
| `Calls` | the calls in flight, for the next three | `req` |
| `Accounts` | `auth.service.ts` | `users`: the columns register and login use, `refreshToken` as set or not |
| `Highlights` | `highlights.service.ts` | `highlights`, `items`: the tables; an item carries the call that put it in |
| `Library` | `bookmarks.service.ts`, `collections.service.ts` | `bookmarks`, `collections`, `saved`: the tables; `posts`: the ids of posts |
| `Profile` | the composition of `Accounts`, `Highlights` and `Library` in one process | |
| `MessagingProofs`, `MessagingCoherence` | theorems about `Messaging`, and that it implements `Conversation` | |
| `SocialGraphProofs`, `EngagementProofs`, `PresenceProofs`, `NotificationsProofs`, `StoriesProofs`, `ProfileProofs` | theorems about the module of that name | |
| `MC...` | the instances TLC checks | |

Every definition that models code is mapped to its lines in `PROJECT.json`. The
actions of a handler appear in the module in the order of its statements, e.g.
`send`: `Send`, `CheckBlock`, `FindThread`, `InsertThread`, `InsertMessage`,
`Bump`, `Reload`, `EmitMessage`.

Some places deserve a word.

*Emissions in Messaging are actions of their own.* `emitToUser` is synchronous, but
the answer to the query before it may be delivered after another call's later
statement has run: with a pool of connections the order of answers is not the
order of execution. With SQLite, one connection, fewer interleavings remain; what
holds in the model holds there.

*`blocks` appears twice.* `SocialGraph` has `block` and `unblock` statement by
statement. `Messaging` has the one row they write, which is all that
`isBlockedEitherWay` can see.

*Engagement leaves the answer of the block check open* (either answer, but
nobody is blocked from their own post), which covers every block history.

*Endpoints in Notifications.* A browser has one endpoint at a time and gets a new
one after it unsubscribed; two users of one browser share it, which the table
allows. So `Subscribe` takes any endpoint that is not gone, and a gone one stays
gone. This is what makes `Prune` safe although it deletes by the id of a
row that may have been removed and put back by a rival `save`.

*Queries of Stories are calls.* `getFeed`, `getActiveByUser` and `getById` change
nothing, but each reads a clock, a table and the close-friends list in statements
of its own, with a filter of its own, while the clean-up, the author and the list
go on. A request carries the clock it read (`asof`), the stories it has still to
check (`found`) and those it will hand out (`kept`). `create` too computes
`expiresAt` before the statement that stores it. The list takes follows that are
not accepted, the feed only accepted ones, as in the code.

*Crash in Presence.* A rejected query in `emitToFriends` ends the process, and with
it the map and the timers. The client of the repository
(`src/frontend-snippets/realtime-client.ts:82-97`) reconnects by itself and neither
forgets nor asks anything, so `believed` stays, and whoever was online in it and
does not come back remains so: no timer is left to say otherwise. An event that is
answered while the friend is cut off is lost the same way, and with a pool of
connections one may be overtaken by a newer one. The history variable `missed`
names the users the friend is wrong about for such a reason, until the next event
or `onlineStatus` about them; the properties are about all others.

*Tokens in Accounts.* The column holds a bcrypt hash, bcrypt reads the first 72
bytes, and two refresh tokens of one user agree on those (header and the head of
the user's id, the first claim). Comparing a token with the stored hash
therefore tells whether the user has a session, not which of the user's tokens
it is, and that is what `Refresh` does. `src/worklog.md` notes the effect for two
refreshes within one second.

*Three calls of one process.* `Accounts`, `Highlights` and `Library` share nothing but
the process. `Profile` interleaves them, so that one run covers all three and
every mixture of their calls; each also has all three calls to itself in
some behaviours.

## What is checked

| run | instance | shows |
|---|---|---|
| `messaging` | 3 users, 3 calls, 1 blockable pair, any call may fail | all safety properties of `Messaging` and that it implements `Conversation` |
| `social_graph` | 2 users, 3 calls and any number of one-statement calls, any call may fail | the properties of `SocialGraph` |
| `engagement` | 2 users, 2 reels, 3 calls, any call may fail | the properties of `Engagement` |
| `presence` | 2 users, 3 sockets, grace 2, timeout 3, 2 queries answered in any order, crashes, a friend who reconnects | timers and entries match; the friend's picture converges, but for users it has missed |
| `notifications` | 2 users, 2 endpoints, 3 calls and any number of one-statement calls, any call or delivery may fail | the properties of `Notifications` |
| `stories` | 2 users, 1 story, 2 emojis, 2 calls, one of which may fail, 3 days | the properties of `Stories` |
| `profile` | 2 users, 2 media of which one is a story, 1 post, 2 titles, 2 names, 3 calls, one of which may fail | the properties of `Accounts`, `Highlights` and `Library` |
| `last_message`, `block_follow`, `likes_counted`, `muted_stories`, `presence_grace` | smallest instance each | a sentence of the documentation is not what the code does, see *Findings* |

**Messaging.** `OneThreadPerPair`: however first contacts race.
`NothingLeavesThread`: no message and no event reaches a third user, also after
failures at any statement. `AnnouncedReadIsRead`: a read receipt is never ahead of
the database. `ScreensComplete`: the events alone are enough to show both
participants every stored message of a send that returned.
`WalledSendsStoreNothing`: a send that faces a block from its start stores
nothing. (A block made *after* the check does not stop a send; the code does not
try to.) `OnlyTheRightUserChanges`, an action property: deletion by the sender,
reading by the other. `Coherent` is the inductive invariant, see *Proofs*.
`ImplementsConversation` is the refinement: `letters` are the message rows with
the recipient their caller named, `posted` the calls that have inserted.
Under it, a `markThreadRead` that flips anything reads *everything* the other
has sent by then, although its lookup was earlier; this is what the repeated
condition of the UPDATE is good for (its mutant `FlipFound` breaks it).

**SocialGraph.** `OneEdgePerPair`, `WalledFollowsLeaveNothing`,
`PrivateNeverAutoAccepts` (an accepted follow implies the account was public at
some time during the call: the stale copy can be late, never wrong throughout),
`UndoneStaysUndone` (a removal or a close-friends withdrawal without a
concurrent call of the same owner is final), `EdgesAreTheirOwners`. A withdrawal
whose follow has gone in the meantime settles nothing: the pair may have followed
again and made the list since. Three calls are too few to show that; the proof
attempt did.

**Engagement.** The counters are *not* always the number of rows; the code has
several ways to make them drift. `LikesAccounted` says exactly which: calls
under way or failed between row and counter (`Owed`), a second `remove` of one
like by an overlapping call (`vanished`), and a `save` of the post
(`resaved`). `ViewsAccounted` has no such exception beyond what is owed: the
unique constraint keeps a second view from being counted. `CommentsNotUndercounted`
is one-sided because deleting a comment with replies takes one off the counter
and several rows off the table, so that it stays too high, without any concurrency
(`comments.service.ts:112-115`). What the foreign key takes along with the replies,
`Cascade`, is the smallest set of comments closed under replies. `sharesCount` counts
no rows and has no ledger. `ArchivedStaysArchived` holds for an archive that no
other save of the post overlapped, whatever is saved afterwards, also by an edit
that brings a deleted post back; of two overlapping saves one may undo the other's
flag (`rivals`). `OnlyOwners`, an action property: posts go, come back and change
their flag only in calls of the author, likes and comments only in calls of their
user, or with the post, or with the comment they reply to.

**Presence.** `GraceTimersMatch` relates the map and its timers in both
directions. `StatusOnItsWay` is the safety half of eventual truth: the last word
under way about a user is right, or a timer that will correct it is
running. `StatusConverges` and `EntriesForgotten` are the liveness half. The
first two of these three except the users in `missed`: about these the friend stays
wrong, and no sentence of the repository denies it.

**Notifications.** `StoredIsAnnounced`: a stored notification was told, or its
create is running or failed; the reload may find nothing, and the copy goes out.
`RemovedStaysRemoved` names the only way a dismissed notification or a removed
subscription comes back: a call that had loaded it before saved its copy.
`DevicesReached`: whoever was subscribed at the announcement is tried, whatever
becomes of the other deliveries. `PrunedOnlyWhenGone`, an action property: a
delivery never takes a subscription whose endpoint works.

**Stories.** `NothingUpIsMissing`: what was up when a query was made, and still is when
it answers, is in the answer if its reader is in the audience all the while, for each
of the three filters and each comparison with the clock. (The feed need not hold the
stories of muted authors; it does, a finding.) `OnlyTheAdmitted`: views, reactions
and what a query hands out of a close-friends story are the author's or of who was
on the list while the story was up; being taken off between the check and what
follows it is the one lateness there is. `ReactionsAsAnswered`: one reaction per user
and story, and after a change that nothing overlapped it is that of the answer.

**Profile.** `LoggedOutStaysOut`: after a logout that no login, refresh or
registration of the user overlapped, the user has no session until the next login. An
overlapping refresh does bring the session back; the history variable
`loggedOut` says so. `HighlightsWhole`: a highlight nobody is writing has
items, all of one call, unless a call failed halfway or two overlapped (`disturbed`).
`OneNamePerUser`: two collections of one name need two calls about to write that name
at once (`contested`). `collection.entity.ts:22` says that two collections of a user
can't share a name; without the exception the property fails.
`BookmarksAsAnswered`: a toggle's answer stays true until the next toggle or
the deletion of the post.

### Bounds, and why they are enough

* *Requests* (3; 2 in `stories`). A call is made once. Three concurrent calls include every
  pair of racing calls and a third that observes or spoils the repair, which is
  what each named race needs: two first contacts and a message into the new
  thread; like, unlike, unlike; comment, reply, delete. Two-call races are all
  within it.
* *Users* (3 for messaging, so that there is an outsider; 2 elsewhere: every
  row concerns an ordered pair, and both orders are present).
* *Posts* (2), *Reel* = *Post*, so every operation is possible on each; the
  instances of the two violations use no reel, so a post that is none occurs.
* *MaxTime* is 1 in `messaging`, where no passing property compares times (the
  theorems hold for any clock), and 2 in `last_message`, where one does.
* *Blockable*: the block of user 1 by user 2, so that sends in both directions face
  it: as blocked and as blocker.
* *Sockets* (3 for two users): one user may have two at a time, or all three one
  after the other, which makes stale timeouts overlap later sessions.
* *Grace = 2, Recheck = 3* keep the order 30 s < 31 s and let something happen
  within, between and after both.
* *Pool = 2* in `presence`: of the two oldest queries either may be answered first,
  so that an `online` overtakes an earlier `offline`. `presence_grace` needs 1 only.
  `StatusOnItsWay` is proved for every pool.
* *Endpoints* (2): one that goes while the other lives, for one user or two.
* *Days*: `Day = 1`, `MaxTime = 3`: a story published on day 0 expires on day 1,
  is past it on day 2 and may be reclaimed on day 3, so each comparison is seen on
  both sides of its boundary and on it. One story suffices: no statement touches
  two but the queries, whose filters take each story by itself, and the clean-up,
  which deletes a set; `muted_stories` has two. Two calls are two changes of a
  reaction, or a query or view against a deletion; the clean-up, the list, the
  removal of a reaction and the clock are no calls and always possible. One user
  publishes (*Author*), the other reads; they follow each other, and the author's
  follow, which carries the list, is not accepted.
* *MayFail* is one call in `stories` and `profile` (a failure next to two calls
  that run through), every call elsewhere.
* *Medium* (2, one of them a story): items of two calls differ or agree. *Title*,
  *Name* (2): a free and a taken one. Three calls are register, login and
  refresh; create and two rival updates; two toggles and the next; two rival
  creations and a renaming.
* Symmetry: requests are interchangeable, apart from those in `MayFail`. Users are in
  SocialGraph, Engagement, Notifications and Profile, not in Messaging, where ids
  are compared, nor in Stories, where one follows the other. `Presence` has none
  because liveness is checked.

`Messaging` and `SocialGraph` check for deadlock: blocks, or one-statement
calls, are always possible. The others do not: when all calls are answered
and all posts or stories published, their world ends.

### Fairness

Only `Presence` states any. `Tick` (time passes), the two timer callbacks (Node
runs due timers) and `Answer(1)` (the database answers the oldest query) are
weakly fair, each because nothing in the process can prevent it for ever.
Connecting, disconnecting and asking are never forced, and neither is the friend's
reconnection. `Tick` waits for due
timers: delays of the event loop are short compared with seconds. The other
modules have no fairness and no liveness property: a call may fail at any statement,
and no other call waits for it.

### Findings

Each is a sentence of the repository that the code does not fulfil; the run
finds the trace.

* `last_message`: `lastMessageAt`, "timestamp of the most recent message", can
  end older than the most recent message when two sends overlap
  (`messages.service.ts:83`).
* `block_follow`: `block()` is documented to remove follows in either direction
  and does not (`blocks.service.ts:38`); `removeAllFollowsBetween` has no caller.
* `likes_counted`: an edit of a post that overlaps a like writes the old
  `likesCount` back (`posts.service.ts:71`).
* `muted_stories`: muting the stories of a user is documented to hide them from the
  story tray (`mutes/mute.entity.ts:22`); the feed asks for follows alone
  (`stories.service.ts:170`), and `getMutedStoriesIds` has no caller.
* `presence_grace`: the timeout of an earlier disconnection announces a user
  offline within the grace period of a later one (`realtime.gateway.ts:125`).

## Proofs

Every safety property and every action property that a passing run checks is a
theorem of its specification, and so is the refinement. Each proof has the same
shape: an invariant `Inv` (a type invariant and a `Coherent` that relates the
tables to the memory of every handler and to the history), `Init => Inv`,
`Inv /\ [Next]_vars => Inv'` with a lemma per part, and the properties as
consequences. TLC checked each `Coherent` on the instance of the component's run
before it was proved. The reason a property alone is never inductive is always the
same: a handler past an await acts on what it read before, so the invariant has to
say what every local variable of every call in flight is still worth.

The theorems hold for every value of the constants: any sets of users, posts,
stories, endpoints, media, names and calls, any subset of calls that fail. Their
assumptions are the named `ASSUME`s of the modules, which TLC evaluates in every
run: failing calls are calls; `None` is no user, call or other id (in `Notifications` no
row either), and no emoji is one of the words `answer` uses; ids of users
compare in `Messaging`; delays and the length of a day are numbers, `Grace` before
`Recheck`. `EngagementProofs` also assumes finitely many calls, since a
counter is compared with the number of rows.

**`MessagingProofs`.** `OneThread` is by `PairsNormalized`: rows are stored ordered,
once per ordered pair, and a handler on its way to an insert has two different
users. This is the argument by which a unique constraint on *ordered* pairs makes
*unordered* pairs unique. `BlocksRespected` is by `WallsHold`: a send that has faced a
block ever since it began is still waiting for its check, or was refused, and a
request that has not begun has no message.

**`MessagingCoherence`.** `AlwaysCoherent` adds the handlers (what a call has posted,
loaded and still has to tell), the messages (a row is what its call posted) and the
events in every inbox (each tells of a message of the thread, a read one if it says
so). `Confidential`, `ReceiptsHonest` and `EventsSuffice` only read this off, and
`OwnersChange` is the action property. `Refinement`,
`Spec => ImplementsConversation`, maps each step: the insert posts, the UPDATE of
`markThreadRead` reads all letters of the other at once, the DELETE retracts,
everything else stutters.

**`SocialGraphProofs`.** A row, and each copy of one in memory, keeps the id, owner and
acceptance of the call that first inserted it (`RowAgrees`), so that a `save` that
reinserts it brings nothing new; a follow on its way to an accepted insert has seen the
account public; a settled removal has no row and no call that would redo it. Hence
`NoDuplicateEdges`, `BlocksHold`, `PrivacyHolds`, `UndoneIsUndone`, `OwnersEdges`.

**`EngagementProofs`.** The ledger of each counter (`LikesAccounted`,
`CommentsNotUndercounted`, `ViewsAccounted`) is inductive only with what the calls
owe: who is between row and counter holds a debt of one, and nobody else does.
Each step moves at most one row, one debt and one counter of one post, and lemmas
on cardinalities carry the sums. `CountersBounded` types the counters, `OwnersAgree`
says that calls that may save or remove a post are its author's, `SaversAgree`
that a save without a rival is the only one, which is what keeps an archived post
archived. Of `Cascade` the ledgers need no more than that it holds the comments it
starts from. `OwnersOnly` needs its minimality as well (`CascadeLeast`: nothing else
goes but replies to what goes), and that an id names one comment, stored or in the
memory of a handler of its user (`KnownAgree`, inductive on top of `Inv`).

**`PresenceProofs`.** `TypeCorrect` needs that `Tick` waits for due timers.
`TimersMatch` is inductive with the types: `GraceExpired` needs one half (a timer
implies an entry without sockets), `HandleDisconnect` the other. `StatusArrives` is
for any pool: an announcement becomes the last word about its user
(`AnnouncedLast`), and an answer, to whichever query, changes the last word of nobody
whom the friend has not missed by then (`AnsweredRight`).

**`NotificationsProofs`.** `Issued`: an id of a subscription names one user and one
endpoint for good, in the table, in a copy a handler holds and in a delivery under
way. It is why pruning by id is safe (`PruningSpares`) although the row may have been
removed and put back in between. `RemovedIsRemoved` keeps, for each copy in memory,
that its row is there or its call is known to race; `StoredIsTold` and
`DevicesAreReached` follow a notification from its insert to its last delivery.

**`StoriesProofs`.** `Entitled`: past its check, a viewer is on the list or was, since
an audience only grows while the story is up; the insert statements later inherit it
(`AudienceHolds`). `Owned`: the id of a reaction stands for one user and one story in
the table and in all copies, so that updating or reinserting by id touches nobody
else's; `answer` is open while a call reacts, and a call without a rival is the only
one (`ReactionsHold`). `ReaderAgrees` follows a query through its statements: what it
holds are rows of the table, what it keeps is for its reader, and once it has read
the table all that is due is found or kept; with `Lasting` (a story goes by its
author's deletion or long after its day) that is `NothingMissingHolds`.

**`ProfileProofs`.** One clause per component and none between them, which is what it
means that they share nothing. A session is stored only for a user that no logout has
settled (`LogoutHolds`); the writer of an undisturbed highlight knows its items and its
copy is current (`HighlightsAreWhole`); the row a call is about to name is the only one
with that name unless it is contested (`NamesAreUnique`); a toggle without a rival is the
only one of its bookmark (`AnswersHold`).

Only model-checked: the two liveness properties of `Presence` (the prover does not
handle fairness and `ENABLED`), and the five violations, which are traces.

## Plan

All components that change shared state are modelled and their safety is proved. What
is left:

1. The safety lemmas behind `StatusConverges`, as theorems: each fair action makes
   progress on a measure (the queue in front of a user's last word, the time left on
   a timer). Only the step from the measure to the temporal formula stays with TLC.
2. A refinement of a second component, e.g. of the push deliveries by "each device
   at most once per notification".
3. That the exceptions the properties name are the only ones needed: for each of
   `resaved`, `vanished`, `racing` and `contested` a run without it that fails.

## Not modelled

The reads named under *Components left out*, and the typing indicator of the
gateway: it changes nothing on the server, and no order of its events is promised
(each waits for a query of its own). `lastSeenAt` of presence and the ranking of
reels are data. The one hazard without a property is in `PROJECT.json` with a note.
