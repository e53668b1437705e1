------------------------------ MODULE Library ------------------------------
(***************************************************************************)
(* What a user keeps of the posts of others: BookmarksService and          *)
(* CollectionsService.                                                     *)
(*                                                                         *)
(* The name of a collection is looked up before it is written and no       *)
(* constraint backs the lookup.  A collection is edited by save: what is   *)
(* not in memory (the items) is left alone, a row that is gone comes back. *)
(* Descriptions and covers are left out.                                   *)
(*                                                                         *)
(* A definition marked Mutant is not part of the specification.            *)
(***************************************************************************)
EXTENDS Calls

CONSTANTS
  Post,  \* posts
  Title  \* names of collections, trimmed

VARIABLES
  posts,        \* ids of the table posts
  bookmarks,    \* table bookmarks
  collections,  \* table collections
  saved,        \* table collection_items, as the pairs <<collectionId, postId>>
  answered,     \* history: what the last toggle of a bookmark without a rival said
  contested     \* history: <<u, name>> two calls of u were about to write at once

libraryVars == <<posts, bookmarks, collections, saved, answered, contested>>

Bookmark   == [id : Request, user : User, post : Post]
Collection == [id : Request, user : User, name : Title]

(* row is the row a call works on, of bookmarks or of collections. *)
LibraryMemory ==
       [op : {"toggle"}, pc : {"findBookmark", "removeBookmark", "insertBookmark"},
        user : User, post : Post, row : Bookmark \cup {None}, rival : BOOLEAN]
  \cup [op : {"name"}, pc : {"insertCollection", "findClash", "selectCollection",
                            "updateCollection", "reinsertCollection"}, row : Collection]
  \cup [op : {"drop"}, pc : {"removeCollection"}, row : Collection]
  \cup [op : {"add"}, pc : {"findPost", "findItem", "insertItem"}, row : Collection, post : Post]
  \cup [op : {"remove"}, pc : {"deleteItem"}, row : Collection, post : Post]

-----------------------------------------------------------------------------
(* BookmarksService.toggle *)

BookmarksOf(u, p) == {b \in bookmarks : b.user = u /\ b.post = p}

Toggling(u, p) == {r \in InFlight : req[r].op = "toggle" /\ req[r].user = u /\ req[r].post = p}

(* rival is history: another toggle of the bookmark has overlapped the call. *)
ToggleBookmark(r, u, p) ==
  /\ At(r, "idle")
  /\ p \in posts
  /\ req' = [x \in Request |->
       IF x = r THEN [op |-> "toggle", pc |-> "findBookmark", user |-> u, post |-> p,
                      row |-> None, rival |-> Toggling(u, p) # {}]
       ELSE IF x \in Toggling(u, p) THEN [req[x] EXCEPT !.rival = TRUE]
       ELSE req[x]]
  /\ answered' = [answered EXCEPT ![<<u, p>>] = "unknown"]
  /\ UNCHANGED <<posts, bookmarks, collections, saved, contested>>

(* Mutant: it is looked up by post alone. *)
FindAnyBookmark(r) ==
  /\ At(r, "findBookmark")
  /\ \/ {b \in bookmarks : b.post = req[r].post} = {} /\ GoTo(r, "insertBookmark")
     \/ \E b \in {b \in bookmarks : b.post = req[r].post} :
          req' = [req EXCEPT ![r].pc = "removeBookmark", ![r].row = b]
  /\ UNCHANGED libraryVars

FindBookmark(r) ==
  /\ At(r, "findBookmark")
  /\ LET mine == BookmarksOf(req[r].user, req[r].post)
     IN  \/ mine = {} /\ GoTo(r, "insertBookmark")
         \/ \E b \in mine : req' = [req EXCEPT ![r].pc = "removeBookmark", ![r].row = b]
  /\ UNCHANGED libraryVars

(* What toggle returns: on or off. *)
Say(r, is) ==
  /\ Answer(r)
  /\ answered' = IF req[r].rival THEN answered
                 ELSE [answered EXCEPT ![<<req[r].user, req[r].post>>] = is]
  /\ UNCHANGED <<posts, collections, saved, contested>>

(* bookmarkRepo.remove: a delete by id, silent when the row is gone. *)
RemoveBookmark(r) ==
  /\ At(r, "removeBookmark")
  /\ bookmarks' = bookmarks \ {req[r].row}
  /\ Say(r, "off")

(* Mutant: the two ids are swapped. *)
InsertBookmarkSwapped(r) ==
  /\ At(r, "insertBookmark")
  /\ bookmarks' = bookmarks \cup {[id |-> r, user |-> req[r].post, post |-> req[r].user]}
  /\ Say(r, "on")

(* The insert throws on a second bookmark of the user, and without its post. *)
InsertBookmark(r) ==
  /\ At(r, "insertBookmark")
  /\ IF req[r].post \in posts /\ BookmarksOf(req[r].user, req[r].post) = {}
     THEN /\ bookmarks' = bookmarks \cup {[id |-> r, user |-> req[r].user, post |-> req[r].post]}
          /\ Say(r, "on")
     ELSE Answer(r) /\ UNCHANGED libraryVars

(* A post is deleted (see Engagement), with all that hangs on it. *)
DropPost(p) ==
  /\ p \in posts
  /\ posts' = posts \ {p}
  /\ bookmarks' = {b \in bookmarks : b.post # p}
  /\ saved' = {i \in saved : i[2] # p}
  /\ answered' = [x \in User \X Post |-> IF x[2] = p THEN "off" ELSE answered[x]]
  /\ UNCHANGED <<req, collections, contested>>

-----------------------------------------------------------------------------
(* CollectionsService: names *)

Named(u, name) == {c \in collections : c.user = u /\ c.name = name}

(* The calls about to write a collection of u under name. *)
Namers(u, name) == {r \in InFlight : req[r].op = "name" /\ req[r].row.user = u
                                                        /\ req[r].row.name = name}

(* The call r starts to write row. *)
StartNaming(r, row, pc) ==
  /\ Begin(r, [op |-> "name", pc |-> pc, row |-> row])
  /\ contested' = IF Namers(row.user, row.name) = {} THEN contested
                  ELSE contested \cup {<<row.user, row.name>>}
  /\ UNCHANGED <<posts, bookmarks, collections, saved, answered>>

CreateCollection(r, u, name) ==
  IF Named(u, name) # {}
  THEN Begin(r, Over) /\ UNCHANGED libraryVars
  ELSE StartNaming(r, [id |-> r, user |-> u, name |-> name], "insertCollection")

InsertCollection(r) ==
  /\ At(r, "insertCollection")
  /\ collections' = collections \cup {req[r].row}
  /\ Answer(r)
  /\ UNCHANGED <<posts, bookmarks, saved, answered, contested>>

(* update of the caller's collection c, to name or, when only the description
   changes, to the name it has; the copy in memory is saved in either case. *)
UpdateCollection(r, c, name) ==
  StartNaming(r, [c EXCEPT !.name = name], IF c.name = name THEN "selectCollection" ELSE "findClash")

(* Mutant: a clash is not looked for. *)
FindNoClash(r) ==
  /\ At(r, "findClash")
  /\ GoTo(r, "selectCollection")
  /\ UNCHANGED libraryVars

FindClash(r) ==
  /\ At(r, "findClash")
  /\ IF Named(req[r].row.user, req[r].row.name) = {} THEN GoTo(r, "selectCollection")
     ELSE Answer(r)
  /\ UNCHANGED libraryVars

(* collectionRepo.save reads the row again, then updates it, or inserts the copy
   when the row is gone. *)
SelectCollection(r) ==
  /\ At(r, "selectCollection")
  /\ IF req[r].row \in collections THEN Answer(r)
     ELSE GoTo(r, IF \E c \in collections : c.id = req[r].row.id
                  THEN "updateCollection" ELSE "reinsertCollection")
  /\ UNCHANGED libraryVars

UpdateRow(r) ==
  /\ At(r, "updateCollection")
  /\ collections' = {IF c.id = req[r].row.id THEN req[r].row ELSE c : c \in collections}
  /\ Answer(r)
  /\ UNCHANGED <<posts, bookmarks, saved, answered, contested>>

(* The insert throws when another call has put the row back. *)
ReinsertCollection(r) ==
  /\ At(r, "reinsertCollection")
  /\ collections' = IF \E c \in collections : c.id = req[r].row.id THEN collections
                    ELSE collections \cup {req[r].row}
  /\ Answer(r)
  /\ UNCHANGED <<posts, bookmarks, saved, answered, contested>>

DeleteCollection(r, c) ==
  /\ Begin(r, [op |-> "drop", pc |-> "removeCollection", row |-> c])
  /\ UNCHANGED libraryVars

(* The delete cascades to the items. *)
RemoveCollection(r) ==
  /\ At(r, "removeCollection")
  /\ collections' = {c \in collections : c.id # req[r].row.id}
  /\ saved' = {i \in saved : i[1] # req[r].row.id}
  /\ Answer(r)
  /\ UNCHANGED <<posts, bookmarks, answered, contested>>

-----------------------------------------------------------------------------
(* CollectionsService: items *)

AddItem(r, c, p) ==
  /\ Begin(r, [op |-> "add", pc |-> "findPost", row |-> c, post |-> p])
  /\ UNCHANGED libraryVars

FindPost(r) ==
  /\ At(r, "findPost")
  /\ IF req[r].post \in posts THEN GoTo(r, "findItem") ELSE Answer(r)
  /\ UNCHANGED libraryVars

FindItem(r) ==
  /\ At(r, "findItem")
  /\ IF <<req[r].row.id, req[r].post>> \in saved THEN Answer(r) ELSE GoTo(r, "insertItem")
  /\ UNCHANGED libraryVars

(* The insert throws on a second item, and without its collection or post. *)
InsertItem(r) ==
  /\ At(r, "insertItem")
  /\ saved' = IF req[r].post \in posts /\ \E c \in collections : c.id = req[r].row.id
              THEN saved \cup {<<req[r].row.id, req[r].post>>} ELSE saved
  /\ Answer(r)
  /\ UNCHANGED <<posts, bookmarks, collections, answered, contested>>

RemoveItem(r, c, p) ==
  /\ Begin(r, [op |-> "remove", pc |-> "deleteItem", row |-> c, post |-> p])
  /\ UNCHANGED libraryVars

DeleteItem(r) ==
  /\ At(r, "deleteItem")
  /\ saved' = saved \ {<<req[r].row.id, req[r].post>>}
  /\ Answer(r)
  /\ UNCHANGED <<posts, bookmarks, collections, answered, contested>>

AbortLibrary(r) ==
  /\ Abort(r)
  /\ req[r].op \in {"toggle", "name", "drop", "add", "remove"}
  /\ UNCHANGED libraryVars

-----------------------------------------------------------------------------
LibraryInit ==
  /\ posts = Post /\ bookmarks = {} /\ collections = {} /\ saved = {}
  /\ answered = [x \in User \X Post |-> "off"]
  /\ contested = {}

LibraryNext ==
  \/ \E r \in Request :
       \/ \E u \in User : \/ \E p \in Post : ToggleBookmark(r, u, p)
                          \/ \E name \in Title : CreateCollection(r, u, name)
       \/ \E c \in collections : \/ \E name \in Title : UpdateCollection(r, c, name)
                                 \/ DeleteCollection(r, c)
                                 \/ \E p \in Post : AddItem(r, c, p) \/ RemoveItem(r, c, p)
       \/ FindBookmark(r) \/ RemoveBookmark(r) \/ InsertBookmark(r)
       \/ InsertCollection(r) \/ FindClash(r) \/ SelectCollection(r) \/ UpdateRow(r)
       \/ ReinsertCollection(r) \/ RemoveCollection(r)
       \/ FindPost(r) \/ FindItem(r) \/ InsertItem(r) \/ DeleteItem(r) \/ AbortLibrary(r)
  \/ \E p \in Post : DropPost(p)

-----------------------------------------------------------------------------
(* Properties *)

LibraryTypeOK ==
  /\ posts \subseteq Post
  /\ bookmarks \subseteq Bookmark
  /\ collections \subseteq Collection
  /\ saved \subseteq Request \X Post
  /\ answered \in [User \X Post -> {"on", "off", "unknown"}]
  /\ contested \subseteq User \X Title

(* A user has two collections of one name only when two of their calls were about
   to write that name at once (creations, renamings, or an edit that saves the
   name it had loaded): the lookup before the insert is all that forbids it. *)
OneNamePerUser ==
  \A c, d \in collections :
    c.user = d.user /\ c.name = d.name => c = d \/ <<c.user, c.name>> \in contested

(* What a toggle that no other toggle of the bookmark overlapped has answered stays
   true until the next one, or the deletion of the post. *)
BookmarksAsAnswered ==
  \A u \in User, p \in Post :
    /\ answered[<<u, p>>] = "on"  => BookmarksOf(u, p) # {}
    /\ answered[<<u, p>>] = "off" => BookmarksOf(u, p) = {}
=============================================================================
