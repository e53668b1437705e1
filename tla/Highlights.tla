----------------------------- MODULE Highlights -----------------------------
(***************************************************************************)
(* Highlights and their items: HighlightsService.                          *)
(*                                                                         *)
(* The items of a highlight are rows of their own.  create writes the      *)
(* highlight and then its items, update saves the highlight with the items *)
(* it has loaded (the relation cascades), and then replaces the items by a *)
(* delete and an insert: none of this is one transaction.  A save of       *)
(* several rows is one transaction.  Titles and covers are left out.       *)
(*                                                                         *)
(* A definition marked Mutant is not part of the specification.            *)
(***************************************************************************)
EXTENDS Calls

CONSTANTS
  Medium,  \* media of items
  Story    \* stories, each by its media

ASSUME StoryAssumption == Story \subseteq Medium

VARIABLES
  stories,     \* table stories, as the pairs <<authorId, id>>
  highlights,  \* table highlights
  items,       \* table highlight_items
  disturbed    \* history: highlights a call changed while another did, or left half done

highlightVars == <<stories, highlights, items, disturbed>>

Highlight == [id : Request, user : User]
Item      == [highlight : Request, by : Request, media : Medium]

(* media is None in an update of the title or the cover, copy the items loaded,
   missing and orphans what the save will put back and detach. *)
HighlightMemory ==
       [op : {"create"}, pc : {"insertHighlight"}, user : User, media : SUBSET Medium]
  \cup [op : {"create"}, pc : {"insertItems"}, highlight : Request, media : SUBSET Medium]
  \cup [op : {"update"}, pc : {"findItems"}, user : User, highlight : Request,
        media : (SUBSET Medium) \cup {None}]
  \cup [op : {"update"}, pc : {"selectHighlight"}, user : User, highlight : Request,
        media : (SUBSET Medium) \cup {None}, copy : SUBSET Item]
  \cup [op : {"update"}, pc : {"saveHighlight"}, user : User, highlight : Request,
        media : (SUBSET Medium) \cup {None}, missing : SUBSET Item, orphans : SUBSET Item,
        insert : BOOLEAN]
  \cup [op : {"update"}, pc : {"deleteItems", "insertItems"}, highlight : Request,
        media : SUBSET Medium]
  \cup [op : {"delete"}, pc : {"removeHighlight"}, highlight : Request]

(* The statements of the calls that write a highlight, and of those update. *)
Writing == {"insertItems", "findItems", "selectHighlight", "saveHighlight",
            "deleteItems", "removeHighlight"}

Writers(h) == {r \in InFlight : req[r].pc \in Writing /\ req[r].highlight = h}

ItemsOf(h) == {i \in items : i.highlight = h}

HighlightExists(h) == \E x \in highlights : x.id = h

(* A call that starts on h while another is at it disturbs it. *)
Disturb(h) == disturbed' = IF Writers(h) = {} THEN disturbed ELSE disturbed \cup {h}

-----------------------------------------------------------------------------
(* create and createFromStories *)

(* media is what is put in: input.items, none refused. *)
Create(r, u, media) ==
  /\ Begin(r, IF media = {} THEN Over
              ELSE [op |-> "create", pc |-> "insertHighlight", user |-> u, media |-> media])
  /\ UNCHANGED highlightVars

(* One query for the caller's stories among those named; it finds fewer when one
   is missing, another user's, or named twice.  What is copied is the media. *)
CreateFromStories(r, u, named, twice) ==
  /\ Begin(r, IF named = {} \/ twice \/ {s \in named : <<u, s>> \in stories} # named THEN Over
              ELSE [op |-> "create", pc |-> "insertHighlight", user |-> u, media |-> named])
  /\ UNCHANGED highlightVars

InsertHighlight(r) ==
  /\ At(r, "insertHighlight")
  /\ highlights' = highlights \cup {[id |-> r, user |-> req[r].user]}
  /\ req' = [req EXCEPT ![r] = [op |-> "create", pc |-> "insertItems", highlight |-> r,
                                media |-> req[r].media]]
  /\ UNCHANGED <<stories, items, disturbed>>

(* The items of create, or the new ones of update: one transaction, which throws
   when the highlight is gone. *)
InsertItems(r) ==
  /\ At(r, "insertItems")
  /\ items' = IF HighlightExists(req[r].highlight)
              THEN items \cup {[highlight |-> req[r].highlight, by |-> r, media |-> m] :
                               m \in req[r].media}
              ELSE items
  /\ Answer(r)
  /\ UNCHANGED <<stories, highlights, disturbed>>

-----------------------------------------------------------------------------
(* update.  media is None when the input has no items: only the title or cover
   changes. *)

Update(r, u, h, media) ==
  /\ Begin(r, IF [id |-> h, user |-> u] \in highlights
              THEN [op |-> "update", pc |-> "findItems", user |-> u, highlight |-> h,
                    media |-> media]
              ELSE Over)
  /\ Disturb(h)
  /\ UNCHANGED <<stories, highlights, items>>

FindItems(r) ==
  /\ At(r, "findItems")
  /\ req' = [req EXCEPT ![r] = [op |-> "update", pc |-> "selectHighlight", user |-> req[r].user,
                                highlight |-> req[r].highlight, media |-> req[r].media,
                                copy |-> ItemsOf(req[r].highlight)]]
  /\ UNCHANGED highlightVars

(* highlightRepo.save reads the highlight and its items again: it will put back
   the items of the copy that are missing, and set the highlight of those that
   the copy lacks to null. *)
SelectHighlight(r) ==
  /\ At(r, "selectHighlight")
  /\ LET q == req[r]
     IN  req' = [req EXCEPT ![r] =
           [op |-> "update", pc |-> "saveHighlight", user |-> q.user, highlight |-> q.highlight,
            media |-> q.media, missing |-> q.copy \ ItemsOf(q.highlight),
            orphans |-> ItemsOf(q.highlight) \ q.copy, insert |-> ~HighlightExists(q.highlight)]]
  /\ UNCHANGED highlightVars

(* The pc after the save; an empty list of items is refused only then. *)
AfterSave(r) ==
  IF req[r].media \in {None, {}} THEN Over
  ELSE [op |-> "update", pc |-> "deleteItems", highlight |-> req[r].highlight,
        media |-> req[r].media]

(* The transaction throws when an orphan is still there (the column is not null),
   when a row it inserts is there again, or an item has no highlight. *)
SaveThrows(r) ==
  LET q == req[r]
  IN  \/ q.orphans \cap items # {}
      \/ q.missing \cap items # {}
      \/ q.insert /\ HighlightExists(q.highlight)
      \/ q.missing # {} /\ ~q.insert /\ ~HighlightExists(q.highlight)

SaveHighlight(r) ==
  /\ At(r, "saveHighlight")
  /\ IF SaveThrows(r)
     THEN Answer(r) /\ UNCHANGED <<highlights, items>>
     ELSE /\ req' = [req EXCEPT ![r] = AfterSave(r)]
          /\ items' = items \cup req[r].missing
          /\ highlights' = IF req[r].insert
                           THEN highlights \cup {[id |-> req[r].highlight, user |-> req[r].user]}
                           ELSE highlights
  /\ UNCHANGED <<stories, disturbed>>

(* Mutant: the old items stay. *)
KeepItems(r) ==
  /\ At(r, "deleteItems")
  /\ GoTo(r, "insertItems")
  /\ UNCHANGED highlightVars

DeleteItems(r) ==
  /\ At(r, "deleteItems")
  /\ items' = items \ ItemsOf(req[r].highlight)
  /\ GoTo(r, "insertItems")
  /\ UNCHANGED <<stories, highlights, disturbed>>

-----------------------------------------------------------------------------
Delete(r, u, h) ==
  /\ Begin(r, IF [id |-> h, user |-> u] \in highlights
              THEN [op |-> "delete", pc |-> "removeHighlight", highlight |-> h] ELSE Over)
  /\ Disturb(h)
  /\ UNCHANGED <<stories, highlights, items>>

(* The delete cascades to the items. *)
RemoveHighlight(r) ==
  /\ At(r, "removeHighlight")
  /\ highlights' = {x \in highlights : x.id # req[r].highlight}
  /\ items' = items \ ItemsOf(req[r].highlight)
  /\ Answer(r)
  /\ UNCHANGED <<stories, disturbed>>

(* A story is published, deleted or cleaned up; see Stories. *)
PublishStory(u, s) ==
  /\ \A v \in User : <<v, s>> \notin stories
  /\ \A i \in items : i.media # s
  /\ stories' = stories \cup {<<u, s>>}
  /\ UNCHANGED <<req, highlights, items, disturbed>>

DropStory(u, s) ==
  /\ <<u, s>> \in stories
  /\ stories' = stories \ {<<u, s>>}
  /\ UNCHANGED <<req, highlights, items, disturbed>>

(* Between the delete and the insert of the items, or the insert of the highlight
   and that of its items, a failure leaves a highlight without. *)
AbortHighlight(r) ==
  /\ Abort(r)
  /\ req[r].pc \in Writing \cup {"insertHighlight"}
  /\ disturbed' = IF At(r, "insertItems") THEN disturbed \cup {req[r].highlight} ELSE disturbed
  /\ UNCHANGED <<stories, highlights, items>>

-----------------------------------------------------------------------------
HighlightsInit == stories = {} /\ highlights = {} /\ items = {} /\ disturbed = {}

HighlightsNext ==
  \/ \E r \in Request :
       \/ \E u \in User :
            \/ \E media \in SUBSET Medium : Create(r, u, media)
            \/ \E named \in SUBSET Story, twice \in BOOLEAN : CreateFromStories(r, u, named, twice)
            \/ \E h \in Request :
                 \/ \E media \in (SUBSET Medium) \cup {None} : Update(r, u, h, media)
                 \/ Delete(r, u, h)
       \/ InsertHighlight(r) \/ InsertItems(r) \/ FindItems(r) \/ SelectHighlight(r)
       \/ SaveHighlight(r) \/ DeleteItems(r) \/ RemoveHighlight(r) \/ AbortHighlight(r)
  \/ \E u \in User, s \in Story : PublishStory(u, s) \/ DropStory(u, s)

-----------------------------------------------------------------------------
(* Properties *)

HighlightsTypeOK ==
  /\ stories \subseteq User \X Story
  /\ highlights \subseteq Highlight
  /\ items \subseteq Item
  /\ disturbed \subseteq Request

(* A highlight that nobody is writing has items, all of them put in by one call,
   the last that replaced them, although they are written apart from it: only a
   failure halfway or two calls that overlapped leave an empty or a mixed one. *)
HighlightsWhole ==
  \A x \in highlights :
    Writers(x.id) = {} /\ x.id \notin disturbed =>
      \E r \in Request : /\ ItemsOf(x.id) # {}
                         /\ \A i \in ItemsOf(x.id) : i.by = r
=============================================================================
