--------------------------- MODULE Notifications ---------------------------
(***************************************************************************)
(* Notifications and their Web Push delivery: NotificationsService and     *)
(* PushService, with the browser side of push-subscribe.ts.                *)
(*                                                                         *)
(* A call of several statements is a request r whose pc names the          *)
(* statement it awaits.  create ends with an event to the sockets of the   *)
(* recipient and starts sendPush without awaiting it: lookups holds the    *)
(* sendPush calls that await the subscriptions, pushes the deliveries in   *)
(* flight, each with the subscription row as it was when looked up.        *)
(* Keys, titles and texts are left out: the keys go with the endpoint.     *)
(*                                                                         *)
(* A definition marked Mutant is not part of the specification.            *)
(***************************************************************************)
EXTENDS FiniteSets

CONSTANTS
  User,        \* registered users
  Endpoint,    \* push endpoints the browsers may be given (bound)
  Request,     \* calls of several statements; each is made once (bound)
  MayFail,     \* calls whose statement or delivery may fail, or die with the process
  Configured,  \* PUSH_ENABLED and the VAPID keys are set
  None         \* no user, no endpoint, no notification, no copy

ASSUME ConfiguredAssumption == Configured \in BOOLEAN
ASSUME MayFailAssumption    == MayFail \subseteq Request
ASSUME NoneAssumption       == None \notin User \cup Endpoint \cup Request

VARIABLES
  notifs,     \* table notifications
  subs,       \* table push_subscriptions
  gone,       \* endpoints that answer 404 or 410: their browser unsubscribed
  req,        \* the requests
  lookups,    \* creates whose sendPush awaits the subscriptions
  pushes,     \* deliveries in flight
  announced,  \* history: creates whose event was emitted
  due,        \* history: <<r, id>>, subscription id was there when r was announced
  handled,    \* history: <<r, id>>, the push service has answered for r and id
  lost,       \* history: creates whose sendPush failed or died
  removed,    \* history: ids of subscriptions that have been removed
  dismissed,  \* history: ids of notifications their recipient has deleted
  racing      \* history: calls that held a copy of a row when it was removed

tables   == <<notifs, subs, gone>>
delivery == <<lookups, pushes>>
history  == <<announced, due, handled, lost, removed, dismissed, racing>>
vars     == <<tables, req, delivery, history>>

Notification == [id : Request, recipient : User, actor : User, isRead : BOOLEAN]
Subscription == [id : Request, user : User, endpoint : Endpoint]
Push         == [about : Request, sub : Subscription, pc : {"send", "prune"}]

ASSUME RowsAssumption == None \notin Notification \cup Subscription

Running == {"insertNotification", "reload",
            "findNotification", "selectNotification", "updateNotification",
            "reinsertNotification",
            "findSubscription", "insertSubscription", "selectSubscription",
            "reinsertSubscription"}

(* user is the recipient or subscriber, peer the actor, target the notification
   to mark, copy the row in the handler's memory. *)
Req == [op : {"none", "create", "markAsRead", "subscribe"},
        pc : Running \cup {"idle", "done", "failed"},
        user : User \cup {None}, peer : User \cup {None},
        target : Request \cup {None}, endpoint : Endpoint \cup {None},
        copy : Notification \cup Subscription \cup {None}]

IdleReq == [op |-> "none", pc |-> "idle", user |-> None, peer |-> None,
            target |-> None, endpoint |-> None, copy |-> None]

-----------------------------------------------------------------------------
At(r, pc) == req[r].pc = pc

GoTo(r, pc) == req' = [req EXCEPT ![r].pc = pc]

Keep(r, pc, row) == req' = [req EXCEPT ![r].pc = pc, ![r].copy = row]

Begin(r, op, pc, u, v, n, e) ==
  /\ At(r, "idle")
  /\ req' = [req EXCEPT ![r] = [op |-> op, pc |-> pc, user |-> u, peer |-> v,
                                target |-> n, endpoint |-> e, copy |-> None]]

Ids(rows) == {x.id : x \in rows}

Holding(ids) == {r \in Request : req[r].pc \in Running /\ \E id \in ids :
                                   req[r].copy # None /\ req[r].copy.id = id}

SubsOf(u) == {s \in subs : s.user = u}

-----------------------------------------------------------------------------
(* NotificationsService.create *)

Create(r, actor, recipient) ==
  /\ Begin(r, "create", IF actor = recipient THEN "done" ELSE "insertNotification",
           recipient, actor, None, None)
  /\ UNCHANGED <<tables, delivery, history>>

(* Mutant: isRead is left to a column without default. *)
InsertNotificationUnset(r) ==
  /\ At(r, "insertNotification")
  /\ notifs' = notifs \cup {[id |-> r, recipient |-> req[r].user,
                             actor |-> req[r].peer, isRead |-> None]}
  /\ GoTo(r, "reload")
  /\ UNCHANGED <<subs, gone, delivery, history>>

InsertNotification(r) ==
  /\ At(r, "insertNotification")
  /\ notifs' = notifs \cup {[id |-> r, recipient |-> req[r].user,
                             actor |-> req[r].peer, isRead |-> FALSE]}
  /\ GoTo(r, "reload")
  /\ UNCHANGED <<subs, gone, delivery, history>>

(* Mutant: a notification that cannot be reloaded is not announced. *)
AnnounceReloaded(r) ==
  /\ At(r, "reload")
  /\ GoTo(r, "done")
  /\ IF r \in Ids(notifs)
     THEN /\ announced' = announced \cup {r}
          /\ due' = due \cup {<<r, s.id>> : s \in SubsOf(req[r].user)}
          /\ lookups' = IF Configured THEN lookups \cup {r} ELSE lookups
     ELSE UNCHANGED <<announced, due, lookups>>
  /\ UNCHANGED <<tables, pushes, handled, lost, removed, dismissed, racing>>

(* The reload answers, with the row or, when the recipient has dismissed it
   already, without; the saved copy then serves instead.  The event goes out
   and sendPush is started in the same turn. *)
Announce(r) ==
  /\ At(r, "reload")
  /\ GoTo(r, "done")
  /\ announced' = announced \cup {r}
  /\ due' = due \cup {<<r, s.id>> : s \in SubsOf(req[r].user)}
  /\ lookups' = IF Configured THEN lookups \cup {r} ELSE lookups
  /\ UNCHANGED <<tables, pushes, handled, lost, removed, dismissed, racing>>

-----------------------------------------------------------------------------
(* The recipient's calls *)

MarkAsRead(r, u, n) ==
  /\ Begin(r, "markAsRead", "findNotification", u, None, n, None)
  /\ UNCHANGED <<tables, delivery, history>>

(* Mutant: the row is taken from the event that announced it. *)
FindAnnounced(r) ==
  /\ At(r, "findNotification")
  /\ IF req[r].target \in announced /\ req[req[r].target].user = req[r].user
     THEN Keep(r, "selectNotification",
               [id |-> req[r].target, recipient |-> req[r].user,
                actor |-> req[req[r].target].peer, isRead |-> TRUE])
     ELSE GoTo(r, "failed")
  /\ UNCHANGED <<tables, delivery, history>>

FindNotification(r) ==
  /\ At(r, "findNotification")
  /\ LET mine == {n \in notifs : n.id = req[r].target /\ n.recipient = req[r].user}
     IN  \/ mine = {} /\ GoTo(r, "failed")
         \/ \E n \in mine : IF n.isRead THEN GoTo(r, "done")
                            ELSE Keep(r, "selectNotification", [n EXCEPT !.isRead = TRUE])
  /\ UNCHANGED <<tables, delivery, history>>

(* notifRepo.save reads the row again, then updates it, or inserts the copy
   when the row is gone. *)
SelectNotification(r) ==
  /\ At(r, "selectNotification")
  /\ LET rows == {n \in notifs : n.id = req[r].copy.id}
     IN  GoTo(r, IF rows = {} THEN "reinsertNotification"
                 ELSE IF \A n \in rows : n.isRead THEN "done"
                 ELSE "updateNotification")
  /\ UNCHANGED <<tables, delivery, history>>

UpdateNotification(r) ==
  /\ At(r, "updateNotification")
  /\ notifs' = {IF n.id = req[r].copy.id THEN [n EXCEPT !.isRead = TRUE] ELSE n : n \in notifs}
  /\ GoTo(r, "done")
  /\ UNCHANGED <<subs, gone, delivery, history>>

(* The insert throws on the primary key when another call has put it back. *)
ReinsertNotification(r) ==
  /\ At(r, "reinsertNotification")
  /\ IF req[r].copy.id \in Ids(notifs)
     THEN GoTo(r, "failed") /\ UNCHANGED notifs
     ELSE GoTo(r, "done") /\ notifs' = notifs \cup {req[r].copy}
  /\ UNCHANGED <<subs, gone, delivery, history>>

(* One UPDATE of the caller's unread rows. *)
MarkAllAsRead(u) ==
  /\ notifs' = {IF n.recipient = u THEN [n EXCEPT !.isRead = TRUE] ELSE n : n \in notifs}
  /\ UNCHANGED <<subs, gone, req, delivery, history>>

(* delete: one DELETE of the row with that id, if it is the caller's. *)
Dismiss(u, n) ==
  /\ \E x \in notifs : x.id = n /\ x.recipient = u
  /\ notifs' = {x \in notifs : x.id # n}
  /\ dismissed' = dismissed \cup {n}
  /\ racing' = racing \cup {r \in Holding({n}) : req[r].op = "markAsRead"}
  /\ UNCHANGED <<subs, gone, req, delivery, announced, due, handled, lost, removed>>

-----------------------------------------------------------------------------
(* Subscriptions *)

(* subscribeToPixoraPush hands over the endpoint the browser has at the time. *)
Subscribe(r, u, e) ==
  /\ e \notin gone
  /\ Begin(r, "subscribe", "findSubscription", u, None, None, e)
  /\ UNCHANGED <<tables, delivery, history>>

FindSubscription(r) ==
  /\ At(r, "findSubscription")
  /\ LET mine == {s \in SubsOf(req[r].user) : s.endpoint = req[r].endpoint}
     IN  \/ mine = {} /\ GoTo(r, "insertSubscription")
         \/ \E s \in mine : Keep(r, "selectSubscription", s)
  /\ UNCHANGED <<tables, delivery, history>>

(* subRepo.save of the row found: the keys of an endpoint do not change, so all
   that can be to write is a row that is gone. *)
SelectSubscription(r) ==
  /\ At(r, "selectSubscription")
  /\ GoTo(r, IF req[r].copy.id \in Ids(subs) THEN "done" ELSE "reinsertSubscription")
  /\ UNCHANGED <<tables, delivery, history>>

(* Stores row, unless its user has subscribed the endpoint already (unique). *)
StoreSubscription(r, row) ==
  /\ IF \E s \in SubsOf(row.user) : s.endpoint = row.endpoint
     THEN GoTo(r, "failed") /\ UNCHANGED subs
     ELSE GoTo(r, "done") /\ subs' = subs \cup {row}
  /\ UNCHANGED <<notifs, gone, delivery, history>>

InsertSubscription(r) ==
  /\ At(r, "insertSubscription")
  /\ StoreSubscription(r, [id |-> r, user |-> req[r].user, endpoint |-> req[r].endpoint])

ReinsertSubscription(r) ==
  /\ At(r, "reinsertSubscription")
  /\ StoreSubscription(r, req[r].copy)

Remove(rows) ==
  /\ subs' = subs \ rows
  /\ removed' = removed \cup Ids(rows)
  /\ racing' = racing \cup {r \in Holding(Ids(rows)) : req[r].op = "subscribe"}

(* unsubscribe by endpoint, unsubscribeAll: one DELETE of the caller's rows. *)
Unsubscribe(u, es) ==
  /\ Remove({s \in SubsOf(u) : s.endpoint \in es})
  /\ UNCHANGED <<notifs, gone, req, delivery, announced, due, handled, lost, dismissed>>

(* The browser drops its subscription (sub.unsubscribe, before the backend is
   told, if it is): the endpoint is never used again. *)
Expire(e) ==
  /\ gone' = gone \cup {e}
  /\ UNCHANGED <<notifs, subs, req, delivery, history>>

-----------------------------------------------------------------------------
(* PushService.sendPush *)

(* Mutant: findOne instead of find. *)
FindOneSub(r) ==
  /\ r \in lookups
  /\ lookups' = lookups \ {r}
  /\ \/ SubsOf(req[r].user) = {} /\ UNCHANGED pushes
     \/ \E s \in SubsOf(req[r].user) :
          pushes' = pushes \cup {[about |-> r, sub |-> s, pc |-> "send"]}
  /\ UNCHANGED <<tables, req, history>>

FindSubs(r) ==
  /\ r \in lookups
  /\ lookups' = lookups \ {r}
  /\ pushes' = pushes \cup {[about |-> r, sub |-> s, pc |-> "send"] : s \in SubsOf(req[r].user)}
  /\ UNCHANGED <<tables, req, history>>

(* Mutant: every failed delivery prunes, whatever its status. *)
SendOrPrune(p) ==
  /\ p.pc = "send"
  /\ handled' = handled \cup {<<p.about, p.sub.id>>}
  /\ \/ p.sub.endpoint \notin gone /\ pushes' = pushes \ {p}
     \/ /\ p.sub.endpoint \in gone \/ p.about \in MayFail
        /\ pushes' = (pushes \ {p}) \cup {[p EXCEPT !.pc = "prune"]}
  /\ UNCHANGED <<tables, req, lookups, announced, due, lost, removed, dismissed, racing>>

(* The push service takes the push, answers 404 or 410, or fails otherwise. *)
Send(p) ==
  /\ p.pc = "send"
  /\ handled' = handled \cup {<<p.about, p.sub.id>>}
  /\ \/ p.sub.endpoint \notin gone /\ pushes' = pushes \ {p}
     \/ /\ p.sub.endpoint \in gone
        /\ pushes' = (pushes \ {p}) \cup {[p EXCEPT !.pc = "prune"]}
     \/ p.about \in MayFail /\ pushes' = pushes \ {p}
  /\ UNCHANGED <<tables, req, lookups, announced, due, lost, removed, dismissed, racing>>

Prune(p) ==
  /\ p.pc = "prune"
  /\ pushes' = pushes \ {p}
  /\ Remove({s \in subs : s.id = p.sub.id})
  /\ UNCHANGED <<notifs, gone, req, lookups, announced, due, handled, lost, dismissed>>

(* The awaited statement rejects, or the process dies. *)
Fail(r) ==
  /\ r \in MayFail
  /\ req[r].pc \in Running
  /\ GoTo(r, "failed")
  /\ UNCHANGED <<tables, delivery, history>>

(* The rejection of sendPush is swallowed by create; a process that dies leaves
   every delivery of the notification unanswered. *)
FailPush(r) ==
  /\ r \in MayFail
  /\ r \in lookups \/ \E p \in pushes : p.about = r
  /\ lookups' = lookups \ {r}
  /\ pushes' = {p \in pushes : p.about # r}
  /\ lost' = lost \cup {r}
  /\ UNCHANGED <<tables, req, announced, due, handled, removed, dismissed, racing>>

-----------------------------------------------------------------------------
Init ==
  /\ notifs = {} /\ subs = {} /\ gone = {}
  /\ req = [r \in Request |-> IdleReq]
  /\ lookups = {} /\ pushes = {}
  /\ announced = {} /\ due = {} /\ handled = {} /\ lost = {}
  /\ removed = {} /\ dismissed = {} /\ racing = {}

Call(r) ==
  \E u \in User :
    \/ \E v \in User : Create(r, v, u)
    \/ \E n \in Request : MarkAsRead(r, u, n)
    \/ \E e \in Endpoint : Subscribe(r, u, e)

Step(r) ==
  \/ InsertNotification(r) \/ Announce(r)
  \/ FindNotification(r) \/ SelectNotification(r) \/ UpdateNotification(r)
  \/ ReinsertNotification(r)
  \/ FindSubscription(r) \/ SelectSubscription(r) \/ InsertSubscription(r)
  \/ ReinsertSubscription(r)
  \/ FindSubs(r)

Next ==
  \/ \E r \in Request : Call(r) \/ Step(r) \/ Fail(r) \/ FailPush(r)
  \/ \E p \in pushes : Send(p) \/ Prune(p)
  \/ \E u \in User : \/ MarkAllAsRead(u)
                     \/ \E n \in Request : Dismiss(u, n)
                     \/ \E es \in SUBSET Endpoint : Unsubscribe(u, es)
  \/ \E e \in Endpoint : Expire(e)

Spec == Init /\ [][Next]_vars

-----------------------------------------------------------------------------
(* Properties *)

TypeOK ==
  /\ notifs \subseteq Notification
  /\ subs \subseteq Subscription
  /\ gone \subseteq Endpoint
  /\ req \in [Request -> Req]
  /\ lookups \cup announced \cup lost \cup removed \cup dismissed \cup racing \subseteq Request
  /\ pushes \subseteq Push
  /\ due \cup handled \subseteq Request \X Request

(* A notification that was stored has been announced to its recipient's sockets,
   even one dismissed before its create had reloaded it: only a create that is
   still running, or that failed, leaves one untold. *)
StoredIsAnnounced ==
  \A r \in Request :
    /\ req[r].op = "create" /\ req[r].pc = "done" /\ req[r].user # req[r].peer
         => r \in announced
    /\ r \in Ids(notifs) \cup dismissed
         => r \in announced \/ At(r, "reload") \/ At(r, "failed")

(* A notification its recipient dismissed, or a subscription that was removed, is
   back only when a markAsRead or subscribe that had loaded it before put its copy
   back; nothing else revives a row. *)
RemovedStaysRemoved ==
  /\ \A n \in dismissed \cap Ids(notifs) :
       \E r \in racing : req[r].op = "markAsRead" /\ req[r].target = n /\ At(r, "done")
  /\ \A s \in subs : s.id \in removed =>
       \E r \in racing : req[r].op = "subscribe" /\ req[r].copy = s /\ At(r, "done")

(* Every device subscribed when a notification was announced is tried, once the
   deliveries are over, unless its subscription was removed before the lookup or
   sendPush itself failed: one dead device does not stop the others. *)
DevicesReached ==
  \A d \in due :
    Configured =>
      \/ d[1] \in lookups \cup lost
      \/ \E p \in pushes : p.about = d[1] /\ p.sub.id = d[2]
      \/ d \in handled
      \/ d[2] \in removed

(* Pruning by id spares what is alive: no delivery takes a subscription whose
   endpoint still works, however long ago it looked the row up. *)
PrunedOnlyWhenGone ==
  [][\A s \in subs \ subs' : pushes' # pushes => s.endpoint \in gone]_vars

=============================================================================
