------------------------ MODULE NotificationsProofs ------------------------
(***************************************************************************)
(* Safety of Notifications (the stored notifications, the subscriptions    *)
(* and the deliveries nobody waits for) for every set of users, endpoints  *)
(* and calls.                                                              *)
(***************************************************************************)
EXTENDS Notifications, TLAPS

-----------------------------------------------------------------------------
(* The inductive invariant *)

(* Call i has stored a notification, and has told its recipient, is about to,
   or failed. *)
Stored(i) ==
  /\ i \in Request /\ req[i].op = "create"
  /\ i \in announced \/ req[i].pc \in {"reload", "failed"}

(* Row s is the one its call has inserted: an id names one user and endpoint. *)
Issued(s) ==
  /\ s.id \in Request /\ req[s.id].op = "subscribe" /\ req[s.id].pc = "done"
  /\ s.user = req[s.id].user /\ s.endpoint = req[s.id].endpoint

CreatePC    == {"insertNotification", "reload", "done", "failed"}
SavingPC    == {"selectNotification", "updateNotification", "reinsertNotification"}
MarkPC      == {"findNotification", "done", "failed"} \cup SavingPC
StoringPC   == {"selectSubscription", "reinsertSubscription"}
SubscribePC == {"findSubscription", "insertSubscription", "done", "failed"} \cup StoringPC

(* A create that is done has announced, unless one told oneself. *)
CreateAgrees(r) ==
  /\ req[r].user \in User /\ req[r].peer \in User /\ req[r].pc \in CreatePC
  /\ req[r].pc = "done" /\ req[r].user # req[r].peer => r \in announced

(* A markAsRead that holds a copy holds one of a row that was stored, and is
   known to race when the row has gone. *)
MarkAgrees(r) ==
  /\ req[r].pc \in MarkPC
  /\ req[r].pc \in SavingPC =>
       /\ req[r].copy \in Notification /\ req[r].copy.id = req[r].target
       /\ Stored(req[r].target)
       /\ req[r].target \in Ids(notifs) \/ r \in racing

(* The same of a subscribe that found a row. *)
SubscribeAgrees(r) ==
  /\ req[r].user \in User /\ req[r].endpoint \in Endpoint /\ req[r].pc \in SubscribePC
  /\ req[r].pc \in StoringPC =>
       /\ req[r].copy \in Subscription /\ Issued(req[r].copy)
       /\ req[r].copy \in subs \/ r \in racing

HandlerAgrees(r) ==
  /\ req[r].op = "none" => req[r].pc = "idle"
  /\ req[r].pc = "idle" => req[r].op = "none"
  /\ req[r].op = "create" => CreateAgrees(r)
  /\ req[r].op = "markAsRead" => MarkAgrees(r)
  /\ req[r].op = "subscribe" => SubscribeAgrees(r)

(* Every notification, there or dismissed, has a call that stored it. *)
NotificationsAgree == \A i \in Ids(notifs) \cup dismissed : Stored(i)

(* Every subscription, there or removed, has a call that inserted it. *)
SubscriptionsAgree ==
  /\ \A s \in subs : Issued(s)
  /\ \A i \in removed : req[i].op = "subscribe" /\ req[i].pc = "done"

(* Only a create that is over has been announced; the subscriptions it is due to
   are there or were removed. *)
AnnouncementsAgree ==
  /\ \A r \in announced : req[r].op = "create" /\ req[r].pc = "done"
  /\ lookups \subseteq announced
  /\ \A d \in due : /\ d[1] \in announced
                    /\ \/ d[2] \in removed
                       \/ \E s \in subs : s.id = d[2] /\ s.user = req[d[1]].user

(* A delivery is for a row that was stored, and prunes when its endpoint is gone
   and the push service has said so. *)
PushAgrees(p) ==
  /\ Issued(p.sub)
  /\ p.pc = "prune" => p.sub.endpoint \in gone /\ <<p.about, p.sub.id>> \in handled

Coherent ==
  /\ \A r \in Request : HandlerAgrees(r)
  /\ NotificationsAgree
  /\ SubscriptionsAgree
  /\ AnnouncementsAgree
  /\ \A p \in pushes : PushAgrees(p)
  /\ RemovedStaysRemoved
  /\ DevicesReached

Inv == TypeOK /\ Coherent

-----------------------------------------------------------------------------
(* What a step leaves alone *)

Only(r) == \A i \in Request : i # r => req'[i] = req[i]

(* The arguments of a call do not change. *)
SameCall(i) ==
  /\ req'[i].op = req[i].op /\ req'[i].user = req[i].user /\ req'[i].peer = req[i].peer
  /\ req'[i].target = req[i].target /\ req'[i].endpoint = req[i].endpoint

LEMMA GoToMoves ==
  ASSUME TypeOK, NEW r \in Request, NEW pc, GoTo(r, pc)
  PROVE  Only(r) /\ SameCall(r) /\ req'[r].pc = pc /\ req'[r].copy = req[r].copy
<1>1. req[r] \in Req
  BY DEF TypeOK
<1>2. req'[r] = [req[r] EXCEPT !.pc = pc]
  BY DEF TypeOK, GoTo
<1>3. SameCall(r) /\ req'[r].pc = pc /\ req'[r].copy = req[r].copy
  BY <1>1, <1>2 DEF SameCall, Req
<1>4. Only(r)
  BY DEF TypeOK, GoTo, Only
<1> QED BY <1>3, <1>4

LEMMA GoToTypes ==
  ASSUME TypeOK, NEW r \in Request, NEW pc \in Running \cup {"done", "failed"}, GoTo(r, pc)
  PROVE  req' \in [Request -> Req]
<1> DEFINE q == [req[r] EXCEPT !.pc = pc]
<1>1. req[r] \in Req
  BY DEF TypeOK
<1>2. q \in Req
  BY <1>1 DEF Req
<1>3. req' = [req EXCEPT ![r] = q]
  BY DEF TypeOK, GoTo
<1> HIDE DEF q
<1> QED BY <1>2, <1>3 DEF TypeOK

LEMMA KeepMoves ==
  ASSUME TypeOK, NEW r \in Request, NEW pc, NEW row, Keep(r, pc, row)
  PROVE  Only(r) /\ SameCall(r) /\ req'[r].pc = pc /\ req'[r].copy = row
<1>1. req[r] \in Req
  BY DEF TypeOK
<1>2. req'[r] = [req[r] EXCEPT !.pc = pc, !.copy = row]
  BY DEF TypeOK, Keep
<1>3. SameCall(r) /\ req'[r].pc = pc /\ req'[r].copy = row
  BY <1>1, <1>2 DEF SameCall, Req
<1>4. Only(r)
  BY DEF TypeOK, Keep, Only
<1> QED BY <1>3, <1>4

LEMMA KeepTypes ==
  ASSUME TypeOK, NEW r \in Request, NEW pc \in Running,
         NEW row \in Notification \cup Subscription, Keep(r, pc, row)
  PROVE  req' \in [Request -> Req]
<1> DEFINE q == [req[r] EXCEPT !.pc = pc, !.copy = row]
<1>1. req[r] \in Req
  BY DEF TypeOK
<1>2. q \in Req
  BY <1>1 DEF Req
<1>3. req' = [req EXCEPT ![r] = q]
  BY DEF TypeOK, Keep
<1> HIDE DEF q
<1> QED BY <1>2, <1>3 DEF TypeOK

LEMMA BeginMoves ==
  ASSUME TypeOK, NEW r \in Request, NEW op, NEW pc, NEW u, NEW v, NEW n, NEW e,
         Begin(r, op, pc, u, v, n, e)
  PROVE  /\ Only(r) /\ req[r].pc = "idle"
         /\ req'[r] = [op |-> op, pc |-> pc, user |-> u, peer |-> v,
                       target |-> n, endpoint |-> e, copy |-> None]
BY DEF TypeOK, Begin, Only, At

LEMMA BeginTypes ==
  ASSUME TypeOK, NEW r \in Request, NEW op \in {"create", "markAsRead", "subscribe"},
         NEW pc \in Running \cup {"done"}, NEW u \in User, NEW v \in User \cup {None},
         NEW n \in Request \cup {None}, NEW e \in Endpoint \cup {None},
         Begin(r, op, pc, u, v, n, e)
  PROVE  req' \in [Request -> Req]
<1> DEFINE q == [op |-> op, pc |-> pc, user |-> u, peer |-> v,
                 target |-> n, endpoint |-> e, copy |-> None]
<1>1. q \in Req
  BY DEF Req
<1>2. req' = [req EXCEPT ![r] = q]
  BY DEF Begin
<1> HIDE DEF q
<1> QED BY <1>1, <1>2 DEF TypeOK

(* A call that starts is idle before, and afterwards at the first statement of
   its handler. *)
Starts(r) ==
  /\ Only(r) /\ req[r].pc = "idle" /\ req'[r].pc # "idle" /\ req'[r].user \in User
  /\ \/ /\ req'[r].op = "create" /\ req'[r].peer \in User
        /\ req'[r].pc = IF req'[r].peer = req'[r].user THEN "done" ELSE "insertNotification"
     \/ req'[r].op = "markAsRead" /\ req'[r].pc = "findNotification"
     \/ /\ req'[r].op = "subscribe" /\ req'[r].pc = "findSubscription"
        /\ req'[r].endpoint \in Endpoint

LEMMA CallStarts ==
  ASSUME TypeOK, NEW r \in Request, Call(r)
  PROVE  /\ Starts(r) /\ req' \in [Request -> Req]
         /\ UNCHANGED <<tables, delivery, history>>
<1>1. ASSUME NEW u \in User, NEW v \in User, Create(r, v, u)
      PROVE  Starts(r) /\ req' \in [Request -> Req] /\ UNCHANGED <<tables, delivery, history>>
  <2>1. PICK pc : /\ pc = IF v = u THEN "done" ELSE "insertNotification"
                  /\ Begin(r, "create", pc, u, v, None, None)
    BY <1>1 DEF Create
  <2>2. Starts(r)
    <3>1. /\ Only(r) /\ req[r].pc = "idle"
          /\ req'[r] = [op |-> "create", pc |-> pc, user |-> u, peer |-> v,
                        target |-> None, endpoint |-> None, copy |-> None]
      BY <2>1, BeginMoves
    <3>2. /\ req'[r].op = "create" /\ req'[r].pc = pc /\ req'[r].user = u
          /\ req'[r].peer = v /\ req'[r].endpoint = None
      BY <3>1
    <3> QED BY <2>1, <3>1, <3>2 DEF Starts
  <2>3. req' \in [Request -> Req]
    BY <2>1, BeginTypes DEF Running
  <2> QED BY <1>1, <2>2, <2>3 DEF Create
<1>2. ASSUME NEW u \in User, NEW n \in Request, MarkAsRead(r, u, n)
      PROVE  Starts(r) /\ req' \in [Request -> Req] /\ UNCHANGED <<tables, delivery, history>>
  <2>1. Begin(r, "markAsRead", "findNotification", u, None, n, None)
    BY <1>2 DEF MarkAsRead
  <2>2. Starts(r)
    <3>1. /\ Only(r) /\ req[r].pc = "idle"
          /\ req'[r] = [op |-> "markAsRead", pc |-> "findNotification", user |-> u, peer |-> None,
                        target |-> n, endpoint |-> None, copy |-> None]
      BY <2>1, BeginMoves
    <3>2. /\ req'[r].op = "markAsRead" /\ req'[r].pc = "findNotification" /\ req'[r].user = u
          /\ req'[r].peer = None /\ req'[r].endpoint = None
      BY <3>1
    <3> QED BY <2>1, <3>1, <3>2 DEF Starts
  <2>3. req' \in [Request -> Req]
    BY <2>1, BeginTypes DEF Running
  <2> QED BY <1>2, <2>2, <2>3 DEF MarkAsRead
<1>3. ASSUME NEW u \in User, NEW e \in Endpoint, Subscribe(r, u, e)
      PROVE  Starts(r) /\ req' \in [Request -> Req] /\ UNCHANGED <<tables, delivery, history>>
  <2>1. Begin(r, "subscribe", "findSubscription", u, None, None, e)
    BY <1>3 DEF Subscribe
  <2>2. Starts(r)
    <3>1. /\ Only(r) /\ req[r].pc = "idle"
          /\ req'[r] = [op |-> "subscribe", pc |-> "findSubscription", user |-> u, peer |-> None,
                        target |-> None, endpoint |-> e, copy |-> None]
      BY <2>1, BeginMoves
    <3>2. /\ req'[r].op = "subscribe" /\ req'[r].pc = "findSubscription" /\ req'[r].user = u
          /\ req'[r].peer = None /\ req'[r].endpoint = e
      BY <3>1
    <3> QED BY <2>1, <3>1, <3>2 DEF Starts
  <2>3. req' \in [Request -> Req]
    BY <2>1, BeginTypes DEF Running
  <2> QED BY <1>3, <2>2, <2>3 DEF Subscribe
<1> QED BY <1>1, <1>2, <1>3 DEF Call

(* Any later statement of a call keeps its arguments; only the two lookups put a
   row in its memory. *)
Moves(r) ==
  /\ Only(r) /\ SameCall(r) /\ req[r].pc \in Running
  /\ req'[r].pc \in Running \cup {"done", "failed"}
  /\ req[r].pc \notin {"findNotification", "findSubscription"} => req'[r].copy = req[r].copy
  /\ req' \in [Request -> Req]

LEMMA GoToRuns ==
  ASSUME TypeOK, NEW r \in Request, req[r].pc \in Running,
         NEW pc \in Running \cup {"done", "failed"}, GoTo(r, pc)
  PROVE  Moves(r)
BY GoToMoves, GoToTypes DEF Moves

LEMMA FindNotificationMoves ==
  ASSUME TypeOK, NEW r \in Request, FindNotification(r)
  PROVE  /\ Moves(r) /\ req[r].pc = "findNotification"
         /\ \/ req'[r].pc \in {"done", "failed"}
            \/ /\ req'[r].pc = "selectNotification" /\ req'[r].copy \in Notification
               /\ \E n \in notifs : n.id = req[r].target /\ req'[r].copy.id = n.id
         /\ UNCHANGED <<tables, delivery, history>>
<1>1. /\ req[r].pc = "findNotification" /\ UNCHANGED <<tables, delivery, history>>
      /\ \/ GoTo(r, "failed") \/ GoTo(r, "done")
         \/ \E n \in notifs : /\ n.id = req[r].target
                              /\ Keep(r, "selectNotification", [n EXCEPT !.isRead = TRUE])
  BY DEF FindNotification, At
<1>2. CASE GoTo(r, "failed") \/ GoTo(r, "done")
  BY <1>1, <1>2, GoToRuns, GoToMoves DEF Running
<1>3. ASSUME NEW n \in notifs, n.id = req[r].target,
             Keep(r, "selectNotification", [n EXCEPT !.isRead = TRUE])
      PROVE  /\ Moves(r) /\ req'[r].pc = "selectNotification" /\ req'[r].copy \in Notification
             /\ req'[r].copy.id = n.id
  <2> DEFINE row == [n EXCEPT !.isRead = TRUE]
  <2>1. n \in Notification
    BY DEF TypeOK
  <2>2. row \in Notification /\ row.id = n.id
    BY <2>1 DEF Notification
  <2> HIDE DEF row
  <2>3. /\ Only(r) /\ SameCall(r) /\ req'[r].pc = "selectNotification"
        /\ req'[r].copy = row
    BY <1>3, KeepMoves DEF row
  <2>4. req' \in [Request -> Req]
    BY <1>3, <2>2, KeepTypes DEF row, Running
  <2> QED BY <1>1, <2>2, <2>3, <2>4 DEF Moves, Running
<1> QED BY <1>1, <1>2, <1>3

LEMMA FindSubscriptionMoves ==
  ASSUME TypeOK, NEW r \in Request, FindSubscription(r)
  PROVE  /\ Moves(r) /\ req[r].pc = "findSubscription"
         /\ \/ req'[r].pc = "insertSubscription"
            \/ req'[r].pc = "selectSubscription" /\ req'[r].copy \in subs
         /\ UNCHANGED <<tables, delivery, history>>
<1>1. /\ req[r].pc = "findSubscription" /\ UNCHANGED <<tables, delivery, history>>
      /\ \/ GoTo(r, "insertSubscription")
         \/ \E s \in subs : Keep(r, "selectSubscription", s)
  BY DEF FindSubscription, SubsOf, At
<1>2. CASE GoTo(r, "insertSubscription")
  BY <1>1, <1>2, GoToRuns, GoToMoves DEF Running
<1>3. ASSUME NEW s \in subs, Keep(r, "selectSubscription", s)
      PROVE  Moves(r) /\ req'[r].pc = "selectSubscription" /\ req'[r].copy = s
  <2>1. s \in Subscription
    BY DEF TypeOK
  <2>2. Only(r) /\ SameCall(r) /\ req'[r].pc = "selectSubscription" /\ req'[r].copy = s
    BY <1>3, KeepMoves
  <2>3. req' \in [Request -> Req]
    BY <1>3, <2>1, KeepTypes DEF Running
  <2> QED BY <1>1, <2>2, <2>3 DEF Moves, Running
<1> QED BY <1>1, <1>2, <1>3

LEMMA SelectNotificationMoves ==
  ASSUME TypeOK, NEW r \in Request, SelectNotification(r)
  PROVE  /\ Moves(r) /\ req[r].pc = "selectNotification"
         /\ req'[r].pc \in {"reinsertNotification", "done", "updateNotification"}
         /\ UNCHANGED <<tables, delivery, history>>
<1>1. PICK pc : /\ pc \in {"reinsertNotification", "done", "updateNotification"}
                /\ GoTo(r, pc)
  BY DEF SelectNotification
<1>2. req[r].pc = "selectNotification" /\ UNCHANGED <<tables, delivery, history>>
  BY DEF SelectNotification, At
<1> QED BY <1>1, <1>2, GoToRuns, GoToMoves DEF Running

LEMMA SelectSubscriptionMoves ==
  ASSUME TypeOK, NEW r \in Request, SelectSubscription(r)
  PROVE  /\ Moves(r) /\ req[r].pc = "selectSubscription"
         /\ req'[r].pc \in {"reinsertSubscription", "done"}
         /\ UNCHANGED <<tables, delivery, history>>
<1>1. PICK pc : pc \in {"reinsertSubscription", "done"} /\ GoTo(r, pc)
  BY DEF SelectSubscription
<1>2. req[r].pc = "selectSubscription" /\ UNCHANGED <<tables, delivery, history>>
  BY DEF SelectSubscription, At
<1> QED BY <1>1, <1>2, GoToRuns, GoToMoves DEF Running

(* A step between two statements moves no table but its own. *)
LEMMA StepMoves ==
  ASSUME TypeOK, NEW r \in Request, Step(r) \/ Fail(r), ~FindSubs(r)
  PROVE  Moves(r)
<1>1. CASE InsertNotification(r)
  BY <1>1, GoToRuns DEF InsertNotification, At, Running
<1>2. CASE Announce(r)
  BY <1>2, GoToRuns DEF Announce, At, Running
<1>3. CASE UpdateNotification(r)
  BY <1>3, GoToRuns DEF UpdateNotification, At, Running
<1>4. CASE ReinsertNotification(r)
  BY <1>4, GoToRuns DEF ReinsertNotification, At, Running
<1>5. CASE InsertSubscription(r)
  BY <1>5, GoToRuns DEF InsertSubscription, StoreSubscription, At, Running
<1>6. CASE ReinsertSubscription(r)
  BY <1>6, GoToRuns DEF ReinsertSubscription, StoreSubscription, At, Running
<1>7. CASE Fail(r)
  BY <1>7, GoToRuns DEF Fail
<1> QED BY <1>1, <1>2, <1>3, <1>4, <1>5, <1>6, <1>7, FindNotificationMoves,
           FindSubscriptionMoves, SelectNotificationMoves, SelectSubscriptionMoves
        DEF Step

(* The requests change only by a call that starts or goes on. *)
LEMMA ReqMoves ==
  ASSUME TypeOK, [Next]_vars
  PROVE  \/ req' = req
         \/ \E r \in Request : Call(r) /\ Starts(r) /\ req' \in [Request -> Req]
         \/ \E r \in Request : (Step(r) \/ Fail(r)) /\ ~FindSubs(r) /\ Moves(r)
<1>1. ASSUME NEW r \in Request, FindSubs(r) \/ FailPush(r)
      PROVE  req' = req
  BY <1>1 DEF FindSubs, FailPush
<1>2. CASE \E p \in pushes : Send(p) \/ Prune(p)
  BY <1>2 DEF Send, Prune
<1>3. CASE \E u \in User : \/ MarkAllAsRead(u)
                           \/ \E n \in Request : Dismiss(u, n)
                           \/ \E es \in SUBSET Endpoint : Unsubscribe(u, es)
  BY <1>3 DEF MarkAllAsRead, Dismiss, Unsubscribe
<1>4. CASE \E e \in Endpoint : Expire(e)
  BY <1>4 DEF Expire
<1>5. CASE UNCHANGED vars
  BY <1>5 DEF vars
<1> QED BY <1>1, <1>2, <1>3, <1>4, <1>5, CallStarts, StepMoves DEF Next

(* What has happened stays so: the arguments of a call that has begun, a call
   that is over, and the history. *)
Lasting ==
  /\ \A i \in Request : req[i].pc # "idle" => SameCall(i) /\ req'[i].pc # "idle"
  /\ \A i \in Request : req[i].pc \in {"done", "failed"} => req'[i] = req[i]
  /\ req' \in [Request -> Req]

LEMMA Lasts ==
  ASSUME TypeOK, [Next]_vars
  PROVE  Lasting
<1>1. CASE req' = req
  BY <1>1 DEF TypeOK, Lasting, SameCall
<1>2. ASSUME NEW r \in Request, Starts(r), req' \in [Request -> Req]
      PROVE  Lasting
  BY <1>2 DEF Starts, Only, Lasting, SameCall
<1>3. ASSUME NEW r \in Request, Moves(r)
      PROVE  Lasting
  <2>1. req[r].pc \notin {"done", "failed"} /\ req'[r].pc # "idle"
    BY <1>3 DEF Moves, Running
  <2> QED BY <1>3, <2>1 DEF Moves, Only, Lasting, SameCall
<1> QED BY <1>1, <1>2, <1>3, ReqMoves

(* The history only grows, and so do the endpoints that are gone. *)
HistoryGrows ==
  /\ gone \subseteq gone' /\ announced \subseteq announced' /\ due \subseteq due'
  /\ handled \subseteq handled' /\ lost \subseteq lost' /\ removed \subseteq removed'
  /\ dismissed \subseteq dismissed' /\ racing \subseteq racing'

LEMMA HistoryLasts ==
  ASSUME TypeOK, [Next]_vars
  PROVE  HistoryGrows
<1>1. ASSUME NEW r \in Request, Call(r)
      PROVE  HistoryGrows
  BY <1>1, CallStarts DEF HistoryGrows, tables, history
<1>2. ASSUME NEW r \in Request, Step(r) \/ Fail(r) \/ FailPush(r)
      PROVE  HistoryGrows
  <2>1. CASE Announce(r)
    BY <2>1 DEF Announce, HistoryGrows, tables
  <2>2. CASE FailPush(r)
    BY <2>2 DEF FailPush, HistoryGrows, tables
  <2>3. CASE ~Announce(r) /\ ~FailPush(r)
    <3>1. UNCHANGED gone /\ UNCHANGED history
      BY <1>2, <2>3
         DEF Step, Fail, InsertNotification, FindNotification, SelectNotification,
             UpdateNotification, ReinsertNotification, FindSubscription, SelectSubscription,
             InsertSubscription, ReinsertSubscription, StoreSubscription, FindSubs, tables
    <3> QED BY <3>1 DEF HistoryGrows, history
  <2> QED BY <2>1, <2>2, <2>3
<1>3. ASSUME NEW p \in pushes, Send(p) \/ Prune(p)
      PROVE  HistoryGrows
  <2>1. CASE Send(p)
    BY <2>1 DEF Send, HistoryGrows, tables
  <2>2. CASE Prune(p)
    BY <2>2 DEF Prune, Remove, HistoryGrows, tables
  <2> QED BY <1>3, <2>1, <2>2
<1>4. ASSUME NEW u \in User
      PROVE  /\ MarkAllAsRead(u) => HistoryGrows
             /\ \A n \in Request : Dismiss(u, n) => HistoryGrows
             /\ \A es \in SUBSET Endpoint : Unsubscribe(u, es) => HistoryGrows
  <2>1. MarkAllAsRead(u) => HistoryGrows
    BY DEF MarkAllAsRead, HistoryGrows, history
  <2>2. ASSUME NEW n \in Request, Dismiss(u, n)
        PROVE  HistoryGrows
    BY <2>2 DEF Dismiss, HistoryGrows
  <2>3. ASSUME NEW es \in SUBSET Endpoint, Unsubscribe(u, es)
        PROVE  HistoryGrows
    BY <2>3 DEF Unsubscribe, Remove, HistoryGrows
  <2> QED BY <2>1, <2>2, <2>3
<1>5. ASSUME NEW e \in Endpoint, Expire(e)
      PROVE  HistoryGrows
  BY <1>5 DEF Expire, HistoryGrows, history
<1>6. CASE UNCHANGED vars
  BY <1>6 DEF vars, tables, history, HistoryGrows
<1> QED BY <1>1, <1>2, <1>3, <1>4, <1>5, <1>6 DEF Next

-----------------------------------------------------------------------------
(* Type correctness *)

LEMMA StoredTypes ==
  ASSUME TypeOK, NEW r \in Request, NEW row \in Subscription, StoreSubscription(r, row)
  PROVE  /\ subs' \subseteq Subscription
         /\ UNCHANGED <<notifs, gone, delivery, history>>
BY DEF TypeOK, StoreSubscription

(* The rest of TypeOK, of a step of request r. *)
StateTypes ==
  /\ notifs \subseteq Notification /\ subs \subseteq Subscription /\ gone \subseteq Endpoint
  /\ lookups \cup announced \cup lost \cup removed \cup dismissed \cup racing \subseteq Request
  /\ pushes \subseteq Push
  /\ due \cup handled \subseteq Request \X Request

LEMMA NotificationTypes ==
  ASSUME Inv, NEW r \in Request,
         InsertNotification(r) \/ UpdateNotification(r) \/ ReinsertNotification(r)
  PROVE  StateTypes'
<1>1. HandlerAgrees(r) /\ TypeOK
  BY DEF Inv, Coherent
<1>2. UNCHANGED <<subs, gone, delivery, history>>
  BY DEF InsertNotification, UpdateNotification, ReinsertNotification
<1>3. CASE InsertNotification(r)
  <2>1. req[r].op = "create"
    BY <1>1, <1>3 DEF InsertNotification, At, HandlerAgrees, MarkAgrees, SubscribeAgrees, TypeOK,
                      Req, MarkPC, SubscribePC, SavingPC, StoringPC
  <2>2. req[r].user \in User /\ req[r].peer \in User
    BY <1>1, <2>1 DEF HandlerAgrees, CreateAgrees
  <2>3. [id |-> r, recipient |-> req[r].user, actor |-> req[r].peer, isRead |-> FALSE]
          \in Notification
    BY <2>2 DEF Notification
  <2>4. notifs' \subseteq Notification
    BY <1>1, <1>3, <2>3 DEF InsertNotification, TypeOK
  <2> QED BY <1>1, <1>2, <2>4 DEF StateTypes, TypeOK, delivery, history
<1>4. CASE UpdateNotification(r)
  <2>1. ASSUME NEW n \in notifs
        PROVE  [n EXCEPT !.isRead = TRUE] \in Notification /\ n \in Notification
    BY <1>1 DEF TypeOK, Notification
  <2>2. notifs' \subseteq Notification
    BY <1>4, <2>1 DEF UpdateNotification
  <2> QED BY <1>1, <1>2, <2>2 DEF StateTypes, TypeOK, delivery, history
<1>5. CASE ReinsertNotification(r)
  <2>1. req[r].op = "markAsRead"
    BY <1>1, <1>5 DEF ReinsertNotification, At, HandlerAgrees, CreateAgrees, SubscribeAgrees,
                      TypeOK, Req, CreatePC, SubscribePC, StoringPC
  <2>2. req[r].copy \in Notification
    BY <1>1, <1>5, <2>1 DEF ReinsertNotification, At, HandlerAgrees, MarkAgrees, SavingPC
  <2>3. notifs' \subseteq Notification
    BY <1>1, <1>5, <2>2 DEF ReinsertNotification, TypeOK
  <2> QED BY <1>1, <1>2, <2>3 DEF StateTypes, TypeOK, delivery, history
<1> QED BY <1>3, <1>4, <1>5

LEMMA SubscriptionTypes ==
  ASSUME Inv, NEW r \in Request, InsertSubscription(r) \/ ReinsertSubscription(r)
  PROVE  StateTypes'
<1>1. HandlerAgrees(r) /\ TypeOK
  BY DEF Inv, Coherent
<1>2. req[r].op = "subscribe"
  BY <1>1 DEF InsertSubscription, ReinsertSubscription, At, HandlerAgrees, CreateAgrees,
              MarkAgrees, TypeOK, Req, CreatePC, MarkPC, SavingPC
<1>3. PICK row \in Subscription : StoreSubscription(r, row)
  <2>1. CASE InsertSubscription(r)
    <3>1. req[r].user \in User /\ req[r].endpoint \in Endpoint
      BY <1>1, <1>2 DEF HandlerAgrees, SubscribeAgrees
    <3>2. [id |-> r, user |-> req[r].user, endpoint |-> req[r].endpoint] \in Subscription
      BY <3>1 DEF Subscription
    <3> QED BY <2>1, <3>2 DEF InsertSubscription
  <2>2. CASE ReinsertSubscription(r)
    <3>1. req[r].copy \in Subscription
      BY <1>1, <1>2, <2>2 DEF ReinsertSubscription, At, HandlerAgrees, SubscribeAgrees, StoringPC
    <3> QED BY <2>2, <3>1 DEF ReinsertSubscription
  <2> QED BY <2>1, <2>2
<1> QED BY <1>1, <1>3, StoredTypes DEF StateTypes, TypeOK, delivery, history

LEMMA PushTypes ==
  ASSUME Inv, NEW p \in pushes, Send(p) \/ Prune(p)
  PROVE  StateTypes'
<1>1. p \in Push /\ p.about \in Request /\ p.sub \in Subscription /\ p.sub.id \in Request
  BY DEF Inv, TypeOK, Push, Subscription
<1>2. [p EXCEPT !.pc = "prune"] \in Push
  BY <1>1 DEF Push
<1>3. CASE Send(p)
  <2>1. pushes' \subseteq Push
    BY <1>2, <1>3 DEF Send, Inv, TypeOK
  <2>2. handled' \subseteq Request \X Request
    BY <1>1, <1>3 DEF Send, Inv, TypeOK
  <2> QED BY <1>3, <2>1, <2>2 DEF Send, StateTypes, Inv, TypeOK, tables
<1>4. CASE Prune(p)
  <2>1. /\ pushes' \subseteq pushes /\ subs' \subseteq subs
        /\ removed' = removed \cup Ids({s \in subs : s.id = p.sub.id})
        /\ racing' \subseteq Request
    BY <1>4 DEF Prune, Remove, Holding, Inv, TypeOK
  <2>2. removed' \subseteq Request
    BY <2>1 DEF Ids, Inv, TypeOK, Subscription
  <2> QED BY <1>4, <2>1, <2>2 DEF Prune, StateTypes, Inv, TypeOK
<1> QED BY <1>3, <1>4

LEMMA DeliveryTypes ==
  ASSUME Inv, NEW r \in Request, Announce(r) \/ FindSubs(r) \/ FailPush(r)
  PROVE  StateTypes'
<1>1. CASE Announce(r)
  <2>1. \A s \in SubsOf(req[r].user) : s.id \in Request
    BY DEF SubsOf, Inv, TypeOK, Subscription
  <2>2. due' \subseteq Request \X Request /\ lookups' \subseteq Request
        /\ announced' \subseteq Request
    BY <1>1, <2>1 DEF Announce, Inv, TypeOK
  <2> QED BY <1>1, <2>2 DEF Announce, StateTypes, Inv, TypeOK, tables
<1>2. CASE FindSubs(r)
  <2>1. ASSUME NEW s \in SubsOf(req[r].user)
        PROVE  [about |-> r, sub |-> s, pc |-> "send"] \in Push
    BY <2>1 DEF SubsOf, Inv, TypeOK, Push
  <2>2. pushes' \subseteq Push /\ lookups' \subseteq Request
    BY <1>2, <2>1 DEF FindSubs, Inv, TypeOK
  <2> QED BY <1>2, <2>2 DEF FindSubs, StateTypes, Inv, TypeOK, tables, history
<1>3. CASE FailPush(r)
  BY <1>3 DEF FailPush, StateTypes, Inv, TypeOK, tables
<1> QED BY <1>1, <1>2, <1>3

LEMMA UserTypes ==
  ASSUME Inv, NEW u \in User
  PROVE  /\ MarkAllAsRead(u) => StateTypes'
         /\ \A n \in Request : Dismiss(u, n) => StateTypes'
         /\ \A es \in SUBSET Endpoint : Unsubscribe(u, es) => StateTypes'
<1>1. ASSUME MarkAllAsRead(u)
      PROVE  StateTypes'
  <2>1. ASSUME NEW n \in notifs
        PROVE  [n EXCEPT !.isRead = TRUE] \in Notification /\ n \in Notification
    BY DEF Inv, TypeOK, Notification
  <2>2. notifs' \subseteq Notification
    BY <1>1, <2>1 DEF MarkAllAsRead
  <2> QED BY <1>1, <2>2 DEF MarkAllAsRead, StateTypes, Inv, TypeOK, delivery, history
<1>2. ASSUME NEW n \in Request, Dismiss(u, n)
      PROVE  StateTypes'
  BY <1>2 DEF Dismiss, Holding, StateTypes, Inv, TypeOK, delivery
<1>3. ASSUME NEW es \in SUBSET Endpoint, Unsubscribe(u, es)
      PROVE  StateTypes'
  <2>1. /\ subs' \subseteq subs /\ racing' \subseteq Request
        /\ removed' \subseteq removed \cup Ids(subs)
    BY <1>3 DEF Unsubscribe, Remove, SubsOf, Ids, Holding, Inv, TypeOK
  <2>2. Ids(subs) \subseteq Request
    BY DEF Ids, Inv, TypeOK, Subscription
  <2> QED BY <1>3, <2>1, <2>2 DEF Unsubscribe, StateTypes, Inv, TypeOK, delivery
<1> QED BY <1>1, <1>2, <1>3

LEMMA TypeOKStep ==
  ASSUME Inv, [Next]_vars
  PROVE  TypeOK'
<1>1. TypeOK /\ StateTypes
  BY DEF Inv, TypeOK, StateTypes
<1>2. ASSUME UNCHANGED <<tables, delivery, history>>
      PROVE  StateTypes'
  BY <1>1, <1>2 DEF StateTypes, tables, delivery, history
<1>3. ASSUME NEW r \in Request, Call(r) \/ Step(r) \/ Fail(r) \/ FailPush(r)
      PROVE  StateTypes'
  <2>1. CASE Call(r)
    BY <1>1, <1>2, <2>1, CallStarts
  <2>2. CASE Fail(r)
    BY <1>2, <2>2 DEF Fail
  <2>3. CASE FailPush(r)
    BY <2>3, DeliveryTypes
  <2>4. CASE Step(r)
    BY <1>1, <1>2, <2>4, NotificationTypes, SubscriptionTypes, DeliveryTypes,
       FindNotificationMoves, SelectNotificationMoves, FindSubscriptionMoves,
       SelectSubscriptionMoves DEF Step
  <2> QED BY <1>3, <2>1, <2>2, <2>3, <2>4
<1>4. ASSUME NEW e \in Endpoint, Expire(e)
      PROVE  StateTypes'
  BY <1>1, <1>4 DEF Expire, StateTypes, delivery, history
<1>5. ASSUME UNCHANGED vars
      PROVE  StateTypes'
  BY <1>2, <1>5 DEF vars
<1>6. StateTypes'
  BY <1>3, <1>4, <1>5, PushTypes, UserTypes DEF Next
<1> QED BY <1>1, <1>6, Lasts DEF Lasting, StateTypes, TypeOK

-----------------------------------------------------------------------------
(* What a step does to what is known of ids, rows and handlers *)

LEMMA InvLasts ==
  ASSUME Inv, [Next]_vars
  PROVE  TypeOK /\ TypeOK' /\ Lasting /\ HistoryGrows
BY Lasts, HistoryLasts, TypeOKStep DEF Inv

(* The operation a call at a statement belongs to. *)
LEMMA OpsAt ==
  ASSUME Inv, NEW r \in Request
  PROVE  /\ req[r].pc \in {"insertNotification", "reload"} => req[r].op = "create"
         /\ req[r].pc \in {"findNotification"} \cup SavingPC => req[r].op = "markAsRead"
         /\ req[r].pc \in {"findSubscription", "insertSubscription"} \cup StoringPC
              => req[r].op = "subscribe"
<1>1. HandlerAgrees(r) /\ req[r] \in Req
  BY DEF Inv, Coherent, TypeOK
<1>2. req[r].op \in {"none", "create", "markAsRead", "subscribe"}
  BY <1>1 DEF Req
<1> QED BY <1>1, <1>2 DEF HandlerAgrees, CreateAgrees, MarkAgrees, SubscribeAgrees,
                          CreatePC, MarkPC, SubscribePC, SavingPC, StoringPC

LEMMA IssuedLasts ==
  ASSUME Inv, [Next]_vars, NEW s, Issued(s)
  PROVE  Issued(s)'
BY InvLasts DEF Issued, Lasting

LEMMA StoredLasts ==
  ASSUME Inv, [Next]_vars, NEW i, Stored(i)
  PROVE  Stored(i)'
<1>1. /\ TypeOK /\ Lasting /\ HistoryGrows /\ i \in Request /\ req[i].op = "create"
      /\ i \in announced \/ req[i].pc \in {"reload", "failed"}
  BY InvLasts DEF Stored
<1>2. CASE i \in announced
  <2>1. req'[i].op = "create"
    <3>1. req[i].pc # "idle"
      BY <1>1, <1>2 DEF Inv, Coherent, AnnouncementsAgree
    <3> QED BY <1>1, <3>1 DEF Lasting, SameCall
  <2> QED BY <1>1, <1>2, <2>1 DEF HistoryGrows, Stored
<1>3. CASE req[i].pc = "failed"
  BY <1>1, <1>3 DEF Lasting, Stored
<1>4. CASE req[i].pc = "reload"
  <2>1. req'[i].op = "create"
    BY <1>1, <1>4 DEF Lasting, SameCall
  <2>2. i \in announced' \/ req'[i].pc \in {"reload", "failed"}
    <3>1. CASE req'[i] = req[i]
      BY <1>4, <3>1
    <3>2. CASE Announce(i)
      BY <3>2 DEF Announce
    <3>3. CASE Fail(i)
      BY <1>1, <3>3, GoToMoves DEF Fail
    <3>4. ASSUME NEW r \in Request, Call(r), Starts(r)
          PROVE  req'[i] = req[i]
      BY <1>1, <1>4, <3>4 DEF Starts, Only
    <3>5. ASSUME NEW r \in Request, Step(r) \/ Fail(r), ~FindSubs(r), Moves(r), r # i
          PROVE  req'[i] = req[i]
      BY <1>1, <3>5 DEF Moves, Only
    <3>6. ASSUME Step(i), ~FindSubs(i)
          PROVE  Announce(i)
      BY <1>4, <3>6
         DEF Step, InsertNotification, FindNotification, SelectNotification, UpdateNotification,
             ReinsertNotification, FindSubscription, SelectSubscription, InsertSubscription,
             ReinsertSubscription, At
    <3> QED BY <1>1, <3>1, <3>2, <3>3, <3>4, <3>5, <3>6, ReqMoves
  <2> QED BY <1>1, <2>1, <2>2 DEF Stored
<1> QED BY <1>1, <1>2, <1>3, <1>4

(* Same ids, same rows. *)
LEMMA OneRowPerId ==
  ASSUME TypeOK, NEW s \in Subscription, NEW t \in Subscription, Issued(s), Issued(t), s.id = t.id
  PROVE  s = t
BY DEF Issued, Subscription

(* Reading flags keeps the ids; only a dismissal takes one away. *)
LEMMA NotificationsStay ==
  ASSUME TypeOK, [Next]_vars
  PROVE  \/ Ids(notifs)' = Ids(notifs) /\ dismissed' = dismissed
         \/ \E r \in Request : /\ InsertNotification(r) /\ dismissed' = dismissed
                               /\ Ids(notifs)' = Ids(notifs) \cup {r}
         \/ \E r \in Request : /\ ReinsertNotification(r) /\ dismissed' = dismissed
                               /\ Ids(notifs)' = Ids(notifs) \cup {req[r].copy.id}
                               /\ req'[r].pc = "done"
         \/ \E n \in Request : /\ n \in Ids(notifs) /\ Ids(notifs)' = Ids(notifs) \ {n}
                               /\ dismissed' = dismissed \cup {n} /\ req' = req
                               /\ racing' = racing \cup {r \in Holding({n}) :
                                                           req[r].op = "markAsRead"}
<1> DEFINE Read(n) == [n EXCEPT !.isRead = TRUE]
<1>1. ASSUME NEW n \in notifs
      PROVE  Read(n).id = n.id
  BY DEF TypeOK, Notification
<1>2. ASSUME NEW u \in User, MarkAllAsRead(u)
      PROVE  Ids(notifs)' = Ids(notifs) /\ dismissed' = dismissed
  <2>1. notifs' = {IF n.recipient = u THEN Read(n) ELSE n : n \in notifs}
    BY <1>2 DEF MarkAllAsRead
  <2> HIDE DEF Read
  <2>2. Ids(notifs') = Ids(notifs)
    BY <1>1, <2>1 DEF Ids
  <2> QED BY <1>2, <2>2 DEF MarkAllAsRead, history, Ids
<1>3. ASSUME NEW r \in Request, UpdateNotification(r)
      PROVE  Ids(notifs)' = Ids(notifs) /\ dismissed' = dismissed
  <2>1. notifs' = {IF n.id = req[r].copy.id THEN Read(n) ELSE n : n \in notifs}
    BY <1>3 DEF UpdateNotification
  <2> HIDE DEF Read
  <2>2. Ids(notifs') = Ids(notifs)
    BY <1>1, <2>1 DEF Ids
  <2> QED BY <1>3, <2>2 DEF UpdateNotification, history, Ids
<1>4. ASSUME NEW r \in Request, InsertNotification(r)
      PROVE  Ids(notifs)' = Ids(notifs) \cup {r} /\ dismissed' = dismissed
  <2> DEFINE new == [id |-> r, recipient |-> req[r].user, actor |-> req[r].peer, isRead |-> FALSE]
  <2>1. notifs' = notifs \cup {new} /\ dismissed' = dismissed /\ new.id = r
    BY <1>4 DEF InsertNotification, history
  <2> HIDE DEF new
  <2> QED BY <2>1 DEF Ids
<1>5. ASSUME NEW r \in Request, ReinsertNotification(r)
      PROVE  \/ Ids(notifs)' = Ids(notifs) /\ dismissed' = dismissed
             \/ /\ Ids(notifs)' = Ids(notifs) \cup {req[r].copy.id} /\ dismissed' = dismissed
                /\ req'[r].pc = "done"
  <2>1. dismissed' = dismissed
    BY <1>5 DEF ReinsertNotification, history
  <2>2. CASE req[r].copy.id \in Ids(notifs)
    BY <1>5, <2>1, <2>2 DEF ReinsertNotification, Ids
  <2>3. CASE req[r].copy.id \notin Ids(notifs)
    <3>1. notifs' = notifs \cup {req[r].copy} /\ GoTo(r, "done")
      BY <1>5, <2>3 DEF ReinsertNotification
    <3> QED BY <2>1, <3>1, GoToMoves DEF Ids
  <2> QED BY <2>2, <2>3
<1>6. ASSUME NEW u \in User, NEW n \in Request, Dismiss(u, n)
      PROVE  /\ n \in Ids(notifs) /\ Ids(notifs)' = Ids(notifs) \ {n}
             /\ dismissed' = dismissed \cup {n} /\ req' = req
             /\ racing' = racing \cup {r \in Holding({n}) : req[r].op = "markAsRead"}
  BY <1>6 DEF Dismiss, Ids
<1>7. ASSUME UNCHANGED <<notifs, dismissed>>
      PROVE  Ids(notifs)' = Ids(notifs) /\ dismissed' = dismissed
  BY <1>7 DEF Ids
<1>8. ASSUME NEW r \in Request, Call(r) \/ Step(r) \/ Fail(r) \/ FailPush(r),
             ~InsertNotification(r), ~UpdateNotification(r), ~ReinsertNotification(r)
      PROVE  UNCHANGED <<notifs, dismissed>>
  <2>1. CASE Call(r)
    BY <2>1, CallStarts DEF tables, history
  <2>2. CASE Step(r) \/ Fail(r) \/ FailPush(r)
    BY <1>8, <2>2
       DEF Step, Fail, FailPush, Announce, FindNotification, SelectNotification,
           FindSubscription, SelectSubscription, InsertSubscription, ReinsertSubscription,
           StoreSubscription, FindSubs, tables, history
  <2> QED BY <1>8, <2>1, <2>2
<1>9. ASSUME NEW p \in pushes, Send(p) \/ Prune(p)
      PROVE  UNCHANGED <<notifs, dismissed>>
  BY <1>9 DEF Send, Prune, tables
<1>10. ASSUME NEW u \in User, NEW es \in SUBSET Endpoint, Unsubscribe(u, es)
       PROVE  UNCHANGED <<notifs, dismissed>>
  BY <1>10 DEF Unsubscribe
<1>11. ASSUME NEW e \in Endpoint, Expire(e)
       PROVE  UNCHANGED <<notifs, dismissed>>
  BY <1>11 DEF Expire, history
<1>12. ASSUME UNCHANGED vars
       PROVE  UNCHANGED <<notifs, dismissed>>
  BY <1>12 DEF vars, tables, history
<1> HIDE DEF Read
<1> QED BY <1>2, <1>3, <1>4, <1>5, <1>6, <1>7, <1>8, <1>9, <1>10, <1>11, <1>12 DEF Next

(* The row a subscribe is about to store. *)
RowToStore(r) ==
  IF req[r].pc = "insertSubscription"
  THEN [id |-> r, user |-> req[r].user, endpoint |-> req[r].endpoint]
  ELSE req[r].copy

Stores(r, row) ==
  /\ req[r].pc \in {"insertSubscription", "reinsertSubscription"}
  /\ row = RowToStore(r) /\ row \notin subs
  /\ Moves(r) /\ req'[r].pc = "done"
  /\ subs' = subs \cup {row} /\ removed' = removed

LEMMA SubscriptionsStay ==
  ASSUME TypeOK, [Next]_vars
  PROVE  \/ subs' = subs /\ removed' = removed
         \/ \E r \in Request : \E row : Stores(r, row)
         \/ \E rows \in SUBSET subs : Remove(rows) /\ req' = req
<1>1. ASSUME NEW r \in Request, InsertSubscription(r) \/ ReinsertSubscription(r)
      PROVE  \/ subs' = subs /\ removed' = removed
             \/ \E row : Stores(r, row)
  <2>1. PICK row : /\ row = RowToStore(r) /\ StoreSubscription(r, row)
                   /\ req[r].pc \in {"insertSubscription", "reinsertSubscription"}
    BY <1>1 DEF InsertSubscription, ReinsertSubscription, RowToStore, At
  <2>2. removed' = removed
    BY <2>1 DEF StoreSubscription, history
  <2>3. CASE \E s \in SubsOf(row.user) : s.endpoint = row.endpoint
    BY <2>1, <2>2, <2>3 DEF StoreSubscription
  <2>4. CASE ~\E s \in SubsOf(row.user) : s.endpoint = row.endpoint
    <3>1. GoTo(r, "done") /\ subs' = subs \cup {row} /\ row \notin subs
      BY <2>1, <2>4 DEF StoreSubscription, SubsOf
    <3>2. Moves(r) /\ req'[r].pc = "done"
      BY <2>1, <3>1, GoToRuns, GoToMoves DEF Running
    <3> QED BY <2>1, <2>2, <3>1, <3>2 DEF Stores
  <2> QED BY <2>3, <2>4
<1>2. ASSUME NEW p \in pushes, Send(p) \/ Prune(p)
      PROVE  \/ subs' = subs /\ removed' = removed
             \/ \E rows \in SUBSET subs : Remove(rows) /\ req' = req
  <2>1. CASE Send(p)
    BY <2>1 DEF Send, tables
  <2>2. CASE Prune(p)
    <3>1. {s \in subs : s.id = p.sub.id} \in SUBSET subs
      OBVIOUS
    <3> QED BY <2>2, <3>1 DEF Prune
  <2> QED BY <1>2, <2>1, <2>2
<1>3. ASSUME NEW u \in User, NEW es \in SUBSET Endpoint, Unsubscribe(u, es)
      PROVE  \E rows \in SUBSET subs : Remove(rows) /\ req' = req
  <2>1. {s \in SubsOf(u) : s.endpoint \in es} \in SUBSET subs
    BY DEF SubsOf
  <2> QED BY <1>3, <2>1 DEF Unsubscribe
<1>4. ASSUME NEW r \in Request, Call(r) \/ Step(r) \/ Fail(r) \/ FailPush(r),
             ~InsertSubscription(r), ~ReinsertSubscription(r)
      PROVE  subs' = subs /\ removed' = removed
  <2>1. CASE Call(r)
    BY <2>1, CallStarts DEF tables, history
  <2>2. CASE Step(r) \/ Fail(r) \/ FailPush(r)
    BY <1>4, <2>2
       DEF Step, Fail, FailPush, Announce, InsertNotification, FindNotification,
           SelectNotification, UpdateNotification, ReinsertNotification, FindSubscription,
           SelectSubscription, FindSubs, tables, history
  <2> QED BY <1>4, <2>1, <2>2
<1>5. ASSUME NEW u \in User
      PROVE  /\ MarkAllAsRead(u) => subs' = subs /\ removed' = removed
             /\ \A n \in Request : Dismiss(u, n) => subs' = subs /\ removed' = removed
  BY DEF MarkAllAsRead, Dismiss, history
<1>6. ASSUME NEW e \in Endpoint, Expire(e)
      PROVE  subs' = subs /\ removed' = removed
  BY <1>6 DEF Expire, history
<1>7. ASSUME UNCHANGED vars
      PROVE  subs' = subs /\ removed' = removed
  BY <1>7 DEF vars, tables, history
<1> QED BY <1>1, <1>2, <1>3, <1>4, <1>5, <1>6, <1>7 DEF Next

(* When a row goes, the calls that hold a copy of it are known to race. *)
LEMMA HoldersRace ==
  ASSUME Inv, [Next]_vars, NEW r \in Request
  PROVE  /\ req[r].pc \in SavingPC =>
              req[r].target \in Ids(notifs)' \/ r \in racing'
         /\ req[r].pc \in StoringPC =>
              \A s : s = req[r].copy => s \in subs' \/ r \in racing'
<1>1. HandlerAgrees(r) /\ TypeOK /\ racing \subseteq racing'
  BY InvLasts DEF Inv, Coherent, HistoryGrows
<1>2. ASSUME req[r].pc \in SavingPC
      PROVE  req[r].target \in Ids(notifs)' \/ r \in racing'
  <2>1. /\ req[r].op = "markAsRead" /\ req[r].copy \in Notification
        /\ req[r].copy.id = req[r].target /\ req[r].pc \in Running
        /\ req[r].target \in Ids(notifs) \/ r \in racing
    BY <1>1, <1>2, OpsAt DEF HandlerAgrees, MarkAgrees, SavingPC, Running
  <2>2. CASE r \in racing
    BY <1>1, <2>2
  <2>3. CASE req[r].target \in Ids(notifs) /\ Ids(notifs) \subseteq Ids(notifs)'
    BY <2>3
  <2>4. ASSUME NEW n \in Request, Ids(notifs)' = Ids(notifs) \ {n},
               racing' = racing \cup {i \in Holding({n}) : req[i].op = "markAsRead"},
               req[r].target \in Ids(notifs)
        PROVE  req[r].target \in Ids(notifs)' \/ r \in racing'
    <3>1. CASE req[r].target = n
      <4>1. req[r].copy # None
        BY <2>1, RowsAssumption
      <4>2. r \in Holding({n})
        BY <2>1, <3>1, <4>1 DEF Holding
      <4> QED BY <2>1, <2>4, <4>2
    <3> QED BY <2>4, <3>1
  <2> QED BY <1>1, <2>1, <2>2, <2>3, <2>4, NotificationsStay
<1>3. ASSUME req[r].pc \in StoringPC, NEW s, s = req[r].copy
      PROVE  s \in subs' \/ r \in racing'
  <2>1. /\ req[r].op = "subscribe" /\ s \in Subscription /\ req[r].pc \in Running
        /\ s \in subs \/ r \in racing
    BY <1>1, <1>3, OpsAt DEF HandlerAgrees, SubscribeAgrees, StoringPC, Running
  <2>2. CASE r \in racing
    BY <1>1, <2>2
  <2>3. CASE s \in subs /\ subs \subseteq subs'
    BY <2>3
  <2>4. ASSUME NEW rows \in SUBSET subs, Remove(rows), s \in subs
        PROVE  s \in subs' \/ r \in racing'
    <3>1. CASE s \in rows
      <4>1. req[r].copy # None
        BY <1>3, <2>1, RowsAssumption
      <4>2. req[r].copy.id \in Ids(rows)
        BY <1>3, <3>1 DEF Ids
      <4>3. r \in Holding(Ids(rows))
        BY <2>1, <4>1, <4>2 DEF Holding
      <4> QED BY <2>1, <2>4, <4>3 DEF Remove
    <3> QED BY <2>4, <3>1 DEF Remove
  <2> QED BY <1>1, <2>1, <2>2, <2>3, <2>4, SubscriptionsStay DEF Stores
<1> QED BY <1>2, <1>3

-----------------------------------------------------------------------------
(* The handlers *)

(* A handler that does not move still agrees with the tables. *)
LEMMA WaitingAgrees ==
  ASSUME Inv, [Next]_vars, NEW r \in Request, req'[r] = req[r]
  PROVE  HandlerAgrees(r)'
<1>1. HandlerAgrees(r) /\ HistoryGrows
  BY InvLasts DEF Inv, Coherent
<1>2. ASSUME req[r].op = "create"
      PROVE  CreateAgrees(r)'
  BY <1>1, <1>2 DEF HandlerAgrees, CreateAgrees, HistoryGrows
<1>3. ASSUME req[r].op = "markAsRead"
      PROVE  MarkAgrees(r)'
  <2>1. ASSUME req[r].pc \in SavingPC
        PROVE  /\ Stored(req[r].target)'
               /\ req[r].target \in Ids(notifs)' \/ r \in racing'
    <3>1. PICK n : n = req[r].target
      OBVIOUS
    <3>2. Stored(n)'
      BY <1>1, <1>3, <2>1, <3>1, StoredLasts DEF HandlerAgrees, MarkAgrees
    <3>3. n = req'[r].target
      BY <3>1
    <3> QED BY <2>1, <3>1, <3>2, <3>3, HoldersRace
  <2> QED BY <1>1, <1>3, <2>1 DEF HandlerAgrees, MarkAgrees
<1>4. ASSUME req[r].op = "subscribe"
      PROVE  SubscribeAgrees(r)'
  <2>1. ASSUME req[r].pc \in StoringPC
        PROVE  /\ Issued(req[r].copy)'
               /\ req[r].copy \in subs' \/ r \in racing'
    <3>1. PICK s : s = req[r].copy
      OBVIOUS
    <3>2. Issued(s)'
      BY <1>1, <1>4, <2>1, <3>1, IssuedLasts DEF HandlerAgrees, SubscribeAgrees
    <3>3. s = req'[r].copy
      BY <3>1
    <3> QED BY <2>1, <3>1, <3>2, <3>3, HoldersRace
  <2> QED BY <1>1, <1>4, <2>1 DEF HandlerAgrees, SubscribeAgrees
<1> QED BY <1>1, <1>2, <1>3, <1>4 DEF HandlerAgrees

LEMMA StartedAgrees ==
  ASSUME NEW r \in Request, Starts(r)
  PROVE  HandlerAgrees(r)'
BY DEF Starts, HandlerAgrees, CreateAgrees, MarkAgrees, SubscribeAgrees,
       CreatePC, MarkPC, SavingPC, SubscribePC, StoringPC

(* A handler that goes on agrees with what it has just read or written. *)
LEMMA CreateMoves ==
  ASSUME Inv, [Next]_vars, NEW r \in Request, Step(r) \/ Fail(r), ~FindSubs(r),
         req[r].op = "create"
  PROVE  CreateAgrees(r)'
<1>1. /\ Moves(r) /\ CreateAgrees(r) /\ TypeOK
      /\ req[r].pc \in {"insertNotification", "reload"}
  BY StepMoves DEF Inv, Coherent, HandlerAgrees, Moves, CreateAgrees, CreatePC, Running
<1>2. \/ req'[r].pc \in {"reload", "failed"}
      \/ req'[r].pc = "done" /\ r \in announced'
  <2>1. CASE InsertNotification(r)
    BY <1>1, <2>1, GoToMoves DEF InsertNotification
  <2>2. CASE Announce(r)
    BY <1>1, <2>2, GoToMoves DEF Announce
  <2>3. CASE Fail(r)
    BY <1>1, <2>3, GoToMoves DEF Fail
  <2> QED BY <1>1, <2>1, <2>2, <2>3
       DEF Step, FindNotification, SelectNotification, UpdateNotification,
           ReinsertNotification, FindSubscription, SelectSubscription, InsertSubscription,
           ReinsertSubscription, At
<1> QED BY <1>1, <1>2 DEF CreateAgrees, Moves, SameCall, CreatePC

LEMMA MarkMoves ==
  ASSUME Inv, [Next]_vars, NEW r \in Request, Step(r) \/ Fail(r), ~FindSubs(r),
         req[r].op = "markAsRead"
  PROVE  MarkAgrees(r)'
<1>1. /\ Moves(r) /\ MarkAgrees(r) /\ TypeOK
      /\ req[r].pc \in {"findNotification"} \cup SavingPC
  BY StepMoves DEF Inv, Coherent, HandlerAgrees, Moves, MarkAgrees, MarkPC, SavingPC, Running
<1>2. CASE req'[r].pc \in {"done", "failed"}
  BY <1>2 DEF MarkAgrees, MarkPC, SavingPC
<1>3. CASE FindNotification(r) /\ req'[r].pc \notin {"done", "failed"}
  <2>1. PICK n : /\ n = req[r].target /\ n \in Ids(notifs) /\ req'[r].copy.id = n
                 /\ req'[r].pc = "selectNotification" /\ req'[r].copy \in Notification
                 /\ UNCHANGED tables
    BY <1>1, <1>3, FindNotificationMoves DEF Ids
  <2>2. Stored(n)'
    BY <2>1, StoredLasts DEF Inv, Coherent, NotificationsAgree
  <2>3. req'[r].target = n
    BY <1>1, <2>1 DEF Moves, SameCall
  <2>4. n \in Ids(notifs)'
    BY <2>1 DEF tables, Ids
  <2> QED BY <2>1, <2>2, <2>3, <2>4 DEF MarkAgrees, MarkPC, SavingPC
<1>4. CASE SelectNotification(r) /\ req'[r].pc \notin {"done", "failed"}
  <2>1. /\ req[r].pc = "selectNotification" /\ UNCHANGED <<tables, delivery, history>>
        /\ req'[r].pc \in {"reinsertNotification", "updateNotification"}
    BY <1>1, <1>4, SelectNotificationMoves
  <2>2. PICK n : n = req[r].target
    OBVIOUS
  <2>3. Stored(n)'
    BY <1>1, <2>1, <2>2, StoredLasts DEF MarkAgrees, SavingPC
  <2>4. /\ req'[r].target = n /\ req'[r].copy = req[r].copy
        /\ n \in Ids(notifs)' \/ r \in racing'
        /\ req[r].copy \in Notification /\ req[r].copy.id = n
    BY <1>1, <2>1, <2>2, HoldersRace DEF MarkAgrees, SavingPC, Moves, SameCall
  <2> QED BY <2>1, <2>3, <2>4 DEF MarkAgrees, MarkPC, SavingPC
<1>5. CASE UpdateNotification(r)
  BY <1>1, <1>2, <1>5, GoToMoves DEF UpdateNotification
<1>6. CASE ReinsertNotification(r)
  BY <1>1, <1>2, <1>6, GoToMoves DEF ReinsertNotification
<1>7. CASE Fail(r)
  BY <1>1, <1>2, <1>7, GoToMoves DEF Fail
<1> QED BY <1>1, <1>2, <1>3, <1>4, <1>5, <1>6, <1>7
     DEF Step, InsertNotification, Announce, FindSubscription, SelectSubscription,
         InsertSubscription, ReinsertSubscription, At, SavingPC

LEMMA SubscribeMoves ==
  ASSUME Inv, [Next]_vars, NEW r \in Request, Step(r) \/ Fail(r), ~FindSubs(r),
         req[r].op = "subscribe"
  PROVE  SubscribeAgrees(r)'
<1>1. /\ Moves(r) /\ SubscribeAgrees(r) /\ TypeOK
      /\ req[r].pc \in {"findSubscription", "insertSubscription"} \cup StoringPC
  BY StepMoves DEF Inv, Coherent, HandlerAgrees, Moves, SubscribeAgrees, SubscribePC,
                   StoringPC, Running
<1>2. req'[r].user \in User /\ req'[r].endpoint \in Endpoint
  BY <1>1 DEF SubscribeAgrees, Moves, SameCall
<1>3. CASE req'[r].pc \in {"done", "failed", "insertSubscription"}
  BY <1>2, <1>3 DEF SubscribeAgrees, SubscribePC, StoringPC
<1>4. CASE FindSubscription(r) /\ req'[r].pc # "insertSubscription"
  <2>1. PICK s : /\ s = req'[r].copy /\ s \in subs /\ req'[r].pc = "selectSubscription"
                 /\ UNCHANGED tables
    BY <1>1, <1>4, FindSubscriptionMoves
  <2>2. Issued(s)' /\ s \in Subscription /\ s \in subs'
    BY <1>1, <2>1, IssuedLasts DEF Inv, Coherent, SubscriptionsAgree, TypeOK, tables
  <2> QED BY <1>2, <2>1, <2>2 DEF SubscribeAgrees, SubscribePC, StoringPC
<1>5. CASE SelectSubscription(r) /\ req'[r].pc # "done"
  <2>1. /\ req[r].pc = "selectSubscription" /\ req'[r].pc = "reinsertSubscription"
    BY <1>1, <1>5, SelectSubscriptionMoves
  <2>2. PICK s : s = req[r].copy
    OBVIOUS
  <2>3. s \in Subscription /\ Issued(s)'
    BY <1>1, <2>1, <2>2, IssuedLasts DEF SubscribeAgrees, StoringPC
  <2>4. req'[r].copy = s /\ (s \in subs' \/ r \in racing')
    BY <1>1, <2>1, <2>2, HoldersRace DEF Moves, StoringPC
  <2> QED BY <1>2, <2>1, <2>3, <2>4 DEF SubscribeAgrees, SubscribePC, StoringPC
<1>6. CASE InsertSubscription(r) \/ ReinsertSubscription(r)
  BY <1>1, <1>3, <1>6, GoToMoves DEF InsertSubscription, ReinsertSubscription, StoreSubscription
<1>7. CASE Fail(r)
  BY <1>1, <1>3, <1>7, GoToMoves DEF Fail
<1> QED BY <1>1, <1>3, <1>4, <1>5, <1>6, <1>7
     DEF Step, InsertNotification, Announce, FindNotification, SelectNotification,
         UpdateNotification, ReinsertNotification, At, StoringPC

LEMMA HandlersStep ==
  ASSUME Inv, [Next]_vars
  PROVE  \A r \in Request : HandlerAgrees(r)'
<1> SUFFICES ASSUME NEW r \in Request
             PROVE  HandlerAgrees(r)'
  OBVIOUS
<1>1. TypeOK
  BY DEF Inv
<1>2. CASE req'[r] = req[r]
  BY <1>2, WaitingAgrees
<1>3. CASE Starts(r)
  BY <1>3, StartedAgrees
<1>4. ASSUME Step(r) \/ Fail(r), ~FindSubs(r), Moves(r)
      PROVE  HandlerAgrees(r)'
  <2>1. /\ req'[r].op = req[r].op /\ req[r].pc # "idle" /\ req'[r].pc # "idle"
        /\ req[r].op # "none"
    BY <1>4 DEF Moves, SameCall, Running, Inv, Coherent, HandlerAgrees
  <2> QED BY <1>4, <2>1, CreateMoves, MarkMoves, SubscribeMoves DEF HandlerAgrees
<1>5. ASSUME NEW i \in Request, Starts(i) \/ Moves(i), i # r
      PROVE  req'[r] = req[r]
  BY <1>5 DEF Starts, Moves, Only
<1> QED BY <1>1, <1>2, <1>3, <1>4, <1>5, ReqMoves

-----------------------------------------------------------------------------
(* Tables, announcements and deliveries *)

LEMMA NotificationsStep ==
  ASSUME Inv, [Next]_vars
  PROVE  NotificationsAgree'
<1>1. /\ TypeOK /\ \A i \in Ids(notifs) \cup dismissed : Stored(i)'
  BY StoredLasts DEF Inv, Coherent, NotificationsAgree
<1>2. ASSUME NEW r \in Request, InsertNotification(r)
      PROVE  Stored(r)'
  <2>1. req[r].op = "create"
    BY <1>2, OpsAt DEF InsertNotification, At
  <2>2. req'[r].op = "create" /\ req'[r].pc = "reload"
    BY <1>1, <1>2, <2>1, GoToMoves DEF InsertNotification, SameCall
  <2> QED BY <2>2 DEF Stored
<1>3. ASSUME NEW r \in Request, ReinsertNotification(r), NEW n, n = req[r].copy.id
      PROVE  Stored(n)'
  <2>1. req[r].pc = "reinsertNotification" /\ req[r].op = "markAsRead"
    BY <1>3, OpsAt DEF ReinsertNotification, At, SavingPC
  <2>2. Stored(n)
    BY <1>3, <2>1 DEF Inv, Coherent, HandlerAgrees, MarkAgrees, SavingPC
  <2> QED BY <2>2, StoredLasts
<1>4. ASSUME NEW i \in (Ids(notifs) \cup dismissed)'
      PROVE  Stored(i)'
  BY <1>1, <1>2, <1>3, NotificationsStay
<1> QED BY <1>4 DEF NotificationsAgree

LEMMA StoresIssued ==
  ASSUME Inv, [Next]_vars, NEW r \in Request, NEW row, Stores(r, row)
  PROVE  Issued(row)' /\ req'[r].op = "subscribe"
<1>1. req[r].op = "subscribe" /\ req'[r].op = "subscribe"
  BY OpsAt DEF Stores, StoringPC, Moves, SameCall
<1>2. CASE req[r].pc = "insertSubscription"
  <2>1. /\ row.id = r /\ row.user = req[r].user /\ row.endpoint = req[r].endpoint
    BY <1>2 DEF Stores, RowToStore
  <2> QED BY <1>1, <2>1 DEF Stores, Moves, SameCall, Issued
<1>3. CASE req[r].pc = "reinsertSubscription"
  <2>1. row = req[r].copy
    BY <1>3 DEF Stores, RowToStore
  <2>2. Issued(row)
    BY <1>1, <1>3, <2>1 DEF Inv, Coherent, HandlerAgrees, SubscribeAgrees, StoringPC
  <2> QED BY <1>1, <2>2, IssuedLasts
<1> QED BY <1>2, <1>3 DEF Stores

LEMMA SubscriptionsStep ==
  ASSUME Inv, [Next]_vars
  PROVE  SubscriptionsAgree'
<1>1. TypeOK /\ Lasting /\ \A s \in subs : Issued(s) /\ Issued(s)'
  BY InvLasts, IssuedLasts DEF Inv, Coherent, SubscriptionsAgree
<1>2. ASSUME NEW s \in subs'
      PROVE  Issued(s)'
  BY <1>1, <1>2, SubscriptionsStay, StoresIssued DEF Stores, Remove
<1>3. ASSUME NEW i \in removed'
      PROVE  req'[i].op = "subscribe" /\ req'[i].pc = "done"
  <2>1. CASE i \in removed
    <3>1. i \in Request /\ req[i].op = "subscribe" /\ req[i].pc = "done"
      BY <2>1 DEF Inv, Coherent, SubscriptionsAgree, TypeOK
    <3> QED BY <1>1, <3>1 DEF Lasting
  <2>2. CASE i \notin removed
    <3>1. PICK s \in subs : i = s.id
      BY <1>1, <1>3, <2>2, SubscriptionsStay DEF Stores, Remove, Ids
    <3>2. req'[s.id].op = "subscribe" /\ req'[s.id].pc = "done"
      BY <1>1, <3>1 DEF Issued, Lasting
    <3> QED BY <3>1, <3>2
  <2> QED BY <2>1, <2>2
<1> QED BY <1>2, <1>3 DEF SubscriptionsAgree

(* A subscription that was there when a notification was announced is there
   still, or was removed: what due says of it lasts. *)
LEMMA DueLasts ==
  ASSUME Inv, [Next]_vars, NEW r \in Request, NEW id,
         req[r].pc = "done" \/ req[r].pc = "reload",
         \/ id \in removed
         \/ \E s \in subs : s.id = id /\ s.user = req[r].user
  PROVE  \/ id \in removed'
         \/ \E s \in subs' : s.id = id /\ s.user = req'[r].user
<1>1. /\ TypeOK /\ removed \subseteq removed' /\ req'[r].user = req[r].user
  BY InvLasts DEF Lasting, SameCall, HistoryGrows
<1>2. CASE id \in removed
  BY <1>1, <1>2
<1>3. ASSUME NEW s \in subs, s.id = id, s.user = req[r].user, s \notin subs'
      PROVE  id \in removed'
  BY <1>1, <1>3, SubscriptionsStay DEF Stores, Remove, Ids
<1> QED BY <1>1, <1>2, <1>3

LEMMA AnnouncedStay ==
  ASSUME TypeOK, [Next]_vars
  PROVE  \/ announced' = announced /\ due' = due /\ lookups' \subseteq lookups
         \/ \E r \in Request : Announce(r)
<1>1. ASSUME NEW r \in Request, Call(r) \/ Step(r) \/ Fail(r) \/ FailPush(r), ~Announce(r)
      PROVE  announced' = announced /\ due' = due /\ lookups' \subseteq lookups
  <2>1. CASE Call(r)
    BY <2>1, CallStarts DEF delivery, history
  <2>2. CASE FindSubs(r) \/ FailPush(r)
    BY <2>2 DEF FindSubs, FailPush, history
  <2>3. CASE Step(r) \/ Fail(r)
    BY <1>1, <2>2, <2>3
       DEF Step, Fail, InsertNotification, FindNotification, SelectNotification,
           UpdateNotification, ReinsertNotification, FindSubscription, SelectSubscription,
           InsertSubscription, ReinsertSubscription, StoreSubscription, delivery, history
  <2> QED BY <1>1, <2>1, <2>2, <2>3
<1>2. ASSUME NEW p \in pushes, Send(p) \/ Prune(p)
      PROVE  announced' = announced /\ due' = due /\ lookups' \subseteq lookups
  BY <1>2 DEF Send, Prune
<1>3. ASSUME NEW u \in User
      PROVE  /\ MarkAllAsRead(u) => UNCHANGED <<announced, due, lookups>>
             /\ \A n \in Request : Dismiss(u, n) => UNCHANGED <<announced, due, lookups>>
             /\ \A es \in SUBSET Endpoint :
                  Unsubscribe(u, es) => UNCHANGED <<announced, due, lookups>>
  BY DEF MarkAllAsRead, Dismiss, Unsubscribe, delivery, history
<1>4. ASSUME NEW e \in Endpoint, Expire(e)
      PROVE  announced' = announced /\ due' = due /\ lookups' \subseteq lookups
  BY <1>4 DEF Expire, delivery, history
<1>5. ASSUME UNCHANGED vars
      PROVE  announced' = announced /\ due' = due /\ lookups' \subseteq lookups
  BY <1>5 DEF vars, delivery, history
<1> QED BY <1>1, <1>2, <1>3, <1>4, <1>5 DEF Next

LEMMA AnnouncementsStep ==
  ASSUME Inv, [Next]_vars
  PROVE  AnnouncementsAgree'
<1>1. /\ TypeOK /\ Lasting
      /\ \A r \in announced : r \in Request /\ req[r].op = "create" /\ req[r].pc = "done"
      /\ lookups \subseteq announced
      /\ \A d \in due : /\ d[1] \in announced
                        /\ \/ d[2] \in removed
                           \/ \E s \in subs : s.id = d[2] /\ s.user = req[d[1]].user
  BY InvLasts DEF Inv, Coherent, AnnouncementsAgree, TypeOK
<1>2. \A r \in announced : req'[r].op = "create" /\ req'[r].pc = "done"
  BY <1>1 DEF Lasting
<1>3. ASSUME NEW d \in due
      PROVE  \/ d[2] \in removed'
             \/ \E s \in subs' : s.id = d[2] /\ s.user = req'[d[1]].user
  <2>1. d[1] \in Request /\ req[d[1]].pc = "done"
    BY <1>1
  <2> QED BY <1>1, <2>1, DueLasts
<1>4. CASE announced' = announced /\ due' = due /\ lookups' \subseteq lookups
  BY <1>1, <1>2, <1>3, <1>4 DEF AnnouncementsAgree
<1>5. ASSUME NEW r \in Request, Announce(r)
      PROVE  AnnouncementsAgree'
  <2>1. /\ announced' = announced \cup {r} /\ req[r].pc = "reload" /\ req'[r].pc = "done"
        /\ due' = due \cup {<<r, s.id>> : s \in SubsOf(req[r].user)}
        /\ lookups' \subseteq lookups \cup {r}
    BY <1>1, <1>5, GoToMoves DEF Announce, At
  <2>2. req'[r].op = "create"
    BY <1>1, <2>1, OpsAt DEF Lasting, SameCall
  <2>3. ASSUME NEW s \in SubsOf(req[r].user)
        PROVE  \/ s.id \in removed'
               \/ \E t \in subs' : t.id = s.id /\ t.user = req'[r].user
    BY <2>1, DueLasts DEF SubsOf
  <2>4. ASSUME NEW d \in due'
        PROVE  /\ d[1] \in announced'
               /\ \/ d[2] \in removed'
                  \/ \E s \in subs' : s.id = d[2] /\ s.user = req'[d[1]].user
    <3>1. CASE d \in due
      BY <1>1, <1>3, <2>1, <3>1
    <3>2. CASE d \notin due
      <4>1. PICK s \in SubsOf(req[r].user) : d = <<r, s.id>>
        BY <2>1, <2>4, <3>2
      <4>2. d[1] = r /\ d[2] = s.id
        BY <4>1
      <4> QED BY <2>1, <2>3, <4>2
    <3> QED BY <3>1, <3>2
  <2> QED BY <1>1, <1>2, <2>1, <2>2, <2>4 DEF AnnouncementsAgree
<1> QED BY <1>1, <1>4, <1>5, AnnouncedStay

LEMMA PushesStay ==
  ASSUME TypeOK, [Next]_vars
  PROVE  \/ pushes' = pushes /\ lookups \subseteq lookups'
         \/ \E r \in Request : FindSubs(r) \/ FailPush(r)
         \/ \E p \in pushes : Send(p) \/ Prune(p)
<1>1. ASSUME NEW r \in Request, Call(r) \/ Step(r) \/ Fail(r), ~FindSubs(r)
      PROVE  pushes' = pushes /\ lookups \subseteq lookups'
  <2>1. CASE Call(r)
    BY <2>1, CallStarts DEF delivery
  <2>2. CASE Announce(r)
    BY <2>2 DEF Announce
  <2>3. CASE (Step(r) \/ Fail(r)) /\ ~Announce(r)
    BY <1>1, <2>3
       DEF Step, Fail, InsertNotification, FindNotification, SelectNotification,
           UpdateNotification, ReinsertNotification, FindSubscription, SelectSubscription,
           InsertSubscription, ReinsertSubscription, StoreSubscription, delivery
  <2> QED BY <1>1, <2>1, <2>2, <2>3
<1>2. ASSUME NEW u \in User
      PROVE  /\ MarkAllAsRead(u) => UNCHANGED <<pushes, lookups>>
             /\ \A n \in Request : Dismiss(u, n) => UNCHANGED <<pushes, lookups>>
             /\ \A es \in SUBSET Endpoint : Unsubscribe(u, es) => UNCHANGED <<pushes, lookups>>
  BY DEF MarkAllAsRead, Dismiss, Unsubscribe, delivery
<1>3. ASSUME NEW e \in Endpoint, Expire(e)
      PROVE  pushes' = pushes /\ lookups \subseteq lookups'
  BY <1>3 DEF Expire, delivery
<1>4. ASSUME UNCHANGED vars
      PROVE  pushes' = pushes /\ lookups \subseteq lookups'
  BY <1>4 DEF vars, delivery
<1> QED BY <1>1, <1>2, <1>3, <1>4 DEF Next

LEMMA PushesStep ==
  ASSUME Inv, [Next]_vars
  PROVE  \A p \in pushes' : PushAgrees(p)'
<1>1. /\ TypeOK /\ HistoryGrows /\ \A p \in pushes : PushAgrees(p) /\ Issued(p.sub)'
      /\ \A s \in subs : Issued(s)'
  BY InvLasts, IssuedLasts DEF Inv, Coherent, SubscriptionsAgree, PushAgrees
<1>2. ASSUME NEW p \in pushes
      PROVE  PushAgrees(p)'
  BY <1>1 DEF PushAgrees, HistoryGrows
<1>3. ASSUME NEW r \in Request, FindSubs(r), NEW p \in pushes', p \notin pushes
      PROVE  PushAgrees(p)'
  <2>1. PICK s \in SubsOf(req[r].user) : p = [about |-> r, sub |-> s, pc |-> "send"]
    BY <1>3 DEF FindSubs
  <2>2. s \in subs /\ p.sub = s /\ p.pc = "send"
    BY <2>1 DEF SubsOf
  <2>3. Issued(s)'
    BY <1>1, <2>2
  <2> QED BY <2>2, <2>3 DEF PushAgrees
<1>4. ASSUME NEW q \in pushes, Send(q), NEW p \in pushes', p \notin pushes
      PROVE  PushAgrees(p)'
  <2>1. p = [q EXCEPT !.pc = "prune"] /\ q.sub.endpoint \in gone /\ gone' = gone
        /\ <<q.about, q.sub.id>> \in handled'
    BY <1>4 DEF Send, tables
  <2>2. q \in Push
    BY <1>1 DEF TypeOK
  <2>3. p.sub = q.sub /\ p.about = q.about
    BY <2>1, <2>2 DEF Push
  <2> QED BY <1>1, <2>1, <2>3 DEF PushAgrees
<1>5. ASSUME NEW r \in Request, FailPush(r)
      PROVE  pushes' \subseteq pushes
  BY <1>5 DEF FailPush
<1>6. ASSUME NEW q \in pushes, Prune(q)
      PROVE  pushes' \subseteq pushes
  BY <1>6 DEF Prune
<1> QED BY <1>1, <1>2, <1>3, <1>4, <1>5, <1>6, PushesStay

LEMMA DevicesStep ==
  ASSUME Inv, [Next]_vars
  PROVE  DevicesReached'
<1> DEFINE Reached(d) == \/ d[1] \in lookups \cup lost
                         \/ \E p \in pushes : p.about = d[1] /\ p.sub.id = d[2]
                         \/ d \in handled
                         \/ d[2] \in removed
<1>1. TypeOK /\ HistoryGrows /\ \A d \in due : Configured => Reached(d)
  BY InvLasts DEF Inv, Coherent, DevicesReached
<1>2. ASSUME NEW d \in due, Configured
      PROVE  Reached(d)'
  <2>1. /\ d[1] \in Request /\ d = <<d[1], d[2]>>
        /\ \/ d[2] \in removed
           \/ \E s \in subs : s.id = d[2] /\ s.user = req[d[1]].user
    BY DEF Inv, TypeOK, Coherent, AnnouncementsAgree
  <2>2. CASE pushes' = pushes /\ lookups \subseteq lookups'
    BY <1>1, <1>2, <2>2 DEF HistoryGrows
  <2>3. ASSUME NEW r \in Request, FindSubs(r)
        PROVE  Reached(d)'
    <3>1. /\ lookups' = lookups \ {r} /\ pushes \subseteq pushes'
          /\ \A s \in SubsOf(req[r].user) : [about |-> r, sub |-> s, pc |-> "send"] \in pushes'
      BY <2>3 DEF FindSubs
    <3>2. CASE d[1] # r \/ d[1] \notin lookups
      BY <1>1, <1>2, <3>1, <3>2 DEF HistoryGrows
    <3>3. CASE d[1] = r /\ d[2] \notin removed
      <4>1. PICK s \in SubsOf(req[r].user) : s.id = d[2]
        BY <2>1, <3>3 DEF SubsOf
      <4>2. [about |-> r, sub |-> s, pc |-> "send"] \in pushes'
        BY <3>1
      <4>3. \E p \in pushes' : p.about = d[1] /\ p.sub.id = d[2]
        BY <3>3, <4>1, <4>2
      <4> QED BY <4>3
    <3> QED BY <1>1, <3>2, <3>3 DEF HistoryGrows
  <2>4. ASSUME NEW r \in Request, FailPush(r)
        PROVE  Reached(d)'
    <3>1. /\ lookups' = lookups \ {r} /\ pushes' = {p \in pushes : p.about # r}
          /\ lost' = lost \cup {r}
      BY <2>4 DEF FailPush
    <3>2. CASE d[1] = r
      BY <3>1, <3>2
    <3> QED BY <1>1, <1>2, <3>1, <3>2 DEF HistoryGrows
  <2>5. ASSUME NEW q \in pushes, Send(q) \/ Prune(q)
        PROVE  Reached(d)'
    <3>1. lookups' = lookups /\ pushes \ {q} \subseteq pushes'
      BY <2>5 DEF Send, Prune
    <3>2. q.pc = "send" => <<q.about, q.sub.id>> \in handled'
      BY <2>5 DEF Send, Prune
    <3>3. q.pc = "prune" => <<q.about, q.sub.id>> \in handled'
      BY <1>1 DEF Inv, Coherent, PushAgrees, HistoryGrows
    <3>4. <<q.about, q.sub.id>> \in handled'
      BY <2>5, <3>2, <3>3 DEF Send, Prune
    <3>5. CASE q.about = d[1] /\ q.sub.id = d[2]
      BY <2>1, <3>4, <3>5
    <3> QED BY <1>1, <1>2, <3>1, <3>5 DEF HistoryGrows
  <2> QED BY <1>1, <2>2, <2>3, <2>4, <2>5, PushesStay
<1>3. ASSUME NEW r \in Request, Announce(r), NEW d \in due', d \notin due, Configured
      PROVE  Reached(d)'
  <2>1. PICK s \in SubsOf(req[r].user) : d = <<r, s.id>>
    BY <1>3 DEF Announce
  <2>2. r \in lookups' /\ d[1] = r
    BY <1>3, <2>1 DEF Announce
  <2> QED BY <2>2
<1>4. \A d \in due' : Configured => Reached(d)'
  BY <1>1, <1>2, <1>3, AnnouncedStay
<1> QED BY <1>4 DEF DevicesReached

(* The call that put row s back. *)
Revivor(r, s) ==
  r \in racing /\ req[r].op = "subscribe" /\ req[r].copy = s /\ At(r, "done")

LEMMA RemovedStep ==
  ASSUME Inv, [Next]_vars
  PROVE  RemovedStaysRemoved'
<1>1. TypeOK /\ Lasting /\ HistoryGrows /\ racing \subseteq Request
  BY InvLasts DEF TypeOK
<1>2. ASSUME NEW n \in dismissed' \cap Ids(notifs)'
      PROVE  \E r \in racing' : req'[r].op = "markAsRead" /\ req'[r].target = n
                                /\ req'[r].pc = "done"
  <2>1. CASE n \in dismissed \cap Ids(notifs)
    <3>1. PICK r \in racing : req[r].op = "markAsRead" /\ req[r].target = n /\ req[r].pc = "done"
      BY <2>1 DEF Inv, Coherent, RemovedStaysRemoved, At
    <3>2. req'[r] = req[r] /\ r \in racing'
      BY <1>1, <3>1 DEF Lasting, HistoryGrows
    <3> QED BY <3>1, <3>2
  <2>2. ASSUME NEW r \in Request, InsertNotification(r), dismissed' = dismissed,
               Ids(notifs)' = Ids(notifs) \cup {r}, n \notin dismissed \cap Ids(notifs)
        PROVE  FALSE
    <3>1. n = r /\ n \in dismissed
      BY <1>2, <2>2
    <3>2. Stored(r)
      BY <3>1 DEF Inv, Coherent, NotificationsAgree
    <3> QED BY <2>2, <3>2
         DEF Stored, InsertNotification, At, Inv, Coherent, AnnouncementsAgree
  <2>3. ASSUME NEW r \in Request, ReinsertNotification(r), dismissed' = dismissed,
               Ids(notifs)' = Ids(notifs) \cup {req[r].copy.id}, req'[r].pc = "done",
               n \notin Ids(notifs)
        PROVE  \E i \in racing' : req'[i].op = "markAsRead" /\ req'[i].target = n
                                  /\ req'[i].pc = "done"
    <3>1. req[r].pc = "reinsertNotification" /\ req[r].op = "markAsRead"
      BY <2>3, OpsAt DEF ReinsertNotification, At, SavingPC
    <3>2. n = req[r].target /\ r \in racing
      BY <1>2, <2>3, <3>1 DEF Inv, Coherent, HandlerAgrees, MarkAgrees, SavingPC
    <3>3. req'[r].op = "markAsRead" /\ req'[r].target = n /\ r \in racing'
      BY <1>1, <3>1, <3>2 DEF Lasting, SameCall, HistoryGrows
    <3> QED BY <2>3, <3>3
  <2> QED BY <1>1, <1>2, <2>1, <2>2, <2>3, NotificationsStay
<1>3. ASSUME NEW s \in subs', s.id \in removed'
      PROVE  \E r \in racing' : Revivor(r, s)'
  <2>1. CASE s \in subs /\ s.id \in removed
    <3>1. PICK r \in racing : req[r].op = "subscribe" /\ req[r].copy = s /\ req[r].pc = "done"
      BY <2>1 DEF Inv, Coherent, RemovedStaysRemoved, At
    <3>2. req'[r] = req[r] /\ r \in racing'
      BY <1>1, <3>1 DEF Lasting, HistoryGrows
    <3> QED BY <3>1, <3>2 DEF Revivor, At
  <2>2. ASSUME NEW rows \in SUBSET subs, Remove(rows), s.id \notin removed
        PROVE  FALSE
    <3>1. PICK t \in rows : t.id = s.id
      BY <1>3, <2>2 DEF Remove, Ids
    <3>2. s \in subs /\ s \notin rows
      BY <1>3, <2>2 DEF Remove
    <3>3. s = t
      BY <1>1, <3>1, <3>2, OneRowPerId DEF Inv, Coherent, SubscriptionsAgree, TypeOK
    <3> QED BY <3>1, <3>2, <3>3
  <2>3. ASSUME NEW i \in Request, NEW row, Stores(i, row), s = row
        PROVE  \E r \in racing' : Revivor(r, s)'
    <3>1. s.id \in removed /\ s \notin subs
      BY <1>3, <2>3 DEF Stores
    <3>2. req[i].pc = "reinsertSubscription"
      <4>1. CASE req[i].pc = "insertSubscription"
        <5>1. s.id = i
          BY <2>3, <4>1 DEF Stores, RowToStore
        <5> QED BY <3>1, <4>1, <5>1 DEF Inv, Coherent, SubscriptionsAgree
      <4> QED BY <2>3, <4>1 DEF Stores
    <3>3. req[i].op = "subscribe" /\ s = req[i].copy
      BY <2>3, <3>2, OpsAt DEF Stores, RowToStore, StoringPC
    <3>4. i \in racing
      BY <3>1, <3>2, <3>3 DEF Inv, Coherent, HandlerAgrees, SubscribeAgrees, StoringPC
    <3>5. /\ i \in racing' /\ req'[i].pc = "done" /\ req'[i].copy = s
          /\ req'[i].op = "subscribe"
      BY <1>1, <2>3, <3>2, <3>3, <3>4 DEF Stores, Moves, SameCall, HistoryGrows
    <3> QED BY <3>5 DEF Revivor, At
  <2>4. ASSUME NEW i \in Request, NEW row, Stores(i, row), s # row
        PROVE  s \in subs /\ s.id \in removed
    BY <1>3, <2>4 DEF Stores
  <2>5. ASSUME NEW rows \in SUBSET subs, Remove(rows)
        PROVE  s \in subs
    BY <1>3, <2>5 DEF Remove
  <2> QED BY <1>1, <1>3, <2>1, <2>2, <2>3, <2>4, <2>5, SubscriptionsStay
<1>4. \A n \in dismissed' \cap Ids(notifs)' :
        \E r \in racing' : req'[r].op = "markAsRead" /\ req'[r].target = n /\ req'[r].pc = "done"
  BY <1>2
<1>5. \A s \in subs' : s.id \in removed' =>
        \E r \in racing' : req'[r].op = "subscribe" /\ req'[r].copy = s /\ req'[r].pc = "done"
  BY <1>3 DEF Revivor, At
<1> QED BY <1>4, <1>5 DEF RemovedStaysRemoved, At

-----------------------------------------------------------------------------
(* The theorems *)

LEMMA InvInit == Init => Inv
<1> SUFFICES ASSUME Init PROVE Inv
  OBVIOUS
<1>1. IdleReq \in Req
  BY DEF IdleReq, Req
<1>2. TypeOK
  BY <1>1 DEF Init, TypeOK
<1>3. \A r \in Request : HandlerAgrees(r)
  BY DEF Init, IdleReq, HandlerAgrees
<1>4. NotificationsAgree /\ SubscriptionsAgree /\ AnnouncementsAgree
  BY DEF Init, Ids, NotificationsAgree, SubscriptionsAgree, AnnouncementsAgree
<1>5. RemovedStaysRemoved /\ DevicesReached /\ \A p \in pushes : PushAgrees(p)
  BY DEF Init, RemovedStaysRemoved, DevicesReached
<1> QED BY <1>2, <1>3, <1>4, <1>5 DEF Inv, Coherent

LEMMA InvStep == Inv /\ [Next]_vars => Inv'
<1> SUFFICES ASSUME Inv, [Next]_vars PROVE Inv'
  OBVIOUS
<1>1. Coherent'
  BY HandlersStep, NotificationsStep, SubscriptionsStep, AnnouncementsStep, PushesStep,
     RemovedStep, DevicesStep DEF Coherent
<1> QED BY <1>1, TypeOKStep DEF Inv

(* Tables, handlers, announcements and deliveries keep their types and agree:
   the inductive invariant of NotificationsService and PushService. *)
THEOREM AlwaysInv == Spec => []Inv
<1>1. Init => Inv
  BY InvInit
<1>2. Inv /\ [Next]_vars => Inv'
  BY InvStep
<1> QED BY <1>1, <1>2, PTL DEF Spec

(* Type correctness. *)
THEOREM TypeCorrect == Spec => []TypeOK
<1>1. Inv => TypeOK
  BY DEF Inv
<1> QED BY <1>1, AlwaysInv, PTL

(* What is stored has been told, unless its create is still running or failed,
   even if the recipient dismisses it before its create has reloaded it. *)
THEOREM StoredIsTold == Spec => []StoredIsAnnounced
<1>1. ASSUME Inv
      PROVE  StoredIsAnnounced
  <2>1. ASSUME NEW r \in Request, req[r].op = "create", req[r].pc = "done",
               req[r].user # req[r].peer
        PROVE  r \in announced
    BY <1>1, <2>1 DEF Inv, Coherent, HandlerAgrees, CreateAgrees
  <2>2. ASSUME NEW r \in Ids(notifs) \cup dismissed
        PROVE  r \in announced \/ At(r, "reload") \/ At(r, "failed")
    BY <1>1, <2>2 DEF Inv, Coherent, NotificationsAgree, Stored, At
  <2> QED BY <2>1, <2>2 DEF StoredIsAnnounced
<1> QED BY <1>1, AlwaysInv, PTL

(* A dismissed notification and a removed subscription come back only by a call
   that had loaded the row before. *)
THEOREM RemovedIsRemoved == Spec => []RemovedStaysRemoved
<1>1. Inv => RemovedStaysRemoved
  BY DEF Inv, Coherent
<1> QED BY <1>1, AlwaysInv, PTL

(* Whatever becomes of the other deliveries, each device subscribed at the
   announcement is tried. *)
THEOREM DevicesAreReached == Spec => []DevicesReached
<1>1. Inv => DevicesReached
  BY DEF Inv, Coherent
<1> QED BY <1>1, AlwaysInv, PTL

(* A delivery prunes by id alone, long after its lookup, and yet takes only rows
   whose endpoint is gone. *)
THEOREM PruningSpares == Spec => PrunedOnlyWhenGone
<1> DEFINE Spared == \A s \in subs \ subs' : pushes' # pushes => s.endpoint \in gone
<1>1. ASSUME Inv, [Next]_vars, NEW s \in subs \ subs', pushes' # pushes
      PROVE  s.endpoint \in gone
  <2>1. ASSUME NEW r \in Request, FindSubs(r) \/ FailPush(r)
        PROVE  FALSE
    BY <1>1, <2>1 DEF FindSubs, FailPush, tables
  <2>2. ASSUME NEW p \in pushes, Send(p)
        PROVE  FALSE
    BY <1>1, <2>2 DEF Send, tables
  <2>3. ASSUME NEW p \in pushes, Prune(p)
        PROVE  s.endpoint \in gone
    <3>1. p.pc = "prune" /\ s.id = p.sub.id
      BY <1>1, <2>3 DEF Prune, Remove
    <3>2. p.sub \in Subscription /\ s \in Subscription
      BY <1>1 DEF Inv, TypeOK, Push
    <3>3. Issued(s) /\ Issued(p.sub) /\ p.sub.endpoint \in gone
      BY <1>1, <3>1 DEF Inv, Coherent, SubscriptionsAgree, PushAgrees
    <3>4. s = p.sub
      BY <1>1, <3>1, <3>2, <3>3, OneRowPerId DEF Inv
    <3> QED BY <3>3, <3>4
  <2> QED BY <1>1, <2>1, <2>2, <2>3, PushesStay DEF Inv
<1>2. Inv /\ [Next]_vars => [Spared]_vars
  BY <1>1
<1> QED BY <1>2, AlwaysInv, PTL DEF Spec, PrunedOnlyWhenGone
=============================================================================
