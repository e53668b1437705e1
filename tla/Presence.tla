------------------------------ MODULE Presence ------------------------------
(***************************************************************************)
(* Online presence: the in-memory map of PresenceService, the connection   *)
(* handlers of RealtimeGateway with their timers, and the presence_update  *)
(* events that reach a mutual follower.                                    *)
(*                                                                         *)
(* A handler of the gateway runs without waiting for I/O up to its last    *)
(* statement, so it is one action.  emitToFriends is not awaited: it looks *)
(* the mutual follows up and emits when the database answers, so the event *)
(* waits in a queue of queries.                                            *)
(*                                                                         *)
(* Time passes in ticks, long compared with the delay of a due timer: none *)
(* passes while a timer is due.  The friend is any one mutual follower:    *)
(* what it believes of a user is the last event or answer to onlineStatus  *)
(* that it got.  Its client reconnects by itself when the connection is    *)
(* cut, asks for nothing then, and forgets nothing.                        *)
(*                                                                         *)
(* A definition marked Mutant is not part of the specification.            *)
(***************************************************************************)
EXTENDS Integers, Sequences, SequencesExt

CONSTANTS
  User,     \* the users whose presence is followed
  Socket,   \* socket ids; each connects once (bound)
  Grace,    \* GRACE_MS, in ticks
  Recheck,  \* the timeout of handleDisconnect, in ticks
  Pool,     \* queries the database may answer in any order; 1 with SQLite
  MayCrash  \* a failed query may end the process

ASSUME TimeAssumption  == Grace \in Nat /\ Recheck \in Nat /\ Grace < Recheck
ASSUME PoolAssumption  == Pool \in Nat \ {0}
ASSUME CrashAssumption == MayCrash \in BOOLEAN

VARIABLES
  known,     \* keys of the map users
  sockets,   \* socketIds of each entry
  timer,     \* offlineTimer of each entry: the ticks left, or Off
  rechecks,  \* timeouts of handleDisconnect: [socket, user, left]
  queue,     \* presence_update events waiting for the mutual follows
  listening, \* the friend is connected
  believed,  \* users the friend believes online
  fresh,     \* socket ids that have not connected yet
  missed     \* history: users whose newest event the friend has lost, or got
             \* before an older one, and of whom it has got nothing newer since

friend  == <<listening, believed>>
vars    == <<known, sockets, timer, rechecks, queue, friend, fresh, missed>>

Off == -1

Timeout == [socket : Socket, user : User, left : 0 .. Recheck]
Update  == [user : User, isOnline : BOOLEAN]

-----------------------------------------------------------------------------
IsOnline(u) == u \in known /\ sockets[u] # {}

(* emitToFriends *)
Announce(u, isOnline) ==
  /\ queue' = Append(queue, [user |-> u, isOnline |-> isOnline])
  /\ missed' = missed \ {u}

(* Mutant: a user within the grace period counts as online already. *)
UnknownOnly(u) == u \notin known

(* addSocket's answer: this is the first active socket. *)
WasEmpty(u) == u \notin known \/ sockets[u] = {}

(* Mutant: the pending offline transition is not cancelled. *)
AddSocketAlone(u, s) ==
  /\ known' = known \cup {u}
  /\ sockets' = [sockets EXCEPT ![u] = @ \cup {s}]
  /\ UNCHANGED timer

AddSocket(u, s) ==
  /\ known' = known \cup {u}
  /\ sockets' = [sockets EXCEPT ![u] = @ \cup {s}]
  /\ timer' = [timer EXCEPT ![u] = Off]

(* Mutant: the timeout of handleDisconnect for the grace period. *)
RemoveSocketLate(u, s) ==
  /\ sockets' = [sockets EXCEPT ![u] = @ \ {s}]
  /\ timer' = [timer EXCEPT ![u] = IF sockets[u] \subseteq {s} THEN Recheck ELSE @]
  /\ UNCHANGED known

(* The last socket (re)starts the grace period. *)
RemoveSocket(u, s) ==
  /\ sockets' = [sockets EXCEPT ![u] = @ \ {s}]
  /\ timer' = [timer EXCEPT ![u] = IF sockets[u] \subseteq {s} THEN Grace ELSE @]
  /\ UNCHANGED known

-----------------------------------------------------------------------------
(* handleConnection, with the token of u *)
HandleConnection(s, u) ==
  /\ s \in fresh
  /\ fresh' = fresh \ {s}
  /\ AddSocket(u, s)
  /\ IF WasEmpty(u) THEN Announce(u, TRUE) ELSE UNCHANGED <<queue, missed>>
  /\ UNCHANGED <<rechecks, friend>>

(* handleConnection without a valid token: the socket is cut off, and its
   handleDisconnect finds no userId. *)
RefuseConnection(s) ==
  /\ s \in fresh
  /\ fresh' = fresh \ {s}
  /\ UNCHANGED <<known, sockets, timer, rechecks, queue, friend, missed>>

(* The timeout is never cleared, unlike the timer of the entry. *)
HandleDisconnect(s, u) ==
  /\ s \in sockets[u]
  /\ RemoveSocket(u, s)
  /\ IF sockets[u] = {s}
     THEN rechecks' = rechecks \cup {[socket |-> s, user |-> u, left |-> Recheck]}
     ELSE UNCHANGED rechecks
  /\ UNCHANGED <<queue, friend, fresh, missed>>

-----------------------------------------------------------------------------
(* Mutant: the entry stays in the map. *)
KeepEntry(u) ==
  /\ timer[u] = 0
  /\ timer' = [timer EXCEPT ![u] = Off]
  /\ UNCHANGED <<known, sockets, rechecks, queue, friend, fresh, missed>>

(* The callback of offlineTimer.  The handle goes with the entry. *)
GraceExpired(u) ==
  /\ timer[u] = 0
  /\ timer' = [timer EXCEPT ![u] = Off]
  /\ known' = IF sockets[u] = {} THEN known \ {u} ELSE known
  /\ UNCHANGED <<sockets, rechecks, queue, friend, fresh, missed>>

(* Mutant: only a user with an entry is announced, which is gone by then. *)
RecheckKnown(x) ==
  /\ x.left = 0
  /\ rechecks' = rechecks \ {x}
  /\ IF x.user \in known /\ ~IsOnline(x.user)
     THEN Announce(x.user, FALSE) ELSE UNCHANGED <<queue, missed>>
  /\ UNCHANGED <<known, sockets, timer, friend, fresh>>

(* The callback of the timeout of handleDisconnect. *)
RecheckOnline(x) ==
  /\ x.left = 0
  /\ rechecks' = rechecks \ {x}
  /\ IF ~IsOnline(x.user) THEN Announce(x.user, FALSE) ELSE UNCHANGED <<queue, missed>>
  /\ UNCHANGED <<known, sockets, timer, friend, fresh>>

-----------------------------------------------------------------------------
Believe(u, isOnline) ==
  believed' = IF isOnline THEN believed \cup {u} ELSE believed \ {u}

(* Among the updates about its user in the queue, update i is the newest, and the
   only one. *)
Newest(i) == \A j \in DOMAIN queue : j > i => queue[j].user # queue[i].user
Only(i)   == \A j \in DOMAIN queue : j # i => queue[j].user # queue[i].user

(* The answer of getMutualFollowIds, and the event in the rooms of friends: those
   who are not connected never get it. *)
Answer(i) ==
  /\ i \in DOMAIN queue
  /\ i <= Pool
  /\ queue' = RemoveAt(queue, i)
  /\ IF listening THEN Believe(queue[i].user, queue[i].isOnline) ELSE UNCHANGED believed
  /\ missed' = IF Newest(i) /\ ~(listening /\ Only(i)) THEN missed \cup {queue[i].user}
               ELSE missed
  /\ UNCHANGED <<known, sockets, timer, rechecks, listening, fresh>>

(* The friend asks for onlineStatus: the answer comes from memory, and updates
   still in the queue come after it. *)
GetOnlineStatus(u) ==
  /\ Believe(u, IsOnline(u))
  /\ missed' = IF \A i \in DOMAIN queue : queue[i].user # u THEN missed \ {u} ELSE missed
  /\ UNCHANGED <<known, sockets, timer, rechecks, queue, listening, fresh>>

(* The connection of the friend is cut, and its client makes another. *)
FriendConnection(on) ==
  /\ listening = ~on
  /\ listening' = on
  /\ UNCHANGED <<known, sockets, timer, rechecks, queue, believed, fresh, missed>>

(* The query rejects, nobody catches the rejection and the process ends: the
   map, the timers and all connections are gone.  The friend keeps its picture,
   and the next process knows nobody to announce offline. *)
Crash ==
  /\ MayCrash
  /\ queue # << >>
  /\ known' = {}
  /\ sockets' = [u \in User |-> {}]
  /\ timer' = [u \in User |-> Off]
  /\ rechecks' = {}
  /\ queue' = << >>
  /\ listening' = FALSE
  /\ missed' = believed
  /\ UNCHANGED <<believed, fresh>>

Tick ==
  /\ \A u \in User : timer[u] # 0
  /\ \A x \in rechecks : x.left # 0
  /\ timer' = [u \in User |-> IF timer[u] = Off THEN Off ELSE timer[u] - 1]
  /\ rechecks' = {[x EXCEPT !.left = @ - 1] : x \in rechecks}
  /\ UNCHANGED <<known, sockets, queue, friend, fresh, missed>>

-----------------------------------------------------------------------------
Init ==
  /\ known = {}
  /\ sockets = [u \in User |-> {}]
  /\ timer = [u \in User |-> Off]
  /\ rechecks = {}
  /\ queue = << >>
  /\ listening = TRUE
  /\ believed = {}
  /\ fresh = Socket
  /\ missed = {}

Next ==
  \/ \E s \in Socket : \/ RefuseConnection(s)
                       \/ \E u \in User : HandleConnection(s, u) \/ HandleDisconnect(s, u)
  \/ \E u \in User : GraceExpired(u) \/ GetOnlineStatus(u)
  \/ \E x \in rechecks : RecheckOnline(x)
  \/ \E i \in DOMAIN queue : Answer(i)
  \/ \E on \in BOOLEAN : FriendConnection(on)
  \/ Crash \/ Tick

(* Time passes, due timers fire and the oldest query is answered.  Nobody has
   to connect, disconnect or ask, not even the friend. *)
Fairness ==
  /\ WF_vars(Tick)
  /\ WF_vars(\E u \in User : GraceExpired(u))
  /\ WF_vars(\E x \in rechecks : RecheckOnline(x))
  /\ WF_vars(Answer(1))

Spec == Init /\ [][Next]_vars /\ Fairness

-----------------------------------------------------------------------------
(* Properties *)

TypeOK ==
  /\ known \subseteq User
  /\ sockets \in [User -> SUBSET Socket]
  /\ timer \in [User -> 0 .. Grace \cup {Off}]
  /\ rechecks \subseteq Timeout
  /\ queue \in Seq(Update)
  /\ listening \in BOOLEAN
  /\ believed \subseteq User
  /\ fresh \subseteq Socket
  /\ missed \subseteq User

(* A user has a grace timer exactly while it has an entry without sockets: no
   reconnection is cut off by an old timer, and no entry waits without one to
   be forgotten. *)
GraceTimersMatch ==
  \A u \in User : /\ timer[u] # Off <=> u \in known /\ sockets[u] = {}
                  /\ u \notin known => sockets[u] = {}

(* What the friend will believe of u when the queue is empty: the last event
   about u in it, or what it believes already. *)
WillBelieve(u) ==
  \/ u \in believed /\ \A i \in DOMAIN queue : queue[i].user # u
  \/ \E i \in DOMAIN queue :
       /\ queue[i].user = u /\ queue[i].isOnline
       /\ \A j \in DOMAIN queue : j > i => queue[j].user # u

(* The friend's picture is wrong for good only of the users it has missed: of any
   other the last word is that it is online while it is, whatever earlier timeouts
   have announced and however the answers are ordered; and when it is away, that
   it is not, or a timeout that will say so is running. *)
StatusOnItsWay ==
  \A u \in User \ missed :
    IF IsOnline(u) THEN WillBelieve(u)
    ELSE WillBelieve(u) => \E x \in rechecks : x.user = u

(* The friend's picture of a user who stops coming and going becomes right and
   stays right, or the friend has missed the newest event about the user. *)
StatusConverges ==
  \A u \in User : <>[](u \notin missed => (u \in believed <=> IsOnline(u)))

(* An entry without sockets does not stay in the map. *)
EntriesForgotten == \A u \in User : u \in known /\ sockets[u] = {} ~> ~(u \in known /\ sockets[u] = {})

(* "If it was the user's last socket (after a 30s grace period), we broadcast":
   a user is announced offline when the timer of its grace period is due or over. *)
OfflineAfterGrace ==
  [][\A u \in User : queue' = Append(queue, [user |-> u, isOnline |-> FALSE])
                     => timer[u] <= 0]_vars
=============================================================================
