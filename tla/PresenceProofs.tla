--------------------------- MODULE PresenceProofs ---------------------------
(***************************************************************************)
(* Safety of Presence for every set of users and sockets and every pair of *)
(* delays Grace < Recheck.                                                 *)
(***************************************************************************)
EXTENDS Presence, SequenceTheorems, TLAPS

-----------------------------------------------------------------------------
(* Lemmas on the queue of events *)

LEMMA RemoveAtSeq ==
  ASSUME NEW S, NEW s \in Seq(S), NEW i \in DOMAIN s
  PROVE  /\ RemoveAt(s, i) \in Seq(S)
         /\ Len(RemoveAt(s, i)) = Len(s) - 1
<1> DEFINE a == SubSeq(s, 1, i - 1)
           b == SubSeq(s, i + 1, Len(s))
<1>1. i \in Int /\ Len(s) \in Nat /\ 1 <= i /\ i <= Len(s)
  OBVIOUS
<1>2. a \in Seq(S) /\ Len(a) = i - 1
  BY <1>1, SubSeqProperties
<1>3. b \in Seq(S) /\ Len(b) = Len(s) - i
  BY <1>1, SubSeqProperties
<1> HIDE DEF a, b
<1>4. a \o b \in Seq(S) /\ Len(a \o b) = Len(a) + Len(b)
  BY <1>2, <1>3, ConcatProperties
<1>5. a \o b \in Seq(S) /\ Len(a \o b) = Len(s) - 1
  BY <1>1, <1>2, <1>3, <1>4
<1>6. QED
  BY <1>5 DEF RemoveAt, a, b

(* One event leaves: those before it stay and those after it move up. *)
LEMMA RemoveAtElements ==
  ASSUME NEW S, NEW s \in Seq(S), NEW i \in DOMAIN s
  PROVE  /\ DOMAIN RemoveAt(s, i) = 1 .. Len(s) - 1
         /\ \A k \in 1 .. Len(s) - 1 :
              RemoveAt(s, i)[k] = IF k < i THEN s[k] ELSE s[k + 1]
<1> DEFINE n == Len(s)
           a == SubSeq(s, 1, i - 1)
           b == SubSeq(s, i + 1, n)
<1>1. n \in Nat /\ DOMAIN s = 1 .. n /\ i \in Nat /\ 1 <= i /\ i <= n
  OBVIOUS
<1>2. a \in Seq(S) /\ Len(a) = i - 1 /\ \A k \in 1 .. i - 1 : a[k] = s[k]
  BY <1>1, SubSeqProperties
<1>3. b \in Seq(S) /\ Len(b) = n - i /\ \A k \in 1 .. n - i : b[k] = s[i + k]
  BY <1>1, SubSeqProperties
<1> HIDE DEF n, a, b
<1>4. /\ a \o b \in Seq(S) /\ Len(a \o b) = n - 1
      /\ \A k \in 1 .. n - 1 : (a \o b)[k] = IF k <= i - 1 THEN a[k] ELSE b[k - (i - 1)]
  <2>1. Len(a) + Len(b) = n - 1
    BY <1>1, <1>2, <1>3
  <2>2. /\ a \o b \in Seq(S) /\ Len(a \o b) = Len(a) + Len(b)
        /\ \A k \in 1 .. Len(a) + Len(b) :
             (a \o b)[k] = IF k <= Len(a) THEN a[k] ELSE b[k - Len(a)]
    BY <1>2, <1>3, ConcatProperties
  <2>3. QED
    BY <1>2, <2>1, <2>2
<1>5. DOMAIN (a \o b) = 1 .. n - 1
  BY <1>1, <1>4
<1>6. ASSUME NEW k \in 1 .. n - 1
      PROVE  (a \o b)[k] = IF k < i THEN s[k] ELSE s[k + 1]
  <2>1. CASE k < i
    BY <1>1, <1>2, <1>4, <2>1
  <2>2. CASE ~(k < i)
    <3>1. k - (i - 1) \in 1 .. n - i /\ i + (k - (i - 1)) = k + 1 /\ ~(k <= i - 1)
      BY <1>1, <2>2
    <3>2. QED
      BY <1>3, <1>4, <2>2, <3>1
  <2>3. QED
    BY <2>1, <2>2
<1>7. QED
  BY <1>5, <1>6 DEF RemoveAt, n, a, b

-----------------------------------------------------------------------------
(* Type correctness *)

LEMMA TypeOKInit == Init => TypeOK
BY TimeAssumption DEF Init, TypeOK, Off

LEMMA AnnounceType ==
  ASSUME TypeOK, NEW u \in User, NEW b \in BOOLEAN,
         Announce(u, b) \/ UNCHANGED queue
  PROVE  queue' \in Seq(Update)
<1>1. [user |-> u, isOnline |-> b] \in Update
  BY DEF TypeOK, Update
<1>2. \A e \in Update : Append(queue, e) \in Seq(Update)
  BY DEF TypeOK
<1>3. QED
  BY <1>1, <1>2 DEF TypeOK, Announce

LEMMA TypeOKStep == TypeOK /\ [Next]_vars => TypeOK'
<1> SUFFICES ASSUME TypeOK, [Next]_vars PROVE TypeOK'
  OBVIOUS
<1> USE TimeAssumption DEF Off
<1>1. ASSUME NEW s \in Socket, RefuseConnection(s) PROVE TypeOK'
  BY <1>1 DEF RefuseConnection, friend, TypeOK
<1>2. ASSUME NEW s \in Socket, NEW u \in User, HandleConnection(s, u) PROVE TypeOK'
  <2>1. queue' \in Seq(Update)
    BY <1>2, AnnounceType DEF HandleConnection
  <2>2. /\ known' \subseteq User /\ fresh' \subseteq Socket /\ missed' \subseteq User
        /\ believed' \subseteq User /\ listening' \in BOOLEAN
    BY <1>2 DEF HandleConnection, Announce, AddSocket, friend, TypeOK
  <2>3. sockets' \in [User -> SUBSET Socket]
    BY <1>2 DEF HandleConnection, AddSocket, TypeOK
  <2>4. timer' \in [User -> 0 .. Grace \cup {Off}]
    BY <1>2 DEF HandleConnection, AddSocket, TypeOK
  <2>5. rechecks' \subseteq Timeout
    BY <1>2 DEF HandleConnection, TypeOK
  <2>6. QED
    BY <2>1, <2>2, <2>3, <2>4, <2>5 DEF TypeOK
<1>3. ASSUME NEW s \in Socket, NEW u \in User, HandleDisconnect(s, u) PROVE TypeOK'
  <2>1. sockets' \in [User -> SUBSET Socket]
    BY <1>3 DEF HandleDisconnect, RemoveSocket, TypeOK
  <2>2. timer' \in [User -> 0 .. Grace \cup {Off}]
    BY <1>3 DEF HandleDisconnect, RemoveSocket, TypeOK
  <2>3. [socket |-> s, user |-> u, left |-> Recheck] \in Timeout
    BY DEF Timeout
  <2>4. rechecks' \subseteq Timeout
    BY <1>3, <2>3 DEF HandleDisconnect, TypeOK
  <2>5. QED
    BY <1>3, <2>1, <2>2, <2>4 DEF HandleDisconnect, RemoveSocket, friend, TypeOK
<1>4. ASSUME NEW u \in User, GraceExpired(u) PROVE TypeOK'
  BY <1>4 DEF GraceExpired, friend, TypeOK
<1>5. ASSUME NEW u \in User, GetOnlineStatus(u) PROVE TypeOK'
  BY <1>5 DEF GetOnlineStatus, Believe, TypeOK
<1>6. ASSUME NEW x \in rechecks, RecheckOnline(x) PROVE TypeOK'
  <2>1. x.user \in User
    BY DEF TypeOK, Timeout
  <2>2. queue' \in Seq(Update)
    BY <1>6, <2>1, AnnounceType DEF RecheckOnline
  <2>3. missed' \subseteq User
    BY <1>6 DEF RecheckOnline, Announce, TypeOK
  <2>4. QED
    BY <1>6, <2>2, <2>3 DEF RecheckOnline, friend, TypeOK
<1>7. ASSUME NEW i \in DOMAIN queue, Answer(i) PROVE TypeOK'
  <2>1. queue' \in Seq(Update)
    BY <1>7, RemoveAtSeq DEF Answer, TypeOK
  <2>2. queue[i] \in Update
    BY DEF TypeOK
  <2>3. QED
    BY <1>7, <2>1, <2>2 DEF Answer, Believe, TypeOK, Update
<1>8. CASE Crash
  <2>1. queue' = << >> /\ << >> \in Seq(Update)
    BY <1>8 DEF Crash
  <2>2. /\ sockets' \in [User -> SUBSET Socket]
        /\ timer' \in [User -> 0 .. Grace \cup {Off}]
    BY <1>8 DEF Crash
  <2>3. QED
    BY <1>8, <2>1, <2>2 DEF Crash, TypeOK
<1>9. CASE Tick
  <2>1. timer' \in [User -> 0 .. Grace \cup {Off}]
    BY <1>9 DEF Tick, TypeOK
  <2>2. ASSUME NEW x \in rechecks PROVE [x EXCEPT !.left = @ - 1] \in Timeout
    <3>1. /\ x.socket \in Socket /\ x.user \in User /\ x.left \in 0 .. Recheck
          /\ x = [socket |-> x.socket, user |-> x.user, left |-> x.left]
      BY DEF TypeOK, Timeout
    <3>2. x.left # 0
      BY <1>9 DEF Tick
    <3>3. x.left - 1 \in 0 .. Recheck
      BY <3>1, <3>2
    <3>4. QED
      BY <3>1, <3>3 DEF Timeout
  <2>3. QED
    BY <1>9, <2>1, <2>2 DEF Tick, friend, TypeOK
<1>10. ASSUME NEW on \in BOOLEAN, FriendConnection(on) PROVE TypeOK'
  BY <1>10 DEF FriendConnection, TypeOK
<1>11. CASE UNCHANGED vars
  BY <1>11 DEF vars, friend, TypeOK
<1>12. QED
  BY <1>1, <1>2, <1>3, <1>4, <1>5, <1>6, <1>7, <1>8, <1>9, <1>10, <1>11 DEF Next

(* Map, timers and queue keep their types; in particular no timer counts below
   zero. *)
THEOREM TypeCorrect == Spec => []TypeOK
<1>1. Init => TypeOK
  BY TypeOKInit
<1>2. TypeOK /\ [Next]_vars => TypeOK'
  BY TypeOKStep
<1>3. QED
  BY <1>1, <1>2, PTL DEF Spec

-----------------------------------------------------------------------------
(* Timers match entries *)

LEMMA TimersInit == Init => GraceTimersMatch
BY DEF Init, GraceTimersMatch

LEMMA TimersStep == TypeOK /\ GraceTimersMatch /\ [Next]_vars => GraceTimersMatch'
<1> SUFFICES ASSUME TypeOK, GraceTimersMatch, [Next]_vars, NEW v \in User
             PROVE  /\ (timer[v] # Off <=> v \in known /\ sockets[v] = {})'
                    /\ (v \notin known => sockets[v] = {})'
  BY DEF GraceTimersMatch
<1> USE TimeAssumption DEF Off
<1>a. /\ timer[v] # Off <=> v \in known /\ sockets[v] = {}
      /\ v \notin known => sockets[v] = {}
  BY DEF GraceTimersMatch
<1>1. ASSUME NEW s \in Socket, RefuseConnection(s)
      PROVE  UNCHANGED <<known, sockets, timer>>
  BY <1>1 DEF RefuseConnection
<1>2. ASSUME NEW s \in Socket, NEW u \in User, HandleConnection(s, u)
      PROVE  /\ timer'[v] # Off <=> v \in known' /\ sockets'[v] = {}
             /\ v \notin known' => sockets'[v] = {}
  <2>1. u \in known' /\ sockets'[u] # {} /\ timer'[u] = Off
    BY <1>2 DEF HandleConnection, AddSocket, TypeOK
  <2>2. v # u => /\ timer'[v] = timer[v] /\ sockets'[v] = sockets[v]
                 /\ v \in known' <=> v \in known
    BY <1>2 DEF HandleConnection, AddSocket, TypeOK
  <2>3. QED
    BY <1>a, <2>1, <2>2
<1>3. ASSUME NEW s \in Socket, NEW u \in User, HandleDisconnect(s, u)
      PROVE  /\ timer'[v] # Off <=> v \in known' /\ sockets'[v] = {}
             /\ v \notin known' => sockets'[v] = {}
  <2>1. CASE v = u
    <3>1. s \in sockets[u] /\ u \in known /\ known' = known
      BY <1>3, <1>a, <2>1 DEF HandleDisconnect, RemoveSocket
    <3>2. sockets'[u] = sockets[u] \ {s}
      BY <1>3 DEF HandleDisconnect, RemoveSocket, TypeOK
    <3>3. timer'[u] = IF sockets[u] \subseteq {s} THEN Grace ELSE timer[u]
      BY <1>3 DEF HandleDisconnect, RemoveSocket, TypeOK
    <3>4. QED
      BY <1>a, <2>1, <3>1, <3>2, <3>3
  <2>2. CASE v # u
    BY <1>3, <1>a, <2>2 DEF HandleDisconnect, RemoveSocket, TypeOK
  <2>3. QED
    BY <2>1, <2>2
<1>4. ASSUME NEW u \in User, GraceExpired(u)
      PROVE  /\ timer'[v] # Off <=> v \in known' /\ sockets'[v] = {}
             /\ v \notin known' => sockets'[v] = {}
  BY <1>4, <1>a DEF GraceExpired, TypeOK
<1>5. ASSUME NEW u \in User, GetOnlineStatus(u)
      PROVE  UNCHANGED <<known, sockets, timer>>
  BY <1>5 DEF GetOnlineStatus
<1>6. ASSUME NEW x \in rechecks, RecheckOnline(x)
      PROVE  UNCHANGED <<known, sockets, timer>>
  BY <1>6 DEF RecheckOnline
<1>7. ASSUME NEW i \in DOMAIN queue, Answer(i)
      PROVE  UNCHANGED <<known, sockets, timer>>
  BY <1>7 DEF Answer
<1>8. ASSUME Crash
      PROVE  /\ timer'[v] # Off <=> v \in known' /\ sockets'[v] = {}
             /\ v \notin known' => sockets'[v] = {}
  BY <1>8 DEF Crash
<1>9. ASSUME Tick
      PROVE  /\ timer'[v] # Off <=> v \in known' /\ sockets'[v] = {}
             /\ v \notin known' => sockets'[v] = {}
  <2>1. timer'[v] # Off <=> timer[v] # Off
    BY <1>9 DEF Tick, TypeOK
  <2>2. QED
    BY <1>9, <1>a, <2>1 DEF Tick
<1>10. ASSUME NEW on \in BOOLEAN, FriendConnection(on)
       PROVE  UNCHANGED <<known, sockets, timer>>
  BY <1>10 DEF FriendConnection
<1>11. UNCHANGED vars => UNCHANGED <<known, sockets, timer>>
  BY DEF vars
<1>12. UNCHANGED <<known, sockets, timer>> =>
         /\ (timer[v] # Off <=> v \in known /\ sockets[v] = {})'
         /\ (v \notin known => sockets[v] = {})'
  BY <1>a
<1>13. QED
  BY <1>1, <1>2, <1>3, <1>4, <1>5, <1>6, <1>7, <1>8, <1>9, <1>10, <1>11, <1>12 DEF Next

(* A user has a grace timer exactly while it has an entry without sockets,
   whatever the order of connections, disconnections, timers and crashes. *)
THEOREM TimersMatch == Spec => []GraceTimersMatch
<1>1. Init => GraceTimersMatch
  BY TimersInit
<1>2. TypeOK /\ GraceTimersMatch /\ [Next]_vars => GraceTimersMatch'
  BY TimersStep
<1>3. QED
  BY <1>1, <1>2, TypeCorrect, PTL DEF Spec

-----------------------------------------------------------------------------
(* The last word about a user who is not missed is right *)

(* An event joins the queue as the last word about its user, and leaves what is
   under way about the others. *)
LEMMA AnnouncedLast ==
  ASSUME TypeOK, NEW u \in User, NEW b \in BOOLEAN, Announce(u, b),
         UNCHANGED believed, NEW v \in User
  PROVE  /\ v = u => (WillBelieve(v)' <=> b)
         /\ v # u => (WillBelieve(v)' <=> WillBelieve(v))
<1> DEFINE e == [user |-> u, isOnline |-> b]
           n == Len(queue) + 1
<1>1. /\ queue \in Seq(Update)
      /\ e \in Update
  BY DEF TypeOK, Update
<1>2. /\ DOMAIN queue' = 1 .. n
      /\ DOMAIN queue = 1 .. n - 1
      /\ n \in Nat /\ n > 0
      /\ queue'[n] = e
      /\ \A i \in 1 .. n - 1 : queue'[i] = queue[i]
  BY <1>1 DEF Announce
<1>3. e.user = u /\ e.isOnline = b
  OBVIOUS
<1> HIDE DEF e, n
<1>4. CASE v = u
  BY <1>2, <1>3, <1>4 DEF WillBelieve
<1>5. CASE v # u
  <2>1. (\A i \in DOMAIN queue' : queue'[i].user # v)
          <=> (\A i \in DOMAIN queue : queue[i].user # v)
    BY <1>2, <1>3, <1>5
  <2>2. ASSUME NEW i \in DOMAIN queue
        PROVE  (\A j \in DOMAIN queue' : j > i => queue'[j].user # v)
                 <=> (\A j \in DOMAIN queue : j > i => queue[j].user # v)
    BY <1>2, <1>3, <1>5
  <2>3. QED
    BY <1>2, <1>3, <1>5, <2>1, <2>2 DEF WillBelieve
<1>6. QED
  BY <1>4, <1>5

(* An answer changes the last word about nobody, but for those it makes the friend
   miss: it was about another user, or not the newest about its own, or it is the
   only one and the friend hears it. *)
LEMMA AnsweredRight ==
  ASSUME TypeOK, NEW i \in DOMAIN queue, Answer(i), NEW v \in User, v \notin missed'
  PROVE  v \notin missed /\ (WillBelieve(v)' <=> WillBelieve(v))
<1> DEFINE n == Len(queue)
           q == queue'
           up(k) == IF k < i THEN k ELSE k + 1
           down(k) == IF k < i THEN k ELSE k - 1
<1>1. /\ queue \in Seq(Update) /\ n \in Nat /\ DOMAIN queue = 1 .. n
      /\ i \in Nat /\ 1 <= i /\ i <= n
  BY DEF TypeOK
<1>2. DOMAIN q = 1 .. n - 1 /\ \A k \in 1 .. n - 1 : q[k] = queue[up(k)]
  <2>1. q = RemoveAt(queue, i)
    BY DEF Answer
  <2>2. QED
    BY <1>1, <2>1, RemoveAtElements
<1>3. \A k \in 1 .. n - 1 : /\ up(k) \in 1 .. n /\ up(k) # i
                            /\ \A j \in 1 .. n - 1 : j > k <=> up(j) > up(k)
  BY <1>1
<1>4. \A k \in 1 .. n : k # i => down(k) \in 1 .. n - 1 /\ up(down(k)) = k
  BY <1>1
<1>5. /\ v \notin missed
      /\ queue[i].user = v => ~Newest(i) \/ (listening /\ Only(i))
  <2>1. CASE Newest(i) /\ ~(listening /\ Only(i))
    <3>1. missed' = missed \cup {queue[i].user}
      BY <2>1 DEF Answer
    <3>2. QED
      BY <3>1
  <2>2. CASE ~(Newest(i) /\ ~(listening /\ Only(i)))
    <3>1. missed' = missed
      BY <2>2 DEF Answer
    <3>2. QED
      BY <2>2, <3>1
  <2>3. QED
    BY <2>1, <2>2
<1>6. queue[i].user \in User /\ queue[i].isOnline \in BOOLEAN
  <2>1. queue[i] \in Update
    BY <1>1
  <2>2. QED
    BY <2>1 DEF Update
<1> HIDE DEF up, down
<1>7. ASSUME \/ queue[i].user # v
             \/ \E m \in 1 .. n : m > i /\ queue[m].user = v
      PROVE  (\E k \in 1 .. n : queue[k].user = v)
               <=> (\E k \in 1 .. n - 1 : q[k].user = v)
  <2>1. ASSUME NEW k \in 1 .. n, queue[k].user = v PROVE \E j \in 1 .. n - 1 : q[j].user = v
    <3>1. PICK m \in 1 .. n : m # i /\ queue[m].user = v
      BY <1>1, <1>7, <2>1
    <3>2. QED
      BY <1>2, <1>4, <3>1
  <2>2. QED
    BY <1>2, <1>3, <2>1
<1>8. ASSUME \/ queue[i].user # v
             \/ \E m \in 1 .. n : m > i /\ queue[m].user = v,
             NEW k \in 1 .. n - 1
      PROVE  (\A j \in 1 .. n - 1 : j > k => q[j].user # v)
               <=> (\A j \in 1 .. n : j > up(k) => queue[j].user # v)
  <2>1. ASSUME NEW j \in 1 .. n, j > up(k), queue[j].user = v
        PROVE  \E h \in 1 .. n - 1 : h > k /\ q[h].user = v
    <3>1. PICK m \in 1 .. n : m # i /\ m > up(k) /\ queue[m].user = v
      BY <1>1, <1>3, <1>8, <2>1, SMTT(30)
    <3>2. down(m) \in 1 .. n - 1 /\ up(down(m)) = m
      BY <1>4, <3>1
    <3>3. QED
      BY <1>2, <1>3, <3>1, <3>2
  <2>2. ASSUME NEW j \in 1 .. n - 1, j > k, q[j].user = v
        PROVE  \E h \in 1 .. n : h > up(k) /\ queue[h].user = v
    BY <1>2, <1>3, <2>2
  <2>3. QED
    BY <2>1, <2>2
<1>9. ASSUME \/ queue[i].user # v
             \/ \E m \in 1 .. n : m > i /\ queue[m].user = v
      PROVE  WillBelieve(v)' <=> WillBelieve(v)
  <2> DEFINE Is(k) == /\ queue[k].user = v /\ queue[k].isOnline
                      /\ \A j \in 1 .. n : j > k => queue[j].user # v
             Becomes(k) == /\ q[k].user = v /\ q[k].isOnline
                           /\ \A j \in 1 .. n - 1 : j > k => q[j].user # v
  <2>1. \A k \in 1 .. n - 1 : Becomes(k) <=> Is(up(k))
    BY <1>2, <1>8, <1>9
  <2>2. ~Is(i)
    BY <1>9
  <2> HIDE DEF Is, Becomes
  <2>3. (\E k \in 1 .. n - 1 : Becomes(k)) <=> (\E k \in 1 .. n : Is(k))
    BY <1>1, <1>3, <1>4, <2>1, <2>2
  <2>4. (\A k \in 1 .. n - 1 : q[k].user # v) => (v \in believed' <=> v \in believed)
    <3>1. ASSUME \A k \in 1 .. n - 1 : q[k].user # v PROVE queue[i].user # v
      BY <1>7, <1>9, <3>1
    <3>2. QED
      BY <1>6, <3>1 DEF Answer, Believe
  <2>5. (\A k \in 1 .. n - 1 : q[k].user # v) <=> (\A k \in 1 .. n : queue[k].user # v)
    BY <1>7, <1>9
  <2>6. WillBelieve(v) <=> \/ v \in believed /\ \A k \in 1 .. n : queue[k].user # v
                          \/ \E k \in 1 .. n : Is(k)
    BY <1>1 DEF WillBelieve, Is
  <2>7. WillBelieve(v)' <=> \/ v \in believed' /\ \A k \in 1 .. n - 1 : q[k].user # v
                           \/ \E k \in 1 .. n - 1 : Becomes(k)
    BY <1>2 DEF WillBelieve, Becomes
  <2>8. QED
    BY <2>3, <2>4, <2>5, <2>6, <2>7
<1>10. ASSUME queue[i].user = v, listening, Only(i)
       PROVE  WillBelieve(v)' <=> WillBelieve(v)
  <2>1. v \in believed' <=> queue[i].isOnline
    BY <1>6, <1>10 DEF Answer, Believe
  <2>2. \A k \in DOMAIN q : q[k].user # v
    BY <1>1, <1>2, <1>3, <1>10 DEF Only
  <2>3. WillBelieve(v)' <=> queue[i].isOnline
    BY <2>1, <2>2 DEF WillBelieve
  <2>4. WillBelieve(v) <=> queue[i].isOnline
    BY <1>1, <1>10 DEF WillBelieve, Only
  <2>5. QED
    BY <2>3, <2>4
<1>11. ~Newest(i) /\ queue[i].user = v => \E m \in 1 .. n : m > i /\ queue[m].user = v
  BY <1>1 DEF Newest
<1>12. QED
  BY <1>5, <1>9, <1>10, <1>11

LEMMA StatusInit == Init => StatusOnItsWay
BY DEF Init, StatusOnItsWay, WillBelieve, IsOnline

LEMMA StatusStep == TypeOK /\ GraceTimersMatch /\ StatusOnItsWay /\ [Next]_vars => StatusOnItsWay'
<1> SUFFICES ASSUME TypeOK, GraceTimersMatch, StatusOnItsWay, [Next]_vars, NEW v \in User,
                    v \notin missed'
             PROVE  (IF IsOnline(v) THEN WillBelieve(v)
                     ELSE WillBelieve(v) => \E x \in rechecks : x.user = v)'
  BY DEF StatusOnItsWay
<1> DEFINE Right == IF IsOnline(v) THEN WillBelieve(v)
                    ELSE WillBelieve(v) => \E x \in rechecks : x.user = v
<1>a. v \notin missed => Right
  BY DEF StatusOnItsWay
<1>b. UNCHANGED <<queue, believed>> => (WillBelieve(v)' <=> WillBelieve(v))
  BY DEF WillBelieve
<1>1. ASSUME NEW s \in Socket, RefuseConnection(s) PROVE Right'
  BY <1>1, <1>a, <1>b DEF RefuseConnection, friend, IsOnline
<1>2. ASSUME NEW s \in Socket, NEW u \in User, HandleConnection(s, u) PROVE Right'
  <2>1. u \in known' /\ sockets'[u] # {}
    BY <1>2 DEF HandleConnection, AddSocket, TypeOK
  <2>2. v # u => (IsOnline(v)' <=> IsOnline(v))
    BY <1>2 DEF HandleConnection, AddSocket, TypeOK, IsOnline
  <2>3. CASE WasEmpty(u)
    <3>1. Announce(u, TRUE) /\ UNCHANGED believed
      BY <1>2, <2>3 DEF HandleConnection, friend
    <3>2. /\ v = u => WillBelieve(v)'
          /\ v # u => (WillBelieve(v)' <=> WillBelieve(v)) /\ v \notin missed
      BY <3>1, AnnouncedLast DEF Announce
    <3>3. rechecks' = rechecks
      BY <1>2 DEF HandleConnection
    <3>4. QED
      BY <1>a, <2>1, <2>2, <3>2, <3>3 DEF IsOnline
  <2>4. CASE ~WasEmpty(u)
    <3>1. v \notin missed /\ (WillBelieve(v)' <=> WillBelieve(v)) /\ rechecks' = rechecks
      BY <1>2, <1>b, <2>4 DEF HandleConnection, friend
    <3>2. QED
      BY <1>a, <2>1, <2>2, <2>4, <3>1 DEF IsOnline, WasEmpty
  <2>5. QED
    BY <2>3, <2>4
<1>3. ASSUME NEW s \in Socket, NEW u \in User, HandleDisconnect(s, u) PROVE Right'
  <2>1. (WillBelieve(v)' <=> WillBelieve(v)) /\ v \notin missed
    BY <1>3, <1>b DEF HandleDisconnect, friend
  <2>2. rechecks \subseteq rechecks' /\ known' = known
    BY <1>3 DEF HandleDisconnect, RemoveSocket
  <2>3. CASE v = u /\ sockets[u] = {s}
    <3>1. sockets'[v] = {}
      BY <1>3, <2>3 DEF HandleDisconnect, RemoveSocket, TypeOK
    <3>2. [socket |-> s, user |-> u, left |-> Recheck] \in rechecks'
      BY <1>3, <2>3 DEF HandleDisconnect
    <3>3. QED
      BY <2>3, <3>1, <3>2 DEF IsOnline
  <2>4. CASE v = u /\ sockets[u] # {s}
    <3>1. IsOnline(v) /\ IsOnline(v)'
      BY <1>3, <2>4, <2>2 DEF HandleDisconnect, RemoveSocket, TypeOK, IsOnline, GraceTimersMatch
    <3>2. QED
      BY <1>a, <2>1, <3>1
  <2>5. CASE v # u
    <3>1. IsOnline(v)' <=> IsOnline(v)
      BY <1>3, <2>5 DEF HandleDisconnect, RemoveSocket, TypeOK, IsOnline
    <3>2. QED
      BY <1>a, <2>1, <2>2, <3>1
  <2>6. QED
    BY <2>3, <2>4, <2>5
<1>4. ASSUME NEW u \in User, GraceExpired(u) PROVE Right'
  <2>1. IsOnline(v)' <=> IsOnline(v)
    BY <1>4 DEF GraceExpired, IsOnline
  <2>2. QED
    BY <1>4, <1>a, <1>b, <2>1 DEF GraceExpired, friend
<1>5. ASSUME NEW u \in User, GetOnlineStatus(u) PROVE Right'
  <2>1. /\ IsOnline(v)' <=> IsOnline(v)
        /\ rechecks' = rechecks /\ queue' = queue
    BY <1>5 DEF GetOnlineStatus, IsOnline
  <2>2. CASE v = u
    <3>1. v \in believed' <=> IsOnline(v)
      BY <1>5, <2>2 DEF GetOnlineStatus, Believe
    <3>2. v \notin missed \/ \A i \in DOMAIN queue : queue[i].user # v
      BY <1>5, <2>2 DEF GetOnlineStatus
    <3>3. CASE \A i \in DOMAIN queue : queue[i].user # v
      BY <2>1, <3>1, <3>3 DEF WillBelieve
    <3>4. CASE ~\A i \in DOMAIN queue : queue[i].user # v
      BY <1>a, <2>1, <3>2, <3>4 DEF WillBelieve
    <3>5. QED
      BY <3>3, <3>4
  <2>3. CASE v # u
    <3>1. (v \in believed' <=> v \in believed) /\ v \notin missed
      BY <1>5, <2>3 DEF GetOnlineStatus, Believe
    <3>2. QED
      BY <1>a, <2>1, <3>1 DEF WillBelieve
  <2>4. QED
    BY <2>2, <2>3
<1>6. ASSUME NEW x \in rechecks, RecheckOnline(x) PROVE Right'
  <2>1. x.user \in User
    BY DEF TypeOK, Timeout
  <2>2. IsOnline(v)' <=> IsOnline(v)
    BY <1>6 DEF RecheckOnline, IsOnline
  <2>3. v # x.user => \A y \in rechecks : y.user = v => y \in rechecks'
    BY <1>6 DEF RecheckOnline
  <2>4. CASE IsOnline(x.user)
    BY <1>6, <1>a, <1>b, <2>2, <2>3, <2>4 DEF RecheckOnline, friend
  <2>5. CASE ~IsOnline(x.user)
    <3>1. Announce(x.user, FALSE) /\ UNCHANGED believed
      BY <1>6, <2>5 DEF RecheckOnline, friend
    <3>2. /\ v = x.user => ~WillBelieve(v)'
          /\ v # x.user => (WillBelieve(v)' <=> WillBelieve(v)) /\ v \notin missed
      BY <2>1, <3>1, AnnouncedLast DEF Announce
    <3>3. QED
      BY <1>a, <2>2, <2>3, <2>5, <3>2
  <2>6. QED
    BY <2>4, <2>5
<1>7. ASSUME NEW i \in DOMAIN queue, Answer(i) PROVE Right'
  <2>1. v \notin missed /\ (WillBelieve(v)' <=> WillBelieve(v))
    BY <1>7, AnsweredRight
  <2>2. QED
    BY <1>7, <1>a, <2>1 DEF Answer, IsOnline
<1>8. CASE Crash
  BY <1>8 DEF Crash, IsOnline, WillBelieve
<1>9. CASE Tick
  <2>1. \A y \in rechecks : y.user = v => \E x \in rechecks' : x.user = v
    <3>1. ASSUME NEW y \in rechecks PROVE [y EXCEPT !.left = @ - 1].user = y.user
      BY DEF TypeOK, Timeout
    <3>2. QED
      BY <1>9, <3>1 DEF Tick
  <2>2. QED
    BY <1>9, <1>a, <1>b, <2>1 DEF Tick, friend, IsOnline
<1>10. ASSUME NEW on \in BOOLEAN, FriendConnection(on) PROVE Right'
  BY <1>10, <1>a, <1>b DEF FriendConnection, IsOnline
<1>11. CASE UNCHANGED vars
  BY <1>11, <1>a, <1>b DEF vars, friend, IsOnline
<1>12. QED
  BY <1>1, <1>2, <1>3, <1>4, <1>5, <1>6, <1>7, <1>8, <1>9, <1>10, <1>11 DEF Next

(* However many queries the database answers at once, and however often the
   server dies or the friend is cut off, the friend's picture of a user is never
   wrong for good unless the friend has missed the newest event about the user:
   the last word under way is right, or a timeout that will put it right is
   running. *)
THEOREM StatusArrives == Spec => []StatusOnItsWay
<1>1. Init => StatusOnItsWay
  BY StatusInit
<1>2. TypeOK /\ GraceTimersMatch /\ StatusOnItsWay /\ [Next]_vars => StatusOnItsWay'
  BY StatusStep
<1>3. QED
  BY <1>1, <1>2, TypeCorrect, TimersMatch, PTL DEF Spec
=============================================================================
