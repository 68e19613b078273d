------------------------ MODULE HostedSessionsProofs ------------------------
(***************************************************************************)
(* Proofs that a request acts for the subject of its cookie only, that the *)
(* cookies suffice for it to be served, for every number of requests,      *)
(* subjects and sessions, and that the limiter before it gives every       *)
(* client neither more nor less than its rate.                             *)
(***************************************************************************)
EXTENDS HostedSessions, RateLimiter, TLAPS

Requests == Asks \cup Connects

Checking == {"get", "validate", "restore"}

RequestSound(r) ==
    LET a == asking[r] IN
    /\ a.pc \in Checking =>
          /\ a = [pc |-> a.pc, cookie |-> a.cookie, restored |-> a.restored]
          /\ a.cookie.id \in 0..created
    /\ a.pc = "restore" \/ (a.pc = "get" /\ a.restored # FALSE) =>
          a.cookie.connection = a.cookie.subject
    /\ a.pc = "create" => a.subject = a.connection
    /\ a.pc = "cookie" => a.id \in 0..created
    /\ a.pc = "serve" => /\ a.session.subject = a.cookie.subject
                         /\ a.session.connection = a.cookie.subject

(* A session's connection is its subject's, created or restored.           *)
SessionSound(id) == sessions[id] # Absent => sessions[id].connection = sessions[id].subject

(* The session id is known, in the store, in a cookie or in a request, along *)
(* with a connection.                                                      *)
Bound(id, connection) ==
    /\ id \in 0..created
    /\ \/ sessions[id] # Absent /\ sessions[id].connection = connection
       \/ jar.id = id /\ jar.connection = connection
       \/ \E r \in Requests : /\ asking[r].pc \in Checking
                              /\ asking[r].cookie.id = id
                              /\ asking[r].cookie.connection = connection
       \/ \E r \in Requests : /\ asking[r].pc = "cookie"
                              /\ asking[r].id = id
                              /\ asking[r].connection = connection

(* No id is ever known along with two connections.                         *)
OneConnection == \A id, c, d : Bound(id, c) /\ Bound(id, d) => c = d

Shape ==
    /\ created \in 0..MaxSessions
    /\ DOMAIN sessions = 0..MaxSessions
    /\ DOMAIN asking = Requests
    /\ jar = [subject |-> jar.subject, id |-> jar.id, connection |-> jar.connection]
    /\ jar.id \in 0..created \cup {Absent}

SessionInv ==
    /\ Shape
    /\ \A r \in Requests : RequestSound(r)
    /\ \A id \in 0..MaxSessions : SessionSound(id)
    /\ OneConnection
-----------------------------------------------------------------------------
LEMMA SessionInitially == ASSUME SessionAssumption, SessionInit PROVE SessionInv
<1> USE DEF SessionInit, SessionAssumption
<1>1. Shape
  BY DEF Shape, Requests
<1>2. \A r \in Requests : RequestSound(r)
  BY DEF RequestSound, Requests, Checking
<1>3. \A id \in 0..MaxSessions : SessionSound(id)
  BY DEF SessionSound
<1>4. \A id, c : Bound(id, c) => c = Absent
  BY DEF Bound, Requests, Checking
<1>5. QED BY <1>1, <1>2, <1>3, <1>4 DEF SessionInv, OneConnection

(* A request at restoreSession's checks, and one at none of the steps that    *)
(* RequestSound speaks of.                                                 *)
LEMMA CheckingSound ==
    ASSUME NEW r, NEW pc \in Checking, NEW cookie, NEW restored,
           asking'[r] = [pc |-> pc, cookie |-> cookie, restored |-> restored],
           cookie.id \in 0..created',
           pc = "restore" \/ (pc = "get" /\ restored # FALSE) => cookie.connection = cookie.subject
    PROVE  RequestSound(r)'
<1>1. /\ asking'[r].pc = pc /\ asking'[r].cookie = cookie /\ asking'[r].restored = restored
      /\ pc \in {"get", "validate", "restore"}
  BY DEF Checking
<1>2. asking'[r] = [pc |-> asking'[r].pc, cookie |-> asking'[r].cookie,
                    restored |-> asking'[r].restored]
  BY <1>1
<1>3. pc # "create" /\ pc # "cookie" /\ pc # "serve"
  BY <1>1
<1>4. QED BY <1>1, <1>2, <1>3, Zenon DEF RequestSound

LEMMA ElsewhereSound ==
    ASSUME NEW r, asking'[r].pc \in {"idle", "lost", "refused", "done"}
    PROVE  RequestSound(r)'
<1>1. /\ asking'[r].pc \notin Checking /\ asking'[r].pc # "restore" /\ asking'[r].pc # "get"
      /\ asking'[r].pc # "create" /\ asking'[r].pc # "cookie" /\ asking'[r].pc # "serve"
  BY DEF Checking
<1>2. QED BY <1>1, Zenon DEF RequestSound

(* A step of one request r that creates no session and issues no cookie: it   *)
(* may write the session of the id it checks.                              *)
LEMMA RequestKeeps ==
    ASSUME SessionAssumption, SessionInv, NEW r \in Requests, NEW rec,
           asking' = [asking EXCEPT ![r] = rec],
           UNCHANGED <<created, jar>>,
           RequestSound(r)',
           DOMAIN sessions' = 0..MaxSessions,
           \A id \in 0..MaxSessions : SessionSound(id)',
           \A id, c : id \in 0..created /\ sessions'[id] # Absent /\ sessions'[id].connection = c
                      => Bound(id, c),
           \A id, c : id \in 0..created /\ rec.pc \in Checking
                      /\ rec.cookie.id = id /\ rec.cookie.connection = c => Bound(id, c),
           rec.pc # "cookie"
    PROVE  SessionInv'
<1> USE DEF SessionInv
<1>1. DOMAIN asking' = Requests /\ asking'[r] = rec /\ \A q \in Requests : q # r => asking'[q] = asking[q]
  BY DEF Shape
<1>2. Shape'
  BY <1>1 DEF Shape
<1>3. ASSUME NEW q \in Requests PROVE RequestSound(q)'
  <2>1. CASE q # r
    BY <1>1, <2>1 DEF RequestSound
  <2>2. QED BY <2>1
<1>4. ASSUME NEW id, NEW c, Bound(id, c)' PROVE Bound(id, c)
  <2>1. id \in 0..created
    BY <1>4 DEF Bound
  <2>2. CASE sessions'[id] # Absent /\ sessions'[id].connection = c
    BY <2>1, <2>2
  <2>3. CASE jar.id = id /\ jar.connection = c
    BY <2>1, <2>3 DEF Bound
  <2>4. ASSUME NEW q \in Requests, asking'[q].pc \in Checking, asking'[q].cookie.id = id,
               asking'[q].cookie.connection = c
        PROVE  Bound(id, c)
    <3>1. CASE q = r
      BY <1>1, <2>1, <2>4, <3>1
    <3>2. CASE q # r
      BY <1>1, <2>1, <2>4, <3>2 DEF Bound
    <3>3. QED BY <3>1, <3>2
  <2>5. ASSUME NEW q \in Requests, asking'[q].pc = "cookie", asking'[q].id = id,
               asking'[q].connection = c
        PROVE  Bound(id, c)
    <3>1. q # r
      BY <1>1, <2>5
    <3>2. QED BY <1>1, <2>1, <2>5, <3>1 DEF Bound
  <2>6. QED BY <1>4, <2>2, <2>3, <2>4, <2>5 DEF Bound
<1>5. OneConnection'
  BY <1>4 DEF OneConnection
<1>6. QED BY <1>2, <1>3, <1>5

(* A step that forgets sessions, cookies and requests, or none.            *)
LEMMA ForgettingKeeps ==
    ASSUME SessionAssumption, SessionInv, UNCHANGED created,
           DOMAIN sessions' = 0..MaxSessions,
           \A id \in 0..MaxSessions : sessions'[id] \in {sessions[id], Absent},
           DOMAIN asking' = Requests,
           \A r \in Requests : asking'[r] = asking[r] \/ asking'[r].pc \in {"idle", "lost"},
           jar' = [subject |-> jar'.subject, id |-> jar'.id, connection |-> jar'.connection],
           \/ jar'.id = jar.id /\ jar'.connection = jar.connection
           \/ jar'.id = Absent
    PROVE  SessionInv'
<1> USE DEF SessionInv
<1>1. Shape'
  BY DEF Shape
<1>2. ASSUME NEW r \in Requests PROVE RequestSound(r)'
  BY ZenonT(60) DEF RequestSound, Checking
<1>3. ASSUME NEW id \in 0..MaxSessions PROVE SessionSound(id)'
  BY DEF SessionSound
<1>4. ASSUME NEW id, NEW c, Bound(id, c)' PROVE Bound(id, c)
  <2>1. id \in 0..created /\ id \in 0..MaxSessions /\ id # Absent
    BY <1>4 DEF Bound, Shape, SessionAssumption
  <2>2. ASSUME NEW q \in Requests, asking'[q].pc \in Checking \cup {"cookie"}
        PROVE  asking'[q] = asking[q]
    BY <2>2 DEF Checking
  <2>3. CASE sessions'[id] # Absent /\ sessions'[id].connection = c
    BY <2>1, <2>3 DEF Bound
  <2>4. CASE jar'.id = id /\ jar'.connection = c
    BY <2>1, <2>4 DEF Bound
  <2>5. CASE \E q \in Requests : /\ asking'[q].pc \in Checking /\ asking'[q].cookie.id = id
                                 /\ asking'[q].cookie.connection = c
    BY <2>1, <2>2, <2>5 DEF Bound
  <2>6. CASE \E q \in Requests : /\ asking'[q].pc = "cookie" /\ asking'[q].id = id
                                 /\ asking'[q].connection = c
    BY <2>1, <2>2, <2>6 DEF Bound
  <2>7. QED BY <1>4, <2>3, <2>4, <2>5, <2>6 DEF Bound
<1>5. OneConnection'
  BY <1>4 DEF OneConnection
<1>6. QED BY <1>1, <1>2, <1>3, <1>5

LEMMA OutsideRequestsKeep ==
    ASSUME SessionAssumption, SessionInv,
           HalfPasses \/ cleanup \/ Restart \/ handleConnectSession \/ Redeem
           \/ LoseSubjectCookie \/ handleLogout
    PROVE  SessionInv'
<1> USE DEF SessionInv, Shape
<1>1. CASE HalfPasses \/ Redeem
  BY <1>1, ForgettingKeeps DEF HalfPasses, Redeem
<1>2. CASE cleanup
  BY <1>2, ForgettingKeeps DEF cleanup
<1>3. CASE Restart
  BY <1>3, ForgettingKeeps DEF Restart
<1>4. CASE handleConnectSession
  BY <1>4, ForgettingKeeps DEF handleConnectSession, ensureSubjectID
<1>5. CASE LoseSubjectCookie
  BY <1>5, ForgettingKeeps DEF LoseSubjectCookie
<1>6. CASE handleLogout
  BY <1>6, ForgettingKeeps DEF handleLogout
<1>7. QED BY <1>1, <1>2, <1>3, <1>4, <1>5, <1>6
-----------------------------------------------------------------------------
(* Connecting.                                                             *)

LEMMA BeginConnectKeeps ==
    ASSUME SessionAssumption, SessionInv, NEW r \in Requests, BeginConnect(r)
    PROVE  SessionInv'
<1>1. PICK rec : /\ asking' = [asking EXCEPT ![r] = rec]
                 /\ \/ rec.pc = "create" /\ rec.subject = rec.connection
                    \/ rec.pc = "lost"
  <2>1. PICK connection \in connected :
          asking' = [asking EXCEPT ![r] =
                        IF GetConnection(jar.subject, connection)
                        THEN [pc |-> "create", subject |-> jar.subject, connection |-> connection]
                        ELSE [pc |-> "lost"]]
    BY DEF BeginConnect
  <2> DEFINE made == [pc |-> "create", subject |-> jar.subject, connection |-> connection]
  <2>2. CASE GetConnection(jar.subject, connection)
    <3>1. asking' = [asking EXCEPT ![r] = made]
      BY <2>1, <2>2
    <3>2. made.pc = "create" /\ made.subject = made.connection
      BY <2>2 DEF GetConnection
    <3> HIDE DEF made
    <3>3. QED BY <3>1, <3>2
  <2>3. CASE ~GetConnection(jar.subject, connection)
    <3>1. asking' = [asking EXCEPT ![r] = [pc |-> "lost"]]
      BY <2>1, <2>3
    <3>2. [pc |-> "lost"].pc = "lost"
      OBVIOUS
    <3>3. QED BY <3>1, <3>2, Zenon
  <2>4. QED BY <2>2, <2>3
<1>2. asking'[r] = rec
  BY <1>1 DEF SessionInv, Shape
<1>3. RequestSound(r)'
  BY <1>1, <1>2 DEF RequestSound, Checking
<1>4. UNCHANGED <<sessions, created, jar>>
  BY DEF BeginConnect
<1>5. /\ \A id \in 0..MaxSessions : SessionSound(id)'
      /\ \A id, c : id \in 0..created /\ sessions'[id] # Absent /\ sessions'[id].connection = c
                    => Bound(id, c)
  BY <1>4 DEF SessionInv, SessionSound, Bound
<1>6. rec.pc \notin Checking /\ rec.pc # "cookie"
  BY <1>1 DEF Checking
<1>7. DOMAIN sessions' = 0..MaxSessions
  BY <1>4 DEF SessionInv, Shape
<1>8. QED BY <1>1, <1>3, <1>4, <1>5, <1>6, <1>7, RequestKeeps

(* A new session has an id of its own.                                     *)
LEMMA CreateWithSubjectKeeps ==
    ASSUME SessionAssumption, SessionInv, NEW r \in Requests, CreateWithSubject(r)
    PROVE  SessionInv'
<1> DEFINE new == [subject |-> asking[r].subject, connection |-> asking[r].connection,
                   createdAt |-> half]
           rec == [pc |-> "cookie", id |-> created + 1, connection |-> asking[r].connection]
<1> USE DEF SessionInv
<1>1. /\ asking[r].pc = "create" /\ created' = created + 1 /\ UNCHANGED jar
      /\ created \in Nat /\ created' \in 0..MaxSessions /\ Absent \notin Nat
  BY DEF CreateWithSubject, Shape, SessionAssumption
<1>2. /\ DOMAIN sessions' = 0..MaxSessions /\ sessions'[created + 1] = new
      /\ \A id \in 0..created : sessions'[id] = sessions[id]
      /\ \A id \in 0..MaxSessions : id # created + 1 => sessions'[id] = sessions[id]
  BY <1>1 DEF CreateWithSubject, Shape
<1>3. /\ DOMAIN asking' = Requests /\ asking'[r] = rec
      /\ \A q \in Requests : q # r => asking'[q] = asking[q]
  BY <1>1 DEF CreateWithSubject, Shape
<1>4. Shape'
  BY <1>1, <1>2, <1>3 DEF Shape
<1>5. ASSUME NEW q \in Requests PROVE RequestSound(q)'
  <2>1. CASE q = r
    <3>1. /\ asking'[q].pc = "cookie" /\ asking'[q].id = created + 1
          /\ created + 1 \in 0..created'
      BY <1>1, <1>3, <2>1
    <3>2. QED BY <3>1 DEF RequestSound, Checking
  <2>2. CASE q # r
    <3>1. asking'[q] = asking[q] /\ 0..created \subseteq 0..created'
      BY <1>1, <1>3, <2>2
    <3>2. QED BY <3>1 DEF RequestSound
  <2>3. QED BY <2>1, <2>2
<1>6. asking[r].subject = asking[r].connection
  BY <1>1 DEF RequestSound
<1>7. ASSUME NEW id \in 0..MaxSessions PROVE SessionSound(id)'
  BY <1>2, <1>6 DEF SessionSound
<1>8. ASSUME NEW id, NEW c, Bound(id, c)'
      PROVE  Bound(id, c) \/ (id = created + 1 /\ c = asking[r].connection)
  <2>1. id \in 0..created + 1
    BY <1>1, <1>8 DEF Bound
  <2>2. id = created + 1 \/ id \in 0..created
    BY <1>1, <2>1
  <2>3. CASE sessions'[id] # Absent /\ sessions'[id].connection = c
    BY <1>2, <2>2, <2>3 DEF Bound
  <2>4. CASE jar'.id = id /\ jar'.connection = c
    <3>1. id \in 0..created
      BY <1>1, <2>1, <2>4 DEF Shape
    <3>2. QED BY <1>1, <2>4, <3>1 DEF Bound
  <2>5. ASSUME NEW q \in Requests, asking'[q].pc \in Checking, asking'[q].cookie.id = id,
               asking'[q].cookie.connection = c
        PROVE  Bound(id, c)
    <3>1. q # r
      BY <1>3, <2>5 DEF Checking
    <3>2. asking'[q] = asking[q] /\ id \in 0..created
      BY <1>3, <2>5, <3>1 DEF RequestSound
    <3>3. QED BY <2>5, <3>2 DEF Bound
  <2>6. ASSUME NEW q \in Requests, asking'[q].pc = "cookie", asking'[q].id = id,
               asking'[q].connection = c
        PROVE  Bound(id, c) \/ (id = created + 1 /\ c = asking[r].connection)
    <3>1. CASE q = r
      BY <1>3, <2>6, <3>1
    <3>2. CASE q # r
      <4>1. asking'[q] = asking[q] /\ id \in 0..created
        BY <1>3, <2>6, <3>2 DEF RequestSound
      <4>2. QED BY <2>6, <4>1 DEF Bound
    <3>3. QED BY <3>1, <3>2
  <2>7. QED BY <1>8, <2>3, <2>4, <2>5, <2>6 DEF Bound
<1>9. \A id, c : Bound(id, c) => id # created + 1
  BY <1>1 DEF Bound
<1>10. OneConnection'
  BY <1>8, <1>9 DEF OneConnection
<1>11. QED BY <1>4, <1>5, <1>7, <1>10

LEMMA SetSessionCookieKeeps ==
    ASSUME SessionAssumption, SessionInv, NEW r \in Requests, SetSessionCookie(r)
    PROVE  SessionInv'
<1> USE DEF SessionInv
<1>1. /\ asking[r].pc = "cookie" /\ UNCHANGED <<sessions, created>>
      /\ jar' = [jar EXCEPT !.id = asking[r].id, !.connection = asking[r].connection]
  BY DEF SetSessionCookie
<1>2. /\ DOMAIN asking' = Requests /\ asking'[r] = [pc |-> "done"]
      /\ \A q \in Requests : q # r => asking'[q] = asking[q]
  BY DEF SetSessionCookie, Shape
<1>3. jar' = [subject |-> jar.subject, id |-> asking[r].id, connection |-> asking[r].connection]
  BY <1>1 DEF Shape
<1>4. asking[r].id \in 0..created
  BY <1>1 DEF RequestSound
<1>5. Shape'
  <2>1. jar' = [subject |-> jar'.subject, id |-> jar'.id, connection |-> jar'.connection]
    BY <1>3
  <2>2. jar'.id = asking[r].id
    BY <1>3
  <2>3. QED BY <1>1, <1>2, <1>4, <2>1, <2>2 DEF Shape
<1>6. ASSUME NEW q \in Requests PROVE RequestSound(q)'
  <2>1. CASE q = r
    <3>1. asking'[q].pc = "done"
      BY <1>2, <2>1
    <3>2. QED BY <3>1, ElsewhereSound
  <2>2. CASE q # r
    BY <1>1, <1>2, <2>2, ZenonT(60) DEF RequestSound
  <2>3. QED BY <2>1, <2>2
<1>7. ASSUME NEW id \in 0..MaxSessions PROVE SessionSound(id)'
  BY <1>1 DEF SessionSound
<1>8. ASSUME NEW id, NEW c, Bound(id, c)' PROVE Bound(id, c)
  <2>1. id \in 0..created
    BY <1>1, <1>8 DEF Bound
  <2>2. CASE sessions'[id] # Absent /\ sessions'[id].connection = c
    BY <1>1, <2>1, <2>2 DEF Bound
  <2>3. CASE jar'.id = id /\ jar'.connection = c
    BY <1>1, <1>3, <2>1, <2>3 DEF Bound
  <2>4. CASE \E q \in Requests : /\ asking'[q].pc \in Checking /\ asking'[q].cookie.id = id
                                 /\ asking'[q].cookie.connection = c
    BY <1>2, <2>1, <2>4 DEF Bound, Checking
  <2>5. CASE \E q \in Requests : /\ asking'[q].pc = "cookie" /\ asking'[q].id = id
                                 /\ asking'[q].connection = c
    BY <1>2, <2>1, <2>5 DEF Bound
  <2>6. QED BY <1>8, <2>2, <2>3, <2>4, <2>5 DEF Bound
<1>9. OneConnection'
  BY <1>8 DEF OneConnection
<1>10. QED BY <1>5, <1>6, <1>7, <1>9
-----------------------------------------------------------------------------
(* restoreSession.                                                         *)

LEMMA ReadCookiesKeeps ==
    ASSUME SessionAssumption, SessionInv, NEW r \in Requests, ReadCookies(r)
    PROVE  SessionInv'
<1> DEFINE rec == [pc |-> "get", cookie |-> jar, restored |-> FALSE]
<1>1. /\ asking' = [asking EXCEPT ![r] = rec] /\ jar.id # Absent
      /\ UNCHANGED <<sessions, created, jar>>
  BY DEF ReadCookies
<1>2. asking'[r] = rec /\ jar.id \in 0..created
  BY <1>1 DEF SessionInv, Shape
<1>3. RequestSound(r)'
  <2>1. "get" \in Checking /\ jar.id \in 0..created'
    BY <1>1, <1>2 DEF Checking
  <2>2. QED BY <1>2, <2>1, CheckingSound
<1>4. /\ \A id \in 0..MaxSessions : SessionSound(id)'
      /\ \A id, c : id \in 0..created /\ sessions'[id] # Absent /\ sessions'[id].connection = c
                    => Bound(id, c)
      /\ \A id, c : id \in 0..created /\ rec.cookie.id = id /\ rec.cookie.connection = c
                    => Bound(id, c)
  BY <1>1 DEF SessionInv, SessionSound, Bound
<1>5. DOMAIN sessions' = 0..MaxSessions /\ rec.pc # "cookie"
  BY <1>1 DEF SessionInv, Shape
<1>6. QED
  <2> HIDE DEF rec
  <2> QED BY <1>1, <1>3, <1>4, <1>5, RequestKeeps

(* What is served is the cookie's session: of its subject because that was  *)
(* looked at, or because the connection that goes with the id is that       *)
(* subject's.                                                              *)
LEMMA ServedIsSound ==
    ASSUME SessionAssumption, SessionInv, NEW r \in Requests, asking[r].pc = "get",
           sessions[asking[r].cookie.id] # Absent,
           asking[r].restored # FALSE \/ Owned(r)
    PROVE  LET session == sessions[asking[r].cookie.id] IN
           /\ session.subject = asking[r].cookie.subject
           /\ session.connection = asking[r].cookie.subject
<1> DEFINE id == asking[r].cookie.id
<1> USE DEF SessionInv
<1>1. id \in 0..created /\ id \in 0..MaxSessions
  <2>1. id \in 0..created
    BY DEF RequestSound, Checking
  <2>2. QED BY <2>1 DEF Shape, SessionAssumption
<1>2. sessions[id].connection = sessions[id].subject
  BY <1>1 DEF SessionSound
<1>3. CASE Owned(r)
  BY <1>2, <1>3 DEF Owned
<1>4. CASE asking[r].restored # FALSE
  <2>1. Bound(id, sessions[id].connection) /\ Bound(id, asking[r].cookie.connection)
    BY <1>1 DEF Bound, Checking
  <2>2. sessions[id].connection = asking[r].cookie.connection
    BY <2>1 DEF OneConnection
  <2>3. asking[r].cookie.connection = asking[r].cookie.subject
    BY <1>4 DEF RequestSound
  <2>4. QED BY <1>2, <2>2, <2>3
<1>5. QED BY <1>3, <1>4

LEMMA GetKeeps ==
    ASSUME SessionAssumption, SessionInv, NEW r \in Requests, Get(r)
    PROVE  SessionInv'
<1> DEFINE id == asking[r].cookie.id
           rec == IF sessions[id] # Absent /\ ~Expired(sessions[id])
                  THEN IF asking[r].restored \/ Owned(r) THEN Serve(r) ELSE Refused(r, "subject")
                  ELSE IF asking[r].restored
                       THEN Refused(r, IF sessions[id] = Absent THEN "deleted" ELSE "expired")
                  ELSE IF asking[r].cookie.connection = Absent THEN Refused(r, "cookie")
                  ELSE [asking[r] EXCEPT !.pc = "validate"]
<1>1. /\ asking[r].pc = "get" /\ asking' = [asking EXCEPT ![r] = rec]
      /\ UNCHANGED <<created, jar>>
  BY DEF Get
<1>2. /\ DOMAIN sessions' = 0..MaxSessions
      /\ \A k \in 0..MaxSessions : sessions'[k] \in {sessions[k], Absent}
  BY DEF Get, SessionInv, Shape
<1>3. asking'[r] = rec
  BY <1>1 DEF SessionInv, Shape
<1>4. asking[r] = [pc |-> "get", cookie |-> asking[r].cookie, restored |-> asking[r].restored]
      /\ id \in 0..created
  BY <1>1 DEF SessionInv, RequestSound, Checking
<1>5. \/ /\ rec = Serve(r) /\ sessions[id] # Absent
         /\ asking[r].restored # FALSE \/ Owned(r)
      \/ rec.pc = "refused"
      \/ rec = [pc |-> "validate", cookie |-> asking[r].cookie, restored |-> asking[r].restored]
  BY <1>4, Zenon DEF Refused
<1>6. RequestSound(r)'
  <2>1. CASE /\ rec = Serve(r) /\ sessions[id] # Absent
             /\ asking[r].restored # FALSE \/ Owned(r)
    <3>1. /\ rec.pc = "serve" /\ rec.cookie = asking[r].cookie /\ rec.session = sessions[id]
      BY <2>1 DEF Serve
    <3>2. /\ sessions[id].subject = asking[r].cookie.subject
          /\ sessions[id].connection = asking[r].cookie.subject
      BY <1>1, <2>1, ServedIsSound
    <3> HIDE DEF rec
    <3>3. QED BY <1>3, <3>1, <3>2 DEF RequestSound, Checking
  <2>2. CASE rec.pc = "refused"
    <3> HIDE DEF rec
    <3> QED BY <1>3, <2>2, ElsewhereSound
  <2>3. CASE rec = [pc |-> "validate", cookie |-> asking[r].cookie,
                    restored |-> asking[r].restored]
    <3>1. "validate" \in Checking /\ id \in 0..created'
      BY <1>1, <1>4 DEF Checking
    <3> HIDE DEF rec, id
    <3>2. asking[r].cookie.id \in 0..created'
      BY <3>1 DEF id
    <3>3. QED BY <1>3, <2>3, <3>1, <3>2, CheckingSound
  <2>4. QED BY <1>5, <2>1, <2>2, <2>3
<1>7. (rec.pc \in Checking => rec.cookie = asking[r].cookie) /\ rec.pc # "cookie"
  <2>1. Serve(r).pc = "serve"
    BY DEF Serve
  <2> HIDE DEF rec
  <2>2. \/ rec.pc = "serve" \/ rec.pc = "refused"
        \/ rec.pc = "validate" /\ rec.cookie = asking[r].cookie
    <3>1. CASE rec = Serve(r)
      BY <2>1, <3>1, Zenon
    <3>2. CASE rec = [pc |-> "validate", cookie |-> asking[r].cookie,
                      restored |-> asking[r].restored]
      BY <3>2
    <3>3. QED BY <1>5, <3>1, <3>2, Zenon
  <2>3. QED BY <2>2 DEF Checking
<1>8. \A k \in 0..MaxSessions : SessionSound(k)'
  BY <1>2 DEF SessionInv, SessionSound
<1>9.  /\ \A k, c : k \in 0..created /\ sessions'[k] # Absent /\ sessions'[k].connection = c
                    => Bound(k, c)
       /\ \A k, c : k \in 0..created /\ rec.pc \in Checking
                    /\ rec.cookie.id = k /\ rec.cookie.connection = c => Bound(k, c)
  <2>1. \A k \in 0..created : k \in 0..MaxSessions
    BY DEF SessionInv, Shape
  <2> HIDE DEF rec
  <2>2. QED BY <1>1, <1>2, <1>7, <2>1 DEF Bound, Checking
<1>10. QED
  <2> HIDE DEF rec
  <2> QED BY <1>1, <1>2, <1>6, <1>7, <1>8, <1>9, RequestKeeps

LEMMA ValidateConnectionKeeps ==
    ASSUME SessionAssumption, SessionInv, NEW r \in Requests, ValidateConnection(r)
    PROVE  SessionInv'
<1>1. asking[r].pc = "validate" /\ UNCHANGED <<sessions, created, jar>>
  BY DEF ValidateConnection
<1>2. /\ asking[r] = [pc |-> "validate", cookie |-> asking[r].cookie,
                      restored |-> asking[r].restored]
      /\ asking[r].cookie.id \in 0..created
  BY <1>1 DEF SessionInv, RequestSound, Checking
<1>3. PICK rec : /\ asking' = [asking EXCEPT ![r] = rec]
                 /\ \/ /\ Validates(r)
                       /\ rec = [pc |-> "restore", cookie |-> asking[r].cookie,
                                 restored |-> asking[r].restored]
                    \/ rec.pc = "refused"
  <2>1. /\ Refused(r, "connection").pc = "refused" /\ Refused(r, "call").pc = "refused"
        /\ [asking[r] EXCEPT !.pc = "restore"]
             = [pc |-> "restore", cookie |-> asking[r].cookie, restored |-> asking[r].restored]
    BY <1>2 DEF Refused
  <2>2. \/ /\ Validates(r)
           /\ asking' = [asking EXCEPT ![r] = [asking[r] EXCEPT !.pc = "restore"]]
        \/ asking' = [asking EXCEPT ![r] = Refused(r, "connection")]
        \/ asking' = [asking EXCEPT ![r] = Refused(r, "call")]
    BY DEF ValidateConnection
  <2>3. QED BY <2>1, <2>2, Zenon
<1>4. asking'[r] = rec
  BY <1>3 DEF SessionInv, Shape
<1>5. RequestSound(r)'
  <2>1. CASE rec.pc = "refused"
    BY <1>4, <2>1, ElsewhereSound
  <2>2. CASE /\ Validates(r)
             /\ rec = [pc |-> "restore", cookie |-> asking[r].cookie,
                       restored |-> asking[r].restored]
    <3>1. "restore" \in Checking /\ asking[r].cookie.id \in 0..created'
      BY <1>1, <1>2 DEF Checking
    <3>2. asking[r].cookie.connection = asking[r].cookie.subject
      BY <2>2 DEF Validates, GetConnection
    <3>3. QED BY <1>4, <2>2, <3>1, <3>2, CheckingSound, Zenon
  <2>3. QED BY <1>3, <2>1, <2>2
<1>6. rec.pc # "cookie" /\ (rec.pc \in Checking => rec.cookie = asking[r].cookie)
  BY <1>3 DEF Checking
<1>7. /\ \A id \in 0..MaxSessions : SessionSound(id)'
      /\ \A id, c : id \in 0..created /\ sessions'[id] # Absent /\ sessions'[id].connection = c
                    => Bound(id, c)
      /\ \A id, c : id \in 0..created /\ rec.pc \in Checking
                    /\ rec.cookie.id = id /\ rec.cookie.connection = c => Bound(id, c)
  BY <1>1, <1>6 DEF SessionInv, SessionSound, Bound, Checking
<1>8. DOMAIN sessions' = 0..MaxSessions
  BY <1>1 DEF SessionInv, Shape
<1>9. QED BY <1>1, <1>3, <1>5, <1>6, <1>7, <1>8, RequestKeeps

LEMMA RestoreWithSubjectKeeps ==
    ASSUME SessionAssumption, SessionInv, NEW r \in Requests, RestoreWithSubject(r)
    PROVE  SessionInv'
<1> DEFINE id == asking[r].cookie.id
           new == RestoredSession(asking[r].cookie)
           rec == [pc |-> "get", cookie |-> asking[r].cookie, restored |-> TRUE]
<1>1. /\ asking[r].pc = "restore" /\ UNCHANGED <<created, jar>>
      /\ sessions' = [sessions EXCEPT ![id] = new]
      /\ asking' = [asking EXCEPT ![r].pc = "get", ![r].restored = TRUE]
  BY DEF RestoreWithSubject
<1>2. /\ asking[r] = [pc |-> "restore", cookie |-> asking[r].cookie,
                      restored |-> asking[r].restored]
      /\ id \in 0..created /\ asking[r].cookie.connection = asking[r].cookie.subject
  BY <1>1 DEF SessionInv, RequestSound, Checking
<1>3. asking' = [asking EXCEPT ![r] = rec]
  <2> DEFINE cookie == asking[r].cookie
             restored == asking[r].restored
  <2>1. [[asking[r] EXCEPT !.pc = "get"] EXCEPT !.restored = TRUE] = rec
    <3>1. asking[r] = [pc |-> "restore", cookie |-> cookie, restored |-> restored]
      BY <1>2
    <3> HIDE DEF cookie, restored
    <3>2. [asking[r] EXCEPT !.pc = "get"]
             = [pc |-> "get", cookie |-> cookie, restored |-> restored]
      BY <3>1
    <3>3. \A value : [[pc |-> "get", cookie |-> cookie, restored |-> restored]
                        EXCEPT !.restored = value]
                       = [pc |-> "get", cookie |-> cookie, restored |-> value]
      OBVIOUS
    <3>4. QED BY <3>2, <3>3, Zenon DEF cookie
  <2>2. asking' = [asking EXCEPT ![r] = [[asking[r] EXCEPT !.pc = "get"] EXCEPT !.restored = TRUE]]
    BY <1>1 DEF SessionInv, Shape
  <2>3. QED BY <2>1, <2>2
<1>4. asking'[r] = rec
  BY <1>3 DEF SessionInv, Shape
<1>5. RequestSound(r)'
  <2>1. "get" \in Checking /\ id \in 0..created'
    BY <1>1, <1>2 DEF Checking
  <2>2. QED BY <1>2, <1>4, <2>1, CheckingSound
<1>6. new.subject = asking[r].cookie.subject /\ new.connection = asking[r].cookie.connection
  BY DEF RestoredSession
<1>7. /\ DOMAIN sessions' = 0..MaxSessions /\ id \in 0..MaxSessions /\ sessions'[id] = new
      /\ \A k \in 0..MaxSessions : k # id => sessions'[k] = sessions[k]
  BY <1>1, <1>2 DEF SessionInv, Shape
<1>8. \A k \in 0..MaxSessions : SessionSound(k)'
  <2> HIDE DEF new
  <2> QED BY <1>2, <1>6, <1>7 DEF SessionInv, SessionSound
<1>9. Bound(id, asking[r].cookie.connection)
  BY <1>1, <1>2 DEF Bound, Checking
<1>10. \A k, c : k \in 0..created /\ sessions'[k] # Absent /\ sessions'[k].connection = c
                 => Bound(k, c)
  <2>1. \A k \in 0..created : k \in 0..MaxSessions
    BY DEF SessionInv, Shape
  <2> HIDE DEF new
  <2>2. QED BY <1>6, <1>7, <1>9, <2>1 DEF Bound
<1>11. rec.cookie = asking[r].cookie /\ rec.pc # "cookie"
  OBVIOUS
<1>12. \A k, c : /\ k \in 0..created /\ rec.pc \in Checking
                 /\ rec.cookie.id = k /\ rec.cookie.connection = c
                 => Bound(k, c)
  <2> HIDE DEF rec
  <2> QED BY <1>9, <1>11
<1>13. QED
  <2> HIDE DEF rec, new, id
  <2> QED BY <1>1, <1>3, <1>5, <1>7, <1>8, <1>10, <1>11, <1>12, RequestKeeps

LEMMA SessionStepKeeps ==
    ASSUME SessionAssumption, SessionInv, [SessionNext]_sessionVars
    PROVE  SessionInv'
<1>1. CASE UNCHANGED sessionVars
  BY <1>1, ForgettingKeeps DEF sessionVars, SessionInv, Shape
<1>2. ASSUME NEW r \in Asks, AskStep(r) PROVE SessionInv'
  <2>1. r \in Requests
    BY DEF Requests
  <2>2. QED BY <1>2, <2>1, ReadCookiesKeeps, GetKeeps, ValidateConnectionKeeps,
               RestoreWithSubjectKeeps DEF AskStep
<1>3. ASSUME NEW r \in Connects, Connect(r) PROVE SessionInv'
  <2>1. r \in Requests
    BY DEF Requests
  <2>2. QED BY <1>3, <2>1, BeginConnectKeeps, CreateWithSubjectKeeps, SetSessionCookieKeeps
            DEF Connect
<1>4. QED BY <1>1, <1>2, <1>3, OutsideRequestsKeep DEF SessionNext

LEMMA SessionInvariant == SessionSpec => []SessionInv
<1>1. SessionInit => SessionInv
  BY SessionInitially, SessionAssumption
<1>2. SessionInv /\ [SessionNext]_sessionVars => SessionInv'
  BY SessionStepKeeps, SessionAssumption
<1>3. QED BY <1>1, <1>2, PTL DEF SessionSpec

(* restoreSession (authservice_server.go) looks at the subject of a session  *)
(* it finds, and after a restoration takes what Get gives: that is the       *)
(* cookie's subject with its own connection, since CreateWithSubject and     *)
(* RestoreWithSubject give one id one connection.                           *)
THEOREM ServedAsItself == SessionSpec => []ActsForItsSubject
<1>1. SessionInv => ActsForItsSubject
  BY DEF SessionInv, RequestSound, ActsForItsSubject, Requests
<1>2. QED BY <1>1, SessionInvariant, PTL

-----------------------------------------------------------------------------
(* What the cookies are good for. *)

(* A connection that a cookie or a request names was given out; a request    *)
(* was refused for the auth service's failure, for a logout, or because the  *)
(* connection of its cookie is not its subject's.                            *)
CookieOk(r) ==
    LET a == asking[r] IN
    /\ a.pc \in Checking => /\ a.restored \in BOOLEAN /\ a.cookie.subject # Absent
                            /\ a.cookie.connection \in connected \cup {Absent}
    /\ a.pc \in {"validate", "restore"} => a.cookie.connection # Absent
    /\ a.pc \in {"create", "cookie"} => a.connection \in connected
    /\ a.pc = "refused" => a.why \in {"call", "deleted"} \/ a.cookie.connection # a.cookie.subject

(* A session just restored is not old.                                       *)
Recent(r) ==
    asking[r].pc = "get" /\ asking[r].restored # FALSE =>
        sessions[asking[r].cookie.id] = Absent \/ ~Expired(sessions[asking[r].cookie.id])

CookieInv ==
    /\ half \in Int /\ jar.connection \in connected \cup {Absent}
    /\ \A r \in Requests : CookieOk(r)
    /\ \A r \in Asks : Recent(r)

LEMMA CookiesInitially == ASSUME SessionInit PROVE CookieInv
<1>1. \A r \in Requests : asking[r].pc = "idle"
  BY DEF SessionInit, Requests
<1>2. half \in Int /\ jar.connection \in connected \cup {Absent}
  BY DEF SessionInit
<1> QED
  BY <1>1, <1>2 DEF CookieInv, CookieOk, Recent, Checking, Requests

(* Steps during which no time passes.                                        *)
LEMMA CookiesKeep ==
    ASSUME SessionAssumption, SessionInv, CookieInv, UNCHANGED half, connected \subseteq connected',
           jar'.connection \in connected' \cup {Absent},
           \A q \in Requests : asking'[q] = asking[q] \/ (CookieOk(q)' /\ Recent(q)'),
           \A id \in 0..MaxSessions : \/ sessions'[id] \in {sessions[id], Absent}
                                      \/ ~Expired(sessions'[id])
    PROVE  CookieInv'
<1>1. half' \in Int
  BY DEF CookieInv
<1>2. ASSUME NEW q \in Requests PROVE CookieOk(q)'
  <2>1. CASE asking'[q] = asking[q]
    BY <2>1 DEF CookieInv, CookieOk
  <2> QED
    BY <1>2, <2>1
<1>3. ASSUME NEW q \in Asks PROVE Recent(q)'
  <2>1. q \in Requests
    BY DEF Requests
  <2>2. CASE asking'[q] = asking[q] /\ asking[q].pc = "get" /\ asking[q].restored # FALSE
    <3>1. asking[q].cookie.id \in 0..MaxSessions
      <4>1. asking[q].cookie.id \in 0..created
        BY <2>1, <2>2 DEF SessionInv, RequestSound, Checking
      <4>2. created \in 0..MaxSessions
        BY DEF SessionInv, Shape
      <4> QED
        BY <4>1, <4>2 DEF SessionAssumption
    <3>2. sessions[asking[q].cookie.id] = Absent \/ ~Expired(sessions[asking[q].cookie.id])
      BY <2>2 DEF CookieInv, Recent
    <3> QED
      BY <2>2, <3>1, <3>2 DEF Recent, Expired
  <2> QED
    BY <2>1, <2>2 DEF Recent
<1> QED
  BY <1>1, <1>2, <1>3 DEF CookieInv

LEMMA CookiesElsewhere ==
    ASSUME SessionAssumption, SessionInv, CookieInv,
           HalfPasses \/ cleanup \/ Restart \/ handleConnectSession \/ Redeem
           \/ LoseSubjectCookie \/ handleLogout
    PROVE  CookieInv'
<1>1. CASE HalfPasses
  <2>1. /\ half' \in Int /\ UNCHANGED <<jar, connected, asking, sessions>>
        /\ \A r \in Asks : asking[r].pc # "get"
    BY <1>1 DEF HalfPasses, CookieInv, SessionInv, Shape, Requests
  <2>2. \A r \in Requests : CookieOk(r)'
    BY <2>1 DEF CookieInv, CookieOk
  <2>3. \A r \in Asks : Recent(r)'
    BY <2>1 DEF Recent
  <2> QED
    BY <2>1, <2>2, <2>3 DEF CookieInv
<1>2. CASE cleanup
  BY <1>2, CookiesKeep DEF cleanup, CookieInv, SessionInv, Shape
<1>3. CASE Restart
  <2>1. UNCHANGED <<half, connected, jar>> /\ \A id \in 0..MaxSessions : sessions'[id] = Absent
    BY <1>3 DEF Restart, SessionInv, Shape
  <2>2. ASSUME NEW q \in Requests
        PROVE  asking'[q] = asking[q] \/ (CookieOk(q)' /\ Recent(q)')
    <3>1. asking'[q] = asking[q] \/ asking'[q].pc = "lost"
      BY <1>3 DEF Restart, SessionInv, Shape
    <3> QED
      BY <3>1 DEF CookieOk, Recent, Checking
  <2> QED
    BY <2>1, <2>2, CookiesKeep DEF CookieInv
<1>4. CASE handleConnectSession \/ LoseSubjectCookie
  <2>1. /\ UNCHANGED <<half, connected, sessions, asking>> /\ jar'.connection = jar.connection
    BY <1>4 DEF handleConnectSession, ensureSubjectID, LoseSubjectCookie, SessionInv, Shape
  <2> QED
    BY <2>1, CookiesKeep DEF CookieInv
<1>5. CASE Redeem
  BY <1>5, CookiesKeep DEF Redeem, CookieInv
<1>6. CASE handleLogout
  <2>1. UNCHANGED <<half, connected, asking>> /\ jar'.connection = Absent
    BY <1>6 DEF handleLogout, SessionInv, Shape
  <2>2. \A id \in 0..MaxSessions : sessions'[id] \in {sessions[id], Absent}
    BY <1>6 DEF handleLogout, SessionInv, Shape
  <2> QED
    BY <2>1, <2>2, CookiesKeep
<1> QED
  BY <1>1, <1>2, <1>3, <1>4, <1>5, <1>6

(* A step of one request.                                                    *)
LEMMA CookieStep ==
    ASSUME SessionAssumption, SessionInv, CookieInv, NEW r \in Requests, NEW rec,
           asking' = [asking EXCEPT ![r] = rec], UNCHANGED <<half, connected>>,
           jar'.connection \in connected \cup {Absent},
           rec.pc \in Checking => /\ rec.restored \in BOOLEAN /\ rec.cookie.subject # Absent
                                  /\ rec.cookie.connection \in connected \cup {Absent},
           rec.pc \in {"validate", "restore"} => rec.cookie.connection # Absent,
           rec.pc \in {"create", "cookie"} => rec.connection \in connected,
           rec.pc = "refused" =>
               rec.why \in {"call", "deleted"} \/ rec.cookie.connection # rec.cookie.subject,
           rec.pc = "get" /\ rec.restored # FALSE => ~Expired(sessions'[rec.cookie.id]),
           \A id \in 0..MaxSessions : \/ sessions'[id] \in {sessions[id], Absent}
                                      \/ ~Expired(sessions'[id])
    PROVE  CookieInv'
<1>1. asking'[r] = rec /\ \A q \in Requests : q # r => asking'[q] = asking[q]
  BY DEF SessionInv, Shape
<1>2. CookieOk(r)'
  BY <1>1 DEF CookieOk
<1>3. Recent(r)'
  BY <1>1 DEF Recent, Expired
<1> QED
  BY <1>1, <1>2, <1>3, CookiesKeep

LEMMA ConnectCookies ==
    ASSUME SessionAssumption, SessionInv, CookieInv, NEW r \in Requests, Connect(r) PROVE CookieInv'
<1>0. jar.connection \in connected \cup {Absent}
  BY DEF CookieInv
<1>1. CASE BeginConnect(r)
  <2>1. PICK connection \in connected :
          asking' = [asking EXCEPT ![r] =
                        IF GetConnection(jar.subject, connection)
                        THEN [pc |-> "create", subject |-> jar.subject, connection |-> connection]
                        ELSE [pc |-> "lost"]]
    BY <1>1 DEF BeginConnect
  <2>2. PICK rec : rec = IF GetConnection(jar.subject, connection)
                         THEN [pc |-> "create", subject |-> jar.subject, connection |-> connection]
                         ELSE [pc |-> "lost"]
    OBVIOUS
  <2>3. (rec.pc = "create" /\ rec.connection \in connected) \/ rec.pc = "lost"
    BY <2>2
  <2>4. asking' = [asking EXCEPT ![r] = rec]
    BY <2>1, <2>2
  <2> QED
    BY <1>0, <1>1, <2>3, <2>4, CookieStep DEF BeginConnect, Checking
<1>2. CASE CreateWithSubject(r)
  <2>1. PICK rec : rec = [pc |-> "cookie", id |-> created', connection |-> asking[r].connection]
    OBVIOUS
  <2>2. PICK new : new = [subject |-> asking[r].subject, connection |-> asking[r].connection,
                          createdAt |-> half]
    OBVIOUS
  <2>3. /\ asking' = [asking EXCEPT ![r] = rec] /\ sessions' = [sessions EXCEPT ![created'] = new]
        /\ asking[r].pc = "create" /\ UNCHANGED <<half, connected, jar>>
    BY <1>2, <2>1, <2>2 DEF CreateWithSubject
  <2>4. rec.pc = "cookie" /\ rec.connection \in connected
    BY <2>1, <2>3 DEF CookieInv, CookieOk
  <2>5. ~Expired(new)
    BY <2>2 DEF Expired, sessionTTL, CookieInv
  <2>6. \A id \in 0..MaxSessions : sessions'[id] = sessions[id] \/ sessions'[id] = new
    BY <2>3 DEF SessionInv, Shape
  <2> QED
    BY <1>0, <2>3, <2>4, <2>5, <2>6, CookieStep DEF Checking
<1>3. CASE SetSessionCookie(r)
  <2>1. PICK rec : rec = [pc |-> "done"]
    OBVIOUS
  <2>2. /\ asking' = [asking EXCEPT ![r] = rec] /\ UNCHANGED <<half, connected, sessions>>
        /\ asking[r].pc = "cookie" /\ rec.pc = "done"
    BY <1>3, <2>1 DEF SetSessionCookie
  <2>3. jar'.connection = asking[r].connection
    <3>1. jar' = [[jar EXCEPT !.id = asking[r].id] EXCEPT !.connection = asking[r].connection]
      BY <1>3 DEF SetSessionCookie
    <3> QED
      BY <3>1 DEF SessionInv, Shape
  <2>4. asking[r].connection \in connected
    BY <2>2 DEF CookieInv, CookieOk
  <2> QED
    BY <2>2, <2>3, <2>4, CookieStep DEF Checking
<1> QED
  BY <1>1, <1>2, <1>3 DEF Connect

LEMMA GetCookies ==
    ASSUME SessionAssumption, SessionInv, CookieInv, NEW r \in Asks, Get(r) PROVE CookieInv'
<1>1. r \in Requests
  BY DEF Requests
<1>2. PICK c : c = asking[r].cookie
  OBVIOUS
<1>3. PICK session : session = sessions[c.id]
  OBVIOUS
<1>4. PICK restored \in BOOLEAN : restored = asking[r].restored
  BY <1>1 DEF Get, CookieInv, CookieOk, Checking
<1>5. /\ asking[r] = [pc |-> "get", cookie |-> c, restored |-> restored] /\ asking[r].pc = "get"
      /\ c.subject # Absent /\ c.connection \in connected \cup {Absent} /\ c.id \in 0..created
  BY <1>1, <1>2, <1>4 DEF Get, CookieInv, CookieOk, Checking, SessionInv, RequestSound
<1>6. PICK rec : /\ asking' = [asking EXCEPT ![r] = rec]
                 /\ rec = IF session # Absent /\ ~Expired(session)
                          THEN IF restored \/ Owned(r) THEN Serve(r) ELSE Refused(r, "subject")
                          ELSE IF restored
                               THEN Refused(r, IF session = Absent THEN "deleted" ELSE "expired")
                          ELSE IF c.connection = Absent THEN Refused(r, "cookie")
                          ELSE [asking[r] EXCEPT !.pc = "validate"]
  BY <1>2, <1>3, <1>4 DEF Get
<1>7. \/ rec.pc = "serve"
      \/ /\ rec.pc = "refused" /\ rec.cookie = c
         /\ rec.why \in {"call", "deleted"} \/ c.connection # c.subject
      \/ rec.pc = "validate" /\ rec.cookie = c /\ rec.restored = restored /\ c.connection # Absent
  <2>1. CASE rec = Serve(r)
    BY <2>1 DEF Serve
  <2>2. CASE rec = Refused(r, "subject") /\ session # Absent /\ ~Owned(r)
    <3>1. rec.pc = "refused" /\ rec.cookie = c
      BY <1>2, <2>2 DEF Refused
    <3>2. session.subject # c.subject
      BY <1>2, <1>3, <2>2 DEF Owned
    <3>3. c.id \in 0..MaxSessions
      BY <1>5 DEF SessionInv, Shape
    <3>4. session.connection = session.subject
      BY <1>3, <2>2, <3>3 DEF SessionInv, SessionSound
    <3>5. Bound(c.id, session.connection) /\ Bound(c.id, c.connection)
      BY <1>1, <1>2, <1>3, <1>5, <2>2 DEF Bound, Checking
    <3>6. session.connection = c.connection
      BY <3>5 DEF SessionInv, OneConnection
    <3> QED
      BY <3>1, <3>2, <3>4, <3>6
  <2>3. CASE rec = Refused(r, "deleted")
    BY <1>2, <2>3 DEF Refused
  <2>4. CASE restored /\ session # Absent /\ Expired(session)
    <3>1. restored # FALSE
      BY <2>4
    <3> QED
      BY <1>2, <1>3, <1>4, <1>5, <2>4, <3>1 DEF CookieInv, Recent
  <2>5. CASE rec = Refused(r, "cookie") /\ c.connection = Absent
    BY <1>2, <1>5, <2>5 DEF Refused
  <2>6. CASE rec = [asking[r] EXCEPT !.pc = "validate"] /\ c.connection # Absent
    BY <1>5, <2>6
  <2> QED
    BY <1>6, <2>1, <2>2, <2>3, <2>4, <2>5, <2>6
<1>8. UNCHANGED <<half, connected, jar>>
  BY DEF Get
<1>9. \A id \in 0..MaxSessions : sessions'[id] \in {sessions[id], Absent}
  BY DEF Get, SessionInv, Shape
<1>10. jar'.connection \in connected \cup {Absent}
  BY <1>8 DEF CookieInv
<1>11. asking' = [asking EXCEPT ![r] = rec]
  BY <1>6
<1>12. /\ rec.pc \in {"serve", "refused", "validate"}
       /\ rec.pc = "refused" =>
             rec.why \in {"call", "deleted"} \/ rec.cookie.connection # rec.cookie.subject
       /\ rec.pc = "validate" =>
             /\ rec.restored \in BOOLEAN /\ rec.cookie.subject # Absent
             /\ rec.cookie.connection \in connected \cup {Absent} /\ rec.cookie.connection # Absent
  BY <1>5, <1>7
<1> QED
  BY <1>1, <1>8, <1>9, <1>10, <1>11, <1>12, CookieStep DEF Checking

LEMMA AskCookies ==
    ASSUME SessionAssumption, SessionInv, CookieInv, NEW r \in Asks, AskStep(r) PROVE CookieInv'
<1>1. r \in Requests /\ jar.connection \in connected \cup {Absent}
  BY DEF Requests, CookieInv
<1>2. CASE Get(r)
  BY <1>2, GetCookies
<1>3. CASE ReadCookies(r)
  <2>1. PICK rec : rec = [pc |-> "get", cookie |-> jar, restored |-> FALSE]
    OBVIOUS
  <2>2. /\ asking' = [asking EXCEPT ![r] = rec] /\ jar.subject # Absent
        /\ UNCHANGED <<half, connected, sessions, jar>>
    BY <1>3, <2>1 DEF ReadCookies
  <2>3. rec.pc = "get" /\ rec.cookie = jar /\ rec.restored = FALSE
    BY <2>1
  <2> QED
    BY <1>1, <2>2, <2>3, CookieStep
<1>4. CASE ValidateConnection(r)
  <2> DEFINE c == asking[r].cookie
             restored == asking[r].restored
  <2>1. asking[r] = [pc |-> "validate", cookie |-> c, restored |-> restored] /\ asking[r].pc = "validate"
    BY <1>1, <1>4 DEF ValidateConnection, SessionInv, RequestSound, Checking
  <2>2. /\ restored \in BOOLEAN /\ c.subject # Absent /\ c.connection \in connected /\ c.connection # Absent
    BY <1>1, <2>1 DEF CookieInv, CookieOk, Checking
  <2> HIDE DEF c, restored
  <2>3. PICK rec : /\ asking' = [asking EXCEPT ![r] = rec]
                   /\ \/ rec = [asking[r] EXCEPT !.pc = "restore"] /\ Validates(r)
                      \/ rec = Refused(r, "connection") /\ ~Validates(r)
                      \/ rec = Refused(r, "call")
    BY <1>4 DEF ValidateConnection
  <2>4. \/ rec.pc = "restore" /\ rec.cookie = c /\ rec.restored = restored
        \/ rec.pc = "refused" /\ rec.cookie = c /\ (rec.why = "call" \/ c.connection # c.subject)
    BY <2>1, <2>2, <2>3 DEF Refused, Validates, GetConnection, c
  <2>5. UNCHANGED <<half, connected, sessions, jar>>
    BY <1>4 DEF ValidateConnection
  <2> QED
    BY <1>1, <2>2, <2>3, <2>4, <2>5, CookieStep DEF Checking
<1>5. CASE RestoreWithSubject(r)
  <2> DEFINE c == asking[r].cookie
             restored == asking[r].restored
  <2>1. asking[r] = [pc |-> "restore", cookie |-> c, restored |-> restored] /\ asking[r].pc = "restore"
    BY <1>1, <1>5 DEF RestoreWithSubject, SessionInv, RequestSound, Checking
  <2>2. /\ c.subject # Absent /\ c.connection \in connected \cup {Absent} /\ c.id \in 0..created
    BY <1>1, <2>1 DEF CookieInv, CookieOk, Checking, SessionInv, RequestSound
  <2> HIDE DEF c, restored
  <2>3. PICK rec : rec = [pc |-> "get", cookie |-> c, restored |-> TRUE]
    OBVIOUS
  <2>4. PICK new : new = RestoredSession(c)
    OBVIOUS
  <2>5. asking' = [asking EXCEPT ![r] = rec]
    <3>1. asking' = [asking EXCEPT ![r] = [asking[r] EXCEPT !.pc = "get", !.restored = TRUE]]
      BY <1>1, <1>5 DEF RestoreWithSubject, SessionInv, Shape
    <3>2. [asking[r] EXCEPT !.pc = "get"] = [pc |-> "get", cookie |-> c, restored |-> restored]
      BY <2>1
    <3>3. \A value : [[pc |-> "get", cookie |-> c, restored |-> restored] EXCEPT !.restored = value]
                       = [pc |-> "get", cookie |-> c, restored |-> value]
      OBVIOUS
    <3>4. [[asking[r] EXCEPT !.pc = "get"] EXCEPT !.restored = TRUE] = rec
      BY <2>3, <3>2, <3>3, Zenon
    <3> QED
      BY <3>1, <3>4
  <2>6. sessions' = [sessions EXCEPT ![c.id] = new] /\ UNCHANGED <<half, connected, jar>>
    BY <1>5, <2>1, <2>4 DEF RestoreWithSubject, c
  <2>7. ~Expired(new)
    <3>1. half - new.createdAt = 1
      BY <2>4 DEF RestoredSession, sessionTTL, CookieInv
    <3> QED
      BY <3>1 DEF Expired, sessionTTL
  <2>8. c.id \in 0..MaxSessions
    BY <2>2 DEF SessionInv, Shape
  <2>9. /\ sessions'[c.id] = new
        /\ \A id \in 0..MaxSessions : id # c.id => sessions'[id] = sessions[id]
    BY <2>6, <2>8 DEF SessionInv, Shape
  <2>10. rec.pc = "get" /\ rec.cookie = c /\ rec.restored = TRUE
    BY <2>3
  <2> QED
    BY <1>1, <2>2, <2>5, <2>6, <2>7, <2>8, <2>9, <2>10, CookieStep, ZenonT(60)
<1> QED
  BY <1>2, <1>3, <1>4, <1>5 DEF AskStep

LEMMA CookiesInvariant == SessionSpec => [](SessionInv /\ CookieInv)
<1>1. SessionInit => SessionInv /\ CookieInv
  BY SessionInitially, CookiesInitially, SessionAssumption
<1>2. SessionInv /\ CookieInv /\ [SessionNext]_sessionVars => (SessionInv /\ CookieInv)'
  <2>1. SUFFICES ASSUME SessionInv, CookieInv, [SessionNext]_sessionVars PROVE CookieInv'
    BY SessionStepKeeps, SessionAssumption
  <2>2. CASE UNCHANGED sessionVars
    BY <2>1, <2>2, CookiesKeep, SessionAssumption DEF sessionVars, CookieInv
  <2>3. ASSUME NEW r \in Asks, AskStep(r) PROVE CookieInv'
    BY <2>1, <2>3, AskCookies, SessionAssumption
  <2>4. ASSUME NEW r \in Connects, Connect(r) PROVE CookieInv'
    BY <2>1, <2>4, ConnectCookies, SessionAssumption DEF Requests
  <2> QED
    BY <2>1, <2>2, <2>3, <2>4, CookiesElsewhere, SessionAssumption DEF SessionNext
<1> QED
  BY <1>1, <1>2, PTL DEF SessionSpec

(* For a session's day a restart costs nobody a login (restoreSession): who   *)
(* comes with both cookies, the connection being its subject's, is turned     *)
(* away only when the auth service cannot be asked, or a logout took the      *)
(* session that was just restored; however sessions expire, are restored      *)
(* twice or cleaned up beside each other. The code promises no limit to that: *)
(* it does not ask how old a session is before it restores it.                *)
THEOREM RestartsAreForgiven == SessionSpec => []YoungSessionsReturn
<1>1. CookieInv => YoungSessionsReturn
  BY DEF CookieInv, CookieOk, YoungSessionsReturn, GetConnection, Requests
<1> QED
  BY <1>1, CookiesInvariant, PTL

-----------------------------------------------------------------------------
(* Token buckets: how many fills lie in a stretch of time that ends with one. *)

CeilDiv(x) == IF x <= 0 THEN 0 ELSE (x + interval - 1) \div interval
Fills(x) == CeilDiv(x) * rate

LEMMA Constants ==
    LimiterAssumption => /\ rate \in Nat \ {0} /\ burst \in Nat \ {0} /\ interval \in Nat \ {0}
                         /\ CutOff \in Nat \ {0} /\ MaxTicks \in Nat \ {0}
                         /\ (CutOff \div interval) * rate >= burst
                         /\ NoBucket \notin [tokens : Nat, lastFill : Nat]
BY DEF LimiterAssumption

LEMMA Division ==
    ASSUME LimiterAssumption, NEW a \in Int
    PROVE  /\ a \div interval \in Int
           /\ (a \div interval) * interval <= a /\ a < (a \div interval) * interval + interval
<1>1. interval \in Int /\ interval > 0
  BY Constants
<1> QED
  BY <1>1, SMTT(60)

LEMMA Scaled ==
    ASSUME NEW p \in Int, NEW q \in Int, NEW r \in Nat, p <= q
    PROVE  p * r <= q * r
OBVIOUS

LEMMA Distributes ==
    ASSUME NEW p \in Int, NEW q \in Int, NEW r \in Int
    PROVE  /\ (p + q) * r = p * r + q * r
           /\ p * r \in Int
OBVIOUS

LEMMA Unscaled ==
    ASSUME NEW p \in Int, NEW q \in Int, NEW r \in Nat \ {0}, p * r < q * r
    PROVE  p < q
OBVIOUS

LEMMA Ceiling ==
    ASSUME LimiterAssumption, NEW x \in Int
    PROVE  /\ CeilDiv(x) \in Nat
           /\ x <= 0 => CeilDiv(x) = 0
           /\ x > 0 => /\ CeilDiv(x) * interval < x + interval
                       /\ x <= CeilDiv(x) * interval
<1>1. CASE x <= 0
  BY <1>1 DEF CeilDiv
<1>2. CASE x > 0
  <2> DEFINE q == CeilDiv(x)
  <2>1. interval \in Nat \ {0}
    BY Constants
  <2>2. q = (x + interval - 1) \div interval /\ x + interval - 1 \in Int
    BY <1>2, <2>1 DEF CeilDiv
  <2>3. /\ q \in Int /\ q * interval <= x + interval - 1
        /\ x + interval - 1 < q * interval + interval
    BY <2>2, Division
  <2> HIDE DEF q
  <2>4. q * interval \in Int
    BY <2>1, <2>3, Distributes
  <2>5. 0 * interval < q * interval
    BY <1>2, <2>1, <2>3, <2>4
  <2>6. 0 < q
    BY <2>1, <2>3, <2>5, Unscaled
  <2> QED
    BY <1>2, <2>1, <2>3, <2>4, <2>6 DEF q
<1> QED
  BY <1>1, <1>2

LEMMA CeilingIs ==
    ASSUME LimiterAssumption, NEW x \in Int, NEW q \in Int, x > 0,
           q * interval < x + interval, x <= q * interval
    PROVE  CeilDiv(x) = q
<1> DEFINE c == CeilDiv(x)
<1>1. /\ interval \in Nat \ {0} /\ c \in Nat
      /\ c * interval < x + interval /\ x <= c * interval
  BY Constants, Ceiling
<1> HIDE DEF c
<1>2. /\ (q + 1) * interval = q * interval + interval /\ (c + 1) * interval = c * interval + interval
      /\ c * interval \in Int /\ q * interval \in Int
  BY <1>1, Distributes
<1>3. q * interval < (c + 1) * interval /\ c * interval < (q + 1) * interval
  BY <1>1, <1>2
<1>4. q < c + 1 /\ c < q + 1
  BY <1>1, <1>3, Unscaled
<1>5. c = q
  BY <1>1, <1>4
<1> QED
  BY <1>5 DEF c

LEMMA FillsGrow ==
    ASSUME LimiterAssumption, NEW x \in Int, NEW y \in Int, x <= y
    PROVE  /\ Fills(x) \in Nat /\ Fills(x) <= Fills(y)
           /\ x <= 0 => Fills(x) = 0
<1> DEFINE c == CeilDiv(x)
           d == CeilDiv(y)
<1>1. interval \in Nat \ {0} /\ rate \in Nat \ {0} /\ c \in Nat /\ d \in Nat
  BY Constants, Ceiling
<1>2. c <= d
  <2>1. CASE x <= 0
    BY <1>1, <2>1, Ceiling
  <2>2. CASE x > 0
    <3>1. c * interval < x + interval /\ y <= d * interval
      BY <2>2, Ceiling
    <3> HIDE DEF c, d
    <3>2. (d + 1) * interval = d * interval + interval /\ c * interval \in Int /\ d * interval \in Int
      BY <1>1, Distributes
    <3>3. c * interval < (d + 1) * interval
      BY <1>1, <3>1, <3>2
    <3>4. c < d + 1
      BY <1>1, <3>3, Unscaled
    <3> QED
      BY <1>1, <3>4
  <2> QED
    BY <2>1, <2>2
<1>3. x <= 0 => c = 0
  BY Ceiling
<1> HIDE DEF c, d
<1>4. c * rate <= d * rate /\ c * rate \in Nat
  BY <1>1, <1>2, Scaled
<1> QED
  BY <1>1, <1>3, <1>4 DEF c, d, Fills

(* n intervals more have n fills more, but for the last one of a stretch that *)
(* ended before it began.                                                     *)
LEMMA FillsAdd ==
    ASSUME LimiterAssumption, NEW x \in Int, NEW n \in Nat \ {0}
    PROVE  /\ n * rate \in Nat /\ n * interval \in Nat
           /\ x > 0 => Fills(x + n * interval) = Fills(x) + n * rate
           /\ x <= 0 => Fills(x + n * interval) <= n * rate
           /\ x <= 0 /\ x > -interval => Fills(x + n * interval) = n * rate
<1> DEFINE c == CeilDiv(x)
<1>1. interval \in Nat \ {0} /\ rate \in Nat \ {0} /\ c \in Nat
  BY Constants, Ceiling
<1>2. n * rate \in Nat /\ n * interval \in Nat /\ n * interval >= interval
  BY <1>1
<1>3. ASSUME x > 0 PROVE Fills(x + n * interval) = Fills(x) + n * rate
  <2>1. c * interval < x + interval /\ x <= c * interval
    BY <1>3, Ceiling
  <2> HIDE DEF c
  <2>2. /\ (c + n) * interval = c * interval + n * interval /\ c * interval \in Int
        /\ (c + n) * rate = c * rate + n * rate
    BY <1>1, Distributes
  <2>3. /\ (c + n) * interval < (x + n * interval) + interval
        /\ x + n * interval <= (c + n) * interval /\ x + n * interval > 0
    BY <1>1, <1>2, <1>3, <2>1, <2>2
  <2>4. x + n * interval \in Int /\ c + n \in Int
    BY <1>1, <1>2
  <2>5. CeilDiv(x + n * interval) = c + n
    BY <2>3, <2>4, CeilingIs
  <2> QED
    BY <2>2, <2>5 DEF Fills, c
<1>4. ASSUME x <= 0, x > -interval PROVE Fills(x + n * interval) = n * rate
  <2>1. /\ n * interval < (x + n * interval) + interval
        /\ x + n * interval <= n * interval /\ x + n * interval > 0
        /\ x + n * interval \in Int
    BY <1>1, <1>2, <1>4
  <2>2. CeilDiv(x + n * interval) = n
    BY <2>1, CeilingIs
  <2> QED
    BY <2>2 DEF Fills
<1>5. ASSUME x <= 0 PROVE Fills(x + n * interval) <= n * rate
  <2>1. Fills(0 + n * interval) = n * rate
    <3>1. CeilDiv(n * interval) = n
      <4>1. n * interval < n * interval + interval /\ n * interval > 0
        BY <1>1, <1>2
      <4> QED
        BY <1>2, <4>1, CeilingIs
    <3>2. 0 + n * interval = n * interval
      BY <1>2
    <3> QED
      BY <3>1, <3>2 DEF Fills
  <2>2. x + n * interval <= 0 + n * interval /\ x + n * interval \in Int /\ 0 + n * interval \in Int
    BY <1>2, <1>5
  <2> QED
    BY <2>1, <2>2, FillsGrow
<1> QED
  BY <1>2, <1>3, <1>4, <1>5

(* Fills, and whole intervals.                                                *)
LEMMA FillsAndIntervals ==
    ASSUME LimiterAssumption, NEW x \in Int, NEW y \in Nat
    PROVE  /\ x <= y => Fills(x) <= rate * (y \div interval + 1)
           /\ y < x + interval => rate * (y \div interval) <= Fills(x)
<1> DEFINE c == CeilDiv(x)
           q == y \div interval
<1>1. /\ interval \in Nat \ {0} /\ rate \in Nat \ {0} /\ c \in Nat
      /\ q \in Int /\ q * interval <= y /\ y < q * interval + interval
  <2>1. interval \in Nat \ {0} /\ rate \in Nat \ {0} /\ c \in Nat /\ y \in Int
    BY Constants, Ceiling
  <2>2. q \in Int /\ q * interval <= y /\ y < q * interval + interval
    BY <2>1, Division
  <2> QED
    BY <2>1, <2>2
<1>2. /\ x <= 0 => c = 0
      /\ x > 0 => c * interval < x + interval /\ x <= c * interval
  BY Ceiling
<1>3. Fills(x) = c * rate
  BY DEF Fills
<1> HIDE DEF c, q
<1>4. /\ (q + 1) * interval = q * interval + interval /\ (c + 1) * interval = c * interval + interval
      /\ (q + 2) * interval = q * interval + 2 * interval
      /\ c * interval \in Int /\ q * interval \in Int
  BY <1>1, Distributes
<1>5. q >= 0
  <2>1. 0 * interval < (q + 1) * interval
    BY <1>1, <1>4
  <2>2. 0 < q + 1
    BY <1>1, <2>1, Unscaled
  <2> QED
    BY <1>1, <2>2
<1>6. ASSUME x <= y PROVE c <= q + 1
  <2>1. CASE x > 0
    <3>1. c * interval < (q + 2) * interval
      BY <1>1, <1>2, <1>4, <1>6, <2>1
    <3>2. c < q + 2
      BY <1>1, <3>1, Unscaled
    <3> QED
      BY <1>1, <3>2
  <2>2. CASE x <= 0
    BY <1>1, <1>2, <1>5, <2>2
  <2> QED
    BY <2>1, <2>2
<1>7. ASSUME y < x + interval PROVE q <= c
  <2>1. CASE x > 0
    <3>1. q * interval < (c + 1) * interval
      BY <1>1, <1>2, <1>4, <1>7, <2>1
    <3>2. q < c + 1
      BY <1>1, <3>1, Unscaled
    <3> QED
      BY <1>1, <3>2
  <2>2. CASE x <= 0
    <3>1. q * interval < 1 * interval
      BY <1>1, <1>4, <1>7, <2>2
    <3>2. q < 1
      BY <1>1, <3>1, Unscaled
    <3> QED
      BY <1>1, <3>2
  <2> QED
    BY <2>1, <2>2
<1>8. rate * (q + 1) = (q + 1) * rate /\ rate * q = q * rate
  BY <1>1
<1>9. x <= y => c * rate <= (q + 1) * rate
  BY <1>1, <1>6, Scaled
<1>10. y < x + interval => q * rate <= c * rate
  BY <1>1, <1>7, Scaled
<1> QED
  BY <1>3, <1>8, <1>9, <1>10 DEF q

(* Who was not seen for the time that cleanup takes has a full bucket again.  *)
LEMMA CutOffFills ==
    ASSUME LimiterAssumption, NEW x \in Int, NEW y \in Int, x > -interval, y >= x + CutOff + 1
    PROVE  burst + Fills(x) <= Fills(y)
<1> DEFINE m == CutOff \div interval
<1>1. /\ interval \in Nat \ {0} /\ rate \in Nat \ {0} /\ burst \in Nat \ {0} /\ CutOff \in Nat \ {0}
      /\ m * rate >= burst
      /\ m \in Int /\ m * interval <= CutOff /\ CutOff < m * interval + interval
  BY Constants, Division
<1> HIDE DEF m
<1>2. m \in Nat \ {0}
  <2>1. 0 * rate < m * rate /\ m * rate \in Int
    BY <1>1
  <2>2. 0 < m
    BY <1>1, <2>1, Unscaled
  <2> QED
    BY <1>1, <2>2
<1>3. x + m * interval <= y /\ x + m * interval \in Int /\ m * interval \in Nat /\ m * rate \in Nat
  BY <1>1, <1>2
<1>4. Fills(x + m * interval) <= Fills(y) /\ Fills(x + m * interval) \in Nat
  BY <1>3, FillsGrow
<1>5. Fills(x) \in Nat /\ (x <= 0 => Fills(x) = 0) /\ Fills(y) \in Nat
  BY FillsGrow
<1>6. Fills(x + m * interval) = Fills(x) + m * rate
  BY <1>1, <1>2, <1>3, <1>5, FillsAdd
<1> QED
  BY <1>1, <1>3, <1>4, <1>5, <1>6

-----------------------------------------------------------------------------
(* Buckets. *)

Bucket == [tokens : 0 .. burst, lastFill : Nat]
Given(k, s) == allowed[k][now + 1] - allowed[k][s]

(* What a client was given since any time and what is in its bucket together  *)
(* are no more than the fills since then, and a full bucket, nor less than    *)
(* them, unless the bucket was full; and it was given nothing in the interval *)
(* that it was not filled for yet.                                            *)
BucketOk(k, b) ==
    /\ b \in Bucket /\ b.lastFill <= now
    /\ \A s \in 0 .. now :
          /\ s >= b.lastFill + interval => Given(k, s) = 0
          /\ Given(k, s) + b.tokens <= burst + Fills(b.lastFill - s)
          /\ b.tokens + Given(k, s + 1) >= AtMost(burst, Fills(b.lastFill - s))

(* A client without a bucket was given no more than a new bucket may give on. *)
NoBucketOk(k) == \A s \in 0 .. now : Given(k, s) <= Fills(now - s)

CountOk(k) ==
    /\ allowed[k] \in [0 .. MaxTicks + 1 -> Nat]
    /\ \A t \in 0 .. MaxTicks + 1 : /\ allowed[k][t] <= allowed[k][now + 1]
                                    /\ t > now => allowed[k][t] = allowed[k][now + 1]

RefusedOk(k) ==
    \A s \in 0 .. now : Given(k, s + 1) >= AtMost(burst, rate * ((now - s) \div interval))

ClientOk(k) ==
    /\ CountOk(k)
    /\ IF buckets[k] = NoBucket THEN NoBucketOk(k) ELSE BucketOk(k, buckets[k])
    /\ k \in refused => RefusedOk(k)

LimiterInv ==
    /\ now \in 0 .. MaxTicks /\ DOMAIN buckets = Clients /\ DOMAIN allowed = Clients
    /\ \A k \in Clients : ClientOk(k)

LEMMA Counts ==
    ASSUME LimiterAssumption, now \in 0 .. MaxTicks, NEW k, CountOk(k), NEW s \in 0 .. now + 1
    PROVE  /\ Given(k, s) \in Nat
           /\ s > now => Given(k, s) = 0
<1>1. now + 1 \in 0 .. MaxTicks + 1 /\ s \in 0 .. MaxTicks + 1 /\ now \in Nat
  BY Constants
<1>2. allowed[k][now + 1] \in Nat /\ allowed[k][s] \in Nat /\ allowed[k][s] <= allowed[k][now + 1]
  BY <1>1 DEF CountOk
<1>3. s > now => allowed[k][s] = allowed[k][now + 1]
  BY <1>1 DEF CountOk
<1> QED
  BY <1>2, <1>3 DEF Given

(* Filling a bucket as late as it is asked for makes no difference.           *)
LEMMA RefillKeeps ==
    ASSUME LimiterAssumption, now \in 0 .. MaxTicks, NEW k, CountOk(k), NEW b, BucketOk(k, b)
    PROVE  BucketOk(k, Refilled(b)) /\ now < Refilled(b).lastFill + interval
<1> DEFINE n == (now - b.lastFill) \div interval
<1>1. /\ interval \in Nat \ {0} /\ rate \in Nat \ {0} /\ burst \in Nat \ {0}
      /\ b.tokens \in 0 .. burst /\ b.lastFill \in Nat /\ b.lastFill <= now
      /\ b = [tokens |-> b.tokens, lastFill |-> b.lastFill] /\ now \in Nat
  BY Constants DEF BucketOk, Bucket
<1>2. /\ n \in Int /\ n * interval <= now - b.lastFill
      /\ now - b.lastFill < n * interval + interval
  <2>1. now - b.lastFill \in Int
    BY <1>1
  <2> QED
    BY <2>1, Division
<1>3. Refilled(b) = IF n * rate = 0 THEN b
                    ELSE [tokens |-> AtMost(burst, b.tokens + n * rate),
                          lastFill |-> b.lastFill + n * interval]
  BY DEF Refilled
<1> HIDE DEF n
<1>4. n \in Nat
  <2>1. (n + 1) * interval = n * interval + interval /\ n * interval \in Int
    BY <1>1, <1>2, Distributes
  <2>2. 0 * interval < (n + 1) * interval
    BY <1>1, <1>2, <2>1
  <2>3. 0 < n + 1
    BY <1>1, <1>2, <2>2, Unscaled
  <2> QED
    BY <1>2, <2>3
<1>5. CASE n = 0
  <2>1. n * rate = 0 /\ n * interval = 0
    BY <1>1, <1>5
  <2> QED
    BY <1>1, <1>2, <1>3, <2>1
<1>6. CASE n # 0
  <2>1. n \in Nat \ {0}
    BY <1>4, <1>6
  <2>2. n * rate \in Nat \ {0} /\ n * interval \in Nat /\ n * interval >= interval
    BY <1>1, <2>1
  <2> DEFINE tokens == AtMost(burst, b.tokens + n * rate)
             lastFill == b.lastFill + n * interval
  <2>3. Refilled(b) = [tokens |-> tokens, lastFill |-> lastFill]
    BY <1>3, <2>2
  <2>4. /\ tokens \in 0 .. burst /\ tokens <= b.tokens + n * rate
        /\ tokens = burst \/ tokens = b.tokens + n * rate
        /\ lastFill \in Nat /\ lastFill <= now /\ now < lastFill + interval
        /\ lastFill = b.lastFill + n * interval
    BY <1>1, <1>2, <2>2 DEF AtMost
  <2> HIDE DEF tokens, lastFill
  <2>5. ASSUME NEW s \in 0 .. now
        PROVE  /\ s >= lastFill + interval => Given(k, s) = 0
               /\ Given(k, s) + tokens <= burst + Fills(lastFill - s)
               /\ tokens + Given(k, s + 1) >= AtMost(burst, Fills(lastFill - s))
    <3> DEFINE x == b.lastFill - s
    <3>1. x \in Int /\ lastFill - s = x + n * interval /\ s \in Int /\ s + 1 \in 0 .. now + 1
          /\ s \in 0 .. now + 1
      BY <1>1, <2>2, <2>4
    <3>2. /\ s >= b.lastFill + interval => Given(k, s) = 0
          /\ Given(k, s) + b.tokens <= burst + Fills(x)
          /\ b.tokens + Given(k, s + 1) >= AtMost(burst, Fills(x))
          /\ Given(k, s) \in Nat /\ Given(k, s + 1) \in Nat
      BY <3>1, Counts DEF BucketOk
    <3>3. /\ x > 0 => Fills(lastFill - s) = Fills(x) + n * rate
          /\ x <= 0 => Fills(lastFill - s) <= n * rate
          /\ x <= 0 /\ x > -interval => Fills(lastFill - s) = n * rate
      BY <2>1, <3>1, FillsAdd
    <3>4. /\ Fills(x) \in Nat /\ (x <= 0 => Fills(x) = 0)
          /\ Fills(lastFill - s) \in Nat
      <4>1. x <= x /\ lastFill - s <= lastFill - s /\ lastFill - s \in Int
        BY <1>1, <2>4, <3>1
      <4> QED
        BY <3>1, <4>1, FillsGrow
    <3>5. x > -interval \/ s >= b.lastFill + interval
      BY <1>1, <3>1
    <3> HIDE DEF x
    <3>6. s >= lastFill + interval => Given(k, s) = 0
      BY <1>1, <2>4, <3>1
    <3>7. Given(k, s) + tokens <= burst + Fills(lastFill - s)
      BY <1>1, <2>2, <2>4, <3>1, <3>2, <3>3, <3>4, <3>5
    <3>8. tokens + Given(k, s + 1) >= AtMost(burst, Fills(lastFill - s))
      BY <1>1, <2>2, <2>4, <3>1, <3>2, <3>3, <3>4 DEF AtMost
    <3> QED
      BY <3>6, <3>7, <3>8
  <2> QED
    BY <2>3, <2>4, <2>5 DEF BucketOk, Bucket
<1> QED
  BY <1>5, <1>6

LEMMA NewBucket ==
    ASSUME LimiterAssumption, now \in 0 .. MaxTicks, NEW k, CountOk(k), NoBucketOk(k)
    PROVE  BucketOk(k, [tokens |-> burst, lastFill |-> now])
<1>1. interval \in Nat \ {0} /\ burst \in Nat \ {0} /\ now \in Nat
  BY Constants
<1>2. ASSUME NEW s \in 0 .. now
      PROVE  /\ ~(s >= now + interval)
             /\ Given(k, s) + burst <= burst + Fills(now - s)
             /\ burst + Given(k, s + 1) >= AtMost(burst, Fills(now - s))
  <2>1. s \in 0 .. now + 1 /\ s + 1 \in 0 .. now + 1 /\ now - s \in Int
    BY <1>1
  <2>2. Given(k, s) \in Nat /\ Given(k, s + 1) \in Nat /\ Fills(now - s) \in Nat
        /\ Given(k, s) <= Fills(now - s)
    BY <2>1, Counts, FillsGrow DEF NoBucketOk
  <2> QED
    BY <1>1, <2>2 DEF AtMost
<1> QED
  BY <1>1, <1>2 DEF BucketOk, Bucket

LEMMA DropKeeps ==
    ASSUME LimiterAssumption, now \in 0 .. MaxTicks, NEW k, CountOk(k), NEW b, BucketOk(k, b),
           b.lastFill < now - CutOff
    PROVE  NoBucketOk(k)
<1>1. interval \in Nat \ {0} /\ burst \in Nat \ {0} /\ now \in Nat /\ CutOff \in Nat
      /\ b.lastFill \in Int /\ b.tokens \in 0 .. burst
  BY Constants DEF BucketOk, Bucket
<1>2. ASSUME NEW s \in 0 .. now PROVE Given(k, s) <= Fills(now - s)
  <2>1. s \in 0 .. now + 1 /\ now - s \in Int /\ b.lastFill - s \in Int
    BY <1>1
  <2>2. /\ Given(k, s) \in Nat /\ Fills(now - s) \in Nat /\ Fills(b.lastFill - s) \in Nat
        /\ s >= b.lastFill + interval => Given(k, s) = 0
        /\ Given(k, s) + b.tokens <= burst + Fills(b.lastFill - s)
    BY <2>1, Counts, FillsGrow DEF BucketOk
  <2>3. CASE s >= b.lastFill + interval
    BY <1>1, <2>2, <2>3
  <2>4. CASE s < b.lastFill + interval
    <3>1. b.lastFill - s > -interval /\ now - s >= (b.lastFill - s) + CutOff + 1
      BY <1>1, <2>4
    <3>2. burst + Fills(b.lastFill - s) <= Fills(now - s)
      BY <2>1, <3>1, CutOffFills
    <3> QED
      BY <1>1, <2>2, <3>2
  <2> QED
    BY <1>1, <2>3, <2>4
<1> QED
  BY <1>2 DEF NoBucketOk

(* A client that others' steps leave alone, while no time passes.             *)
LEMMA ClientStays ==
    ASSUME NEW k, ClientOk(k), UNCHANGED now, allowed'[k] = allowed[k], buckets'[k] = buckets[k],
           k \in refused' => k \in refused
    PROVE  ClientOk(k)'
BY DEF ClientOk, CountOk, BucketOk, NoBucketOk, RefusedOk, Given, Bucket

LEMMA AdmitKeeps ==
    ASSUME LimiterAssumption, now \in 0 .. MaxTicks, NEW k \in Clients, DOMAIN allowed = Clients,
           DOMAIN buckets = Clients, CountOk(k), NEW b, BucketOk(k, b), now < b.lastFill + interval,
           b.tokens > 0, Admit(k, b), k \in refused => RefusedOk(k)
    PROVE  ClientOk(k)'
<1>1. /\ interval \in Nat \ {0} /\ burst \in Nat \ {0} /\ now \in Nat /\ MaxTicks \in Nat
      /\ b = [tokens |-> b.tokens, lastFill |-> b.lastFill]
      /\ b.tokens \in 1 .. burst /\ b.lastFill \in Nat /\ b.lastFill <= now
  BY Constants DEF BucketOk, Bucket
<1>2. /\ buckets'[k] = [tokens |-> b.tokens - 1, lastFill |-> b.lastFill]
      /\ allowed'[k] = [t \in 0..MaxTicks + 1 |-> IF t <= now THEN allowed[k][t] ELSE allowed[k][t] + 1]
      /\ now' = now /\ refused' = refused
  BY <1>1 DEF Admit
<1>3. /\ allowed[k] \in [0 .. MaxTicks + 1 -> Nat]
      /\ \A t \in 0 .. MaxTicks + 1 : /\ allowed[k][t] <= allowed[k][now + 1]
                                      /\ t > now => allowed[k][t] = allowed[k][now + 1]
  BY DEF CountOk
<1>4. CountOk(k)'
  <2>1. allowed'[k] \in [0 .. MaxTicks + 1 -> Nat]
    BY <1>2, <1>3
  <2>2. now + 1 \in 0 .. MaxTicks + 1 /\ ~(now + 1 <= now) /\ allowed[k][now + 1] \in Nat
    BY <1>1, <1>3
  <2>3. allowed'[k][now + 1] = allowed[k][now + 1] + 1
    BY <1>2, <2>2
  <2>4. ASSUME NEW t \in 0 .. MaxTicks + 1
        PROVE  /\ allowed'[k][t] <= allowed'[k][now + 1]
               /\ t > now => allowed'[k][t] = allowed'[k][now + 1]
    <3>1. /\ allowed[k][t] <= allowed[k][now + 1] /\ (t > now => allowed[k][t] = allowed[k][now + 1])
          /\ allowed[k][t] \in Nat
      BY <1>3
    <3>2. CASE t <= now
      <4>1. allowed'[k][t] = allowed[k][t] /\ ~(t > now)
        BY <1>1, <1>2, <3>2
      <4> QED
        BY <2>2, <2>3, <3>1, <4>1
    <3>3. CASE ~(t <= now)
      <4>1. allowed'[k][t] = allowed[k][t] + 1 /\ t > now
        BY <1>1, <1>2, <3>3
      <4> QED
        BY <2>3, <3>1, <4>1
    <3> QED
      BY <3>2, <3>3
  <2> QED
    BY <1>2, <2>1, <2>4 DEF CountOk
<1>5. ASSUME NEW s \in 0 .. now
      PROVE  /\ Given(k, s)' = Given(k, s) + 1
             /\ s < now => Given(k, s + 1)' = Given(k, s + 1) + 1
             /\ s = now => Given(k, s + 1)' = 0
             /\ Given(k, s + 1) \in Nat /\ Given(k, s + 1)' \in Nat /\ Given(k, s) \in Nat
  <2>1. /\ s \in 0 .. MaxTicks + 1 /\ s + 1 \in 0 .. MaxTicks + 1 /\ now + 1 \in 0 .. MaxTicks + 1
        /\ now' + 1 = now + 1 /\ ~(now + 1 <= now)
    BY <1>1, <1>2
  <2>2. /\ allowed'[k][now' + 1] = allowed[k][now + 1] + 1
        /\ allowed'[k][s] = allowed[k][s]
        /\ s < now => allowed'[k][s + 1] = allowed[k][s + 1]
        /\ s = now => allowed'[k][s + 1] = allowed[k][now + 1] + 1
    BY <1>1, <1>2, <2>1, SMTT(30)
  <2>3. /\ allowed[k][now + 1] \in Nat /\ allowed[k][s] \in Nat /\ allowed[k][s + 1] \in Nat
        /\ allowed[k][s] <= allowed[k][now + 1] /\ allowed[k][s + 1] <= allowed[k][now + 1]
    BY <1>3, <2>1
  <2>4. Given(k, s)' = (allowed[k][now + 1] + 1) - allowed[k][s]
    BY <2>2 DEF Given
  <2>5. CASE s < now
    <3>1. Given(k, s + 1)' = (allowed[k][now + 1] + 1) - allowed[k][s + 1]
      BY <2>2, <2>5 DEF Given
    <3> QED
      BY <1>1, <2>3, <2>4, <2>5, <3>1 DEF Given
  <2>6. CASE s = now
    <3>1. Given(k, s + 1)' = (allowed[k][now + 1] + 1) - (allowed[k][now + 1] + 1)
      BY <2>2, <2>6 DEF Given
    <3>2. ~(s < now) /\ Given(k, s + 1)' = 0
      BY <1>1, <2>3, <2>6, <3>1
    <3>3. /\ Given(k, s) = allowed[k][now + 1] - allowed[k][s]
          /\ Given(k, s + 1) = allowed[k][now + 1] - allowed[k][s + 1]
      BY DEF Given
    <3>4. Given(k, s) \in Nat /\ Given(k, s + 1) \in Nat
      BY <2>3, <3>3
    <3>5. (allowed[k][now + 1] + 1) - allowed[k][s] = (allowed[k][now + 1] - allowed[k][s]) + 1
      BY <2>3
    <3>6. Given(k, s)' = Given(k, s) + 1
      BY <2>4, <3>3, <3>5
    <3> QED
      BY <3>2, <3>4, <3>6
  <2>7. s < now \/ s = now
    BY <1>1
  <2> QED
    BY <2>5, <2>6, <2>7
<1>6. BucketOk(k, buckets[k])'
  <2>1. ASSUME NEW s \in 0 .. now
        PROVE  /\ ~(s >= b.lastFill + interval)
               /\ Given(k, s)' + (b.tokens - 1) <= burst + Fills(b.lastFill - s)
               /\ (b.tokens - 1) + Given(k, s + 1)' >= AtMost(burst, Fills(b.lastFill - s))
    <3>1. /\ Given(k, s) + b.tokens <= burst + Fills(b.lastFill - s)
          /\ b.tokens + Given(k, s + 1) >= AtMost(burst, Fills(b.lastFill - s))
      BY DEF BucketOk
    <3>2. /\ b.lastFill - s \in Int /\ b.lastFill - s <= b.lastFill - s
      BY <1>1
    <3>3. /\ Fills(b.lastFill - s) \in Nat
          /\ b.lastFill - s <= 0 => Fills(b.lastFill - s) = 0
      BY <3>2, FillsGrow
    <3>4. (b.tokens - 1) + Given(k, s + 1)' >= AtMost(burst, Fills(b.lastFill - s))
      <4>1. CASE s < now
        BY <1>1, <1>5, <3>1, <3>3, <4>1 DEF AtMost
      <4>2. CASE s = now
        <5>1. Given(k, s + 1)' = 0 /\ Fills(b.lastFill - s) = 0
          BY <1>1, <1>5, <3>3, <4>2
        <5>2. AtMost(burst, Fills(b.lastFill - s)) = 0
          BY <1>1, <5>1 DEF AtMost
        <5> QED
          BY <1>1, <5>1, <5>2
      <4> QED
        BY <1>1, <4>1, <4>2
    <3> QED
      BY <1>1, <1>5, <3>1, <3>3, <3>4
  <2>2. buckets'[k] \in Bucket /\ buckets'[k].tokens = b.tokens - 1 /\ buckets'[k].lastFill = b.lastFill
    BY <1>1, <1>2 DEF Bucket
  <2> QED
    BY <1>1, <1>2, <2>1, <2>2 DEF BucketOk, Bucket
<1>7. k \in refused => RefusedOk(k)'
  <2> SUFFICES ASSUME k \in refused, NEW s \in 0 .. now
               PROVE  Given(k, s + 1)' >= AtMost(burst, rate * ((now - s) \div interval))
    BY <1>2 DEF RefusedOk
  <2>1. Given(k, s + 1) >= AtMost(burst, rate * ((now - s) \div interval))
    BY DEF RefusedOk
  <2>2. CASE s < now
    <3>1. AtMost(burst, rate * ((now - s) \div interval)) \in Int
      <4>1. now - s \in Int
        BY <1>1
      <4>2. (now - s) \div interval \in Int /\ rate \in Nat
        BY <4>1, Division, Constants
      <4> QED
        BY <1>1, <4>2 DEF AtMost
    <3> QED
      BY <1>5, <2>1, <2>2, <3>1
  <2>3. CASE s = now
    <3>1. Given(k, s + 1) = 0
      <4>1. s + 1 \in 0 .. now + 1 /\ s + 1 > now
        BY <1>1, <2>3
      <4> QED
        BY <4>1, Counts
    <3> QED
      BY <1>5, <2>1, <2>3, <3>1
  <2> QED
    BY <1>1, <2>2, <2>3
<1>8. buckets'[k] # NoBucket
  BY <1>1, <1>2, Constants
<1>9. (k \in refused => RefusedOk(k))'
  BY <1>2, <1>7
<1> QED
  BY <1>4, <1>6, <1>8, <1>9 DEF ClientOk

(* A request is refused when the bucket is empty though it is filled up.      *)
LEMMA EmptyIsUsedUp ==
    ASSUME LimiterAssumption, now \in 0 .. MaxTicks, NEW k, CountOk(k), NEW b, BucketOk(k, b),
           now < b.lastFill + interval, b.tokens = 0
    PROVE  RefusedOk(k)
<1>1. interval \in Nat \ {0} /\ burst \in Nat \ {0} /\ now \in Nat /\ b.lastFill \in Nat
      /\ rate \in Nat \ {0}
  BY Constants DEF BucketOk, Bucket
<1>2. ASSUME NEW s \in 0 .. now
      PROVE  Given(k, s + 1) >= AtMost(burst, rate * ((now - s) \div interval))
  <2>1. /\ s + 1 \in 0 .. now + 1 /\ b.lastFill - s \in Int
        /\ now - s \in Nat /\ now - s < (b.lastFill - s) + interval
    BY <1>1
  <2>2. b.tokens + Given(k, s + 1) >= AtMost(burst, Fills(b.lastFill - s))
    BY DEF BucketOk
  <2>3. rate * ((now - s) \div interval) <= Fills(b.lastFill - s)
    BY <2>1, FillsAndIntervals
  <2>4. Fills(b.lastFill - s) \in Nat
    BY <2>1, FillsGrow
  <2>5. rate * ((now - s) \div interval) \in Int
    <3>1. (now - s) \div interval \in Int
      BY <2>1, Division
    <3> QED
      BY <1>1, <3>1
  <2>6. Given(k, s + 1) \in Nat
    BY <2>1, Counts
  <2> QED
    BY <1>1, <2>2, <2>3, <2>4, <2>5, <2>6 DEF AtMost
<1> QED
  BY <1>2 DEF RefusedOk

LEMMA TimeKeeps ==
    ASSUME LimiterAssumption, now \in 0 .. MaxTicks, NEW k, ClientOk(k), TimePasses
    PROVE  ClientOk(k)'
<1>1. /\ interval \in Nat \ {0} /\ burst \in Nat \ {0} /\ now \in Nat /\ MaxTicks \in Nat
      /\ now < MaxTicks /\ now' = now + 1 /\ refused' = {}
      /\ buckets' = buckets /\ allowed' = allowed
  BY Constants DEF TimePasses
<1>2. /\ CountOk(k)
      /\ allowed[k] \in [0 .. MaxTicks + 1 -> Nat]
      /\ \A t \in 0 .. MaxTicks + 1 : /\ allowed[k][t] <= allowed[k][now + 1]
                                      /\ t > now => allowed[k][t] = allowed[k][now + 1]
  BY DEF ClientOk, CountOk
<1>3. allowed[k][now + 2] = allowed[k][now + 1] /\ now' + 1 = now + 2
  <2>1. now + 2 \in 0 .. MaxTicks + 1 /\ now + 2 > now
    BY <1>1
  <2>2. allowed[k][now + 2] = allowed[k][now + 1]
    BY <1>2, <2>1
  <2>3. now' + 1 = now + 2
    BY <1>1
  <2> QED
    BY <2>2, <2>3
<1>4. CountOk(k)'
  BY <1>1, <1>2, <1>3, SMTT(30) DEF CountOk
<1>5. \A s : Given(k, s)' = Given(k, s)
  BY <1>1, <1>3 DEF Given
<1>6. /\ Given(k, now + 1) = 0 /\ Given(k, now + 2) = 0
  <2>1. /\ Given(k, now + 1) = allowed[k][now + 1] - allowed[k][now + 1]
        /\ Given(k, now + 2) = allowed[k][now + 1] - allowed[k][now + 1]
    BY <1>3 DEF Given
  <2>2. allowed[k][now + 1] \in Nat
    <3>1. now + 1 \in 0 .. MaxTicks + 1
      BY <1>1
    <3> QED
      BY <1>2, <3>1
  <2> QED
    BY <2>1, <2>2
<1>7. ASSUME buckets[k] = NoBucket PROVE NoBucketOk(k)'
  <2>1. ASSUME NEW s \in 0 .. now + 1 PROVE Given(k, s) <= Fills((now + 1) - s)
    <3>1. now - s \in Int /\ (now + 1) - s \in Int /\ now - s <= (now + 1) - s
          /\ s \in 0 .. now + 1
      BY <1>1
    <3>2. Fills(now - s) \in Nat /\ Fills(now - s) <= Fills((now + 1) - s)
      BY <3>1, FillsGrow
    <3>3. Fills((now + 1) - s) \in Nat
      BY <3>1, FillsGrow
    <3>4. Given(k, s) \in Nat
      BY <1>2, <3>1, Counts
    <3>5. CASE s \in 0 .. now
      <4>1. Given(k, s) <= Fills(now - s)
        BY <1>7, <3>5 DEF ClientOk, NoBucketOk
      <4> QED
        BY <3>2, <3>3, <3>4, <4>1
    <3>6. CASE s = now + 1
      BY <1>6, <3>3, <3>6
    <3> QED
      BY <1>1, <3>5, <3>6
  <2> QED
    BY <1>1, <1>5, <2>1 DEF NoBucketOk
<1>8. ASSUME buckets[k] # NoBucket PROVE BucketOk(k, buckets[k])'
  <2> DEFINE b == buckets[k]
  <2>1. BucketOk(k, b)
    BY <1>8 DEF ClientOk
  <2>2. b \in Bucket /\ b.lastFill \in Nat /\ b.tokens \in 0 .. burst /\ b.lastFill <= now
    BY <2>1 DEF BucketOk, Bucket
  <2>3. \A s \in 0 .. now :
          /\ s >= b.lastFill + interval => Given(k, s) = 0
          /\ Given(k, s) + b.tokens <= burst + Fills(b.lastFill - s)
          /\ b.tokens + Given(k, s + 1) >= AtMost(burst, Fills(b.lastFill - s))
    BY <2>1 DEF BucketOk
  <2>4. b' = b
    BY <1>1
  <2> HIDE DEF b
  <2>5. ASSUME NEW s \in 0 .. now + 1
        PROVE  /\ s >= b.lastFill + interval => Given(k, s) = 0
               /\ Given(k, s) + b.tokens <= burst + Fills(b.lastFill - s)
               /\ b.tokens + Given(k, s + 1) >= AtMost(burst, Fills(b.lastFill - s))
    <3>1. CASE s \in 0 .. now
      BY <2>3, <3>1
    <3>2. CASE s = now + 1
      <4>1. b.lastFill - s \in Int /\ b.lastFill - s <= b.lastFill - s /\ b.lastFill - s <= 0
            /\ s + 1 = now + 2
        BY <1>1, <2>2, <3>2
      <4>2. Fills(b.lastFill - s) = 0
        BY <4>1, FillsGrow
      <4>3. Given(k, s) = 0 /\ Given(k, s + 1) = 0 /\ AtMost(burst, 0) = 0
        BY <1>1, <1>6, <3>2, <4>1 DEF AtMost
      <4> QED
        BY <1>1, <2>2, <4>2, <4>3
    <3> QED
      BY <1>1, <3>1, <3>2
  <2>6. Bucket' = Bucket /\ b.lastFill <= now + 1
    BY <1>1, <2>2 DEF Bucket
  <2>7. BucketOk(k, b)'
    BY <1>1, <1>5, <2>2, <2>4, <2>5, <2>6 DEF BucketOk
  <2> QED
    BY <2>7 DEF b
<1> QED
  BY <1>1, <1>4, <1>7, <1>8 DEF ClientOk

LEMMA DropsKeep ==
    ASSUME LimiterAssumption, now \in 0 .. MaxTicks, NEW k \in Clients, ClientOk(k), DropBuckets
    PROVE  ClientOk(k)'
<1>1. /\ now' = now /\ allowed' = allowed /\ refused' = refused
      /\ buckets'[k] = IF buckets[k] # NoBucket /\ buckets[k].lastFill < now - CutOff
                       THEN NoBucket ELSE buckets[k]
  BY DEF DropBuckets
<1>2. CASE buckets[k] # NoBucket /\ buckets[k].lastFill < now - CutOff
  <2>1. CountOk(k) /\ BucketOk(k, buckets[k]) /\ (k \in refused => RefusedOk(k))
    BY <1>2 DEF ClientOk
  <2>2. NoBucketOk(k)
    BY <1>2, <2>1, DropKeeps
  <2>3. CountOk(k)' /\ NoBucketOk(k)' /\ (k \in refused => RefusedOk(k))'
    BY <1>1, <2>1, <2>2 DEF CountOk, NoBucketOk, RefusedOk, Given
  <2> QED
    BY <1>1, <1>2, <2>3 DEF ClientOk
<1>3. CASE ~(buckets[k] # NoBucket /\ buckets[k].lastFill < now - CutOff)
  <2>1. buckets'[k] = buckets[k]
    BY <1>1, <1>3
  <2> QED
    BY <1>1, <2>1, ClientStays
<1> QED
  BY <1>2, <1>3

LEMMA AllowKeeps ==
    ASSUME LimiterAssumption, now \in 0 .. MaxTicks, DOMAIN allowed = Clients,
           DOMAIN buckets = Clients, NEW k \in Clients, ClientOk(k), Allow(k)
    PROVE  /\ ClientOk(k)'
           /\ now' = now /\ DOMAIN allowed' = Clients /\ DOMAIN buckets' = Clients
           /\ \A j \in Clients \ {k} : /\ allowed'[j] = allowed[j] /\ buckets'[j] = buckets[j]
                                       /\ j \in refused' => j \in refused
<1>1. PICK b : b = IF buckets[k] = NoBucket THEN [tokens |-> burst, lastFill |-> now]
                   ELSE Refilled(buckets[k])
  OBVIOUS
<1>2. \/ b.tokens > 0 /\ Admit(k, b)
      \/ /\ b.tokens = 0
         /\ buckets' = [buckets EXCEPT ![k] = b]
         /\ refused' = refused \cup {k}
         /\ UNCHANGED <<now, allowed>>
  BY <1>1 DEF Allow
<1>3. CountOk(k) /\ (k \in refused => RefusedOk(k))
  BY DEF ClientOk
<1>4. BucketOk(k, b) /\ now < b.lastFill + interval
  <2>1. CASE buckets[k] = NoBucket
    <3>1. NoBucketOk(k) /\ b = [tokens |-> burst, lastFill |-> now]
      BY <1>1, <2>1 DEF ClientOk
    <3>2. BucketOk(k, [tokens |-> burst, lastFill |-> now])
      BY <1>3, <3>1, NewBucket
    <3>3. now < now + interval
      BY Constants
    <3> QED
      BY <3>1, <3>2, <3>3
  <2>2. CASE buckets[k] # NoBucket
    <3>1. BucketOk(k, buckets[k]) /\ b = Refilled(buckets[k])
      BY <1>1, <2>2 DEF ClientOk
    <3> QED
      BY <1>3, <3>1, RefillKeeps
  <2> QED
    BY <2>1, <2>2
<1>5. CASE b.tokens > 0 /\ Admit(k, b)
  <2>1. ClientOk(k)'
    BY <1>3, <1>4, <1>5, AdmitKeeps
  <2> QED
    BY <1>5, <2>1 DEF Admit
<1>6. CASE /\ b.tokens = 0
           /\ buckets' = [buckets EXCEPT ![k] = b]
           /\ refused' = refused \cup {k}
           /\ UNCHANGED <<now, allowed>>
  <2>1. RefusedOk(k)
    BY <1>3, <1>4, <1>6, EmptyIsUsedUp
  <2>2. b \in Bucket
    BY <1>4 DEF BucketOk
  <2>3. b # NoBucket
    <3>1. NoBucket \notin [tokens : Nat, lastFill : Nat] /\ burst \in Nat
      BY Constants
    <3>2. b \in [tokens : Nat, lastFill : Nat]
      BY <2>2, <3>1 DEF Bucket
    <3> QED
      BY <3>1, <3>2
  <2>4. buckets'[k] = b /\ now' = now /\ allowed' = allowed
    BY <1>6
  <2>5. CountOk(k)' /\ RefusedOk(k)' /\ BucketOk(k, buckets[k])'
    BY <1>3, <1>4, <2>1, <2>4 DEF CountOk, RefusedOk, BucketOk, Given, Bucket
  <2>6. ClientOk(k)'
    BY <2>3, <2>4, <2>5 DEF ClientOk
  <2> QED
    BY <1>6, <2>6
<1> QED
  BY <1>2, <1>5, <1>6

LEMMA LimiterStarts == ASSUME LimiterAssumption, LimiterInit PROVE LimiterInv
<1>1. MaxTicks \in Nat \ {0} /\ now = 0 /\ refused = {}
  BY Constants DEF LimiterInit
<1>2. ASSUME NEW k \in Clients PROVE ClientOk(k)
  <2>1. buckets[k] = NoBucket /\ allowed[k] = [t \in 0 .. MaxTicks + 1 |-> 0]
    BY DEF LimiterInit
  <2>2. CountOk(k)
    <3>1. now + 1 \in 0 .. MaxTicks + 1 /\ 0 \in Nat
      BY <1>1
    <3>2. allowed[k] \in [0 .. MaxTicks + 1 -> Nat]
      BY <2>1, <3>1
    <3>3. \A t \in 0 .. MaxTicks + 1 : allowed[k][t] = 0
      BY <2>1
    <3> QED
      BY <3>1, <3>2, <3>3 DEF CountOk
  <2>3. NoBucketOk(k)
    <3> SUFFICES ASSUME NEW s \in 0 .. now PROVE Given(k, s) <= Fills(now - s)
      BY DEF NoBucketOk
    <3>1. s \in 0 .. 0
      BY <1>1
    <3>2. s = 0
      BY <3>1
    <3>3. 0 \in 0 .. MaxTicks + 1 /\ 1 \in 0 .. MaxTicks + 1
      BY <1>1
    <3>4. now - s = 0 /\ now + 1 = 1
      BY <1>1, <3>2
    <3>5. s \in 0 .. MaxTicks + 1 /\ now + 1 \in 0 .. MaxTicks + 1 /\ now - s = 0
      BY <3>2, <3>3, <3>4
    <3>6. allowed[k][now + 1] = 0 /\ allowed[k][s] = 0
      BY <2>1, <3>5
    <3>7. Given(k, s) = 0
      BY <3>6 DEF Given
    <3>8. Fills(now - s) = 0
      <4>1. Fills(0) = 0
        BY FillsGrow
      <4> QED
        BY <3>5, <4>1
    <3> QED
      BY <3>7, <3>8
  <2> QED
    BY <1>1, <2>1, <2>2, <2>3 DEF ClientOk
<1> QED
  BY <1>1, <1>2 DEF LimiterInv, LimiterInit

LEMMA LimiterInductive ==
    ASSUME LimiterAssumption, LimiterInv, [LimiterNext]_limiterVars
    PROVE  LimiterInv'
<1>1. /\ now \in 0 .. MaxTicks /\ DOMAIN buckets = Clients /\ DOMAIN allowed = Clients
      /\ \A k \in Clients : ClientOk(k)
  BY DEF LimiterInv
<1>2. CASE TimePasses
  <2>1. \A k \in Clients : ClientOk(k)'
    BY <1>1, <1>2, TimeKeeps
  <2>2. now' \in 0 .. MaxTicks /\ buckets' = buckets /\ allowed' = allowed
    BY <1>1, <1>2, Constants DEF TimePasses
  <2> QED
    BY <1>1, <2>1, <2>2 DEF LimiterInv
<1>3. CASE DropBuckets
  <2>1. \A k \in Clients : ClientOk(k)'
    BY <1>1, <1>3, DropsKeep
  <2>2. now' = now /\ DOMAIN buckets' = Clients /\ allowed' = allowed
    BY <1>3 DEF DropBuckets
  <2> QED
    BY <1>1, <2>1, <2>2 DEF LimiterInv
<1>4. ASSUME NEW k \in Clients, Allow(k) PROVE LimiterInv'
  <2>1. /\ ClientOk(k)'
        /\ now' = now /\ DOMAIN allowed' = Clients /\ DOMAIN buckets' = Clients
        /\ \A j \in Clients \ {k} : /\ allowed'[j] = allowed[j] /\ buckets'[j] = buckets[j]
                                    /\ j \in refused' => j \in refused
    BY <1>1, <1>4, AllowKeeps
  <2>2. ASSUME NEW j \in Clients, j # k PROVE ClientOk(j)'
    <3>1. /\ ClientOk(j) /\ UNCHANGED now /\ allowed'[j] = allowed[j] /\ buckets'[j] = buckets[j]
          /\ j \in refused' => j \in refused
      BY <1>1, <2>1, <2>2
    <3> QED
      BY <3>1, ClientStays
  <2> QED
    BY <1>1, <2>1, <2>2 DEF LimiterInv
<1>5. CASE UNCHANGED limiterVars
  <2>1. now' = now /\ buckets' = buckets /\ allowed' = allowed /\ refused' = refused
    BY <1>5 DEF limiterVars
  <2>2. ASSUME NEW k \in Clients PROVE ClientOk(k)'
    <3>1. ClientOk(k)
      BY <1>1
    <3> QED
      BY <2>1, <3>1, ClientStays
  <2> QED
    BY <1>1, <2>1, <2>2 DEF LimiterInv
<1> QED
  BY <1>2, <1>3, <1>4, <1>5 DEF LimiterNext

LEMMA LimiterKeepsRate == ASSUME LimiterAssumption, LimiterInv PROVE RateIsKept
<1>1. now \in 0 .. MaxTicks /\ now \in Nat /\ burst \in Nat \ {0} /\ rate \in Nat \ {0}
  BY Constants DEF LimiterInv
<1> SUFFICES ASSUME NEW k \in Clients, NEW s \in 0 .. now
             PROVE  /\ Given(k, s) <= burst + rate * ((now - s) \div interval + 1)
                    /\ k \in refused =>
                          Given(k, s + 1) >= AtMost(burst, rate * ((now - s) \div interval))
  BY DEF RateIsKept, AllowedIn, Given
<1>2. ClientOk(k) /\ CountOk(k)
  BY DEF LimiterInv, ClientOk
<1>3. k \in refused => Given(k, s + 1) >= AtMost(burst, rate * ((now - s) \div interval))
  BY <1>2 DEF ClientOk, RefusedOk
<1>4. now - s \in Nat /\ now - s \in Int /\ s \in 0 .. now + 1
  BY <1>1
<1>5. Given(k, s) \in Nat
  BY <1>1, <1>2, <1>4, Counts
<1>6. rate * ((now - s) \div interval + 1) \in Int
  <2>1. (now - s) \div interval \in Int
    BY <1>4, Division
  <2> QED
    BY <1>1, <2>1
<1>7. Given(k, s) <= burst + rate * ((now - s) \div interval + 1)
  <2>1. CASE buckets[k] = NoBucket
    <3>1. Given(k, s) <= Fills(now - s)
      BY <1>2, <2>1 DEF ClientOk, NoBucketOk
    <3>2. Fills(now - s) <= rate * ((now - s) \div interval + 1)
      <4>1. now - s <= now - s
        BY <1>4
      <4> QED
        BY <1>4, <4>1, FillsAndIntervals
    <3>3. Fills(now - s) \in Nat
      BY <1>4, FillsGrow
    <3> QED
      BY <1>1, <1>5, <1>6, <3>1, <3>2, <3>3
  <2>2. CASE buckets[k] # NoBucket
    <3> DEFINE b == buckets[k]
    <3>1. BucketOk(k, b)
      BY <1>2, <2>2 DEF ClientOk
    <3>2. b.tokens \in 0 .. burst /\ b.lastFill \in Nat /\ b.lastFill <= now
          /\ Given(k, s) + b.tokens <= burst + Fills(b.lastFill - s)
      BY <3>1 DEF BucketOk, Bucket
    <3> HIDE DEF b
    <3>3. b.lastFill - s \in Int /\ b.lastFill - s <= now - s
      BY <1>1, <3>2
    <3>4. Fills(b.lastFill - s) <= rate * ((now - s) \div interval + 1)
      BY <1>4, <3>3, FillsAndIntervals
    <3>5. Fills(b.lastFill - s) \in Nat
      BY <3>3, FillsGrow
    <3> QED
      BY <1>1, <1>5, <1>6, <3>2, <3>4, <3>5
  <2> QED
    BY <2>1, <2>2
<1> QED
  BY <1>3, <1>7

\* In every stretch of time a client gets no more than a burst and the fills of
\* that stretch, and it is refused only when it was given what the intervals
\* entitle it to (ratelimit.go:44, 72, 98): whatever the rate, the burst, the
\* length of the interval, and the times of calls and of cleanup.
THEOREM TheRateIsKept == LimiterSpec => []RateIsKept
<1>1. LimiterInit => LimiterInv
  BY LimiterAssumption, LimiterStarts
<1>2. LimiterInv /\ [LimiterNext]_limiterVars => LimiterInv'
  BY LimiterAssumption, LimiterInductive
<1>3. LimiterInv => RateIsKept
  BY LimiterAssumption, LimiterKeepsRate
<1> QED
  BY <1>1, <1>2, <1>3, PTL DEF LimiterSpec
=============================================================================
