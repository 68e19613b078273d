--------------------------- MODULE HostedSessions ---------------------------
(***************************************************************************)
(* Browser sessions of the hosted server (internal/hosted/session.go and   *)
(* authservice_server.go): two signed cookies, a store in memory with a    *)
(* time to live, and the restoration of a session from its cookie after    *)
(* the server restarted.                                                   *)
(*                                                                         *)
(* One browser, which may lose its subject cookie and get a new one while  *)
(* the session cookie stays. The auth service has one connection for a     *)
(* subject, named here after the subject. Time counts halves of sessionTTL.*)
(***************************************************************************)
EXTENDS Integers, FiniteSets

CONSTANTS
    Asks,           \* requests of the browser to the API
    Connects,       \* finalizations of a connection
    MaxSubjects,    \* bound: subjects handed out
    MaxSessions,    \* bound: sessions created
    Absent,         \* no cookie, no session
    LastHalf        \* bound of the clock

ASSUME SessionAssumption ==
    /\ MaxSubjects \in Nat /\ MaxSessions \in Nat /\ LastHalf \in Nat
    /\ Absent \notin Nat

VARIABLES
    half,           \* the time
    subjects,       \* how many subjects have been handed out
    connected,      \* subjects with a connection at the auth service
    sessions,       \* SessionStore.sessions
    created,        \* how many sessions have been created
    born,           \* history: when each session was created
    jar,            \* the browser's cookies
    asking          \* progress of the requests

sessionVars == <<half, subjects, connected, sessions, created, born, jar, asking>>

sessionTTL == 2

(* A first deployment, or one whose predecessor signed cookies without a    *)
(* connection in them.                                                      *)
SessionInit ==
    /\ half = 0 /\ subjects = 1 /\ created = 0
    /\ connected = {}
    /\ sessions = [id \in 0..MaxSessions |-> Absent]
    /\ born = [id \in 0..MaxSessions |-> 0]
    /\ jar \in {[subject |-> Absent, id |-> Absent, connection |-> Absent],
                [subject |-> 1, id |-> 0, connection |-> Absent]}
    /\ asking = [r \in Asks \cup Connects |-> [pc |-> "idle"]]

(* No request takes half a day.                                             *)
HalfPasses ==
    /\ half < LastHalf
    /\ \A r \in DOMAIN asking : asking[r].pc \in {"idle", "serve", "refused", "lost", "done"}
    /\ half' = half + 1
    /\ UNCHANGED <<subjects, connected, sessions, created, born, jar, asking>>

Expired(session) == half - session.createdAt > sessionTTL

cleanup ==
    /\ \E id \in DOMAIN sessions : sessions[id] # Absent /\ Expired(sessions[id])
    /\ sessions' = [id \in DOMAIN sessions |->
                       IF sessions[id] # Absent /\ Expired(sessions[id]) THEN Absent
                                                                         ELSE sessions[id]]
    /\ UNCHANGED <<half, subjects, connected, created, born, jar, asking>>

(* The store is in memory; requests under way are lost.                     *)
Restart ==
    /\ sessions' = [id \in DOMAIN sessions |-> Absent]
    /\ asking' = [r \in DOMAIN asking |->
                     IF asking[r].pc = "idle" THEN asking[r] ELSE [pc |-> "lost"]]
    /\ UNCHANGED <<half, subjects, connected, created, born, jar>>

(***************************************************************************)
(* Connecting: a subject, a connection for it, a session for both.         *)
(***************************************************************************)
ensureSubjectID ==
    /\ jar.subject = Absent
    /\ subjects < MaxSubjects
    /\ subjects' = subjects + 1
    /\ jar' = [jar EXCEPT !.subject = subjects']

handleConnectSession == ensureSubjectID /\ UNCHANGED <<half, connected, sessions, created, born, asking>>

(* The browser redeems its connect token at the auth service.               *)
Redeem ==
    /\ jar.subject # Absent /\ jar.subject \notin connected
    /\ connected' = connected \cup {jar.subject}
    /\ UNCHANGED <<half, subjects, sessions, created, born, jar, asking>>

LoseSubjectCookie ==
    /\ jar.subject # Absent
    /\ jar' = [jar EXCEPT !.subject = Absent]
    /\ UNCHANGED <<half, subjects, connected, sessions, created, born, asking>>

(* What the auth service says of a connection: its subject's alone gets it, *)
(* and nobody when the call fails.                                          *)
GetConnection(subject, connection) == connection = subject /\ subject \in connected

(* handleConnect takes any connection the browser names.                    *)
BeginConnect(r) ==
    /\ asking[r].pc = "idle" /\ jar.subject # Absent
    /\ \E connection \in connected :
          asking' = [asking EXCEPT ![r] =
                        IF GetConnection(jar.subject, connection)
                        THEN [pc |-> "create", subject |-> jar.subject, connection |-> connection]
                        ELSE [pc |-> "lost"]]
    /\ UNCHANGED <<half, subjects, connected, sessions, created, born, jar>>

CreateWithSubject(r) ==
    /\ asking[r].pc = "create"
    /\ created < MaxSessions
    /\ created' = created + 1
    /\ born' = [born EXCEPT ![created'] = half]
    /\ sessions' = [sessions EXCEPT ![created'] =
                       [subject |-> asking[r].subject, connection |-> asking[r].connection,
                        createdAt |-> half]]
    /\ asking' = [asking EXCEPT ![r] = [pc |-> "cookie", id |-> created',
                                        connection |-> asking[r].connection]]
    /\ UNCHANGED <<half, subjects, connected, jar>>

SetSessionCookie(r) ==
    /\ asking[r].pc = "cookie"
    /\ jar' = [jar EXCEPT !.id = asking[r].id, !.connection = asking[r].connection]
    /\ asking' = [asking EXCEPT ![r] = [pc |-> "done"]]
    /\ UNCHANGED <<half, subjects, connected, sessions, created, born>>

handleLogout ==
    /\ jar.id # Absent
    /\ sessions' = [sessions EXCEPT ![jar.id] = Absent]
    /\ jar' = [jar EXCEPT !.id = Absent, !.connection = Absent]
    /\ UNCHANGED <<half, subjects, connected, created, born, asking>>

(***************************************************************************)
(* restoreSession, in front of every request to the API.                   *)
(***************************************************************************)
Refused(r, why) == [pc |-> "refused", cookie |-> asking[r].cookie, why |-> why]

ReadCookies(r) ==
    /\ asking[r].pc = "idle"
    /\ jar.id # Absent /\ jar.subject # Absent
    /\ asking' = [asking EXCEPT ![r] = [pc |-> "get", cookie |-> jar, restored |-> FALSE]]
    /\ UNCHANGED <<half, subjects, connected, sessions, created, born, jar>>

Serve(r) == [pc |-> "serve", cookie |-> asking[r].cookie,
             session |-> sessions[asking[r].cookie.id]]

Owned(r) == sessions[asking[r].cookie.id].subject = asking[r].cookie.subject

(* Get drops a session it finds expired; what it gives must be the          *)
(* subject's (after a restoration, that is not looked at again).            *)
Get(r) ==
    LET id == asking[r].cookie.id
        session == sessions[id]
    IN  /\ asking[r].pc = "get"
        /\ sessions' = IF session # Absent /\ Expired(session)
                       THEN [sessions EXCEPT ![id] = Absent] ELSE sessions
        /\ asking' = [asking EXCEPT ![r] =
               IF session # Absent /\ ~Expired(session)
               THEN IF asking[r].restored \/ Owned(r) THEN Serve(r) ELSE Refused(r, "subject")
               ELSE IF asking[r].restored THEN Refused(r, IF session = Absent THEN "deleted" ELSE "expired")
               ELSE IF asking[r].cookie.connection = Absent THEN Refused(r, "cookie")
               ELSE [asking[r] EXCEPT !.pc = "validate"]]
        /\ UNCHANGED <<half, subjects, connected, created, born, jar>>

\* Faulty: believes the cookie's connection.
ValidatesAnything(r) == TRUE

Validates(r) == GetConnection(asking[r].cookie.subject, asking[r].cookie.connection)

(* The call of the auth service may fail as well.                           *)
ValidateConnection(r) ==
    /\ asking[r].pc = "validate"
    /\ \/ asking' = [asking EXCEPT ![r] = IF Validates(r) THEN [@ EXCEPT !.pc = "restore"]
                                                          ELSE Refused(r, "connection")]
       \/ asking' = [asking EXCEPT ![r] = Refused(r, "call")]
    /\ UNCHANGED <<half, subjects, connected, sessions, created, born, jar>>

\* Faulty: restores the session as an old one.
RestoredSessionOld(cookie) ==
    [subject |-> cookie.subject, connection |-> cookie.connection,
     createdAt |-> half - sessionTTL - 1]

RestoredSession(cookie) ==
    [subject |-> cookie.subject, connection |-> cookie.connection,
     createdAt |-> half - sessionTTL \div 2]

RestoreWithSubject(r) ==
    /\ asking[r].pc = "restore"
    /\ sessions' = [sessions EXCEPT ![asking[r].cookie.id] = RestoredSession(asking[r].cookie)]
    /\ asking' = [asking EXCEPT ![r].pc = "get", ![r].restored = TRUE]
    /\ UNCHANGED <<half, subjects, connected, created, born, jar>>

AskStep(r) == ReadCookies(r) \/ Get(r) \/ ValidateConnection(r) \/ RestoreWithSubject(r)

Connect(r) == BeginConnect(r) \/ CreateWithSubject(r) \/ SetSessionCookie(r)

SessionNext ==
    \/ HalfPasses \/ cleanup \/ Restart
    \/ handleConnectSession \/ Redeem \/ LoseSubjectCookie \/ handleLogout
    \/ \E r \in Asks : AskStep(r)
    \/ \E r \in Connects : Connect(r)

SessionSpec == SessionInit /\ [][SessionNext]_sessionVars
-----------------------------------------------------------------------------
(***************************************************************************)
(* Properties.                                                             *)
(***************************************************************************)
(* A request is served with the session of its own subject cookie and with  *)
(* that subject's connection, whatever was restored, expired, logged out or *)
(* lost meanwhile (restoreSession).                                         *)
ActsForItsSubject ==
    \A r \in Asks : asking[r].pc = "serve" =>
        /\ asking[r].session.subject = asking[r].cookie.subject
        /\ asking[r].session.connection = asking[r].cookie.subject

(* For a session's day its cookies suffice: a request with both, whose      *)
(* connection is its subject's, is turned away only when the auth service   *)
(* cannot be asked or a logout took what was just restored, however often   *)
(* the server restarted (authservice_server.go:147).  Older sessions are    *)
(* restored as well: nothing asks how old a session is, although its half   *)
(* of a time to live is meant "to limit how much a restart can extend a     *)
(* session" (session.go:123).                                               *)
YoungSessionsReturn ==
    \A r \in Asks :
        /\ asking[r].pc = "refused"
        /\ GetConnection(asking[r].cookie.subject, asking[r].cookie.connection)
        /\ half - born[asking[r].cookie.id] <= sessionTTL
        => asking[r].why \in {"call", "deleted"}
=============================================================================
