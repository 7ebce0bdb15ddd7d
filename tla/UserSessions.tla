---------------------------- MODULE UserSessions ----------------------------
(***************************************************************************)
(* One user's sessions: pairs of an access and a refresh token (sign-in,   *)
(* rotation, logout), the WebSockets opened with an access token, and the  *)
(* presence that a chat partner is told of.                                *)
(*                                                                         *)
(* HTTP requests run in threads with a database session each; the sockets' *)
(* registry lives on the one event loop, whose steps are atomic, but a     *)
(* socket's handler leaves the loop to check its token and to announce the *)
(* user, and anything may happen meanwhile.                                *)
(***************************************************************************)
EXTENDS Naturals, FiniteSets

CONSTANTS Tokens,          \* access tokens (jti), each with its refresh token
          NoToken,
          Requests,        \* HTTP requests that may run at the same time
          NoRequest,
          Sockets,
          MaxConnections   \* settings.ws_max_connections_per_user

ASSUME SessionsAssumption ==
    /\ NoToken \notin Tokens /\ NoRequest \notin Requests
    /\ MaxConnections \in Nat \ {0}

VARIABLES
    active,       \* the active_tokens rows
    refresh,      \* each refresh_tokens row: "none", "valid" or "revoked"
    family,       \* the token of the sign-in that each token descends from
    expired,      \* access tokens past their expires_at
    standing,     \* users.status is ACTIVE
    activeLock, refreshLock,     \* the request that locked a token's row
    req,          \* each request's next statement and token
    closing,      \* close_token calls scheduled on the event loop
    socket,       \* each socket's handler: next statement and token
    registered,   \* ConnectionManager._connections_by_user
    told,         \* the presence a handler has described and not yet published
    view,         \* the presence that the partner was last sent
    crossed,      \* two announcements were under way at once
    missed        \* one did not reach the partner, and none was described since

tokenVars  == <<active, refresh, family, standing, activeLock, refreshLock, req>>
socketVars == <<socket, registered, told, view, crossed, missed>>
vars == <<tokenVars, socketVars, expired, closing>>

Idle     == [at |-> "idle", token |-> NoToken]
Unopened == [at |-> "none", token |-> NoToken]

TypeOK ==
    /\ active \subseteq Tokens /\ expired \subseteq Tokens /\ closing \subseteq Tokens
    /\ registered \subseteq Sockets
    /\ refresh \in [Tokens -> {"none", "valid", "revoked"}]
    /\ family \in [Tokens -> Tokens \cup {NoToken}]
    /\ standing \in BOOLEAN /\ crossed \in BOOLEAN /\ missed \in BOOLEAN
    /\ activeLock \in [Tokens -> Requests \cup {NoRequest}]
    /\ refreshLock \in [Tokens -> Requests \cup {NoRequest}]
    /\ req \in [Requests -> [at: {"idle", "deactivate", "issue", "refused", "delete", "revoke", "commit"},
                             token: Tokens \cup {NoToken}]]
    /\ socket \in [Sockets -> [at: {"none", "checked", "arriving", "serving", "leaving", "ended"},
                               token: Tokens \cup {NoToken}]]
    /\ told \in [Sockets -> {"nothing", "online", "offline"}]
    /\ view \in {"online", "offline"}
    /\ Cardinality(registered) <= MaxConnections

Init ==
    /\ active = {} /\ expired = {} /\ closing = {} /\ registered = {}
    /\ refresh = [t \in Tokens |-> "none"]
    /\ family = [t \in Tokens |-> NoToken]
    /\ standing = TRUE /\ crossed = FALSE /\ missed = FALSE /\ view = "offline"
    /\ activeLock = [t \in Tokens |-> NoRequest]
    /\ refreshLock = [t \in Tokens |-> NoRequest]
    /\ req = [r \in Requests |-> Idle]
    /\ socket = [c \in Sockets |-> Unopened]
    /\ told = [c \in Sockets |-> "nothing"]

----------------------------------------------------------------------------
(* Tokens.  A DELETE or UPDATE waits while another request's transaction   *)
(* has its row; commit and rollback free the rows.                         *)

BrokenUnlocked(lock, r) == lock
Unlocked(lock, r) == [t \in Tokens |-> IF lock[t] = r THEN NoRequest ELSE lock[t]]
End(r) ==
    /\ req' = [req EXCEPT ![r] = Idle]
    /\ activeLock' = Unlocked(activeLock, r)
    /\ refreshLock' = Unlocked(refreshLock, r)

\* The rows that r's next statement has to lock and that others hold.
Blockers(r) ==
    LET t == req[r].token IN
    {q \in Requests \ {r} :
        \/ req[r].at \in {"deactivate", "delete"} /\ t \in active /\ activeLock[t] = q
        \/ req[r].at = "revoke" /\ refresh[t] = "valid" /\ refreshLock[t] = q
        \/ req[r].at = "issue" /\ \E u \in active \cap expired : activeLock[u] = q}

\* A token still active, of a user who exists: get_user_for_claims.
Authentic(t) == t \in active \ expired

\* Bound: a session is asked for while a token is left for it.
TokenLeft ==
    Cardinality({t \in Tokens : refresh[t] = "none"})
      > Cardinality({r \in Requests : req[r].at \in {"deactivate", "issue"}})

SignIn(r) ==
    /\ req[r] = Idle /\ standing /\ TokenLeft
    /\ req' = [req EXCEPT ![r] = [at |-> "issue", token |-> NoToken]]
    /\ UNCHANGED <<active, refresh, family, standing, activeLock, refreshLock>>

\* rotate: SELECT ... FOR UPDATE.  Any refresh token ever issued may be sent;
\* one that is not valid is refused, which changes nothing.
BrokenValid(t) == refresh[t] # "none"
Valid(t) == refresh[t] = "valid"
SelectRefresh(r, t) ==
    /\ req[r] = Idle /\ refreshLock[t] = NoRequest /\ refresh[t] # "none"
    /\ Valid(t) /\ TokenLeft
    /\ refreshLock' = [refreshLock EXCEPT ![t] = r]
    /\ req' = [req EXCEPT ![r] = [at |-> "deactivate", token |-> t]]
    /\ UNCHANGED <<active, refresh, family, standing, activeLock>>

DeleteRow(r) ==
    LET t == req[r].token IN
    /\ Blockers(r) = {}
    /\ activeLock' = IF t \in active THEN [activeLock EXCEPT ![t] = r] ELSE activeLock

DeactivateRotated(r) ==
    /\ req[r].at = "deactivate"
    /\ DeleteRow(r)
    /\ req' = [req EXCEPT ![r].at = IF standing THEN "issue" ELSE "refused"]
    /\ UNCHANGED <<active, refresh, family, standing, refreshLock>>

\* The user is no longer active: the old pair is revoked and none is issued.
CommitRefusal(r) ==
    /\ req[r].at = "refused"
    /\ active' = active \ {req[r].token}
    /\ refresh' = [refresh EXCEPT ![req[r].token] = "revoked"]
    /\ End(r)
    /\ UNCHANGED <<family, standing>>

\* issue: the rows of expired tokens are swept, the old pair's revocation and
\* the new pair are committed together.
Revoked(old) == IF old = NoToken THEN refresh ELSE [refresh EXCEPT ![old] = "revoked"]
Issue(r) ==
    LET old == req[r].token IN
    /\ req[r].at = "issue" /\ Blockers(r) = {}
    /\ \E t \in Tokens :
        /\ refresh[t] = "none"
        /\ active' = (active \ (expired \cup {old})) \cup {t}
        /\ refresh' = [Revoked(old) EXCEPT ![t] = "valid"]
        /\ family' = [family EXCEPT ![t] = IF old = NoToken THEN t ELSE family[old]]
    /\ End(r)
    /\ UNCHANGED <<standing>>

AskLogout(r, t) ==
    /\ req[r] = Idle /\ Authentic(t)
    /\ req' = [req EXCEPT ![r] = [at |-> "delete", token |-> t]]
    /\ UNCHANGED <<active, refresh, family, standing, activeLock, refreshLock>>

DeleteActive(r) ==
    /\ req[r].at = "delete"
    /\ DeleteRow(r)
    /\ req' = [req EXCEPT ![r].at = "revoke"]
    /\ UNCHANGED <<active, refresh, family, standing, refreshLock>>

RevokePair(r) ==
    LET t == req[r].token IN
    /\ req[r].at = "revoke" /\ Blockers(r) = {}
    /\ refreshLock' = IF Valid(t) THEN [refreshLock EXCEPT ![t] = r] ELSE refreshLock
    /\ req' = [req EXCEPT ![r].at = "commit"]
    /\ UNCHANGED <<active, refresh, family, standing, activeLock>>

\* After the commit disconnect_token hands close_token to the event loop; if it
\* cannot, that is logged.
CommitLogout(r) ==
    LET t == req[r].token IN
    /\ req[r].at = "commit"
    /\ active' = active \ {t}
    /\ refresh' = Revoked(t)
    /\ closing' \in {closing, closing \cup {t}}
    /\ End(r)
    /\ UNCHANGED <<family, standing>>

\* A logout locks a token's active row before its refresh row and a rotation
\* the other way round: PostgreSQL fails one of two that wait for each other.
DeadlockVictim(r) ==
    /\ \E q \in Blockers(r) : r \in Blockers(q)
    /\ End(r)
    /\ UNCHANGED <<active, refresh, family, standing>>

Suspend ==
    /\ standing' = ~standing
    /\ UNCHANGED <<active, refresh, family, activeLock, refreshLock, req>>

RotationStep(r) == DeactivateRotated(r) \/ CommitRefusal(r) \/ Issue(r)
LogoutStep(r)   == DeleteActive(r) \/ RevokePair(r)
TokenNext ==
    /\ \/ \E r \in Requests :
            \/ SignIn(r) \/ RotationStep(r) \/ LogoutStep(r) \/ DeadlockVictim(r)
            \/ \E t \in Tokens : SelectRefresh(r, t) \/ AskLogout(r, t)
       \/ Suspend
    /\ UNCHANGED <<socketVars, expired, closing>>

----------------------------------------------------------------------------
(* Sockets.                                                                *)

\* The token is checked in a worker thread; a refusal leaves nothing behind.
Authenticate(c, t) ==
    /\ socket[c] = Unopened
    /\ Authentic(t) /\ standing
    /\ socket' = [socket EXCEPT ![c] = [at |-> "checked", token |-> t]]
    /\ UNCHANGED <<registered, told, view, crossed, missed>>

\* The first socket of the user announces that the user is online.
BrokenRegister(c) ==
    /\ socket[c].at = "checked"
    /\ socket' = [socket EXCEPT ![c].at = IF registered = {} THEN "arriving" ELSE "serving"]
    /\ registered' = registered \cup {c}
    /\ UNCHANGED <<told, view, crossed, missed>>
Register(c) ==
    /\ socket[c].at = "checked"
    /\ IF Cardinality(registered) >= MaxConnections
       THEN /\ socket' = [socket EXCEPT ![c].at = "ended"]
            /\ UNCHANGED registered
       ELSE /\ socket' = [socket EXCEPT ![c].at = IF registered = {} THEN "arriving" ELSE "serving"]
            /\ registered' = registered \cup {c}
    /\ UNCHANGED <<told, view, crossed, missed>>

Unregister(C) == registered' = registered \ C

\* PresenceService._announce, in a worker thread: describe reads the registry.
BrokenDescribe(c) ==
    /\ socket[c].at \in {"arriving", "leaving"} /\ told[c] = "nothing"
    /\ told' = [told EXCEPT ![c] = IF socket[c].at = "leaving" THEN "offline" ELSE "online"]
    /\ crossed' = (crossed \/ \E d \in Sockets : told[d] # "nothing")
    /\ missed' = FALSE
    /\ UNCHANGED <<socket, registered, view>>
Describe(c) ==
    /\ socket[c].at \in {"arriving", "leaving"} /\ told[c] = "nothing"
    /\ told' = [told EXCEPT ![c] = IF registered = {} THEN "offline" ELSE "online"]
    /\ crossed' = (crossed \/ \E d \in Sockets : told[d] # "nothing")
    /\ missed' = FALSE
    /\ UNCHANGED <<socket, registered, view>>

\* Told or not, the handler goes on.
AfterAnnouncement(c) ==
    /\ told' = [told EXCEPT ![c] = "nothing"]
    /\ socket' = [socket EXCEPT ![c].at = IF @ = "arriving" THEN "serving" ELSE "ended"]
    /\ UNCHANGED <<registered, crossed>>

Publish(c) ==
    /\ told[c] # "nothing"
    /\ view' = told[c]
    /\ AfterAnnouncement(c)
    /\ UNCHANGED missed

\* No announcement, before or after describing: a statement or the publication
\* fails, which is logged, the user is gone, or the partner is not connected or
\* may not see him.
AnnounceFails(c) ==
    /\ socket[c].at \in {"arriving", "leaving"}
    /\ missed' = TRUE
    /\ AfterAnnouncement(c)
    /\ UNCHANGED view

\* A send fails or times out: the connection is dropped from the registry
\* while its handler goes on.
Drop(c) ==
    /\ c \in registered
    /\ Unregister({c})
    /\ UNCHANGED <<socket, told, view, crossed, missed>>

\* The serving loop ends: the client is gone, idle or wrong, or the token has
\* expired; the last socket to leave announces that the user is offline.
Leave(c) ==
    /\ socket[c].at = "serving"
    /\ Unregister({c})
    /\ socket' = [socket EXCEPT ![c].at = IF registered \ {c} = {} THEN "leaving" ELSE "ended"]
    /\ UNCHANGED <<told, view, crossed, missed>>

OfToken(t) == {c \in registered : socket[c].token = t}
CloseToken(t) ==
    /\ t \in closing
    /\ closing' = closing \ {t}
    /\ Unregister(OfToken(t))
    /\ UNCHANGED <<tokenVars, expired, socket, told, view, crossed, missed>>

SocketStep(c) == Register(c) \/ Describe(c) \/ Publish(c) \/ AnnounceFails(c)
SocketNext ==
    /\ \E c \in Sockets :
        \/ SocketStep(c) \/ Drop(c) \/ Leave(c)
        \/ \E t \in Tokens : Authenticate(c, t)
    /\ UNCHANGED <<tokenVars, expired, closing>>

Expire(t) ==
    /\ refresh[t] # "none" /\ t \notin expired
    /\ expired' = expired \cup {t}
    /\ UNCHANGED <<tokenVars, socketVars, closing>>

\* The server's one process ends and starts again.
Restart ==
    /\ req' = [r \in Requests |-> Idle]
    /\ activeLock' = [t \in Tokens |-> NoRequest]
    /\ refreshLock' = [t \in Tokens |-> NoRequest]
    /\ closing' = {}
    /\ registered' = {}
    /\ socket' = [c \in Sockets |-> IF socket[c] = Unopened THEN Unopened
                                    ELSE [socket[c] EXCEPT !.at = "ended"]]
    /\ told' = [c \in Sockets |-> "nothing"]
    /\ view' = "offline" /\ missed' = FALSE
    /\ UNCHANGED <<active, refresh, family, standing, expired, crossed>>

Logout == (\E r \in Requests : CommitLogout(r)) /\ UNCHANGED <<socketVars, expired>>

Next ==
    \/ TokenNext \/ Logout \/ SocketNext \/ Restart
    \/ \E t \in Tokens : CloseToken(t) \/ Expire(t)

Spec == Init /\ [][Next]_vars

\* What must happen, if the process lives: worker threads and the event loop
\* run what they are given, a token's time passes, and the serving loop of an
\* expired token ends at the latest when its receive times out.
Obliged(c) ==
    \/ SocketStep(c) /\ UNCHANGED <<tokenVars, expired, closing>>
    \/ socket[c].token \in expired /\ Leave(c) /\ UNCHANGED <<tokenVars, expired, closing>>
Granted(r) ==
    \/ (RotationStep(r) \/ LogoutStep(r) \/ DeadlockVictim(r)) /\ UNCHANGED <<socketVars, expired, closing>>
    \/ CommitLogout(r) /\ UNCHANGED <<socketVars, expired>>
Fairness ==
    /\ \A c \in Sockets : WF_vars(Obliged(c))
    /\ \A r \in Requests : SF_vars(Granted(r))
    /\ \A t \in Tokens : WF_vars(Expire(t)) /\ WF_vars(CloseToken(t))
FairSpec == Spec /\ Fairness

----------------------------------------------------------------------------
\* However rotations, logouts, crashes and deadlocks interleave, a sign-in has
\* at most one refresh token that still works: a refresh token works only once.
OneLivePair ==
    \A t, u \in Tokens :
        (refresh[t] = "valid" /\ refresh[u] = "valid" /\ family[t] = family[u]) => t = u

\* A logout or rotation revokes both tokens of a pair or neither: no access
\* token goes on working without its refresh token, nor the other way round.
PairsRevokedTogether ==
    \A t \in Tokens \ expired : t \in active <=> refresh[t] = "valid"

\* What is promised of a user's tokens.
TokensPaired == OneLivePair /\ PairsRevokedTogether

\* The registry holds only sockets whose handlers run: none is sent to, or
\* counted as the user being online, once its handler has left.
RegisteredAreLive ==
    \A c \in registered : socket[c].at \in {"arriving", "serving"}

\* At rest the partner was last told the truth, unless two announcements were
\* under way at once, each made from the registry as it is and published later, or
\* the last one did not reach him: nothing repeats it.
AtRest == \A c \in Sockets :
    socket[c].at \in {"none", "checked", "ended"} \/ (socket[c].at = "serving" /\ c \in registered)
PresenceAtRest == AtRest /\ ~crossed /\ ~missed => (view = "online" <=> registered # {})

\* What is promised of a user's sockets.
PresenceTrue == RegisteredAreLive /\ PresenceAtRest

\* Logouts and rotations that wait for each other come to an end, and so does
\* every socket, when its token's time is over if not before.
RequestsEnd    == \A r \in Requests : req[r] # Idle ~> req[r] = Idle
SocketsEnd     == \A c \in Sockets : socket[c] # Unopened ~> socket[c].at = "ended"
EverythingEnds == RequestsEnd /\ SocketsEnd
----------------------------------------------------------------------------
(* The inductive invariant. *)

\* Every request after its first statement is about a token that was issued.  A
\* rotation holds the row of its refresh token, which stays valid, until it ends;
\* a logout holds it from its second statement, unless it found it revoked.
Rotating(r) == req[r].at \in {"deactivate", "issue", "refused"} /\ req[r].token # NoToken
OnToken(r)  == req[r].at \in {"deactivate", "refused", "delete", "revoke", "commit"}
RowsHeld ==
    \A r \in Requests :
        /\ OnToken(r) => req[r].token \in Tokens /\ refresh[req[r].token] # "none"
        /\ Rotating(r) => refresh[req[r].token] = "valid" /\ refreshLock[req[r].token] = r
        /\ req[r].at = "commit" /\ refresh[req[r].token] = "valid" => refreshLock[req[r].token] = r

\* An active token is one of a valid pair, also past its time, and every issued
\* token descends from an issued one.
ActiveValid == \A t \in active : refresh[t] = "valid"
Descend     == \A t \in Tokens : refresh[t] # "none" => family[t] \in Tokens /\ refresh[family[t]] # "none"

TokensInv == RowsHeld /\ ActiveValid /\ Descend /\ TokensPaired

\* Only handlers that arrive or leave describe, and two at once are noted.
Announcing(c)  == socket[c].at \in {"arriving", "leaving"}
ToDescribe     == {c \in Sockets : Announcing(c) /\ told[c] = "nothing"}
DescribersKnown ==
    /\ \A c \in Sockets : told[c] # "nothing" => Announcing(c)
    /\ \A c, d \in Sockets : told[c] # "nothing" /\ told[d] # "nothing" /\ ~crossed => c = d

\* What the partner is going to be told last by those that have described.
LastTold(presence) ==
    /\ \A c \in Sockets : told[c] \in {"nothing", presence}
    /\ (\A c \in Sockets : told[c] = "nothing") => view = presence

\* While a socket is registered its user is told online, or somebody will still
\* describe him; while none is, he is told offline, or somebody will describe him,
\* or a handler whose connection was dropped has still to leave.
Dropped == {c \in Sockets : socket[c].at \in {"arriving", "serving"} /\ c \notin registered}
Announced ==
    ~crossed /\ ~missed =>
        /\ registered # {} /\ ToDescribe = {} => LastTold("online")
        /\ registered = {} /\ ToDescribe = {} /\ Dropped = {} => LastTold("offline")

SocketsInv == IsFiniteSet(registered) /\ RegisteredAreLive /\ DescribersKnown /\ Announced

IInv == TypeOK /\ TokensInv /\ SocketsInv
=============================================================================
