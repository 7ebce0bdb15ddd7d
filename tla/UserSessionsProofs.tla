------------------------- MODULE UserSessionsProofs -------------------------
(***************************************************************************)
(* Proofs about UserSessions for any number of tokens, requests, sockets   *)
(* and connections: type correctness, the pairing of the tokens, and the   *)
(* truth of the presence.                                                  *)
(***************************************************************************)
EXTENDS UserSessions, FiniteSetTheorems, TLAPS

USE DEF tokenVars, socketVars, Idle, Unopened

----------------------------------------------------------------------------
(* Types. *)

LEMMA UnlockedType ==
    ASSUME NEW lock \in [Tokens -> Requests \cup {NoRequest}], NEW r \in Requests
    PROVE  Unlocked(lock, r) \in [Tokens -> Requests \cup {NoRequest}]
BY DEF Unlocked

LEMMA EndTypes ==
    ASSUME TypeOK, NEW r \in Requests, End(r)
    PROVE  /\ activeLock' \in [Tokens -> Requests \cup {NoRequest}]
           /\ refreshLock' \in [Tokens -> Requests \cup {NoRequest}]
           /\ req' \in [Requests -> [at: {"idle", "deactivate", "issue", "refused", "delete", "revoke", "commit"},
                                     token: Tokens \cup {NoToken}]]
BY UnlockedType DEF TypeOK, End

LEMMA TokenTypes ==
    ASSUME TypeOK, TokenNext
    PROVE  TypeOK'
<1> SUFFICES ASSUME UNCHANGED <<socketVars, expired, closing>>
             PROVE  TypeOK'
  BY DEF TokenNext
<1>1. ASSUME NEW r \in Requests, SignIn(r)
      PROVE  TypeOK'
  BY <1>1 DEF TypeOK, SignIn
<1>2. ASSUME NEW r \in Requests, NEW t \in Tokens, SelectRefresh(r, t)
      PROVE  TypeOK'
  BY <1>2 DEF TypeOK, SelectRefresh
<1>3. ASSUME NEW r \in Requests, DeactivateRotated(r)
      PROVE  TypeOK'
  BY <1>3 DEF TypeOK, DeactivateRotated, DeleteRow
<1>4. ASSUME NEW r \in Requests, CommitRefusal(r)
      PROVE  TypeOK'
  BY <1>4, EndTypes DEF TypeOK, CommitRefusal
<1>5. ASSUME NEW r \in Requests, Issue(r)
      PROVE  TypeOK'
  <2> DEFINE old == req[r].token
  <2>1. PICK t \in Tokens :
            /\ active' = (active \ (expired \cup {old})) \cup {t}
            /\ refresh' = [Revoked(old) EXCEPT ![t] = "valid"]
            /\ family' = [family EXCEPT ![t] = IF old = NoToken THEN t ELSE family[old]]
    BY <1>5 DEF Issue
  <2>2. old \in Tokens \cup {NoToken}
    BY DEF TypeOK
  <2>3. family' \in [Tokens -> Tokens \cup {NoToken}]
    BY <2>1, <2>2 DEF TypeOK
  <2>4. refresh' \in [Tokens -> {"none", "valid", "revoked"}]
    BY <2>1, <2>2 DEF TypeOK, Revoked
  <2> QED
    BY <1>5, <2>1, <2>3, <2>4, EndTypes DEF TypeOK, Issue
<1>6. ASSUME NEW r \in Requests, NEW t \in Tokens, AskLogout(r, t)
      PROVE  TypeOK'
  BY <1>6 DEF TypeOK, AskLogout
<1>7. ASSUME NEW r \in Requests, DeleteActive(r)
      PROVE  TypeOK'
  BY <1>7 DEF TypeOK, DeleteActive, DeleteRow
<1>8. ASSUME NEW r \in Requests, RevokePair(r)
      PROVE  TypeOK'
  BY <1>8 DEF TypeOK, RevokePair
<1>9. ASSUME NEW r \in Requests, DeadlockVictim(r)
      PROVE  TypeOK'
  BY <1>9, EndTypes DEF TypeOK, DeadlockVictim
<1>10. CASE Suspend
  BY <1>10 DEF TypeOK, Suspend
<1> QED
  BY <1>1, <1>2, <1>3, <1>4, <1>5, <1>6, <1>7, <1>8, <1>9, <1>10
     DEF TokenNext, RotationStep, LogoutStep

LEMMA LogoutTypes ==
    ASSUME TypeOK, RowsHeld, Logout
    PROVE  TypeOK'
<1>1. PICK r \in Requests : CommitLogout(r)
  BY DEF Logout
<1>2. req[r].token \in Tokens
  BY <1>1 DEF CommitLogout, RowsHeld, OnToken
<1>3. refresh' \in [Tokens -> {"none", "valid", "revoked"}]
  BY <1>1, <1>2 DEF TypeOK, CommitLogout, Revoked
<1> QED
  BY <1>1, <1>2, <1>3, EndTypes DEF TypeOK, CommitLogout, Logout

(* The registry stays finite and within its limit. *)
LEMMA Smaller ==
    ASSUME IsFiniteSet(registered), Cardinality(registered) <= MaxConnections,
           registered' \subseteq registered
    PROVE  IsFiniteSet(registered') /\ Cardinality(registered') <= MaxConnections
BY FS_Subset, FS_CardinalityType, SessionsAssumption

LEMMA Larger ==
    ASSUME IsFiniteSet(registered), NEW c, registered' = registered \cup {c},
           ~ (Cardinality(registered) >= MaxConnections)
    PROVE  IsFiniteSet(registered') /\ Cardinality(registered') <= MaxConnections
<1>1. /\ IsFiniteSet(registered \cup {c})
      /\ Cardinality(registered \cup {c}) \in {Cardinality(registered), Cardinality(registered) + 1}
  BY FS_AddElement
<1>2. Cardinality(registered) \in Nat /\ MaxConnections \in Nat
  BY FS_CardinalityType, SessionsAssumption
<1> QED
  BY <1>1, <1>2

LEMMA SocketTypes ==
    ASSUME TypeOK, IsFiniteSet(registered),
           SocketNext \/ \E t \in Tokens : CloseToken(t)
    PROVE  TypeOK' /\ IsFiniteSet(registered')
<1>1. ASSUME NEW c \in Sockets, NEW t \in Tokens, Authenticate(c, t),
             UNCHANGED <<tokenVars, expired, closing>>
      PROVE  TypeOK' /\ IsFiniteSet(registered')
  BY <1>1 DEF TypeOK, Authenticate
<1>2. ASSUME NEW c \in Sockets, Register(c), UNCHANGED <<tokenVars, expired, closing>>
      PROVE  TypeOK' /\ IsFiniteSet(registered')
  <2>1. IsFiniteSet(registered') /\ Cardinality(registered') <= MaxConnections
    BY <1>2, Larger DEF Register, TypeOK
  <2>2. registered' \subseteq Sockets
    BY <1>2 DEF TypeOK, Register
  <2>3. socket' \in [Sockets -> [at: {"none", "checked", "arriving", "serving", "leaving", "ended"},
                                token: Tokens \cup {NoToken}]]
    BY <1>2 DEF TypeOK, Register
  <2> QED
    BY <1>2, <2>1, <2>2, <2>3 DEF TypeOK, Register
<1>3. ASSUME NEW c \in Sockets, Describe(c), UNCHANGED <<tokenVars, expired, closing>>
      PROVE  TypeOK' /\ IsFiniteSet(registered')
  <2>1. crossed' \in BOOLEAN
    BY <1>3 DEF TypeOK, Describe
  <2> QED
    BY <1>3, <2>1 DEF TypeOK, Describe
<1>4. ASSUME NEW c \in Sockets, Publish(c), UNCHANGED <<tokenVars, expired, closing>>
      PROVE  TypeOK' /\ IsFiniteSet(registered')
  BY <1>4 DEF TypeOK, Publish, AfterAnnouncement
<1>5. ASSUME NEW c \in Sockets, Drop(c), UNCHANGED <<tokenVars, expired, closing>>
      PROVE  TypeOK' /\ IsFiniteSet(registered')
  BY <1>5, Smaller DEF TypeOK, Drop, Unregister
<1>6. ASSUME NEW c \in Sockets, Leave(c), UNCHANGED <<tokenVars, expired, closing>>
      PROVE  TypeOK' /\ IsFiniteSet(registered')
  BY <1>6, Smaller DEF TypeOK, Leave, Unregister
<1>7. ASSUME NEW t \in Tokens, CloseToken(t)
      PROVE  TypeOK' /\ IsFiniteSet(registered')
  BY <1>7, Smaller DEF TypeOK, CloseToken, Unregister
<1>8. ASSUME NEW c \in Sockets, AnnounceFails(c), UNCHANGED <<tokenVars, expired, closing>>
      PROVE  TypeOK' /\ IsFiniteSet(registered')
  BY <1>8 DEF TypeOK, AnnounceFails, AfterAnnouncement
<1> QED
  BY <1>1, <1>2, <1>3, <1>4, <1>5, <1>6, <1>7, <1>8 DEF SocketNext, SocketStep

LEMMA RestartTypes ==
    ASSUME TypeOK, Restart
    PROVE  TypeOK' /\ IsFiniteSet(registered')
<1>1. IsFiniteSet({}) /\ Cardinality({}) = 0
  BY FS_EmptySet
<1>2. socket' \in [Sockets -> [at: {"none", "checked", "arriving", "serving", "leaving", "ended"},
                              token: Tokens \cup {NoToken}]]
  BY DEF TypeOK, Restart
<1>3. crossed' \in BOOLEAN /\ missed' \in BOOLEAN
  BY DEF TypeOK, Restart
<1> QED
  BY <1>1, <1>2, <1>3, SessionsAssumption DEF TypeOK, Restart

LEMMA TypeStep ==
    ASSUME TypeOK, RowsHeld, IsFiniteSet(registered), [Next]_vars
    PROVE  TypeOK' /\ IsFiniteSet(registered')
<1>1. CASE TokenNext
  BY <1>1, TokenTypes DEF TokenNext
<1>2. CASE Logout
  BY <1>2, LogoutTypes DEF Logout
<1>3. CASE SocketNext \/ \E t \in Tokens : CloseToken(t)
  BY <1>3, SocketTypes
<1>4. CASE Restart
  BY <1>4, RestartTypes
<1>5. ASSUME NEW t \in Tokens, Expire(t)
      PROVE  TypeOK' /\ IsFiniteSet(registered')
  BY <1>5 DEF TypeOK, Expire
<1>6. CASE UNCHANGED vars
  BY <1>6 DEF TypeOK, vars
<1> QED
  BY <1>1, <1>2, <1>3, <1>4, <1>5, <1>6 DEF Next

----------------------------------------------------------------------------
(* Tokens. *)

(* Where only requests that rotate and log out hold rows, one that ends leaves *)
(* to the others what they hold.                                              *)
LEMMA OthersKeep ==
    ASSUME TypeOK, NEW r \in Requests, End(r)
    PROVE  /\ req'[r].at = "idle"
           /\ \A q \in Requests \ {r} :
                 /\ req'[q] = req[q]
                 /\ \A t \in Tokens : refreshLock[t] = q => refreshLock'[t] = q
<1>1. req'[r].at = "idle" /\ \A q \in Requests \ {r} : req'[q] = req[q]
  BY DEF TypeOK, End
<1>2. ASSUME NEW q \in Requests \ {r}, NEW t \in Tokens, refreshLock[t] = q
      PROVE  refreshLock'[t] = q
  BY <1>2 DEF TypeOK, End, Unlocked
<1> QED
  BY <1>1, <1>2

(* What is true of the tokens stays true while nobody writes their rows. *)
LEMMA PairsKept ==
    ASSUME TokensInv, UNCHANGED <<active, refresh, family, expired>>
    PROVE  ActiveValid' /\ Descend' /\ TokensPaired'
BY DEF TokensInv, ActiveValid, Descend, TokensPaired, OneLivePair, PairsRevokedTogether

LEMMA SelectKeeps ==
    ASSUME TypeOK, TokensInv, NEW r \in Requests, NEW t \in Tokens, SelectRefresh(r, t)
    PROVE  RowsHeld'
<1>1. NoRequest \notin Requests /\ NoToken \notin Tokens
  BY SessionsAssumption
<1>2. req'[r] = [at |-> "deactivate", token |-> t] /\ refreshLock'[t] = r /\ refresh'[t] = "valid"
  BY DEF TypeOK, SelectRefresh, Valid
<1>3. ASSUME NEW q \in Requests \ {r}
      PROVE  /\ req'[q] = req[q]
             /\ \A u \in Tokens : refreshLock[u] = q => refreshLock'[u] = q
  BY <1>1 DEF TypeOK, SelectRefresh
<1>4. \A q \in Requests : req[q].token \in Tokens \cup {NoToken}
  BY DEF TypeOK
<1>5. refresh' = refresh
  BY DEF SelectRefresh
<1> QED
  BY <1>1, <1>2, <1>3, <1>4, <1>5 DEF TokensInv, RowsHeld, OnToken, Rotating

(* A statement that goes on with the same token and writes no refresh row. *)
LEMMA GoesOn ==
    ASSUME TypeOK, TokensInv, NEW r \in Requests, NEW stage,
           \/ req[r].at = "deactivate" /\ stage \in {"issue", "refused"}
           \/ req[r].at = "delete" /\ stage = "revoke",
           req' = [req EXCEPT ![r].at = stage],
           UNCHANGED <<refresh, refreshLock>>
    PROVE  RowsHeld'
<1>1. req'[r].token = req[r].token /\ req'[r].at = stage
  BY DEF TypeOK
<1>2. \A q \in Requests \ {r} : req'[q] = req[q]
  BY DEF TypeOK
<1> QED
  BY <1>1, <1>2 DEF TokensInv, RowsHeld, OnToken, Rotating

LEMMA RevokeKeeps ==
    ASSUME TypeOK, TokensInv, NEW r \in Requests, RevokePair(r)
    PROVE  RowsHeld'
<1> DEFINE t == req[r].token
<1>1. t \in Tokens /\ refresh[t] # "none"
  BY DEF RevokePair, TokensInv, RowsHeld, OnToken
<1>2. NoRequest \notin Requests /\ NoToken \notin Tokens
  BY SessionsAssumption
<1>3. refresh[t] = "valid" => refreshLock'[t] = r /\ \A q \in Requests \ {r} : refreshLock[t] # q
  BY <1>1 DEF TypeOK, RevokePair, Blockers, Valid
<1>4. req'[r].token = t /\ req'[r].at = "commit" /\ refresh' = refresh
  BY DEF TypeOK, RevokePair
<1>5. ASSUME NEW q \in Requests \ {r}
      PROVE  /\ req'[q] = req[q]
             /\ \A u \in Tokens : refreshLock[u] = q => refreshLock'[u] = q
  <2>1. req'[q] = req[q]
    BY DEF TypeOK, RevokePair
  <2>2. ASSUME NEW u \in Tokens, refreshLock[u] = q
        PROVE  refreshLock'[u] = q
    <3>1. CASE refresh[t] = "valid"
      BY <2>2, <3>1, <1>1, <1>3 DEF TypeOK, RevokePair
    <3>2. CASE refresh[t] # "valid"
      BY <2>2, <3>2 DEF RevokePair, Valid
    <3> QED
      BY <3>1, <3>2
  <2> QED
    BY <2>1, <2>2
<1>6. \A q \in Requests : req[q].token \in Tokens \cup {NoToken}
  BY DEF TypeOK
<1> QED
  BY <1>1, <1>2, <1>3, <1>4, <1>5, <1>6 DEF TokensInv, RowsHeld, OnToken, Rotating

(* A pair is revoked by the request that holds its refresh token's row. *)
LEMMA RevocationKeeps ==
    ASSUME TypeOK, TokensInv, NEW r \in Requests, End(r),
           NEW t \in Tokens, refresh[t] # "none",
           refresh[t] = "valid" => refreshLock[t] = r,
           active' = active \ {t}, refresh' = [refresh EXCEPT ![t] = "revoked"],
           UNCHANGED <<family, expired>>
    PROVE  TokensInv'
<1>1. \A u \in Tokens \ {t} : refresh'[u] = refresh[u]
  BY DEF TypeOK
<1>2. refresh'[t] = "revoked"
  BY DEF TypeOK
<1>3. RowsHeld'
  <2>1. ASSUME NEW q \in Requests \ {r}, refresh[t] = "valid"
        PROVE  refreshLock[t] # q
    BY <2>1
  <2>2. \A q \in Requests : req[q].token \in Tokens \cup {NoToken}
    BY DEF TypeOK
  <2> QED
    BY <1>1, <1>2, <2>1, <2>2, OthersKeep DEF TokensInv, RowsHeld, OnToken, Rotating
<1>4. ActiveValid'
  BY <1>1, <1>2 DEF TypeOK, TokensInv, ActiveValid
<1>5. Descend'
  BY <1>1, <1>2 DEF TokensInv, Descend
<1>6. OneLivePair'
  BY <1>1, <1>2 DEF TokensInv, TokensPaired, OneLivePair
<1>7. PairsRevokedTogether'
  BY <1>1, <1>2 DEF TokensInv, TokensPaired, PairsRevokedTogether
<1> QED
  BY <1>3, <1>4, <1>5, <1>6, <1>7 DEF TokensInv, TokensPaired

(* The new pair is the only valid one of its sign-in: none descends from a new *)
(* token, and of the sign-in of the old one there was no other.               *)
LEMMA IssueKeeps ==
    ASSUME TypeOK, TokensInv, NEW r \in Requests, Issue(r), UNCHANGED expired
    PROVE  TokensInv'
<1> DEFINE old == req[r].token
<1>1. PICK t \in Tokens :
          /\ refresh[t] = "none"
          /\ active' = (active \ (expired \cup {old})) \cup {t}
          /\ refresh' = [Revoked(old) EXCEPT ![t] = "valid"]
          /\ family' = [family EXCEPT ![t] = IF old = NoToken THEN t ELSE family[old]]
  BY DEF Issue
<1>2. old \in Tokens \cup {NoToken} /\ NoToken \notin Tokens
  BY SessionsAssumption DEF TypeOK
<1>3. old # NoToken => refresh[old] = "valid" /\ refreshLock[old] = r
  BY DEF Issue, TokensInv, RowsHeld, Rotating
<1>4. refresh'[t] = "valid" /\ (old # NoToken => old # t /\ refresh'[old] = "revoked")
  BY <1>1, <1>2, <1>3 DEF TypeOK, Revoked
<1>5. ASSUME NEW u \in Tokens, u # t, u # old
      PROVE  refresh'[u] = refresh[u]
  BY <1>1, <1>2, <1>5 DEF TypeOK, Revoked
<1>6. \A u \in Tokens \ {t} : family'[u] = family[u]
  BY <1>1 DEF TypeOK
<1>7. family'[t] = IF old = NoToken THEN t ELSE family[old]
  BY <1>1 DEF TypeOK
<1>8. RowsHeld'
  <2>1. ASSUME NEW q \in Requests \ {r}, old # NoToken
        PROVE  refreshLock[old] # q
    BY <1>3, <2>1
  <2>2. \A q \in Requests : req[q].token \in Tokens \cup {NoToken}
    BY DEF TypeOK
  <2>3. End(r)
    BY DEF Issue
  <2> QED
    BY <1>1, <1>2, <1>4, <1>5, <2>1, <2>2, <2>3, OthersKeep DEF TokensInv, RowsHeld, OnToken, Rotating
<1>9. ActiveValid'
  <2>1. active \subseteq Tokens
    BY DEF TypeOK
  <2> QED
    BY <1>1, <1>4, <1>5, <2>1 DEF TokensInv, ActiveValid
<1>10. Descend'
  <2>1. family'[t] \in Tokens /\ refresh'[family'[t]] # "none"
    <3>1. CASE old = NoToken
      BY <3>1, <1>7, <1>4
    <3>2. CASE old # NoToken
      <4>1. family[old] \in Tokens /\ refresh[family[old]] # "none"
        BY <3>2, <1>2, <1>3 DEF TokensInv, Descend
      <4> QED
        BY <3>2, <4>1, <1>4, <1>5, <1>7
    <3> QED
      BY <3>1, <3>2
  <2>2. ASSUME NEW u \in Tokens, u # t, refresh'[u] # "none"
        PROVE  family'[u] \in Tokens /\ refresh'[family'[u]] # "none"
    <3>1. refresh[u] # "none"
      BY <2>2, <1>2, <1>3, <1>5
    <3>2. family[u] \in Tokens /\ refresh[family[u]] # "none"
      BY <3>1 DEF TokensInv, Descend
    <3> QED
      BY <3>2, <2>2, <1>2, <1>4, <1>5, <1>6
  <2> QED
    BY <2>1, <2>2 DEF Descend
<1>11. OneLivePair'
  <2>1. ASSUME NEW u \in Tokens, u # t, refresh'[u] = "valid"
        PROVE  family'[u] # family'[t]
    <3>1. u # old /\ refresh[u] = "valid" /\ family'[u] = family[u]
      BY <2>1, <1>2, <1>4, <1>5, <1>6
    <3>2. CASE old = NoToken
      BY <3>1, <3>2, <1>1, <1>7 DEF TokensInv, Descend
    <3>3. CASE old # NoToken
      BY <3>1, <3>3, <1>2, <1>3, <1>7 DEF TokensInv, TokensPaired, OneLivePair
    <3> QED
      BY <3>2, <3>3
  <2>2. ASSUME NEW u \in Tokens, NEW v \in Tokens, u # t, v # t,
               refresh'[u] = "valid", refresh'[v] = "valid", family'[u] = family'[v]
        PROVE  u = v
    BY <2>2, <1>2, <1>4, <1>5, <1>6 DEF TokensInv, TokensPaired, OneLivePair
  <2> QED
    BY <2>1, <2>2 DEF OneLivePair
<1>12. PairsRevokedTogether'
  BY <1>1, <1>2, <1>4, <1>5 DEF TokensInv, TokensPaired, PairsRevokedTogether
<1> QED
  BY <1>8, <1>9, <1>10, <1>11, <1>12 DEF TokensInv, TokensPaired

(* A request that starts, or one that ends without a write, is no risk to others. *)
LEMMA StartKeeps ==
    ASSUME TypeOK, TokensInv, NEW r \in Requests, NEW q,
           req' = [req EXCEPT ![r] = q],
           \/ q = [at |-> "issue", token |-> NoToken]
           \/ q.at = "delete" /\ q.token \in Tokens /\ refresh[q.token] # "none",
           UNCHANGED <<refresh, refreshLock>>
    PROVE  RowsHeld'
<1>1. req'[r] = q /\ \A s \in Requests \ {r} : req'[s] = req[s]
  BY DEF TypeOK
<1> QED
  BY <1>1 DEF TokensInv, RowsHeld, OnToken, Rotating

LEMMA TokensStep ==
    ASSUME TypeOK, TokensInv, TokenNext
    PROVE  TokensInv'
<1> SUFFICES ASSUME UNCHANGED <<socketVars, expired, closing>>
             PROVE  TokensInv'
  BY DEF TokenNext
<1>1. ASSUME NEW r \in Requests, SignIn(r)
      PROVE  TokensInv'
  BY <1>1, StartKeeps, PairsKept DEF SignIn, TokensInv
<1>2. ASSUME NEW r \in Requests, NEW t \in Tokens, SelectRefresh(r, t)
      PROVE  TokensInv'
  BY <1>2, SelectKeeps, PairsKept DEF SelectRefresh, TokensInv
<1>3. ASSUME NEW r \in Requests, DeactivateRotated(r)
      PROVE  TokensInv'
  <2>1. CASE standing
    BY <1>3, <2>1, GoesOn, PairsKept DEF DeactivateRotated, TokensInv
  <2>2. CASE ~standing
    BY <1>3, <2>2, GoesOn, PairsKept DEF DeactivateRotated, TokensInv
  <2> QED
    BY <2>1, <2>2
<1>4. ASSUME NEW r \in Requests, CommitRefusal(r)
      PROVE  TokensInv'
  <2>1. /\ req[r].token \in Tokens /\ refresh[req[r].token] = "valid"
        /\ refreshLock[req[r].token] = r
    BY <1>4, SessionsAssumption DEF CommitRefusal, TokensInv, RowsHeld, OnToken, Rotating
  <2> QED
    BY <1>4, <2>1, RevocationKeeps DEF CommitRefusal
<1>5. ASSUME NEW r \in Requests, Issue(r)
      PROVE  TokensInv'
  BY <1>5, IssueKeeps
<1>6. ASSUME NEW r \in Requests, NEW t \in Tokens, AskLogout(r, t)
      PROVE  TokensInv'
  <2>1. refresh[t] # "none"
    BY <1>6 DEF AskLogout, Authentic, TokensInv, ActiveValid
  <2> QED
    BY <1>6, <2>1, StartKeeps, PairsKept DEF AskLogout, TokensInv
<1>7. ASSUME NEW r \in Requests, DeleteActive(r)
      PROVE  TokensInv'
  BY <1>7, GoesOn, PairsKept DEF DeleteActive, TokensInv
<1>8. ASSUME NEW r \in Requests, RevokePair(r)
      PROVE  TokensInv'
  BY <1>8, RevokeKeeps, PairsKept DEF RevokePair, TokensInv
<1>9. ASSUME NEW r \in Requests, DeadlockVictim(r)
      PROVE  TokensInv'
  <2>1. End(r) /\ UNCHANGED <<active, refresh, family, expired>>
    BY <1>9 DEF DeadlockVictim
  <2>2. \A q \in Requests : req[q].token \in Tokens \cup {NoToken}
    BY DEF TypeOK
  <2>3. RowsHeld'
    BY <2>1, <2>2, OthersKeep, SessionsAssumption DEF TokensInv, RowsHeld, OnToken, Rotating
  <2> QED
    BY <2>1, <2>3, PairsKept DEF TokensInv
<1>10. CASE Suspend
  BY <1>10, PairsKept DEF Suspend, TokensInv, RowsHeld, OnToken, Rotating
<1> QED
  BY <1>1, <1>2, <1>3, <1>4, <1>5, <1>6, <1>7, <1>8, <1>9, <1>10
     DEF TokenNext, RotationStep, LogoutStep

LEMMA TokensKept ==
    ASSUME TypeOK, TokensInv, [Next]_vars
    PROVE  TokensInv'
<1>1. CASE TokenNext
  BY <1>1, TokensStep
<1>2. CASE Logout
  <2>1. PICK r \in Requests : CommitLogout(r)
    BY <1>2 DEF Logout
  <2>2. /\ req[r].token \in Tokens /\ refresh[req[r].token] # "none"
        /\ refresh[req[r].token] = "valid" => refreshLock[req[r].token] = r
    BY <2>1 DEF CommitLogout, TokensInv, RowsHeld, OnToken
  <2> QED
    BY <1>2, <2>1, <2>2, RevocationKeeps, SessionsAssumption DEF Logout, CommitLogout, Revoked
<1>3. CASE Restart
  <2>1. RowsHeld'
    BY <1>3 DEF Restart, RowsHeld, OnToken, Rotating
  <2> QED
    BY <1>3, <2>1, PairsKept DEF Restart, TokensInv
<1>4. ASSUME NEW t \in Tokens, Expire(t)
      PROVE  TokensInv'
  BY <1>4 DEF Expire, TokensInv, RowsHeld, OnToken, Rotating, ActiveValid, Descend, TokensPaired,
              OneLivePair, PairsRevokedTogether
<1>5. CASE UNCHANGED <<tokenVars, expired>>
  BY <1>5, PairsKept DEF TokensInv, RowsHeld, OnToken, Rotating
<1> QED
  BY <1>1, <1>2, <1>3, <1>4, <1>5 DEF Next, SocketNext, CloseToken, vars

----------------------------------------------------------------------------
(* Sockets. *)

LEMMA LiveKept ==
    ASSUME TypeOK, SocketsInv, SocketNext \/ \E t \in Tokens : CloseToken(t)
    PROVE  RegisteredAreLive' /\ DescribersKnown'
<1>1. ASSUME NEW c \in Sockets, NEW t \in Tokens, Authenticate(c, t)
      PROVE  RegisteredAreLive' /\ DescribersKnown'
  BY <1>1 DEF TypeOK, Authenticate, SocketsInv, RegisteredAreLive, DescribersKnown, Announcing
<1>2. ASSUME NEW c \in Sockets, Register(c)
      PROVE  RegisteredAreLive' /\ DescribersKnown'
  <2>1. /\ registered' \subseteq registered \cup {c} /\ socket'[c].at \in {"ended", "arriving", "serving"}
        /\ c \in registered' => socket'[c].at \in {"arriving", "serving"}
        /\ \A d \in Sockets \ {c} : socket'[d] = socket[d]
        /\ told' = told /\ crossed' = crossed /\ socket[c].at = "checked"
    BY <1>2 DEF TypeOK, Register, SocketsInv, RegisteredAreLive
  <2> QED
    BY <2>1 DEF TypeOK, SocketsInv, RegisteredAreLive, DescribersKnown, Announcing
<1>3. ASSUME NEW c \in Sockets, Describe(c)
      PROVE  RegisteredAreLive' /\ DescribersKnown'
  <2>1. /\ \A d \in Sockets \ {c} : told'[d] = told[d]
        /\ ~crossed' => ~crossed /\ \A d \in Sockets : told[d] = "nothing"
        /\ socket' = socket /\ registered' = registered /\ Announcing(c)
    BY <1>3 DEF TypeOK, Describe, Announcing
  <2> QED
    BY <2>1 DEF SocketsInv, RegisteredAreLive, DescribersKnown, Announcing
<1>4. ASSUME NEW c \in Sockets, Publish(c) \/ AnnounceFails(c)
      PROVE  RegisteredAreLive' /\ DescribersKnown'
  <2>1. /\ told'[c] = "nothing" /\ \A d \in Sockets \ {c} : told'[d] = told[d] /\ socket'[d] = socket[d]
        /\ socket[c].at = "arriving" => socket'[c].at = "serving"
        /\ registered' = registered /\ crossed' = crossed /\ socket[c].at \in {"arriving", "leaving"}
    BY <1>4 DEF TypeOK, Publish, AnnounceFails, AfterAnnouncement, SocketsInv, DescribersKnown, Announcing
  <2> QED
    BY <2>1 DEF TypeOK, SocketsInv, RegisteredAreLive, DescribersKnown, Announcing
<1>5. ASSUME NEW c \in Sockets, Drop(c)
      PROVE  RegisteredAreLive' /\ DescribersKnown'
  BY <1>5 DEF Drop, Unregister, SocketsInv, RegisteredAreLive, DescribersKnown, Announcing
<1>6. ASSUME NEW c \in Sockets, Leave(c)
      PROVE  RegisteredAreLive' /\ DescribersKnown'
  <2>1. /\ \A d \in Sockets \ {c} : socket'[d] = socket[d]
        /\ registered' = registered \ {c} /\ told' = told /\ crossed' = crossed /\ ~Announcing(c)
    BY <1>6 DEF TypeOK, Leave, Unregister, Announcing
  <2> QED
    BY <2>1 DEF TypeOK, SocketsInv, RegisteredAreLive, DescribersKnown, Announcing
<1>7. ASSUME NEW t \in Tokens, CloseToken(t)
      PROVE  RegisteredAreLive' /\ DescribersKnown'
  BY <1>7 DEF CloseToken, Unregister, SocketsInv, RegisteredAreLive, DescribersKnown, Announcing
<1> QED
  BY <1>1, <1>2, <1>3, <1>4, <1>5, <1>6, <1>7 DEF SocketNext, SocketStep

(* Where somebody leaves the registry without being asked, he is a handler    *)
(* whose connection was dropped until his handler leaves, too.                *)
LEMMA UnregisteredAreDropped ==
    ASSUME TypeOK, SocketsInv, registered' \subseteq registered,
           UNCHANGED <<socket, told, view, crossed, missed>>
    PROVE  Announced'
<1>1. ToDescribe' = ToDescribe
  BY DEF ToDescribe, Announcing
<1>2. registered' # {} => registered # {}
  OBVIOUS
<1>3. ASSUME registered' = {}, Dropped' = {}
      PROVE  registered = {} /\ Dropped = {}
  <2>1. registered = {}
    BY <1>3 DEF TypeOK, SocketsInv, RegisteredAreLive, Dropped
  <2> QED
    BY <1>3, <2>1 DEF Dropped
<1>4. ASSUME NEW presence, LastTold(presence)
      PROVE  LastTold(presence)'
  BY <1>4 DEF LastTold
<1> QED
  BY <1>1, <1>2, <1>3, <1>4 DEF SocketsInv, Announced

LEMMA RegisterAnnounces ==
    ASSUME TypeOK, SocketsInv, NEW c \in Sockets, Register(c)
    PROVE  Announced'
<1>1. /\ socket[c].at = "checked" /\ \A d \in Sockets \ {c} : socket'[d] = socket[d]
      /\ UNCHANGED <<told, view, crossed, missed>> /\ told[c] = "nothing"
  BY DEF TypeOK, Register, SocketsInv, DescribersKnown, Announcing
<1>2. \A presence : LastTold(presence) => LastTold(presence)'
  BY <1>1 DEF LastTold
<1>3. CASE registered = {}
  <2>1. registered' = {c} /\ socket'[c].at = "arriving"
    <3>1. Cardinality({}) = 0
      BY FS_EmptySet
    <3> QED
      BY <1>3, <3>1, SessionsAssumption DEF TypeOK, Register
  <2> QED
    BY <1>1, <2>1 DEF Announced, ToDescribe, Announcing
<1>4. CASE registered # {}
  <2>1. registered' # {} /\ ~Announcing(c)' /\ ~Announcing(c)
    BY <1>4, <1>1 DEF TypeOK, Register, Announcing
  <2>2. ToDescribe' = ToDescribe
    BY <1>1, <2>1 DEF ToDescribe, Announcing
  <2> QED
    BY <1>1, <1>2, <1>4, <2>1, <2>2 DEF SocketsInv, Announced
<1> QED
  BY <1>3, <1>4

LEMMA DescribeAnnounces ==
    ASSUME TypeOK, SocketsInv, NEW c \in Sockets, Describe(c)
    PROVE  Announced'
<1>1. /\ told'[c] = IF registered = {} THEN "offline" ELSE "online"
      /\ ~crossed' => \A d \in Sockets : told[d] = "nothing"
      /\ \A d \in Sockets \ {c} : told'[d] = told[d]
      /\ registered' = registered
  BY DEF TypeOK, Describe
<1>2. ~crossed' => LastTold(IF registered = {} THEN "offline" ELSE "online")'
  BY <1>1 DEF LastTold
<1> QED
  BY <1>1, <1>2 DEF Announced

LEMMA PublishAnnounces ==
    ASSUME TypeOK, SocketsInv, NEW c \in Sockets, Publish(c)
    PROVE  Announced'
<1>1. /\ told[c] # "nothing" /\ view' = told[c] /\ told'[c] = "nothing"
      /\ socket[c].at \in {"arriving", "leaving"}
      /\ socket'[c].at = IF socket[c].at = "arriving" THEN "serving" ELSE "ended"
      /\ \A d \in Sockets \ {c} : told'[d] = told[d] /\ socket'[d] = socket[d]
      /\ registered' = registered /\ crossed' = crossed /\ missed' = missed
  BY DEF TypeOK, Publish, AfterAnnouncement, SocketsInv, DescribersKnown, Announcing
<1>2. ToDescribe' = ToDescribe
  BY <1>1 DEF ToDescribe, Announcing
<1>3. Dropped' = Dropped
  <2>1. c \in registered => socket[c].at = "arriving"
    BY <1>1 DEF SocketsInv, RegisteredAreLive
  <2> QED
    BY <1>1, <2>1 DEF Dropped
<1>4. ASSUME NEW presence, LastTold(presence)
      PROVE  LastTold(presence)'
  BY <1>1, <1>4 DEF LastTold
<1> QED
  BY <1>1, <1>2, <1>3, <1>4 DEF SocketsInv, Announced

LEMMA LeaveAnnounces ==
    ASSUME TypeOK, SocketsInv, NEW c \in Sockets, Leave(c)
    PROVE  Announced'
<1>1. /\ socket[c].at = "serving" /\ told[c] = "nothing"
      /\ \A d \in Sockets \ {c} : socket'[d] = socket[d]
      /\ registered' = registered \ {c} /\ UNCHANGED <<told, view, crossed, missed>>
      /\ socket'[c].at = IF registered \ {c} = {} THEN "leaving" ELSE "ended"
  BY DEF TypeOK, Leave, Unregister, SocketsInv, DescribersKnown, Announcing
<1>2. CASE registered \ {c} = {}
  <2>1. c \in ToDescribe'
    BY <1>1, <1>2 DEF ToDescribe, Announcing
  <2> QED
    BY <2>1 DEF Announced
<1>3. CASE registered \ {c} # {}
  <2>1. ToDescribe' = ToDescribe /\ registered # {} /\ registered' # {}
    BY <1>1, <1>3 DEF ToDescribe, Announcing
  <2>2. LastTold("online") => LastTold("online")'
    BY <1>1 DEF LastTold
  <2> QED
    BY <1>1, <2>1, <2>2 DEF SocketsInv, Announced
<1> QED
  BY <1>2, <1>3

LEMMA SocketsStep ==
    ASSUME TypeOK, SocketsInv, SocketNext \/ \E t \in Tokens : CloseToken(t)
    PROVE  RegisteredAreLive' /\ DescribersKnown' /\ Announced'
<1>1. RegisteredAreLive' /\ DescribersKnown'
  BY LiveKept
<1>2. ASSUME NEW c \in Sockets, NEW t \in Tokens, Authenticate(c, t)
      PROVE  Announced'
  <2>1. /\ \A d \in Sockets \ {c} : socket'[d] = socket[d] /\ ~Announcing(c) /\ ~Announcing(c)'
        /\ UNCHANGED <<told, view, crossed, missed, registered>> /\ socket[c].at = "none" /\ socket'[c].at = "checked"
    BY <1>2 DEF TypeOK, Authenticate, Announcing
  <2>2. ToDescribe' = ToDescribe /\ Dropped' = Dropped
    BY <2>1 DEF ToDescribe, Dropped, Announcing
  <2>3. \A presence : LastTold(presence) => LastTold(presence)'
    BY <2>1 DEF LastTold
  <2> QED
    BY <2>1, <2>2, <2>3 DEF SocketsInv, Announced
<1>3. ASSUME NEW c \in Sockets, Drop(c)
      PROVE  Announced'
  BY <1>3, UnregisteredAreDropped DEF Drop, Unregister
<1>4. ASSUME NEW t \in Tokens, CloseToken(t)
      PROVE  Announced'
  BY <1>4, UnregisteredAreDropped DEF CloseToken, Unregister
<1> QED
  BY <1>1, <1>2, <1>3, <1>4, RegisterAnnounces, DescribeAnnounces, PublishAnnounces, LeaveAnnounces
     DEF SocketNext, SocketStep, AnnounceFails, Announced

LEMMA RestartSockets ==
    ASSUME TypeOK, Restart
    PROVE  RegisteredAreLive' /\ DescribersKnown' /\ Announced'
<1>1. RegisteredAreLive' /\ DescribersKnown'
  BY DEF Restart, RegisteredAreLive, DescribersKnown
<1>2. registered' = {} /\ LastTold("offline")'
  BY DEF Restart, LastTold
<1> QED
  BY <1>1, <1>2 DEF Announced

----------------------------------------------------------------------------
LEMMA InitInv == Init => IInv
<1> SUFFICES ASSUME Init
             PROVE  IInv
  OBVIOUS
<1>1. IsFiniteSet({}) /\ Cardinality({}) = 0
  BY FS_EmptySet
<1>2. TypeOK
  <2>1. 0 <= MaxConnections
    BY SessionsAssumption
  <2>2. Cardinality(registered) <= MaxConnections
    BY <1>1, <2>1 DEF Init
  <2> QED
    BY <2>2 DEF Init, TypeOK
<1>3. TokensInv
  BY DEF Init, TokensInv, RowsHeld, OnToken, Rotating, ActiveValid, Descend, TokensPaired,
         OneLivePair, PairsRevokedTogether
<1>4. LastTold("offline") /\ RegisteredAreLive /\ DescribersKnown /\ registered = {}
  BY DEF Init, LastTold, RegisteredAreLive, DescribersKnown
<1> QED
  BY <1>1, <1>2, <1>3, <1>4 DEF IInv, SocketsInv, Announced

LEMMA NextInv == IInv /\ [Next]_vars => IInv'
<1> SUFFICES ASSUME IInv, [Next]_vars
             PROVE  IInv'
  OBVIOUS
<1>1. TypeOK' /\ IsFiniteSet(registered')
  BY TypeStep DEF IInv, TokensInv, SocketsInv
<1>2. TokensInv'
  BY TokensKept DEF IInv
<1>3. RegisteredAreLive' /\ DescribersKnown' /\ Announced'
  <2>1. CASE SocketNext \/ \E t \in Tokens : CloseToken(t)
    BY <2>1, SocketsStep DEF IInv
  <2>2. CASE Restart
    BY <2>2, RestartSockets DEF IInv
  <2>3. CASE UNCHANGED socketVars
    BY <2>3 DEF IInv, SocketsInv, RegisteredAreLive, DescribersKnown, Announced, Announcing, ToDescribe,
                Dropped, LastTold
  <2> QED
    BY <2>1, <2>2, <2>3 DEF Next, TokenNext, Logout, Expire, vars
<1> QED
  BY <1>1, <1>2, <1>3 DEF IInv, SocketsInv

THEOREM Invariance == Spec => []IInv
<1>1. Init => IInv
  BY InitInv
<1>2. IInv /\ [Next]_vars => IInv'
  BY NextInv
<1> QED
  BY <1>1, <1>2, PTL DEF Spec

(* Every variable has its type; and the registry never grows past the limit    *)
(* of connections, however many sockets are opened (ConnectionManager.register). *)
THEOREM TypeCorrect == Spec => []TypeOK
<1>1. IInv => TypeOK
  BY DEF IInv
<1> QED
  BY <1>1, Invariance, PTL

(* A sign-in never has two refresh tokens that work, and both tokens of a pair *)
(* work or neither: however many requests rotate and log out, and wherever     *)
(* crashes and deadlocks cut them short (SessionTokenService.rotate, logout).  *)
THEOREM TokensPairedAlways == Spec => []TokensPaired
<1>1. IInv => TokensPaired
  BY DEF IInv, TokensInv
<1> QED
  BY <1>1, Invariance, PTL

(* Only sockets whose handlers run are registered, and at rest the partner was *)
(* told the truth, unless two announcements crossed or the last one failed     *)
(* (PresenceService).                                                          *)
THEOREM PresenceTrueAlways == Spec => []PresenceTrue
<1>1. IInv => PresenceTrue
  <2> SUFFICES ASSUME IInv, AtRest, ~crossed, ~missed
               PROVE  view = "online" <=> registered # {}
    BY DEF IInv, SocketsInv, PresenceTrue, PresenceAtRest
  <2>1. ToDescribe = {} /\ Dropped = {}
    BY DEF AtRest, ToDescribe, Dropped, Announcing
  <2>2. \A c \in Sockets : told[c] = "nothing"
    BY DEF AtRest, IInv, SocketsInv, DescribersKnown, Announcing
  <2> QED
    BY <2>1, <2>2 DEF IInv, SocketsInv, Announced, LastTold
<1> QED
  BY <1>1, Invariance, PTL
=============================================================================
