---------------------------- MODULE GoogleSignIn ----------------------------
(***************************************************************************)
(* Accounts, their e-mail addresses, and the Google accounts linked to     *)
(* them.  Each handler looks for an identity or an address first and       *)
(* writes later; what keeps identities and addresses apart in the end are  *)
(* the unique indexes, of which the one on addresses passes over deleted   *)
(* accounts.                                                               *)
(***************************************************************************)
EXTENDS Naturals, FiniteSets

CONSTANTS Users,      \* the accounts there may be
          NoUser,
          Subjects,   \* the Google accounts
          Emails,
          EmailOf,    \* the verified address of each Google account
          Sessions

VARIABLES
    user,       \* each account's row
    identities, \* the auth_identities rows
    signed,     \* the accounts that each Google account was signed in to
    proved,     \* the addresses that Google verified for each account
    edited,     \* accounts whose address an administrator changed
    req         \* each session's handler

vars == <<user, identities, signed, proved, edited, req>>

NoEmail == "no address"
NoRow   == [exists |-> FALSE, deleted |-> FALSE, active |-> FALSE, email |-> NoEmail, verified |-> FALSE]
Idle    == [op |-> "idle", user |-> NoUser, subject |-> "", email |-> NoEmail]

TypeOK ==
    /\ user \in [Users -> [exists: BOOLEAN, deleted: BOOLEAN, active: BOOLEAN,
                           email: Emails \cup {NoEmail}, verified: BOOLEAN]]
    /\ identities \subseteq [subject: Subjects, user: Users]
    /\ signed \in [Subjects -> SUBSET Users] /\ proved \in [Users -> SUBSET Emails]
    /\ edited \subseteq Users
    /\ req \in [Sessions -> [op: {"idle", "register", "start", "link", "edit"}, user: Users \cup {NoUser},
                             subject: Subjects \cup {""}, email: Emails \cup {NoEmail}]]

\* Accounts registered by e-mail have not verified it yet; those registered by
\* phone have none.
Init ==
    /\ user \in [Users -> {NoRow, [NoRow EXCEPT !.exists = TRUE, !.active = TRUE]}
                            \cup {[exists |-> TRUE, deleted |-> FALSE, active |-> a, email |-> e, verified |-> FALSE] :
                                      a \in BOOLEAN, e \in Emails}]
    /\ \A u, v \in Users : u # v => user[u].email = NoEmail \/ user[u].email # user[v].email
    /\ identities = {}
    /\ signed = [g \in Subjects |-> {}] /\ proved = [u \in Users |-> {}]
    /\ edited = {} /\ req = [s \in Sessions |-> Idle]

Live        == {u \in Users : user[u].exists /\ ~user[u].deleted}
Active      == {u \in Live : user[u].active}
LinkedTo(g) == {i.user : i \in {i \in identities : i.subject = g}}
Links(u)    == {i \in identities : i.user = u}

\* get_by_email_ignoring_case, and the index ix_users_email_active, for addresses
\* that differ in more than the case of letters.
Claimed(e) == e # NoEmail /\ \E u \in Live : user[u].email = e

\* The two unique constraints of auth_identities.
MayLink(g, u) == LinkedTo(g) = {} /\ Links(u) = {}

Begin(s, r) ==
    /\ req[s].op = "idle"
    /\ req' = [req EXCEPT ![s] = r]
    /\ UNCHANGED <<user, identities, signed, proved, edited>>
End(s) == req' = [req EXCEPT ![s] = Idle]

\* sign_in: into the linked account, if it is active.
SignIn(g) ==
    /\ \E u \in LinkedTo(g) \cap Active : signed' = [signed EXCEPT ![g] = @ \cup {u}]
    /\ UNCHANGED <<user, identities, proved, edited, req>>

\* register: of what its token was issued for, which is not stored, register
\* checks all again.
Register(s, g) ==
    /\ LinkedTo(g) = {} /\ ~Claimed(EmailOf[g])
    /\ Begin(s, [Idle EXCEPT !.op = "register", !.subject = g])

\* create_verified_account: the account and the identity in one commit, or
\* neither of them.
CreateAccount(s) ==
    LET g == req[s].subject IN
    /\ req[s].op = "register"
    /\ \E u \in Users :
        /\ ~user[u].exists
        /\ IF Claimed(EmailOf[g]) \/ ~MayLink(g, u)
           THEN End(s) /\ UNCHANGED <<user, identities, proved>>
           ELSE /\ user' = [user EXCEPT ![u] = [exists |-> TRUE, deleted |-> FALSE, active |-> TRUE,
                                                email |-> EmailOf[g], verified |-> TRUE]]
                /\ identities' = identities \cup {[subject |-> g, user |-> u]}
                /\ proved' = [proved EXCEPT ![u] = {EmailOf[g]}]
                /\ req' = [req EXCEPT ![s] = [Idle EXCEPT !.op = "start", !.subject = g, !.user = u]]
    /\ UNCHANGED <<signed, edited>>

\* The session of the new account is issued after its commit.
StartSession(s) ==
    /\ req[s].op = "start"
    /\ signed' = [signed EXCEPT ![req[s].subject] = @ \cup {req[s].user}] /\ End(s)
    /\ UNCHANGED <<user, identities, proved, edited>>

\* link: by a signed-in user, whatever the address of the Google account.
Link(s, u, g) ==
    /\ u \in Active /\ MayLink(g, u)
    /\ Begin(s, [Idle EXCEPT !.op = "link", !.subject = g, !.user = u])
AddIdentity(s) ==
    LET r == req[s] IN
    /\ r.op = "link" /\ End(s)
    /\ identities' = IF MayLink(r.subject, r.user)
                     THEN identities \cup {[subject |-> r.subject, user |-> r.user]} ELSE identities
    /\ UNCHANGED <<user, signed, proved, edited>>

\* UserService.update with an address, and delete: the identities stay.  The
\* address is written over what is there and the mark of its verification kept.
EditEmail(s, u, e) ==
    /\ u \in Live /\ user[u].email # e /\ ~Claimed(e)
    /\ Begin(s, [Idle EXCEPT !.op = "edit", !.user = u, !.email = e])
SaveEmail(s) ==
    LET r == req[s] IN
    /\ r.op = "edit" /\ End(s)
    /\ IF r.user \in Live /\ \E v \in Live \ {r.user} : user[v].email = r.email
       THEN UNCHANGED <<user, edited>>
       ELSE user' = [user EXCEPT ![r.user].email = r.email] /\ edited' = edited \cup {r.user}
    /\ UNCHANGED <<identities, signed, proved>>
Delete(u) ==
    /\ u \in Live /\ user' = [user EXCEPT ![u].deleted = TRUE]
    /\ UNCHANGED <<identities, signed, proved, edited, req>>
Suspend(u) ==
    /\ u \in Live /\ user' = [user EXCEPT ![u].active = ~@]
    /\ UNCHANGED <<identities, signed, proved, edited, req>>

Abandon(s) == req[s].op # "idle" /\ End(s) /\ UNCHANGED <<user, identities, signed, proved, edited>>

Next ==
    \/ \E g \in Subjects : SignIn(g)
    \/ \E s \in Sessions, g \in Subjects : Register(s, g) \/ \E u \in Users : Link(s, u, g)
    \/ \E s \in Sessions : CreateAccount(s) \/ StartSession(s) \/ AddIdentity(s) \/ SaveEmail(s) \/ Abandon(s)
    \/ \E s \in Sessions, u \in Users, e \in Emails : EditEmail(s, u, e)
    \/ \E u \in Users : Delete(u) \/ Suspend(u)

Spec == Init /\ [][Next]_vars

-----------------------------------------------------------------------------
EmailsApart == \A u, v \in Live : u # v => user[u].email = NoEmail \/ user[u].email # user[v].email

(* A Google account only ever opens one account, however requests cross,   *)
(* and no live accounts share an address.                                  *)
OneAccountEach ==
    /\ \A g \in Subjects : Cardinality(signed[g]) <= 1 /\ signed[g] \subseteq LinkedTo(g)
    /\ \A u \in Users : Cardinality(Links(u)) <= 1
    /\ EmailsApart

(* An address that counts as verified was verified by Google for that      *)
(* account, unless an administrator put another in its place.              *)
VerifiedByGoogle ==
    \A u \in Users \ edited : user[u].verified => user[u].email \in proved[u]

(* What the unique indexes keep, and a handler goes by: no two identities  *)
(* have a Google account or an account of their own in common, and a       *)
(* session is started for the account that the identity was added for.     *)
IdentitiesApart == \A i, j \in identities : i.subject = j.subject \/ i.user = j.user => i = j
SignedToLinked  == \A g \in Subjects : signed[g] \subseteq LinkedTo(g)
HandlersKnow ==
    \A s \in Sessions :
        /\ req[s].op \in {"register", "start", "link"} => req[s].subject \in Subjects
        /\ req[s].op \in {"start", "link", "edit"} => req[s].user \in Users
        /\ req[s].op = "edit" => req[s].email \in Emails
        /\ req[s].op = "start" => req[s].user \in LinkedTo(req[s].subject)
IInv == TypeOK /\ IdentitiesApart /\ SignedToLinked /\ EmailsApart /\ HandlersKnow /\ VerifiedByGoogle
=============================================================================
