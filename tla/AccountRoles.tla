---------------------------- MODULE AccountRoles ----------------------------
(***************************************************************************)
(* Roles that are given to users, in two machines that run apart, and to   *)
(* each of which `req` is its own: the account roles of one user           *)
(* (Account...), and the native administrator of one village (Village...). *)
(***************************************************************************)
EXTENDS Naturals, FiniteSets

CONSTANTS Sessions, NoSession,
          Roles,            \* VERIFIED_ACCOUNT_ROLE_SLUGS
          Base,             \* RoleSlug.INDIVIDUAL_USER
          MaxRequests,      \* bound: verification requests ever made
          MaxTime,          \* bound: transactions that may date a row
          Accounts, NoUser  \* the accounts that may be created to administer the village

VARIABLES
    req,          \* each session's handler

    now,          \* the start of the next transaction
    held,         \* the user_has_roles rows
    requests,     \* the role_upgrade_requests rows, in the order of their insertion
    userLock,     \* who selected the user's row FOR UPDATE
    requestLock,  \* who selected a request
    roleLock,     \* who selected a role's row
    irregular,    \* an administrator has assigned roles, or a later transaction overtook

    admin,        \* the village's native_admin_id
    created, holders, deleted, \* the accounts, those with the role, those deleted
    overlapped    \* creations, or removals, that overlapped

-----------------------------------------------------------------------------
(* The account roles of one user: the base role, the roles that have to be *)
(* verified, and the requests for their verification.  The user selects a  *)
(* role or submits it for verification, reviewers approve and reject, an   *)
(* administrator assigns roles.                                            *)
(*                                                                         *)
(* A selection locks the user's row and a review the request's; neither    *)
(* locks the other's, and the roles are written as the difference from     *)
(* what the session had read: rows removed must be there, rows added not.  *)
accountVars == <<now, held, requests, userLock, requestLock, roleLock, req, irregular>>

AllRoles == Roles \cup {Base}
Ids      == 1..MaxRequests
NoRow    == [on |-> FALSE, at |-> 0, verified |-> FALSE]
NoAsk    == [status |-> "NONE", role |-> Base, at |-> 0]
Idle     == [at |-> "idle", role |-> Base, id |-> 0, time |-> 0, seen |-> {}, new |-> {}]

RoleRows    == [on: BOOLEAN, at: 0..MaxTime, verified: BOOLEAN]
RequestRows == [status: {"NONE", "PENDING", "APPROVED", "REJECTED", "CANCELLED"}, role: AllRoles, at: 0..MaxTime]
Handlers    == [at: {"idle", "select", "cancel", "replace", "submit", "stage", "approve",
                     "approving", "approved", "reject", "rejecting", "assign"},
                role: AllRoles, id: 0..MaxRequests, time: 0..MaxTime,
                seen: SUBSET AllRoles, new: SUBSET AllRoles]
AccountTypeOK ==
    /\ now \in 1..MaxTime + 1 /\ irregular \in BOOLEAN
    /\ held \in [AllRoles -> RoleRows] /\ requests \in [Ids -> RequestRows]
    /\ userLock \in Sessions \cup {NoSession}
    /\ requestLock \in [Ids -> Sessions \cup {NoSession}]
    /\ roleLock \in [AllRoles -> Sessions \cup {NoSession}]
    /\ req \in [Sessions -> Handlers]

\* A new account holds the base role.
AccountInit ==
    /\ now = 1 /\ irregular = FALSE
    /\ held = [r \in AllRoles |-> IF r = Base THEN [NoRow EXCEPT !.on = TRUE] ELSE NoRow]
    /\ requests = [i \in Ids |-> NoAsk]
    /\ userLock = NoSession
    /\ requestLock = [i \in Ids |-> NoSession]
    /\ roleLock = [r \in AllRoles |-> NoSession]
    /\ req = [s \in Sessions |-> Idle]

Held    == {r \in AllRoles : held[r].on}
Pending == {i \in Ids : requests[i].status = "PENDING"}
Made    == {i \in Ids : requests[i].status # "NONE"}

Goto(s, statement) == req' = [req EXCEPT ![s].at = statement]

\* Commit, rollback and crash free the session's rows.
End(s) ==
    /\ req' = [req EXCEPT ![s] = Idle]
    /\ userLock' = IF userLock = s THEN NoSession ELSE userLock
    /\ requestLock' = [i \in Ids |-> IF requestLock[i] = s THEN NoSession ELSE requestLock[i]]
    /\ roleLock' = [r \in AllRoles |-> IF roleLock[r] = s THEN NoSession ELSE roleLock[r]]

\* A check refuses, a flush meets rows that are no longer as read, or the
\* process dies: nothing is written.
Abandon(s) == req[s] # Idle /\ End(s) /\ UNCHANGED <<now, held, requests, irregular>>

\* The rows become those of `new`, written as the difference from `seen`.
Writable(s, seen, new) ==
    /\ \A r \in seen \ new : held[r].on /\ roleLock[r] \in {s, NoSession}
    /\ \A r \in new \ seen : ~held[r].on
    /\ new \subseteq seen \/ userLock \in {s, NoSession}
Written(seen, new, time) ==
    [r \in AllRoles |->
        IF r \in seen \ new THEN NoRow
        ELSE IF r \in new \ seen THEN [on |-> TRUE, at |-> time, verified |-> FALSE]
        ELSE held[r]]

Begin(s, r) ==
    /\ req[s] = Idle /\ now <= MaxTime
    /\ now' = now + 1
    /\ req' = [req EXCEPT ![s] = [r EXCEPT !.time = now]]
    /\ UNCHANGED <<held, requests, userLock, requestLock, roleLock, irregular>>

----------------------------------------------------------------------------
(* AccountRoleService.select *)

AskSelect(s, r) == Begin(s, [Idle EXCEPT !.at = "select", !.role = r])

\* Selecting what is selected changes nothing.
IsCurrent(roles, r) == roles \cap Roles = {r} \ {Base}

LockUser(s) ==
    /\ req[s].at = "select" /\ userLock = NoSession
    /\ ~IsCurrent(Held, req[s].role)
    /\ userLock' = s
    /\ req' = [req EXCEPT ![s].at = "cancel", ![s].seen = Held]
    /\ UNCHANGED <<now, held, requests, requestLock, roleLock, irregular>>

\* Waits for the reviews under way, and takes what they leave pending.
CancelPending(s) ==
    /\ req[s].at = "cancel"
    /\ \A i \in Pending : requestLock[i] = NoSession
    /\ requestLock' = [i \in Ids |-> IF i \in Pending THEN s ELSE requestLock[i]]
    /\ Goto(s, "replace")
    /\ UNCHANGED <<now, held, requests, userLock, roleLock, irregular>>

Cancelled(s) ==
    [i \in Ids |-> IF requestLock[i] = s THEN [requests[i] EXCEPT !.status = "CANCELLED"] ELSE requests[i]]

\* stage_pending: ON CONFLICT DO NOTHING on one pending request per role.
Staged(rows, r, time) ==
    LET n == Cardinality(Made) + 1 IN
    [rows EXCEPT ![n] = [status |-> "PENDING", role |-> r, at |-> time]]
NoDuplicate(rows, r) == \A i \in Ids : rows[i].status = "PENDING" => rows[i].role # r

\* created_at is the start of the transaction: one that waited writes rows that
\* look older than those of the transactions that overtook it.
Overtaken(s) == \E i \in Made : requests[i].at > req[s].time

CommitSelect(s) ==
    LET r == req[s].role
        new == {Base, r} IN
    /\ req[s].at = "replace"
    /\ Writable(s, req[s].seen, new)
    /\ held' = Written(req[s].seen, new, req[s].time)
    /\ IF r = Base THEN requests' = Cancelled(s)
       ELSE /\ NoDuplicate(Cancelled(s), r) /\ Cardinality(Made) < MaxRequests
            /\ requests' = Staged(Cancelled(s), r, req[s].time)
    /\ irregular' = (irregular \/ Overtaken(s))
    /\ End(s)
    /\ UNCHANGED now

----------------------------------------------------------------------------
(* AccountRoleService.submit_verification *)

\* current_account_assignment: the verified kind assigned last.
Current == IF Held \cap Roles = {} THEN Base
           ELSE CHOOSE r \in Held \cap Roles : \A q \in Held \cap Roles : held[q].at <= held[r].at

\* latest_applicable_request, and what it says of the role.
Applicable(r) == {i \in Made : requests[i].role = r /\ requests[i].at >= held[r].at}
Latest(I) == CHOOSE i \in I : \A j \in I : requests[j].at <= requests[i].at
Resubmittable(r) ==
    /\ ~held[r].verified
    /\ Applicable(r) # {} => requests[Latest(Applicable(r))].status # "PENDING"

AskSubmit(s) == Begin(s, [Idle EXCEPT !.at = "submit"])

CheckState(s) ==
    /\ req[s].at = "submit" /\ userLock = NoSession
    /\ Current # Base /\ Resubmittable(Current)
    /\ userLock' = s
    /\ req' = [req EXCEPT ![s].at = "stage", ![s].role = Current]
    /\ UNCHANGED <<now, held, requests, requestLock, roleLock, irregular>>

CommitSubmit(s) ==
    /\ req[s].at = "stage" /\ Cardinality(Made) < MaxRequests
    /\ NoDuplicate(requests, req[s].role)
    /\ requests' = Staged(requests, req[s].role, req[s].time)
    /\ irregular' = (irregular \/ Overtaken(s))
    /\ End(s)
    /\ UNCHANGED <<now, held>>

----------------------------------------------------------------------------
(* RoleUpgradeRequestService.approve, reject *)

LockRequest(s, i, statement) ==
    /\ req[s] = Idle
    /\ i \in Pending /\ requestLock[i] = NoSession
    /\ requestLock' = [requestLock EXCEPT ![i] = s]
    /\ req' = [req EXCEPT ![s] = [Idle EXCEPT !.at = statement, !.id = i, !.role = requests[i].role]]
    /\ UNCHANGED <<now, held, requests, userLock, roleLock, irregular>>

\* The role in the request is not one assigned again since.
BrokenNotStale(i, r) == held[r].on
NotStale(i, r) == held[r].on /\ held[r].at <= requests[i].at
LockAssignment(s) ==
    LET r == req[s].role IN
    /\ req[s].at = "approve" /\ roleLock[r] = NoSession
    /\ NotStale(req[s].id, r)
    /\ roleLock' = [roleLock EXCEPT ![r] = s]
    /\ Goto(s, "approving")
    /\ UNCHANGED <<now, held, requests, userLock, requestLock, irregular>>

ReadRoles(s) ==
    /\ req[s].at \in {"approving", "reject"}
    /\ req' = [req EXCEPT ![s].seen = Held, ![s].at = IF @ = "reject" THEN "rejecting" ELSE "approved"]
    /\ UNCHANGED <<now, held, requests, userLock, requestLock, roleLock, irregular>>

Decided(i, status) == [requests EXCEPT ![i].status = status]

\* The approved role replaces the base role.
CommitApprove(s) ==
    LET kept == req[s].seen \ {Base} IN
    /\ req[s].at = "approved"
    /\ Writable(s, req[s].seen, kept)
    /\ held' = [Written(req[s].seen, kept, 0) EXCEPT ![req[s].role].verified = TRUE]
    /\ requests' = Decided(req[s].id, "APPROVED")
    /\ End(s)
    /\ UNCHANGED <<now, irregular>>

CommitReject(s) ==
    LET kept == req[s].seen \ {req[s].role} IN
    /\ req[s].at = "rejecting"
    /\ Writable(s, req[s].seen, kept)
    /\ held' = Written(req[s].seen, kept, 0)
    /\ requests' = Decided(req[s].id, "REJECTED")
    /\ End(s)
    /\ UNCHANGED <<now, irregular>>

----------------------------------------------------------------------------
(* UserService.assign_roles *)
AskAssign(s, roles) ==
    Begin(s, [Idle EXCEPT !.at = "assign", !.seen = Held, !.new = roles])

CommitAssign(s) ==
    /\ req[s].at = "assign"
    /\ Writable(s, req[s].seen, req[s].new)
    /\ held' = Written(req[s].seen, req[s].new, req[s].time)
    /\ irregular' = TRUE
    /\ End(s)
    /\ UNCHANGED <<now, requests>>

UserNext(s) ==
    \/ LockUser(s) \/ CancelPending(s) \/ CommitSelect(s) \/ CheckState(s) \/ CommitSubmit(s)
    \/ AskSubmit(s)
    \/ \E r \in AllRoles : AskSelect(s, r)
ReviewNext(s) ==
    \/ LockAssignment(s) \/ ReadRoles(s) \/ CommitApprove(s) \/ CommitReject(s)
    \/ \E i \in Ids, statement \in {"approve", "reject"} : LockRequest(s, i, statement)
AssignNext(s) == CommitAssign(s) \/ \E roles \in SUBSET AllRoles : AskAssign(s, roles)

AccountNext == \E s \in Sessions : UserNext(s) \/ ReviewNext(s) \/ AssignNext(s) \/ Abandon(s)

AccountSpec == AccountInit /\ [][AccountNext]_accountVars

\* The roles of the user by themselves, where the village has no administrator.
noVillageVars  == <<admin, created, holders, deleted, overlapped>>
NoVillageInit  == /\ AccountInit /\ admin = NoUser
                  /\ created = {} /\ holders = {} /\ deleted = {} /\ overlapped = {}
NoVillageRoles == NoVillageInit /\ [][AccountNext /\ UNCHANGED noVillageVars]_<<accountVars, noVillageVars>>

----------------------------------------------------------------------------
\* A role counts as verified only if a reviewer approved a request made for
\* this assignment of it: not for one since removed and assigned again.
VerifiedByReview ==
    \A r \in Roles : held[r].verified =>
        \E i \in Applicable(r) : requests[i].status = "APPROVED"

\* As long as no administrator assigns roles and rows are dated in the order they
\* are written: one role is selected, and every pending request is for it and can
\* be approved, however selections, submissions and reviews interleave.
PendingReviewable ==
    ~irregular => /\ Cardinality(Held \cap Roles) <= 1
               /\ \A i \in Pending : NotStale(i, requests[i].role) /\ ~held[requests[i].role].verified

\* docs/roles-and-permissions.md: switching roles or going back to Individual
\* User re-adds the base role.  So no account is left without any.
AlwaysARole == ~irregular => Held # {}

\* Their inductive invariant: who is changing the roles has locked the user, who
\* reviews a request its row, and who approves it the role too; the requests are
\* numbered as they were made.
UserSteps   == {"cancel", "replace", "stage"}
ReviewSteps == {"approve", "approving", "approved", "reject", "rejecting"}
UserLocked == \A s \in Sessions : req[s].at \in UserSteps <=> userLock = s
RequestsLocked ==
    /\ \A i \in Ids, s \in Sessions : requestLock[i] = s =>
          i \in Pending /\ (req[s].at = "replace" \/ (req[s].at \in ReviewSteps /\ req[s].id = i))
    /\ \A s \in Sessions : req[s].at \in ReviewSteps =>
          req[s].id \in Ids /\ requestLock[req[s].id] = s /\ req[s].role = requests[req[s].id].role
    /\ \A s \in Sessions, i \in Pending : req[s].at = "replace" => requestLock[i] = s
RolesLocked ==
    \A s \in Sessions : req[s].at \in {"approving", "approved"} =>
        roleLock[req[s].role] = s /\ NotStale(req[s].id, req[s].role)
RequestsNumbered ==
    /\ Made = 1..Cardinality(Made) /\ \A i \in Made : requests[i].role \in Roles
    /\ \A s \in Sessions : req[s].at = "stage" => req[s].role \in Roles
ReviewIInv ==
    AccountTypeOK /\ UserLocked /\ RequestsLocked /\ RolesLocked /\ RequestsNumbered /\ VerifiedByReview

\* Transactions have different times.  While all is regular: roles are only added
\* by who has locked the user; each was selected with a request; and what is
\* pending is the last request made, for the role that is held.
Began(s) == req[s].at \in UserSteps \cup {"select", "submit", "assign"}
TimesDiffer ==
    /\ \A i \in Made : requests[i].at < now
    /\ \A s \in Sessions : Began(s) =>
          /\ req[s].time < now /\ \A i \in Made : requests[i].at # req[s].time
          /\ \A t \in Sessions \ {s} : Began(t) => req[t].time # req[s].time
OneSelected == \A p, q \in Held \cap Roles : p = q
Selecting ==
    \A s \in Sessions : req[s].at \in {"cancel", "replace"} =>
        Held \subseteq req[s].seen /\ (req[s].role # Base => req[s].role \notin req[s].seen)
Staging ==
    \A s \in Sessions : req[s].at = "stage" =>
        Pending = {} /\ held[req[s].role].on /\ ~held[req[s].role].verified
RolesRequested == \A r \in Held \cap Roles : \E i \in Made : requests[i].at >= held[r].at
PendingLast ==
    \A i \in Pending : /\ \A j \in Made \ {i} : requests[j].at < requests[i].at
                       /\ NotStale(i, requests[i].role) /\ ~held[requests[i].role].verified
RegularIInv ==
    /\ TimesDiffer
    /\ ~irregular => OneSelected /\ Selecting /\ Staging /\ RolesRequested /\ PendingLast

-----------------------------------------------------------------------------
(* The native administrator of one village: an account created for it with *)
(* the role, and taken away with it.  The village is read without a lock,  *)
(* and of its row and of the role's only what changed is written.          *)
villageVars == <<admin, created, holders, deleted, req, overlapped>>

NoHandler == [op |-> "idle", user |-> NoUser, role |-> FALSE]

VillageTypeOK ==
    /\ admin \in created \cup {NoUser} /\ created \subseteq Accounts
    /\ holders \subseteq created /\ deleted \subseteq created
    /\ req \in [Sessions -> [op: {"idle", "create", "remove"}, user: Accounts \cup {NoUser}, role: BOOLEAN]]
    /\ overlapped \subseteq {"create", "remove"}

VillageInit ==
    /\ admin = NoUser /\ created = {} /\ holders = {} /\ deleted = {}
    /\ req = [s \in Sessions |-> NoHandler] /\ overlapped = {}

BeginAdmin(s, r) ==
    /\ req[s] = NoHandler /\ req' = [req EXCEPT ![s] = r]
    /\ overlapped' = overlapped \cup ({r.op} \cap {req[t].op : t \in Sessions})
    /\ UNCHANGED <<admin, created, holders, deleted>>

\* create: the village has none.
Vacant == admin = NoUser
Create(s, u) ==
    /\ Vacant /\ u \notin created /\ \A t \in Sessions : req[t].user # u
    /\ BeginAdmin(s, [op |-> "create", user |-> u, role |-> TRUE])

\* remove: the role of an account that is deleted is not read.
Remove(s) ==
    /\ admin # NoUser
    /\ BeginAdmin(s, [op |-> "remove", user |-> admin, role |-> admin \in holders \ deleted])

\* One commit writes the village's row and the account's with its role.
CommitCreate(s) ==
    LET u == req[s].user IN
    /\ req[s].op = "create"
    /\ admin' = u /\ created' = created \cup {u} /\ holders' = holders \cup {u}
    /\ req' = [req EXCEPT ![s] = NoHandler] /\ UNCHANGED <<deleted, overlapped>>

\* The role's row must still be there when its deletion is flushed.
CommitRemove(s) ==
    LET u == req[s].user IN
    /\ req[s].op = "remove" /\ (req[s].role => u \in holders)
    /\ admin' = NoUser /\ holders' = IF req[s].role THEN holders \ {u} ELSE holders
    /\ req' = [req EXCEPT ![s] = NoHandler] /\ UNCHANGED <<created, deleted, overlapped>>

\* A check refuses, the commit fails, or the process dies: all is rolled back.
AbandonAdmin(s) ==
    /\ req[s] # NoHandler /\ req' = [req EXCEPT ![s] = NoHandler]
    /\ UNCHANGED <<admin, created, holders, deleted, overlapped>>

\* UserService.delete
DeleteUser(u) ==
    /\ u \in created \ deleted /\ deleted' = deleted \cup {u}
    /\ UNCHANGED <<admin, created, holders, req, overlapped>>

VillageNext ==
    \/ \E s \in Sessions :
        \/ \E u \in Accounts : Create(s, u)
        \/ Remove(s) \/ CommitCreate(s) \/ CommitRemove(s) \/ AbandonAdmin(s)
    \/ \E u \in Accounts : DeleteUser(u)

VillageSpec == VillageInit /\ [][VillageNext]_villageVars

----------------------------------------------------------------------------
(* Who has the role is the administrator of the village, and the reverse,  *)
(* for accounts that are not deleted; unless two creations overlapped, of  *)
(* which the second takes the village from the first (the unique index is  *)
(* on the account), or two removals of a deleted account.                  *)
AdminHasRole ==
    ("create" \notin overlapped /\ ("remove" \notin overlapped \/ deleted = {})) =>
        holders \ deleted = {admin} \ (deleted \cup {NoUser})

\* Their inductive invariant: a new account is created for the village; creations,
\* or removals, that did not overlap are one at a time, and what they have read is so.
OfVillage(op) == {s \in Sessions : req[s].op = op}
VillageIInv ==
    /\ VillageTypeOK /\ AdminHasRole
    /\ \A s \in OfVillage("create") :
          /\ req[s].user \in Accounts \ created
          /\ \A t \in OfVillage("create") : req[t].user = req[s].user => t = s
    /\ \A s \in OfVillage("remove") : req[s].user \in created
    /\ \A op \in {"create", "remove"} \ overlapped : \A s, t \in OfVillage(op) : s = t
    /\ "create" \notin overlapped =>
          /\ \A s \in OfVillage("create") : admin = NoUser
          /\ deleted = {} => \A s \in OfVillage("remove") : req[s].role
    /\ overlapped = {} => \A s \in OfVillage("remove") :
          req[s].user = admin /\ (~req[s].role => admin \in deleted)
=============================================================================
