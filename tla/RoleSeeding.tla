---------------------------- MODULE RoleSeeding ----------------------------
(***************************************************************************)
(* Roles, permissions and who holds them: the seed script, which makes the *)
(* built-in roles what the code defines and is run after each migration,   *)
(* administrators who change them, and a plugin's seeder, which grants     *)
(* what the plugin declares.  The script commits each row it writes; it    *)
(* may be run beside the administrators, stop at a conflict, or be killed. *)
(*                                                                         *)
(* Lists of roles and permissions are written as the difference from what  *)
(* the session has read: rows removed must be there, rows added not.       *)
(***************************************************************************)
EXTENDS Naturals, Sequences, FiniteSets

CONSTANTS BuiltIn,     \* ROLE_DEFINITIONS: the slugs, in order, which are the names too
          Definition,  \* the permissions of each of them
          AdminRoles, SuperAdmin, DefaultRoles, \* of them, ADMIN_ROLE_SLUGS, and those a plugin's seeder grants to
          Made,        \* slugs of the roles administrators make; each is made once
          Declared,    \* the permissions plugin.toml declares
          OtherName,   \* what an administrator may call a role, or a permission
          Users, Seeded, \* Seeded is the user of the seed script, with SuperAdmin
          Ids,         \* permission rows
          MaxEdits     \* bound: what administrators change

VARIABLES
    permission, \* the name of each permission row
    roles,      \* the role rows: their names and permission rows
    unmade,     \* the slugs of Made not used yet
    holds,      \* user_has_roles
    deleted,    \* users with deleted_at
    req,        \* the administrator's handler
    seed,       \* the seed script
    disturbed,  \* somebody else has committed since the script began
    edits

vars == <<permission, roles, unmade, holds, deleted, req, seed, disturbed, edits>>

Canonical == {BuiltIn[i] : i \in DOMAIN BuiltIn}
Slugs     == Canonical \cup Made
Core      == UNION {Definition[r] : r \in Canonical}
NoRow     == "no_row"
NoRole    == [name |-> NoRow, granted |-> {}]
Exists(r) == roles[r] # NoRole
Rows      == {i \in Ids : permission[i] # NoRow}
Named(n)  == {i \in Ids : permission[i] = n}
Holders(r) == {u \in Users : r \in holds[u]}
IsSuper(u) == SuperAdmin \in holds[u]

Idle    == [op |-> "idle", super |-> FALSE, role |-> SuperAdmin, user |-> Seeded, seen |-> {}, new |-> {}]
NotRun  == [at |-> "ended", found |-> {}, left |-> {}, role |-> NoRow, next |-> 1]

TypeOK ==
    /\ permission \in [Ids -> Core \cup Declared \cup {OtherName, NoRow}]
    /\ \A i, j \in Rows : permission[i] = permission[j] => i = j
    /\ \A r \in Slugs : roles[r].name \in Slugs \cup {OtherName, NoRow} /\ roles[r].granted \subseteq Rows
    /\ \A r, s \in Slugs : Exists(r) /\ roles[r].name = roles[s].name => r = s
    /\ unmade \subseteq Made /\ deleted \subseteq Users
    /\ holds \in [Users -> SUBSET {r \in Slugs : Exists(r)}]
    /\ req.op \in {"idle", "grant", "assign", "delete"} /\ disturbed \in BOOLEAN /\ edits \in 0..MaxEdits
    /\ seed.at \in {"permissions", "obsolete", "remove", "sync", "users", "ended"}

Init ==
    /\ permission = [i \in Ids |-> NoRow] /\ roles = [r \in Slugs |-> NoRole] /\ unmade = Made
    /\ holds = [u \in Users |-> {}] /\ deleted = {}
    /\ req = Idle /\ seed = NotRun /\ disturbed = FALSE /\ edits = 0

----------------------------------------------------------------------------
(* scripts/seed.py *)

\* A session remembers rows, not names.
StartSeed ==
    /\ seed.at = "ended"
    /\ seed' = [NotRun EXCEPT !.at = "permissions"]
    /\ disturbed' = FALSE
    /\ UNCHANGED <<permission, roles, unmade, holds, deleted, req, edits>>

\* _get_or_create_permission
SeedPermission(n) ==
    /\ seed.at = "permissions" /\ n \in Core /\ \A e \in seed.found : e[1] # n
    /\ \E i \in Ids :
        /\ IF Named(n) # {} THEN i \in Named(n) ELSE i \notin Rows /\ \A e \in seed.found : e[2] # i
        /\ permission' = [permission EXCEPT ![i] = n]
        /\ seed' = [seed EXCEPT !.found = @ \cup {<<n, i>>}]
    /\ UNCHANGED <<roles, unmade, holds, deleted, req, disturbed, edits>>

\* _remove_obsolete_roles: the roles are listed once, the holders of each counted
\* before it is deleted.
ListRoles ==
    /\ seed.at = "permissions" /\ \A n \in Core : \E e \in seed.found : e[1] = n
    /\ seed' = [seed EXCEPT !.at = "obsolete", !.left = {r \in Made : Exists(r)}]
    /\ UNCHANGED <<permission, roles, unmade, holds, deleted, req, disturbed, edits>>

CountHolders(r) == Holders(r) = {}
CheckObsolete(r) ==
    /\ seed.at = "obsolete" /\ r \in seed.left /\ Exists(r) /\ CountHolders(r)
    /\ seed' = [seed EXCEPT !.at = "remove", !.role = r]
    /\ UNCHANGED <<permission, roles, unmade, holds, deleted, req, disturbed, edits>>

\* The rows of those who have got the role since go with it.
WithoutRole(r) == [u \in Users |-> holds[u] \ {r}]
RemoveObsolete ==
    /\ seed.at = "remove"
    /\ roles' = [roles EXCEPT ![seed.role] = NoRole] /\ holds' = WithoutRole(seed.role)
    /\ seed' = [seed EXCEPT !.at = "obsolete", !.left = @ \ {seed.role}, !.role = NoRow]
    /\ UNCHANGED <<permission, unmade, deleted, req, disturbed, edits>>

StartSync ==
    /\ seed.at = "obsolete" /\ seed.left = {}
    /\ seed' = [seed EXCEPT !.at = "sync"]
    /\ UNCHANGED <<permission, roles, unmade, holds, deleted, req, disturbed, edits>>

\* _sync_role, by its slug; each role is one step.  Another role of that name, or
\* a permission row that is gone, stops the script.
Synced(r) == [name |-> r, granted |-> {e[2] : e \in {f \in seed.found : f[1] \in Definition[r]}}]
SyncRole ==
    LET r == BuiltIn[seed.next] IN
    /\ seed.at = "sync" /\ seed.next <= Len(BuiltIn)
    /\ Synced(r).granted \subseteq Rows
    /\ \A s \in Slugs \ {r} : roles[s].name # r
    /\ roles' = [roles EXCEPT ![r] = Synced(r)]
    /\ seed' = [seed EXCEPT !.next = @ + 1, !.at = IF seed.next = Len(BuiltIn) THEN "users" ELSE @]
    /\ UNCHANGED <<permission, unmade, holds, deleted, req, disturbed, edits>>

\* seed_role_users: one not deleted has that address, and has the role.
SeedUser ==
    /\ seed.at = "users" /\ Exists(SuperAdmin)
    /\ holds' = [holds EXCEPT ![Seeded] = IF Seeded \in deleted THEN {SuperAdmin} ELSE @ \cup {SuperAdmin}]
    /\ deleted' = deleted \ {Seeded}
    /\ seed' = NotRun
    /\ UNCHANGED <<permission, roles, unmade, req, disturbed, edits>>

\* A RuntimeError, a conflict, a row that is gone, or the process is killed.
StopSeed ==
    /\ seed.at # "ended" /\ seed' = NotRun
    /\ UNCHANGED <<permission, roles, unmade, holds, deleted, req, disturbed, edits>>

SeedNext ==
    \/ StartSeed \/ ListRoles \/ RemoveObsolete \/ StartSync \/ SyncRole \/ SeedUser \/ StopSeed
    \/ \E n \in Core : SeedPermission(n)
    \/ \E r \in Made : CheckObsolete(r)

----------------------------------------------------------------------------
(* plugins/product/ecommerce/seeders/0002: in the transaction of apply *)
GrantDeclared ==
    LET granted == {i \in Ids : permission'[i] \in Declared} IN
    /\ Cardinality(Ids \ Rows) >= Cardinality(Declared \ {permission[i] : i \in Ids})
    /\ permission' \in [Ids -> Core \cup Declared \cup {OtherName, NoRow}]
    /\ \A i \in Ids : permission'[i] # permission[i] =>
                          i \notin Rows /\ permission'[i] \in Declared /\ Named(permission'[i]) = {}
    /\ \A n \in Declared : Cardinality({i \in Ids : permission'[i] = n}) = 1
    /\ roles' = [r \in Slugs |-> IF r \in DefaultRoles /\ Exists(r)
                                 THEN [roles[r] EXCEPT !.granted = @ \cup granted] ELSE roles[r]]
    /\ disturbed' = TRUE
    /\ UNCHANGED <<unmade, holds, deleted, req, seed, edits>>

----------------------------------------------------------------------------
(* Administrators: RoleService, PermissionService *)

Edit == edits < MaxEdits /\ edits' = edits + 1 /\ disturbed' = TRUE

\* One statement each, whose conflicts the unique index finds.
CreateRole(r) ==
    /\ r \in unmade /\ \A s \in Slugs : roles[s].name # r
    /\ roles' = [roles EXCEPT ![r] = [name |-> r, granted |-> {}]] /\ unmade' = unmade \ {r}
    /\ Edit /\ UNCHANGED <<permission, holds, deleted, req, seed>>

\* Those of administrators, a super administrator only: _ensure_can_change.
RenameRole(r, n) ==
    /\ Exists(r) /\ (r \in AdminRoles => \E u \in Users \ deleted : IsSuper(u))
    /\ \A s \in Slugs : roles[s].name # n
    /\ roles' = [roles EXCEPT ![r].name = n]
    /\ Edit /\ UNCHANGED <<permission, unmade, holds, deleted, req, seed>>

DeleteRole(r) ==
    /\ r \in Made /\ Exists(r)
    /\ roles' = [roles EXCEPT ![r] = NoRole] /\ holds' = WithoutRole(r)
    /\ Edit /\ UNCHANGED <<permission, unmade, deleted, req, seed>>

RenamePermission(i, n) ==
    /\ i \in Rows /\ Named(n) = {}
    /\ permission' = [permission EXCEPT ![i] = n]
    /\ Edit /\ UNCHANGED <<roles, unmade, holds, deleted, req, seed>>

DeletePermission(i) ==
    /\ i \in Rows
    /\ permission' = [permission EXCEPT ![i] = NoRow]
    /\ roles' = [r \in Slugs |-> [roles[r] EXCEPT !.granted = @ \ {i}]]
    /\ Edit /\ UNCHANGED <<unmade, holds, deleted, req, seed>>

Begin(r) == edits < MaxEdits /\ req = Idle /\ req' = r /\ UNCHANGED <<permission, roles, unmade, holds, deleted, seed, disturbed, edits>>

\* RoleService.set_permissions: _ensure_can_change.
AskGrant(actor, r, rows) ==
    /\ Exists(r) /\ (r \in AdminRoles => IsSuper(actor))
    /\ Begin([Idle EXCEPT !.op = "grant", !.super = IsSuper(actor), !.role = r,
                          !.seen = roles[r].granted, !.new = rows])
CommitGrant ==
    LET r == req.role IN
    /\ req.op = "grant" /\ Exists(r)
    /\ req.seen \ req.new \subseteq roles[r].granted /\ (req.new \ req.seen) \cap roles[r].granted = {}
    /\ req.new \ req.seen \subseteq Rows
    /\ roles' = [roles EXCEPT ![r].granted = (@ \ (req.seen \ req.new)) \cup (req.new \ req.seen)]
    /\ req' = Idle /\ Edit /\ UNCHANGED <<permission, unmade, holds, deleted, seed>>

----------------------------------------------------------------------------
(* UserService *)

CanModify(actor, u) == IsSuper(u) => IsSuper(actor)
SymmetricDifference(S, T) == (S \ T) \cup (T \ S)

\* _ensure_can_change_roles
CanChangeRoles(actor, old, new) == IsSuper(actor) \/ SymmetricDifference(old, new) \cap AdminRoles = {}
AskAssign(actor, u, new) ==
    /\ u \notin deleted /\ CanModify(actor, u) /\ CanChangeRoles(actor, holds[u], new)
    /\ Begin([Idle EXCEPT !.op = "assign", !.super = IsSuper(actor), !.user = u, !.seen = holds[u], !.new = new])
CommitAssign ==
    LET u == req.user IN
    /\ req.op = "assign"
    /\ req.seen \ req.new \subseteq holds[u] /\ (req.new \ req.seen) \cap holds[u] = {}
    /\ \A r \in req.new \ req.seen : Exists(r)
    /\ holds' = [holds EXCEPT ![u] = (@ \ (req.seen \ req.new)) \cup (req.new \ req.seen)]
    /\ req' = Idle /\ Edit /\ UNCHANGED <<permission, roles, unmade, deleted, seed>>

AskDelete(actor, u) ==
    /\ actor # u /\ u \notin deleted /\ CanModify(actor, u)
    /\ Begin([Idle EXCEPT !.op = "delete", !.super = IsSuper(actor), !.user = u, !.seen = holds[u]])
CommitDelete ==
    /\ req.op = "delete" /\ deleted' = deleted \cup {req.user}
    /\ req' = Idle /\ Edit /\ UNCHANGED <<permission, roles, unmade, holds, seed>>

Abandon == req # Idle /\ req' = Idle /\ UNCHANGED <<permission, roles, unmade, holds, deleted, seed, disturbed, edits>>

AdminNext ==
    \/ \E r \in Made : CreateRole(r) \/ DeleteRole(r)
    \/ \E r \in Slugs, n \in Slugs \cup {OtherName} : RenameRole(r, n)
    \/ \E i \in Ids : DeletePermission(i) \/ \E n \in Core \cup {OtherName} : RenamePermission(i, n)
    \/ \E actor \in Users \ deleted :
        \/ \E r \in Slugs, rows \in SUBSET Rows : AskGrant(actor, r, rows)
        \/ \E u \in Users : AskDelete(actor, u)
        \/ \E u \in Users, new \in SUBSET {r \in Slugs : Exists(r)} : AskAssign(actor, u, new)
    \/ CommitGrant \/ CommitAssign \/ CommitDelete \/ Abandon

Next == SeedNext \/ GrantDeclared \/ AdminNext

Spec == Init /\ [][Next]_vars

----------------------------------------------------------------------------
Names(r) == {permission[i] : i \in roles[r].granted}

\* README.md: the script sets names and permissions to match the code, adding and
\* removing.  When it gets to the users and nobody else wrote, it has: for
\* permissions of a plugin and those renamed, too.
SeededAsDefined ==
    seed.at = "users" /\ ~disturbed =>
        /\ \A r \in Canonical : roles[r].name = r /\ Names(r) = Definition[r]
        /\ \A r \in Made : ~Exists(r)

\* The script takes a role from its users only if they got it while it ran.
SeedKeepsHolders ==
    seed' # seed /\ ~disturbed => \A u \in Users \ deleted : holds[u] \subseteq holds'[u]

\* UserService, RoleService: only a super administrator's handler changes who has
\* an administrator's role and what permission rows it grants (a row that is
\* deleted is granted to none); or deletes a super administrator, or one who was
\* not when his row was read.
ByOthers == ~req.super /\ seed' = seed
AdminRolesProtected ==
    ByOthers =>
        /\ \A u \in Users : holds[u] \cap AdminRoles = holds'[u] \cap AdminRoles
        /\ deleted' # deleted => ~ (SuperAdmin \in req.seen)
        /\ req # req' /\ req' = Idle => \A r \in AdminRoles : roles'[r].granted = roles[r].granted

\* Their inductive invariant: what a handler that is not a super administrator's,
\* and the script unless somebody else wrote, are to change.
RequestChecked ==
    /\ req.op = "grant" /\ req.role \in AdminRoles => req.super
    /\ req.op = "assign" /\ ~req.super => SymmetricDifference(req.seen, req.new) \cap AdminRoles = {}
    /\ req.op = "delete" /\ ~req.super => SuperAdmin \notin req.seen
NobodyHolds == seed.at = "remove" /\ ~disturbed => Holders(seed.role) = {}
SeedTypes ==
    /\ holds \in [Users -> SUBSET Slugs] /\ DOMAIN roles = Slugs /\ deleted \subseteq Users
    /\ req.user \in Users /\ (req.op = "assign" => req.new \subseteq Slugs)
    /\ DOMAIN seed = DOMAIN NotRun /\ disturbed \in BOOLEAN
SeedIInv == SeedTypes /\ RequestChecked /\ NobodyHolds

\* And what the script knows unless somebody else wrote: what it has found is
\* there, all of it when it comes to the roles; the roles to remove are listed; and
\* those before the next are synced.
FoundInDatabase ==
    /\ \A e \in seed.found : e \in Core \X Ids /\ permission[e[2]] = e[1]
    /\ seed.at \notin {"permissions", "ended"} => \A n \in Core : \E e \in seed.found : e[1] = n
ObsoleteListed ==
    /\ seed.at \in {"obsolete", "remove"} => \A r \in Made : Exists(r) => r \in seed.left
    /\ seed.at \in {"sync", "users"} => \A r \in Made : ~Exists(r)
SyncedInOrder ==
    /\ seed.at \notin {"sync", "users"} => seed.next = 1
    /\ seed.at \in {"sync", "users"} =>
          \A k \in 1..Len(BuiltIn) : k < seed.next => roles[BuiltIn[k]] = Synced(BuiltIn[k])
    /\ seed.at = "users" => seed.next = Len(BuiltIn) + 1
ScriptIInv ==
    /\ DOMAIN permission = Ids /\ seed.next \in Nat \ {0}
    /\ ~disturbed => FoundInDatabase /\ ObsoleteListed /\ SyncedInOrder
=============================================================================
