---------------------------- MODULE CategoryTree ----------------------------
(***************************************************************************)
(* The tree of categories: created by administrators, suggested by users   *)
(* and reviewed, moved, activated, deactivated and deleted.  Every handler *)
(* reads what its checks need, one query after the other and without a     *)
(* lock, and commits at the end the columns it changed.                    *)
(***************************************************************************)
EXTENDS Naturals, FiniteSets

CONSTANTS Categories, \* the categories that may exist
          Top,        \* the parent of a root
          Sessions

VARIABLES
    tree,      \* the rows of categories
    req,       \* each session's handler
    overlapped,\* a handler began while another ran
    crossed    \* a move was committed while another was under way

vars == <<tree, req, overlapped, crossed>>

CategoryStatus == {"PENDING", "PUBLISHED", "REJECTED"}
NoRow == [status |-> "none", active |-> FALSE, parent |-> Top]
Rows  == {NoRow} \cup [status: CategoryStatus, active: BOOLEAN, parent: Categories \cup {Top}]

\* `id` is the category handled and `to` its parent, the new one of a "move";
\* `usable` is whether it was usable when it was read, `set` what becomes of
\* is_active.
Idle == [op |-> "idle", at |-> "idle", id |-> Top, to |-> Top, move |-> FALSE,
         usable |-> FALSE, set |-> "keep"]

TypeOK ==
    /\ tree \in [Categories -> Rows]
    /\ req \in [Sessions ->
         [op: {"idle", "create", "suggest", "approve", "reject", "update", "delete"},
          at: {"idle", "move", "parent", "children", "write"},
          id: Categories \cup {Top}, to: Categories \cup {Top}, move: BOOLEAN,
          usable: BOOLEAN, set: {"keep", "on", "off"}]]
    /\ overlapped \in BOOLEAN /\ crossed \in BOOLEAN

Init ==
    /\ tree = [c \in Categories |-> NoRow] /\ req = [s \in Sessions |-> Idle]
    /\ overlapped = FALSE /\ crossed = FALSE

Existing == {c \in Categories : tree[c] # NoRow}
Named(s) == {req[s].id, req[s].to}

\* get_chain: the category and its ancestors.
Chain(c) ==
    LET up[n \in Nat] == IF n = 0 THEN {c} \cap Existing
                         ELSE (up[n - 1] \cup {tree[d].parent : d \in up[n - 1]}) \ {Top}
    IN up[Cardinality(Categories)]

IsUsable(c)    == tree[c].status = "PUBLISHED" /\ tree[c].active
ChainUsable(c) == c \in Existing /\ \A d \in Chain(c) : IsUsable(d)

\* unavailable_category_tree_ids: what is not usable, and all below it.
Blocked ==
    LET down[n \in Nat] == IF n = 0 THEN {c \in Existing : ~IsUsable(c)}
                           ELSE down[n - 1] \cup {c \in Existing : tree[c].parent \in down[n - 1]}
    IN down[Cardinality(Categories)]

\* search_active
Offered == Existing \ Blocked

----------------------------------------------------------------------------
(* CategoryService: first what a handler reads of the category itself.     *)

Begin(s, r) ==
    /\ req[s] = Idle /\ req' = [req EXCEPT ![s] = r]
    /\ overlapped' = (overlapped \/ \E t \in Sessions : req[t] # Idle)
    /\ UNCHANGED <<tree, crossed>>

Under(parent) == IF parent = Top THEN "write" ELSE "parent"

\* create, suggest: a new row, named by no other handler.
Add(s, op, parent) ==
    \E c \in Categories \ Existing :
        /\ \A t \in Sessions : c \notin Named(t)
        /\ parent # c
        /\ Begin(s, [Idle EXCEPT !.op = op, !.at = Under(parent), !.id = c, !.to = parent])

\* approve, reject: the category is pending when it is read.
Approve(s, c) ==
    /\ tree[c].status = "PENDING"
    /\ Begin(s, [Idle EXCEPT !.op = "approve", !.at = Under(tree[c].parent), !.id = c, !.to = tree[c].parent])

Reject(s, c) ==
    /\ tree[c].status = "PENDING"
    /\ Begin(s, [Idle EXCEPT !.op = "reject", !.at = "write", !.id = c, !.to = tree[c].parent])

\* update: the parent is another one, or is_active is, or neither.
Update(s, c, to, set) ==
    LET move == to # tree[c].parent IN
    /\ c \in Existing /\ to # c
    /\ set # "keep" => /\ (set = "on") # tree[c].active
                       /\ tree[c].status = "PUBLISHED"
    /\ Begin(s, [op |-> "update", id |-> c, to |-> to, move |-> move, usable |-> IsUsable(c), set |-> set,
                 at |-> IF move /\ to # Top THEN "move" ELSE IF set = "on" THEN Under(to) ELSE "write"])

Delete(s, c) ==
    c \in Existing /\ Begin(s, [Idle EXCEPT !.op = "delete", !.at = "children", !.id = c, !.to = tree[c].parent])

----------------------------------------------------------------------------
(* ... then what it reads of others ...                                    *)

Pass(s, next) ==
    /\ req' = [req EXCEPT ![s].at = next]
    /\ UNCHANGED <<tree, overlapped, crossed>>

BrokenCanMoveUnder(s) == req[s].to \in Existing
\* _ensure_can_move_under
CanMoveUnder(s) ==
    LET r == req[s] IN
    /\ r.to \in Existing
    /\ r.id \notin Chain(r.to)
    /\ r.usable => ChainUsable(r.to)
CheckMove(s) ==
    /\ req[s].at = "move" /\ CanMoveUnder(s)
    /\ Pass(s, IF req[s].set = "on" THEN "parent" ELSE "write")

\* _ensure_usable_parent
CheckParent(s) == req[s].at = "parent" /\ ChainUsable(req[s].to) /\ Pass(s, "write")

\* delete: has_children
CheckChildren(s) ==
    /\ req[s].at = "children"
    /\ \A d \in Existing : tree[d].parent # req[s].id
    /\ Pass(s, "write")

----------------------------------------------------------------------------
(* ... and the commit: the changed columns of a row that must still exist, *)
(* with a parent that does (a foreign key, ON DELETE RESTRICT).            *)

Changed(s) ==
    LET r == req[s]
        row == tree[r.id] IN
    CASE r.op = "create"  -> [status |-> "PUBLISHED", active |-> TRUE, parent |-> r.to]
      [] r.op = "suggest" -> [status |-> "PENDING", active |-> FALSE, parent |-> r.to]
      [] r.op = "approve" -> [row EXCEPT !.status = "PUBLISHED", !.active = TRUE]
      [] r.op = "reject"  -> [row EXCEPT !.status = "REJECTED", !.active = FALSE]
      [] r.op = "update"  -> [row EXCEPT !.parent = IF r.move THEN r.to ELSE @,
                                         !.active = IF r.set = "keep" THEN @ ELSE r.set = "on"]
      [] r.op = "delete"  -> NoRow

Allowed(s) ==
    LET r == req[s] IN
    CASE r.op \in {"create", "suggest"} -> r.to \in Existing \cup {Top}
      [] r.op = "delete"                -> \A d \in Existing : tree[d].parent # r.id
      [] OTHER -> r.id \in Existing /\ (r.move => r.to \in Existing \cup {Top})

Commit(s) ==
    LET r == req[s] IN
    /\ r.at = "write" /\ Allowed(s)
    /\ tree' = [tree EXCEPT ![r.id] = Changed(s)]
    /\ req' = [req EXCEPT ![s] = Idle]
    /\ crossed' = (crossed \/ (r.move /\ \E t \in Sessions \ {s} : req[t].move))
    /\ UNCHANGED overlapped

\* A check refuses, the commit fails, or the process dies.
Abandon(s) ==
    /\ req[s] # Idle /\ req' = [req EXCEPT ![s] = Idle]
    /\ UNCHANGED <<tree, overlapped, crossed>>

Next ==
    \E s \in Sessions :
        \/ \E parent \in Existing \cup {Top} : Add(s, "create", parent) \/ Add(s, "suggest", parent)
        \/ \E c \in Categories :
            \/ Approve(s, c) \/ Reject(s, c) \/ Delete(s, c)
            \/ \E to \in Existing \cup {Top}, set \in {"keep", "on", "off"} : Update(s, c, to, set)
        \/ CheckMove(s) \/ CheckParent(s) \/ CheckChildren(s)
        \/ Commit(s) \/ Abandon(s)

Spec == Init /\ [][Next]_vars

----------------------------------------------------------------------------
(* A parent exists, and unless two moves crossed every category is below a *)
(* root, never one of its own descendants (messages.py:226).               *)
IsTree ==
    \A c \in Existing :
        /\ tree[c].parent \in Existing \cup {Top}
        /\ crossed \/ \E r \in Chain(c) : tree[r].parent = Top

(* As long as handlers do not overlap an active category is published, and *)
(* below a published one; its parent may have been deactivated, and then   *)
(* moved under one that is still pending.                                  *)
ActiveUnderPublished ==
    overlapped \/ \A c \in Existing :
        tree[c].active =>
            /\ tree[c].status = "PUBLISHED"
            /\ tree[c].parent # Top => tree[tree[c].parent].status = "PUBLISHED"

(* Search, which walks down from what is not usable, offers what the       *)
(* assignment of a category, which walks up from it, accepts.              *)
OfferedIsAssignable == Offered = {c \in Existing : ChainUsable(c)}
=============================================================================
