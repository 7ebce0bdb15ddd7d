--------------------------- MODULE BusinessRecords --------------------------
(***************************************************************************)
(* Businesses, in two machines that run apart, and to each of which `req`  *)
(* and `row` are its own: the verification of one owner's (Review...), and *)
(* whether a plugin serves one of them (Plugin...).                        *)
(***************************************************************************)
EXTENDS Integers, FiniteSets

CONSTANTS Sessions, NoSession,
          Businesses, NoBusiness

VARIABLES
    req,        \* each session's handler and, of the owner's business, the columns it will write
    row,        \* each business: its row; for the plugin, "NONE" or its BusinessPluginStatus

    granted,    \* the owner's role is approved: has_permission(BUSINESS_CREATE)
    reviewed,   \* businesses of which two handlers were under way at once
    excused,    \* the role was approved once, or the owner had two requests under way at once

    removed,    \* the plugin, and with it the row, is deleted
    lock,       \* who selected the row FOR UPDATE
    logged,     \* the log's BUSINESS_PLUGIN_ENABLED entries less its _DISABLED ones
    crashed     \* the process ended while a handler was under way

-----------------------------------------------------------------------------
(* The businesses of one owner and their verification.  The owner creates, *)
(* resubmits, updates and deletes them, native and super administrators    *)
(* approve, reject and escalate them.  Nothing is locked: a handler checks *)
(* the row it has read, and commits the columns it assigned, those that    *)
(* differ from what it had read.                                           *)
reviewVars == <<row, granted, req, reviewed, excused>>

BusinessStatus     == {"ACTIVE", "INACTIVE"}
VerificationStatus == {"PENDING", "VERIFIED", "REJECTED"}
Admins == {"native", "super"}
NoRow  == [verification |-> "NONE", status |-> "INACTIVE", escalated |-> FALSE, by |-> "none"]
Gone   == [NoRow EXCEPT !.verification = "DELETED"]
Rows   == [verification: VerificationStatus \cup {"NONE", "DELETED"}, status: BusinessStatus,
           escalated: BOOLEAN, by: Admins \cup {"none"}]
OwnerOps == {"create", "resubmit", "activate", "deactivate", "delete"}
AdminOps == {"approve", "reject", "escalate", "create_for_owner"}
Idle   == [op |-> "idle", business |-> NoBusiness, writes |-> <<>>]

\* The columns of `writes`, written over those of the row `seen`.
Written(writes, seen) == [f \in DOMAIN seen |-> IF f \in DOMAIN writes THEN writes[f] ELSE seen[f]]

ReviewTypeOK ==
    /\ row \in [Businesses -> Rows]
    /\ {granted, excused} \subseteq BOOLEAN /\ reviewed \subseteq Businesses
    /\ DOMAIN req = Sessions
    /\ \A s \in Sessions :
        /\ DOMAIN req[s] = DOMAIN Idle
        /\ req[s].op \in OwnerOps \cup AdminOps \cup {"idle"} /\ req[s].business \in Businesses \cup {NoBusiness}
        /\ DOMAIN req[s].writes \subseteq DOMAIN NoRow /\ Written(req[s].writes, NoRow) \in Rows

ReviewInit ==
    /\ row = [b \in Businesses |-> NoRow] /\ granted = FALSE
    /\ req = [s \in Sessions |-> Idle] /\ reviewed = {} /\ excused = FALSE

Exists(b) == row[b] \notin {NoRow, Gone}
Pending   == {b \in Businesses : Exists(b) /\ row[b].verification = "PENDING"}

\* What the handler makes of the row that it reads.
Assigned(op, seen, admin) ==
    CASE op = "resubmit"   -> [seen EXCEPT !.verification = "PENDING", !.escalated = FALSE, !.by = "none"]
      [] op = "activate"   -> [seen EXCEPT !.status = "ACTIVE"]
      [] op = "deactivate" -> [seen EXCEPT !.status = "INACTIVE"]
      [] op \in {"approve", "create_for_owner"} ->
            [seen EXCEPT !.verification = "VERIFIED", !.status = "ACTIVE", !.by = admin]
      [] op = "reject"     -> [seen EXCEPT !.verification = "REJECTED", !.status = "INACTIVE", !.by = admin]
      [] op = "escalate"   -> [seen EXCEPT !.escalated = TRUE]
      [] op = "create"     -> [seen EXCEPT !.verification = "PENDING"]
      [] op = "delete"     -> seen
Differing(seen, new) == [f \in {f \in DOMAIN seen : new[f] # seen[f]} |-> new[f]]

Begin(s, op, b, admin) ==
    /\ req[s] = Idle
    /\ req' = [req EXCEPT ![s] = [op |-> op, business |-> b,
                                  writes |-> Differing(row[b], Assigned(op, row[b], admin))]]
    /\ reviewed' = IF \E r \in Sessions : req[r].business = b THEN reviewed \cup {b} ELSE reviewed
    /\ excused' = (excused \/ (op \in OwnerOps /\ \E r \in Sessions : req[r].op \in OwnerOps))
    /\ UNCHANGED <<row, granted>>

\* The UPDATE names the columns that differ.  Nobody reads a row again that was
\* deleted.
Commit(s) ==
    LET b == req[s].business IN
    /\ req[s] # Idle
    /\ row' = [row EXCEPT ![b] = IF req[s].op = "delete" \/ row[b] = Gone THEN Gone
                                ELSE Written(req[s].writes, row[b])]
    /\ req' = [req EXCEPT ![s] = Idle]
    /\ UNCHANGED <<granted, reviewed, excused>>

\* A check on what is not modelled refuses, or the process dies.
Abandon(s) ==
    /\ req[s] # Idle
    /\ req' = [req EXCEPT ![s] = Idle]
    /\ UNCHANGED <<row, granted, reviewed, excused>>

----------------------------------------------------------------------------
(* BusinessService *)

\* _ensure_no_other_pending_review
NoOtherPendingReview == granted \/ Pending = {}

\* A row that nobody knows of yet.
Fresh(b) == row[b] = NoRow /\ \A s \in Sessions : req[s].business # b

Create(s, b)         == Fresh(b) /\ NoOtherPendingReview /\ Begin(s, "create", b, "none")
CreateForOwner(s, b) == Fresh(b) /\ granted /\ Begin(s, "create_for_owner", b, "super")

Resubmit(s, b) ==
    /\ Exists(b) /\ row[b].verification = "REJECTED" /\ NoOtherPendingReview
    /\ Begin(s, "resubmit", b, "none")

\* _ensure_can_publish: `override` is the permission BUSINESS_UPDATE_ANY.
BrokenCanPublish(b, override) == override \/ granted
CanPublish(b, override) == row[b].verification = "VERIFIED" /\ (override \/ granted)
Activate(s, b) ==
    /\ Exists(b) /\ row[b].status # "ACTIVE" /\ \E override \in BOOLEAN : CanPublish(b, override)
    /\ Begin(s, "activate", b, "none")
Deactivate(s, b) == Exists(b) /\ Begin(s, "deactivate", b, "none")
Delete(s, b)     == Exists(b) /\ Begin(s, "delete", b, "none")

----------------------------------------------------------------------------
(* BusinessVerificationService *)

\* _get_resolvable
Resolvable(b, admin) == b \in Pending /\ (row[b].escalated => admin = "super")
Resolve(s, b, op, admin) == Resolvable(b, admin) /\ Begin(s, op, b, admin)
Escalate(s, b) == b \in Pending /\ ~row[b].escalated /\ Begin(s, "escalate", b, "native")

\* AccountRoles decides on the owner's role.
Grant(g) ==
    /\ granted' = g /\ excused' = (excused \/ g)
    /\ UNCHANGED <<row, req, reviewed>>

OwnerNext(s, b) ==
    Create(s, b) \/ Resubmit(s, b) \/ Activate(s, b) \/ Deactivate(s, b) \/ Delete(s, b)
AdminNext(s, b) ==
    \/ CreateForOwner(s, b) \/ Escalate(s, b)
    \/ \E op \in {"approve", "reject"}, admin \in Admins : Resolve(s, b, op, admin)

ReviewNext ==
    \/ \E s \in Sessions :
        \/ Commit(s) \/ Abandon(s)
        \/ \E b \in Businesses : OwnerNext(s, b) \/ AdminNext(s, b)
    \/ \E g \in BOOLEAN : Grant(g)

ReviewSpec == ReviewInit /\ [][ReviewNext]_reviewVars

\* The verification by itself, where there is no plugin.
noPluginVars   == <<removed, lock, logged, crashed>>
NoPluginInit   == ReviewInit /\ removed = TRUE /\ lock = NoSession /\ logged = 0 /\ crashed = FALSE
NoPluginReview == NoPluginInit /\ [][ReviewNext /\ UNCHANGED noPluginVars]_<<reviewVars, noPluginVars>>

----------------------------------------------------------------------------
(* As long as the handlers of a business do not overlap, it is active only *)
(* if it is verified, and an escalated review was resolved by a super      *)
(* administrator: whatever the sequence of reviews, updates and            *)
(* resubmissions.                                                          *)
ReviewsDecide ==
    \A b \in Businesses \ reviewed :
        /\ row[b].status = "ACTIVE" => row[b].verification = "VERIFIED"
        /\ row[b].escalated /\ row[b].verification # "PENDING" => row[b].by = "super"

(* An owner whose role was never approved and who sends one request at a   *)
(* time has one business under review at most, whatever the reviewers do.  *)
OnePendingReview == ~excused => Cardinality(Pending) <= 1

\* The inductive invariant.  A handler is about a business, and is its only one
\* unless that is noted; what it will write is then decided as it should be.
Decided(r) ==
    /\ r.status = "ACTIVE" => r.verification = "VERIFIED"
    /\ r.escalated /\ r.verification # "PENDING" => r.by = "super"
WritesDecided ==
    \A s \in Sessions : req[s] # Idle =>
        /\ req[s].business \in Businesses
        /\ req[s].business \notin reviewed => Decided(Written(req[s].writes, row[req[s].business]))
OneHandlerEach ==
    \A b \in Businesses \ reviewed : \A s, t \in Sessions :
        req[s].business = b /\ req[t].business = b => s = t

\* The owner who is not excused has one request under way at most, and none of his
\* businesses is pending while it submits one; nothing else submits any.
Submits == {"create", "resubmit"}
OneSubmission ==
    ~excused =>
        /\ ~granted
        /\ \A s, t \in Sessions : req[s].op \in OwnerOps /\ req[t].op \in OwnerOps => s = t
        /\ \A s \in Sessions : req[s].op \in Submits => Pending = {}
        /\ \A b, c \in Pending : b = c
OnlySubmits ==
    \A s \in Sessions :
        "verification" \in DOMAIN req[s].writes /\ req[s].writes["verification"] = "PENDING" => req[s].op \in Submits

ReviewIInv ==
    ReviewTypeOK /\ WritesDecided /\ OneHandlerEach /\ OneSubmission /\ OnlySubmits /\ ReviewsDecide

\* core/messages.py: "A business must be verified before it can be activated".
ActiveIsVerified ==
    \A b \in Businesses : Exists(b) /\ row[b].status = "ACTIVE" => row[b].verification = "VERIFIED"

-----------------------------------------------------------------------------
(* One plugin, one business whose category suits it, and the               *)
(* business_plugins row that says whether the plugin serves the business.  *)
(* The row is locked FOR UPDATE from when it is found to the commit; a     *)
(* first enable inserts it, and commits, with ON CONFLICT DO NOTHING.  The *)
(* activity log is written after the commit, in a transaction of its own.  *)
pluginVars == <<row, removed, lock, logged, req, crashed>>

NoHandler == [op |-> "none", at |-> "idle"]

PluginTypes ==
    /\ row \in {"NONE", "ACTIVE", "DISABLED"} /\ removed \in BOOLEAN /\ crashed \in BOOLEAN
    /\ lock \in Sessions \cup {NoSession} /\ logged \in Int
    /\ req \in [Sessions -> [op: {"none", "enable", "disable"},
                             at: {"idle", "find", "insert", "reread", "write", "log"}]]
PluginTypeOK ==
    PluginTypes /\ logged \in -2 * Cardinality(Sessions)..2 * Cardinality(Sessions) + 1

PluginInit ==
    /\ row = "NONE" /\ removed = FALSE /\ lock = NoSession
    /\ logged = 0 /\ req = [s \in Sessions |-> NoHandler] /\ crashed = FALSE

Goto(s, statement) == req' = [req EXCEPT ![s].at = statement]
End(s) == /\ req' = [req EXCEPT ![s] = NoHandler]
          /\ lock' = IF lock = s THEN NoSession ELSE lock

\* The business, the actor's role, the plugin and the categories are read.
Ask(s, op) ==
    /\ req[s] = NoHandler /\ ~removed
    /\ req' = [req EXCEPT ![s] = [op |-> op, at |-> "find"]]
    /\ UNCHANGED <<row, removed, lock, logged, crashed>>

\* A check refuses, the plugin is gone, or the process dies.
AbandonSwitch(s) ==
    /\ req[s].at # "idle" /\ (req[s].at = "log" => removed)
    /\ End(s)
    /\ UNCHANGED <<row, removed, logged, crashed>>

\* get_for_update: waits for who has the row.
FindRow(s) ==
    /\ req[s].at \in {"find", "reread"}
    /\ row # "NONE" /\ lock = NoSession
    /\ lock' = s
    /\ Goto(s, "write")
    /\ UNCHANGED <<row, removed, logged, crashed>>

FindNothing(s) ==
    /\ req[s].at = "find" /\ row = "NONE"
    /\ IF req[s].op = "enable" THEN Goto(s, "insert") /\ UNCHANGED lock ELSE End(s)
    /\ UNCHANGED <<row, removed, logged, crashed>>

\* add_if_absent; when the plugin is gone the foreign key fails (Abandon).
Insert(s) ==
    /\ req[s].at = "insert" /\ ~removed
    /\ IF row = "NONE" THEN row' = "ACTIVE" /\ Goto(s, "log")
                       ELSE Goto(s, "reread") /\ UNCHANGED row
    /\ UNCHANGED <<removed, lock, logged, crashed>>

Target(op)    == IF op = "enable" THEN "ACTIVE" ELSE "DISABLED"
Changes(s)    == row # Target(req[s].op)

CommitStatus(s) ==
    /\ req[s].at = "write"
    /\ IF Changes(s)
       THEN /\ row' = Target(req[s].op)
            /\ Goto(s, "log")
            /\ lock' = NoSession
       ELSE End(s) /\ UNCHANGED row
    /\ UNCHANGED <<removed, logged, crashed>>

WriteLog(s) ==
    /\ req[s].at = "log"
    /\ logged' = IF req[s].op = "enable" THEN logged + 1 ELSE logged - 1
    /\ End(s)
    /\ UNCHANGED <<row, removed, crashed>>

\* PluginUninstallService: the row goes with the plugin's.
RemovePlugin ==
    /\ ~removed /\ lock = NoSession
    /\ row' = "NONE" /\ removed' = TRUE
    /\ UNCHANGED <<lock, logged, req, crashed>>

\* Bound: one crash that loses entries.
Restart ==
    /\ ~crashed
    /\ req' = [s \in Sessions |-> NoHandler] /\ lock' = NoSession
    /\ crashed' = (crashed \/ \E s \in Sessions : req[s].at = "log")
    /\ UNCHANGED <<row, removed, logged>>

PluginNext ==
    \/ \E s \in Sessions :
        \/ FindRow(s) \/ FindNothing(s) \/ Insert(s) \/ CommitStatus(s) \/ WriteLog(s) \/ AbandonSwitch(s)
        \/ \E op \in {"enable", "disable"} : Ask(s, op)
    \/ RemovePlugin
    \/ Restart

PluginSpec == PluginInit /\ [][PluginNext]_pluginVars

----------------------------------------------------------------------------
(* Every change of the row is logged once, and nothing else is: the log's  *)
(* entries and those still to be written add up to the row's status,       *)
(* however enables and disables interleave.  A crash may lose an entry.    *)
ToLog(op) == Cardinality({s \in Sessions : req[s] = [op |-> op, at |-> "log"]})
ChangesLoggedOnce ==
    ~crashed /\ ~removed =>
        logged + ToLog("enable") - ToLog("disable") = IF row = "ACTIVE" THEN 1 ELSE 0
\* The inductive invariant: who inserts the row enables the plugin, and a row that
\* was found stays until the plugin is removed.
RowFound ==
    \A s \in Sessions :
        /\ req[s].at # "idle" => req[s].op \in {"enable", "disable"}
        /\ req[s].at = "insert" => req[s].op = "enable"
        /\ req[s].at \in {"reread", "write"} /\ ~removed => row # "NONE"
PluginIInv == PluginTypes /\ RowFound /\ ChangesLoggedOnce
=============================================================================
