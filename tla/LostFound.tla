----------------------------- MODULE LostFound ------------------------------
(***************************************************************************)
(* One report of a lost or found thing: the users near it are told of it,  *)
(* some respond to its owner, and when it is resolved all of them are told *)
(* that it is closed.  Who was told and who responded is kept nowhere but  *)
(* in the notifications; each is a commit of its own.                      *)
(***************************************************************************)
EXTENDS Integers, FiniteSets

CONSTANTS Users,     \* the users other than the owner
          Owner,
          Sessions,
          MaxTimes   \* bound: notifications of a kind to or from one user

VARIABLES
    status,    \* of the report: "none" before it is committed
    deleted,
    listening, \* who has system_updates on: the others get no notification
    nearby,    \* the users with a notification that the report was made
    responses, \* how many responses of each user the owner was notified of
    accepted,  \* who was answered that the response is delivered
    closed,    \* how many notifications of the closing each user has
    req,       \* each session's handler
    overlapped,\* handlers about the report ran at the same time
    cut        \* one of them was cut short

vars == <<status, deleted, listening, nearby, responses, accepted, closed, req, overlapped, cut>>

All  == Users \cup {Owner}
Idle == [op |-> "idle", at |-> "idle", actor |-> Owner, tell |-> {}]

TypeOK ==
    /\ status \in {"none", "open", "resolved"} /\ deleted \in BOOLEAN
    /\ listening \subseteq All /\ nearby \subseteq Users \cap listening /\ accepted \subseteq Users
    /\ responses \in [Users -> 0..MaxTimes] /\ closed \in [Users -> 0..MaxTimes]
    /\ req \in [Sessions -> [op: {"idle", "create", "respond", "resolve", "delete"},
                             at: {"idle", "add", "nearby", "notify", "log", "save", "responders", "closed"},
                             actor: All, tell: SUBSET Users]]
    /\ overlapped \in BOOLEAN /\ cut \in BOOLEAN

Init ==
    /\ status = "none" /\ deleted = FALSE /\ listening \in SUBSET All
    /\ nearby = {} /\ accepted = {}
    /\ responses = [u \in Users |-> 0] /\ closed = [u \in Users |-> 0]
    /\ req = [s \in Sessions |-> Idle] /\ overlapped = FALSE /\ cut = FALSE

Found == status # "none" /\ ~deleted
data  == <<status, deleted, listening, nearby, responses, accepted, closed>>

Begin(s, op, actor, at) ==
    /\ req[s].op = "idle"
    /\ req' = [req EXCEPT ![s] = [Idle EXCEPT !.op = op, !.actor = actor, !.at = at]]
    /\ overlapped' = (overlapped \/ \E o \in Sessions \ {s} : req[o].op # "idle")
    /\ UNCHANGED <<cut, data>>
Goto(s, at) == req' = [req EXCEPT ![s].at = at]
End(s)      == req' = [req EXCEPT ![s] = Idle]

\* create: whoever is near when the report is committed is told, one by one.
Create(s) ==
    /\ status = "none" /\ \A o \in Sessions : req[o].op # "create"
    /\ Begin(s, "create", Owner, "add")
AddReport(s) ==
    /\ req[s].op = "create" /\ req[s].at = "add"
    /\ status' = "open"
    /\ \E near \in SUBSET Users : req' = [req EXCEPT ![s].at = "nearby", ![s].tell = near]
    /\ UNCHANGED <<deleted, listening, nearby, responses, accepted, closed, overlapped, cut>>
TellNearby(s) ==
    /\ req[s].at = "nearby"
    /\ IF req[s].tell = {} THEN End(s) /\ UNCHANGED nearby
       ELSE \E u \in req[s].tell :
              /\ nearby' = nearby \cup ({u} \cap listening)
              /\ req' = [req EXCEPT ![s].tell = @ \ {u}]
    /\ UNCHANGED <<status, deleted, listening, responses, accepted, closed, overlapped, cut>>

\* respond: the report is open, and the owner has no notification of a response
\* of this user.
Respond(s, u) ==
    /\ Found /\ status = "open" /\ responses[u] = 0
    /\ Begin(s, "respond", u, "notify")

\* notify_lost_found_response: nothing is kept if the owner does not listen.
NotifyOwner(s) ==
    LET u == req[s].actor IN
    /\ req[s].at = "notify"
    /\ responses[u] < MaxTimes
    /\ responses' = IF Owner \in listening THEN [responses EXCEPT ![u] = @ + 1] ELSE responses
    /\ Goto(s, "log")
    /\ UNCHANGED <<status, deleted, listening, nearby, accepted, closed, overlapped, cut>>
\* The response is logged, in a commit of its own, and the user is answered.
LogResponse(s) ==
    /\ req[s].at = "log"
    /\ accepted' = accepted \cup {req[s].actor} /\ End(s)
    /\ UNCHANGED <<status, deleted, listening, nearby, responses, closed, overlapped, cut>>

\* resolve: by the owner, or by someone with the permission.
Resolve(s, actor) == Found /\ status = "open" /\ Begin(s, "resolve", actor, "save")
SaveResolved(s) ==
    /\ req[s].op = "resolve" /\ req[s].at = "save"
    /\ status' = "resolved" /\ Goto(s, "responders")
    /\ UNCHANGED <<deleted, listening, nearby, responses, accepted, closed, overlapped, cut>>

Responders == {u \in Users : responses[u] > 0}
\* notify_lost_found_closed: who was told of the report, and who responded.
FindInformed(s) ==
    /\ req[s].at = "responders"
    /\ req' = [req EXCEPT ![s].at = "closed", ![s].tell = (nearby \cup Responders) \ {req[s].actor}]
    /\ UNCHANGED <<data, overlapped, cut>>
TellClosed(s) ==
    /\ req[s].at = "closed"
    /\ IF req[s].tell = {} THEN End(s) /\ UNCHANGED closed
       ELSE \E u \in req[s].tell :
              /\ closed[u] < MaxTimes
              /\ closed' = IF u \in listening THEN [closed EXCEPT ![u] = @ + 1] ELSE closed
              /\ req' = [req EXCEPT ![s].tell = @ \ {u}]
    /\ UNCHANGED <<status, deleted, listening, nearby, responses, accepted, overlapped, cut>>

\* delete: open or resolved; nobody is told.
Delete(s) == Found /\ Begin(s, "delete", Owner, "save")
SaveDeleted(s) ==
    /\ req[s].op = "delete" /\ deleted' = TRUE /\ End(s)
    /\ UNCHANGED <<status, listening, nearby, responses, accepted, closed, overlapped, cut>>

\* The process dies, or a statement fails.
CutShort(s) ==
    /\ req[s].op # "idle" /\ End(s) /\ cut' = TRUE
    /\ UNCHANGED <<data, overlapped>>

Next ==
    \E s \in Sessions :
        \/ Create(s) \/ AddReport(s) \/ TellNearby(s)
        \/ \E u \in Users : Respond(s, u)
        \/ \E a \in All : Resolve(s, a)
        \/ NotifyOwner(s) \/ LogResponse(s) \/ SaveResolved(s) \/ FindInformed(s) \/ TellClosed(s)
        \/ Delete(s) \/ SaveDeleted(s) \/ CutShort(s)

Spec == Init /\ [][Next]_vars

-----------------------------------------------------------------------------
Settled == \A s \in Sessions : req[s].op = "idle"

(* When a resolution has ended, whoever was told of the report, or whose   *)
(* response the owner was notified of, was told once that it is closed,    *)
(* unless handlers overlapped or one was cut short.  The user who resolves *)
(* it is not told, and nobody is who does not listen.                      *)
ClosingTold ==
    Settled /\ ~overlapped /\ ~cut =>
        /\ \A u \in Users : closed[u] <= IF status = "resolved" THEN 1 ELSE 0
        /\ status = "resolved" =>
             Cardinality({u \in (nearby \cup Responders) \cap listening : closed[u] = 0}) <= 1

(* A user responds once, as long as the owner listens: the notification is *)
(* all that remembers it.  Who is answered has a response with the owner;  *)
(* whose handler was cut short before the answer has one, too, and cannot  *)
(* respond again.                                                          *)
Logging(u)  == \E s \in Sessions : req[s].at = "log" /\ req[s].actor = u
OneResponse ==
    /\ ~overlapped => \A u \in Users : responses[u] <= 1
    /\ Owner \in listening =>
          accepted \subseteq Responders /\ \A u \in Responders \ accepted : Logging(u) \/ cut
=============================================================================
