---------------------------- MODULE Notifications ---------------------------
(***************************************************************************)
(* How users are told, in two machines that run apart, and to each of      *)
(* which `req` is its own: the notifications of one connected user         *)
(* (Notice...), and push messages to devices (Push...).                    *)
(***************************************************************************)
EXTENDS Naturals, FiniteSets

CONSTANTS Sessions,
          Notes,     \* the notifications that may be created
          Users, NoUser,
          Tokens,    \* the tokens that devices are given, one each
          NoToken,
          Workers,
          MaxPushes  \* bound: messages submitted

VARIABLES
    req,         \* each session's handler; for devices, its registration or removal

    settings,    \* the user's settings: no row yet, or whether this kind is wanted
    unread, read, \* the notifications committed
    badge, listed, \* the count, and the unread notifications, of the client
    overlapped,  \* the kinds of handlers that overlapped
    cut,         \* a process died between a commit and its event

    owner,       \* the rows of device_tokens: each token's user
    alive,       \* the tokens that the push service knows
    pushes,      \* messages submitted so far
    queue,       \* those not yet taken, for each user
    job,         \* each worker's tokens left and found invalid
    signed,      \* who last registered on each token's device, and did not leave it
    contested    \* the tokens registered while their row was being removed

-----------------------------------------------------------------------------
(* The notifications of one user, who is connected: each handler commits,  *)
(* counts the unread ones, and then publishes an event with that count,    *)
(* which the client shows.  What handlers of several sessions publish      *)
(* arrives in any order.                                                   *)
noticeVars == <<settings, unread, read, req, badge, listed, overlapped, cut>>

Idle == [op |-> "idle", at |-> "idle", notes |-> {}, count |-> 0]

NoticeTypeOK ==
    /\ settings \in {"none", "on", "off"}
    /\ unread \subseteq Notes /\ read \subseteq Notes /\ unread \cap read = {}
    /\ req \in [Sessions -> [op: {"idle", "create", "read", "all read"},
                             at: {"idle", "add settings", "settings", "commit", "count", "publish"},
                             notes: SUBSET Notes, count: 0..Cardinality(Notes)]]
    /\ badge \in 0..Cardinality(Notes) /\ listed \subseteq Notes
    /\ overlapped \subseteq {"create", "read", "all read"} /\ cut \in BOOLEAN

NoticeInit ==
    /\ settings = "none" /\ unread = {} /\ read = {} /\ badge = 0 /\ listed = {}
    /\ req = [s \in Sessions |-> Idle]
    /\ overlapped = {} /\ cut = FALSE

Running == {s \in Sessions : req[s] # Idle}

Begin(s, op, at, notes) ==
    /\ req[s] = Idle
    /\ req' = [req EXCEPT ![s] = [op |-> op, at |-> at, notes |-> notes, count |-> 0]]
    /\ overlapped' = overlapped \cup IF Running = {} THEN {} ELSE {op} \cup {req[t].op : t \in Running}
    /\ UNCHANGED <<settings, unread, read, badge, listed, cut>>

Goto(s, at) == req' = [req EXCEPT ![s].at = at] /\ UNCHANGED <<badge, listed, overlapped, cut>>
End(s) == req' = [req EXCEPT ![s] = Idle] /\ UNCHANGED <<settings, unread, read, overlapped>>

----------------------------------------------------------------------------
(* _create_if_enabled                                                      *)

Create(s) == \E n \in Notes \ (unread \cup read) :
    /\ \A t \in Sessions : n \notin req[t].notes
    /\ Begin(s, "create", IF settings = "none" THEN "add settings" ELSE "settings", {n})

\* _get_or_create_settings: of two at once the second fails on the unique index,
\* and with it the request that it is part of.
AddSettings(s) ==
    /\ req[s].at = "add settings" /\ settings = "none"
    /\ settings' = "on" /\ Goto(s, "commit") /\ UNCHANGED <<unread, read>>

\* Not wanted: nothing is created.
Wanted(s) ==
    /\ req[s].at = "settings" /\ settings = "on"
    /\ Goto(s, "commit") /\ UNCHANGED <<settings, unread, read>>

\* The user edits the settings.
EditSettings ==
    /\ settings' \in {"on", "off"} \ {settings}
    /\ UNCHANGED <<unread, read, req, badge, listed, overlapped, cut>>

AddNote(s) ==
    /\ req[s].op = "create" /\ req[s].at = "commit"
    /\ unread' = unread \cup req[s].notes
    /\ Goto(s, "count") /\ UNCHANGED <<settings, read>>

----------------------------------------------------------------------------
(* mark_notification_read, mark_all_notifications_read: only what was      *)
(* unread is published; of two that read one notification both do.         *)

MarkRead(s, n) == n \in unread /\ Begin(s, "read", "commit", {n})
MarkAllRead(s) == Begin(s, "all read", "commit", {})

CommitRead(s) ==
    LET marked == IF req[s].op = "read" THEN req[s].notes ELSE unread IN
    /\ req[s].op \in {"read", "all read"} /\ req[s].at = "commit"
    /\ marked # {}
    /\ unread' = unread \ marked /\ read' = read \cup marked
    /\ Goto(s, "count") /\ UNCHANGED settings

----------------------------------------------------------------------------
(* _publish_created, _publish_read, and what the documentation asks of the *)
(* client: set the badge, and add the notification or mark it read.        *)

CountUnread(s) ==
    /\ req[s].at = "count"
    /\ req' = [req EXCEPT ![s].at = "publish", ![s].count = Cardinality(unread)]
    /\ UNCHANGED <<settings, unread, read, badge, listed, overlapped, cut>>

Published(r) ==
    CASE r.op = "create"   -> listed \cup r.notes
      [] r.op = "read"     -> listed \ r.notes
      [] r.op = "all read" -> {}

Publish(s) ==
    /\ req[s].at = "publish"
    /\ badge' = req[s].count /\ listed' = Published(req[s])
    /\ End(s) /\ UNCHANGED cut

\* The handler fails, or finds nothing to do; or the process dies.
Abandon(s) ==
    /\ req[s] # Idle /\ End(s)
    /\ cut' = (cut \/ req[s].at \in {"count", "publish"})
    /\ UNCHANGED <<badge, listed>>

\* The client asks for the list and the count, while nothing runs.
Reload ==
    /\ Running = {} /\ badge' = Cardinality(unread) /\ listed' = unread
    /\ overlapped' = {} /\ cut' = FALSE
    /\ UNCHANGED <<settings, unread, read, req>>

NoticeNext ==
    \/ \E s \in Sessions :
        \/ Create(s) \/ AddSettings(s) \/ Wanted(s) \/ AddNote(s)
        \/ \E n \in Notes : MarkRead(s, n)
        \/ MarkAllRead(s) \/ CommitRead(s)
        \/ CountUnread(s) \/ Publish(s) \/ Abandon(s)
    \/ EditSettings \/ Reload

NoticeSpec == NoticeInit /\ [][NoticeNext]_noticeVars

----------------------------------------------------------------------------
(* Once the handlers have ended the client shows as unread what is, though *)
(* they overlapped, if it is only creations that did, or only readings, of *)
(* one or of all; and the badge is the count, if none did. An event may    *)
(* still be missing when a process died before it published.               *)
ClientShowsUnread ==
    Running = {} /\ ~cut =>
        /\ "create" \notin overlapped \/ overlapped = {"create"} => listed = unread
        /\ overlapped = {} => badge = Cardinality(unread)

-----------------------------------------------------------------------------
(* Devices register the token they were given and are removed; a worker    *)
(* thread reads the tokens of a message's user, sends to one after the     *)
(* other, and deletes those that the push service no longer knows.         *)
pushVars == <<owner, alive, pushes, queue, job, req, signed, contested>>

NoJob == [at |-> "idle", left |-> {}, invalid |-> {}]
NoHandler  == [op |-> "idle", user |-> NoUser, token |-> NoToken]

PushTypeOK ==
    /\ owner \in [Tokens -> Users \cup {NoUser}] /\ signed \in [Tokens -> Users \cup {NoUser}]
    /\ alive \subseteq Tokens /\ contested \subseteq Tokens
    /\ pushes \in 0..MaxPushes /\ queue \in [Users -> 0..MaxPushes]
    /\ job \in [Workers -> [at: {"idle", "send"}, left: SUBSET Tokens, invalid: SUBSET Tokens]]
    /\ req \in [Sessions -> [op: {"idle", "register", "remove"}, user: Users \cup {NoUser},
                             token: Tokens \cup {NoToken}]]

PushInit ==
    /\ owner = [t \in Tokens |-> NoUser] /\ signed = owner
    /\ alive = Tokens /\ contested = {}
    /\ pushes = 0 /\ queue = [u \in Users |-> 0]
    /\ job = [w \in Workers |-> NoJob] /\ req = [s \in Sessions |-> NoHandler]

----------------------------------------------------------------------------
(* DeviceTokenService                                                      *)

Removing(t) == \E s \in Sessions : req[s].op = "remove" /\ req[s].token = t

\* The answer to a registration: the device counts on it from now on.
SignIn(u, t) ==
    /\ signed' = [signed EXCEPT ![t] = u]
    /\ contested' = IF Removing(t) THEN contested \cup {t} ELSE contested \ {t}

\* register: a device registered for this user already is left as it is; the
\* statement that registers another's moves the token.
Register(s, u, t) ==
    /\ req[s] = NoHandler /\ t \in alive
    /\ IF owner[t] = u
       THEN SignIn(u, t) /\ UNCHANGED req
       ELSE /\ req' = [req EXCEPT ![s] = [op |-> "register", user |-> u, token |-> t]]
            /\ UNCHANGED <<signed, contested>>
    /\ UNCHANGED <<owner, alive, pushes, queue, job>>

Upsert(s) ==
    LET r == req[s] IN
    /\ r.op = "register"
    /\ owner' = [owner EXCEPT ![r.token] = r.user]
    /\ SignIn(r.user, r.token)
    /\ req' = [req EXCEPT ![s] = NoHandler]
    /\ UNCHANGED <<alive, pushes, queue, job>>

\* delete_for_user: the row is read with its user ...
BrokenOwned(u, t) == owner[t] # NoUser
Owned(u, t) == owner[t] = u
Remove(s, u, t) ==
    /\ req[s] = NoHandler /\ Owned(u, t)
    /\ req' = [req EXCEPT ![s] = [op |-> "remove", user |-> u, token |-> t]]
    /\ signed' = [signed EXCEPT ![t] = IF @ = u THEN NoUser ELSE @]
    /\ UNCHANGED <<owner, alive, pushes, queue, job, contested>>

\* ... and deleted by its key, whoever's it is by then.
DeleteRow(s) ==
    /\ req[s].op = "remove"
    /\ owner' = [owner EXCEPT ![req[s].token] = NoUser]
    /\ req' = [req EXCEPT ![s] = NoHandler]
    /\ UNCHANGED <<alive, pushes, queue, job, signed, contested>>

\* The app is uninstalled: its token is not given again.
Uninstall(t) ==
    /\ t \in alive /\ alive' = alive \ {t}
    /\ UNCHANGED <<owner, pushes, queue, job, req, signed, contested>>

----------------------------------------------------------------------------
(* PushPublisher and FcmPushSender                                         *)

PublishPush(u) ==
    /\ pushes < MaxPushes /\ pushes' = pushes + 1
    /\ queue' = [queue EXCEPT ![u] = @ + 1]
    /\ UNCHANGED <<owner, alive, job, req, signed, contested>>

\* _deliver: a user without devices is not sent to.
Take(w, u) ==
    LET tokens == {t \in Tokens : owner[t] = u} IN
    /\ job[w] = NoJob /\ queue[u] > 0
    /\ queue' = [queue EXCEPT ![u] = @ - 1]
    /\ job' = [job EXCEPT ![w] =
          IF tokens = {} THEN NoJob ELSE [at |-> "send", left |-> tokens, invalid |-> {}]]
    /\ UNCHANGED <<owner, alive, pushes, req, signed, contested>>

\* _send_one: one that fails is not tried again, and one that the service does
\* not know is invalid.
Outcomes(t) == IF t \in alive THEN {"delivered", "failed"} ELSE {"invalid", "failed"}
SendOne(w, t) ==
    /\ t \in job[w].left
    /\ \E outcome \in Outcomes(t) :
         job' = [job EXCEPT ![w].left = @ \ {t},
                            ![w].invalid = IF outcome = "invalid" THEN @ \cup {t} ELSE @]
    /\ UNCHANGED <<owner, alive, pushes, queue, req, signed, contested>>

DeleteInvalid(w) ==
    /\ job[w].at = "send" /\ job[w].left = {}
    /\ owner' = [t \in Tokens |-> IF t \in job[w].invalid THEN NoUser ELSE owner[t]]
    /\ job' = [job EXCEPT ![w] = NoJob]
    /\ UNCHANGED <<alive, pushes, queue, req, signed, contested>>

\* The process ends: what was queued is lost.
Crash ==
    /\ job' = [w \in Workers |-> NoJob] /\ queue' = [u \in Users |-> 0]
    /\ req' = [s \in Sessions |-> NoHandler]
    /\ UNCHANGED <<owner, alive, pushes, signed, contested>>

PushNext ==
    \/ \E s \in Sessions :
        \/ \E u \in Users, t \in Tokens : Register(s, u, t) \/ Remove(s, u, t)
        \/ Upsert(s) \/ DeleteRow(s)
    \/ \E t \in Tokens : Uninstall(t)
    \/ \E u \in Users : PublishPush(u)
    \/ \E w \in Workers :
        \/ \E u \in Users : Take(w, u)
        \/ \E t \in Tokens : SendOne(w, t)
        \/ DeleteInvalid(w)
    \/ Crash

PushSpec == PushInit /\ [][PushNext]_pushVars

----------------------------------------------------------------------------
(* A device that registered and has not asked to be removed is registered, *)
(* for the user who registered last, as long as the push service knows it: *)
(* what a worker deletes could not have been reached. The exception is a   *)
(* device that registered while its row was being removed.                 *)
RegistrationsKept ==
    \A t \in alive \ contested : signed[t] # NoUser => owner[t] = signed[t]
=============================================================================
