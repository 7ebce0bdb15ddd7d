-------------------------------- MODULE Chats -------------------------------
(***************************************************************************)
(* Chats, in two machines over variables of their own: the conversation of *)
(* two users, and the chat of a community.                                 *)
(***************************************************************************)
EXTENDS Naturals, FiniteSets

CONSTANTS Users, NoUser,
          Messages, NoMessage,
          Sessions,
          PageSize,
          MaxTime    \* bound: messages sent and readings begun

VARIABLES
    req,     \* each session's handler
    muddled, \* the messages sent while the other one, or the reader, read
    cut,     \* a process died between a commit and its event

    started, \* the row of chat_conversations
    sender,  \* the rows of direct_messages: who sent each
    read,    \* those with a read_at
    blocks,  \* who blocks the other
    told,    \* the messages that the clients have
    ticked,  \* those that their senders' clients show as read

    clock,   \* when the last request began
    sent,    \* the rows of community_messages: when each is dated
    mark,    \* the reader's last_read_at, or when the reader joined
    timeline, \* the messages in the reader's client
    pager,   \* the next page it asks for: those before this date
    seen,    \* the messages there were when the mark was last written
    swapped  \* the messages whose deletion overlapped with their sending

-----------------------------------------------------------------------------
(* The conversation of two users: messages are sent and read, either       *)
(* blocks the other, and each one's client ticks the messages it sent when *)
(* it is told that they were read.  Each handler checks, commits, and then *)
(* tells the clients.                                                      *)
directVars == <<started, sender, read, blocks, req, told, ticked, muddled, cut>>

Idle == [op |-> "idle", at |-> "idle", user |-> NoUser, msg |-> NoMessage]

DirectTypeOK ==
    /\ started \in BOOLEAN /\ cut \in BOOLEAN
    /\ sender \in [Messages -> Users \cup {NoUser}]
    /\ \A set \in {read, told, ticked, muddled} : set \subseteq Messages
    /\ blocks \subseteq Users
    /\ req \in [Sessions -> [op: {"idle", "send", "read"},
                             at: {"idle", "conversation", "insert", "update", "publish"},
                             user: Users \cup {NoUser}, msg: Messages \cup {NoMessage}]]

DirectInit ==
    /\ started = FALSE /\ sender = [m \in Messages |-> NoUser] /\ read = {} /\ blocks = {}
    /\ req = [s \in Sessions |-> Idle]
    /\ told = {} /\ ticked = {} /\ muddled = {} /\ cut = FALSE

Existing == {m \in Messages : sender[m] # NoUser}
Sent(u)  == {m \in Messages : sender[m] = u}
Sending  == {req[s].msg : s \in {t \in Sessions : req[t].op = "send"}}
Reading  == {s \in Sessions : req[s].op = "read"}

Goto(s, at) ==
    /\ req' = [req EXCEPT ![s].at = at]
    /\ UNCHANGED <<blocks, told, ticked, muddled, cut>>
End(s) == req' = [req EXCEPT ![s] = Idle] /\ UNCHANGED <<started, sender, read, blocks, muddled>>

----------------------------------------------------------------------------
(* DirectChatService.send                                                  *)

\* _ensure_can_message: nobody blocks the other, now.
Send(s, u, m) ==
    /\ req[s] = Idle /\ m \notin Existing \cup Sending
    /\ blocks = {}
    /\ req' = [req EXCEPT ![s] = [op |-> "send", at |-> "conversation", user |-> u, msg |-> m]]
    /\ muddled' = IF Reading # {} THEN muddled \cup {m} ELSE muddled
    /\ UNCHANGED <<started, sender, read, blocks, told, ticked, cut>>

\* get_or_create, committed before the message
GetOrCreate(s) ==
    /\ req[s].op = "send" /\ req[s].at = "conversation"
    /\ started' = TRUE /\ Goto(s, "insert") /\ UNCHANGED <<sender, read>>

AddMessage(s) ==
    /\ req[s].op = "send" /\ req[s].at = "insert"
    /\ sender' = [sender EXCEPT ![req[s].msg] = req[s].user]
    /\ Goto(s, "publish") /\ UNCHANGED <<started, read>>

\* _publish: to both; the message is told with the read_at it was loaded with.
PublishMessage(s) ==
    /\ req[s].op = "send" /\ req[s].at = "publish"
    /\ told' = told \cup {req[s].msg} /\ End(s)
    /\ UNCHANGED <<ticked, cut>>

----------------------------------------------------------------------------
(* DirectChatService.mark_read                                             *)

MarkRead(s, u) ==
    /\ req[s] = Idle /\ started
    /\ req' = [req EXCEPT ![s] = [op |-> "read", at |-> "update", user |-> u, msg |-> NoMessage]]
    /\ muddled' = muddled \cup Sending
    /\ UNCHANGED <<started, sender, read, blocks, told, ticked, cut>>

\* The UPDATE of what the other sent; nothing is told when it changes nothing.
UpdateRead(s) ==
    LET marked == (Existing \ Sent(req[s].user)) \ read IN
    /\ req[s].op = "read" /\ req[s].at = "update"
    /\ read' = read \cup marked
    /\ IF marked # {} THEN Goto(s, "publish") /\ UNCHANGED <<started, sender>>
                      ELSE req' = [req EXCEPT ![s] = Idle]
                           /\ UNCHANGED <<started, sender, blocks, told, ticked, muddled, cut>>

\* The other's client ticks all that it sent, as it is told to.
PublishRead(s) ==
    /\ req[s].op = "read" /\ req[s].at = "publish"
    /\ ticked' = ticked \cup (told \ Sent(req[s].user)) /\ End(s)
    /\ UNCHANGED <<told, cut>>

----------------------------------------------------------------------------
\* UserBlockService
Block(u) ==
    /\ u \notin blocks /\ blocks' = blocks \cup {u}
    /\ UNCHANGED <<started, sender, read, req, told, ticked, muddled, cut>>

Unblock(u) ==
    /\ u \in blocks /\ blocks' = blocks \ {u}
    /\ UNCHANGED <<started, sender, read, req, told, ticked, muddled, cut>>

\* A check or a statement fails, or the process dies.
Abandon(s) ==
    /\ req[s] # Idle /\ End(s) /\ cut' = (cut \/ req[s].at = "publish")
    /\ UNCHANGED <<told, ticked>>

DirectNext ==
    \/ \E s \in Sessions :
        \/ \E u \in Users : MarkRead(s, u) \/ \E m \in Messages : Send(s, u, m)
        \/ GetOrCreate(s) \/ AddMessage(s) \/ PublishMessage(s)
        \/ UpdateRead(s) \/ PublishRead(s) \/ Abandon(s)
    \/ \E u \in Users : Block(u) \/ Unblock(u)

DirectSpec == DirectInit /\ [][DirectNext]_directVars

----------------------------------------------------------------------------
(* What a sender's client ticks has been read, and what was read is ticked *)
(* once the handlers have ended, except messages sent while the other one  *)
(* read: the client ticks all it has when it is told of a reading, and a   *)
(* reading that finds nothing more to mark tells nothing.                  *)
TicksTrue ==
    /\ ticked \subseteq read \cup muddled
    /\ (~cut /\ \A s \in Sessions : req[s] = Idle) => read \subseteq ticked \cup muddled

-----------------------------------------------------------------------------
(* The chat of one community as one of its members, the reader, has it:    *)
(* the messages of others, the mark that says how far the reader has read, *)
(* and the timeline that the reader's client loads page by page while      *)
(* events arrive.  A row is dated with the start of its transaction, which *)
(* is that of the request, and its event is sent after the commit.         *)
communityVars == <<clock, sent, mark, req, timeline, pager, seen, muddled, swapped, cut>>

Absent == 0
Loaded == 0
NoHandler == [op |-> "idle", at |-> "idle", msg |-> NoMessage, date |-> 0, during |-> {}]

CommunityTypeOK ==
    /\ clock \in 0..MaxTime /\ mark \in 0..MaxTime
    /\ sent \in [Messages -> 0..MaxTime]
    /\ req \in [Sessions ->
         [op: {"idle", "send", "delete", "read"}, at: {"idle", "commit", "publish"},
          msg: Messages \cup {NoMessage}, date: 0..MaxTime, during: SUBSET Messages]]
    /\ timeline \subseteq Messages /\ pager \in 0..MaxTime + 1
    /\ seen \subseteq Messages /\ muddled \subseteq Messages /\ swapped \subseteq Messages
    /\ cut \in BOOLEAN

CommunityInit ==
    /\ clock = 0 /\ mark = 0 /\ sent = [m \in Messages |-> Absent]
    /\ req = [s \in Sessions |-> NoHandler]
    /\ timeline = {} /\ pager = MaxTime + 1
    /\ seen = {} /\ muddled = {} /\ swapped = {} /\ cut = FALSE

Present     == {m \in Messages : sent[m] # Absent}
Running(op) == {s \in Sessions : req[s].op = op}
BeingSent   == {req[s].msg : s \in Running("send")}
Committing  == {req[s].msg : s \in {t \in Running("send") : req[t].at = "commit"}}
Marking     == {s \in Running("read") : req[s].at = "commit"}

----------------------------------------------------------------------------
(* CommunityChatService                                                    *)

\* send: the reader's handlers that run now may or may not see the message.
SendToAll(s, m) ==
    /\ req[s] = NoHandler /\ m \notin Present \cup timeline \cup seen \cup muddled \cup swapped
    /\ \A t \in Sessions : req[t].msg # m
    /\ clock < MaxTime /\ clock' = clock + 1
    /\ req' = [t \in Sessions |->
                 IF t = s THEN [NoHandler EXCEPT !.op = "send", !.at = "commit", !.msg = m, !.date = clock + 1]
                 ELSE IF t \in Marking THEN [req[t] EXCEPT !.during = @ \cup {m}] ELSE req[t]]
    /\ UNCHANGED <<sent, mark, timeline, pager, seen, muddled, swapped, cut>>

CommitMessage(s) ==
    /\ req[s].op = "send" /\ req[s].at = "commit"
    /\ sent' = [sent EXCEPT ![req[s].msg] = req[s].date]
    /\ req' = [req EXCEPT ![s].at = "publish"]
    /\ UNCHANGED <<clock, mark, timeline, pager, seen, muddled, swapped, cut>>

\* delete, by the sender or the owner; two may delete one message, and both say
\* so to the members.
Delete(s, m) ==
    /\ req[s] = NoHandler /\ m \in Present
    /\ req' = [req EXCEPT ![s] = [NoHandler EXCEPT !.op = "delete", !.at = "commit", !.msg = m]]
    /\ swapped' = IF m \in BeingSent THEN swapped \cup {m} ELSE swapped
    /\ UNCHANGED <<clock, sent, mark, timeline, pager, seen, muddled, cut>>

CommitDelete(s) ==
    /\ req[s].op = "delete" /\ req[s].at = "commit"
    /\ sent' = [sent EXCEPT ![req[s].msg] = Absent]
    /\ req' = [req EXCEPT ![s].at = "publish"]
    /\ UNCHANGED <<clock, mark, timeline, pager, seen, muddled, swapped, cut>>

\* _broadcast, and the client: it appends the message, or removes it.
Broadcast(s) ==
    /\ req[s].at = "publish"
    /\ timeline' = IF req[s].op = "send" THEN timeline \cup {req[s].msg} ELSE timeline \ {req[s].msg}
    /\ req' = [req EXCEPT ![s] = NoHandler]
    /\ UNCHANGED <<clock, sent, mark, pager, seen, muddled, swapped, cut>>

----------------------------------------------------------------------------
(* CommunityReadService                                                    *)

AskRead(s) ==
    /\ req[s] = NoHandler /\ clock < MaxTime /\ clock' = clock + 1
    /\ req' = [t \in Sessions |->
                 IF t = s THEN [NoHandler EXCEPT !.op = "read", !.at = "commit", !.date = clock + 1,
                                            !.during = Committing] ELSE req[t]]
    /\ UNCHANGED <<sent, mark, timeline, pager, seen, muddled, swapped, cut>>

SaveMark(s) ==
    /\ s \in Marking
    /\ mark' = req[s].date
    /\ seen' = Present /\ muddled' = req[s].during
    /\ req' = [req EXCEPT ![s] = NoHandler]
    /\ UNCHANGED <<clock, sent, timeline, pager, swapped, cut>>

\* CommunityUnreadRepository
Unread == {m \in Present : sent[m] > mark}

----------------------------------------------------------------------------
(* CommunityTimelineService.page: the newest before the cursor, and the    *)
(* oldest of them as the next cursor, if there are more.                   *)

NextPage ==
    LET older == {m \in Present : sent[m] < pager}
        page  == {m \in older : Cardinality({n \in older : sent[n] > sent[m]}) < PageSize}
        oldest == CHOOSE m \in page : \A n \in page : sent[m] <= sent[n] IN
    /\ pager # Loaded
    /\ timeline' = timeline \cup page
    /\ pager' = IF older = page THEN Loaded ELSE sent[oldest]
    /\ UNCHANGED <<clock, sent, mark, req, seen, muddled, swapped, cut>>

\* A request is refused, or its process dies.
AbandonRequest(s) ==
    /\ req[s] # NoHandler /\ req' = [req EXCEPT ![s] = NoHandler]
    /\ cut' = (cut \/ req[s].at = "publish")
    /\ UNCHANGED <<clock, sent, mark, timeline, pager, seen, muddled, swapped>>

CommunityNext ==
    \/ \E s \in Sessions :
        \/ \E m \in Messages : SendToAll(s, m) \/ Delete(s, m)
        \/ CommitMessage(s) \/ CommitDelete(s) \/ Broadcast(s)
        \/ AskRead(s) \/ SaveMark(s) \/ AbandonRequest(s)
    \/ NextPage

CommunitySpec == CommunityInit /\ [][CommunityNext]_communityVars

----------------------------------------------------------------------------
(* Unread are exactly the messages that came after the mark was last       *)
(* written; one sent while the reader read may count as either.            *)
UnreadSinceRead == Unread \ muddled = (Present \ seen) \ muddled

(* A client that has loaded all pages shows the messages there are, once   *)
(* the requests have ended, whatever was sent and deleted meanwhile; but a *)
(* message deleted before the members are told of it may be told after.    *)
TimelineShown ==
    (pager = Loaded /\ ~cut /\ \A s \in Sessions : req[s] = NoHandler) =>
        timeline \ swapped = Present \ swapped
=============================================================================
