-------------------------- MODULE PostInteractions --------------------------
(***************************************************************************)
(* What users do with posts, in two machines that run apart, and to each   *)
(* of which `req` is its own: the rows and counters of likes, saves,       *)
(* comments and shares (Counter...), and the collections of saved posts    *)
(* (Collection...).                                                        *)
(***************************************************************************)
EXTENDS Integers, FiniteSets

CONSTANTS Sessions,
          Counted,   \* the users who like or save, or the comments or shares
          MaxSlips,  \* bound: crashes and overlapping handlers of one row
          Users, NoUser, Posts,
          Ids,       \* the ids of collections
          MaxSaves   \* bound: rows of saved posts that are ever made

VARIABLES
    req,     \* each session's handler

    kind,    \* which of the counters this is
    rows,    \* whose rows there are
    counted, \* the counter
    slips,   \* handlers cut short, or begun while another of the row ran

    owner,   \* who owns each collection, or NoUser
    saves,   \* the saved_posts rows: whose, of which post
    made,    \* how many there were
    visible, \* the posts that can be seen
    entries  \* the collection_posts rows: a collection and the id of a saved row

-----------------------------------------------------------------------------
(* A post's likes_count, saved_count, comments_count or shares_count and   *)
(* the rows it counts.  A row is committed first and the counter moved by  *)
(* one in a transaction after it; whether there is a row to add or remove  *)
(* was read before both, except for saves, where the statement tells.      *)
counterVars == <<kind, rows, counted, req, slips>>

NoId == "none"
NoHandler == [op |-> "idle", at |-> "idle", id |-> NoId, found |-> FALSE]

CounterTypeOK ==
    /\ kind \in {"like", "save", "comment", "share"}
    /\ rows \subseteq Counted
    /\ counted \in 0..Cardinality(Counted) + MaxSlips
    /\ req \in [Sessions -> [op: {"idle", "add", "remove"}, at: {"idle", "row", "count"},
                             id: Counted \cup {NoId}, found: BOOLEAN]]
    /\ slips \in 0..MaxSlips

CounterInit ==
    /\ kind \in {"like", "save", "comment", "share"}
    /\ rows = {} /\ counted = 0 /\ slips = 0
    /\ req = [s \in Sessions |-> NoHandler]

BeginCounted(s, op, i) ==
    /\ req[s] = NoHandler
    /\ req' = [req EXCEPT ![s] = [op |-> op, at |-> "row", id |-> i, found |-> i \in rows]]
    /\ slips' = slips + IF \E t \in Sessions : req[t].id = i THEN 1 ELSE 0
    /\ slips' <= MaxSlips
    /\ UNCHANGED <<kind, rows, counted>>

\* react, save, create, share: comments and shares are new rows each time, and
\* who is seen to like the post already only changes the reaction.
Add(s, i) ==
    /\ kind = "like" => i \notin rows
    /\ kind \in {"comment", "share"} => i \notin rows /\ \A t \in Sessions : req[t].id # i
    /\ BeginCounted(s, "add", i)

\* remove_reaction, unsave, delete: no share is taken back.
Remove(s, i) ==
    /\ kind # "share"
    /\ kind # "save" => i \in rows
    /\ BeginCounted(s, "remove", i)

\* The row is committed. A second like of a user fails on the unique index and
\* a second save inserts nothing.
InsertRow(s) ==
    /\ req[s].op = "add" /\ req[s].at = "row"
    /\ req[s].id \notin rows
    /\ rows' = rows \cup {req[s].id}
    /\ req' = [req EXCEPT ![s].at = "count"]
    /\ UNCHANGED <<kind, counted, slips>>

BrokenGone(s) == FALSE
\* The DELETE of a like is by the key that was read: of a row already gone it
\* is only warned about, and one inserted since is another row. A comment is
\* marked, again if need be. Only a save's says whether there was one.
Gone(s) == kind = "save" /\ req[s].id \notin rows
DeleteRow(s) ==
    LET i == req[s].id IN
    /\ req[s].op = "remove" /\ req[s].at = "row" /\ ~Gone(s)
    /\ rows' = IF kind = "save" \/ req[s].found THEN rows \ {i} ELSE rows
    /\ req' = [t \in Sessions |->
                 IF t = s THEN [req[t] EXCEPT !.at = "count"]
                 ELSE IF req[t].id = i /\ req[s].found THEN [req[t] EXCEPT !.found = FALSE] ELSE req[t]]
    /\ UNCHANGED <<kind, counted, slips>>

\* _adjust_count: one statement, never below zero.
Adjusted(d) == IF counted + d < 0 THEN 0 ELSE counted + d
AdjustCount(s) ==
    /\ req[s].at = "count"
    /\ counted' = Adjusted(IF req[s].op = "add" THEN 1 ELSE -1)
    /\ req' = [req EXCEPT ![s] = NoHandler]
    /\ UNCHANGED <<kind, rows, slips>>

\* The handler refuses, or fails, before its row is committed ...
Refuse(s) ==
    /\ req[s].at = "row" /\ req' = [req EXCEPT ![s] = NoHandler]
    /\ UNCHANGED <<kind, rows, counted, slips>>

\* ... or the process dies between the two transactions.
Crash(s) ==
    /\ req[s].at = "count" /\ slips < MaxSlips
    /\ req' = [req EXCEPT ![s] = NoHandler] /\ slips' = slips + 1
    /\ UNCHANGED <<kind, rows, counted>>

CounterNext ==
    \E s \in Sessions :
        \/ \E i \in Counted : Add(s, i) \/ Remove(s, i)
        \/ InsertRow(s) \/ DeleteRow(s) \/ AdjustCount(s)
        \/ Refuse(s) \/ Crash(s)

CounterSpec == CounterInit /\ [][CounterNext]_counterVars

----------------------------------------------------------------------------
Uncounted(op) == Cardinality({s \in Sessions : req[s].op = op /\ req[s].at = "count"})

(* The counter is the number of rows, but for the handlers between their   *)
(* two transactions: each crash there, and each handler that overlaps with *)
(* another of the same row (one user's two devices), moves it by one at    *)
(* most, for good, and what different users do at once never.              *)
RowsCounted ==
    counted - (Cardinality(rows) - Uncounted("add") + Uncounted("remove")) \in -slips..slips

\* The inductive invariant.  Of the handlers that are to delete a row each will,
\* or was begun beside another of that row; and so were those, but one of each row,
\* that are before their row or have an added row to count, where the row is there
\* or none of them has.
Handling(op, at) == {s \in Sessions : req[s].op = op /\ req[s].at = at}
Deletions == {req[s].id : s \in {r \in Handling("remove", "row") : req[r].found}}
Claims    == {s \in Sessions : req[s].at = "row"} \cup Handling("add", "count")
Adders(i) == {s \in Handling("add", "count") : req[s].id = i}
Claimed   == {i \in {req[s].id : s \in Claims} : i \in rows \/ Adders(i) = {}}
CounterTypes ==
    /\ kind \in {"like", "save", "comment", "share"} /\ rows \subseteq Counted
    /\ counted \in Nat /\ slips \in Nat
    /\ req \in [Sessions -> [op: {"idle", "add", "remove"}, at: {"idle", "row", "count"},
                             id: Counted \cup {NoId}, found: BOOLEAN]]
    /\ \A s \in Sessions : req[s].at # "idle" => req[s].op # "idle" /\ req[s].id \in Counted
FoundThere ==
    \A s \in Handling("remove", "row") : kind # "save" /\ req[s].found => req[s].id \in rows
Deviation == counted - (Cardinality(rows) - Uncounted("add") + Uncounted("remove"))
WrongDeletions ==
    IF kind = "save" THEN 0 ELSE Cardinality(Handling("remove", "row")) - Cardinality(Deletions)
CounterIInv ==
    /\ CounterTypes /\ FoundThere
    /\ WrongDeletions - slips <= Deviation /\ Deviation <= slips
    /\ Cardinality(Claims) - Cardinality(Claimed) <= slips

-----------------------------------------------------------------------------
(* The posts that users saved, and the collections they put them in.  A    *)
(* collection holds rows of saved posts, not posts: a post that is saved   *)
(* again is another row.  A handler reads the collection and the saved row *)
(* before it writes, and nothing is locked between; the counter of saves   *)
(* is that of the first machine.                                           *)
collectionVars == <<owner, saves, made, visible, entries, req>>

NoRow == 0
Idle  == [op |-> "idle", at |-> "idle", user |-> NoUser, id |-> 0, post |-> "none", row |-> NoRow]

Handlers == [op: {"idle", "add", "remove", "delete"},
             at: {"idle", "collection", "post", "saved", "write"},
             user: Users \cup {NoUser}, id: Ids \cup {0},
             post: Posts \cup {"none"}, row: 0..MaxSaves]
CollectionTypeOK ==
    /\ owner \in [Ids -> Users \cup {NoUser}]
    /\ \A r \in saves : r.id \in 1..made /\ r.user \in Users /\ r.post \in Posts
    /\ made \in 0..MaxSaves /\ visible \subseteq Posts
    /\ entries \subseteq Ids \X (1..made)
    /\ req \in [Sessions -> Handlers]

CollectionInit ==
    /\ owner = [i \in Ids |-> NoUser] /\ saves = {} /\ made = 0 /\ visible = Posts
    /\ entries = {} /\ req = [s \in Sessions |-> Idle]

Goto(s, at) == req' = [req EXCEPT ![s].at = at]
End(s)      == req' = [req EXCEPT ![s] = Idle]
At(s, at)   == req[s].at = at
tables        == <<owner, saves, made, visible, entries>>

\* What is deleted with a saved row, or with a collection.
Without(id, gone) == {e \in entries : e[1] # id /\ e[2] \notin gone}

----------------------------------------------------------------------------
\* SavedPostRepository.create and delete, and what becomes of the post.
RowsOf(u, p) == {r \in saves : r.user = u /\ r.post = p}
Save(u, p) ==
    /\ p \in visible /\ RowsOf(u, p) = {} /\ made < MaxSaves
    /\ made' = made + 1
    /\ saves' = saves \cup {[id |-> made + 1, user |-> u, post |-> p]}
    /\ UNCHANGED <<owner, visible, entries, req>>
Unsave(u, p) ==
    /\ RowsOf(u, p) # {}
    /\ saves' = saves \ RowsOf(u, p)
    /\ entries' = Without(0, {r.id : r \in RowsOf(u, p)})
    /\ UNCHANGED <<owner, made, visible, req>>
ChangeVisibility(p) ==
    /\ visible' = IF p \in visible THEN visible \ {p} ELSE visible \cup {p}
    /\ UNCHANGED <<owner, saves, made, entries, req>>

Create(u, i) ==
    /\ owner[i] = NoUser /\ \A s \in Sessions : req[s].id # i
    /\ owner' = [owner EXCEPT ![i] = u]
    /\ UNCHANGED <<saves, made, visible, entries, req>>

\* add_post, remove_post, delete
Begin(s, op, u, i, p) ==
    /\ req[s] = Idle
    /\ req' = [req EXCEPT ![s] = [op |-> op, at |-> "collection", user |-> u, id |-> i,
                                  post |-> p, row |-> NoRow]]
    /\ UNCHANGED tables

Owned(s)       == owner[req[s].id] = req[s].user
AfterOwned == [add |-> "post", remove |-> "saved", delete |-> "write"]
GetOwned(s) ==
    /\ At(s, "collection")
    /\ IF Owned(s) THEN Goto(s, AfterOwned[req[s].op]) ELSE End(s)
    /\ UNCHANGED tables
GetVisible(s) ==
    /\ At(s, "post")
    /\ IF req[s].post \in visible THEN Goto(s, "saved") ELSE End(s)
    /\ UNCHANGED tables
GetSaved(s) ==
    /\ At(s, "saved")
    /\ IF RowsOf(req[s].user, req[s].post) = {} THEN End(s)
       ELSE \E r \in RowsOf(req[s].user, req[s].post) :
                req' = [req EXCEPT ![s].row = r.id, ![s].at = "write"]
    /\ UNCHANGED tables

\* ON CONFLICT DO NOTHING; a collection or a saved row that is gone is an error.
Exists(s) == owner[req[s].id] # NoUser /\ \E r \in saves : r.id = req[s].row
AddEntry(s) ==
    /\ req[s].op = "add" /\ At(s, "write")
    /\ entries' = IF Exists(s) THEN entries \cup {<<req[s].id, req[s].row>>} ELSE entries
    /\ End(s)
    /\ UNCHANGED <<owner, saves, made, visible>>
DeleteEntry(s) ==
    /\ req[s].op = "remove" /\ At(s, "write")
    /\ entries' = entries \ {<<req[s].id, req[s].row>>}
    /\ End(s)
    /\ UNCHANGED <<owner, saves, made, visible>>
DeleteCollection(s) ==
    /\ req[s].op = "delete" /\ At(s, "write")
    /\ owner' = [owner EXCEPT ![req[s].id] = NoUser]
    /\ entries' = Without(req[s].id, {})
    /\ End(s)
    /\ UNCHANGED <<saves, made, visible>>

CollectionNext ==
    \/ \E u \in Users, p \in Posts : Save(u, p) \/ Unsave(u, p)
    \/ \E p \in Posts : ChangeVisibility(p)
    \/ \E u \in Users, i \in Ids : Create(u, i)
    \/ \E s \in Sessions :
        \/ \E op \in {"add", "remove"}, u \in Users, i \in Ids, p \in Posts : Begin(s, op, u, i, p)
        \/ \E u \in Users, i \in Ids : Begin(s, "delete", u, i, "none")
        \/ GetOwned(s) \/ GetVisible(s) \/ GetSaved(s)
        \/ AddEntry(s) \/ DeleteEntry(s) \/ DeleteCollection(s)

CollectionSpec == CollectionInit /\ [][CollectionNext]_collectionVars

----------------------------------------------------------------------------
(* CollectionService: a collection holds only what its owner has saved and *)
(* not taken back since, however requests to add, to remove, to unsave and *)
(* to delete interleave.                                                   *)
CollectionsOfSaved ==
    \A e \in entries :
        /\ owner[e[1]] # NoUser
        /\ \E r \in saves : r.id = e[2] /\ r.user = owner[e[1]]

\* Their inductive invariant: rows of saves have ids of their own; a collection that
\* was found is its owner's or gone, and so is a row of a save.
RowsApart == \A r, q \in saves : r.id = q.id => r = q
FoundOwn ==
    \A s \in Sessions : LET h == req[s] IN
        /\ h.at # "idle" => h.op # "idle" /\ h.id \in Ids
        /\ h.at \in {"post", "saved", "write"} => owner[h.id] \in {h.user, NoUser}
        /\ h.at = "write" /\ h.op # "delete" =>
              h.row \in 1..made /\ \A r \in saves : r.id = h.row => r.user = h.user
CollectionIInv == CollectionTypeOK /\ RowsApart /\ FoundOwn /\ CollectionsOfSaved
=============================================================================
