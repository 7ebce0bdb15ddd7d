----------------------------- MODULE AccountData ----------------------------
(***************************************************************************)
(* What a user keeps in the account, in two machines over variables of     *)
(* their own: the addresses, and the settings.                             *)
(***************************************************************************)
EXTENDS Integers, FiniteSets, SequencesExt

CONSTANTS Sessions, NoSession,
          Ids,         \* the addresses that may be created
          MaxOverlaps, \* bound: handlers begun while another runs
          Sections,    \* in the order of an update of them all; "content" is one
          Lists,       \* of the content section, in the order they are replaced
          Known,       \* the ids of tags and places there are
          Payloads     \* what is asked: a record with `all`, `sections` and `lists`

VARIABLES
    req,       \* each session's handler; for settings, how its last one was answered, too
    crossed,   \* an order was placed while a deletion ran, or the reverse; for
               \* settings, the sections and lists whose last saved update met another

    saved,     \* the committed user_addresses rows
    default,   \* those with is_default
    shipping,  \* those that the open orders were placed for
    lock,      \* whose uncommitted UPDATE or DELETE each row has
    overlaps,  \* handlers of this user begun while another ran

    rows,      \* of each section: the value of a field of its row, or "none"
    preferred, \* the ids of each list
    wanted     \* of each section and list: what its last saved update asked for

-----------------------------------------------------------------------------
(* The addresses of one user, of which one is the default, and the orders  *)
(* on their way to them.  Nothing in the database keeps the default        *)
(* single: the handlers clear it with an UPDATE and set it again before    *)
(* they commit, and what the UPDATE does not see it does not clear.        *)
bookVars == <<saved, default, shipping, lock, req, overlaps, crossed>>

NoId == 0
Idle == [op |-> "idle", at |-> "idle", id |-> NoId, default |-> FALSE, clearing |-> {}]
Edits == {"create", "set_default", "delete"}

BookTypeOK ==
    /\ default \subseteq saved /\ saved \subseteq Ids /\ shipping \subseteq Ids
    /\ lock \in [Ids -> Sessions \cup {NoSession}]
    /\ req \in [Sessions -> [op: Edits \cup {"idle", "order"},
                             at: {"idle", "clear", "wait", "write", "delete", "replace"},
                             id: Ids \cup {NoId}, default: BOOLEAN, clearing: SUBSET Ids]]
    /\ overlaps \in 0..MaxOverlaps /\ crossed \in BOOLEAN

BookInit ==
    /\ saved = {} /\ default = {} /\ shipping = {}
    /\ lock = [i \in Ids |-> NoSession] /\ req = [s \in Sessions |-> Idle]
    /\ overlaps = 0 /\ crossed = FALSE

Running(ops) == {s \in Sessions : req[s].op \in ops}
Unused == {i \in Ids \ (saved \cup shipping) : \A s \in Sessions : req[s].id # i}
Held(s) == {i \in Ids : lock[i] = s}
Free(s, ids) == \A i \in ids : lock[i] \in {s, NoSession}

Begin(s, op, id, isDefault, at) ==
    /\ req[s].op = "idle"
    /\ req' = [req EXCEPT ![s] = [op |-> op, at |-> at, id |-> id, default |-> isDefault, clearing |-> {}]]
    /\ overlaps' = overlaps + IF op \in Edits /\ Running(Edits) # {} THEN 1 ELSE 0
    /\ overlaps' <= MaxOverlaps
    /\ crossed' = \/ crossed
                  \/ op = "order" /\ Running({"delete"}) # {}
                  \/ op = "delete" /\ Running({"order"}) # {}
    /\ UNCHANGED <<saved, default, shipping, lock>>

Goto(s, at) ==
    /\ req' = [req EXCEPT ![s].at = at]
    /\ UNCHANGED <<saved, default, shipping, overlaps, crossed>>

\* A handler commits: all it wrote, and it gives its locks back.
Commit(s, ids, defaults, open) ==
    /\ saved' = ids /\ default' = defaults /\ shipping' = open
    /\ lock' = [i \in Ids |-> IF lock[i] = s THEN NoSession ELSE lock[i]]
    /\ req' = [req EXCEPT ![s] = Idle]
    /\ UNCHANGED <<overlaps, crossed>>

\* It refuses, fails, or the process dies: all is rolled back.
Abandon(s) == req[s].op # "idle" /\ Commit(s, saved, default, shipping)

----------------------------------------------------------------------------
(* UserAddressService *)

\* create: the first address is the default one, asked for or not.
Create(s, asked) ==
    \E i \in Unused :
        LET isDefault == asked \/ saved = {} IN
        Begin(s, "create", i, isDefault, IF isDefault THEN "clear" ELSE "write")

\* set_default
SetDefault(s, i) == i \in saved \ default /\ Begin(s, "set_default", i, TRUE, "clear")

\* clear_default: the UPDATE finds the rows that are the default now ...
FindDefaults(s) ==
    /\ req[s].at = "clear"
    /\ req' = [req EXCEPT ![s].at = "wait", ![s].clearing = default]
    /\ UNCHANGED <<saved, default, shipping, lock, overlaps, crossed>>

\* ... waits for those that others write, and clears what still is.
ClearDefault(s) ==
    /\ req[s].at = "wait" /\ Free(s, req[s].clearing)
    /\ lock' = [i \in Ids |-> IF i \in req[s].clearing \cap default THEN s ELSE lock[i]]
    /\ Goto(s, "write")

\* The INSERT or the UPDATE of the row, and the commit with what was cleared.
Write(s) ==
    LET r == req[s] IN
    /\ r.op \in {"create", "set_default"} /\ r.at = "write"
    /\ r.op = "set_default" => r.id \in saved /\ Free(s, {r.id})
    /\ Commit(s, saved \cup {r.id}, (default \ Held(s)) \cup (IF r.default THEN {r.id} ELSE {}), shipping)

\* delete: refused while an order is on its way.
Delete(s, i) ==
    /\ i \in saved \ shipping
    /\ Begin(s, "delete", i, i \in default, "delete")

\* The DELETE; a row already gone is only warned about.
DeleteRow(s) ==
    LET i == req[s].id IN
    /\ req[s].at = "delete" /\ Free(s, {i})
    /\ lock' = IF i \in saved THEN [lock EXCEPT ![i] = s] ELSE lock
    /\ Goto(s, "replace")

BrokenReplace(s, others) ==
    LET i == req[s].id IN
    req[s].at = "replace" /\ Commit(s, saved \ {i}, default \ {i}, shipping)
\* The replacement is another row, the latest in the code, any here; the UPDATE
\* of the commit waits for it.  Orders that name the address lose it (ON DELETE
\* SET NULL) and stay open.
Replace(s, others) ==
    LET r == req[s] IN
    /\ r.at = "replace"
    /\ IF ~r.default \/ others = {}
       THEN Commit(s, saved \ {r.id}, default \ {r.id}, shipping)
       ELSE \E i \in others :
              /\ i \in default \/ Free(s, {i})
              /\ Commit(s, saved \ {r.id}, (default \ {r.id}) \cup {i}, shipping)
DeleteAndReplace(s) == Replace(s, saved \ {req[s].id})

----------------------------------------------------------------------------
(* The orders of the user, as far as they name an address: placing one     *)
(* reads the address (get_owned) and inserts the order at the end, with a  *)
(* foreign key that waits for the row's deletion; an order ends.           *)

Order(s, i) == i \in saved /\ Begin(s, "order", i, FALSE, "write")

PlaceOrder(s) ==
    LET i == req[s].id IN
    /\ req[s].op = "order"
    /\ i \in saved
    /\ ~(lock[i] # NoSession /\ req[lock[i]].op = "delete" /\ req[lock[i]].id = i)
    /\ Commit(s, saved, default, shipping \cup {i})

OrderEnds(i) ==
    /\ i \in shipping /\ shipping' = shipping \ {i}
    /\ UNCHANGED <<saved, default, lock, req, overlaps, crossed>>

BookNext ==
    \/ \E s \in Sessions :
        \/ \E asked \in BOOLEAN : Create(s, asked)
        \/ \E i \in Ids : SetDefault(s, i) \/ Delete(s, i) \/ Order(s, i)
        \/ FindDefaults(s) \/ ClearDefault(s) \/ Write(s)
        \/ DeleteRow(s) \/ DeleteAndReplace(s)
        \/ PlaceOrder(s) \/ Abandon(s)
    \/ \E i \in Ids : OrderEnds(i)

BookSpec == BookInit /\ [][BookNext]_bookVars

----------------------------------------------------------------------------
(* Each handler begun while another ran makes or leaves at most one        *)
(* default too many, or takes one: a user who sends one request at a time  *)
(* has exactly one, as long as there is an address.                        *)
OneDefault ==
    saved # {} => Cardinality(default) - 1 \in -overlaps..overlaps

(* No address is deleted from under an open order, unless the order was    *)
(* placed while the deletion ran.                                          *)
OpenOrdersShip == crossed \/ shipping \subseteq saved

\* What the handlers under way hold, and have seen.
Editing == Running(Edits)
LocksHeld ==
    \A s \in Sessions, i \in Ids : lock[i] = s =>
        \/ req[s].op \in {"create", "set_default"} /\ req[s].at = "write" /\ req[s].default
        \/ req[s].op = "delete" /\ req[s].at = "replace" /\ req[s].id = i
Stages ==
    \A s \in Sessions :
        /\ req[s].op = "delete" => req[s].at \in {"delete", "replace"}
        /\ req[s].op \in {"create", "set_default"} => req[s].at \in {"clear", "wait", "write"}
        /\ req[s].op \in {"idle", "order"} => req[s].at \in {"idle", "write"}
        /\ req[s].op # "idle" => req[s].id \in Ids
        /\ req[s].op = "set_default" \/ req[s].at \in {"clear", "wait"} => req[s].default

\* What s would commit now leaves no more defaults than there are.
ClearsAll(s) ==
    \/ req[s].at = "clear"
    \/ req[s].at = "wait" /\ default \subseteq req[s].clearing
    \/ req[s].op = "delete" /\ (req[s].default => req[s].id \in default)
    \/ req[s].op = "create" /\ ~req[s].default
    \/ req[s].at = "write" /\ default \subseteq Held(s)

\* A handler under way may leave one default more, but for the first to commit of
\* those that run at the same time, which has seen all that there are.
DefaultsCounted ==
    /\ Cardinality(Editing) <= 1 + overlaps
    /\ \/ Cardinality(default) + Cardinality(Editing) <= 1 + overlaps
       \/ /\ Cardinality(default) + Cardinality(Editing) <= 2 + overlaps
          /\ Editing # {} /\ \A s \in Editing : ClearsAll(s)

\* Without others the default is what the handler found, and there is one.
AloneKnows ==
    overlaps = 0 =>
        /\ saved # {} => default # {}
        /\ \A s, o \in Editing : s = o
        /\ \A s \in Editing :
              /\ req[s].op = "create" /\ ~req[s].default => saved # {}
              /\ req[s].op = "delete" => (req[s].default <=> req[s].id \in default)

\* Nothing is ordered while an address is deleted that no open order has.
DeletedUnused ==
    ~crossed => \A s \in Running({"delete"}) : req[s].id \notin shipping /\ Running({"order"}) = {}

BookIInv ==
    /\ BookTypeOK /\ LocksHeld /\ Stages /\ DefaultsCounted /\ AloneKnows /\ DeletedUnused
    /\ OpenOrdersShip

-----------------------------------------------------------------------------
(* One user's settings: a row for each section, made when it is first      *)
(* asked for, and the lists of preferred tags and places.  An update saves *)
(* one section after another, each with commits of its own; nothing is     *)
(* locked but the rows of a list while they are replaced.  What a change   *)
(* of visibility does to follow requests is in Follows.                    *)
preferenceVars == <<rows, preferred, wanted, crossed, req>>

Nothing == [all |-> TRUE, sections |-> <<>>, lists |-> <<>>]
NoRequest    == [todo |-> <<>>, payload |-> Nothing, was |-> "none", seen |-> {}, held |-> {},
            saved |-> {}, logged |-> {}, alone |-> TRUE, met |-> {}, answer |-> "none"]
Parts   == ToSet(Sections) \cup ToSet(Lists)

PreferenceTypeOK ==
    /\ rows \in [ToSet(Sections) -> {"on", "off", "none"}]
    /\ preferred \in [ToSet(Lists) -> SUBSET Known]
    /\ DOMAIN wanted = Parts /\ crossed \subseteq Parts
    /\ \A s \in Sessions :
        /\ DOMAIN req[s] = DOMAIN NoRequest
        /\ req[s].payload \in Payloads \cup {Nothing}
        /\ req[s].held \subseteq req[s].seen /\ req[s].seen \subseteq Known
        /\ req[s].answer \in {"none", "ok", "refused", "failed", "cut"}

\* Rows are made with the defaults.
Default == "off"
PreferenceInit ==
    /\ rows = [x \in ToSet(Sections) |-> "none"]
    /\ preferred = [l \in ToSet(Lists) |-> {}]
    /\ wanted = [x \in Parts |-> IF x \in ToSet(Lists) THEN {} ELSE Default]
    /\ crossed = {} /\ req = [s \in Sessions |-> NoRequest]

----------------------------------------------------------------------------
(* The statements of a request, in order: each is a kind and what it is about. *)
Of(x, kinds) == [i \in DOMAIN kinds |-> <<kinds[i], x>>]
If(given, statements) == IF given THEN statements ELSE <<>>
GivenData(p, x) == p.sections[x] # "unset" \/ (x = "content" /\ DOMAIN p.lists # {})
Changed(p)      == {x \in DOMAIN p.sections : GivenData(p, x)}

ReplaceLists(p) == FlattenSeq([i \in DOMAIN Lists |->
                  If(Lists[i] \in DOMAIN p.lists, Of(Lists[i], <<"delete">>))])
UpdateSection(p, x) ==
    If(x = "content", Of(x, <<"check">>)) \o Of(x, <<"fetch", "save">>)
    \o If(x = "content", ReplaceLists(p)) \o If(x \in Changed(p), Of(x, <<"log">>))
UpdateEach(p) == FlattenSeq([i \in DOMAIN Sections |->
                     If(Sections[i] \in DOMAIN p.sections, UpdateSection(p, Sections[i]))])

\* The ids of all lists are checked before the first section is saved.
GetAggregate == [i \in DOMAIN Sections |-> <<"get", Sections[i]>>]
UpdateAggregate(p) ==
    If("content" \in DOMAIN p.sections, Of("content", <<"check">>)) \o UpdateEach(p)
    \o If(Changed(p) # {}, Of("all", <<"log">>)) \o GetAggregate

Busy(s)      == req[s].todo # <<>>
Now(s, kind) == Busy(s) /\ Head(req[s].todo)[1] = kind
About(s)     == Head(req[s].todo)[2]
Asked(s)     == req[s].payload

\* A request goes on with its next statement, or with another one about the same
\* section or list; it is answered after the last, or ends early.
Ended(r, answer) == [r EXCEPT !.todo = <<>>, !.was = "none", !.seen = {}, !.held = {},
                              !.met = {}, !.answer = answer]
Advance(r)       == IF Len(r.todo) = 1 THEN Ended(r, "ok") ELSE [r EXCEPT !.todo = Tail(@)]
With(r, kind)    == [r EXCEPT !.todo[1][1] = kind]

\* Updates of x under way; those that meet there know it.
Within(x) == {s \in Sessions : /\ Busy(s) /\ About(s) = x
                               /\ Head(req[s].todo)[1] \in {"save", "lock", "insert"}}
Meet(s, r, x) ==
    [o \in Sessions |-> IF o = s THEN IF Within(x) = {} THEN r ELSE [r EXCEPT !.met = @ \cup {x}]
                        ELSE IF o \in Within(x) THEN [req[o] EXCEPT !.met = @ \cup {x}]
                        ELSE req[o]]
Saved(s, x, value) ==
    /\ wanted' = [wanted EXCEPT ![x] = value]
    /\ crossed' = IF x \in req[s].met THEN crossed \cup {x} ELSE crossed \ {x}

----------------------------------------------------------------------------
\* How others were answered before is not kept.
Ask(s, p) ==
    /\ ~Busy(s)
    /\ req' = [o \in Sessions |->
                 IF o = s THEN [NoRequest EXCEPT !.payload = p, !.alone = \A t \in Sessions : ~Busy(t),
                                            !.todo = IF p.all THEN UpdateAggregate(p)
                                                     ELSE UpdateEach(p)]
                 ELSE IF Busy(o) THEN [req[o] EXCEPT !.alone = FALSE] ELSE NoRequest]
    /\ UNCHANGED <<rows, preferred, wanted, crossed>>

\* _validate_tag_ids, _validate_district_ids
Validate(s) ==
    /\ Now(s, "check")
    /\ req' = [req EXCEPT ![s] = IF \A l \in DOMAIN Asked(s).lists : Asked(s).lists[l] \subseteq Known
                                 THEN Advance(@) ELSE Ended(@, "refused")]
    /\ UNCHANGED <<rows, preferred, wanted, crossed>>

\* _get_or_create: the row is read, and if there is none one is added, and read;
\* the user's row is unique.
Get(s) ==
    LET x == About(s) read == [Advance(req[s]) EXCEPT !.was = rows[x]] IN
    /\ Now(s, "fetch") \/ Now(s, "get")
    /\ req' = IF rows[x] = "none" THEN [req EXCEPT ![s].todo = Of(x, <<"add">>) \o @]
              ELSE IF Now(s, "get") THEN [req EXCEPT ![s] = Advance(@)]
              ELSE Meet(s, read, x)
    /\ UNCHANGED <<rows, preferred, wanted, crossed>>
Add(s) ==
    LET x == About(s) IN
    /\ Now(s, "add")
    /\ rows' = IF rows[x] = "none" THEN [rows EXCEPT ![x] = Default] ELSE rows
    /\ req' = [req EXCEPT ![s] = IF rows[x] = "none" THEN Advance(@) ELSE Ended(@, "failed")]
    /\ UNCHANGED <<preferred, wanted, crossed>>

\* A field is written when it is to have another value than the one read.
Save(s) ==
    LET x == About(s) value == Asked(s).sections[x] IN
    /\ Now(s, "save")
    /\ rows' = IF value \in {"unset", req[s].was} THEN rows ELSE [rows EXCEPT ![x] = value]
    /\ IF value = "unset" THEN UNCHANGED <<wanted, crossed>> ELSE Saved(s, x, value)
    /\ req' = [req EXCEPT ![s] = Advance([@ EXCEPT !.was = "none", !.saved = @ \cup {x}])]
    /\ UNCHANGED preferred

\* replace_preferred_tags, replace_preferred_districts: the delete sees the rows
\* committed before it, and waits for those that another one deletes.
FindRows(s) ==
    LET l == About(s) IN
    /\ Now(s, "delete")
    /\ req' = Meet(s, [With(req[s], "lock") EXCEPT !.seen = preferred[l]], l)
    /\ UNCHANGED <<rows, preferred, wanted, crossed>>
HeldByOthers(s, ids) == \E o \in Within(About(s)) \ {s} : req[o].held \cap ids # {}
DeleteRows(s) ==
    /\ Now(s, "lock") /\ ~HeldByOthers(s, req[s].seen)
    /\ req' = [req EXCEPT ![s] = [With(@, "insert") EXCEPT !.held = req[s].seen]]
    /\ UNCHANGED <<rows, preferred, wanted, crossed>>

\* An id that is still there, or is again, fails the insert, and the delete with
\* it.  Else what was deleted is gone for those who wait for it.
InsertRows(s) ==
    LET l == About(s) ids == Asked(s).lists[l] kept == preferred[l] \ req[s].held IN
    /\ Now(s, "insert") /\ ~HeldByOthers(s, ids)
    /\ IF ids \cap kept # {}
       THEN /\ req' = [req EXCEPT ![s] = Ended(@, "failed")]
            /\ UNCHANGED <<preferred, wanted, crossed>>
       ELSE /\ preferred' = [preferred EXCEPT ![l] = kept \cup ids]
            /\ Saved(s, l, ids)
            /\ req' = [o \in Sessions |->
                         IF o = s THEN Advance([req[s] EXCEPT !.seen = {}, !.held = {}, !.saved = @ \cup {l}])
                         ELSE IF o \in Within(l) THEN [req[o] EXCEPT !.seen = @ \ req[s].held]
                         ELSE req[o]]
    /\ UNCHANGED rows

Log(s) ==
    /\ Now(s, "log")
    /\ req' = [req EXCEPT ![s] = Advance([@ EXCEPT !.logged = @ \cup {About(s)}])]
    /\ UNCHANGED <<rows, preferred, wanted, crossed>>

\* The process dies, and what is not committed is undone.
CutShort(s) ==
    /\ Busy(s)
    /\ req' = [req EXCEPT ![s] = Ended(@, "cut")]
    /\ UNCHANGED <<rows, preferred, wanted, crossed>>

PreferenceNext ==
    \E s \in Sessions :
        \/ \E p \in Payloads : Ask(s, p)
        \/ Validate(s) \/ Get(s) \/ Add(s) \/ Save(s)
        \/ FindRows(s) \/ DeleteRows(s) \/ InsertRows(s) \/ Log(s) \/ CutShort(s)

PreferenceSpec == PreferenceInit /\ [][PreferenceNext]_preferenceVars

----------------------------------------------------------------------------
(* UserSettingsService: a section's field and a list are what the last     *)
(* update of them that was saved asked for, unless that one met another    *)
(* update of the same; and then a list has at least all it asked for.      *)
AsLastAsked ==
    /\ \A x \in ToSet(Sections) \ crossed : rows[x] \in {wanted[x], "none"}
    /\ \A l \in ToSet(Lists) : /\ wanted[l] \subseteq preferred[l]
                               /\ l \notin crossed => preferred[l] = wanted[l]

(* An update that is answered saved all it was given, and logged each      *)
(* section that it changed and the whole; one that names an unknown tag or *)
(* place changed nothing; and one fails only if another ran beside it.     *)
AnswersTrue ==
    \A s \in Sessions :
        LET r == req[s] p == r.payload IN
        /\ r.answer = "ok" => /\ r.saved = DOMAIN p.sections \cup DOMAIN p.lists
                              /\ Changed(p) \subseteq r.logged
                              /\ p.all /\ Changed(p) # {} => "all" \in r.logged
        /\ r.answer = "refused" => r.saved = {}
        /\ r.answer = "failed" => ~r.alone
=============================================================================
