--------------------------- MODULE GeographyImport --------------------------
(***************************************************************************)
(* The import of areas, in two machines that run apart, and to each of     *)
(* which `areas` is its own: what is read of an archive (Source...), and   *)
(* how what was read is written beside what others write (Import...).      *)
(***************************************************************************)
EXTENDS Naturals, Sequences, SequencesExt, FiniteSets

CONSTANTS Files,     \* the archives: sets of layers
          Imports,   \* the imports: what each reads, in the order it writes
          Manual,    \* the codes that may be given to a village added by hand
          Sessions, NoSession

VARIABLES
    areas,   \* what was read: the parent of each area, "" of a state; then the
             \* committed areas: what point each covers, if it is a village

    file,    \* the archive
    at,      \* how far the reading is
    chosen,  \* the layers it reads, by what it takes them for

    held,    \* which session has written each area and not committed it
    log,     \* the last entry of the activity log about each import
    req,     \* each session's handler
    crossed  \* a village was added while another session wrote

-----------------------------------------------------------------------------
(* What an import takes out of an archive of map layers: which layers it   *)
(* recognises by their columns (geography_layer_detector.py), the areas it *)
(* reads from them or derives from the villages                            *)
(* (geography_boundary_derivation.py), and what it refuses.                *)
(*                                                                         *)
(* A layer is its columns and its rows of codes; "" is a blank.  Names and *)
(* geometries matter only where they are missing or unusable: `usable`     *)
(* stands for those of all rows, and for the layer's projection.           *)
sourceVars == <<file, at, chosen, areas>>

Levels == {"state", "district", "taluk"}

\* VILLAGE_NAME is a column of villages' names like VILL_NAME, but not one that
\* VILLAGE_FIELD_ALIASES recognises a layer of villages by.
FieldOf(column) == IF column \in {"VILL_NAME", "VILLAGE_NAME"} THEN "village_name" ELSE column
Fields(layer)   == {FieldOf(c) : c \in layer.columns}
VillageFields   == {"village_lgd", "VILL_NAME"}

Indicators == [state    |-> {"state_name", "state_lgd"},
               district |-> {"district_name", "district_lgd"},
               taluk    |-> {"taluk_name", "taluk_lgd"}]
Required   == [state    |-> {"state_name"},
               district |-> {"state_lgd", "district_lgd", "district_name"},
               taluk    |-> {"state_lgd", "district_lgd", "taluk_lgd", "taluk_name"},
               village  |-> (UNION {Indicators[l] : l \in Levels}) \cup {"village_name", "village_lgd"}]
CodeField  == [state |-> "state_lgd", district |-> "district_lgd", taluk |-> "taluk_lgd"]

CodesIn(layer, field) == {layer.rows[i][field] : i \in DOMAIN layer.rows}

\* _unique_code_fields
Unique(layer, field) ==
    /\ "" \notin CodesIn(layer, field)
    /\ Cardinality(CodesIn(layer, field)) = Len(layer.rows)

Indicates(layer, level) == Indicators[level] \cap Fields(layer) # {}

\* _indicated_level: the most specific one.
LevelOf(layer) ==
    IF Indicates(layer, "taluk") THEN "taluk"
    ELSE IF Indicates(layer, "district") THEN "district"
    ELSE IF Indicates(layer, "state") THEN "state" ELSE "none"

\* _classify_admin_profile; the legacy names name a level.
IsAdmin(layer, level) ==
    /\ level = LevelOf(layer)
    /\ Required[level] \subseteq Fields(layer)
    /\ CodeField[level] \in Fields(layer) => Unique(layer, CodeField[level])
    /\ layer.name \in {"other", level}

\* _classify_village_profile
IsVillages(layer) == Required.village \subseteq Fields(layer) /\ layer.name = "other"

\* _classify_profile
Accepted(layer, as) ==
    /\ layer.polygonal /\ layer.rows # <<>>
    /\ IF layer.columns \cap VillageFields # {} THEN as = "village" /\ IsVillages(layer)
                                               ELSE as \in Levels /\ IsAdmin(layer, as)

SourceTypeOK ==
    /\ file \in Files
    /\ at \in {"detect", "read", "validate", "accepted", "refused"}
    /\ DOMAIN chosen \subseteq Levels \cup {"village"}
    /\ \A as \in DOMAIN chosen : chosen[as] \in file

NoAreas == [l \in Levels \cup {"village"} |-> {}]

SourceInit == file \in Files /\ at = "detect" /\ chosen = <<>> /\ areas = NoAreas

Candidates(as) == {l \in file : Accepted(l, as)}
Named(as)      == {l \in Candidates(as) : l.name = as}

\* _select_level, _select_village_layer: of several, the one of the legacy name.
Selectable(as) ==
    CASE Cardinality(Candidates(as)) <= 1 -> Candidates(as)
      [] Cardinality(Candidates(as)) > 1 /\ as \in Levels /\ Cardinality(Named(as)) = 1 -> Named(as)
      [] OTHER -> {}
Ambiguous(as) == Candidates(as) # {} /\ Selectable(as) = {}

Refuse == at' = "refused" /\ UNCHANGED <<file, chosen, areas>>
Take(as) ==
    /\ chosen' = [a \in as |-> CHOOSE l \in Selectable(a) : TRUE]
    /\ at' = "read" /\ UNCHANGED <<file, areas>>

\* select_source: layers of all three levels, or else one of villages.
Detect ==
    /\ at = "detect"
    /\ CASE \E l \in Levels : Ambiguous(l)       -> Refuse
         [] \A l \in Levels : Selectable(l) # {} -> Take(Levels)
         [] OTHER -> IF Selectable("village") # {} THEN Take({"village"}) ELSE Refuse

\* What a reader keeps of a row: its own code and its parent's.
Rows(as)  == {chosen[as].rows[i] : i \in DOMAIN chosen[as].rows}
Area(c, p) == [code |-> c, parent |-> p]
Legacy    == "32"

\* _read_state_layer, _read_district_layer, _read_taluk_layer
StateCodes == IF "state_lgd" \in Fields(chosen["state"])
              THEN CodesIn(chosen["state"], "state_lgd") ELSE {Legacy}
Readable ==
    /\ \A l \in Levels : chosen[l].usable
    /\ \A r \in Rows("district") \cup Rows("taluk") : r.state_lgd \in StateCodes
    /\ \A r \in Rows("taluk") : r.district_lgd # ""
Read ==
    [NoAreas EXCEPT !.state    = {Area(c, "") : c \in StateCodes},
                    !.district = {Area(r.district_lgd, r.state_lgd) : r \in Rows("district")},
                    !.taluk    = {Area(r.taluk_lgd, r.district_lgd) : r \in Rows("taluk")}]
ReadDirect ==
    /\ at = "read" /\ DOMAIN chosen = Levels
    /\ IF Readable THEN areas' = Read /\ at' = "validate" /\ UNCHANGED <<file, chosen>> ELSE Refuse

\* _single_parent_by_code
SingleParent(rows, code, parent) ==
    \A r, q \in rows : r[code] = q[code] => r[parent] = q[parent]

\* _read_village_layer: the code of a village may be blank, no other.
NothingBlank(rows) ==
    \A r \in rows, f \in {"state_lgd", "district_lgd", "taluk_lgd"} : r[f] # ""

\* merge_village_parts: the taluk is that of a village's first part.
MergedTaluk(code) ==
    LET rows  == chosen["village"].rows
        parts == {i \in DOMAIN rows : rows[i].village_lgd = code}
        first == CHOOSE i \in parts : \A j \in parts : i <= j
    IN  rows[first].taluk_lgd

\* derive_admin_boundaries: of all villages; kept are only those with a code.
Derivable ==
    /\ chosen["village"].usable /\ NothingBlank(Rows("village"))
    /\ SingleParent(Rows("village"), "taluk_lgd", "district_lgd")
    /\ SingleParent(Rows("village"), "district_lgd", "state_lgd")
Derived ==
    [state    |-> {Area(r.state_lgd, "") : r \in Rows("village")},
     district |-> {Area(r.district_lgd, r.state_lgd) : r \in Rows("village")},
     taluk    |-> {Area(r.taluk_lgd, r.district_lgd) : r \in Rows("village")},
     village  |-> {Area(c, MergedTaluk(c)) : c \in CodesIn(chosen["village"], "village_lgd") \ {""}}]
Derive ==
    /\ at = "read" /\ DOMAIN chosen = {"village"}
    /\ IF Derivable THEN areas' = Derived /\ at' = "validate" /\ UNCHANGED <<file, chosen>> ELSE Refuse

CodesOf(level) == {a.code : a \in areas[level]}

\* _validate_records: the rows of a state layer without codes count each.
StateRows == IF "state" \in DOMAIN chosen THEN Len(chosen["state"].rows) ELSE Cardinality(areas.state)
Valid == StateRows = 1 /\ \A t \in areas.taluk : t.parent \in CodesOf("district")
Validate ==
    /\ at = "validate"
    /\ IF Valid THEN at' = "accepted" /\ UNCHANGED <<file, chosen, areas>> ELSE Refuse

SourceNext == Detect \/ ReadDirect \/ Derive \/ Validate
SourceSpec == SourceInit /\ [][SourceNext]_sourceVars

-----------------------------------------------------------------------------
(* No reader meets a layer without a column it needs: what the readers look *)
(* up in the map of columns, the classification has required.              *)
Reads == [state    |-> {"state_name"},
          district |-> {"state_lgd", "district_name", "district_lgd"},
          taluk    |-> {"state_lgd", "district_lgd", "taluk_name", "taluk_lgd"},
          village  |-> Required.village]
ColumnsPresent == \A as \in DOMAIN chosen : Reads[as] \subseteq Fields(chosen[as])

(* What is accepted is a tree of one state in which no code occurs twice,  *)
(* so that the upserts find every parent and meet no row twice.            *)
ParentLevel == [district |-> "state", taluk |-> "district", village |-> "taluk"]
AcceptedIsTree ==
    at = "accepted" =>
        /\ Cardinality(areas.state) = 1
        /\ \A l \in DOMAIN areas : Cardinality(CodesOf(l)) = Cardinality(areas[l])
        /\ \A l \in DOMAIN ParentLevel : \A a \in areas[l] : a.parent \in CodesOf(ParentLevel[l])

(* Every village of an accepted archive is in the taluk, district and      *)
(* state of its row, except that one in several parts is in the taluk of   *)
(* the first; an admin layer has no area twice.                            *)
RowsPlaced ==
    at = "accepted" =>
        /\ "village" \in DOMAIN chosen =>
             \A r \in Rows("village") :
                /\ r.village_lgd # "" =>
                     \E q \in Rows("village") : /\ q.village_lgd = r.village_lgd
                                                /\ Area(r.village_lgd, q.taluk_lgd) \in areas.village
                /\ Area(r.taluk_lgd, r.district_lgd) \in areas.taluk
                /\ Area(r.district_lgd, r.state_lgd) \in areas.district
        /\ \A l \in DOMAIN chosen \cap Levels : Cardinality(areas[l]) = Len(chosen[l].rows)

\* Layers are taken for what they are recognised as, and what was read of them is
\* kept until the import.
Recognised ==
    /\ \A as \in DOMAIN chosen : Accepted(chosen[as], as)
    /\ at \in {"validate", "accepted"} =>
          \/ DOMAIN chosen = Levels /\ Readable /\ areas = Read
          \/ DOMAIN chosen = {"village"} /\ Derivable /\ areas = Derived
    /\ at = "accepted" => Valid
SourceIInv == SourceTypeOK /\ Recognised

-----------------------------------------------------------------------------
(* Administrators import the areas of a state and add single villages by   *)
(* hand.  An import writes its areas one by one, the state first, and      *)
(* commits them with the log of its completion; the log of its failure is  *)
(* a transaction of its own, on the same session.                          *)
importVars == <<areas, held, log, req, crossed>>

Absent  == "absent"
Nowhere == "nowhere"
Idle    == [op |-> "idle", at |-> "idle", import |-> <<>>, next |-> 0, code |-> "", point |-> Nowhere]
Written == UNION {ToSet(i) : i \in Imports}
Codes   == {a.code : a \in Written} \cup Manual
Points  == {a.point : a \in Written} \ {Nowhere}

ImportTypeOK ==
    /\ areas \in [Codes -> Points \cup {Nowhere, Absent}]
    /\ held \in [Codes -> Sessions \cup {NoSession}]
    /\ log \in [Imports -> {"", "started", "failed", "completed"}]
    /\ req \in [Sessions -> [op: {"idle", "import", "add"}, at: {"idle", "write", "log", "failed"},
                             import: Imports \cup {<<>>}, next: Nat, code: Manual \cup {""},
                             point: Points \cup {Nowhere}]]
    /\ crossed \in BOOLEAN

ImportInit ==
    /\ areas = [c \in Codes |-> Absent] /\ held = [c \in Codes |-> NoSession]
    /\ log = [i \in Imports |-> ""] /\ req = [s \in Sessions |-> Idle]
    /\ crossed = FALSE

Release(s) == held' = [c \in Codes |-> IF held[c] = s THEN NoSession ELSE held[c]]

\* import_zip: the start is logged at once.
StartImport(s, i) ==
    /\ req[s].op = "idle" /\ log[i] = ""
    /\ req' = [req EXCEPT ![s] = [Idle EXCEPT !.op = "import", !.at = "write", !.import = i, !.next = 1]]
    /\ log' = [log EXCEPT ![i] = "started"]
    /\ crossed' = (crossed \/ \E o \in Sessions : req[o].op = "add")
    /\ UNCHANGED <<areas, held>>

AreaOf(s)  == req[s].import[req[s].next]
Wants(s)   == IF req[s].op = "import" THEN IF req[s].at = "write" THEN AreaOf(s).code ELSE ""
              ELSE req[s].code
Free(s, c) == held[c] \in {s, NoSession}

\* _upsert_state, _upsert_districts, ...: an area that another session has
\* written, new or not, is waited for.
Upsert(s) ==
    LET c == AreaOf(s).code IN
    /\ req[s].op = "import" /\ req[s].at = "write" /\ Free(s, c)
    /\ held' = [held EXCEPT ![c] = s]
    /\ req' = [req EXCEPT ![s].next = @ + 1,
                          ![s].at = IF req[s].next = Len(req[s].import) THEN "log" ELSE "write"]
    /\ UNCHANGED <<areas, log, crossed>>

PointIn(i, c) == (CHOOSE a \in ToSet(i) : a.code = c).point

\* The commit of the log commits the areas.
Complete(s) ==
    LET i == req[s].import IN
    /\ req[s].op = "import" /\ req[s].at = "log"
    /\ areas' = [c \in Codes |-> IF held[c] = s THEN PointIn(i, c) ELSE areas[c]]
    /\ log' = [log EXCEPT ![i] = "completed"]
    /\ Release(s) /\ req' = [req EXCEPT ![s] = Idle] /\ UNCHANGED crossed

\* Anything raised on the way: the areas are rolled back, then it is logged.
RollBack(s) ==
    /\ req[s].op = "import" /\ req[s].at \in {"write", "log"}
    /\ Release(s) /\ req' = [req EXCEPT ![s].at = "failed"]
    /\ UNCHANGED <<areas, log, crossed>>
LogFailure(s) ==
    /\ req[s].op = "import" /\ req[s].at = "failed"
    /\ areas' = [c \in Codes |-> IF held[c] = s THEN PointIn(req[s].import, c) ELSE areas[c]]
    /\ log' = [log EXCEPT ![req[s].import] = "failed"]
    /\ Release(s) /\ req' = [req EXCEPT ![s] = Idle] /\ UNCHANGED crossed

\* create_village, _ensure_placeable: in a taluk that is there, nothing covers the
\* point and nothing has the code; all is read before the row is inserted.
AddVillage(s, c, p) ==
    /\ req[s].op = "idle"
    /\ p \notin {areas[v] : v \in Codes} /\ areas[c] = Absent
    /\ req' = [req EXCEPT ![s] = [Idle EXCEPT !.op = "add", !.code = c, !.point = p]]
    /\ crossed' = (crossed \/ \E o \in Sessions \ {s} : req[o].op # "idle")
    /\ UNCHANGED <<areas, held, log>>

\* add_clipped_circle: the unique code waits for a row of the same code, and
\* fails if that was committed.
InsertVillage(s) ==
    LET c == req[s].code IN
    /\ req[s].op = "add" /\ Free(s, c)
    /\ areas' = IF areas[c] = Absent THEN [areas EXCEPT ![c] = req[s].point] ELSE areas
    /\ req' = [req EXCEPT ![s] = Idle] /\ UNCHANGED <<held, log, crossed>>

Crash(s) ==
    /\ req[s].op # "idle"
    /\ Release(s) /\ req' = [req EXCEPT ![s] = Idle] /\ UNCHANGED <<areas, log, crossed>>

ImportNext ==
    \E s \in Sessions :
        \/ \E i \in Imports : StartImport(s, i)
        \/ Upsert(s) \/ Complete(s) \/ RollBack(s) \/ LogFailure(s)
        \/ \E c \in Manual, p \in Points : AddVillage(s, c, p)
        \/ InsertVillage(s) \/ Crash(s)

ImportSpec == ImportInit /\ [][ImportNext]_importVars

-----------------------------------------------------------------------------
(* An import is all or nothing, as its log says: of an import that failed, *)
(* or died, no area is left that another did not bring.                    *)
Completed == {i \in Imports : log[i] = "completed"}
AllOrNothing ==
    /\ \A i \in Completed : \A a \in ToSet(i) : areas[a.code] # Absent
    /\ \A c \in Codes \ Manual : areas[c] # Absent => \E i \in Completed : \E a \in ToSet(i) : a.code = c

(* Imports of one state, whatever the order of the rest, never wait for    *)
(* each other in a circle: each writes the state first.                    *)
WaitsFor(s, o) == Wants(s) # "" /\ held[Wants(s)] = o /\ s # o
NoCircle == \A s, o \in Sessions : ~(WaitsFor(s, o) /\ WaitsFor(o, s))

(* No two villages added by hand cover one point, unless one was added     *)
(* while another session wrote.  (An import may bring a third.)            *)
CoveredOnce ==
    ~crossed => \A c, d \in Manual \ {a.code : a \in Written} :
                   c # d /\ areas[c] = areas[d] => areas[c] = Absent

\* An import is begun once; a handler holds what it has written, and no other.
Upserted(s) ==
    {req[s].import[k].code : k \in {k \in DOMAIN req[s].import :
        req[s].op = "import" /\ (req[s].at = "log" \/ (req[s].at = "write" /\ k < req[s].next))}}
HeldWritten == \A s \in Sessions, c \in Codes : held[c] = s <=> c \in Upserted(s)
BegunOnce ==
    \A s \in Sessions :
        /\ req[s].op = "import" =>
              /\ req[s].import \in Imports /\ log[req[s].import] = "started" /\ req[s].at # "idle"
              /\ req[s].at = "write" => req[s].next \in DOMAIN req[s].import
              /\ \A o \in Sessions \ {s} : req[o].op = "import" => req[o].import # req[s].import
        /\ req[s].op = "add" => req[s].code \in Manual /\ req[s].point \in Points
AddedAlone ==
    ~crossed => \A s \in Sessions : req[s].op = "add" =>
        /\ \A o \in Sessions \ {s} : req[o].op = "idle"
        /\ \A c \in Codes : areas[c] # req[s].point
ImportIInv == ImportTypeOK /\ HeldWritten /\ BegunOnce /\ AddedAlone /\ AllOrNothing /\ CoveredOnce
=============================================================================
