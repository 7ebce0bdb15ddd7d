--------------------------- MODULE PluginManifests --------------------------
(***************************************************************************)
(* What the manifests of plugins say, in two machines that run apart: what *)
(* is accepted and applied (Manifest...), and the order of loading         *)
(* (Order...).                                                             *)
(***************************************************************************)
EXTENDS Naturals, Sequences, SequencesExt, FiniteSets, FiniteSetsExt, Relation

CONSTANTS
    Root,       \* the slug of the root category of the plugin's business type
    Top,        \* the slug of the root of all, BusinessCategorySlug.ROOT
    Core,       \* CORE_API_VERSION, as <<major, minor, patch>>
    Manifests,  \* the manifests one of which is applied ...
    Others,     \* ... beside these
    MaxKeys     \* bound: keys to order are 1..MaxKeys, ordered as their names are

VARIABLES
    candidate,  \* the manifest under test, which stays what it is
    plugins,    \* the manifests of the plugins rows
    tables,     \* the plugin tables of the database, and the plugins that made them
    refused,    \* the manifests that parse_manifest or a loader refused

    found,      \* the keys with one candidate whose core_api range allows this core
    declares,   \* what each key's manifest says of each other key
    usable,     \* candidates, from which keys are dropped
    pass,       \* keys that the current pass still looks at
    changed,    \* whether it has dropped one
    remaining,  \* the keys not ordered yet, once no pass drops any
    ordered,
    failures    \* each key's error, "" for none

-----------------------------------------------------------------------------
(* What a plugin's manifest may say, and what its names are worth once     *)
(* several plugins are applied: categories, permissions and tables are     *)
(* told apart by prefixes of their names only.                             *)
(*                                                                         *)
(* A name is the sequence of its words.  The prefixes the code compares    *)
(* end in the character between words, so that startswith is IsPrefix.     *)
(* The handlers run one at a time, and plugins are disabled throughout     *)
(* (PluginLifecycle enables them).  Lengths and patterns of the fields are *)
(* left out.                                                               *)
manifestVars == <<candidate, plugins, tables, refused>>

Keys == {m.key : m \in {candidate} \cup Others}
Table(name, owner) == [name |-> name, owner |-> owner]

ManifestTypeOK ==
    /\ plugins \cup refused \subseteq {candidate} \cup Others
    /\ \A t \in tables : t.owner \in Keys

ManifestInit ==
    /\ candidate \in Manifests
    /\ plugins = {} /\ tables = {} /\ refused = {}

-----------------------------------------------------------------------------
\* Version, an ordered dataclass: is v before w?
Before(v, w) ==
    \E i \in 1 .. 3 : v[i] < w[i] /\ \A j \in 1 .. i - 1 : v[j] = w[j]

\* VersionBound.allows; a bound's missing numbers are 0, so "==1" is 1.0.0.
Full(version) == version \o SubSeq(<<0, 0, 0>>, Len(version) + 1, 3)
BoundAllows(bound, v) == LET w == Full(bound.version) IN
    CASE bound.comparator = ">=" -> ~Before(v, w)
      [] bound.comparator = "<=" -> ~Before(w, v)
      [] bound.comparator = "==" -> v = w
      [] bound.comparator = ">"  -> Before(w, v)
      [] bound.comparator = "<"  -> Before(v, w)
Allows(range, v) == \A bound \in range : BoundAllows(bound, v)

\* A permission is plugin.<key> and a suffix of at least two words.
ValidPermissions(m) ==
    LET namespace == <<"plugin", m.key>> IN
    \A p \in m.permissions : IsPrefix(namespace, p) /\ Len(p) >= Len(namespace) + 2

ValidDependencies(m) ==
    \A i \in DOMAIN m.dependencies : LET d == m.dependencies[i] IN
        d.key # m.key /\ \A j \in 1 .. i - 1 : m.dependencies[j].key # d.key

\* The parents a category may name: the root and those declared before it.
KnownParents(cats, i) == {Root} \cup {cats[j].slug : j \in 1 .. i - 1}
ValidCategories(m) ==
    LET cats == m.categories IN
    \A i \in DOMAIN cats :
        /\ \A j \in 1 .. i - 1 : cats[j].slug # cats[i].slug
        /\ \/ cats[i].slug = Root /\ cats[i].parent = Top
           \/ IsStrictPrefix(Root, cats[i].slug) /\ cats[i].parent \in KnownParents(cats, i)

ValidCapabilities(m) ==
    \A i \in DOMAIN m.capabilities : LET c == m.capabilities[i] IN
        /\ \A j \in 1 .. i - 1 : m.capabilities[j].key # c.key
        /\ c.permission \in m.permissions

\* ensure_isolated_base: the tables of the models the plugin registers.
TablesIsolated(m) == \A t \in m.tables : IsStrictPrefix(m.key, t)

\* The manifest parses, and the plugin loads on this core.
Accepted(m) ==
    /\ ValidPermissions(m) /\ ValidDependencies(m)
    /\ ValidCategories(m) /\ ValidCapabilities(m)
    /\ TablesIsolated(m)
    /\ Allows(m.core, Core)

Applied(key) == \E p \in plugins : p.key = key
\* Are the required dependencies applied, in a version that will do?
DependenciesMet(m) ==
    \A d \in ToSet(m.dependencies) :
        d.optional \/ \E p \in plugins : p.key = d.key /\ Allows(d.range, p.version)

\* PluginInstallationService.apply; a migration fails that makes a table which
\* is there already, and the transaction is rolled back.
Apply(m) ==
    /\ ~Applied(m.key) /\ m \notin refused
    /\ IF Accepted(m)
       THEN /\ DependenciesMet(m)
            /\ \A t \in tables : t.name \notin m.tables
            /\ plugins' = plugins \cup {m}
            /\ tables' = tables \cup {Table(t, m.key) : t \in m.tables}
            /\ UNCHANGED refused
       ELSE refused' = refused \cup {m} /\ UNCHANGED <<plugins, tables>>
    /\ UNCHANGED candidate

\* PluginUninstallService._drop_plugin_tables: the tables of the plugin's
\* prefix, but for those of a longer prefix of another plugin.
Dropped(key) ==
    {t \in tables :
        /\ IsStrictPrefix(key, t.name)
        /\ \A p \in plugins : IsStrictPrefix(key, p.key) => ~IsStrictPrefix(p.key, t.name)}

\* _ensure_removable, _remove_records.
Uninstall(m) ==
    /\ m \in plugins
    /\ \A p \in plugins : \A d \in ToSet(p.dependencies) : d.key = m.key => d.optional
    /\ plugins' = plugins \ {m}
    /\ tables' = tables \ Dropped(m.key)
    /\ UNCHANGED <<candidate, refused>>

ManifestNext == \E m \in {candidate} \cup Others : Apply(m) \/ Uninstall(m)

ManifestSpec == ManifestInit /\ [][ManifestNext]_manifestVars

-----------------------------------------------------------------------------
\* The categories of an applied plugin hang from the root of its type, however
\* they were listed: no slug is twice, and every set of them has one whose
\* parent is outside, a declared one or the root, so that there is no circle.
CategoriesHang ==
    \A m \in plugins :
        LET cats == ToSet(m.categories)
            below == {c \in cats : c.slug # Root} IN
        /\ Len(m.categories) = Cardinality({c.slug : c \in cats})
        /\ \A S \in (SUBSET below) \ {{}} : \E c \in S : c.parent \notin {s.slug : s \in S}
        /\ \A c \in below : c.parent \in {Root} \cup {s.slug : s \in below}
        /\ \A c \in cats \ below : c.parent = Top

\* No two plugins declare one permission, whatever their keys, and who opens a
\* capability is asked for one that its own plugin declares.
PermissionsApart ==
    \A m \in plugins, n \in plugins :
        /\ m # n => m.permissions \cap n.permissions = {}
        /\ \A c \in ToSet(m.capabilities) : c.permission \in n.permissions => m = n

\* An applied plugin's required dependencies stay applied, and versions compare
\* as their numbers do, not as their first differing digits.
Number(v) == (v[1] * 10 + v[2]) * 10 + v[3]
DependenciesStay ==
    \A m \in plugins :
        /\ \A d \in ToSet(m.dependencies) : d.optional \/ Applied(d.key)
        /\ \A b \in m.core : LET bound == Number(Full(b.version)) IN
              /\ b.comparator \in {">=", "=="} => Number(Core) >= bound
              /\ b.comparator \in {"<=", "=="} => Number(Core) <= bound
              /\ b.comparator = ">" => Number(Core) > bound
              /\ b.comparator = "<" => Number(Core) < bound

\* Uninstalling a plugin takes all of its own tables and no other's, except of
\* a table that two keys claim: plg_abc_def_x may be of abc or of abc_def.
Ambiguous(name, owner) == \E k \in Keys : IsStrictPrefix(owner, k) /\ IsStrictPrefix(k, name)
OwnTablesOnly ==
    /\ \A m \in plugins : \A t \in m.tables : Table(t, m.key) \in tables \/ Ambiguous(t, m.key)
    /\ \A t \in tables : Applied(t.owner) \/ Ambiguous(t.name, t.owner)

-----------------------------------------------------------------------------
(* resolve_load_order: which of the plugins found can be loaded, and in    *)
(* which order.  Keys that lack a dependency are dropped, pass after pass  *)
(* over the keys in their order; the rest is sorted topologically.         *)
(*                                                                         *)
(* A manifest names each dependency with a range of versions, and marks it *)
(* required or optional; what matters of the range is whether it allows    *)
(* the version that was found.                                             *)
orderVars == <<found, declares, usable, pass, changed, remaining, ordered, failures>>

LoadKeys  == 1..MaxKeys
Kinds == {"none", "required", "incompatible", "optional", "optional incompatible"}
Errors == {"", "missing", "incompatible", "cycle", "failed"}

OrderTypeOK ==
    /\ found \subseteq LoadKeys /\ usable \subseteq found
    /\ pass \subseteq found /\ remaining \subseteq usable
    /\ declares \in [LoadKeys -> [LoadKeys -> Kinds]]
    /\ changed \in BOOLEAN
    /\ ToSet(ordered) \subseteq usable \ remaining
    /\ failures \in [LoadKeys -> Errors]

\* No manifest may declare its own key, nor one key twice.
Declarations == {d \in [LoadKeys -> [LoadKeys -> Kinds]] : \A k \in LoadKeys : d[k][k] = "none"}

OrderInit ==
    /\ declares \in Declarations
    /\ found \in {LoadKeys} \cup {LoadKeys \ {k} : k \in LoadKeys}
    /\ \A k \in LoadKeys \ found : \A d \in LoadKeys : declares[k][d] = "none"
    /\ usable = found /\ pass = found /\ changed = FALSE
    /\ remaining = {} /\ ordered = <<>>
    /\ failures = [k \in LoadKeys |-> ""]

Requires(k, d) == declares[k][d] \in {"required", "incompatible"}
Suits(k, d)   == declares[k][d] \in {"none", "required", "optional"}

\* _dependency_error: the first error, in the order of the declarations.
DependencyErrors(k) ==
    {e \in {"missing", "incompatible"} :
        \E d \in LoadKeys : IF d \in usable THEN e = "incompatible" /\ ~Suits(k, d)
                        ELSE e = "missing" /\ Requires(k, d)}

\* _drop_unsatisfied
Examine ==
    LET k == Min(pass) IN
    /\ pass # {}
    /\ pass' = pass \ {k}
    /\ IF DependencyErrors(k) = {}
       THEN UNCHANGED <<usable, changed, failures>>
       ELSE /\ usable' = usable \ {k}
            /\ changed' = TRUE
            /\ \E e \in DependencyErrors(k) : failures' = [failures EXCEPT ![k] = e]
    /\ UNCHANGED <<found, declares, remaining, ordered>>

NextPass ==
    /\ pass = {} /\ changed
    /\ pass' = usable /\ changed' = FALSE
    /\ UNCHANGED <<found, declares, usable, remaining, ordered, failures>>

\* _edges, _topological_order
Edges(k)   == {d \in usable : declares[k][d] # "none"}
Ready      == {k \in remaining : Edges(k) \cap remaining = {}}
Sorting    == pass = {} /\ ~changed
Settled(k) == k \in ToSet(ordered) \/ failures[k] # ""

StartSorting ==
    /\ Sorting /\ remaining = {} /\ \E k \in usable : ~Settled(k)
    /\ remaining' = usable
    /\ UNCHANGED <<found, declares, usable, pass, changed, ordered, failures>>

Place ==
    /\ Ready # {}
    /\ ordered' = Append(ordered, Min(Ready))
    /\ remaining' = remaining \ {Min(Ready)}
    /\ UNCHANGED <<found, declares, usable, pass, changed, failures>>

\* _reaches_itself, within the keys W.
OnCycle(k, W) == TransitiveClosure([p \in W \X W |-> p[2] \in Edges(p[1])], W)[k, k]

FailBlocked ==
    /\ remaining # {} /\ Ready = {}
    /\ failures' = [k \in LoadKeys |-> IF k \notin remaining THEN failures[k]
                                   ELSE IF OnCycle(k, remaining) THEN "cycle" ELSE "failed"]
    /\ remaining' = {}
    /\ UNCHANGED <<found, declares, usable, pass, changed, ordered>>

OrderNext == Examine \/ NextPass \/ StartSorting \/ Place \/ FailBlocked
OrderSpec == OrderInit /\ [][OrderNext]_orderVars

-----------------------------------------------------------------------------
Done == Sorting /\ remaining = {} /\ \A k \in usable : Settled(k)

(* What is already ordered loads in that order: every dependency a key     *)
(* requires, and every optional one that is usable, stands before it in a  *)
(* version it allows.                                                      *)
OrderRespectsDependencies ==
    \A i \in DOMAIN ordered, d \in LoadKeys :
        LET before == {ordered[j] : j \in 1..(i - 1)} IN
        /\ Requires(ordered[i], d) => d \in before
        /\ d \in Edges(ordered[i]) => d \in before /\ Suits(ordered[i], d)

(* When it ends, every key found is either ordered, once, or failed, and   *)
(* "cycle" is reported of exactly the usable keys that are on a cycle.     *)
EveryKeyAccounted ==
    Done => /\ IsInjective(ordered)
            /\ \A k \in found : (k \in ToSet(ordered)) # (failures[k] # "")
            /\ \A k \in found : failures[k] = "cycle" <=> k \in usable /\ OnCycle(k, usable)

(* When no optional dependency excludes the version found, the order has   *)
(* every key that could be loaded: those of the largest set that contains  *)
(* the requirements of its members, but for what leads to a cycle.         *)
Sustained(S) == \A k \in S, d \in LoadKeys : Requires(k, d) => declares[k][d] = "required" /\ d \in S
Largest      == UNION {S \in SUBSET found : Sustained(S)}
LoadsAllItCan ==
    Done /\ (\A k, d \in LoadKeys : declares[k][d] # "optional incompatible") =>
        LET uses    == [p \in Largest \X Largest |-> declares[p[1]][p[2]] # "none"]
            reaches == TransitiveClosure(uses, Largest)
            cyclic  == {k \in Largest : reaches[k, k]}
        IN ToSet(ordered) = {k \in Largest \ cyclic : \A c \in cyclic : ~reaches[k, c]}
=============================================================================
