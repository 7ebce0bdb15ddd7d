---------------------------- MODULE PluginStorage ---------------------------
(***************************************************************************)
(* What is kept of one plugin, in two machines over variables of their     *)
(* own: what it has in the database, and its code.                         *)
(***************************************************************************)
EXTENDS Naturals, Sequences, SequencesExt

CONSTANTS Slugs,       \* of the declared categories
          Manifests,   \* of each version: its declarations, parents first
          Migrations,  \* of each version: the names of its migrations, sorted
          Sessions, NoSession,
          MaxEdits     \* bound: edits of the folder

VARIABLES
    req,       \* each session's handler; for the code, the handler under way

    plugin,    \* the version registered, 0 for none
    tree,      \* the categories with these slugs
    bindings,  \* plugin_category_bindings
    applied,   \* the rows of plg_<key>_migrations
    schema,    \* the migrations that made the plugin's tables
    lock,      \* who has PLUGIN_APPLY_ADVISORY_LOCK_ID
    tx,        \* what its transaction has written
    made,      \* categories made by this installation of the plugin
    moved,     \* categories that an administrator moved

    folder,    \* the content in the plugin's folder, and whether install_archive would put it there
    archive,   \* the package in plugin_packages: its files and its CONTENT_SHA256
    row,       \* the plugins row: the content applied, and its status
    loaded,    \* the plugin in app.state.plugin_registry: the version declared and what was imported
    mounted,   \* the plugins whose routes the app has, in the order mounted
    edits,
    touched,   \* the folder was edited while a handler was under way
    removed,   \* the plugin was uninstalled since the server started
    backup     \* the content applied that the package is the backup of

-----------------------------------------------------------------------------
(* What applying a version of one plugin writes to the database: the       *)
(* categories its manifest declares, the plugin's bindings to them, and    *)
(* its tables, made by migrations.  All of it is one transaction under the *)
(* advisory lock; the categories are also the administrators'.             *)
databaseVars == <<plugin, tree, bindings, applied, schema, lock, tx, req, made, moved>>

Versions  == DOMAIN Manifests
Root      == "root of the business type"
Elsewhere == "another root"
Absent    == [status |-> "absent", active |-> FALSE, parent |-> Root]
Row(status, active, parent) == [status |-> status, active |-> active, parent |-> parent]
Unbound   == [ownership |-> "none", bind |-> FALSE, removed |-> TRUE]
NoTx      == [made |-> {}, adopted |-> {}, bindings |-> [c \in Slugs |-> Unbound],
              applied |-> {}, schema |-> <<>>]
Idle      == [op |-> "idle", at |-> "idle", version |-> 0, next |-> 0]

Rows     == [status: {"absent", "pending", "published", "rejected"}, active: BOOLEAN,
             parent: Slugs \cup {Root, Elsewhere}]
Bindings == [ownership: {"none", "created", "adopted"}, bind: BOOLEAN, removed: BOOLEAN]
Scripts  == UNION {ToSet(Migrations[v]) : v \in Versions}

DatabaseTypeOK ==
    /\ plugin \in {0} \cup Versions /\ tree \in [Slugs -> Rows]
    /\ bindings \in [Slugs -> Bindings]
    /\ applied \subseteq Scripts /\ ToSet(schema) \subseteq Scripts
    /\ lock \in Sessions \cup {NoSession}
    /\ tx.made \cup tx.adopted \subseteq Slugs /\ tx.bindings \in [Slugs -> Bindings] /\ tx.applied \subseteq Scripts
    /\ \A s \in Sessions : req[s].op \in {"idle", "apply", "uninstall"} /\ req[s].version \in {0} \cup Versions
    /\ made \subseteq Slugs /\ moved \subseteq Slugs

DatabaseInit ==
    /\ plugin = 0 /\ tree = [c \in Slugs |-> Absent] /\ bindings = [c \in Slugs |-> Unbound]
    /\ applied = {} /\ schema = <<>> /\ lock = NoSession /\ tx = NoTx
    /\ req = [s \in Sessions |-> Idle] /\ made = {} /\ moved = {}

\* What the transaction reads: what is committed and what it wrote.
Declared(v)    == ToSet(Manifests[v])
SlugsOf(v)     == {d.slug : d \in Declared(v)}
Declaration(s) == Manifests[req[s].version][req[s].next]
Made(v, c)     == Row("published", TRUE, (CHOOSE d \in Declared(v) : d.slug = c).parent)
Seen(s)        == [c \in Slugs |-> IF c \in tx.made THEN Made(req[s].version, c) ELSE tree[c]]
Usable(rows, c) == c # Root => rows[c].status = "published" /\ rows[c].active
UnderRoot(rows, c) ==
    \E path \in UNION {[1..n -> Slugs] : n \in 1..2} :
        /\ path[1] = c /\ rows[path[Len(path)]].parent = Root
        /\ \A i \in 1..Len(path) - 1 : rows[path[i]].parent = path[i + 1]

----------------------------------------------------------------------------
(* PluginInstallationService._register                                     *)

Ask(s, op, v) ==
    /\ req[s] = Idle
    /\ req' = [req EXCEPT ![s] = [Idle EXCEPT !.op = op, !.at = "lock", !.version = v]]
    /\ UNCHANGED <<plugin, tree, bindings, applied, schema, lock, tx, made, moved>>

\* A downgrade is refused.
LockForApply(s) ==
    /\ req[s].at = "lock" /\ lock = NoSession
    /\ req[s].op = "apply" => req[s].version >= plugin
    /\ lock' = s
    /\ tx' = [NoTx EXCEPT !.bindings = bindings, !.applied = applied, !.schema = schema]
    /\ req' = [req EXCEPT ![s].at = IF @ = "lock" /\ req[s].op = "apply" THEN "resolve" ELSE "remove",
                          ![s].next = 1]
    /\ UNCHANGED <<plugin, tree, bindings, applied, schema, made, moved>>

\* _resolve: adopts a published category of the business type, or makes one.
Adoptable(s, c) == Seen(s)[c].status = "published" /\ UnderRoot(Seen(s), c)
Resolve(s) ==
    /\ req[s].at = "resolve" /\ req[s].next <= Len(Manifests[req[s].version])
    /\ LET d == Declaration(s) IN
       \/ /\ Seen(s)[d.slug] # Absent /\ Adoptable(s, d.slug)
          /\ tx' = [tx EXCEPT !.adopted = @ \cup {d.slug}]
       \/ /\ Seen(s)[d.slug] = Absent /\ Usable(Seen(s), d.parent)
          /\ tx' = [tx EXCEPT !.made = @ \cup {d.slug}]
    /\ req' = [req EXCEPT ![s].next = @ + 1]
    /\ UNCHANGED <<plugin, tree, bindings, applied, schema, lock, made, moved>>

\* _upsert_bindings and _mark_removed; a category deleted meanwhile fails.
Upserted(s, c) ==
    LET v == req[s].version
        d == CHOOSE d \in Declared(v) : d.slug = c IN
    IF c \in SlugsOf(v)
    THEN [ownership |-> IF bindings[c] # Unbound THEN bindings[c].ownership
                        ELSE IF c \in tx.made THEN "created" ELSE "adopted",
          bind |-> d.bind, removed |-> FALSE]
    ELSE [bindings[c] EXCEPT !.removed = TRUE]
Bind(s) ==
    /\ req[s].at = "resolve" /\ req[s].next > Len(Manifests[req[s].version])
    /\ SlugsOf(req[s].version) \subseteq tx.made \cup tx.adopted
    /\ tx' = [tx EXCEPT !.bindings = [c \in Slugs |-> Upserted(s, c)]]
    /\ req' = [req EXCEPT ![s].at = IF plugin = req[s].version THEN "commit" ELSE "migrate"]
    /\ UNCHANGED <<plugin, tree, bindings, applied, schema, lock, made, moved>>

\* run_migrations: refuses when a migration applied is not on disk.
Pending(s) == SelectSeq(Migrations[req[s].version], LAMBDA m : m \notin tx.applied)
Migrate(s) ==
    /\ req[s].at = "migrate" /\ tx.applied \subseteq ToSet(Migrations[req[s].version])
    /\ IF Pending(s) = <<>>
       THEN req' = [req EXCEPT ![s].at = "commit"] /\ UNCHANGED tx
       ELSE /\ tx' = [tx EXCEPT !.applied = @ \cup {Head(Pending(s))},
                                !.schema = Append(@, Head(Pending(s)))]
            /\ UNCHANGED req
    /\ UNCHANGED <<plugin, tree, bindings, applied, schema, lock, made, moved>>

Release(s) ==
    /\ lock' = IF lock = s THEN NoSession ELSE lock
    /\ tx' = IF lock = s THEN NoTx ELSE tx
    /\ req' = [req EXCEPT ![s] = Idle]

Commit(s) ==
    /\ req[s].at = "commit"
    /\ plugin' = req[s].version /\ tree' = Seen(s)
    /\ bindings' = tx.bindings /\ applied' = tx.applied /\ schema' = tx.schema
    /\ made' = made \cup tx.made
    /\ Release(s)
    /\ UNCHANGED moved

\* PluginUninstallService._remove_records: the bindings go with the row, the
\* migrations' table with the others; the categories stay.
RemoveRecords(s) ==
    /\ req[s].at = "remove" /\ plugin # 0
    /\ plugin' = 0 /\ bindings' = [c \in Slugs |-> Unbound]
    /\ applied' = {} /\ schema' = <<>> /\ made' = {}
    /\ Release(s)
    /\ UNCHANGED <<tree, moved>>

\* A check refuses, a script or a statement fails, or the process dies.
RollBack(s) ==
    /\ req[s] # Idle
    /\ Release(s)
    /\ UNCHANGED <<plugin, tree, bindings, applied, schema, made, moved>>

----------------------------------------------------------------------------
(* CategoryService, as it is committed: a slug that the transaction is     *)
(* about to commit is waited for, and so is a category that it binds.      *)

Administer(c) ==
    /\ c \notin tx.made
    /\ \/ /\ tree[c] = Absent
          /\ \E p \in {Root, Elsewhere}, status \in {"pending", "published"} :
              tree' = [tree EXCEPT ![c] = Row(status, status = "published", p)]
          /\ UNCHANGED <<moved, tx>>
       \/ /\ tree[c].status = "pending"
          /\ \E status \in {"published", "rejected"} :
              tree' = [tree EXCEPT ![c].status = status, ![c].active = status = "published"]
          /\ UNCHANGED <<moved, tx>>
       \/ /\ tree[c].status = "published"
          /\ tree' = [tree EXCEPT ![c].active = ~@]
          /\ UNCHANGED <<moved, tx>>
       \/ /\ tree[c].status = "published"
          /\ \E p \in {Root, Elsewhere} \ {tree[c].parent} : tree' = [tree EXCEPT ![c].parent = p]
          /\ moved' = moved \cup {c} /\ UNCHANGED tx
       \/ /\ tree[c] # Absent /\ bindings[c] = Unbound /\ tx.bindings[c] = Unbound
          /\ \A d \in Slugs : tree[d] # Absent => tree[d].parent # c
          /\ \A d \in tx.made : Seen(lock)[d].parent # c
          /\ tree' = [tree EXCEPT ![c] = Absent]
          /\ moved' = moved \ {c} /\ tx' = [tx EXCEPT !.adopted = @ \ {c}]
    /\ UNCHANGED <<plugin, bindings, applied, schema, lock, req, made>>

DatabaseNext ==
    \/ \E s \in Sessions :
        \/ LockForApply(s) \/ Resolve(s) \/ Bind(s) \/ Migrate(s) \/ Commit(s)
        \/ RemoveRecords(s) \/ RollBack(s)
        \/ \E v \in Versions : Ask(s, "apply", v)
        \/ Ask(s, "uninstall", 0)
    \/ \E c \in Slugs : Administer(c)

DatabaseSpec == DatabaseInit /\ [][DatabaseNext]_databaseVars

----------------------------------------------------------------------------
Active(c) == bindings[c] # Unbound /\ ~bindings[c].removed

\* Whatever fails or is cut short, the bindings in force are those that the
\* registered version declares, ...
BindingsDeclared ==
    \A c \in Slugs :
        Active(c) <=> plugin # 0 /\ [slug |-> c, bind |-> bindings[c].bind]
                        \in {[slug |-> d.slug, bind |-> d.bind] : d \in Declared(plugin)}
\* ... and it remembers which of the categories it made itself.
OwnershipTrue == \A c \in Slugs : bindings[c] # Unbound => (bindings[c].ownership = "created") = (c \in made)
\* What it is bound to is published, and of its business type until an
\* administrator moves it.
BoundAreOfType ==
    \A c \in Slugs : Active(c) => /\ tree[c].status = "published"
                                  /\ moved = {} => UnderRoot(tree, c)
\* The tables are those of the registered version, each migration run once.
SchemaOfVersion ==
    /\ IsInjective(schema) /\ ToSet(schema) = applied
    /\ applied = IF plugin = 0 THEN {} ELSE ToSet(Migrations[plugin])

BindingsConsistent == BindingsDeclared /\ OwnershipTrue /\ BoundAreOfType

-----------------------------------------------------------------------------
(* The code of one plugin on its way into a server: its folder, which      *)
(* anybody may edit, the packages made of it, the content recorded when it *)
(* was applied, and the routes that are mounted.  A content is what the    *)
(* hash is of: its manifest's version, the routes it registers and what is *)
(* wrong with it.  Files outside the hash are not looked at by anything.   *)
(*                                                                         *)
(* The handlers run one at a time (their interleavings: PluginLifecycle,   *)
(* their transactions: above; dependencies: PluginManifests), but          *)
(* the folder is read anew at every step.                                  *)
packageVars == <<folder, archive, row, loaded, mounted, req, edits, touched, removed, backup>>

\* A route: is business_id in its path or elsewhere, which plugins' access
\* does it ask for, is it an APIRoute, has it tags.
Plain == [scoped |-> FALSE, elsewhere |-> FALSE, asks |-> {}, standard |-> TRUE, tagged |-> FALSE]
OfBusiness == [Plain EXCEPT !.scoped = TRUE]
RoutersOf(code) ==
    CASE code = "one router"  -> <<<<Plain, OfBusiness, Plain>>>>
      [] code = "two routers" -> <<<<[OfBusiness EXCEPT !.asks = {"own"}], Plain>>, <<OfBusiness>>>>
      [] code = "foreign"     -> <<<<Plain, [OfBusiness EXCEPT !.asks = {"own", "other"}]>>>>
      [] code = "unscoped"    -> <<<<[Plain EXCEPT !.asks = {"own"}]>>>>
      [] code = "query"       -> <<<<OfBusiness, [Plain EXCEPT !.elsewhere = TRUE]>>>>
      [] OTHER                -> <<<<[Plain EXCEPT !.standard = FALSE, !.tagged = TRUE]>>>>

Content(version, code, flaw) == [version |-> version, code |-> code, flaw |-> flaw]
Contents ==
    {Content(1, "one router", "none"), Content(1, "two routers", "large"), Content(2, "two routers", "none")}
    \cup {Content(2, c, "none") : c \in {"foreign", "unscoped", "query", "unusual"}}
    \cup {Content(2, "one router", f) :
            f \in {"unverifiable", "entry", "scripts", "core api", "imports", "raises"}}
NoContent == Content(0, "none", "none")
NoFolder  == [content |-> NoContent, home |-> TRUE]
Archive(files, checksum) == [files |-> files, checksum |-> checksum]
NoArchive == Archive(NoContent, NoContent)
NoRow     == [content |-> NoContent, status |-> "NONE"]
NoPlugin  == [version |-> 0, code |-> NoContent]
NoHandler      == [op |-> "none", at |-> "idle", seen |-> NoContent]

PackageTypeOK ==
    /\ folder \in [content: Contents \cup {NoContent}, home: BOOLEAN]
    /\ {archive.files, archive.checksum, row.content, backup} \subseteq Contents \cup {NoContent}
    /\ row.status \in {"NONE", "INSTALLED", "ENABLED", "DISABLED"}
    /\ \A p \in {loaded} \cup ToSet(mounted) : p \in [version: 0..2, code: Contents \cup {NoContent}]
    /\ req \in [op: {"none", "package", "import", "install", "apply", "start"},
                at: {"idle", "pack", "discover", "check", "register", "load"},
                seen: Contents \cup {NoContent}]
    /\ edits \in 0..MaxEdits /\ {touched, removed} \subseteq BOOLEAN

PackageInit ==
    /\ folder = NoFolder /\ archive = NoArchive /\ backup = NoContent
    /\ row = NoRow /\ loaded = NoPlugin /\ mounted = <<>>
    /\ req = NoHandler /\ edits = 0 /\ touched = FALSE /\ removed = FALSE

----------------------------------------------------------------------------
(* What each check finds wrong.                                            *)
LoadsCandidate(c) == c # NoContent /\ c.flaw # "unverifiable"
HasEntry(c)       == c.flaw # "entry"
HasScripts(c)     == c.flaw # "scripts"
Compatible(c)     == c.flaw # "core api"
Within(c)         == c.flaw # "imports"

\* _ensure_business_routes_scoped
BusinessScoped(route) ==
    /\ route.asks \subseteq {"own"}
    /\ route.asks # {} => route.scoped
    /\ ~route.elsewhere
AcceptsRoutes(routers) ==
    \A i \in DOMAIN routers : \A route \in ToSet(routers[i]) :
        route.standard /\ ~route.tagged /\ BusinessScoped(route)
Registers(c)  == HasEntry(c) /\ c.flaw # "raises"
LoadPlugin(c) == c # NoContent /\ Within(c) /\ Registers(c) /\ AcceptsRoutes(RoutersOf(c.code))

SmokeLoads(c) == LoadsCandidate(c) /\ Compatible(c) /\ LoadPlugin(c)
Applicable(c) == c # NoContent /\ HasScripts(c) /\ Within(c) /\ SmokeLoads(c)

\* _extract and _verified_candidate
Verified(a) ==
    LET c == a.files IN
    /\ c.flaw # "large" /\ LoadsCandidate(c) /\ a.checksum = c
    /\ HasEntry(c) /\ HasScripts(c) /\ Compatible(c) /\ Within(c)

(* groupby: the routes of a router are mounted in runs of routes that all  *)
(* have business_id in their path, or none of them.                        *)
Groups(routes) ==
    FoldLeft(LAMBDA groups, route :
                IF groups # <<>> /\ Head(Last(groups)).scoped = route.scoped
                THEN [groups EXCEPT ![Len(groups)] = Append(@, route)]
                ELSE Append(groups, <<route>>),
             <<>>, routes)
Mount(group) == [i \in DOMAIN group |-> [route |-> group[i], access |-> Head(group).scoped]]
Mounted(c) ==
    FlattenSeq([i \in DOMAIN RoutersOf(c.code) |->
        LET groups == Groups(RoutersOf(c.code)[i])
        IN FlattenSeq([j \in DOMAIN groups |-> Mount(groups[j])])])

----------------------------------------------------------------------------
Edit(c, home) ==
    /\ edits < MaxEdits
    /\ folder' = IF c = NoContent THEN NoFolder ELSE [content |-> c, home |-> home]
    /\ edits' = edits + 1
    /\ touched' = (touched \/ req # NoHandler)
    /\ UNCHANGED <<archive, row, loaded, mounted, req, removed, backup>>

Begin(op, at, c) ==
    /\ req = NoHandler
    /\ req' = [op |-> op, at |-> at, seen |-> c]

\* package: the hash is taken first, then the files are read.
AskPackage ==
    /\ LoadsCandidate(folder.content) /\ Within(folder.content)
    /\ Begin("package", "pack", folder.content)
    /\ UNCHANGED <<folder, archive, row, loaded, mounted, edits, touched, removed, backup>>
Pack ==
    /\ req.at = "pack"
    /\ archive' = Archive(folder.content, req.seen)
    /\ backup' = NoContent
    /\ req' = NoHandler
    /\ UNCHANGED <<folder, row, loaded, mounted, edits, touched, removed>>

\* install_archive
FoundElsewhere == ~folder.home /\ LoadsCandidate(folder.content)
IsFree    == folder.home => folder.content = NoContent
Uploads   == {archive} \cup {Archive(c, c) : c \in Contents}
Import(upload) ==
    /\ Verified(upload)
    /\ row = NoRow /\ ~FoundElsewhere /\ IsFree
    /\ folder' = [content |-> upload.files, home |-> TRUE]
    /\ Begin("import", "discover", NoContent)
    /\ UNCHANGED <<archive, row, loaded, mounted, edits, touched, removed, backup>>
InstallFiles(replace) ==
    /\ req = NoHandler
    /\ Verified(archive) /\ ~FoundElsewhere /\ (replace \/ IsFree)
    /\ folder' = [content |-> archive.files, home |-> TRUE]
    /\ UNCHANGED <<archive, row, loaded, mounted, req, edits, touched, removed, backup>>

\* install and the command line's apply take the folder as it is.
AskFolder(op) ==
    /\ Begin(op, "discover", NoContent)
    /\ UNCHANGED <<folder, archive, row, loaded, mounted, edits, touched, removed, backup>>

Discover ==
    /\ req.at = "discover"
    /\ LoadsCandidate(folder.content) /\ Compatible(folder.content)
    /\ req' = [req EXCEPT !.at = "check", !.seen = folder.content]
    /\ UNCHANGED <<folder, archive, row, loaded, mounted, edits, touched, removed, backup>>
Check ==
    /\ req.at = "check" /\ Applicable(folder.content)
    /\ req' = [req EXCEPT !.at = "register"]
    /\ UNCHANGED <<folder, archive, row, loaded, mounted, edits, touched, removed, backup>>

\* A downgrade is refused, and so is another content of the same version.
Register ==
    /\ req.at = "register"
    /\ row # NoRow /\ req.seen.version <= row.content.version => req.seen = row.content
    /\ row' = [content |-> req.seen, status |-> IF row = NoRow THEN "INSTALLED" ELSE row.status]
    /\ req' = IF req.op = "apply" THEN NoHandler ELSE [req EXCEPT !.at = "load"]
    /\ UNCHANGED <<folder, archive, loaded, mounted, edits, touched, removed, backup>>

\* A check fails, or the database or the smoke process does.
Fail ==
    /\ req.at \in {"discover", "check", "register"}
    /\ folder' = IF req.op = "import" THEN NoFolder ELSE folder
    /\ req' = NoHandler
    /\ UNCHANGED <<archive, row, loaded, mounted, edits, touched, removed, backup>>

\* load_into_running_app, or build_registry after its checks: what is imported
\* is what the folder then has.
Load ==
    /\ req.at = "load"
    /\ req' = NoHandler
    /\ IF loaded = NoPlugin /\ LoadPlugin(folder.content)
       THEN /\ loaded' = [version |-> req.seen.version, code |-> folder.content]
            /\ mounted' = Append(mounted, loaded')
       ELSE UNCHANGED <<loaded, mounted>>
    /\ UNCHANGED <<folder, archive, row, edits, touched, removed, backup>>

Eligible ==
    /\ LoadsCandidate(folder.content) /\ Compatible(folder.content)
    /\ row # NoRow /\ folder.content = row.content
Start ==
    /\ req = NoHandler
    /\ loaded' = NoPlugin /\ mounted' = <<>> /\ removed' = FALSE
    /\ req' = IF Eligible THEN [op |-> "start", at |-> "load", seen |-> folder.content] ELSE NoHandler
    /\ UNCHANGED <<folder, archive, row, edits, touched, backup>>

Enable ==
    /\ req = NoHandler
    /\ row.status \in {"INSTALLED", "DISABLED"}
    /\ loaded # NoPlugin /\ loaded.version = row.content.version
    /\ row' = [row EXCEPT !.status = "ENABLED"]
    /\ UNCHANGED <<folder, archive, loaded, mounted, req, edits, touched, removed, backup>>
Disable ==
    /\ req = NoHandler
    /\ row.status = "ENABLED"
    /\ row' = [row EXCEPT !.status = "DISABLED"]
    /\ UNCHANGED <<folder, archive, loaded, mounted, req, edits, touched, removed, backup>>

\* The routes stay mounted.  The files go if the plugin is found, and only
\* after they are packaged.
BacksUp(files) == files /\ LoadsCandidate(folder.content)
Uninstall(files) ==
    /\ req = NoHandler /\ ~removed
    /\ row.status \in {"INSTALLED", "DISABLED"}
    /\ BacksUp(files) => Within(folder.content)
    /\ IF BacksUp(files)
       THEN /\ archive' = Archive(folder.content, folder.content)
            /\ backup' = IF folder.content = row.content THEN row.content ELSE NoContent
            /\ folder' = NoFolder
       ELSE UNCHANGED <<archive, backup, folder>>
    /\ row' = NoRow /\ loaded' = NoPlugin /\ removed' = TRUE
    /\ UNCHANGED <<mounted, req, edits, touched>>

PackageNext ==
    \/ \E c \in Contents \cup {NoContent}, home \in BOOLEAN : Edit(c, home)
    \/ AskPackage \/ Pack
    \/ \E upload \in Uploads : Import(upload)
    \/ \E replace \in BOOLEAN : InstallFiles(replace)
    \/ \E op \in {"install", "apply"} : AskFolder(op)
    \/ Discover \/ Check \/ Register \/ Fail \/ Load \/ Start
    \/ Enable \/ Disable
    \/ \E files \in BOOLEAN : Uninstall(files)

PackageSpec == PackageInit /\ [][PackageNext]_packageVars

----------------------------------------------------------------------------
\* ensure_serving, for the routes that were mounted first.
Answer ==
    IF mounted = <<>> \/ row.status # "ENABLED" \/ Head(mounted).version # row.content.version
    THEN NoContent ELSE Head(mounted).code

\* Unless the plugin was uninstalled since the server started, or its folder
\* edited under a handler, requests are answered by the code that was applied,
\* and by it as soon as the plugin is enabled and loaded in that version.
AnswersAsApplied ==
    ~removed /\ ~touched =>
        /\ Answer \in {NoContent, row.content}
        /\ row.status = "ENABLED" /\ loaded.version = row.content.version => Answer = row.content

\* What was applied, and is not edited since, loads whenever a server starts.
AppliedLoads == row # NoRow /\ ~touched /\ folder.content = row.content => Eligible /\ LoadPlugin(row.content)

\* Before anything is deleted it is packaged; what was applied can be imported
\* again from that package, unless it is too large for one.
BackupInstalls ==
    backup # NoContent /\ ~touched =>
        archive.files = backup /\ (backup.flaw = "large" \/ Verified(archive))

\* Each mounted route is as it was registered, in its place among the others
\* (the first that matches a request answers it), and stands behind the check of
\* the business if it gets a business's id at all or asks for a plugin's.
RoutesGuarded ==
    \A p \in ToSet(mounted) :
        /\ [i \in DOMAIN Mounted(p.code) |-> Mounted(p.code)[i].route] = FlattenSeq(RoutersOf(p.code.code))
        /\ \A m \in ToSet(Mounted(p.code)) :
            m.access <=> (m.route.scoped \/ m.route.elsewhere \/ m.route.asks # {})
=============================================================================
