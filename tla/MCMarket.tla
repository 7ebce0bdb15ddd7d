------------------------------ MODULE MCMarket ------------------------------
(***************************************************************************)
(* The components about customers, businesses, their categories and content, *)
(* and plugins, each by itself: `scenario` says which of them runs, and stays *)
(* what it is.  Variables of the same name are shared; those of the others are *)
(* "off".                                                                  *)
(***************************************************************************)
EXTENDS Integers, Sequences, FiniteSets, TLC

CONSTANTS Users, NoUser, Businesses, NoBusiness, Images, NoImage, Sessions,
          NoSession

VARIABLES
    scenario, req, overlapped, row, lock, crashed, loaded, crossed, cut,
    removed, tree, files, rows,
    open, participants, joined, cart, orders,
    disk,
    found, declares, usable, pass, changed, remaining, ordered, failures,
    stored, cache,
    logged,
    granted, reviewed, excused,
    event, images,
    post, publications, announced, barred,
    sku, price, left,
    folder, archive, mounted, edits, touched, backup,
    plugin, bindings, applied, schema, tx, made, moved,
    candidate, plugins, tables, refused,
    uploaded

customersVars == <<open, participants, joined, cart, orders>>
pluginsVars == <<disk>>
orderVars == <<found, declares, usable, pass, changed, remaining, ordered,
               failures>>
settingsVars == <<stored, cache>>
switchVars == <<logged>>
reviewVars == <<granted, reviewed, excused>>
eventVars == <<event, images>>
postVars == <<post, publications, announced, barred>>
catalogVars == <<sku, price, left>>
packageVars == <<folder, archive, mounted, edits, touched, backup>>
databaseVars == <<plugin, bindings, applied, schema, tx, made, moved>>
parsingVars == <<candidate, plugins, tables, refused>>
mediaVars == <<uploaded>>
vars == <<scenario, req, overlapped, row, lock, crashed, loaded, crossed, cut,
          removed, tree, files, rows, customersVars, pluginsVars, orderVars,
          settingsVars, switchVars, reviewVars, eventVars, postVars,
          catalogVars, packageVars, databaseVars, parsingVars, mediaVars>>

ASSUME FiniteAssumption == IsFiniteSet(Users) /\ IsFiniteSet(Images) /\ IsFiniteSet(Sessions)
ASSUME NoneAssumption   ==
    /\ NoUser \notin Users /\ "no_sku" \notin Users
    /\ NoBusiness \notin Businesses /\ NoImage \notin Images
    /\ NoSession \notin Sessions \cup {"session"}

\* Two plugins, one of which needs the other, or three categories, with one
\* request at a time; or one plugin or two categories with two requests.  A
\* set of Users or Businesses also stands for SKUs, products, categories.
Customers  == INSTANCE Participation WITH MaxQuantity <- 2, MaxOrders <- 1
TwoPlugins == INSTANCE PluginLifecycle WITH Keys <- {"a", "b"}, Requires <- "a" :> {"b"} @@ "b" :> {},
                  MaxVersion <- 2, Sessions <- {"session"}
OnePlugin  == INSTANCE PluginLifecycle WITH Keys <- {"b"}, Requires <- "b" :> {}, MaxVersion <- 2
Settings   == INSTANCE SettingsCache WITH Keys <- {"date", "time"}, Values <- {"v"}, Unset <- "unset"
Business   == INSTANCE BusinessRecords
TwoCategories   == INSTANCE CategoryTree WITH Categories <- Businesses, Top <- NoBusiness
ThreeCategories == INSTANCE CategoryTree WITH Categories <- {"a", "b", "c"}, Top <- "top",
                       Sessions <- {"session"}
Event      == INSTANCE Events WITH MaxImages <- 2, Times <- 1..3
Post       == INSTANCE PostLifecycle WITH MaxPublications <- 2, MaxFiles <- 3,
                  Uploads <- {<<"image", "video">>, <<"image", "image", "refused_image">>,
                              <<"video_of_refused_thumbnail">>}
Place      == INSTANCE PopularPlaces WITH Places <- Businesses, NoPlace <- NoBusiness
Catalog    == INSTANCE ProductCatalog WITH Products <- Businesses, NoProduct <- NoBusiness, Skus <- Users,
                  MaxPrice <- 2, MaxImages <- 2

\* Three versions: they declare other categories, nest them otherwise or bind
\* others, and each has one migration more.
Declaration(slug, parent, bind) == [slug |-> slug, parent |-> parent, bind |-> bind]
Root == "root of the business type"
Storage    == INSTANCE PluginStorage WITH Slugs <- {"a", "b"}, MaxEdits <- 1,
                  Manifests <- <<<<Declaration("a", Root, TRUE), Declaration("b", "a", FALSE)>>,
                                 <<Declaration("b", Root, TRUE)>>,
                                 <<Declaration("a", Root, FALSE), Declaration("b", "a", TRUE)>>>>,
                  Migrations <- <<<<"1">>, <<"1", "2">>, <<"1", "2", "3">>>>

\* Keys of which one is the beginning of the other.  The manifests under test
\* differ from a plain one in one respect: their categories, dependencies,
\* permissions, capabilities, tables or the core they are for.
TopSlug  == <<"business">>
RootSlug == <<"business", "product">>
Abc    == <<"abc">>
AbcDef == <<"abc", "def">>
NameOf(key, suffix) == <<"plugin", key>> \o suffix
Manifest(key, own) ==
    [key |-> key, version |-> <<1, 0, 0>>, core |-> {}, categories |-> <<>>, tables |-> own,
     permissions |-> {NameOf(key, <<"x", "view">>)}, dependencies |-> <<>>,
     capabilities |-> <<[key |-> "menu", permission |-> NameOf(key, <<"x", "view">>)]>>]
PlainManifest == Manifest(Abc, {<<"abc", "x">>})
CategoryOf(slug, parent) == [slug |-> slug, parent |-> parent]
SlugA  == RootSlug \o <<"a">>
SlugAB == RootSlug \o <<"a", "b">>
Elsewhere == <<"business", "service", "a">>
AnyCategory ==
    {CategoryOf(s, p) : s \in {RootSlug, SlugA, SlugAB, Elsewhere}, p \in {TopSlug, RootSlug, SlugA, SlugAB}}
SomeCategory == {CategoryOf(s, p) : s \in {RootSlug, SlugA, SlugAB}, p \in {RootSlug, SlugA, SlugAB}}
CategoryLists ==
    {<<c>> : c \in AnyCategory} \cup {<<c, d>> : c \in AnyCategory, d \in AnyCategory}
    \cup {<<c, d, e>> : c \in SomeCategory, d \in SomeCategory, e \in SomeCategory}
Dependency(key, opt, range) == [key |-> key, optional |-> opt, range |-> range]
Bound(comparator, version) == [comparator |-> comparator, version |-> version]
SomeBounds ==
    {Bound(c, v) : c \in {">=", "<=", "==", ">", "<"}, v \in {<<1>>, <<1, 6>>, <<1, 6, 1>>, <<2>>, <<0, 7>>}}
Dependencies ==
    {<<Dependency(k, o, r)>> : k \in {Abc, AbcDef}, o \in BOOLEAN, r \in {{}, {Bound("<", <<1>>)}}}
    \cup {<<Dependency(AbcDef, TRUE, {}), Dependency(AbcDef, FALSE, {})>>}
Capability(key, permission) == [key |-> key, permission |-> permission]
TestedManifests ==
    {[PlainManifest EXCEPT !.categories = c] : c \in CategoryLists}
    \cup {[PlainManifest EXCEPT !.dependencies = d] : d \in Dependencies}
    \cup {[PlainManifest EXCEPT !.core = r] : r \in {{a, b} : a \in SomeBounds, b \in SomeBounds}}
    \cup {[PlainManifest EXCEPT !.permissions = @ \cup {NameOf(k, s)}] :
              k \in {Abc, AbcDef}, s \in {<<"x">>, <<"x", "edit">>, <<"x", "view">>}}
    \cup {[PlainManifest EXCEPT !.capabilities = @ \o <<Capability(c, NameOf(k, <<"x", "view">>))>>] :
              c \in {"menu", "widget"}, k \in {Abc, AbcDef}}
    \cup {Manifest(Abc, t) :
              t \in SUBSET {<<"abc", "x">>, <<"abc", "def", "x">>, <<"abc", "def", "y">>, <<"abcd", "x">>}}
Manifests == INSTANCE PluginManifests WITH MaxKeys <- 3, Root <- RootSlug, Top <- TopSlug,
               Core <- <<1, 6, 0>>, Manifests <- TestedManifests,
               Others <- {PlainManifest, Manifest(AbcDef, {<<"abc", "def", "x">>})}

CustomersOff == /\ open = "off" /\ participants = "off" /\ joined = "off"
                /\ cart = "off" /\ orders = "off"
PluginsOff == disk = "off"
OrderOff == /\ found = "off" /\ declares = "off" /\ usable = "off"
            /\ pass = "off" /\ changed = "off" /\ remaining = "off"
            /\ ordered = "off" /\ failures = "off"
SettingsOff == stored = "off" /\ cache = "off"
SwitchOff == logged = "off"
ReviewOff == granted = "off" /\ reviewed = "off" /\ excused = "off"
EventOff == event = "off" /\ images = "off"
PostOff == /\ post = "off" /\ publications = "off" /\ announced = "off"
           /\ barred = "off"
CatalogOff == sku = "off" /\ price = "off" /\ left = "off"
PackageOff == /\ folder = "off" /\ archive = "off" /\ mounted = "off"
              /\ edits = "off" /\ touched = "off" /\ backup = "off"
DatabaseOff == /\ plugin = "off" /\ bindings = "off" /\ applied = "off"
               /\ schema = "off" /\ tx = "off" /\ made = "off" /\ moved = "off"
ParsingOff == /\ candidate = "off" /\ plugins = "off" /\ tables = "off"
              /\ refused = "off"
MediaOff == uploaded = "off"

Scenarios == {"customers", "two_plugins", "one_plugin", "load_order",
              "settings", "switch", "review", "two_categories",
              "three_categories", "event", "post", "place", "catalog",
              "packages", "database", "manifests", "media"}
WithoutReq == scenario \in {"load_order", "manifests"}
WithoutOverlapped == scenario \in {"load_order", "settings", "switch",
        "review", "packages", "database", "manifests"}
WithoutRow == scenario \notin {"two_plugins", "one_plugin", "switch",
        "review", "packages"}
WithoutLock == scenario \notin {"two_plugins", "one_plugin", "switch",
        "database"}
WithoutCrashed == scenario \notin {"two_plugins", "one_plugin", "switch"}
WithoutLoaded == scenario \notin {"two_plugins", "one_plugin", "packages"}
WithoutCrossed == scenario \notin {"settings", "two_categories",
        "three_categories"}
WithoutCut == scenario \notin {"settings", "event", "place", "catalog",
        "media"}
WithoutRemoved == scenario \notin {"switch", "packages"}
WithoutTree == scenario \notin {"two_categories", "three_categories",
        "database"}
WithoutFiles == scenario \notin {"event", "place", "catalog", "media"}
WithoutRows == scenario \notin {"place", "catalog", "media"}

\* Each component begins or is off, and takes a step or stands still.
Init ==
    /\ scenario \in Scenarios
    /\ IF scenario = "customers" THEN Customers!Init ELSE CustomersOff
    /\ CASE scenario = "two_plugins" -> TwoPlugins!Init
         [] scenario = "one_plugin" -> OnePlugin!Init
         [] OTHER -> PluginsOff
    /\ IF scenario = "load_order" THEN Manifests!OrderInit ELSE OrderOff
    /\ IF scenario = "settings" THEN Settings!Init ELSE SettingsOff
    /\ IF scenario = "switch" THEN Business!PluginInit ELSE SwitchOff
    /\ IF scenario = "review" THEN Business!ReviewInit ELSE ReviewOff
    /\ CASE scenario = "two_categories" -> TwoCategories!Init
         [] scenario = "three_categories" -> ThreeCategories!Init
         [] OTHER -> TRUE
    /\ IF scenario = "event" THEN Event!Init ELSE EventOff
    /\ IF scenario = "post" THEN Post!ModerationInit ELSE PostOff
    /\ scenario = "place" => Place!Init
    /\ IF scenario = "catalog" THEN Catalog!Init ELSE CatalogOff
    /\ IF scenario = "packages" THEN Storage!PackageInit ELSE PackageOff
    /\ IF scenario = "database" THEN Storage!DatabaseInit ELSE DatabaseOff
    /\ IF scenario = "manifests" THEN Manifests!ManifestInit ELSE ParsingOff
    /\ IF scenario = "media" THEN Post!MediaInit ELSE MediaOff
    /\ WithoutReq => req = "off"
    /\ WithoutOverlapped => overlapped = "off"
    /\ WithoutRow => row = "off"
    /\ WithoutLock => lock = "off"
    /\ WithoutCrashed => crashed = "off"
    /\ WithoutLoaded => loaded = "off"
    /\ WithoutCrossed => crossed = "off"
    /\ WithoutCut => cut = "off"
    /\ WithoutRemoved => removed = "off"
    /\ WithoutTree => tree = "off"
    /\ WithoutFiles => files = "off"
    /\ WithoutRows => rows = "off"

Next ==
    /\ UNCHANGED scenario
    /\ IF scenario = "customers" THEN Customers!Next ELSE UNCHANGED customersVars
    /\ CASE scenario = "two_plugins" -> TwoPlugins!Next
         [] scenario = "one_plugin" -> OnePlugin!Next
         [] OTHER -> UNCHANGED pluginsVars
    /\ IF scenario = "load_order" THEN Manifests!OrderNext ELSE UNCHANGED orderVars
    /\ IF scenario = "settings" THEN Settings!Next ELSE UNCHANGED settingsVars
    /\ IF scenario = "switch" THEN Business!PluginNext ELSE UNCHANGED switchVars
    /\ IF scenario = "review" THEN Business!ReviewNext ELSE UNCHANGED reviewVars
    /\ CASE scenario = "two_categories" -> TwoCategories!Next
         [] scenario = "three_categories" -> ThreeCategories!Next
         [] OTHER -> TRUE
    /\ IF scenario = "event" THEN Event!Next ELSE UNCHANGED eventVars
    /\ IF scenario = "post" THEN Post!ModerationNext ELSE UNCHANGED postVars
    /\ scenario = "place" => Place!Next
    /\ IF scenario = "catalog" THEN Catalog!Next ELSE UNCHANGED catalogVars
    /\ IF scenario = "packages" THEN Storage!PackageNext ELSE UNCHANGED packageVars
    /\ IF scenario = "database" THEN Storage!DatabaseNext ELSE UNCHANGED databaseVars
    /\ IF scenario = "manifests" THEN Manifests!ManifestNext ELSE UNCHANGED parsingVars
    /\ IF scenario = "media" THEN Post!MediaNext ELSE UNCHANGED mediaVars
    /\ WithoutReq => UNCHANGED req
    /\ WithoutOverlapped => UNCHANGED overlapped
    /\ WithoutRow => UNCHANGED row
    /\ WithoutLock => UNCHANGED lock
    /\ WithoutCrashed => UNCHANGED crashed
    /\ WithoutLoaded => UNCHANGED loaded
    /\ WithoutCrossed => UNCHANGED crossed
    /\ WithoutCut => UNCHANGED cut
    /\ WithoutRemoved => UNCHANGED removed
    /\ WithoutTree => UNCHANGED tree
    /\ WithoutFiles => UNCHANGED files
    /\ WithoutRows => UNCHANGED rows

Spec == Init /\ [][Next]_vars

-----------------------------------------------------------------------------
\* The variables of the component that runs have their types; joined_count, in
\* particular, never falls below zero.
TypeOK ==
    CASE scenario = "customers" -> Customers!TypeOK
      [] scenario = "two_plugins" -> TwoPlugins!TypeOK
      [] scenario = "one_plugin" -> OnePlugin!TypeOK
      [] scenario = "load_order" -> Manifests!OrderTypeOK
      [] scenario = "settings" -> Settings!TypeOK
      [] scenario = "switch" -> Business!PluginTypeOK
      [] scenario = "review" -> Business!ReviewTypeOK
      [] scenario = "two_categories" -> TwoCategories!TypeOK
      [] scenario = "three_categories" -> ThreeCategories!TypeOK
      [] scenario = "event" -> Event!TypeOK
      [] scenario = "post" -> Post!ModerationTypeOK
      [] scenario = "place" -> Place!TypeOK
      [] scenario = "catalog" -> Catalog!TypeOK
      [] scenario = "packages" -> Storage!PackageTypeOK
      [] scenario = "database" -> Storage!DatabaseTypeOK
      [] scenario = "manifests" -> Manifests!ManifestTypeOK
      [] scenario = "media" -> Post!MediaTypeOK

\* joined_count counts the participants, and who sends one request at a time
\* has orders and cart lines only on a deal joined.
CustomersConsistent == scenario = "customers" => Customers!JoinedCounted /\ Customers!SerialUsersConsistent

\* A registered plugin's version never goes back, however many apply it.
VersionsRise ==
    [][/\ scenario = "two_plugins" => TwoPlugins!VersionRise
       /\ scenario = "one_plugin" => OnePlugin!VersionRise]_vars

\* As long as administrators' requests do not overlap, rows, folders and loaded
\* plugins agree and dependencies of enabled plugins are enabled; and
\* resolve_load_order puts dependencies first, fails or places every plugin, and
\* leaves out none that could be loaded.  The tables of a registered plugin are
\* those of its version, its categories those it declares.  Requests are answered
\* by the code that was applied, which loads at every start, can be had back from
\* its backup, and has its routes guarded; what its manifest names is its own.  The
\* settings in memory are the saved.
PluginsConsistent ==
    /\ scenario = "two_plugins" => TwoPlugins!SerialConsistent
    /\ scenario = "one_plugin"  => OnePlugin!SerialConsistent
    /\ scenario = "load_order"  => /\ Manifests!OrderRespectsDependencies
                                   /\ Manifests!EveryKeyAccounted
                                   /\ Manifests!LoadsAllItCan
    /\ scenario = "settings"    => Settings!CacheCurrent
    /\ scenario = "packages"    => /\ Storage!AnswersAsApplied /\ Storage!AppliedLoads
                                   /\ Storage!BackupInstalls /\ Storage!RoutesGuarded
    /\ scenario = "database"    => Storage!BindingsConsistent /\ Storage!SchemaOfVersion
    /\ scenario = "manifests"   => /\ Manifests!CategoriesHang /\ Manifests!PermissionsApart
                                   /\ Manifests!DependenciesStay /\ Manifests!OwnTablesOnly

\* Each change of a business's plugin is in the activity log once. As long as
\* the handlers of a business do not overlap it is active only if verified, and
\* escalated reviews are a super administrator's; a new owner who sends one
\* request at a time has one business under review.
BusinessesConsistent ==
    /\ scenario = "switch" => Business!ChangesLoggedOnce
    /\ scenario = "review" => Business!ReviewsDecide /\ Business!OnePendingReview

\* The categories are a tree, what is active in it is published, and search
\* offers what may be assigned.
CategoriesConsistent ==
    /\ scenario = "two_categories" =>
         /\ TwoCategories!IsTree /\ TwoCategories!ActiveUnderPublished
         /\ TwoCategories!OfferedIsAssignable
    /\ scenario = "three_categories" =>
         /\ ThreeCategories!IsTree /\ ThreeCategories!ActiveUnderPublished
         /\ ThreeCategories!OfferedIsAssignable

\* Events end after they start, and only scheduled ones are featured; images
\* have files and files images, of products too, whose price is below the
\* original one and whose SKU no other has; what a moderator blocked stays
\* blocked, and a post is announced no more often than published; its media have
\* their files, and are listed in the order they were attached in.
ContentConsistent ==
    /\ scenario = "event"      => Event!EventConsistent /\ Event!ImagesHaveFiles
    /\ scenario = "post"       => Post!BlockedStaysBlocked /\ Post!AnnouncedOnce
    /\ scenario = "place"      => Place!ImageServed
    /\ scenario = "catalog"    => Catalog!ProductsConsistent /\ Catalog!ImagesHaveFiles
    /\ scenario = "media"      => Post!MediaHasFiles /\ Post!MediaInOrder

Symmetry == Permutations(Users) \cup Permutations(Businesses)
            \cup Permutations(Images) \cup Permutations(Sessions)
=============================================================================
