----------------------------- MODULE MCAccounts -----------------------------
(***************************************************************************)
(* The components about users, their accounts, communities and devices,    *)
(* each by itself: `scenario` says which of them runs, and stays what it is. *)
(* Variables of the same name are shared; those of the others are "off".   *)
(***************************************************************************)
EXTENDS Integers, Sequences, FiniteSets, TLC

CONSTANTS Users, NoUser, Owner, Phones, SomePhone, NoPhone, Roles, Base,
          Options, Addresses, Sessions, NoSession, MaxRequests, MaxTime

VARIABLES
    scenario, req, codes, proved, tokens, lock, verified, requests, held,
    overlapped, deleted, disturbed, open, kind, rows, saved, crossed, signed,
    owner, read, cut, settings, muddled, told, seen, edited, status, edits,
    areas, log,
    uses, cooling, sending, checking, account, raced,
    email, wrong, proof, hasty, moved,
    now, userLock, requestLock, roleLock, irregular,
    admin, created, holders,
    private, follows, shown,
    community, members, ownerRole, roleFell,
    multiple, active, votes, counts,
    counted, slips,
    default, shipping, overlaps,
    alive, pushes, queue, job, contested,
    unread, badge, listed,
    started, sender, blocks, ticked,
    clock, sent, mark, timeline, pager, swapped,
    user, identities,
    listening, nearby, responses, accepted, closed,
    option, deal, today, route, order, request, quoted,
    dated, reader, member, barred, view, fresh, changes,
    file, at, chosen,
    village, grants, plugin,
    permission, roles, unmade, holds, seed,
    facts, offered, replies, cards,
    saves, made, visible, entries,
    preferred, wanted

phoneVars == <<uses, cooling, sending, checking, account, raced>>
emailVars == <<email, wrong, proof, hasty, moved>>
rolesVars == <<now, userLock, requestLock, roleLock, irregular>>
villageVars == <<admin, created, holders>>
followsVars == <<private, follows, shown>>
communityVars == <<community, members, ownerRole, roleFell>>
pollVars == <<multiple, active, votes, counts>>
counterVars == <<counted, slips>>
bookVars == <<default, shipping, overlaps>>
pushVars == <<alive, pushes, queue, job, contested>>
noticeVars == <<unread, badge, listed>>
directVars == <<started, sender, blocks, ticked>>
chatVars == <<clock, sent, mark, timeline, pager, swapped>>
googleVars == <<user, identities>>
lostVars == <<listening, nearby, responses, accepted, closed>>
planVars == <<option, deal, today, route, order, request, quoted>>
feedVars == <<dated, reader, member, barred, view, fresh, changes>>
sourceVars == <<file, at, chosen>>
accessVars == <<village, grants, plugin>>
seedingVars == <<permission, roles, unmade, holds, seed>>
assistantVars == <<facts, offered, replies, cards>>
savedVars == <<saves, made, visible, entries>>
preferenceVars == <<preferred, wanted>>
vars == <<scenario, req, codes, proved, tokens, lock, verified, requests,
          held, overlapped, deleted, disturbed, open, kind, rows, saved,
          crossed, signed, owner, read, cut, settings, muddled, told, seen,
          edited, status, edits, areas, log, phoneVars, emailVars, rolesVars,
          villageVars, followsVars, communityVars, pollVars, counterVars,
          bookVars, pushVars, noticeVars, directVars, chatVars, googleVars,
          lostVars, planVars, feedVars, sourceVars, accessVars, seedingVars,
          assistantVars, savedVars, preferenceVars>>

ASSUME FiniteAssumption == IsFiniteSet(Users) /\ IsFiniteSet(Sessions)
ASSUME NoneAssumption   ==
    /\ NoSession \notin Sessions /\ "free" \notin Sessions /\ "none" \notin Users
    /\ NoUser \notin Users \cup {Owner}
    /\ NoPhone \notin Phones /\ NoPhone # SomePhone /\ Base \notin Roles
ASSUME BoundsAssumption == MaxRequests \in Nat /\ MaxTime \in Nat

\* Two phones reach the limit of the address they are asked from; an account
\* that holds a phone and another that claims it need only one.
OnePhone  == INSTANCE PhoneSignIn WITH Phones <- {SomePhone}, Accounts <- Users,
                 NoAccount <- NoUser, MaxAttempts <- 1, MaxPerPhone <- 2, MaxPerIp <- 2, MaxCodes <- 2
TwoPhones == INSTANCE PhoneSignIn WITH Accounts <- {}, NoAccount <- NoUser,
                 MaxAttempts <- 1, MaxPerPhone <- 1, MaxPerIp <- 1, MaxCodes <- 2
Email     == INSTANCE EmailCodes WITH MaxAttempts <- 2, MaxCodes <- 2
EmailInit == Email!Init /\ email = "a"  \* the two are alike
Account   == INSTANCE AccountRoles WITH Accounts <- Users \cup {Owner}
Profile   == INSTANCE Follows
Community == INSTANCE Communities WITH Users <- Users \cup {Owner}, Voters <- Users,
                 MaxResubmissions <- 2, Limits <- {1, 2}, NoLimit <- 4, MaxReviews <- 3
Post      == INSTANCE PostInteractions WITH Counted <- Users, MaxSlips <- 1,
                 Posts <- {"p"}, Ids <- {1}, MaxSaves <- 3
Told      == INSTANCE Notifications WITH Notes <- {"n1", "n2"},
                 Tokens <- {"t1", "t2"}, NoToken <- "none", Workers <- {"worker"}, MaxPushes <- 1
Chat      == INSTANCE Chats WITH Messages <- {"m1", "m2"}, NoMessage <- "none",
                 PageSize <- 1, MaxTime <- 3

\* Two Google accounts, each with its verified address.
Google    == INSTANCE GoogleSignIn WITH Subjects <- {"g", "h"}, Emails <- {"a", "b"},
                 EmailOf <- [g \in {"g", "h"} |-> IF g = "g" THEN "a" ELSE "b"]
Lost      == INSTANCE LostFound WITH MaxTimes <- 2

\* One promoter has two routes, one of which does not reach the address; the
\* working days and the fee of each are one of three.
Serving(days, fee) == [days |-> days, fee |-> fee]
Servings == {Serving({0}, 1), Serving({1}, 2), Serving({0, 1}, 0)}
RouteOwner == [r \in {"p1", "p2", "q1"} |-> IF r = "q1" THEN "q" ELSE "p"]
Plan      == INSTANCE DeliveryPlans WITH Promoters <- {"p", "q"}, NoPromoter <- "nobody",
                 Routes <- {"p1", "p2", "q1"}, NoRoute <- "none", Elsewhere <- {"p2"},
                 OwnerOf <- RouteOwner, DaysInWeek <- 2, Choices <- Servings, MaxDay <- 2, MaxEdits <- 1

\* Two posts of a community: public ones of another author, private ones, for
\* adults, of the reader or another; read by a visitor, a minor, an adult, or a
\* moderator.
PostKind(own, grown, inner) ==
    [mine |-> own, adults |-> grown, community |-> TRUE, private |-> inner]
Reader(known, grown, mod) == [signed |-> known, adult |-> grown, moderator |-> mod]
Feed      == INSTANCE PostFeed WITH Posts <- 1..2, MaxTime <- 3, MaxChanges <- 2,
                 Kinds <- {PostKind(FALSE, FALSE, FALSE), PostKind(TRUE, TRUE, TRUE),
                           PostKind(FALSE, TRUE, TRUE)},
                 Readers <- {Reader(FALSE, FALSE, FALSE), Reader(TRUE, FALSE, FALSE),
                             Reader(TRUE, TRUE, FALSE), Reader(TRUE, FALSE, TRUE)}

\* Archives with a layer of villages only, with the three layers above them, or
\* with all four; up to two rows in each, some of them naming other states,
\* districts and taluks than those of the archive, or none.
NoLgd == ""
CodesOf(s, d, t, v) == [state_lgd |-> s, district_lgd |-> d, taluk_lgd |-> t, village_lgd |-> v]
Layer(name, cols, content) ==
    [name |-> name, polygonal |-> TRUE, usable |-> TRUE, columns |-> cols, rows |-> content]
UpToTwo(S) == {<<a>> : a \in S} \cup {<<a, b>> : a \in S, b \in S}
VillageColumns ==
    {"state_lgd", "state_name", "district_lgd", "district_name", "taluk_lgd", "taluk_name"}
StateLayers ==
    {Layer("other", {"state_name"}, <<CodesOf("32", NoLgd, NoLgd, NoLgd)>>),
     Layer("state", {"state_name", "state_lgd"}, <<CodesOf("33", NoLgd, NoLgd, NoLgd)>>),
     Layer("other", {"state_name"},
           <<CodesOf("32", NoLgd, NoLgd, NoLgd), CodesOf("33", NoLgd, NoLgd, NoLgd)>>)}
DistrictRows == {CodesOf(s, d, NoLgd, NoLgd) : s \in {"32", "33"}, d \in {"d1", "d2"}}
DistrictLayers ==
    {Layer("other", {"state_lgd", "district_lgd", "district_name"}, r) : r \in UpToTwo(DistrictRows)}
TalukRows == {CodesOf("32", d, t, NoLgd) : d \in {NoLgd, "d1", "d2"}, t \in {"t1", "t2"}}
TalukLayers ==
    {Layer(n, {"state_lgd", "district_lgd", "taluk_lgd", "taluk_name"}, r) :
        n \in {"other", "taluk"}, r \in UpToTwo(TalukRows)}
VillageRows ==
    {CodesOf(s, d, t, v) :
        s \in {"32", "33"}, d \in {"d1", "d2"}, t \in {"t1", "t2"}, v \in {NoLgd, "v"}}
NamedRows == {r \in VillageRows : r.state_lgd = "32" /\ r.village_lgd = "v"}
VillageLayers ==
    {Layer("other", VillageColumns \cup {"village_lgd", c}, r) :
        c \in {"VILL_NAME", "VILLAGE_NAME"}, r \in UpToTwo(VillageRows)}
    \cup {Layer("other", VillageColumns \cup {c}, r) :
        c \in {"VILL_NAME", "VILLAGE_NAME"}, r \in UpToTwo(NamedRows)}
OfOneRow(layers) == {l \in layers : Len(l.rows) = 1}
Archives ==
    {{v} : v \in VillageLayers}
    \cup {{s, d, t} : s \in StateLayers, d \in DistrictLayers, t \in TalukLayers}
    \cup {{s, d, t, v} : s \in StateLayers, d \in OfOneRow(DistrictLayers),
                          t \in OfOneRow(TalukLayers), v \in OfOneRow(VillageLayers)}

\* Two imports write the same districts in different orders, and one covers the
\* point of another village.
Area(code, point) == [code |-> code, point |-> point]
AreaImports ==
    {<<Area("S", "nowhere"), Area("d1", "nowhere"), Area("d2", "nowhere"), Area("v1", "p1")>>,
     <<Area("S", "nowhere"), Area("d2", "nowhere"), Area("d1", "nowhere"), Area("v1", "p1"),
       Area("v2", "p2")>>}
Areas == INSTANCE GeographyImport WITH Files <- Archives, Manual <- {"v2", "m", "n"},
                  Imports <- AreaImports

\* An administrator grants a permission to review, or one over what is another's.
Access    == INSTANCE Access WITH MaxRoles <- 2,
                 Granted <- {"role_upgrade_request.approve", "category.approve", "community.approve",
                             "business.review", "business.create_any",
                             "events.update_any", "lost_found.delete_any"}

\* Both built-in roles are administrators'; others may make a third.  The two
\* permission rows are alike.
Seeding   == INSTANCE RoleSeeding WITH BuiltIn <- <<"super", "native">>,
                 Definition <- "super" :> {"core"} @@ "native" :> {"core"},
                 AdminRoles <- {"super", "native"}, SuperAdmin <- "super",
                 DefaultRoles <- {"native"}, Made <- {"made"}, Declared <- {"declared"},
                 OtherName <- "other", Users <- {"seeded", "u"}, Seeded <- "seeded",
                 Ids <- Users, MaxEdits <- 2
Ask       == INSTANCE Assistant WITH Posts <- {"listed", "community"}, MaxIterations <- 1,
                 MaxEdits <- 1

\* All sections are updated, or all but for an unknown tag, or one of them.
Change(everything, fields, tags) ==
    [all |-> everything, sections |-> fields, lists |-> "tags" :> tags]
Updates ==
    {Change(TRUE, "ai" :> "on" @@ "content" :> "unset", {"b"}),
     Change(TRUE, "ai" :> "off" @@ "content" :> "on", {"x"}),
     Change(FALSE, "content" :> "on", {"a"})}
Data      == INSTANCE AccountData WITH Ids <- 1..3, MaxOverlaps <- 1, Sections <- <<"ai", "content">>,
                 Lists <- <<"tags">>, Known <- {"a", "b"}, Payloads <- Updates

PhoneOff == /\ uses = "off" /\ cooling = "off" /\ sending = "off"
            /\ checking = "off" /\ account = "off" /\ raced = "off"
EmailOff == /\ email = "off" /\ wrong = "off" /\ proof = "off" /\ hasty = "off"
            /\ moved = "off"
RolesOff == /\ now = "off" /\ userLock = "off" /\ requestLock = "off"
            /\ roleLock = "off" /\ irregular = "off"
VillageOff == admin = "off" /\ created = "off" /\ holders = "off"
FollowsOff == private = "off" /\ follows = "off" /\ shown = "off"
CommunityOff == /\ community = "off" /\ members = "off" /\ ownerRole = "off"
                /\ roleFell = "off"
PollOff == /\ multiple = "off" /\ active = "off" /\ votes = "off"
           /\ counts = "off"
CounterOff == counted = "off" /\ slips = "off"
BookOff == default = "off" /\ shipping = "off" /\ overlaps = "off"
PushOff == /\ alive = "off" /\ pushes = "off" /\ queue = "off" /\ job = "off"
           /\ contested = "off"
NoticeOff == unread = "off" /\ badge = "off" /\ listed = "off"
DirectOff == /\ started = "off" /\ sender = "off" /\ blocks = "off"
             /\ ticked = "off"
ChatOff == /\ clock = "off" /\ sent = "off" /\ mark = "off"
           /\ timeline = "off" /\ pager = "off" /\ swapped = "off"
GoogleOff == user = "off" /\ identities = "off"
LostOff == /\ listening = "off" /\ nearby = "off" /\ responses = "off"
           /\ accepted = "off" /\ closed = "off"
PlanOff == /\ option = "off" /\ deal = "off" /\ today = "off" /\ route = "off"
           /\ order = "off" /\ request = "off" /\ quoted = "off"
FeedOff == /\ dated = "off" /\ reader = "off" /\ member = "off"
           /\ barred = "off" /\ view = "off" /\ fresh = "off"
           /\ changes = "off"
SourceOff == file = "off" /\ at = "off" /\ chosen = "off"
AccessOff == village = "off" /\ grants = "off" /\ plugin = "off"
SeedingOff == /\ permission = "off" /\ roles = "off" /\ unmade = "off"
              /\ holds = "off" /\ seed = "off"
AssistantOff == /\ facts = "off" /\ offered = "off" /\ replies = "off"
                /\ cards = "off"
SavedOff == /\ saves = "off" /\ made = "off" /\ visible = "off"
            /\ entries = "off"
PreferenceOff == preferred = "off" /\ wanted = "off"

Scenarios == {"one_phone", "two_phones", "email", "roles", "village",
              "follows", "community", "poll", "counter", "addresses", "push",
              "notices", "direct_chat", "community_chat", "google",
              "lost_and_found", "plans", "feed", "area_file", "area_import",
              "access", "seeding", "assistant", "collections", "preferences"}
WithoutReq == scenario \in {"feed", "area_file", "access"}
WithoutCodes == scenario \notin {"one_phone", "two_phones", "email"}
WithoutProved == scenario \notin {"one_phone", "two_phones", "google"}
WithoutTokens == scenario \notin {"one_phone", "two_phones"}
WithoutLock == scenario \notin {"email", "community", "poll", "addresses",
        "plans"}
WithoutVerified == scenario \notin {"email", "access"}
WithoutRequests == scenario \notin {"roles", "follows"}
WithoutHeld == scenario \notin {"roles", "area_import", "access"}
WithoutOverlapped == scenario \notin {"village", "notices", "lost_and_found",
        "plans"}
WithoutDeleted == scenario \notin {"village", "lost_and_found", "seeding"}
WithoutDisturbed == scenario \notin {"follows", "seeding"}
WithoutOpen == scenario \notin {"poll", "feed"}
WithoutKind == scenario \notin {"counter", "feed"}
WithoutRows == scenario \notin {"counter", "preferences"}
WithoutSaved == scenario \notin {"addresses", "feed"}
WithoutCrossed == scenario \notin {"addresses", "area_import", "preferences"}
WithoutSigned == scenario \notin {"push", "google"}
WithoutOwner == scenario \notin {"push", "collections"}
WithoutRead == scenario \notin {"notices", "direct_chat"}
WithoutCut == scenario \notin {"notices", "direct_chat", "community_chat",
        "lost_and_found"}
WithoutSettings == scenario \notin {"notices", "plans"}
WithoutMuddled == scenario \notin {"direct_chat", "community_chat"}
WithoutTold == scenario \notin {"direct_chat", "assistant"}
WithoutSeen == scenario \notin {"community_chat", "assistant"}
WithoutEdited == scenario \notin {"google", "plans"}
WithoutStatus == scenario \notin {"lost_and_found", "feed", "access"}
WithoutEdits == scenario \notin {"plans", "seeding", "assistant"}
WithoutAreas == scenario \notin {"area_file", "area_import"}
WithoutLog == scenario \notin {"area_import", "assistant"}

\* Each component begins or is off, and takes a step or stands still.
Init ==
    /\ scenario \in Scenarios
    /\ CASE scenario = "one_phone" -> OnePhone!Init
         [] scenario = "two_phones" -> TwoPhones!Init
         [] OTHER -> PhoneOff
    /\ IF scenario = "email" THEN EmailInit ELSE EmailOff
    /\ IF scenario = "roles" THEN Account!AccountInit ELSE RolesOff
    /\ IF scenario = "village" THEN Account!VillageInit ELSE VillageOff
    /\ IF scenario = "follows" THEN Profile!Init ELSE FollowsOff
    /\ IF scenario = "community" THEN Community!CommunityInit ELSE CommunityOff
    /\ IF scenario = "poll" THEN Community!PollInit ELSE PollOff
    /\ IF scenario = "counter" THEN Post!CounterInit ELSE CounterOff
    /\ IF scenario = "addresses" THEN Data!BookInit ELSE BookOff
    /\ IF scenario = "push" THEN Told!PushInit ELSE PushOff
    /\ IF scenario = "notices" THEN Told!NoticeInit ELSE NoticeOff
    /\ IF scenario = "direct_chat" THEN Chat!DirectInit ELSE DirectOff
    /\ IF scenario = "community_chat" THEN Chat!CommunityInit ELSE ChatOff
    /\ IF scenario = "google" THEN Google!Init ELSE GoogleOff
    /\ IF scenario = "lost_and_found" THEN Lost!Init ELSE LostOff
    /\ IF scenario = "plans" THEN Plan!Init ELSE PlanOff
    /\ IF scenario = "feed" THEN Feed!Init ELSE FeedOff
    /\ IF scenario = "area_file" THEN Areas!SourceInit ELSE SourceOff
    /\ scenario = "area_import" => Areas!ImportInit
    /\ IF scenario = "access" THEN Access!Init ELSE AccessOff
    /\ IF scenario = "seeding" THEN Seeding!Init ELSE SeedingOff
    /\ IF scenario = "assistant" THEN Ask!Init ELSE AssistantOff
    /\ IF scenario = "collections" THEN Post!CollectionInit ELSE SavedOff
    /\ IF scenario = "preferences" THEN Data!PreferenceInit ELSE PreferenceOff
    /\ WithoutReq => req = "off"
    /\ WithoutCodes => codes = "off"
    /\ WithoutProved => proved = "off"
    /\ WithoutTokens => tokens = "off"
    /\ WithoutLock => lock = "off"
    /\ WithoutVerified => verified = "off"
    /\ WithoutRequests => requests = "off"
    /\ WithoutHeld => held = "off"
    /\ WithoutOverlapped => overlapped = "off"
    /\ WithoutDeleted => deleted = "off"
    /\ WithoutDisturbed => disturbed = "off"
    /\ WithoutOpen => open = "off"
    /\ WithoutKind => kind = "off"
    /\ WithoutRows => rows = "off"
    /\ WithoutSaved => saved = "off"
    /\ WithoutCrossed => crossed = "off"
    /\ WithoutSigned => signed = "off"
    /\ WithoutOwner => owner = "off"
    /\ WithoutRead => read = "off"
    /\ WithoutCut => cut = "off"
    /\ WithoutSettings => settings = "off"
    /\ WithoutMuddled => muddled = "off"
    /\ WithoutTold => told = "off"
    /\ WithoutSeen => seen = "off"
    /\ WithoutEdited => edited = "off"
    /\ WithoutStatus => status = "off"
    /\ WithoutEdits => edits = "off"
    /\ WithoutAreas => areas = "off"
    /\ WithoutLog => log = "off"

Next ==
    /\ UNCHANGED scenario
    /\ CASE scenario = "one_phone" -> OnePhone!Next
         [] scenario = "two_phones" -> TwoPhones!Next
         [] OTHER -> UNCHANGED phoneVars
    /\ IF scenario = "email" THEN Email!Next ELSE UNCHANGED emailVars
    /\ IF scenario = "roles" THEN Account!AccountNext ELSE UNCHANGED rolesVars
    /\ IF scenario = "village" THEN Account!VillageNext ELSE UNCHANGED villageVars
    /\ IF scenario = "follows" THEN Profile!Next ELSE UNCHANGED followsVars
    /\ IF scenario = "community" THEN Community!CommunityNext ELSE UNCHANGED communityVars
    /\ IF scenario = "poll" THEN Community!PollNext ELSE UNCHANGED pollVars
    /\ IF scenario = "counter" THEN Post!CounterNext ELSE UNCHANGED counterVars
    /\ IF scenario = "addresses" THEN Data!BookNext ELSE UNCHANGED bookVars
    /\ IF scenario = "push" THEN Told!PushNext ELSE UNCHANGED pushVars
    /\ IF scenario = "notices" THEN Told!NoticeNext ELSE UNCHANGED noticeVars
    /\ IF scenario = "direct_chat" THEN Chat!DirectNext ELSE UNCHANGED directVars
    /\ IF scenario = "community_chat" THEN Chat!CommunityNext ELSE UNCHANGED chatVars
    /\ IF scenario = "google" THEN Google!Next ELSE UNCHANGED googleVars
    /\ IF scenario = "lost_and_found" THEN Lost!Next ELSE UNCHANGED lostVars
    /\ IF scenario = "plans" THEN Plan!Next ELSE UNCHANGED planVars
    /\ IF scenario = "feed" THEN Feed!Next ELSE UNCHANGED feedVars
    /\ IF scenario = "area_file" THEN Areas!SourceNext ELSE UNCHANGED sourceVars
    /\ scenario = "area_import" => Areas!ImportNext
    /\ IF scenario = "access" THEN Access!Next ELSE UNCHANGED accessVars
    /\ IF scenario = "seeding" THEN Seeding!Next ELSE UNCHANGED seedingVars
    /\ IF scenario = "assistant" THEN Ask!Next ELSE UNCHANGED assistantVars
    /\ IF scenario = "collections" THEN Post!CollectionNext ELSE UNCHANGED savedVars
    /\ IF scenario = "preferences" THEN Data!PreferenceNext ELSE UNCHANGED preferenceVars
    /\ WithoutReq => UNCHANGED req
    /\ WithoutCodes => UNCHANGED codes
    /\ WithoutProved => UNCHANGED proved
    /\ WithoutTokens => UNCHANGED tokens
    /\ WithoutLock => UNCHANGED lock
    /\ WithoutVerified => UNCHANGED verified
    /\ WithoutRequests => UNCHANGED requests
    /\ WithoutHeld => UNCHANGED held
    /\ WithoutOverlapped => UNCHANGED overlapped
    /\ WithoutDeleted => UNCHANGED deleted
    /\ WithoutDisturbed => UNCHANGED disturbed
    /\ WithoutOpen => UNCHANGED open
    /\ WithoutKind => UNCHANGED kind
    /\ WithoutRows => UNCHANGED rows
    /\ WithoutSaved => UNCHANGED saved
    /\ WithoutCrossed => UNCHANGED crossed
    /\ WithoutSigned => UNCHANGED signed
    /\ WithoutOwner => UNCHANGED owner
    /\ WithoutRead => UNCHANGED read
    /\ WithoutCut => UNCHANGED cut
    /\ WithoutSettings => UNCHANGED settings
    /\ WithoutMuddled => UNCHANGED muddled
    /\ WithoutTold => UNCHANGED told
    /\ WithoutSeen => UNCHANGED seen
    /\ WithoutEdited => UNCHANGED edited
    /\ WithoutStatus => UNCHANGED status
    /\ WithoutEdits => UNCHANGED edits
    /\ WithoutAreas => UNCHANGED areas
    /\ WithoutLog => UNCHANGED log

Spec == Init /\ [][Next]_vars

-----------------------------------------------------------------------------
\* The variables of the component that runs have their types; no more guesses
\* are counted, and no code is sent to more users, than there may be.
TypeOK ==
    CASE scenario = "one_phone" -> OnePhone!TypeOK
      [] scenario = "two_phones" -> TwoPhones!TypeOK
      [] scenario = "email" -> Email!TypeOK
      [] scenario = "roles" -> Account!AccountTypeOK
      [] scenario = "village" -> Account!VillageTypeOK
      [] scenario = "follows" -> Profile!TypeOK
      [] scenario = "community" -> Community!CommunityTypeOK
      [] scenario = "poll" -> Community!PollTypeOK
      [] scenario = "counter" -> Post!CounterTypeOK
      [] scenario = "addresses" -> Data!BookTypeOK
      [] scenario = "push" -> Told!PushTypeOK
      [] scenario = "notices" -> Told!NoticeTypeOK
      [] scenario = "direct_chat" -> Chat!DirectTypeOK
      [] scenario = "community_chat" -> Chat!CommunityTypeOK
      [] scenario = "google" -> Google!TypeOK
      [] scenario = "lost_and_found" -> Lost!TypeOK
      [] scenario = "plans" -> Plan!TypeOK
      [] scenario = "feed" -> Feed!TypeOK
      [] scenario = "area_file" -> Areas!SourceTypeOK
      [] scenario = "area_import" -> Areas!ImportTypeOK
      [] scenario = "access" -> Access!TypeOK
      [] scenario = "seeding" -> Seeding!TypeOK
      [] scenario = "assistant" -> Ask!TypeOK
      [] scenario = "collections" -> Post!CollectionTypeOK
      [] scenario = "preferences" -> Data!PreferenceTypeOK

\* PhoneOtpService, EmailVerificationService: one phone code at a time, used
\* once, no more sent than allowed and guesses bounded; and what is verified for
\* an account is the phone or the address that its code went to.  GoogleAuthService:
\* a Google account signs in to one account, and what it verified is its address.
CodesProved ==
    /\ scenario = "one_phone"  => OnePhone!CodesOnce /\ OnePhone!SendsBounded /\ OnePhone!VerifiedPhonesProved
    /\ scenario = "two_phones" => TwoPhones!CodesOnce /\ TwoPhones!SendsBounded
    /\ scenario = "email"      => Email!GuessesBounded /\ Email!VerifiedAddressProved
    /\ scenario = "google"     => Google!OneAccountEach /\ Google!VerifiedByGoogle

\* Role selection and review: a role is verified only by an approved request for
\* that assignment, and what is pending can be approved; NativeAdminService: who
\* has that role administers the village.  Before approval a role opens nothing;
\* handlers and the services behind them agree on who may review, and who is told
\* of a review may do it.  The seed script makes the roles what it defines; and the
\* assistant runs for users the tools they may have run.
RolesReviewed ==
    /\ scenario = "roles"   => Account!VerifiedByReview /\ Account!PendingReviewable
    /\ scenario = "village" => Account!AdminHasRole
    /\ scenario = "access"  => /\ Access!PendingIsIndividual /\ Access!AdminRoutesClosed
                              /\ Access!OverridesReach /\ Access!ToldMayApprove
                              /\ Access!ToldWhatTheySee
    /\ scenario = "seeding" => Seeding!SeededAsDefined
    /\ scenario = "assistant" => Ask!ToolsAllowed

\* Follows and follow requests agree with each other, with the owner's
\* visibility and with the requests shown to the owner; and readers are shown
\* all the posts that are for them, and no others, as is the assistant for them.
\* Collections hold what their owners saved.
AudienceConsistent ==
    /\ scenario = "follows" => Profile!FollowsConsistent
    /\ scenario = "feed"    => Feed!PageAllowed /\ Feed!PagesComplete
    /\ scenario = "assistant" => Ask!PostsVisible
    /\ scenario = "collections" => Post!CollectionsOfSaved

\* members_count is the number of active members, within the limit, votes_count
\* of each option that of its voters, and the counter of a post that of its
\* likes, saves, comments or shares; a community is resubmitted no more than
\* allowed.
CountersTrue ==
    /\ scenario = "community" => Community!MembersCounted /\ Community!ResubmissionsBounded
    /\ scenario = "poll"      => Community!VotesCounted
    /\ scenario = "counter"   => Post!RowsCounted

\* A community is decided upon once for each submission; an approved role takes
\* nothing from its user; only super administrators change the administrators'
\* roles, and the seed script takes no role from those who had it.
DecisionsHold ==
    [][/\ scenario = "community" => Community!ReviewDecision
       /\ scenario = "access"    => Access!ApprovalKeepsAccess
       /\ scenario = "seeding"   => Seeding!SeedKeepsHolders /\ Seeding!AdminRolesProtected]_vars

\* UserAddressService: one address is the default, and open orders keep theirs;
\* what is agreed upon for their delivery is what the accepting promoter offers.
\* Imported areas are a tree that has all rows of the file or none, and no two
\* villages cover a point.
PlacesConsistent ==
    /\ scenario = "addresses"   => Data!OneDefault /\ Data!OpenOrdersShip
    /\ scenario = "plans"       => Plan!DeliveryAgreed /\ Plan!AcceptedCanServe
    /\ scenario = "area_file"   => Areas!ColumnsPresent /\ Areas!AcceptedIsTree /\ Areas!RowsPlaced
    /\ scenario = "area_import" => Areas!AllOrNothing /\ Areas!NoCircle /\ Areas!CoveredOnce

\* What a user's devices are told: a device stays registered for push messages,
\* and the clients show as unread, as read and in the chat's timeline what is; and
\* who responded to a lost and found report is told once that it was closed.  The
\* assistant answers what the provider replied, after the tools it called; and the
\* settings are what was last asked for, and what the answer says.
DevicesInformed ==
    /\ scenario = "push"           => Told!RegistrationsKept
    /\ scenario = "notices"        => Told!ClientShowsUnread
    /\ scenario = "direct_chat"    => Chat!TicksTrue
    /\ scenario = "community_chat" => Chat!UnreadSinceRead /\ Chat!TimelineShown
    /\ scenario = "lost_and_found" => Lost!ClosingTold /\ Lost!OneResponse
    /\ scenario = "assistant"      => Ask!CallsBounded /\ Ask!RepliesFollowed
    /\ scenario = "preferences"    => Data!AsLastAsked /\ Data!AnswersTrue

Symmetry == Permutations(Users) \cup Permutations(Sessions)
=============================================================================
