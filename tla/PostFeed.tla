------------------------------- MODULE PostFeed -------------------------------
(***************************************************************************)
(* Which posts a reader is shown: in the feeds, in a community and its     *)
(* timeline, among the saved posts and one by one, while authors and       *)
(* moderators change the posts and the reader joins and leaves the         *)
(* community.  A listing is read page by page, each page by a statement of *)
(* its own that skips the rows of the pages before; the timeline reads the *)
(* ids first, by a cursor, and the posts after.                            *)
(***************************************************************************)
EXTENDS Naturals, FiniteSets

CONSTANTS Posts,   \* numbers: a later post has a higher one
          Kinds,   \* of posts: whose they are, for whom, and where
          Readers, \* who reads: signed in, of age, with POST_UPDATE_ANY
          MaxTime, \* bound on published_at
          MaxChanges \* bound on what happens before and between the pages

VARIABLES
    kind,      \* of each post
    status,    \* of each post, "absent" before its creation and "deleted"
    dated,     \* published_at of each post, 0 for none
    reader,
    member,    \* whether the reader is a member of the community
    barred,    \* the other author is blocked in the community
    open,      \* the community is published
    saved,     \* of each post: the change with which the reader saved it, 0 for none
    view,      \* the listing that the reader is paging through
    fresh,     \* nothing has changed since the last page was selected
    changes    \* how much has

vars == <<kind, status, dated, reader, member, barred, open, saved, view, fresh, changes>>

Paged    == {"feed", "areas", "community", "saved"}
Listings == Paged \cup {"timeline", "detail"}
NoView   == [of |-> "nothing", at |-> "end", pages |-> 0, before |-> MaxTime + 1, page |-> {},
             shown |-> {}, again |-> {}, lasting |-> {}, left |-> FALSE, came |-> FALSE]

TypeOK ==
    /\ kind \in [Posts -> Kinds]
    /\ status \in [Posts -> {"absent", "draft", "published", "blocked", "deleted"}]
    /\ dated \in [Posts -> 0..MaxTime]
    /\ reader \in Readers /\ member \in {"none", "active", "blocked"}
    /\ barred \in BOOLEAN /\ open \in BOOLEAN
    /\ saved \in [Posts -> 0..MaxChanges]
    /\ view \in [of: Listings \cup {"nothing"}, at: {"next", "details", "end"}, pages: Nat,
                 before: 0..MaxTime + 1, page: SUBSET Posts, shown: SUBSET Posts, again: SUBSET Posts,
                 lasting: SUBSET Posts, left: BOOLEAN, came: BOOLEAN]
    /\ fresh \in BOOLEAN /\ changes \in 0..MaxChanges

Init ==
    /\ kind \in [Posts -> Kinds]
    /\ status \in [Posts -> {"absent", "published"}]
    /\ \A p, q \in Posts : p < q /\ status[p] = "absent" => status[q] = "absent"
    /\ dated = [p \in Posts |-> IF status[p] = "published" THEN p ELSE 0]
    /\ reader \in Readers /\ member \in {"none"} \cup (IF reader.signed THEN {"active"} ELSE {}) /\ barred = FALSE /\ open = TRUE
    /\ saved = [p \in Posts |-> 0] /\ view = NoView /\ fresh = FALSE /\ changes = 0

Existing == {p \in Posts : status[p] \notin {"absent", "deleted"}}
Mine(p)  == reader.signed /\ kind[p].mine

----------------------------------------------------------------------------
(* post_repository.py                                                      *)

\* member_id is in the scope of all listings but the feeds.
AsMember(of) == reader.signed /\ of \notin {"feed", "areas"}

AuthorBlocked(p) == IF kind[p].mine THEN member = "blocked" ELSE barred

\* _community_visible_in
CommunityVisible(p, of) ==
    kind[p].community =>
        /\ ~kind[p].private \/ (AsMember(of) /\ member = "active")
        /\ ~AuthorBlocked(p)

\* _visible_in, with the scope of _visibility_scope; the timeline's scope has
\* no unpublished posts for anybody.
Visible(p, of) ==
    /\ p \in Existing
    /\ \/ reader.moderator /\ of # "timeline"
       \/ /\ CommunityVisible(p, of)
          /\ \/ Mine(p)
             \/ status[p] = "published" /\ (kind[p].adults => reader.adult)

\* list, list_for_areas, list_by_community, list_saved_by_user, timeline_entries
Listed(p, of) ==
    /\ Visible(p, of)
    /\ of \in {"areas", "timeline"} => status[p] = "published"
    /\ of = "areas" => (kind[p].community => open)
    /\ of \in {"community", "timeline"} => kind[p].community
    /\ of = "saved" => saved[p] > 0
Listing(of) == {p \in Posts : Listed(p, of)}

\* The newest first; in the timeline the last published, among the saved posts
\* the last saved.
Ahead(p, q, of) ==
    CASE of = "saved"    -> saved[p] > saved[q]
      [] of = "timeline" -> dated[p] > dated[q]
      [] OTHER           -> p > q

\* How many rows of the listing OFFSET skips to come to p.
Rank(p, of) == Cardinality({q \in Listing(of) : Ahead(q, p, of)})

----------------------------------------------------------------------------
(* The reader                                                              *)

world == <<kind, status, dated, reader, member, barred, open, saved, changes>>

\* What is shown of the listing, with the next page.
Showing(page) == [view EXCEPT !.page = page, !.shown = @ \cup page, !.again = @ \cup (view.shown \cap page)]

\* A community's posts are for its members.
MayOpen(of) ==
    /\ of \in {"saved", "community", "timeline"} => reader.signed
    /\ of \in {"community", "timeline"} => open /\ member = "active"

Open(of) ==
    /\ view.of = "nothing" /\ of # "detail" /\ MayOpen(of)
    /\ view' = [NoView EXCEPT !.of = of, !.at = "next", !.lasting = Listing(of)]
    /\ fresh' = FALSE /\ UNCHANGED world

\* get_visible: one post.
OpenDetail(p) ==
    /\ view.of = "nothing" /\ Visible(p, "detail")
    /\ view' = [NoView EXCEPT !.of = "detail", !.page = {p}, !.shown = {p}]
    /\ fresh' = TRUE /\ UNCHANGED world

\* Pages of one row: the next has the row after those of the pages before.
NextPage ==
    /\ view.at = "next" /\ view.of \in Paged /\ MayOpen(view.of)
    /\ LET page == {p \in Listing(view.of) : Rank(p, view.of) = view.pages} IN
       view' = [Showing(page) EXCEPT !.pages = @ + 1, !.at = IF page = {} THEN "end" ELSE "next"]
    /\ fresh' = TRUE /\ UNCHANGED world

\* The timeline's next page has the newest row before the cursor.
TimelineIds ==
    /\ view.at = "next" /\ view.of = "timeline" /\ MayOpen("timeline")
    /\ LET older == {p \in Listing("timeline") : dated[p] < view.before} IN
       IF older = {} THEN view' = [view EXCEPT !.at = "end", !.page = {}]
       ELSE \E p \in older : /\ \A q \in older : dated[q] <= dated[p]
                             /\ view' = [view EXCEPT !.at = "details", !.page = {p}, !.before = dated[p]]
    /\ fresh' = TRUE /\ UNCHANGED world

\* details_by_ids: of the ids those that are not deleted.
TimelineDetails ==
    /\ view.at = "details"
    /\ view' = [Showing(view.page \cap Existing) EXCEPT !.at = "next"]
    /\ UNCHANGED <<world, fresh>>

----------------------------------------------------------------------------
(* What happens meanwhile, each a commit                                   *)

\* What the reader would find now; what lasts, left and came since the first page.
Changed ==
    \E of \in {view.of} :
      LET was == Listing(of) now == Listing(of)' IN
      /\ view.at = "end" => of = "nothing"
      /\ changes < MaxChanges /\ changes' = changes + 1 /\ fresh' = FALSE
      /\ view' = IF of = "nothing" THEN view
                 ELSE [view EXCEPT !.lasting = @ \cap now, !.left = @ \/ was \ now # {},
                                   !.came = @ \/ now \ was # {}]

\* create, update, block, unblock, delete, soft_remove
NextStatus == [absent    |-> {"draft", "published"}, draft   |-> {"published", "deleted"},
               published |-> {"draft", "blocked", "deleted"}, blocked |-> {"published", "deleted"},
               deleted   |-> {}]
ChangePost(p) ==
    /\ status[p] = "absent" => \A q \in Posts : q > p => status[q] = "absent"
    /\ \E to \in NextStatus[status[p]] :
        /\ status' = [status EXCEPT ![p] = to]
        /\ IF to = "published" /\ status[p] # "blocked"
           THEN \E t \in 1..MaxTime : /\ \A q \in Posts : dated[q] < t
                                      /\ dated' = [dated EXCEPT ![p] = t]
           ELSE UNCHANGED dated
    /\ UNCHANGED <<kind, reader, member, barred, open, saved>> /\ Changed

ChangeMembers ==
    /\ reader.signed
    /\ member' \in {"none", "active", "blocked"} /\ barred' \in BOOLEAN
    /\ <<member, barred>>' # <<member, barred>>
    /\ UNCHANGED <<kind, status, dated, reader, open, saved>> /\ Changed
CloseCommunity ==
    /\ open' = ~open
    /\ UNCHANGED <<kind, status, dated, reader, member, barred, saved>> /\ Changed

\* SavedPostService.save, unsave
Save(p) ==
    /\ reader.signed /\ Visible(p, "detail") /\ saved[p] = 0
    /\ saved' = [saved EXCEPT ![p] = changes + 1]
    /\ UNCHANGED <<kind, status, dated, reader, member, barred, open>> /\ Changed
Unsave(p) ==
    /\ p \in Existing /\ saved[p] > 0 /\ saved' = [saved EXCEPT ![p] = 0]
    /\ UNCHANGED <<kind, status, dated, reader, member, barred, open>> /\ Changed

Next ==
    \/ \E of \in Listings : Open(of)
    \/ NextPage \/ TimelineIds \/ TimelineDetails
    \/ \E p \in Posts : OpenDetail(p) \/ ChangePost(p) \/ Save(p) \/ Unsave(p)
    \/ ChangeMembers \/ CloseCommunity

Spec == Init /\ [][Next]_vars

-----------------------------------------------------------------------------
\* When a page is selected, nobody but moderators finds posts in it that are not
\* published, unless their own, or not for their age; nor, not even their own,
\* private posts of a community without being a member, or posts by somebody it
\* blocked.  No page has deleted posts.
PageAllowed ==
    fresh => \A p \in view.page :
        /\ status[p] # "deleted"
        /\ \/ reader.moderator /\ view.of # "timeline"
           \/ /\ status[p] = "published" \/ Mine(p)
              /\ kind[p].adults => reader.adult \/ Mine(p)
              /\ kind[p].community /\ kind[p].private => member = "active"
              /\ kind[p].community => ~AuthorBlocked(p)

\* To the end of a listing, each post that was in it all the time is shown,
\* unless another left it between two pages; none is shown twice, unless another
\* came.  The timeline's cursor needs no such exception.
PagesComplete ==
    LET by == view.of = "timeline" IN
    /\ view.at = "end" /\ view.of \in Listings \ {"detail"} /\ (by \/ ~view.left) =>
           view.lasting \subseteq view.shown
    /\ by \/ ~view.came => view.again = {}

\* Their inductive invariant: times tell posts apart; what lasts is listed; and the
\* rows before the next page, or the cursor, have been shown, and no others.
TimesApart ==
    /\ \A p \in Posts : status[p] \in {"published", "blocked"} => dated[p] > 0
    /\ \A p \in Posts : saved[p] <= changes
    /\ \A p, q \in Posts : p # q => /\ dated[p] = dated[q] => dated[p] = 0
                                    /\ saved[p] = saved[q] => saved[p] = 0
PageListed ==
    /\ fresh => \A p \in view.page : Visible(p, view.of)
    /\ view.of = "nothing" => view.page = {}
    /\ view.at = "details" => view.of = "timeline"
    /\ view.of \in {"nothing", "detail"} => view.at = "end" /\ view.again = {}
LastingListed == view.of \in Paged \cup {"timeline"} => view.lasting \subseteq Listing(view.of)
PagesShown ==
    view.of \in Paged =>
        /\ ~view.left => \A p \in view.lasting : Rank(p, view.of) < view.pages => p \in view.shown
        /\ ~view.came => /\ view.again = {}
                         /\ \A p \in view.shown \cap Listing(view.of) : Rank(p, view.of) < view.pages
CursorShown ==
    view.of = "timeline" =>
        LET selected == IF view.at = "details" THEN view.page ELSE {} IN
        /\ \A p \in view.lasting : dated[p] >= view.before => p \in view.shown \cup selected
        /\ \A p \in view.shown \cup selected : dated[p] >= view.before
        /\ view.again = {} /\ view.shown \cap selected = {}
IInv ==
    TypeOK /\ TimesApart /\ PageListed /\ LastingListed /\ PagesShown /\ CursorShown /\ PagesComplete
=============================================================================
