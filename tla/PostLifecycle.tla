---------------------------- MODULE PostLifecycle ---------------------------
(***************************************************************************)
(* One post of a community, in two machines that run apart, and to each of *)
(* which `req` and `overlapped` are its own: its row (Moderation...), and  *)
(* its images and videos (Media...).                                       *)
(***************************************************************************)
EXTENDS Integers, Sequences, FiniteSets

CONSTANTS Sessions,
          MaxPublications, \* bound: how often the post is published, and told but for one
          Uploads,         \* what requests attach: sequences of images, then of videos
          MaxFiles         \* bound: files that are ever stored

VARIABLES
    req,          \* each session's handler
    overlapped,   \* that two handlers changing the "status", or two "updates", did;
                  \* for media: two that attach did, or something was removed

    post,         \* the row of posts
    publications, \* how often the row became PUBLISHED by its author
    announced,    \* how often members were told
    barred,       \* a moderator's last decision on the post

    rows,         \* the post_media rows: their place, files, and which of them came first
    files,        \* those in the upload directory
    uploaded,     \* how many were ever stored
    cut           \* a request ended after it had stored a file and before the row of it

-----------------------------------------------------------------------------
(* One post of a community: its author edits and publishes it, moderators  *)
(* block and unblock it, author and moderators delete it.  The row is read *)
(* without a lock, and of its columns those that changed are written; a    *)
(* publication is announced at the very end of the request, after media    *)
(* and tags.                                                               *)
moderationVars == <<post, req, publications, announced, barred, overlapped>>

Statuses == {"DRAFT", "SCHEDULED", "PUBLISHED", "BLOCKED"}
Keep == "keep"
NoHandler == [op |-> "idle", at |-> "idle", to |-> Keep, newly |-> FALSE]

ModerationTypeOK ==
    /\ post \in [status: Statuses, deleted: BOOLEAN, dated: BOOLEAN]
    /\ req \in [Sessions -> [op: {"idle", "update", "block", "unblock", "delete"},
                             at: {"idle", "save", "attach", "announce"},
                             to: Statuses \cup {Keep}, newly: BOOLEAN]]
    /\ publications \in 0..MaxPublications /\ announced \in 0..MaxPublications + 1
    /\ barred \in BOOLEAN /\ overlapped \subseteq {"status", "updates"}

\* A post created is what its author asked for, or published at once and told
\* to the members by the request that created it.
ModerationInit ==
    /\ \E status \in Statuses \ {"BLOCKED"} :
        /\ post = [status |-> status, deleted |-> FALSE, dated |-> status = "PUBLISHED"]
        /\ publications = IF status = "PUBLISHED" THEN 1 ELSE 0
        /\ announced = publications
    /\ req = [s \in Sessions |-> NoHandler]
    /\ barred = FALSE /\ overlapped = {}

Touched(r) == (IF r.to = Keep THEN {} ELSE {"status"}) \cup (IF r.op = "update" THEN {"updates"} ELSE {})

Begin(s, r) ==
    /\ req[s] = NoHandler /\ ~post.deleted
    /\ req' = [req EXCEPT ![s] = r]
    /\ overlapped' = overlapped \cup (Touched(r) \cap UNION {Touched(req[t]) : t \in Sessions})
    /\ UNCHANGED <<post, publications, announced, barred>>

\* update: a status given that the post has is not written. What the row was
\* says whether this request published it.
Editable == post.status # "BLOCKED"
Update(s, status) ==
    /\ Editable
    /\ Begin(s, [op |-> "update", at |-> "save", newly |-> post.status # "PUBLISHED",
                 to |-> IF status = post.status THEN Keep ELSE status])

Block(s) ==
    /\ post.status = "PUBLISHED"
    /\ Begin(s, [NoHandler EXCEPT !.op = "block", !.at = "save", !.to = "BLOCKED"])
Unblock(s) ==
    /\ post.status = "BLOCKED"
    /\ Begin(s, [NoHandler EXCEPT !.op = "unblock", !.at = "save", !.to = "PUBLISHED"])

\* delete, and the removal from a community by its owner
Delete(s) == Begin(s, [NoHandler EXCEPT !.op = "delete", !.at = "save"])

Saved(r) == [post EXCEPT !.status = IF r.to = Keep THEN @ ELSE r.to,
                         !.deleted = @ \/ r.op = "delete",
                         !.dated = @ \/ (r.op = "update" /\ r.to = "PUBLISHED")]

Save(s) ==
    LET r == req[s] IN
    /\ r.at = "save" /\ post' = Saved(r)
    /\ publications' = publications + IF r.op = "update" /\ r.to = "PUBLISHED" THEN 1 ELSE 0
    /\ publications' <= MaxPublications
    /\ barred' = CASE r.op = "block" -> TRUE [] r.op = "unblock" -> FALSE [] OTHER -> barred
    /\ req' = [req EXCEPT ![s] =
          IF r.op = "update" THEN [r EXCEPT !.at = "announce", !.to = Keep] ELSE NoHandler]
    /\ UNCHANGED <<announced, overlapped>>

\* announce_community_post: the status is read again, after the media's and
\* the tags' commits.
Announce(s) ==
    /\ req[s].at = "announce"
    /\ announced' = announced + IF req[s].newly /\ post.status = "PUBLISHED" THEN 1 ELSE 0
    /\ announced' <= MaxPublications + 1
    /\ req' = [req EXCEPT ![s] = NoHandler]
    /\ UNCHANGED <<post, publications, barred, overlapped>>

\* A check or the media's upload refuses, or the process dies.
Abandon(s) ==
    /\ req[s] # NoHandler /\ req' = [req EXCEPT ![s] = NoHandler]
    /\ UNCHANGED <<post, publications, announced, barred, overlapped>>

ModerationNext ==
    \E s \in Sessions :
        \/ \E status \in Statuses \ {"BLOCKED"} : Update(s, status)
        \/ Block(s) \/ Unblock(s) \/ Delete(s)
        \/ Save(s) \/ Announce(s) \/ Abandon(s)

ModerationSpec == ModerationInit /\ [][ModerationNext]_moderationVars

----------------------------------------------------------------------------
(* What a moderator blocked stays blocked until a moderator unblocks it,   *)
(* whatever its author was about to save, and a published post has its     *)
(* date; unless two requests that change the status overlapped.            *)
BlockedStaysBlocked ==
    "status" \notin overlapped =>
        /\ barred <=> post.status = "BLOCKED"
        /\ post.status = "PUBLISHED" => post.dated

(* Members are told no more often than the post is published, unless       *)
(* requests overlapped: the status is read again at the end of an update,  *)
(* which so may announce what another request made of the post.            *)
AnnouncedOnce == overlapped = {} => announced <= publications

\* The inductive invariant: unless requests that change the status overlapped, it
\* is as the one under way read it; who is to announce has published, or found
\* the post neither published nor blocked.
OneOfEachKind ==
    \A s, t \in Sessions : Touched(req[s]) \cap Touched(req[t]) \subseteq overlapped \/ s = t
StatusAsRead ==
    /\ post.status \in {"PUBLISHED", "BLOCKED"} /\ "status" \notin overlapped => post.dated
    /\ \A s \in Sessions :
        /\ req[s].op \in {"idle", "delete"} \/ req[s].at = "announce" => req[s].to = Keep
        /\ req[s].at = "announce" => req[s].op = "update"
        /\ req[s].op = "update" => req[s].to # "BLOCKED"
        /\ req[s].op = "block" => req[s].to = "BLOCKED"
        /\ req[s].op = "unblock" => req[s].to = "PUBLISHED"
        /\ "status" \notin overlapped =>
              /\ req[s].op = "update" /\ req[s].to # Keep => post.status # "BLOCKED"
              /\ req[s].op = "block"   => post.status = "PUBLISHED"
              /\ req[s].op = "unblock" => post.status = "BLOCKED"
ToAnnounce ==
    overlapped = {} =>
        \A s \in Sessions : req[s].op = "update" /\ req[s].newly /\ post.status \in {"PUBLISHED", "BLOCKED"} =>
            req[s].at = "announce" /\ announced < publications

ModerationIInv ==
    ModerationTypeOK /\ OneOfEachKind /\ StatusAsRead /\ ToAnnounce /\ BlockedStaysBlocked /\ AnnouncedOnce

-----------------------------------------------------------------------------
(* The images and videos of one post.  A request stores the file of each,  *)
(* and for a video that of its thumbnail, before it commits the row; a     *)
(* removal commits the deletion of the row before the files go.  The place *)
(* of a new one is how many there were when its request counted them.      *)
mediaVars == <<rows, files, uploaded, req, overlapped, cut>>

Kinds == {"image", "refused_image", "video", "video_of_refused_thumbnail"}
Idle  == [op |-> "idle", at |-> "idle", todo |-> <<>>, next |-> 0, mine |-> {}]

MediaTypeOK ==
    /\ uploaded \in 0..MaxFiles /\ files \subseteq 1..uploaded
    /\ \A m \in rows : m.place \in Nat /\ m.files \subseteq 1..uploaded /\ m.files # {}
    /\ \A s \in Sessions :
        /\ DOMAIN req[s] = DOMAIN Idle /\ req[s].todo \in Seq(Kinds)
        /\ req[s].op \in {"idle", "attach", "remove"} /\ req[s].mine \subseteq 1..uploaded
        /\ req[s].at \in {"idle", "count", "file", "thumbnail", "row", "delete_row", "delete_files"}
    /\ overlapped \in BOOLEAN /\ cut \in BOOLEAN

MediaInit ==
    /\ rows = {} /\ files = {} /\ uploaded = 0 /\ overlapped = FALSE /\ cut = FALSE
    /\ req = [s \in Sessions |-> Idle]

At(s, at) == req[s].at = at
End(s)    == req' = [req EXCEPT ![s] = Idle]
Item(s)   == Head(req[s].todo)

\* attach: nothing is stored when there are more or fewer thumbnails than videos.
Attach(s, upload) ==
    /\ req[s] = Idle
    /\ req' = [req EXCEPT ![s].op = "attach", ![s].at = "count", ![s].todo = upload]
    /\ overlapped' = (overlapped \/ \E o \in Sessions : req[o].op = "attach")
    /\ UNCHANGED <<rows, files, uploaded, cut>>

Counted == Cardinality(rows)
CountRows(s) ==
    /\ At(s, "count")
    /\ req' = [req EXCEPT ![s].at = "file", ![s].next = Counted]
    /\ UNCHANGED <<rows, files, uploaded, overlapped, cut>>

\* _save_upload: a file of another type, or too large, is refused, and with it
\* what is left of the request.
Store(s, at) ==
    /\ uploaded < MaxFiles
    /\ uploaded' = uploaded + 1 /\ files' = files \cup {uploaded + 1}
    /\ req' = [req EXCEPT ![s].mine = @ \cup {uploaded + 1}, ![s].at = at]
    /\ UNCHANGED <<rows, overlapped, cut>>
Refuse(s) ==
    /\ End(s) /\ cut' = (cut \/ req[s].mine # {})
    /\ UNCHANGED <<rows, files, uploaded, overlapped>>

SaveFile(s) ==
    /\ At(s, "file")
    /\ CASE Item(s) = "image"         -> Store(s, "row")
         [] Item(s) = "refused_image" -> Refuse(s)
         [] OTHER                     -> Store(s, "thumbnail")
SaveThumbnail(s) ==
    /\ At(s, "thumbnail")
    /\ IF Item(s) = "video" THEN Store(s, "row") ELSE Refuse(s)

AddRow(s) ==
    LET left == Tail(req[s].todo) IN
    /\ At(s, "row")
    /\ rows' = rows \cup {[place |-> req[s].next, files |-> req[s].mine]}
    /\ req' = [req EXCEPT ![s] = IF left = <<>> THEN Idle
                                 ELSE [@ EXCEPT !.todo = left, !.at = "file", !.mine = {},
                                                !.next = req[s].next + 1]]
    /\ UNCHANGED <<files, uploaded, overlapped, cut>>

\* remove
Remove(s, m) ==
    /\ req[s] = Idle /\ m \in rows
    /\ req' = [req EXCEPT ![s].op = "remove", ![s].at = "delete_row", ![s].mine = m.files]
    /\ overlapped' = TRUE
    /\ UNCHANGED <<rows, files, uploaded, cut>>
DeleteRow(s) ==
    /\ At(s, "delete_row")
    /\ rows' = {m \in rows : m.files # req[s].mine}
    /\ req' = [req EXCEPT ![s].at = "delete_files"]
    /\ UNCHANGED <<files, uploaded, overlapped, cut>>
DeleteFiles(s) ==
    /\ At(s, "delete_files")
    /\ files' = files \ req[s].mine
    /\ End(s)
    /\ UNCHANGED <<rows, uploaded, overlapped, cut>>

\* The process dies, or a statement fails.
CutShort(s) == req[s] # Idle /\ Refuse(s)

MediaNext ==
    \E s \in Sessions :
        \/ \E upload \in Uploads : Attach(s, upload)
        \/ CountRows(s) \/ SaveFile(s) \/ SaveThumbnail(s) \/ AddRow(s)
        \/ \E m \in rows : Remove(s, m)
        \/ DeleteRow(s) \/ DeleteFiles(s) \/ CutShort(s)

MediaSpec == MediaInit /\ [][MediaNext]_mediaVars

----------------------------------------------------------------------------
(* PostMediaService: the files of every image and video of the post are    *)
(* there, whatever is cut short; and each file belongs to one, or to a     *)
(* request under way, unless some request was refused or cut short.        *)
MediaHasFiles ==
    /\ \A m \in rows : m.files \subseteq files
    /\ cut \/ files \subseteq UNION ({m.files : m \in rows} \cup {req[s].mine : s \in Sessions})

(* They are listed by their place and then by when they were added: in the *)
(* order of the requests that attached them, and in each request in the    *)
(* order of the uploads, as long as nothing is removed and no two requests *)
(* attach at once.                                                         *)
Earlier(m, n) == \A f \in m.files, g \in n.files : f < g
MediaInOrder == overlapped \/ \A m, n \in rows : Earlier(m, n) => m.place <= n.place

\* The inductive invariant: what a request has stored and not yet a row for is its
\* own, and of a row that is removed the files are no other's; the next place is
\* behind all, and files come in the order of their upload.
HandlerFits(r) ==
    /\ r.at \in {"idle", "count", "file"} => r.mine = {}
    /\ r.at \in {"row", "delete_row"} => r.mine # {}
    /\ r.at \in {"count", "file", "thumbnail", "row"} <=> r.op = "attach"
    /\ r.at \in {"delete_row", "delete_files"} <=> r.op = "remove"
    /\ r.op = "attach" => r.todo # <<>>
MediaTypes ==
    /\ uploaded \in Nat /\ IsFiniteSet(rows) /\ cut \in BOOLEAN /\ overlapped \in BOOLEAN
    /\ rows \subseteq [place: Nat, files: (SUBSET (1..uploaded)) \ {{}}]
    /\ req \in [Sessions -> [op: {"idle", "attach", "remove"},
                             at: {"idle", "count", "file", "thumbnail", "row", "delete_row", "delete_files"},
                             todo: Seq(Kinds), next: Nat, mine: SUBSET (1..uploaded)]]
    /\ \A s \in Sessions : HandlerFits(req[s])
FilesApart ==
    /\ \A m, n \in rows : m = n \/ m.files \cap n.files = {}
    /\ \A s \in Sessions, m \in rows :
        req[s].mine \cap m.files = {} \/ (req[s].at = "delete_row" /\ req[s].mine = m.files)
    /\ \A s \in Sessions : req[s].op = "attach" =>
        /\ req[s].mine \subseteq files
        /\ \A t \in Sessions \ {s} : req[s].mine \cap req[t].mine = {}
NextPlace ==
    overlapped \/
        /\ \A s \in Sessions : req[s].op # "remove"
        /\ \A s, t \in Sessions : req[s].op = "attach" /\ req[t].op = "attach" => s = t
        /\ \A m \in rows : m.place < Counted
        /\ \A s \in Sessions :
            /\ req[s].at \in {"file", "thumbnail", "row"} => req[s].next = Counted
            /\ \A f \in req[s].mine, m \in rows : \A g \in m.files : g < f

MediaIInv == MediaTypes /\ FilesApart /\ NextPlace /\ MediaHasFiles /\ MediaInOrder
=============================================================================
