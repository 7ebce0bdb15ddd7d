------------------------------- MODULE Events -------------------------------
(***************************************************************************)
(* One event: its schedule, whether it is cancelled, featured or deleted,  *)
(* and its images, each a row and a file on disk.  Every handler reads the *)
(* event without a lock and writes later the columns that differ from what *)
(* it read; files are written and deleted outside the transactions.        *)
(***************************************************************************)
EXTENDS Naturals, FiniteSets

CONSTANTS Images,    \* the images that may be uploaded
          NoImage,
          MaxImages, \* MAX_EVENT_IMAGES
          Times,     \* when an event may start or end
          Sessions

VARIABLES
    event,     \* the row of events
    images,    \* the rows of event_images
    files,     \* the files on disk
    req,       \* each session's handler
    overlapped,\* what handlers that overlapped write
    cut        \* a process died, or lost its connection, within a handler

vars == <<event, images, files, req, overlapped, cut>>

Keep == 0
Idle == [op |-> "idle", at |-> "idle", starts |-> Keep, ends |-> Keep, featured |-> FALSE,
         left |-> 0, image |-> NoImage]

TypeOK ==
    /\ event \in [status: {"SCHEDULED", "CANCELLED"}, featured: BOOLEAN, deleted: BOOLEAN,
                  starts: Times, ends: Times]
    /\ images \subseteq Images /\ files \subseteq Images
    /\ req \in [Sessions ->
         [op: {"idle", "update", "cancel", "feature", "delete", "add", "remove"},
          at: {"idle", "save", "count", "write", "insert", "row", "file"},
          starts: Times \cup {Keep}, ends: Times \cup {Keep}, featured: BOOLEAN,
          left: 0..MaxImages, image: Images \cup {NoImage}]]
    /\ overlapped \subseteq {"schedule", "state", "images"} /\ cut \in BOOLEAN

\* An event just created; its images are added by the same requests as later.
Init ==
    /\ \E starts, ends \in Times :
        /\ starts < ends
        /\ event = [status |-> "SCHEDULED", featured |-> FALSE, deleted |-> FALSE,
                    starts |-> starts, ends |-> ends]
    /\ images = {} /\ files = {} /\ req = [s \in Sessions |-> Idle]
    /\ overlapped = {} /\ cut = FALSE

Writes(op) == CASE op = "update" -> {"schedule"}
                [] op \in {"cancel", "feature", "delete"} -> {"state"}
                [] op = "add" -> {"images"}
                [] OTHER -> {}

Begin(s, r) ==
    /\ req[s] = Idle /\ req' = [req EXCEPT ![s] = r]
    /\ ~event.deleted
    /\ overlapped' = overlapped \cup (Writes(r.op) \cap UNION {Writes(req[t].op) : t \in Sessions})
    /\ UNCHANGED <<event, images, files, cut>>

End(s) == req' = [req EXCEPT ![s] = Idle] /\ UNCHANGED overlapped

----------------------------------------------------------------------------
(* EventService                                                            *)

Scheduled == event.status = "SCHEDULED"

\* A time given that is the event's is not written.
Differing(given, value) == IF given = value THEN Keep ELSE given
Final(given, value)     == IF given = Keep THEN value ELSE given

\* update
BrokenInOrder(starts, ends) == TRUE
InOrder(starts, ends) == starts < ends
Update(s, starts, ends) ==
    /\ Scheduled
    /\ InOrder(Final(starts, event.starts), Final(ends, event.ends))
    /\ Begin(s, [Idle EXCEPT !.op = "update", !.at = "save", !.starts = Differing(starts, event.starts),
                             !.ends = Differing(ends, event.ends)])

\* cancel, set_featured, delete: is_featured is written if it was the other.
Cancel(s)  == Scheduled /\ Begin(s, [Idle EXCEPT !.op = "cancel", !.at = "save", !.featured = event.featured])
Feature(s) == Scheduled /\ Begin(s, [Idle EXCEPT !.op = "feature", !.at = "save", !.featured = event.featured])
Delete(s)  == Begin(s, [Idle EXCEPT !.op = "delete", !.at = "save", !.featured = event.featured])

Saved(r) ==
    CASE r.op = "update"  -> [event EXCEPT !.starts = Final(r.starts, @), !.ends = Final(r.ends, @)]
      [] r.op = "cancel"  -> [event EXCEPT !.status = "CANCELLED", !.featured = @ /\ ~r.featured]
      [] r.op = "feature" -> [event EXCEPT !.featured = ~r.featured]
      [] r.op = "delete"  -> [event EXCEPT !.deleted = TRUE, !.featured = @ /\ ~r.featured]

Save(s) ==
    /\ req[s].at = "save" /\ event' = Saved(req[s]) /\ End(s)
    /\ UNCHANGED <<images, files, cut>>

----------------------------------------------------------------------------
(* EventImageService                                                       *)

AddImages(s, n) == Scheduled /\ Begin(s, [Idle EXCEPT !.op = "add", !.at = "count", !.left = n])

CountImages(s) ==
    /\ req[s].at = "count" /\ Cardinality(images) + req[s].left <= MaxImages
    /\ req' = [req EXCEPT ![s].at = "write"]
    /\ UNCHANGED <<event, images, files, overlapped, cut>>

\* save_event_image: a file of a new name.
WriteFile(s) ==
    \E i \in Images \ (images \cup files) :
        /\ req[s].at = "write" /\ \A t \in Sessions : req[t].image # i
        /\ files' = files \cup {i}
        /\ req' = [req EXCEPT ![s].at = "insert", ![s].image = i]
        /\ UNCHANGED <<event, images, overlapped, cut>>

InsertRow(s) ==
    LET r == req[s] IN
    /\ r.at = "insert" /\ images' = images \cup {r.image}
    /\ req' = [req EXCEPT ![s] = IF r.left = 1 THEN Idle
                                 ELSE [r EXCEPT !.at = "write", !.left = @ - 1, !.image = NoImage]]
    /\ UNCHANGED <<event, files, overlapped, cut>>

\* The insertion raises, and the file is deleted: before the commit, or, the
\* connection lost, after it, when the row is read back.
InsertFails(s) ==
    /\ req[s].at = "insert" /\ End(s) /\ files' = files \ {req[s].image}
    /\ \/ UNCHANGED <<images, cut>>
       \/ images' = images \cup {req[s].image} /\ cut' = TRUE
    /\ UNCHANGED event

\* remove: the row, then the file; a row already gone is only warned about.
RemoveImage(s, i) ==
    /\ Scheduled /\ i \in images
    /\ Begin(s, [Idle EXCEPT !.op = "remove", !.at = "row", !.image = i])

DeleteRow(s) ==
    /\ req[s].at = "row" /\ images' = images \ {req[s].image}
    /\ req' = [req EXCEPT ![s].at = "file"]
    /\ UNCHANGED <<event, files, overlapped, cut>>

DeleteFile(s) ==
    /\ req[s].at = "file" /\ files' = files \ {req[s].image} /\ End(s)
    /\ UNCHANGED <<event, images, cut>>

----------------------------------------------------------------------------
\* A check refuses, or the statement fails.
Refuse(s) ==
    /\ req[s].at \in {"save", "count", "write", "row"} /\ End(s)
    /\ UNCHANGED <<event, images, files, cut>>

\* The process dies: what is on disk stays.
Crash(s) ==
    /\ req[s].at \in {"insert", "file"} /\ End(s) /\ cut' = TRUE
    /\ UNCHANGED <<event, images, files>>

Next ==
    \E s \in Sessions :
        \/ \E starts, ends \in Times \cup {Keep} : Update(s, starts, ends)
        \/ Cancel(s) \/ Feature(s) \/ Delete(s) \/ Save(s)
        \/ \E n \in 1..MaxImages : AddImages(s, n)
        \/ CountImages(s) \/ WriteFile(s) \/ InsertRow(s) \/ InsertFails(s)
        \/ \E i \in Images : RemoveImage(s, i)
        \/ DeleteRow(s) \/ DeleteFile(s)
        \/ Refuse(s) \/ Crash(s)

Spec == Init /\ [][Next]_vars

----------------------------------------------------------------------------
(* An event ends after it starts, unless two updates overlapped; only a    *)
(* scheduled event that is not deleted is featured, unless two of its      *)
(* cancellation, deletion and featuring did; and there are no more images  *)
(* than allowed, unless additions did. An update and a cancellation, say,  *)
(* may overlap.                                                            *)
EventConsistent ==
    /\ "schedule" \in overlapped \/ event.starts < event.ends
    /\ "state" \in overlapped \/ ~event.featured \/ (Scheduled /\ ~event.deleted)
    /\ "images" \in overlapped \/ Cardinality(images) <= MaxImages

(* Whatever overlaps, an image has its file, and a file its image or a     *)
(* handler about to delete it or add the row, unless a process died or     *)
(* lost its connection in between.                                         *)
ImagesHaveFiles ==
    cut \/ /\ images \subseteq files
           /\ files \subseteq images \cup {req[s].image : s \in Sessions}

\* The inductive invariant: a handler that overlapped with none of its kind writes
\* over what it read, a file just written is one handler's, and a file without a
\* row is to get one or to go.
Stages ==
    \A s \in Sessions :
        /\ req[s].at = "idle"                       <=> req[s].op = "idle"
        /\ req[s].at \in {"count", "write", "insert"} <=> req[s].op = "add"
        /\ req[s].at \in {"row", "file"}            <=> req[s].op = "remove"
        /\ req[s].op = "add" => req[s].left # 0
OneOfEachKind ==
    \A s, t \in Sessions : Writes(req[s].op) \cap Writes(req[t].op) \subseteq overlapped \/ s = t
ReadsHold ==
    \A s \in Sessions :
        /\ req[s].op = "update" /\ "schedule" \notin overlapped =>
              Final(req[s].starts, event.starts) < Final(req[s].ends, event.ends)
        /\ req[s].op \in {"cancel", "feature", "delete"} /\ "state" \notin overlapped =>
              /\ req[s].featured = event.featured
              /\ req[s].op = "feature" => Scheduled /\ ~event.deleted
        /\ req[s].at \in {"write", "insert"} /\ "images" \notin overlapped =>
              Cardinality(images) + req[s].left <= MaxImages
ImagesApart ==
    \A s \in Sessions :
        /\ req[s].at = "insert" =>
              /\ req[s].image \in (files \cap Images) \ images
              /\ \A t \in Sessions \ {s} : req[t].image # req[s].image
        /\ req[s].at = "file" => req[s].image \notin images
FilesKept ==
    cut \/ /\ images \subseteq files
           /\ \A i \in files \ images : \E s \in Sessions : req[s].at \in {"insert", "file"} /\ req[s].image = i

IInv == TypeOK /\ Stages /\ OneOfEachKind /\ ReadsHold /\ ImagesApart /\ EventConsistent /\ FilesKept
=============================================================================
