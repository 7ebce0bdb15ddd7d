---------------------------- MODULE PopularPlaces ---------------------------
(***************************************************************************)
(* The popular place of one village and its image, a file whose name is in *)
(* the row.  Files are written before and deleted after the commit, and    *)
(* deleted again when the commit fails.                                    *)
(***************************************************************************)
EXTENDS Naturals

CONSTANTS Places, NoPlace, \* the rows that may be made, one after the other
          Images, NoImage, \* the files that may be written
          Sessions

VARIABLES
    rows,      \* the image of each place, of those that there are
    files,     \* the files on disk
    req,       \* each session's handler
    overlapped,\* a handler began while another ran
    cut        \* a process died, or lost its connection, within a handler

vars == <<rows, files, req, overlapped, cut>>

Idle == [op |-> "idle", at |-> "idle", place |-> NoPlace, new |-> NoImage, old |-> NoImage]

TypeOK ==
    /\ rows \in [Places -> Images \cup {NoImage}] /\ files \subseteq Images
    /\ req \in [Sessions ->
         [op: {"idle", "create", "update", "delete"},
          at: {"idle", "file", "commit", "refresh", "undo", "unlink"},
          place: Places \cup {NoPlace}, new: Images \cup {NoImage}, old: Images \cup {NoImage}]]
    /\ overlapped \in BOOLEAN /\ cut \in BOOLEAN

Init ==
    /\ rows = [p \in Places |-> NoImage] /\ files = {}
    /\ req = [s \in Sessions |-> Idle] /\ overlapped = FALSE /\ cut = FALSE

Existing == {p \in Places : rows[p] # NoImage}
Named    == UNION {{req[s].new, req[s].old} : s \in Sessions}

Begin(s, op, at, p, old) ==
    /\ req[s] = Idle
    /\ req' = [req EXCEPT ![s] = [op |-> op, at |-> at, place |-> p, new |-> NoImage, old |-> old]]
    /\ overlapped' = (overlapped \/ \E t \in Sessions : req[t] # Idle)
    /\ UNCHANGED <<rows, files, cut>>

\* create: the village has no place yet. update with an image, delete: the
\* image's name is read with the row.
Create(s)    == Existing = {} /\ \E p \in Places : (\A t \in Sessions : req[t].place # p) /\ Begin(s, "create", "file", p, NoImage)
Update(s, p) == p \in Existing /\ Begin(s, "update", "file", p, rows[p])
Delete(s, p) == p \in Existing /\ Begin(s, "delete", "commit", p, rows[p])

\* save_popular_place_image
WriteFile(s) ==
    \E i \in Images \ (files \cup Named \cup {rows[p] : p \in Places}) :
        /\ req[s].at = "file"
        /\ files' = files \cup {i}
        /\ req' = [req EXCEPT ![s].at = "commit", ![s].new = i]
        /\ UNCHANGED <<rows, overlapped, cut>>

\* A village has one place, and an UPDATE must find its row; a DELETE that does
\* not is only warned about.
Possible(r) ==
    CASE r.op = "create" -> Existing = {}
      [] r.op = "update" -> r.place \in Existing
      [] r.op = "delete" -> TRUE

Commit(s) ==
    LET r == req[s] IN
    /\ r.at = "commit" /\ Possible(r)
    /\ rows' = [rows EXCEPT ![r.place] = r.new]
    /\ req' = [req EXCEPT ![s].at = IF r.op = "delete" THEN "unlink" ELSE "refresh"]
    /\ UNCHANGED <<files, overlapped, cut>>

CommitFails(s) ==
    /\ req[s].at = "commit"
    /\ req' = [req EXCEPT ![s] = IF @.op = "delete" THEN Idle ELSE [@ EXCEPT !.at = "undo"]]
    /\ UNCHANGED <<rows, files, overlapped, cut>>

\* The row is read back, which fails when it is gone, or the connection is;
\* both undo the new file, though the row was committed.
Refresh(s) ==
    LET gone == req[s].place \notin Existing IN
    /\ req[s].at = "refresh"
    /\ \/ /\ req' = [req EXCEPT ![s] = CASE gone -> [@ EXCEPT !.at = "undo"]
                                         [] ~gone /\ @.op = "create" -> Idle
                                         [] OTHER -> [@ EXCEPT !.at = "unlink"]]
          /\ UNCHANGED cut
       \/ req' = [req EXCEPT ![s].at = "undo"] /\ cut' = TRUE
    /\ UNCHANGED <<rows, files, overlapped>>

\* delete_media_file
Deleted(r) == IF r.at = "undo" THEN r.new ELSE r.old
DeleteFile(s) ==
    /\ req[s].at \in {"undo", "unlink"}
    /\ files' = files \ {Deleted(req[s])}
    /\ req' = [req EXCEPT ![s] = Idle]
    /\ UNCHANGED <<rows, overlapped, cut>>

\* A check or the file is refused; or the process dies.
Refuse(s) ==
    /\ req[s].at = "file" /\ req' = [req EXCEPT ![s] = Idle]
    /\ UNCHANGED <<rows, files, overlapped, cut>>

Crash(s) ==
    /\ req[s].at \notin {"idle", "file"} /\ req' = [req EXCEPT ![s] = Idle] /\ cut' = TRUE
    /\ UNCHANGED <<rows, files, overlapped>>

Next ==
    \E s \in Sessions :
        \/ Create(s) \/ \E p \in Places : Update(s, p) \/ Delete(s, p)
        \/ WriteFile(s) \/ Commit(s) \/ CommitFails(s) \/ Refresh(s) \/ DeleteFile(s)
        \/ Refuse(s) \/ Crash(s)

Spec == Init /\ [][Next]_vars

----------------------------------------------------------------------------
(* The image of a place is on disk, whoever replaces it meanwhile, unless  *)
(* a process died or lost its connection; and if no two handlers           *)
(* overlapped either, a file is some place's, or in a handler's hands.     *)
ImageServed ==
    cut \/ /\ {rows[p] : p \in Existing} \subseteq files
           /\ overlapped \/ files \subseteq {rows[p] : p \in Existing} \cup Named

\* The inductive invariant: the file of a handler that has yet to commit it is its
\* own, and what a handler is to delete is no place's any more.
HandlerApart(s) ==
    /\ req[s].at = "idle" => req[s] = Idle
    /\ req[s].at # "idle" => req[s].place \in Places /\ req[s].op # "idle"
    /\ req[s].at = "file" \/ req[s].op = "delete" => req[s].new = NoImage
    /\ req[s].at \in {"commit", "refresh", "undo"} /\ req[s].op # "delete" => req[s].new # NoImage
    /\ req[s].at \in {"file", "refresh", "undo"} => req[s].op # "delete"
    /\ req[s].op \in {"idle", "create"} <=> req[s].old = NoImage
    /\ \A q \in Places \ {req[s].place} : rows[q] # NoImage => rows[q] \notin {req[s].new, req[s].old}
    /\ req[s].at = "commit" /\ req[s].op # "delete" =>
          /\ req[s].new \in files \ {req[s].old} /\ \A q \in Places : rows[q] # req[s].new
          /\ \A t \in Sessions \ {s} : req[s].new \notin {req[t].new, req[t].old}
    /\ req[s].at \in {"refresh", "unlink"} /\ req[s].old # NoImage => rows[req[s].place] # req[s].old
    /\ req[s].at = "undo" => rows[req[s].place] # req[s].new
FilesApart ==
    /\ \A p, q \in Places : rows[p] = rows[q] /\ rows[p] # NoImage => p = q
    /\ \A s \in Sessions : HandlerApart(s)
OneHandler ==
    ~overlapped =>
        /\ \A s, t \in Sessions : req[s] # Idle /\ req[t] # Idle => s = t
        /\ \A s \in Sessions :
            /\ req[s].at \in {"file", "commit", "undo"} => req[s].old \in {NoImage, rows[req[s].place]}
            /\ req[s].at \in {"refresh", "unlink"} => rows[req[s].place] = req[s].new

IInv == TypeOK /\ (cut \/ (FilesApart /\ OneHandler)) /\ ImageServed
=============================================================================
