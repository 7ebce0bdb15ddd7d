---------------------------- MODULE SettingsCache ---------------------------
(***************************************************************************)
(* The settings that the process keeps in memory: administrators write     *)
(* rows, and each handler, after its commit, reads the rows it needs one   *)
(* after the other and replaces the copy.                                  *)
(***************************************************************************)
EXTENDS FiniteSets

CONSTANTS Keys,   \* the settings read together: the timezone, or the two formats
          Values,
          Unset,  \* no row, or one without a value
          Sessions

VARIABLES
    stored,  \* the rows
    cache,   \* the copy
    req,     \* each session's handler
    crossed, \* a handler committed while another refreshed the copy
    cut      \* a refresh failed after its commit

vars == <<stored, cache, req, crossed, cut>>

Idle == [at |-> "idle", rows |-> {}, got |-> [k \in {} |-> Unset]]

TypeOK ==
    /\ stored \in [Keys -> Values \cup {Unset}] /\ cache \in [Keys -> Values \cup {Unset}]
    /\ \A s \in Sessions :
        /\ req[s].at \in {"idle", "commit", "refresh"}
        /\ req[s].rows \in SUBSET [key : Keys, had : BOOLEAN, value : Values \cup {Unset}]
        /\ DOMAIN req[s].got \subseteq Keys
    /\ crossed \in BOOLEAN /\ cut \in BOOLEAN

Init ==
    /\ stored = [k \in Keys |-> Unset] /\ cache = stored
    /\ req = [s \in Sessions |-> Idle] /\ crossed = FALSE /\ cut = FALSE

Refreshing == {s \in Sessions : req[s].at = "refresh"}

Row(k, v) == [key |-> k, had |-> stored[k] # Unset, value |-> v]

\* create, update, delete: a row's value, or its key, which leaves its value to
\* another key.
Write(s) ==
    \E k \in Keys, v \in Values \cup {Unset} :
        /\ req[s] = Idle /\ v # stored[k]
        /\ req' = [req EXCEPT ![s] = [Idle EXCEPT !.at = "commit", !.rows = {Row(k, v)}]]
        /\ UNCHANGED <<stored, cache, crossed, cut>>

Rename(s) ==
    \E k, to \in Keys :
        /\ req[s] = Idle /\ stored[k] # Unset /\ stored[to] = Unset
        /\ req' = [req EXCEPT ![s] = [Idle EXCEPT !.at = "commit",
                                                 !.rows = {Row(k, Unset), Row(to, stored[k])}]]
        /\ UNCHANGED <<stored, cache, crossed, cut>>

\* _refresh_caches_if_affected, after the commit (its faulty variant forgets it).
BrokenAffected(s) == Idle
Affected(s)       == [req[s] EXCEPT !.at = "refresh"]

\* A row that is updated must still exist, and one that is added not yet.
Commit(s) ==
    LET new(k) == {r.value : r \in {q \in req[s].rows : q.key = k}} IN
    /\ req[s].at = "commit"
    /\ \A r \in req[s].rows : r.value # Unset => r.had = (stored[r.key] # Unset)
    /\ stored' = [k \in Keys |-> IF new(k) = {} THEN stored[k] ELSE CHOOSE v \in new(k) : TRUE]
    /\ crossed' = (crossed \/ Refreshing # {})
    /\ req' = [req EXCEPT ![s] = Affected(s)]
    /\ UNCHANGED <<cache, cut>>

\* refresh_app_timezone, refresh_datetime_formats: a SELECT for each key ...
ReadSetting(s) ==
    \E k \in Keys \ DOMAIN req[s].got :
        /\ req[s].at = "refresh"
        /\ req' = [req EXCEPT ![s].got = [i \in DOMAIN @ \cup {k} |-> IF i = k THEN stored[k] ELSE @[i]]]
        /\ UNCHANGED <<stored, cache, crossed, cut>>

\* ... and the copy.
SetCache(s) ==
    /\ req[s].at = "refresh" /\ DOMAIN req[s].got = Keys
    /\ cache' = req[s].got
    /\ req' = [req EXCEPT ![s] = Idle]
    /\ UNCHANGED <<stored, crossed, cut>>

\* A SELECT fails: the rows are written and the copy stays what it was.
RefreshFails(s) ==
    /\ req[s].at = "refresh" /\ req' = [req EXCEPT ![s] = Idle] /\ cut' = TRUE
    /\ UNCHANGED <<stored, cache, crossed>>

\* The commit is refused.
Refuse(s) ==
    /\ req[s].at = "commit" /\ req' = [req EXCEPT ![s] = Idle]
    /\ UNCHANGED <<stored, cache, crossed, cut>>

\* The process ends; its successor reads the settings before it serves.
Restart ==
    /\ req' = [s \in Sessions |-> Idle] /\ cache' = stored /\ crossed' = FALSE /\ cut' = FALSE
    /\ UNCHANGED stored

Next ==
    \/ \E s \in Sessions :
        \/ Write(s) \/ Rename(s) \/ Commit(s) \/ ReadSetting(s) \/ SetCache(s) \/ RefreshFails(s) \/ Refuse(s)
    \/ Restart

Spec == Init /\ [][Next]_vars

----------------------------------------------------------------------------
(* When no handler runs the copy is what the rows say, unless one commits  *)
(* while another refreshes: of two refreshes the older one may be the last *)
(* to be written, and stays until a setting is written again; and so does  *)
(* the old copy when a refresh fails.                                      *)
CacheCurrent ==
    (~crossed /\ ~cut /\ \A s \in Sessions : req[s] = Idle) => cache = stored
=============================================================================
