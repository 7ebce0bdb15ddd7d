--------------------------- MODULE PluginLifecycle --------------------------
(***************************************************************************)
(* Plugins as the administrators see them: the folders on disk, the rows   *)
(* of the plugins table, and the code that the running process has loaded. *)
(* A package is known by its key and version.                              *)
(*                                                                         *)
(* Only the registration of a version runs under the advisory lock.  The   *)
(* folders belong to nobody, and a row that was read may be deleted before *)
(* it is written: then the write fails (req.live).                         *)
(***************************************************************************)
EXTENDS Naturals, TLAPS

CONSTANTS Keys,
          Requires,    \* the required dependencies in each key's manifests
          MaxVersion,  \* bound: versions of a plugin
          Sessions, NoSession

VARIABLES
    disk,        \* the version in each key's folder, 0 when there is none
    row,         \* each plugins row: version, 0 when there is none, and status
    loaded,      \* app.state.plugin_registry: the version loaded, 0 when none
    lock,        \* who has PLUGIN_APPLY_ADVISORY_LOCK_ID
    req,         \* each session's handler
    overlapped,  \* two handlers were under way at once
    crashed      \* the process ended while a handler was under way

vars == <<disk, row, loaded, lock, req, overlapped, crashed>>

Versions == 1..MaxVersion
NoRow == [version |-> 0, status |-> "NONE"]
Idle  == [op |-> "none", at |-> "idle", key |-> CHOOSE k \in Keys : TRUE, version |-> 0,
          seen |-> 0, saved |-> 0, live |-> FALSE, files |-> FALSE]

Handlers ==
    [op: {"none", "import", "install", "apply", "upgrade", "enable", "disable", "uninstall"},
     at: {"idle", "place", "aside", "swap", "validate", "smoke", "register", "write", "load",
          "status", "delete", "unload", "erase"},
     key: Keys, version: 0..MaxVersion, seen: 0..MaxVersion, saved: 0..MaxVersion,
     live: BOOLEAN, files: BOOLEAN]

TypeOK ==
    /\ disk \in [Keys -> 0..MaxVersion] /\ loaded \in [Keys -> 0..MaxVersion]
    /\ row \in [Keys -> [version: Versions, status: {"INSTALLED", "ENABLED", "DISABLED"}] \cup {NoRow}]
    /\ lock \in Sessions \cup {NoSession}
    /\ req \in [Sessions -> Handlers]
    /\ {overlapped, crashed} \subseteq BOOLEAN

Init ==
    /\ disk = [k \in Keys |-> 0] /\ row = [k \in Keys |-> NoRow]
    /\ loaded = disk
    /\ lock = NoSession /\ req = [s \in Sessions |-> Idle]
    /\ overlapped = FALSE /\ crashed = FALSE

Registered(k) == row[k].version # 0
Enabled(k)    == row[k].status = "ENABLED"
Dependents(k) == {d \in Keys : Registered(d) /\ k \in Requires[d]}
Busy          == {s \in Sessions : req[s] # Idle}

Begin(s, r) ==
    /\ req[s] = Idle
    /\ req' = [req EXCEPT ![s] = r]
    /\ overlapped' = (overlapped \/ Busy # {})
    /\ UNCHANGED <<disk, row, loaded, lock, crashed>>

At(s, statement)   == req[s].at = statement
Goto(s, statement) == req' = [req EXCEPT ![s].at = statement]
End(s) ==
    /\ req' = [req EXCEPT ![s] = Idle]
    /\ lock' = IF lock = s THEN NoSession ELSE lock

----------------------------------------------------------------------------
(* import_package and upgrade put a package's folder in its place, install *)
(* and the command line take what is there; then all of them apply it.     *)

AskImport(s, k, v) ==
    /\ ~Registered(k)
    /\ Begin(s, [Idle EXCEPT !.op = "import", !.at = "place", !.key = k, !.version = v])

AskApply(s, k, op) == Begin(s, [Idle EXCEPT !.op = op, !.at = "validate", !.key = k])

AskUpgrade(s, k, v) ==
    /\ Registered(k) /\ v > row[k].version
    /\ Begin(s, [Idle EXCEPT !.op = "upgrade", !.at = "aside", !.key = k, !.version = v])

MoveAside(s) ==
    LET k == req[s].key IN
    /\ At(s, "aside")
    /\ disk' = [disk EXCEPT ![k] = 0]
    /\ req' = [req EXCEPT ![s].saved = disk[k], ![s].at = "swap"]
    /\ UNCHANGED <<row, loaded, lock, overlapped, crashed>>

\* Fails when there is a folder.
PlaceFiles(s) ==
    LET k == req[s].key IN
    /\ req[s].at \in {"place", "swap"} /\ disk[k] = 0
    /\ disk' = [disk EXCEPT ![k] = req[s].version]
    /\ Goto(s, "validate")
    /\ UNCHANGED <<row, loaded, lock, overlapped, crashed>>

\* discover_plugins, resolve_load_order and _validate: from here on the
\* version is that of the manifest found.
Applicable(k) == disk[k] # 0 /\ \A d \in Requires[k] : disk[d] # 0 /\ Registered(d)
Validate(s) ==
    LET k == req[s].key IN
    /\ At(s, "validate") /\ Applicable(k)
    /\ req' = [req EXCEPT ![s].version = disk[k], ![s].at = "smoke"]
    /\ UNCHANGED <<disk, row, loaded, lock, overlapped, crashed>>

SmokeLoad(s) ==
    /\ At(s, "smoke") /\ disk[req[s].key] # 0
    /\ Goto(s, "register")
    /\ UNCHANGED <<disk, row, loaded, lock, overlapped, crashed>>

\* _register: the row is read again under the lock, a downgrade refused.
BrokenLockForApply(s) ==
    LET k == req[s].key IN
    /\ At(s, "register") /\ lock = NoSession
    /\ lock' = s
    /\ req' = [req EXCEPT ![s].seen = row[k].version, ![s].at = "write"]
    /\ UNCHANGED <<disk, row, loaded, overlapped, crashed>>
LockForApply(s) ==
    LET k == req[s].key IN
    /\ At(s, "register") /\ lock = NoSession
    /\ req[s].version >= row[k].version
    /\ lock' = s
    /\ req' = [req EXCEPT ![s].seen = row[k].version, ![s].at = "write"]
    /\ UNCHANGED <<disk, row, loaded, overlapped, crashed>>

Upserted(s) ==
    [version |-> req[s].version,
     status  |-> IF req[s].seen = 0 THEN "INSTALLED" ELSE row[req[s].key].status]
Register(s) ==
    LET k == req[s].key IN
    /\ At(s, "write") /\ (req[s].seen # 0) = Registered(k)
    /\ row' = [row EXCEPT ![k] = Upserted(s)]
    /\ lock' = NoSession
    /\ req' = [req EXCEPT ![s] = IF @.op \in {"import", "install"} THEN [@ EXCEPT !.at = "load"] ELSE Idle]
    /\ UNCHANGED <<disk, loaded, overlapped, crashed>>

\* A failed import removes the folder, a failed upgrade restores the old one.
FailApply(s) ==
    LET k == req[s].key IN
    /\ req[s].at \in {"validate", "smoke", "register", "write"}
    /\ disk' = IF req[s].op = "import" THEN [disk EXCEPT ![k] = 0]
               ELSE IF req[s].op = "upgrade" THEN [disk EXCEPT ![k] = req[s].saved]
               ELSE disk
    /\ End(s)
    /\ UNCHANGED <<row, loaded, overlapped, crashed>>

\* load_into_running_app, unless the key is loaded.
Load(s) ==
    LET k == req[s].key IN
    /\ At(s, "load")
    /\ loaded[k] = 0 /\ disk[k] # 0 /\ \A d \in Requires[k] : loaded[d] # 0
    /\ loaded' = [loaded EXCEPT ![k] = req[s].version]
    /\ End(s)
    /\ UNCHANGED <<disk, row, overlapped, crashed>>

\* Another check refuses, the folder's place is taken, or the code is not
\* loaded: nothing is changed.
Refuse(s) ==
    /\ req[s].at \in {"place", "aside", "load", "status", "delete"}
         \/ (At(s, "swap") /\ disk[req[s].key] # 0)
    /\ End(s)
    /\ UNCHANGED <<disk, row, loaded, overlapped, crashed>>

----------------------------------------------------------------------------
(* enable and disable: checked on what is read, committed later.           *)
AskEnable(s, k) ==
    /\ Registered(k) /\ ~Enabled(k)
    /\ loaded[k] = row[k].version
    /\ \A d \in Requires[k] : Enabled(d)
    /\ Begin(s, [Idle EXCEPT !.op = "enable", !.at = "status", !.key = k, !.live = TRUE])

AskDisable(s, k) ==
    /\ Enabled(k)
    /\ \A d \in Dependents(k) : ~Enabled(d)
    /\ Begin(s, [Idle EXCEPT !.op = "disable", !.at = "status", !.key = k, !.live = TRUE])

CommitStatus(s) ==
    /\ At(s, "status") /\ req[s].live
    /\ row' = [row EXCEPT ![req[s].key].status = IF req[s].op = "enable" THEN "ENABLED" ELSE "DISABLED"]
    /\ End(s)
    /\ UNCHANGED <<disk, loaded, overlapped, crashed>>

----------------------------------------------------------------------------
(* uninstall: checked before the lock is asked for.                        *)
AskUninstall(s, k, files) ==
    /\ Registered(k) /\ ~Enabled(k) /\ Dependents(k) = {}
    /\ Begin(s, [Idle EXCEPT !.op = "uninstall", !.at = "delete", !.key = k, !.live = TRUE,
                             !.files = files /\ disk[k] # 0])

RemoveRecords(s) ==
    LET k == req[s].key IN
    /\ At(s, "delete") /\ req[s].live /\ lock = NoSession
    /\ row' = [row EXCEPT ![k] = NoRow]
    /\ req' = [q \in Sessions |->
                IF q = s THEN [req[s] EXCEPT !.at = "unload"]
                ELSE IF req[q].key = k THEN [req[q] EXCEPT !.live = FALSE] ELSE req[q]]
    /\ UNCHANGED <<disk, loaded, lock, overlapped, crashed>>

Unload(s) ==
    /\ At(s, "unload")
    /\ loaded' = [loaded EXCEPT ![req[s].key] = 0]
    /\ IF req[s].files THEN Goto(s, "erase") /\ UNCHANGED lock ELSE End(s)
    /\ UNCHANGED <<disk, row, overlapped, crashed>>

Erase(s) ==
    /\ At(s, "erase")
    /\ disk' = [disk EXCEPT ![req[s].key] = 0]
    /\ End(s)
    /\ UNCHANGED <<row, loaded, overlapped, crashed>>

----------------------------------------------------------------------------
\* build_registry: folders of the applied version whose dependencies load.
Eligible == {k \in Keys : Registered(k) /\ disk[k] = row[k].version}
Loadable == UNION {K \in SUBSET Eligible : \A k \in K : Requires[k] \subseteq K}
Restart ==
    /\ loaded' = [k \in Keys |-> IF k \in Loadable THEN disk[k] ELSE 0]
    /\ req' = [s \in Sessions |-> Idle] /\ lock' = NoSession
    /\ crashed' = (crashed \/ Busy # {})
    /\ UNCHANGED <<disk, row, overlapped>>

Next ==
    \/ \E s \in Sessions :
        \/ MoveAside(s) \/ PlaceFiles(s) \/ Validate(s) \/ SmokeLoad(s) \/ LockForApply(s) \/ Register(s)
        \/ FailApply(s) \/ Load(s) \/ Refuse(s) \/ CommitStatus(s)
        \/ RemoveRecords(s) \/ Unload(s) \/ Erase(s)
        \/ \E k \in Keys :
            \/ AskEnable(s, k) \/ AskDisable(s, k)
            \/ \E op \in {"install", "apply"} : AskApply(s, k, op)
            \/ \E v \in Versions : AskImport(s, k, v) \/ AskUpgrade(s, k, v)
            \/ \E files \in BOOLEAN : AskUninstall(s, k, files)
    \/ Restart

Spec == Init /\ [][Next]_vars

----------------------------------------------------------------------------
\* However installs, upgrades and command-line applies interleave, what is
\* registered never goes back to an older version.
VersionRise  == \A k \in Keys : Registered(k) /\ Registered(k)' => row'[k].version >= row[k].version
VersionsRise == [][VersionRise]_vars

\* As long as handlers run one at a time: at rest, and unless the process died
\* in an upgrade, each row's folder has its version; ...
RowsHaveFiles == ~crashed => \A k \in Keys : Registered(k) => disk[k] = row[k].version
\* ... an enabled plugin's dependencies are enabled; ...
EnabledDependencies == \A k \in Keys : Enabled(k) => \A d \in Requires[k] : Enabled(d)
\* ... and what is loaded is registered and has its dependencies loaded.
LoadedRegistered ==
    \A k \in Keys : loaded[k] # 0 => Registered(k) /\ \A d \in Requires[k] : loaded[d] # 0
SerialConsistent ==
    ~overlapped /\ Busy = {} => RowsHaveFiles /\ EnabledDependencies /\ LoadedRegistered

----------------------------------------------------------------------------
(* The inductive invariant of VersionsRise, and its proof for all keys,    *)
(* dependencies and sessions.  Who is to write a row has the lock and a    *)
(* version no older than the row's, which nobody else then writes; who     *)
(* read a row of its own knows whether it is there.                        *)
HeldToWrite ==
    \A s \in Sessions : At(s, "write") => lock = s /\ req[s].version >= row[req[s].key].version
RowsKnown ==
    \A s \in Sessions :
        /\ req[s].at \in {"smoke", "register", "write"} => req[s].version # 0
        /\ req[s].at \in {"status", "delete"} /\ req[s].live => Registered(req[s].key)
IInv == TypeOK /\ HeldToWrite /\ RowsKnown

LEMMA IdleTyped ==
    ASSUME Keys # {}, MaxVersion \in Nat
    PROVE  /\ Idle \in Handlers /\ Idle.at = "idle"
           /\ 0 \in 0..MaxVersion /\ Versions \subseteq 0..MaxVersion
  BY DEF Idle, Versions, Handlers

LEMMA StartsConsistent ==
    ASSUME Keys # {}, MaxVersion \in Nat, Init
    PROVE  IInv
<1>1. \A s \in Sessions : req[s] = Idle /\ req[s].at = "idle"
  BY IdleTyped DEF Init
<1>2. TypeOK
  BY IdleTyped DEF Init, TypeOK, NoRow
<1>3. HeldToWrite /\ RowsKnown
  BY <1>1 DEF HeldToWrite, RowsKnown, At
<1> QED
  BY <1>2, <1>3 DEF IInv

\* A handler begins.
LEMMA HandlerBegins ==
    ASSUME Keys # {}, MaxVersion \in Nat, IInv, NEW s \in Sessions, NEW r, Begin(s, r),
           r.at \in {"place", "aside", "validate", "status", "delete"},
           r \in Handlers,
           r.at \in {"status", "delete"} => Registered(r.key)
    PROVE  IInv' /\ row' = row
<1>1. TypeOK'
  <2>1. req' \in [Sessions -> Handlers]
    BY DEF IInv, TypeOK, Begin
  <2> QED
    BY <2>1 DEF IInv, TypeOK, Begin
<1>2. HeldToWrite'
  BY DEF IInv, TypeOK, Begin, HeldToWrite, At
<1>3. RowsKnown'
  BY DEF IInv, TypeOK, Begin, RowsKnown, Registered
<1> QED
  BY <1>1, <1>2, <1>3 DEF IInv, Begin

\* A handler ends, and nothing is written.
LEMMA HandlerEnds ==
    ASSUME Keys # {}, MaxVersion \in Nat, IInv, NEW s \in Sessions, End(s), row' = row, TypeOK'
    PROVE  IInv'
<1>1. \A q \in Sessions : req'[q] = IF q = s THEN Idle ELSE req[q]
  BY DEF End, IInv, TypeOK
<1>2. HeldToWrite'
  BY <1>1, IdleTyped DEF IInv, HeldToWrite, At, End
<1>3. RowsKnown'
  BY <1>1, IdleTyped DEF IInv, RowsKnown, Registered
<1> QED
  BY <1>2, <1>3 DEF IInv

\* A handler goes on to another statement, and no row is written.
LEMMA HandlerContinues ==
    ASSUME IInv, NEW s \in Sessions, NEW r, req' = [req EXCEPT ![s] = r], TypeOK', row' = row,
           lock' = lock \/ lock = NoSession,
           r.at = "write" => lock' = s /\ r.version >= row[r.key].version,
           r.at \in {"smoke", "register", "write"} => r.version # 0,
           r.at \notin {"status", "delete"}, NoSession \notin Sessions
    PROVE  IInv'
<1>1. \A q \in Sessions : req'[q] = IF q = s THEN r ELSE req[q]
  BY DEF IInv, TypeOK
<1>2. HeldToWrite'
  BY <1>1 DEF IInv, HeldToWrite, At
<1>3. RowsKnown'
  BY <1>1 DEF IInv, RowsKnown, Registered
<1> QED
  BY <1>2, <1>3 DEF IInv

\* What each step keeps, and the rows it may write.
LEMMA ApplySteps ==
    ASSUME Keys # {}, MaxVersion \in Nat, NoSession \notin Sessions, IInv, NEW s \in Sessions,
           MoveAside(s) \/ PlaceFiles(s) \/ Validate(s) \/ SmokeLoad(s) \/ LockForApply(s)
    PROVE  IInv' /\ row' = row
<1>1. TypeOK'
  <2>1. CASE MoveAside(s)
    <3>1. [req[s] EXCEPT !.saved = disk[req[s].key], !.at = "swap"] \in Handlers
      BY DEF IInv, TypeOK, Handlers
    <3>2. req' \in [Sessions -> Handlers] /\ disk' \in [Keys -> 0..MaxVersion]
      BY <2>1, <3>1, IdleTyped DEF IInv, TypeOK, MoveAside
    <3> QED
      BY <2>1, <3>2 DEF IInv, TypeOK, MoveAside
  <2>2. CASE PlaceFiles(s)
    <3>1. [req[s] EXCEPT !.at = "validate"] \in Handlers /\ req[s].version \in 0..MaxVersion
      BY DEF IInv, TypeOK, Handlers
    <3>2. req' \in [Sessions -> Handlers] /\ disk' \in [Keys -> 0..MaxVersion]
      BY <2>2, <3>1 DEF IInv, TypeOK, PlaceFiles, Goto
    <3> QED
      BY <2>2, <3>2 DEF IInv, TypeOK, PlaceFiles
  <2>3. CASE Validate(s)
    <3>1. [req[s] EXCEPT !.version = disk[req[s].key], !.at = "smoke"] \in Handlers
      BY DEF IInv, TypeOK, Handlers
    <3>2. req' \in [Sessions -> Handlers]
      BY <2>3, <3>1 DEF IInv, TypeOK, Validate
    <3> QED
      BY <2>3, <3>2 DEF IInv, TypeOK, Validate
  <2>4. CASE SmokeLoad(s)
    <3>1. [req[s] EXCEPT !.at = "register"] \in Handlers
      BY DEF IInv, TypeOK, Handlers
    <3>2. req' \in [Sessions -> Handlers]
      BY <2>4, <3>1 DEF IInv, TypeOK, SmokeLoad, Goto
    <3> QED
      BY <2>4, <3>2 DEF IInv, TypeOK, SmokeLoad
  <2>5. CASE LockForApply(s)
    <3>1. row[req[s].key].version \in 0..MaxVersion
      BY IdleTyped DEF IInv, TypeOK, NoRow, Handlers
    <3>2. [req[s] EXCEPT !.seen = row[req[s].key].version, !.at = "write"] \in Handlers
      BY <3>1 DEF IInv, TypeOK, Handlers
    <3>3. req' \in [Sessions -> Handlers]
      BY <2>5, <3>2 DEF IInv, TypeOK, LockForApply
    <3> QED
      BY <2>5, <3>3 DEF IInv, TypeOK, LockForApply
  <2> QED
    BY <2>1, <2>2, <2>3, <2>4, <2>5
<1>2. /\ row' = row /\ (lock' = lock \/ lock = NoSession)
      /\ req' = [req EXCEPT ![s] = req'[s]]
      /\ req'[s].at \in {"swap", "validate", "smoke", "register", "write"}
      /\ req'[s].at = "write" => lock' = s /\ req'[s].version >= row[req'[s].key].version
      /\ req'[s].at \in {"smoke", "register", "write"} => req'[s].version # 0
  <2>1. CASE MoveAside(s)
    BY <2>1 DEF IInv, TypeOK, Handlers, MoveAside
  <2>2. CASE PlaceFiles(s)
    BY <2>2 DEF IInv, TypeOK, PlaceFiles, Goto
  <2>3. CASE Validate(s)
    BY <2>3 DEF IInv, TypeOK, Handlers, Validate, Applicable
  <2>4. CASE SmokeLoad(s)
    BY <2>4 DEF IInv, TypeOK, SmokeLoad, Goto, RowsKnown, At
  <2>5. CASE LockForApply(s)
    BY <2>5 DEF IInv, TypeOK, Handlers, LockForApply, RowsKnown, At
  <2> QED
    BY <2>1, <2>2, <2>3, <2>4, <2>5
<1> QED
  BY <1>1, <1>2, HandlerContinues

LEMMA RegisterSteps ==
    ASSUME Keys # {}, MaxVersion \in Nat, NoSession \notin Sessions, IInv, NEW s \in Sessions, Register(s)
    PROVE  IInv' /\ VersionRise
<1> DEFINE k == req[s].key
<1>1. /\ k \in Keys /\ req[s].version \in Versions /\ lock = s /\ lock' = NoSession
      /\ req[s].version >= row[k].version /\ row' = [row EXCEPT ![k] = Upserted(s)]
  BY DEF IInv, TypeOK, Handlers, Register, At, HeldToWrite, RowsKnown, Versions
<1>2. Upserted(s) \in [version: Versions, status: {"INSTALLED", "ENABLED", "DISABLED"}]
  BY <1>1 DEF Register, Registered, Upserted, IInv, TypeOK, NoRow
<1>3. \A q \in Sessions :
        req'[q] = IF q = s THEN (IF req[s].op \in {"import", "install"} THEN [req[s] EXCEPT !.at = "load"] ELSE Idle) ELSE req[q]
  BY DEF IInv, TypeOK, Register
<1>4. req'[s].at \in {"load", "idle"}
  BY <1>3, IdleTyped DEF IInv, TypeOK, Handlers
<1>5. TypeOK'
  <2>1. row' \in [Keys -> [version: Versions, status: {"INSTALLED", "ENABLED", "DISABLED"}] \cup {NoRow}]
    BY <1>1, <1>2 DEF IInv, TypeOK
  <2>2. [req[s] EXCEPT !.at = "load"] \in Handlers
    BY DEF IInv, TypeOK, Handlers
  <2>3. req' \in [Sessions -> Handlers]
    BY <1>3, <2>2, IdleTyped DEF IInv, TypeOK, Register
  <2> QED
    BY <2>1, <2>3 DEF IInv, TypeOK, Register
<1>6. HeldToWrite'
  BY <1>1, <1>3, <1>4 DEF IInv, HeldToWrite, At
<1>7. RowsKnown'
  <2>1. \A j \in Keys : Registered(j) => row'[j].version # 0
    BY <1>1, <1>2 DEF IInv, TypeOK, Registered, Versions
  <2> QED
    BY <2>1, <1>3, <1>4 DEF IInv, TypeOK, Handlers, RowsKnown, Registered
<1>8. VersionRise
  <2>1. Upserted(s).version = req[s].version
    BY DEF Upserted
  <2> QED
    BY <1>1, <1>2, <2>1, IdleTyped DEF VersionRise, Registered, IInv, TypeOK, NoRow, Versions
<1> QED
  BY <1>5, <1>6, <1>7, <1>8 DEF IInv

LEMMA LastSteps ==
    ASSUME Keys # {}, MaxVersion \in Nat, IInv, NEW s \in Sessions,
           FailApply(s) \/ Load(s) \/ Refuse(s) \/ Erase(s)
    PROVE  IInv' /\ row' = row
<1>1. End(s) /\ row' = row /\ UNCHANGED <<overlapped, crashed>>
  BY DEF FailApply, Load, Refuse, Erase
<1>2. req' \in [Sessions -> Handlers] /\ lock' \in Sessions \cup {NoSession}
  BY <1>1, IdleTyped DEF IInv, TypeOK, End
<1>3. disk' \in [Keys -> 0..MaxVersion] /\ loaded' \in [Keys -> 0..MaxVersion]
  <2>1. req[s].key \in Keys /\ req[s].version \in 0..MaxVersion /\ req[s].saved \in 0..MaxVersion /\ 0 \in 0..MaxVersion
    BY IdleTyped DEF IInv, TypeOK, Handlers
  <2> QED
    BY <2>1 DEF IInv, TypeOK, FailApply, Load, Refuse, Erase
<1>4. TypeOK'
  BY <1>1, <1>2, <1>3 DEF IInv, TypeOK
<1> QED
  BY <1>1, <1>4, HandlerEnds

LEMMA StatusSteps ==
    ASSUME Keys # {}, MaxVersion \in Nat, IInv, NEW s \in Sessions, CommitStatus(s)
    PROVE  IInv' /\ \A k \in Keys : row'[k].version = row[k].version
<1> DEFINE k == req[s].key
           status == IF req[s].op = "enable" THEN "ENABLED" ELSE "DISABLED"
<1>1. k \in Keys /\ row[k] \in [version: Versions, status: {"INSTALLED", "ENABLED", "DISABLED"}]
  BY DEF CommitStatus, IInv, TypeOK, Handlers, RowsKnown, At, Registered, NoRow
<1>2. row' = [row EXCEPT ![k] = [row[k] EXCEPT !.status = status]]
  BY <1>1 DEF CommitStatus, IInv, TypeOK
<1>3. \A j \in Keys : row'[j].version = row[j].version
  BY <1>1, <1>2 DEF IInv, TypeOK
<1>4. \A q \in Sessions : req'[q] = IF q = s THEN Idle ELSE req[q]
  BY DEF CommitStatus, End, IInv, TypeOK
<1>5. TypeOK'
  <2>1. row' \in [Keys -> [version: Versions, status: {"INSTALLED", "ENABLED", "DISABLED"}] \cup {NoRow}]
    <3>1. [row[k] EXCEPT !.status = status] \in [version: Versions, status: {"INSTALLED", "ENABLED", "DISABLED"}]
      BY <1>1
    <3> HIDE DEF k, status
    <3> QED
      BY <1>2, <3>1 DEF IInv, TypeOK
  <2>2. req' \in [Sessions -> Handlers] /\ lock' \in Sessions \cup {NoSession}
    BY IdleTyped DEF IInv, TypeOK, CommitStatus, End
  <2> QED
    BY <2>1, <2>2 DEF IInv, TypeOK, CommitStatus
<1>6. HeldToWrite'
  <2>1. \A q \in Sessions : req[q].key \in Keys
    BY DEF IInv, TypeOK, Handlers
  <2> QED
    BY <1>3, <1>4, <2>1, IdleTyped DEF IInv, HeldToWrite, At, CommitStatus, End
<1>7. RowsKnown'
  <2>1. \A q \in Sessions : req[q].key \in Keys
    BY DEF IInv, TypeOK, Handlers
  <2> QED
    BY <1>3, <1>4, <2>1, IdleTyped DEF IInv, RowsKnown, Registered
<1> QED
  BY <1>3, <1>5, <1>6, <1>7 DEF IInv

LEMMA RemoveSteps ==
    ASSUME Keys # {}, MaxVersion \in Nat, NoSession \notin Sessions, IInv, NEW s \in Sessions, RemoveRecords(s)
    PROVE  IInv' /\ VersionRise
<1> DEFINE k == req[s].key
<1>1. k \in Keys /\ row' = [row EXCEPT ![k] = NoRow] /\ lock = NoSession /\ lock' = lock
  BY DEF RemoveRecords, IInv, TypeOK, Handlers
<1>2. \A q \in Sessions :
        /\ req'[q] \in Handlers
        /\ req'[q].key = req[q].key /\ req'[q].version = req[q].version
        /\ req'[q].at = IF q = s THEN "unload" ELSE req[q].at
        /\ q # s => req'[q].live = (req[q].live /\ req[q].key # k)
  <2> TAKE q \in Sessions
  <2>1. CASE q = s
    <3>1. req'[q] = [req[s] EXCEPT !.at = "unload"] /\ req[s] \in Handlers
      BY <2>1 DEF RemoveRecords, IInv, TypeOK
    <3> QED
      BY <2>1, <3>1 DEF Handlers
  <2>2. CASE q # s
    <3>1. req'[q] = (IF req[q].key = k THEN [req[q] EXCEPT !.live = FALSE] ELSE req[q]) /\ req[q] \in Handlers
      BY <2>2 DEF RemoveRecords, IInv, TypeOK
    <3>2. CASE req[q].key = k
      BY <2>2, <3>1, <3>2 DEF Handlers
    <3>3. CASE req[q].key # k
      BY <2>2, <3>1, <3>3 DEF Handlers
    <3> QED
      BY <3>2, <3>3
  <2> QED
    BY <2>1, <2>2
<1>3. TypeOK'
  <2>1. DOMAIN req' = Sessions /\ req' = [q \in Sessions |-> req'[q]]
    BY DEF RemoveRecords
  <2>2. req' \in [Sessions -> Handlers]
    BY <1>2, <2>1
  <2>3. row' \in [Keys -> [version: Versions, status: {"INSTALLED", "ENABLED", "DISABLED"}] \cup {NoRow}]
    BY <1>1 DEF IInv, TypeOK
  <2> QED
    BY <2>2, <2>3 DEF IInv, TypeOK, RemoveRecords
<1>4. HeldToWrite'
  BY <1>1, <1>2 DEF IInv, HeldToWrite, At
<1>5. RowsKnown'
  BY <1>1, <1>2 DEF IInv, TypeOK, RowsKnown, Registered, Handlers
<1>6. VersionRise
  BY <1>1, IdleTyped DEF VersionRise, Registered, NoRow, IInv, TypeOK
<1> QED
  BY <1>3, <1>4, <1>5, <1>6 DEF IInv

LEMMA UnloadSteps ==
    ASSUME Keys # {}, MaxVersion \in Nat, NoSession \notin Sessions, IInv, NEW s \in Sessions, Unload(s)
    PROVE  IInv' /\ row' = row
<1>1. req[s].key \in Keys /\ 0 \in 0..MaxVersion /\ row' = row /\ UNCHANGED <<disk, overlapped, crashed>>
  BY IdleTyped DEF IInv, TypeOK, Handlers, Unload
<1>2. loaded' \in [Keys -> 0..MaxVersion]
  BY <1>1 DEF IInv, TypeOK, Unload
<1>3. CASE req[s].files
  <2>1. [req[s] EXCEPT !.at = "erase"] \in Handlers /\ [req[s] EXCEPT !.at = "erase"].at = "erase"
    BY DEF IInv, TypeOK, Handlers
  <2>2. req' = [req EXCEPT ![s] = [req[s] EXCEPT !.at = "erase"]] /\ lock' = lock
    BY <1>3 DEF Unload, Goto, IInv, TypeOK
  <2>3. TypeOK'
    BY <1>1, <1>2, <2>1, <2>2 DEF IInv, TypeOK
  <2> QED
    BY <1>1, <2>1, <2>2, <2>3, HandlerContinues
<1>4. CASE ~req[s].files
  <2>1. End(s)
    BY <1>4 DEF Unload
  <2>2. req' \in [Sessions -> Handlers] /\ lock' \in Sessions \cup {NoSession}
    BY <2>1, IdleTyped DEF IInv, TypeOK, End
  <2>3. TypeOK'
    BY <1>1, <1>2, <2>2 DEF IInv, TypeOK
  <2> QED
    BY <1>1, <2>1, <2>3, HandlerEnds
<1> QED
  BY <1>3, <1>4

LEMMA AskSteps ==
    ASSUME Keys # {}, MaxVersion \in Nat, IInv, NEW s \in Sessions, NEW k \in Keys,
           \/ AskEnable(s, k) \/ AskDisable(s, k)
           \/ \E op \in {"install", "apply"} : AskApply(s, k, op)
           \/ \E v \in Versions : AskImport(s, k, v) \/ AskUpgrade(s, k, v)
           \/ \E files \in BOOLEAN : AskUninstall(s, k, files)
    PROVE  IInv' /\ row' = row
<1>1. Versions \subseteq 0..MaxVersion /\ Idle \in Handlers
  BY IdleTyped
<1>2. CASE AskEnable(s, k)
  BY <1>1, <1>2, HandlerBegins DEF AskEnable, Handlers
<1>3. CASE AskDisable(s, k)
  <2>1. Registered(k)
    BY <1>3 DEF AskDisable, Enabled, Registered, IInv, TypeOK, NoRow, Versions
  <2> QED
    BY <1>1, <1>3, <2>1, HandlerBegins DEF AskDisable, Handlers
<1>4. ASSUME NEW op \in {"install", "apply"}, AskApply(s, k, op) PROVE IInv' /\ row' = row
  BY <1>1, <1>4, HandlerBegins DEF AskApply, Handlers
<1>5. ASSUME NEW v \in Versions, AskImport(s, k, v) PROVE IInv' /\ row' = row
  BY <1>1, <1>5, HandlerBegins DEF AskImport, Handlers
<1>6. ASSUME NEW v \in Versions, AskUpgrade(s, k, v) PROVE IInv' /\ row' = row
  BY <1>1, <1>6, HandlerBegins DEF AskUpgrade, Handlers
<1>7. ASSUME NEW files \in BOOLEAN, AskUninstall(s, k, files) PROVE IInv' /\ row' = row
  <2>1. (files /\ disk[k] # 0) \in BOOLEAN
    OBVIOUS
  <2> QED
    BY <1>1, <1>7, <2>1, HandlerBegins DEF AskUninstall, Handlers
<1> QED
  BY <1>2, <1>3, <1>4, <1>5, <1>6, <1>7

LEMMA RestartSteps ==
    ASSUME Keys # {}, MaxVersion \in Nat, IInv, Restart
    PROVE  IInv' /\ row' = row
<1>1. loaded' \in [Keys -> 0..MaxVersion]
  BY IdleTyped DEF Restart, IInv, TypeOK
<1>2. TypeOK'
  <2>1. crashed' \in BOOLEAN
    BY DEF Restart, IInv, TypeOK
  <2> QED
    BY <1>1, <2>1, IdleTyped DEF Restart, IInv, TypeOK
<1>3. \A q \in Sessions : req'[q].at = "idle"
  BY IdleTyped DEF Restart
<1>4. HeldToWrite' /\ RowsKnown'
  BY <1>3 DEF HeldToWrite, RowsKnown, At
<1> QED
  BY <1>2, <1>4 DEF IInv, Restart

LEMMA SameRows == ASSUME row' = row, TypeOK PROVE VersionRise
  BY DEF VersionRise, TypeOK, NoRow, Versions

LEMMA LifecycleSteps ==
    ASSUME Keys # {}, MaxVersion \in Nat, NoSession \notin Sessions, IInv, [Next]_vars
    PROVE  IInv' /\ VersionRise
<1>1. TypeOK
  BY DEF IInv
<1>2. ASSUME NEW s \in Sessions,
             MoveAside(s) \/ PlaceFiles(s) \/ Validate(s) \/ SmokeLoad(s) \/ LockForApply(s)
      PROVE  IInv' /\ VersionRise
  BY <1>1, <1>2, ApplySteps, SameRows
<1>3. ASSUME NEW s \in Sessions, FailApply(s) \/ Load(s) \/ Refuse(s) \/ Erase(s) PROVE IInv' /\ VersionRise
  BY <1>1, <1>3, LastSteps, SameRows
<1>4. ASSUME NEW s \in Sessions, CommitStatus(s) PROVE IInv' /\ VersionRise
  BY <1>1, <1>4, StatusSteps DEF VersionRise, TypeOK, NoRow, Versions
<1>5. ASSUME NEW s \in Sessions, Unload(s) PROVE IInv' /\ VersionRise
  BY <1>1, <1>5, UnloadSteps, SameRows
<1>6. ASSUME NEW s \in Sessions, NEW k \in Keys,
             \/ AskEnable(s, k) \/ AskDisable(s, k)
             \/ \E op \in {"install", "apply"} : AskApply(s, k, op)
             \/ \E v \in Versions : AskImport(s, k, v) \/ AskUpgrade(s, k, v)
             \/ \E files \in BOOLEAN : AskUninstall(s, k, files)
      PROVE  IInv' /\ VersionRise
  BY <1>1, <1>6, AskSteps, SameRows
<1>7. CASE Restart
  BY <1>1, <1>7, RestartSteps, SameRows
<1>8. CASE UNCHANGED vars
  <2>1. IInv'
    BY <1>8 DEF vars, IInv, TypeOK, HeldToWrite, RowsKnown, Registered, At
  <2> QED
    BY <1>1, <1>8, <2>1, SameRows DEF vars
<1> QED
  BY <1>2, <1>3, <1>4, <1>5, <1>6, <1>7, <1>8, RegisterSteps, RemoveSteps DEF Next

\* What is registered never goes back to an older version (PluginService's
\* _register under the advisory lock, whatever else goes on).
THEOREM RegisteredVersionsRise ==
    ASSUME Keys # {}, MaxVersion \in Nat, NoSession \notin Sessions
    PROVE  Spec => VersionsRise
<1>1. Init => IInv
  BY StartsConsistent
<1>2. IInv /\ [Next]_vars => IInv' /\ VersionRise
  BY LifecycleSteps
<1> QED
  BY <1>1, <1>2, PTL DEF Spec, VersionsRise
=============================================================================
