------------------------------ MODULE AfmUdb ------------------------------
(***************************************************************************)
(* The database of the applications, afm-udb.c and unit-fs.c, as           *)
(* afm-system-daemon uses it: created by init of afm-binding.c, scanned    *)
(* again on SIGHUP.                                                        *)
(*                                                                         *)
(* The installer changes the unit files while the daemon reads them one by *)
(* one, then sends SIGHUP.  The signal is blocked while its handler runs   *)
(* (in the thread that runs it: an overlap in another thread of the binder *)
(* is left out), and one is kept pending.  Its handler is installed after  *)
(* the first scan: before, the signal kills the process, that systemd      *)
(* starts again.                                                           *)
(*                                                                         *)
(* A unit file is its kind: none (absent, or without the X-AFM-id field),  *)
(* of a hidden or of a visible application.  Public and private data are   *)
(* the two sides of one entry.                                             *)
(***************************************************************************)
EXTENDS Naturals, Sequences, FiniteSetsExt

CONSTANTS
    UnitFiles,      \* the names of the service files of prefix "afm-"
    InitialDisks,   \* the unit files when the daemon starts
    MaxFails,       \* bound: number of errors of reading, allocating or signaling
    Changes,        \* the changes that the installer can do: a file and its new kind
    MaxChanges      \* bound: number of changes of the unit files

ASSUME FailsAssumption == MaxFails \in Nat

Kinds == {"none", "hidden", "visible"}
Listable == {"hidden", "visible"}

ASSUME DisksAssumption == InitialDisks \subseteq [UnitFiles -> Kinds]
ASSUME ChangesAssumption == Changes \subseteq UnitFiles \X Kinds /\ MaxChanges \in Nat

VARIABLES
    disk,       \* the unit files
    changed,    \* has the installer changed them without having signaled?
    changes,    \* number of changes
    hup,        \* is SIGHUP pending?
    serving,    \* is the signal handler installed?
    scan,       \* the scan in progress: the names to visit and the applications
    db,         \* afudb->applications: the applications, in the order of the scan
    fails,      \* number of errors
    stale       \* history: has the last update failed or missed a file, or was
                \* no signal sent for a change it has not seen?

udbVars == <<disk, changed, changes, hup, serving, scan, db, fails, stale>>

NotScanning == [on |-> FALSE, todo |-> {}, apps |-> <<>>, missed |-> FALSE]
NewScan == [NotScanning EXCEPT !.on = TRUE, !.todo = UnitFiles]

Apps == [unit : UnitFiles, kind : Listable]

UdbTypeOK ==
    /\ disk \in [UnitFiles -> Kinds]
    /\ changed \in BOOLEAN
    /\ changes \in 0..MaxChanges
    /\ hup \in BOOLEAN
    /\ serving \in BOOLEAN
    /\ scan.on \in BOOLEAN /\ scan.todo \subseteq UnitFiles /\ scan.apps \in Seq(Apps)
    /\ scan.missed \in BOOLEAN
    /\ db \in Seq(Apps)
    /\ fails \in 0..MaxFails
    /\ stale \in BOOLEAN

UdbInit ==
    /\ disk \in InitialDisks
    /\ changed = FALSE
    /\ changes = 0
    /\ hup = FALSE
    /\ serving = FALSE
    /\ scan = NewScan
    /\ db = <<>>
    /\ fails = 0
    /\ stale = FALSE

----------------------------------------------------------------------------
(* The installer. *)

Change ==
    /\ changes < MaxChanges
    /\ changes' = changes + 1
    /\ \E c \in Changes : disk' = [disk EXCEPT ![c[1]] = c[2]]
    /\ changed' = TRUE
    /\ UNCHANGED <<hup, serving, scan, db, fails, stale>>

\* sighup_afm_main.  The process that has no handler yet dies of it and is
\* started again.
Signal ==
    /\ changed
    /\ changed' = FALSE
    /\ IF serving THEN hup' = TRUE /\ UNCHANGED scan
                  ELSE scan' = NewScan /\ UNCHANGED hup
    /\ UNCHANGED <<disk, changes, serving, db, fails, stale>>

\* sighup_afm_main fails to read /proc and sends nothing, which nobody is told.
SignalFails ==
    /\ changed
    /\ changed' = FALSE
    /\ fails < MaxFails
    /\ fails' = fails + 1
    /\ stale' = TRUE
    /\ scan' = [scan EXCEPT !.missed = scan.on]
    /\ UNCHANGED <<disk, changes, hup, serving, db>>

----------------------------------------------------------------------------
(* The scan. *)

\* onsighup enters afm_udb_update.
UpdateBegin ==
    /\ serving /\ hup /\ ~scan.on
    /\ hup' = FALSE
    /\ scan' = NewScan
    /\ UNCHANGED <<disk, changed, changes, serving, db, fails, stale>>

\* addunit: a file that has no id is skipped.
AddUnit(apps, u) ==
    IF disk[u] \in Listable THEN Append(apps, [unit |-> u, kind |-> disk[u]]) ELSE apps

\* update_cb: the file that is not there any more is skipped.
UpdateCb(u) == [scan EXCEPT !.todo = @ \ {u}, !.apps = AddUnit(@, u)]

\* units_fs_list gives the next entry of the directory.  The errors of reading
\* a file or of adding its application are ignored.
ScanEntry ==
    /\ scan.on
    /\ \E u \in scan.todo :
          \/ /\ scan' = UpdateCb(u)
             /\ UNCHANGED fails
          \/ /\ fails < MaxFails
             /\ fails' = fails + 1
             /\ scan' = [scan EXCEPT !.todo = @ \ {u}, !.missed = TRUE]
    /\ UNCHANGED <<disk, changed, changes, hup, serving, db, stale>>

UpdateEndMutant ==
    /\ scan.on /\ scan.todo = {}
    /\ db' = IF db = <<>> THEN scan.apps ELSE db
    /\ stale' = scan.missed
    /\ serving' = TRUE
    /\ scan' = NotScanning
    /\ UNCHANGED <<disk, changed, changes, hup, fails>>

\* The result is committed: the new applications replace the old ones.  At
\* creation the handler of the signal is installed just after.
UpdateEnd ==
    /\ scan.on /\ scan.todo = {}
    /\ db' = scan.apps
    /\ stale' = scan.missed
    /\ serving' = TRUE
    /\ scan' = NotScanning
    /\ UNCHANGED <<disk, changed, changes, hup, fails>>

UpdateFailMutant ==
    /\ scan.on
    /\ fails < MaxFails
    /\ fails' = fails + 1
    /\ scan' = NotScanning
    /\ stale' = serving
    /\ UNCHANGED <<disk, changed, changes, hup, serving, db>>

\* An error keeps the former applications; at creation the daemon stops, and is
\* started again.
UpdateFail ==
    /\ scan.on
    /\ fails < MaxFails
    /\ fails' = fails + 1
    /\ scan' = IF serving THEN NotScanning ELSE NewScan
    /\ stale' = serving
    /\ UNCHANGED <<disk, changed, changes, hup, serving, db>>

UdbNext ==
    \/ Change \/ Signal \/ SignalFails
    \/ UpdateBegin \/ ScanEntry \/ UpdateEnd \/ UpdateFail

\* The installer ends its work by the signal; the signal handler runs to its end.
UdbSpec ==
    /\ UdbInit
    /\ [][UdbNext]_udbVars
    /\ WF_udbVars(Signal \/ SignalFails)
    /\ WF_udbVars(UpdateBegin)
    /\ WF_udbVars(ScanEntry \/ UpdateEnd)

----------------------------------------------------------------------------
(* Queries. *)

\* afm_udb_applications_private and afm_udb_applications_public
Applications(all) == IF all THEN db ELSE SelectSeq(db, LAMBDA a : a.kind = "visible")

Settled == serving /\ ~changed /\ ~hup /\ ~scan.on

\* The database is what the unit files tell.
Fresh == Range(db) = {[unit |-> u, kind |-> disk[u]] : u \in {v \in UnitFiles : disk[v] \in Listable}}

\* The database is what the unit files tell, once the daemon has treated the
\* last signal of the installer, unless an error has hit that update or that signal:
\* no change is lost between the scan of a directory that changes, the pending
\* signal and the installation of the handler (afm_udb_update, onsighup, init).
DatabaseFresh == Settled /\ ~stale => Fresh

\* Every change of the unit files is eventually in the database, in spite of the changes
\* that follow, of a start that the signal kills and of the errors of the past, unless one
\* more error comes: the update that fails keeps the former applications and is not retried,
\* it waits for the next signal.  In any case the daemon comes back to serve.
ChangesSeen == \A n \in 0..MaxFails : changed /\ fails = n ~> Settled /\ (Fresh \/ fails > n)
=============================================================================
