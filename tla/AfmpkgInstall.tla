--------------------------- MODULE AfmpkgInstall ---------------------------
(***************************************************************************)
(* Installation and removal of the packages of a request: afmpkg_process   *)
(* of afmpkg.c with the operations of afmpkg-std.c and unit-oper.c, run by *)
(* the threads of afmpkg-installerd.                                       *)
(*                                                                         *)
(* The threads share the unit files, the wants links and what the security *)
(* manager holds; they have no lock.  Every file that a thread checks,     *)
(* writes or removes is a step, so the steps of two requests are           *)
(* interleaved.                                                            *)
(*                                                                         *)
(* A unit is its path.  The content of its file is abstracted to the       *)
(* package it was generated for.  A failing call is a choice, allowed by   *)
(* Fallible. The stop of the running instances of a unit, before its file  *)
(* is removed, does not touch the state kept here and its result is        *)
(* ignored by the code.                                                    *)
(***************************************************************************)
EXTENDS Integers, Sequences, FiniteSets, SequencesExt

CONSTANTS
    Threads,        \* the threads serving the requests
    Packages,       \* the directories that hold a manifest
    Units,          \* the paths of the unit files
    Entries,        \* the paths of the files of the requests
    Under,          \* Under[p]: the entries below the directory of p
    UnitsOf,        \* UnitsOf[p]: the units generated for p, in order
    Wanted,         \* the units that have a wanted_by
    RequestsOf,     \* RequestsOf[t]: the sets of entries t can be asked for
    Fallible,       \* the calls that may fail
    MaxJobs,        \* bound: number of requests processed
    None            \* no package, no file, no handle

Calls == {"detect", "manifest", "meta", "begin", "prepare", "security", "units",
          "write", "link", "unlink", "commit", "default"}

ASSUME PackagesAssumption == IsFiniteSet(Packages)
ASSUME UnderAssumption == Under \in [Packages -> SUBSET Entries]
ASSUME UnitsAssumption == UnitsOf \in [Packages -> Seq(Units)] /\ Wanted \subseteq Units
ASSUME RequestsAssumption == RequestsOf \in [Threads -> SUBSET SUBSET Entries]
ASSUME FallibleAssumption == Fallible \subseteq Calls
ASSUME JobsAssumption == MaxJobs \in Nat
ASSUME NoneAssumption == None \notin Packages /\ \A E \in SUBSET Entries : E # None
\* Directories are nested or apart.
ASSUME TreeAssumption ==
    \A p, q \in Packages :
        \/ Under[p] \cap Under[q] = {}
        \/ Under[p] \subseteq Under[q]
        \/ Under[q] \subseteq Under[p]

Modes == {"Install", "Uninstall"}
Default == <<None, "default">>      \* the label of files that no package holds
Unlabelled == <<None, "none">>
Labels == {Default, Unlabelled} \cup (Packages \X {"typed", "id"})

VARIABLES
    files,      \* the package each unit file was written for
    links,      \* the existing wants links
    lsm,        \* the applications known of the security manager
    label,      \* the security label of the entries
    jobs,       \* number of requests started
    pc,         \* where each thread is
    mode,       \* state->mode
    asked,      \* the entries of the request, apkg->files as received
    todo,       \* the package roots still to process, the current one first
    left,       \* the entries still in the tree, state->files
    idx,        \* index of the current unit
    handle,     \* state->slmhndl: the entries tagged since begin
    ok,         \* rc >= 0
    before,     \* history: the unit files when the package was begun
    kept        \* history: the units of the package that a failing unlink kept

shared == <<files, links, lsm, label>>
history == <<before, kept>>
vars == <<files, links, lsm, label, jobs, pc, mode, asked, todo, left, idx,
          handle, ok, before, kept>>

----------------------------------------------------------------------------
(* Reading the state of a thread. *)

Outcomes(call) == IF call \in Fallible THEN BOOLEAN ELSE {TRUE}

Pkg(t) == Head(todo[t])
Own(t) == Under[Pkg(t)] \cap left[t]
NrUnits(t) == Len(UnitsOf[Pkg(t)])
Unit(t) == UnitsOf[Pkg(t)][idx[t]]

Goto(t, place) == pc' = [pc EXCEPT ![t] = place]
SetOk(t, b) == ok' = [ok EXCEPT ![t] = b]

\* access(path, F_OK) follows the wants link, whose target is the unit file.
FileExists(u) == files[u] # None
LinkResolves(u) == u \in links /\ FileExists(u)

\* The places of a thread: on a unit, in a package, or elsewhere.
UnitPlaces == {"check", "write", "link", "rollback", "remove"}
PackagePlaces == UnitPlaces \cup
    {"manifest", "meta", "begin", "prepare", "security", "units", "setdown", "end", "leave"}
Places == PackagePlaces \cup {"idle", "default", "answer"}

TypeOK ==
    /\ files \in [Units -> Packages \cup {None}]
    /\ links \subseteq Units
    /\ lsm \subseteq Packages
    /\ label \in [Entries -> Labels]
    /\ jobs \in 0..MaxJobs
    /\ pc \in [Threads -> Places]
    /\ mode \in [Threads -> Modes]
    /\ asked \in [Threads -> SUBSET Entries]
    /\ todo \in [Threads -> Seq(Packages)]
    /\ left \in [Threads -> SUBSET Entries]
    /\ handle \in [Threads -> {None} \cup SUBSET Entries]
    /\ ok \in [Threads -> BOOLEAN]
    /\ before \in [Threads -> [Units -> Packages \cup {None}]]
    /\ kept \in [Threads -> SUBSET Units]
    /\ idx \in [Threads -> Nat]
    /\ \A t \in Threads : pc[t] \in UnitPlaces => idx[t] \in 1..NrUnits(t)

Init ==
    /\ files = [u \in Units |-> None]
    /\ links = {}
    /\ lsm = {}
    /\ label = [e \in Entries |-> Unlabelled]
    /\ jobs = 0
    /\ pc = [t \in Threads |-> "idle"]
    /\ mode = [t \in Threads |-> "Install"]
    /\ asked = [t \in Threads |-> {}]
    /\ todo = [t \in Threads |-> <<>>]
    /\ left = [t \in Threads |-> {}]
    /\ idx = [t \in Threads |-> 1]
    /\ handle = [t \in Threads |-> None]
    /\ ok = [t \in Threads |-> TRUE]
    /\ before = [t \in Threads |-> files]
    /\ kept = [t \in Threads |-> {}]

----------------------------------------------------------------------------
(* afmpkg_process: the roots are detected once, embedded before embedding.   *)

Roots(S) == {p \in Packages : Under[p] # {} /\ Under[p] \subseteq S}

DetectOrdersMutant(S) ==
    {s \in SetToSeqs(Roots(S)) :
        \A i, j \in 1..Len(s) : i < j => ~(Under[s[i]] \subseteq Under[s[j]])}

DetectOrders(S) ==
    {s \in SetToSeqs(Roots(S)) :
        \A i, j \in 1..Len(s) : i < j => ~(Under[s[j]] \subseteq Under[s[i]])}

\* The place of the loop: the next root, or the remaining files.
LoopPlace(roots) == IF roots = <<>> THEN "default" ELSE "manifest"

\* A request starts.  It is answered at once if its root is too long or if the
\* list of the package roots cannot grow.
Start(t) ==
    /\ pc[t] = "idle"
    /\ jobs < MaxJobs
    /\ jobs' = jobs + 1
    /\ \E m \in Modes, S \in RequestsOf[t], b \in Outcomes("detect") :
       \E roots \in DetectOrders(S) :
          /\ mode' = [mode EXCEPT ![t] = m]
          /\ asked' = [asked EXCEPT ![t] = S]
          /\ left' = [left EXCEPT ![t] = S]
          /\ todo' = [todo EXCEPT ![t] = roots]
          /\ SetOk(t, b)
          /\ Goto(t, IF b THEN LoopPlace(roots) ELSE "answer")
    /\ UNCHANGED <<shared, idx, handle, history>>

----------------------------------------------------------------------------
(* process_package: before the units. *)

GetManifest(t) ==
    /\ pc[t] = "manifest"
    /\ \E b \in Outcomes("manifest") :
          SetOk(t, b) /\ Goto(t, IF b THEN "meta" ELSE "leave")
    /\ before' = [before EXCEPT ![t] = files]
    /\ kept' = [kept EXCEPT ![t] = {}]
    /\ UNCHANGED <<shared, jobs, mode, asked, todo, left, idx, handle>>

AddMeta(t) ==
    /\ pc[t] = "meta"
    /\ \E b \in Outcomes("meta") :
          SetOk(t, b) /\ Goto(t, IF b THEN "begin" ELSE "leave")
    /\ UNCHANGED <<shared, jobs, mode, asked, todo, left, idx, handle, history>>

\* begin: a failure of sec_lsm_manager_create or of sec_lsm_manager_set_id
\* leaves no handle; end is called all the same.
Begin(t) ==
    /\ pc[t] = "begin"
    /\ \E b \in Outcomes("begin") :
          /\ SetOk(t, b)
          /\ handle' = [handle EXCEPT ![t] = IF b THEN {} ELSE None]
          /\ Goto(t, CASE ~b -> "end"
                       [] b /\ mode[t] = "Install" -> "prepare"
                       [] b /\ mode[t] = "Uninstall" -> "units")
    /\ UNCHANGED <<shared, jobs, mode, asked, todo, left, idx, history>>

\* install_afmpkg up to setup_files_properties: permissions, contents and
\* properties of the files are checked and computed.
Prepare(t) ==
    /\ pc[t] = "prepare"
    /\ \E b \in Outcomes("prepare") :
          SetOk(t, b) /\ Goto(t, IF b THEN "security" ELSE "end")
    /\ UNCHANGED <<shared, jobs, mode, asked, todo, left, idx, handle, history>>

\* setup_security: all the entries are tried, then the permissions and plugs.
SetupSecurity(t) ==
    /\ pc[t] = "security"
    /\ \E b \in Outcomes("security") :
          /\ SetOk(t, b)
          /\ handle' = [handle EXCEPT ![t] = IF b THEN Own(t) ELSE @]
          /\ Goto(t, IF b THEN "units" ELSE "end")
    /\ UNCHANGED <<shared, jobs, mode, asked, todo, left, idx, history>>

\* unit_process_split: the units are generated, then given to setunits.
ProcessUnits(t) ==
    /\ pc[t] = "units"
    /\ \E b \in Outcomes("units") :
          /\ SetOk(t, b)
          /\ Goto(t, CASE ~b -> "end"
                       [] b /\ mode[t] = "Install" ->
                            IF NrUnits(t) > 0 THEN "check" ELSE "end"
                       [] b /\ mode[t] = "Uninstall" ->
                            IF NrUnits(t) > 0 THEN "remove" ELSE "setdown")
    /\ idx' = [idx EXCEPT ![t] = 1]
    /\ UNCHANGED <<shared, jobs, mode, asked, todo, left, handle, history>>

----------------------------------------------------------------------------
(* install_units: check all, install all, and on error remove all. *)

\* The unit after the current one, or the first one of the next loop.
Advance(t, again, next) ==
    /\ idx' = [idx EXCEPT ![t] = IF @ < NrUnits(t) THEN @ + 1 ELSE 1]
    /\ Goto(t, IF idx[t] < NrUnits(t) THEN again ELSE next)

CheckClearMutant(t) == Unit(t) \in Wanted => ~LinkResolves(Unit(t))

\* unit_oper_check_files(unit, 0)
CheckClear(t) ==
    /\ ~FileExists(Unit(t))
    /\ Unit(t) \in Wanted => ~LinkResolves(Unit(t))

CheckUnit(t) ==
    /\ pc[t] = "check"
    /\ \/ CheckClear(t) /\ Advance(t, "check", "write") /\ UNCHANGED ok
       \/ ~CheckClear(t) /\ SetOk(t, FALSE) /\ Goto(t, "end") /\ UNCHANGED idx
    /\ UNCHANGED <<shared, jobs, mode, asked, todo, left, handle, history>>

RollbackIndexMutant(t) == idx[t]

\* do_uninstall_units restarts from the first unit.
RollbackIndex(t) == 1

GotoRollback(t) ==
    /\ SetOk(t, FALSE)
    /\ idx' = [idx EXCEPT ![t] = RollbackIndex(t)]
    /\ Goto(t, "rollback")

\* rp_file_put; when it fails the file may exist or not.
WriteUnit(t) ==
    /\ pc[t] = "write"
    /\ \/ /\ files' = [files EXCEPT ![Unit(t)] = Pkg(t)]
          /\ \/ Unit(t) \in Wanted /\ Goto(t, "link") /\ UNCHANGED idx
             \/ Unit(t) \notin Wanted /\ Advance(t, "write", "end")
          /\ UNCHANGED ok
       \/ /\ "write" \in Fallible
          /\ files' \in {files, [files EXCEPT ![Unit(t)] = Pkg(t)]}
          /\ GotoRollback(t)
    /\ UNCHANGED <<links, lsm, label, jobs, mode, asked, todo, left, handle, history>>

\* unlink then symlink of the wants link
LinkUnit(t) ==
    /\ pc[t] = "link"
    /\ \/ links' = links \cup {Unit(t)} /\ Advance(t, "write", "end") /\ UNCHANGED ok
       \/ /\ "link" \in Fallible
          /\ links' = links \ {Unit(t)}
          /\ GotoRollback(t)
    /\ UNCHANGED <<files, lsm, label, jobs, mode, asked, todo, left, handle, history>>

\* unit_oper_uninstall of the current unit: fileOk and linkOk are the results
\* of the two unlinks, which fail when there is nothing to remove.
UnlinkUnit(t, fileOk, linkOk) ==
    LET u == Unit(t) IN
    /\ fileOk => FileExists(u)
    /\ linkOk => u \notin Wanted \/ u \in links
    /\ "unlink" \notin Fallible =>
          (FileExists(u) => fileOk) /\ (u \notin Wanted \/ u \in links => linkOk)
    /\ u \notin Wanted => linkOk
    /\ files' = [files EXCEPT ![u] = IF fileOk THEN None ELSE @]
    /\ links' = IF linkOk THEN links \ {u} ELSE links
    /\ kept' = [kept EXCEPT ![t] = IF ~fileOk /\ FileExists(u) THEN @ \cup {u} ELSE @]

RollbackUnit(t) ==
    /\ pc[t] = "rollback"
    /\ \E fileOk, linkOk \in BOOLEAN : UnlinkUnit(t, fileOk, linkOk)
    /\ Advance(t, "rollback", "end")
    /\ UNCHANGED <<lsm, label, jobs, mode, asked, todo, left, handle, ok, before>>

RemoveResultMutant(t, fileOk, linkOk) == ok[t] /\ linkOk

\* do_uninstall_units goes on after an error and returns the last one.
RemoveResult(t, fileOk, linkOk) == ok[t] /\ fileOk /\ linkOk

\* uninstall_units
RemoveUnit(t) ==
    /\ pc[t] = "remove"
    /\ \E fileOk, linkOk \in BOOLEAN :
          LET b == RemoveResult(t, fileOk, linkOk) IN
          /\ UnlinkUnit(t, fileOk, linkOk)
          /\ SetOk(t, b)
          /\ Advance(t, "remove", IF b THEN "setdown" ELSE "end")
    /\ UNCHANGED <<lsm, label, jobs, mode, asked, todo, left, handle, before>>

\* setdown_security: the first error stops the walk, and is not returned.
SetdownSecurity(t) ==
    /\ pc[t] = "setdown"
    /\ \E T \in IF "security" \in Fallible THEN SUBSET Own(t) ELSE {Own(t)} :
          handle' = [handle EXCEPT ![t] = T]
    /\ Goto(t, "end")
    /\ UNCHANGED <<shared, jobs, mode, asked, todo, left, idx, ok, history>>

----------------------------------------------------------------------------
(* end, and the loop on the package roots. *)

\* sec_lsm_manager_install and sec_lsm_manager_uninstall
LsmCommit(t) ==
    /\ lsm' = IF mode[t] = "Install" THEN lsm \cup {Pkg(t)} ELSE lsm \ {Pkg(t)}
    /\ label' = [e \in Entries |->
          IF e \notin handle[t] THEN label[e]
          ELSE <<Pkg(t), IF mode[t] = "Install" THEN "typed" ELSE "id">>]

Commits(t) == handle[t] # None /\ ok[t]

ReleaseMutant(t) == handle' = [handle EXCEPT ![t] = IF ok[t] THEN None ELSE @]

\* sec_lsm_manager_destroy, whatever the status
Release(t) == handle' = [handle EXCEPT ![t] = None]

End(t) ==
    /\ pc[t] = "end"
    /\ \/ /\ Commits(t)
          /\ LsmCommit(t)
          /\ UNCHANGED ok
       \/ /\ Commits(t)
          /\ "commit" \in Fallible
          /\ SetOk(t, FALSE)
          /\ UNCHANGED <<lsm, label>>
       \/ ~Commits(t) /\ UNCHANGED <<lsm, label, ok>>
    /\ Release(t)
    /\ Goto(t, "leave")
    /\ UNCHANGED <<files, links, jobs, mode, asked, todo, left, idx, history>>

\* process_rootpkg destroys the subtree; rootpkgs_for_each stops on an error.
Leave(t) ==
    /\ pc[t] = "leave"
    /\ left' = [left EXCEPT ![t] = @ \ Under[Pkg(t)]]
    /\ todo' = [todo EXCEPT ![t] = Tail(@)]
    /\ Goto(t, IF ok[t] THEN LoopPlace(Tail(todo[t])) ELSE "answer")
    /\ UNCHANGED <<shared, jobs, mode, asked, idx, handle, ok, history>>

\* process_default_tree: begin, tag and end, at installation only
DefaultTree(t) ==
    /\ pc[t] = "default"
    /\ \/ /\ mode[t] = "Install" /\ left[t] # {}
          /\ label' = [e \in Entries |-> IF e \in left[t] THEN Default ELSE label[e]]
          /\ UNCHANGED ok
       \/ /\ mode[t] = "Install" /\ left[t] # {}
          /\ "default" \in Fallible
          /\ SetOk(t, FALSE)
          /\ UNCHANGED label
       \/ /\ mode[t] = "Uninstall" \/ left[t] = {}
          /\ UNCHANGED <<label, ok>>
    /\ Goto(t, "answer")
    /\ UNCHANGED <<files, links, lsm, jobs, mode, asked, todo, left, idx, handle, history>>

\* afmpkg_process returns
Answer(t) ==
    /\ pc[t] = "answer"
    /\ Goto(t, "idle")
    /\ UNCHANGED <<shared, jobs, mode, asked, todo, left, idx, handle, ok, history>>

ThreadNext(t) ==
    \/ Start(t)
    \/ GetManifest(t) \/ AddMeta(t) \/ Begin(t)
    \/ Prepare(t) \/ SetupSecurity(t) \/ ProcessUnits(t)
    \/ CheckUnit(t) \/ WriteUnit(t) \/ LinkUnit(t) \/ RollbackUnit(t)
    \/ RemoveUnit(t) \/ SetdownSecurity(t)
    \/ End(t) \/ Leave(t) \/ DefaultTree(t) \/ Answer(t)

Next == \E t \in Threads : ThreadNext(t)

Spec == Init /\ [][Next]_vars

----------------------------------------------------------------------------
(* Properties. *)

\* The session with the security manager, opened by begin, is destroyed on
\* every path: no handle survives the package it was opened for.
HandleReleased ==
    \A t \in Threads :
        pc[t] \in {"idle", "manifest", "meta", "begin", "leave", "default", "answer"} =>
            handle[t] = None

\* The package of S that holds e most closely, None if there is none.
Holder(S, e) ==
    LET holders == {p \in Roots(S) : e \in Under[p]}
    IN IF holders = {} THEN None
       ELSE CHOOSE p \in holders : \A q \in holders : Under[p] \subseteq Under[q]

Installed(S) ==
    /\ \A p \in Roots(S) :
          /\ p \in lsm
          /\ \A u \in Range(UnitsOf[p]) : files[u] = p /\ (u \in Wanted => u \in links)
    /\ \A e \in S :
          label[e] = IF Holder(S, e) = None THEN Default ELSE <<Holder(S, e), "typed">>

Removed(S) ==
    \A p \in Roots(S) :
        /\ p \notin lsm
        /\ \A u \in Range(UnitsOf[p]) : files[u] = None /\ u \notin links

\* An answer 0 is true of the whole request: each package is known of the
\* security manager with all its units, each file has the label of its most
\* embedded package or the default one; or, for a removal, no package has left
\* a unit, a link or a registration.  (The answer of afmpkg_process, whatever
\* step of whatever package failed.)
AnswerHolds ==
    \A t \in Threads :
        pc[t] = "answer" /\ ok[t] =>
            IF mode[t] = "Install" THEN Installed(asked[t]) ELSE Removed(asked[t])

\* An installation that fails before its commit puts the unit files of its
\* package back as they were, but for the ones that could not be unlinked:
\* the rollback of install_units removes all the units, because the check
\* has seen that none existed.
FailedInstallRestores ==
    \A t \in Threads :
        pc[t] = "end" /\ mode[t] = "Install" /\ ~ok[t] =>
            \A u \in Range(UnitsOf[Pkg(t)]) : files[u] = before[t][u] \/ u \in kept[t]

\* "check that no file is overwritten by the installation" (afmpkg-std.c):
\* writing a unit never replaces the unit file of another package.
NoOverwrite ==
    [][\A u \in Units : files[u] # None /\ files'[u] # None => files'[u] = files[u]]_vars

\* A removal succeeds only if every unit of its packages was on the disk when
\* it began: removing again what a failed removal has half removed is an error.
RemovalWasWhole ==
    \A t \in Threads :
        pc[t] = "end" /\ mode[t] = "Uninstall" /\ ok[t] =>
            \A u \in Range(UnitsOf[Pkg(t)]) : before[t][u] # None
=============================================================================
