---------------------------- MODULE WidgetInstall ----------------------------
(***************************************************************************)
(* The legacy installation of widgets: install_widget unpacks a package in *)
(* a working directory, checks it, moves it at its place and sets it up;   *)
(* install_redpesk sets up what rpm has unpacked; uninstall_redpesk undoes *)
(* it.                                                                     *)
(*                                                                         *)
(* Everything is in global variables of the process (the working           *)
(* directory, the list of files, the permissions) that serve one operation *)
(* after the other.  An operation is a sequence of steps, each of which    *)
(* may fail or be the last one of the process; the directories, the icons, *)
(* the units and the rules of the security manager survive it.             *)
(***************************************************************************)
EXTENDS Integers, Sequences, SequencesExt, FiniteSets, FiniteSetsExt

CONSTANTS
    Ids,            \* the identifiers of widgets, also the names of their directories
    Temps,          \* the sequence of the names of working directories, TMP0, TMP1...
    WgtPerms,       \* the permissions
    DefaultPerm,    \* the permission given to all, default_permissions
    Packages,       \* the widgets
    Void,           \* no widget, no directory
    MaxOps,         \* bound: the operations of the installer tool
    MaxTroubles     \* bound: the failures and the deaths of the process

AllDirs == Ids \union ToSet(Temps)

\* What the model keeps of a widget: its files, what its configuration tells of them, and
\* whether its archive, its configuration, its signatures and its properties are right.
Paths == Seq(STRING)
Widgets ==
    [id : Ids, files : Seq(Paths), features : Seq([type : STRING, path : Paths]), icon : Paths,
     params : Seq([name : WgtPerms, value : STRING]), contents : Seq(Paths), strings : BOOLEAN,
     config : BOOLEAN, signed : BOOLEAN, props : BOOLEAN, zip : BOOLEAN]

\* The directories of widgets are in lower case, the temporary ones are not.
ASSUME DirsAssumption == Ids \cap ToSet(Temps) = {} /\ Temps \in Seq(ToSet(Temps))
ASSUME WidgetsAssumption == Packages \subseteq Widgets
ASSUME VoidAssumption == Void \notin Widgets /\ Void \notin AllDirs

VARIABLES
    dirs,       \* the widget that each directory holds, Void if there is no directory
    icons,      \* the widget to which the icon of each identifier links
    units,      \* the widget whose units are installed, for each identifier
    rules,      \* what the security manager holds for each identifier
    workdir,    \* the working directory, Void if none is opened
    files,      \* the files recorded, in order
    perms,      \* the known permissions: granted and requested
    op,         \* the operation in progress
    ops, troubles,   \* counts
    tainted,    \* history: the identifiers whose units could not be removed
    saved,      \* history: the disk and the rules at the start of the installation in progress
    denied      \* history: the permissions that it could not record

widgetVars == <<dirs, icons, units, rules, workdir, files, perms, op, ops, troubles, tainted, saved, denied>>

NoPerms == [p \in WgtPerms |-> [granted |-> FALSE, requested |-> FALSE]]
Idle == [kind |-> "none", step |-> "idle", dir |-> Void, wgt |-> Void, desc |-> Void, force |-> FALSE,
         ok |-> TRUE]
Goto(next) == op' = [op EXCEPT !.step = next]
At(kinds, step) == op.kind \in kinds /\ op.step = step

WidgetInit ==
    /\ dirs = [d \in AllDirs |-> Void]
    /\ icons = [i \in Ids |-> Void]
    /\ units = [i \in Ids |-> Void]
    /\ rules = [i \in Ids |-> Void]
    /\ workdir = Void
    /\ files = <<>>
    /\ perms = NoPerms
    /\ op = Idle
    /\ ops = 0 /\ troubles = 0 /\ tainted = {} /\ saved = Void /\ denied = {}

----------------------------------------------------------------------------
(* The checks. *)

\* check_temporary_constraints: a second icon is reported but accepted.
CheckTemporaryConstraints(w) == w.strings

\* wgt_info_createat: fill_desc wants the widget, its id, its version and what it names.
WgtInfo(w) == w # Void /\ w.config

ResetRequestedMutant(table) == table

\* reset_requested_permissions
ResetRequested(table) == [p \in WgtPerms |-> [table[p] EXCEPT !.requested = FALSE]]

\* request_permission, that grants what is asked.
RequestPermission(table, p) == [table EXCEPT ![p] = [granted |-> TRUE, requested |-> TRUE]]

\* The permissions that a widget asks; what a parameter requires is optional in a feature that
\* is optional itself.
Asks(w) == {p.name : p \in ToSet(w.params)}

\* check_permissions: up to the first parameter whose value is not known or that requires what
\* could not be recorded; an optional permission that could not be recorded is skipped.
CheckPermissions(table, w, refused) ==
    LET Step(s, param) ==
          IF ~s.ok THEN s
          ELSE IF param.value \notin {"required", "optional"} THEN [s EXCEPT !.ok = FALSE]
          ELSE IF param.name \notin refused THEN [ok |-> TRUE, table |-> RequestPermission(s.table, param.name)]
          ELSE [s EXCEPT !.ok = param.value = "optional"]
    IN  FoldLeft(Step, [ok |-> TRUE, table |-> table], w.params)

\* check_content: every content is a regular file of the widget, or of its htdocs.
CheckContent(w) ==
    \A src \in ToSet(w.contents) : src \in ToSet(w.files) \/ <<"htdocs">> \o src \in ToSet(w.files)

\* check_all_signatures, whose details are in WidgetSign.
SignaturesValid(w) == w.signed

\* first_usable_permission, next_usable_permission
UsablePermissions(table) == {p \in WgtPerms : table[p].granted /\ table[p].requested}

----------------------------------------------------------------------------
(* The rules of the security manager. *)

\* The default type of a path is told by its first directory.
TypeOfTop == [bin |-> "exec", etc |-> "conf", conf |-> "conf", lib |-> "lib", var |-> "data",
              htdocs |-> "http", public |-> "public"]

\* compute_pathtype: icons, then the first feature that names the path, then the directory;
\* install_security takes conf for the others.
ComputePathtype(path, w) ==
    LET named == {i \in DOMAIN w.features : w.features[i].path = path}
    IN  IF w.icon # <<>> /\ IsPrefix(w.icon, path) THEN "icon"
        ELSE IF named # {} THEN w.features[Min(named)].type
        ELSE IF path[1] \in DOMAIN TypeOfTop THEN TypeOfTop[path[1]]
        ELSE "conf"

\* An entry that exists takes the type of the file below it, unless it is public.
UpdateType(old, new) == IF old = "public" THEN old ELSE new

\* install_security: the root, and every directory on the way to every file of the list.
PathTypes(list, w) ==
    LET Ways(path) == {SubSeq(path, 1, n) : n \in 1..Len(path)}
        Step(types, path) ==
          LET new == ComputePathtype(path, w)
          IN  [q \in DOMAIN types \union Ways(path) |->
                  IF q = <<>> THEN IF new = "public" THEN new ELSE types[q]
                  ELSE IF q \notin Ways(path) THEN types[q]
                  ELSE IF q \in DOMAIN types THEN UpdateType(types[q], new)
                  ELSE new]
    IN  FoldLeft(Step, [q \in {<<>>} |-> "id"], list)

----------------------------------------------------------------------------
(* The steps. *)

\* The failure of a system call, of a library or of the security manager.
Trouble == troubles < MaxTroubles /\ troubles' = troubles + 1
Fine == UNCHANGED troubles

\* The end of an operation: file_reset, and the answer.
Finish(answer) ==
    /\ files' = <<>>
    /\ op' = [op EXCEPT !.step = "end", !.ok = answer]

\* The end on error: install_widget removes the working directory, which stops the process when
\* there is none any more; install_redpesk leaves all in place.
FailTo == IF op.kind = "install" THEN Goto("cleanup") /\ UNCHANGED files ELSE Finish(FALSE)

StartInstall ==
    /\ op.step = "idle" /\ ops < MaxOps
    /\ \E w \in Packages, f \in BOOLEAN :
        op' = [Idle EXCEPT !.kind = "install", !.step = "workdir", !.wgt = w, !.force = f]
    /\ saved' = [dirs |-> dirs, icons |-> icons, units |-> units, rules |-> rules]
    /\ ops' = ops + 1
    /\ UNCHANGED <<dirs, icons, units, rules, workdir, files, perms, troubles, tainted, denied>>

\* make_workdir: the first name that is free.
MakeWorkdir ==
    /\ At({"install"}, "workdir")
    /\ \/ /\ Fine
          /\ LET free == {i \in DOMAIN Temps : dirs[Temps[i]] = Void}
             IN  /\ free # {}
                 /\ workdir' = Temps[Min(free)]
          /\ dirs' = [dirs EXCEPT ![workdir'] = [op.wgt EXCEPT !.config = FALSE, !.files = <<>>]]
          /\ Goto("read") /\ UNCHANGED files
       \/ Trouble /\ Finish(FALSE) /\ workdir' = Void /\ UNCHANGED dirs
    /\ UNCHANGED <<icons, units, rules, perms, ops, tainted, saved, denied>>

\* zread: all the entries are recorded, then extracted.
ZRead ==
    /\ At({"install"}, "read")
    /\ \/ /\ Fine /\ op.wgt.zip
          /\ files' = op.wgt.files
          /\ dirs' = [dirs EXCEPT ![workdir] = op.wgt]
          /\ Goto("check")
       \/ (IF op.wgt.zip THEN Trouble ELSE Fine) /\ FailTo /\ UNCHANGED dirs
    /\ UNCHANGED <<icons, units, rules, workdir, perms, ops, tainted, saved, denied>>

\* info_desc_check of what the working directory holds.  The record of a permission that the
\* process meets for the first time has to be allocated.
InfoDescCheck ==
    /\ At({"install", "redpesk"}, "check")
    /\ LET w == IF workdir = Void THEN Void ELSE dirs[workdir]
       IN  \/ /\ WgtInfo(w) /\ SignaturesValid(w)
              /\ \E refused \in SUBSET {p \in Asks(w) : ~perms[p].granted} :
                    LET asked == CheckPermissions(ResetRequested(perms), w, refused)
                    IN  /\ IF refused = {} THEN Fine ELSE Trouble
                        /\ denied' = refused
                        /\ perms' = IF CheckTemporaryConstraints(w) THEN asked.table ELSE ResetRequested(perms)
                        /\ IF CheckTemporaryConstraints(w) /\ asked.ok /\ CheckContent(w)
                           THEN op' = [op EXCEPT !.desc = w, !.step = IF op.kind = "install" THEN "target" ELSE "icon"]
                                /\ UNCHANGED files
                           ELSE FailTo
           \/ (IF WgtInfo(w) /\ SignaturesValid(w) THEN Trouble ELSE Fine) /\ FailTo /\ UNCHANGED <<perms, denied>>
    /\ UNCHANGED <<dirs, icons, units, rules, workdir, ops, tainted, saved>>

\* The directory of the widget, without version: an installed widget is removed if forced.
Target ==
    /\ At({"install"}, "target")
    /\ IF dirs[op.desc.id] = Void THEN Goto("move") /\ UNCHANGED files
       ELSE IF ~op.force THEN FailTo
       ELSE Goto("oldinfo") /\ UNCHANGED files
    /\ Fine
    /\ UNCHANGED <<dirs, icons, units, rules, workdir, perms, ops, tainted, saved, denied>>

\* uninstall_at: what cannot be read is not set down; the caller install_widget ignores it.
OldInfo ==
    /\ At({"install", "remove"}, "oldinfo")
    /\ LET old == dirs[IF op.kind = "install" THEN op.desc.id ELSE op.dir]
       IN  \/ /\ Fine /\ WgtInfo(old)
              /\ op' = [op EXCEPT !.step = "oldunits", !.desc = IF op.kind = "remove" THEN old ELSE @]
              /\ UNCHANGED tainted
           \/ /\ IF WgtInfo(old) THEN Trouble ELSE Fine
              /\ op' = [op EXCEPT !.step = IF op.kind = "install" THEN "oldremove" ELSE "end", !.ok = op.kind = "install"]
              /\ tainted' = tainted \union {IF op.kind = "install" THEN op.desc.id ELSE op.dir}
    /\ UNCHANGED <<dirs, icons, units, rules, workdir, files, perms, ops, saved, denied>>

SetdownUnitsMutant ==
    /\ At({"install", "remove"}, "oldunits")
    /\ Fine /\ Goto("oldicon")
    /\ UNCHANGED <<dirs, icons, units, rules, workdir, files, perms, ops, tainted, saved, denied>>

\* setdown_units, whose failure is ignored.
SetdownUnits ==
    /\ At({"install", "remove"}, "oldunits")
    /\ \/ Fine /\ units' = [units EXCEPT ![op.desc.id] = Void] /\ UNCHANGED tainted
       \/ Trouble /\ tainted' = tainted \union {op.desc.id} /\ UNCHANGED units
    /\ Goto("oldicon")
    /\ UNCHANGED <<dirs, icons, rules, workdir, files, perms, ops, saved, denied>>

\* After setdown_files_and_security, whose failure is ignored.
AfterSetdown == IF op.kind = "install" THEN Goto("oldremove") ELSE op' = [op EXCEPT !.step = "end", !.ok = TRUE]

SetdownIcon ==
    /\ At({"install", "remove"}, "oldicon")
    /\ \/ Fine /\ icons' = [icons EXCEPT ![op.desc.id] = Void] /\ Goto("oldrules")
       \/ Trouble /\ AfterSetdown /\ UNCHANGED icons
    /\ UNCHANGED <<dirs, units, rules, workdir, files, perms, ops, tainted, saved, denied>>

\* The list of files is filled again, from the working directory.
SetdownSecurity ==
    /\ At({"install", "remove"}, "oldrules")
    /\ files' = dirs[workdir].files
    /\ \/ Fine /\ rules' = [rules EXCEPT ![op.desc.id] = Void]
       \/ Trouble /\ UNCHANGED rules
    /\ AfterSetdown
    /\ UNCHANGED <<dirs, icons, units, workdir, perms, ops, tainted, saved, denied>>

\* remove_directory of the old widget: a failure leaves all or nothing of its content.
RemoveOld ==
    /\ At({"install"}, "oldremove")
    /\ LET id == op.desc.id
       IN  \/ Fine /\ dirs' = [dirs EXCEPT ![id] = Void] /\ Goto("move") /\ UNCHANGED files
           \/ /\ Trouble /\ FailTo
              /\ dirs' \in {dirs, [dirs EXCEPT ![id].config = FALSE, ![id].files = <<>>]}
    /\ UNCHANGED <<icons, units, rules, workdir, perms, ops, tainted, saved, denied>>

\* move_workdir: the working directory is closed, renamed, and opened at its new place.
MoveWorkdir ==
    /\ At({"install"}, "move")
    /\ LET moved == [dirs EXCEPT ![op.desc.id] = dirs[workdir], ![workdir] = Void]
       IN  \/ Fine /\ dirs' = moved /\ workdir' = op.desc.id /\ Goto("icon") /\ UNCHANGED files
           \/ Trouble /\ FailTo /\ UNCHANGED <<dirs, workdir>>
           \/ Trouble /\ FailTo /\ workdir' = Void /\ dirs' \in {dirs, moved}
    /\ UNCHANGED <<icons, units, rules, perms, ops, tainted, saved, denied>>

\* install_icon: nothing is done, nor removed, for a widget without icon.
InstallIcon ==
    /\ At({"install", "redpesk"}, "icon")
    /\ \/ /\ Fine /\ Goto("rules") /\ UNCHANGED files
          /\ icons' = IF op.desc.icon = <<>> THEN icons ELSE [icons EXCEPT ![op.desc.id] = op.desc]
       \/ Trouble /\ op.desc.icon # <<>> /\ FailTo /\ UNCHANGED icons
    /\ UNCHANGED <<dirs, units, rules, workdir, perms, ops, tainted, saved, denied>>

\* install_security: nothing is installed before the last call.
InstallSecurity ==
    /\ At({"install", "redpesk"}, "rules")
    /\ \/ /\ Fine /\ Goto("modes") /\ UNCHANGED files
          /\ rules' = [rules EXCEPT ![op.desc.id] =
                [paths |-> PathTypes(files, op.desc), permits |-> UsablePermissions(perms) \union {DefaultPerm}]]
       \/ Trouble /\ FailTo /\ UNCHANGED rules
    /\ UNCHANGED <<dirs, icons, units, workdir, perms, ops, tainted, saved, denied>>

\* install_exec_flag, install_file_properties: a property that is not known is an error.
InstallModes ==
    /\ At({"install", "redpesk"}, "modes")
    /\ \/ op.desc.props /\ Fine /\ Goto("units") /\ UNCHANGED files
       \/ (IF op.desc.props THEN Trouble ELSE Fine) /\ FailTo
    /\ UNCHANGED <<dirs, icons, units, rules, workdir, perms, ops, tainted, saved, denied>>

\* setup_units: do_install_units overwrites no unit and removes what it installed on error.
SetupUnits ==
    /\ At({"install", "redpesk"}, "units")
    /\ \/ Fine /\ units[op.desc.id] = Void /\ units' = [units EXCEPT ![op.desc.id] = op.desc] /\ Finish(TRUE)
       \/ (IF units[op.desc.id] = Void THEN Trouble ELSE Fine) /\ FailTo /\ UNCHANGED units
    /\ UNCHANGED <<dirs, icons, rules, workdir, perms, ops, tainted, saved, denied>>

\* remove_workdir asserts that the directory is opened.  After the move it is opened with O_PATH
\* (set_workdir): its content cannot be listed, hence not removed, nor can it be.  Before the
\* move a failure leaves all or nothing of its content.  Neither is reported.
Cleanup ==
    /\ At({"install"}, "cleanup")
    /\ \/ workdir = Void /\ Fine /\ Goto("dead") /\ UNCHANGED <<files, workdir, dirs>>
       \/ /\ workdir # Void /\ Finish(FALSE) /\ workdir' = Void
          /\ \/ workdir \in Ids /\ Fine /\ UNCHANGED dirs
             \/ workdir \notin Ids /\ Fine /\ dirs' = [dirs EXCEPT ![workdir] = Void]
             \/ /\ workdir \notin Ids /\ Trouble
                /\ dirs' \in {dirs, [dirs EXCEPT ![workdir].config = FALSE, ![workdir].files = <<>>]}
    /\ UNCHANGED <<icons, units, rules, perms, ops, tainted, saved, denied>>

\* The process is killed.
Die ==
    /\ op.step \notin {"idle", "end", "dead"} /\ Trouble /\ Goto("dead")
    /\ UNCHANGED <<dirs, icons, units, rules, workdir, files, perms, ops, tainted, saved, denied>>

\* wgtpkg-install goes on with its next widget, or a new process is started.
NextWidget ==
    /\ op.kind = "install" /\ op.step = "end"
    /\ op' = Idle /\ saved' = Void /\ denied' = {}
    /\ UNCHANGED <<dirs, icons, units, rules, workdir, files, perms, ops, troubles, tainted>>

Restart ==
    /\ op.kind = "install" /\ op.step = "dead"
    /\ op' = Idle /\ workdir' = Void /\ files' = <<>> /\ perms' = NoPerms /\ saved' = Void /\ denied' = {}
    /\ UNCHANGED <<dirs, icons, units, rules, ops, troubles, tainted>>

\* set_workdir, whose failure the callers ignore: a missing directory leaves the former one.
SetWorkdir(d) == workdir' = IF dirs[d] = Void THEN workdir ELSE d

\* install_redpesk: file_reset, fill_files of the working directory.
StartRedpesk(d) ==
    /\ op.step = "idle"
    /\ SetWorkdir(d)
    /\ files' = IF workdir' = Void THEN <<>> ELSE dirs[workdir'].files
    /\ op' = [Idle EXCEPT !.kind = "redpesk", !.step = "check", !.dir = d]
    /\ UNCHANGED <<dirs, icons, units, rules, perms, ops, troubles, tainted, saved, denied>>

\* uninstall_redpesk
StartRemove(d) ==
    /\ op.step = "idle"
    /\ SetWorkdir(d)
    /\ op' = [Idle EXCEPT !.kind = "remove", !.step = "oldinfo", !.dir = d]
    /\ UNCHANGED <<dirs, icons, units, rules, files, perms, ops, troubles, tainted, saved, denied>>

\* The steps of an operation, whatever started it.
WidgetStep ==
    \/ MakeWorkdir \/ ZRead \/ InfoDescCheck \/ Target
    \/ OldInfo \/ SetdownUnits \/ SetdownIcon \/ SetdownSecurity \/ RemoveOld
    \/ MoveWorkdir \/ InstallIcon \/ InstallSecurity \/ InstallModes \/ SetupUnits
    \/ Cleanup \/ Die

ToolNext == StartInstall \/ WidgetStep \/ NextWidget \/ Restart

ToolSpec == WidgetInit /\ [][ToolNext]_widgetVars

----------------------------------------------------------------------------
(* Properties. *)

\* The paths of a widget and of the directories on their way.
AllWays(w) == UNION {{SubSeq(f, 1, n) : n \in 0..Len(f)} : f \in ToSet(w.files)}

\* An installation that succeeds leaves the widget whole, whatever failed, died or was installed
\* before in the same process: its directory, its icon, its units, a rule for each of its paths
\* and for no other, and the permissions that it asks and no other, but for the optional ones
\* that could not be recorded (reset_requested_permissions, set_required_permissions, fill_files,
\* uninstall_widget).
InstalledWhole ==
    op.step = "end" /\ op.ok /\ op.kind \in {"install", "redpesk"} =>
        LET w == IF op.kind = "install" THEN op.wgt ELSE dirs[op.dir]
        IN  /\ dirs[w.id] = w /\ units[w.id] = w
            /\ w.icon # <<>> => icons[w.id] = w
            /\ DOMAIN rules[w.id].paths = {<<>>} \union AllWays(w)
            /\ rules[w.id].permits = {DefaultPerm} \union (Asks(w) \ denied)
            /\ \A p \in ToSet(w.params) : p.name \in denied => p.value = "optional"

\* The way to a public file is public up to the root of the widget (install_security).
PublicWays ==
    \A i \in Ids : rules[i] # Void =>
        \A q \in DOMAIN rules[i].paths : rules[i].paths[q] = "public" =>
            \A n \in 0..Len(q) : rules[i].paths[SubSeq(q, 1, n)] = "public"

\* No unit runs a widget that is not there: units are removed before the files and installed
\* after them, across failures and deaths, unless their removal itself failed, which
\* uninstall_at ignores.
UnitsHaveFiles ==
    \A i \in Ids \ tainted : units[i] # Void => dirs[i] = units[i]

\* The identifiers of which nothing has changed since the start of the installation.
Untouched(i) == dirs[i] = saved.dirs[i] /\ icons[i] = saved.icons[i] /\ rules[i] = saved.rules[i]

\* An installation that fails without being forced adds no unit and touches no widget that was
\* installed.  When it fails before the move, all that may be left is the temporary directory
\* that could not be removed; after the move, remove_workdir leaves the widget at its place, with
\* what was set up of its icon and its rules, and nothing else.
FailureContained ==
    op.kind = "install" /\ op.step = "end" /\ ~op.ok /\ ~op.force =>
        /\ units = saved.units
        /\ \A d \in AllDirs : saved.dirs[d] # Void => dirs[d] = saved.dirs[d]
        /\ \A i \in Ids : \/ Untouched(i)
                          \/ i = op.wgt.id /\ saved.dirs[i] = Void /\ dirs[i] = op.wgt

\* What the comment of remove_workdir says, "removes the working directory": a failed
\* installation that was not forced leaves no directory.  It does when it fails after the move,
\* without any failure of the removal itself.  Violated.
FailureUndone ==
    op.kind = "install" /\ op.step = "end" /\ ~op.ok /\ ~op.force => dirs = saved.dirs

\* The answer of an installation is true of the disk and of the security rules: whole when it
\* succeeds, contained when it fails, and the way to what is public is public (install_widget).
WidgetAnswers == InstalledWhole /\ PublicWays /\ FailureContained
=============================================================================
