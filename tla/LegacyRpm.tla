------------------------------ MODULE LegacyRpm ------------------------------
(***************************************************************************)
(* The legacy rpm plugin (legacy-rpm-redpesk.c): it follows the elements   *)
(* of a transaction by the name of their package, and calls                *)
(* uninstall_redpesk and install_redpesk at the right one of the calls     *)
(* that rpm makes.                                                         *)
(*                                                                         *)
(* The calls of rpm are those that the head of the file documents for an   *)
(* installation, a removal and an upgrade; the ones of different packages  *)
(* come in any order.  rpm itself unpacks or erases the files between the  *)
(* calls psm_pre and psm_post of an element that has files (external).     *)
(***************************************************************************)
EXTENDS WidgetInstall

CONSTANTS
    Transactions,   \* for each package: what is done, its old and its new content
    UnpackMayFail   \* BOOLEAN: rpm may fail to unpack

\* struct redpesk_pkgs: what the plugin records of a package.
Rpkgs == [dir : AllDirs \union {Void}, toinstall : BOOLEAN, installed : BOOLEAN, toremove : BOOLEAN]

\* What install_redpesk accepts, and sets up to the end.
Accepted(w) ==
    /\ WgtInfo(w) /\ SignaturesValid(w) /\ CheckTemporaryConstraints(w) /\ CheckContent(w)
    /\ \A p \in ToSet(w.params) : p.value \in {"required", "optional"}
Settles(w) == Accepted(w) /\ w.props

\* What is removed or replaced was set up, what is added is any widget, in the directory of its
\* identifier.
ASSUME TransactionsAssumption ==
    /\ Void \notin Rpkgs
    /\ \A t \in Transactions : \A i \in Ids :
          /\ t[i].kind \in {"install", "remove", "upgrade", "none"}
          /\ \A w \in {t[i].old, t[i].new} : w = Void \/ (w \in Widgets /\ w.id = i)
          /\ t[i].kind = "install" => t[i].old = Void /\ t[i].new # Void
          /\ t[i].kind = "remove" => t[i].old # Void /\ t[i].new = Void
          /\ t[i].kind = "upgrade" => t[i].old # Void /\ t[i].new # Void
          /\ t[i].old # Void => Settles(t[i].old)

VARIABLES
    rpkgs,      \* rpkgs_list: the records of the packages, Void if none
    todo,       \* the elements to come, for each package
    current,    \* the element in progress: its package and its stage
    trans,      \* the transaction
    calls       \* history: what the plugin and rpm did with each package

rpmVars == <<rpkgs, todo, current, trans, calls>>
legacyVars == <<widgetVars, rpmVars>>

Element(type, filled) == [type |-> type, files |-> filled]
NoElement == [pkg |-> Void, stage |-> "none"]

\* The sequences INSTALL, REMOVE and UPGRADE.
Sequence ==
    [install |-> <<Element("ADDED", TRUE), Element("ADDED", FALSE)>>,
     remove  |-> <<Element("REMOVED", FALSE), Element("REMOVED", TRUE)>>,
     upgrade |-> <<Element("REMOVED", FALSE), Element("ADDED", TRUE),
                   Element("REMOVED", TRUE), Element("ADDED", FALSE)>>,
     none    |-> <<>>]

\* What was set up before the transaction.
RpmInit ==
    /\ trans \in Transactions
    /\ dirs = [d \in AllDirs |-> IF d \in Ids THEN trans[d].old ELSE Void]
    /\ icons = [i \in Ids |-> IF trans[i].old # Void /\ trans[i].old.icon # <<>> THEN trans[i].old ELSE Void]
    /\ units = [i \in Ids |-> trans[i].old]
    /\ rules = [i \in Ids |-> IF trans[i].old = Void THEN Void ELSE
                    [paths |-> PathTypes(trans[i].old.files, trans[i].old), permits |-> {DefaultPerm}]]
    /\ workdir = Void /\ files = <<>> /\ perms = NoPerms
    /\ op = Idle /\ ops = 0 /\ troubles = 0 /\ tainted = {} /\ saved = Void /\ denied = {}
    /\ rpkgs = [i \in Ids |-> Void]
    /\ todo = [i \in Ids |-> Sequence[trans[i].kind]]
    /\ current = NoElement
    /\ calls = [i \in Ids |-> <<>>]

Te == Head(todo[current.pkg])
GotoStage(name) == current' = [current EXCEPT !.stage = name]
InStage(name) == current.stage = name /\ op.step = "idle"

\* rpm takes the next element of some package.
RpmElement ==
    /\ current = NoElement
    /\ \E i \in Ids : todo[i] # <<>> /\ current' = [pkg |-> i, stage |-> "pre"]
    /\ UNCHANGED <<widgetVars, rpkgs, todo, trans, calls>>

\* redpesk_psm_pre: a package seen first as removed is to remove; getInstallDir finds the
\* directory when the element has files; what is added is to install.
PsmPre ==
    /\ InStage("pre")
    /\ LET i == current.pkg
           pkg == IF rpkgs[i] # Void THEN rpkgs[i]
                  ELSE [dir |-> Void, toinstall |-> FALSE, installed |-> FALSE, toremove |-> Te.type = "REMOVED"]
           dir == IF pkg.dir # Void THEN pkg.dir
                  ELSE IF Te.files THEN i ELSE Void
       IN  /\ rpkgs' = [rpkgs EXCEPT ![i] =
                    [pkg EXCEPT !.dir = dir, !.toinstall = @ \/ (dir # Void /\ Te.type = "ADDED")]]
           /\ IF dir # Void /\ pkg.toremove
              THEN StartRemove(dir) /\ GotoStage("removing") /\ calls' = [calls EXCEPT ![i] = Append(@, "uninstall")]
              ELSE GotoStage("work") /\ UNCHANGED <<widgetVars, calls>>
    /\ UNCHANGED <<todo, trans>>

\* The result of uninstall is only logged.
Removed ==
    /\ current.stage = "removing" /\ op.step = "end"
    /\ op' = Idle
    /\ GotoStage("work")
    /\ UNCHANGED <<dirs, icons, units, rules, workdir, files, perms, ops, troubles, tainted, saved, denied,
                   rpkgs, todo, trans, calls>>

\* rpm unpacks the files of an added package, or erases those of a removed one that no other
\* version has (external).
RpmWork ==
    /\ InStage("work")
    /\ LET i == current.pkg
           done == IF ~Te.files THEN dirs
                   ELSE IF Te.type = "ADDED" THEN [dirs EXCEPT ![i] = trans[i].new]
                   ELSE IF trans[i].new = Void THEN [dirs EXCEPT ![i] = Void] ELSE dirs
       IN  dirs' \in {done} \union (IF UnpackMayFail /\ Te.type = "ADDED" THEN {dirs} ELSE {})
    /\ GotoStage("post")
    /\ calls' = IF Te.files
                THEN [calls EXCEPT ![current.pkg] = Append(@, IF Te.type = "ADDED" THEN "unpack" ELSE "erase")]
                ELSE calls
    /\ UNCHANGED <<icons, units, rules, workdir, files, perms, op, ops, troubles, tainted, saved, denied,
                   rpkgs, todo, trans>>

PsmPostMutant ==
    /\ InStage("post")
    /\ LET i == current.pkg
           pkg == rpkgs[i]
       IN  /\ IF ~pkg.installed /\ pkg.toinstall
              THEN /\ StartRedpesk(pkg.dir) /\ GotoStage("installing")
                   /\ rpkgs' = [rpkgs EXCEPT ![i] = [pkg EXCEPT !.installed = TRUE, !.toremove = @ /\ Te.type # "ADDED"]]
                   /\ calls' = [calls EXCEPT ![i] = Append(@, "install")]
              ELSE /\ GotoStage("done")
                   /\ rpkgs' = [rpkgs EXCEPT ![i] = [pkg EXCEPT !.toremove = @ /\ Te.type # "ADDED"]]
                   /\ UNCHANGED <<widgetVars, calls>>
    /\ UNCHANGED <<todo, trans>>

\* redpesk_psm_post: what is to install is installed once nothing is to remove any more.
PsmPost ==
    /\ InStage("post")
    /\ LET i == current.pkg
           pkg == rpkgs[i]
       IN  /\ IF ~pkg.toremove /\ ~pkg.installed /\ pkg.toinstall
              THEN /\ StartRedpesk(pkg.dir) /\ GotoStage("installing")
                   /\ rpkgs' = [rpkgs EXCEPT ![i] = [pkg EXCEPT !.installed = TRUE, !.toremove = @ /\ Te.type # "ADDED"]]
                   /\ calls' = [calls EXCEPT ![i] = Append(@, "install")]
              ELSE /\ GotoStage("done")
                   /\ rpkgs' = [rpkgs EXCEPT ![i] = [pkg EXCEPT !.toremove = @ /\ Te.type # "ADDED"]]
                   /\ UNCHANGED <<widgetVars, calls>>
    /\ UNCHANGED <<todo, trans>>

\* A failed installation is answered to rpm, that ends with the other packages anyway.
ElementDone ==
    /\ \/ current.stage = "installing" /\ op.step = "end"
       \/ current.stage = "done"
    /\ op' = Idle /\ denied' = {}
    /\ todo' = [todo EXCEPT ![current.pkg] = Tail(@)]
    /\ current' = NoElement
    /\ UNCHANGED <<dirs, icons, units, rules, workdir, files, perms, ops, troubles, tainted, saved,
                   rpkgs, trans, calls>>

\* redpesk_tsm_post frees the list.
RedpeskTsmPost ==
    /\ current = NoElement /\ \A i \in Ids : todo[i] = <<>>
    /\ current' = [pkg |-> Void, stage |-> "end"]
    /\ rpkgs' = [i \in Ids |-> Void]
    /\ UNCHANGED <<widgetVars, todo, trans, calls>>

RpmStep == RpmElement \/ PsmPre \/ Removed \/ RpmWork \/ PsmPost \/ ElementDone \/ RedpeskTsmPost
TransactionNext == RpmStep \/ (WidgetStep /\ UNCHANGED rpmVars)

RpmSpec == RpmInit /\ [][TransactionNext]_legacyVars

----------------------------------------------------------------------------
(* Properties. *)

\* What has to be done for each kind of operation.
Expected ==
    [install |-> <<"unpack", "install">>,
     remove  |-> <<"uninstall", "erase">>,
     upgrade |-> <<"uninstall", "unpack", "erase", "install">>,
     none    |-> <<>>]

\* Each package of a transaction is set down once before rpm touches its files and set up once
\* after its last file came or went, whatever the order in which rpm interleaves the packages: no call
\* is missing, doubled or out of order, and without failure the system is at the end as the new
\* packages want it, without any unit for a package that install_redpesk refuses (the sequences
\* documented at the head of legacy-rpm-redpesk.c).
TransactionDone ==
    current.stage = "end" =>
        \A i \in Ids :
            /\ calls[i] = Expected[trans[i].kind]
            /\ troubles = 0 /\ trans[i].kind # "none" =>
                  /\ dirs[i] = trans[i].new
                  /\ units[i] = IF trans[i].new # Void /\ Settles(trans[i].new) THEN trans[i].new ELSE Void
                  /\ trans[i].new = Void => rules[i] = Void /\ icons[i] = Void
=============================================================================
