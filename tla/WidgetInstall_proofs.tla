------------------------ MODULE WidgetInstall_proofs ------------------------
(***************************************************************************)
(* wgtpkg-install, for any widgets, any sequence of installations, any     *)
(* failures and any deaths of the process: what units, directories, rules  *)
(* and answers tell of each other; the check of the signatures of widgets; *)
(* from the same facts about folds, the rights that a chain of             *)
(* certificates gives to the signer of a package; and the transactions of  *)
(* the former rpm plugin, which call the same operations on packages that  *)
(* rpm unpacks and erases.                                                 *)
(***************************************************************************)
EXTENDS WidgetInstall, LegacyRpm, WidgetSign, CertChain, FiniteSetTheorems, SequenceTheorems, NaturalsInduction,
        WellFoundedInduction, TLAPS

Held == Widgets \union {Void}
Tables == [Ids -> Held]
Disks == [AllDirs -> Held]

\* The steps of install_widget, by what has been done.
Unpacked == {"check", "target", "oldinfo", "oldunits", "oldicon", "oldrules", "oldremove", "move"}
Forced == {"oldinfo", "oldunits", "oldicon", "oldrules", "oldremove"}
Moved == {"icon", "rules", "modes", "units"}
Steps == {"idle", "workdir", "read", "cleanup", "end", "dead"} \union Unpacked \union Moved

Ops ==
    [kind : {"none", "install"}, step : Steps, dir : {Void}, wgt : Held, desc : Held,
     force : BOOLEAN, ok : BOOLEAN]

ToolTypeOK ==
    /\ dirs \in Disks /\ units \in Tables /\ icons \in Tables
    /\ workdir \in AllDirs \union {Void}
    /\ op \in Ops
    /\ op.kind = "none" <=> op.step = "idle"
    /\ op.kind = "install" => op.wgt \in Packages /\ saved.dirs \in Disks
    /\ op.step \in (Unpacked \ {"check"}) \union Moved => op.desc = op.wgt

\* Nothing runs what identifier i names, unless its units could not be removed.
Quiet(i) == i \in tainted \/ units[i] = Void

\* The widget is unpacked in a temporary directory, then is at its place; no unit was left.
InPlace ==
    /\ op.step \in Unpacked \union {"read"} => workdir \in ToSet(Temps)
    /\ op.step \in Unpacked => dirs[workdir] = op.wgt
    /\ op.step \in Forced => dirs[op.wgt.id] # Void
    /\ op.step \in {"oldicon", "oldrules", "oldremove", "move"} => Quiet(op.wgt.id)
    /\ op.step \in Moved => workdir = op.wgt.id /\ dirs[op.wgt.id] = op.wgt /\ Quiet(op.wgt.id)
    /\ op.step = "cleanup" /\ workdir \in Ids => workdir = op.wgt.id /\ dirs[workdir] = op.wgt /\ Quiet(workdir)
    /\ op.step \in {"read", "cleanup"} /\ workdir \in AllDirs => dirs[workdir] # Void

UnitsInv == ToolTypeOK /\ InPlace /\ UnitsHaveFiles

\* An installation that is not forced has changed at most its working directory, which did not exist.
OnlyWorkdir ==
    /\ units = saved.units
    /\ workdir \in AllDirs => saved.dirs[workdir] = Void
    /\ workdir \in AllDirs => \A d \in AllDirs : d # workdir => dirs[d] = saved.dirs[d]

\* What an installation that is not forced may leave when it fails.
Contained ==
    /\ units = saved.units
    /\ \A d \in AllDirs : saved.dirs[d] # Void => dirs[d] = saved.dirs[d]
    /\ \A i \in Ids : dirs[i] = saved.dirs[i] \/ (i = op.wgt.id /\ saved.dirs[i] = Void /\ dirs[i] = op.wgt)

Unforced ==
    op.kind = "install" /\ op.force = FALSE =>
        /\ op.step \notin Forced
        /\ op.step = "workdir" => dirs = saved.dirs /\ units = saved.units
        /\ op.step \in Unpacked \union Moved \union {"read", "cleanup"} => OnlyWorkdir
        /\ op.step = "move" => dirs[op.wgt.id] = Void
        /\ op.step = "end" /\ op.ok = FALSE => Contained

\* What an installation that succeeds has put at its place.
Present(w) == dirs[w.id] = w /\ units[w.id] = w /\ (w.icon # <<>> => icons[w.id] = w)
InstalledPresent == op.kind = "install" /\ op.step = "end" /\ op.ok => Present(op.wgt)

Iconed ==
    /\ op.step \in {"rules", "modes", "units"} /\ op.wgt.icon # <<>> => icons[op.wgt.id] = op.wgt
    /\ op.kind = "install" /\ op.step = "end" /\ op.ok = TRUE => Present(op.wgt)

IInv == UnitsInv /\ Unforced /\ Iconed

----------------------------------------------------------------------------
(* Facts about the constants. *)

LEMMA IdOf == ASSUME NEW w \in Packages  PROVE w.id \in Ids /\ w.id \in AllDirs /\ w \in Held /\ w # Void
  BY WidgetsAssumption, VoidAssumption DEF Widgets, AllDirs, Held

LEMMA TempsApart == ASSUME NEW d \in ToSet(Temps)  PROVE d \in AllDirs /\ d \notin Ids /\ d # Void
  BY DirsAssumption, VoidAssumption DEF AllDirs

\* A directory whose content is not there yet, or not any more.
LEMMA EmptiedHeld ==
    ASSUME NEW w \in Widgets  PROVE [w EXCEPT !.config = FALSE, !.files = <<>>] \in Widgets
  <1>1. PICK F, P, X, Q : /\ Widgets = [id : Ids, files : F, features : X, icon : P, params : Q, contents : F,
                                         strings : BOOLEAN, config : BOOLEAN, signed : BOOLEAN,
                                         props : BOOLEAN, zip : BOOLEAN]
                          /\ <<>> \in F
    <2>1. <<>> \in Seq(Paths)
      OBVIOUS
    <2>2. QED
      BY <2>1, Zenon DEF Widgets
  <1>2. QED
    BY <1>1

\* The first name that is free.
LEMMA FirstFree ==
    ASSUME NEW free \in SUBSET DOMAIN Temps, free # {}
    PROVE  Min(free) \in free
  <1>1. free \subseteq Nat
    BY DirsAssumption
  <1>2. \E x \in free : \A y \in free : ~(<<y, x>> \in OpToRel(<, Nat))
    <2>1. IsWellFoundedOn(OpToRel(<, Nat), Nat)
      BY NatLessThanWellFounded
    <2>2. QED
      BY <1>1, <2>1, WFMin
  <1>3. PICK x \in free : \A y \in free : ~(<<y, x>> \in OpToRel(<, Nat))
    BY <1>2
  <1>4. \A y \in free : x <= y
    <2>1. SUFFICES ASSUME NEW y \in free  PROVE x <= y
      OBVIOUS
    <2>2. x \in Nat /\ y \in Nat
      BY <1>1
    <2>3. ~(y < x)
      BY <1>3, <2>2 DEF OpToRel
    <2>4. QED
      BY <2>2, <2>3
  <1>5. QED
    BY <1>4 DEF Min

\* The state of the operation in progress.
LEMMA OpFields ==
    ASSUME op \in Ops
    PROVE  /\ op.kind \in {"none", "install"} /\ op.step \in Steps /\ op.ok \in BOOLEAN /\ op.force \in BOOLEAN
           /\ op.wgt \in Held /\ op.desc \in Held
  BY DEF Ops

LEMMA OpGoto ==
    ASSUME op \in Ops, NEW x \in Steps, op' = [op EXCEPT !.step = x]
    PROVE  /\ op' \in Ops /\ op'.step = x /\ op'.kind = op.kind /\ op'.wgt = op.wgt /\ op'.desc = op.desc
           /\ op'.force = op.force /\ op'.ok = op.ok
  BY DEF Ops

LEMMA OpSet ==
    ASSUME op \in Ops, NEW x \in Steps, NEW b \in BOOLEAN, op' = [op EXCEPT !.step = x, !.ok = b]
    PROVE  /\ op' \in Ops /\ op'.step = x /\ op'.kind = op.kind /\ op'.wgt = op.wgt /\ op'.desc = op.desc
           /\ op'.force = op.force /\ op'.ok = b
  BY DEF Ops

LEMMA OpDesc ==
    ASSUME op \in Ops, NEW x \in Steps, NEW w \in Held, op' = [op EXCEPT !.desc = w, !.step = x]
    PROVE  /\ op' \in Ops /\ op'.step = x /\ op'.kind = op.kind /\ op'.wgt = op.wgt /\ op'.desc = w
           /\ op'.force = op.force /\ op'.ok = op.ok
  BY DEF Ops

\* The places are different.
LEMMA StepsApart ==
    /\ Unpacked \subseteq Steps /\ Moved \subseteq Steps /\ Forced \subseteq Unpacked
    /\ {"idle", "workdir", "read", "cleanup", "end", "dead"} \subseteq Steps
    /\ Unpacked \cap Moved = {}
    /\ {"idle", "workdir", "read", "cleanup", "end", "dead"} \cap (Unpacked \union Moved) = {}
    /\ {"oldicon", "oldrules", "oldremove", "move"} \subseteq Unpacked
  BY DEF Steps, Unpacked, Moved, Forced

----------------------------------------------------------------------------
(* The steps that leave the directories, the units and the icons. *)

LEMMA Passes ==
    ASSUME IInv, op.kind = "install", UNCHANGED <<dirs, units, icons, workdir>>, tainted \subseteq tainted',
           op' \in Ops, op'.kind = op.kind, op'.wgt = op.wgt, op'.force = op.force, saved' = saved,
           op'.step \in Unpacked \union Moved \union {"cleanup", "dead"},
           op'.step # "dead" => op.step \in Unpacked \union Moved \union {"read"},
           op'.step \in Unpacked => op.step \in Unpacked,
           op'.step \in Moved => op.step \in Moved,
           op'.step \in Forced => dirs[op.wgt.id] # Void /\ op.force = TRUE,
           op'.step \in {"oldicon", "oldrules", "oldremove", "move"} => Quiet(op.wgt.id)',
           op'.step = "move" => dirs[op.wgt.id] = Void \/ op.force = TRUE,
           op'.step \in (Unpacked \ {"check"}) \union Moved => op'.desc = op.wgt,
           op'.step \in {"rules", "modes", "units"} /\ op.wgt.icon # <<>> => icons[op.wgt.id] = op.wgt
    PROVE  IInv'
  <1>1. ToolTypeOK /\ InPlace /\ UnitsHaveFiles /\ Unforced /\ Iconed
    BY DEF IInv, UnitsInv
  <1>2. ToolTypeOK'
    <2>1. op'.step # "idle" /\ op'.kind # "none"
      BY StepsApart
    <2>2. QED
      BY <1>1, <2>1 DEF ToolTypeOK
  <1>3. \A i : Quiet(i) => Quiet(i)'
    BY DEF Quiet
  <1>4. InPlace'
    <2>0. op'.step = "cleanup" /\ workdir \in AllDirs => dirs[workdir] # Void
      <3>1. op'.step = "cleanup" => op.step \in Unpacked \union Moved \union {"read"}
        OBVIOUS
      <3>2. op.wgt # Void
        BY <1>1, IdOf DEF ToolTypeOK
      <3>3. QED
        BY <1>1, <3>1, <3>2 DEF InPlace
    <2>1. op'.step = "cleanup" /\ workdir \in Ids =>
             workdir = op.wgt.id /\ dirs[workdir] = op.wgt /\ Quiet(workdir)
      <3>1. SUFFICES ASSUME op'.step = "cleanup", workdir \in Ids
                     PROVE  workdir = op.wgt.id /\ dirs[workdir] = op.wgt /\ Quiet(workdir)
        OBVIOUS
      <3>2. op.step \in Unpacked \union {"read"} => workdir \notin Ids
        BY <1>1, TempsApart DEF InPlace
      <3>3. op.step \in Moved
        BY <3>1, <3>2
      <3>4. QED
        BY <1>1, <3>3 DEF InPlace
    <2>2. op'.step \in Moved => workdir = op.wgt.id /\ dirs[op.wgt.id] = op.wgt /\ Quiet(op.wgt.id)'
      BY <1>1, <1>3 DEF InPlace
    <2>3. op'.step # "read"
      BY StepsApart
    <2>4. op'.step \in Unpacked => workdir \in ToSet(Temps) /\ dirs[workdir] = op.wgt
      BY <1>1 DEF InPlace
    <2>5. Quiet(workdir) => Quiet(workdir)'
      BY DEF Quiet
    <2>6. QED
      BY <2>0, <2>1, <2>2, <2>3, <2>4, <2>5 DEF InPlace, Quiet
  <1>5. UnitsHaveFiles'
    BY <1>1 DEF UnitsHaveFiles
  <1>6. Unforced'
    <2>1. SUFFICES ASSUME op'.force = FALSE  PROVE Unforced'
      BY DEF Unforced
    <2>2. op.force = FALSE
      BY <2>1
    <2>3. op'.step \in Unpacked \union Moved \union {"read", "cleanup"} => OnlyWorkdir'
      <3>1. op.step \in Unpacked \union Moved \union {"read"} => OnlyWorkdir
        BY <1>1, <2>2 DEF Unforced
      <3>2. OnlyWorkdir => OnlyWorkdir'
        BY DEF OnlyWorkdir
      <3>3. op'.step \in Unpacked \union Moved \union {"read", "cleanup"} => op'.step # "dead"
        BY StepsApart
      <3>4. QED
        BY <3>1, <3>2, <3>3
    <2>4. op'.step \notin Forced /\ op'.step \notin {"workdir", "end"}
      BY <2>2, StepsApart
    <2>5. op'.step = "move" => dirs'[op'.wgt.id] = Void
      BY <2>2
    <2>6. QED
      BY <2>3, <2>4, <2>5 DEF Unforced
  <1>7. Iconed'
    <2>1. op'.step # "end"
      BY StepsApart
    <2>2. QED
      BY <2>1 DEF Iconed
  <1>8. QED
    BY <1>2, <1>4, <1>5, <1>6, <1>7 DEF IInv, UnitsInv

\* A failure leads to the removal of the working directory.
LEMMA Fails ==
    ASSUME IInv, op.kind = "install", FailTo, op.step \in Unpacked \union Moved \union {"read"},
           UNCHANGED <<dirs, units, icons, workdir, tainted, saved>>
    PROVE  IInv'
  <1>1. op \in Ops
    BY DEF IInv, UnitsInv, ToolTypeOK
  <1>2. op' = [op EXCEPT !.step = "cleanup"]
    BY DEF FailTo, Goto
  <1>3. /\ op' \in Ops /\ op'.step = "cleanup" /\ op'.kind = op.kind /\ op'.wgt = op.wgt
        /\ op'.force = op.force
    BY <1>1, <1>2, OpGoto, StepsApart
  <1>4. "cleanup" \notin Unpacked \union Moved /\ "cleanup" \notin Forced
    BY StepsApart
  <1>5. QED
    BY <1>3, <1>4, Passes

\* What is known of the installation in progress.
LEMMA Facts ==
    ASSUME IInv, op.kind = "install"
    PROVE  /\ op \in Ops /\ op.wgt \in Packages /\ op.wgt.id \in Ids /\ op.wgt.id \in AllDirs
           /\ op.wgt \in Held /\ op.wgt # Void /\ op.step # "idle"
           /\ op.force \in BOOLEAN /\ op.ok \in BOOLEAN
           /\ op.step \in (Unpacked \ {"check"}) \union Moved => op.desc = op.wgt
  BY OpFields, IdOf DEF IInv, UnitsInv, ToolTypeOK

\* Only installations are in progress.
LEMMA OnlyInstall ==
    ASSUME IInv, NEW kinds, NEW step, "none" \notin kinds, At(kinds, step)
    PROVE  op.kind = "install" /\ op.step = step
  BY OpFields DEF IInv, UnitsInv, ToolTypeOK, At

LEMMA DieKeeps == ASSUME IInv, Die  PROVE IInv'
  <1>1. op.kind = "install"
    BY OpFields DEF IInv, UnitsInv, ToolTypeOK, Die
  <1>2. op' = [op EXCEPT !.step = "dead"] /\ UNCHANGED <<dirs, units, icons, workdir, tainted, saved>>
    BY DEF Die, Goto
  <1>3. /\ op' \in Ops /\ op'.step = "dead" /\ op'.kind = op.kind /\ op'.wgt = op.wgt
        /\ op'.force = op.force
    BY <1>1, <1>2, Facts, OpGoto, StepsApart
  <1>4. "dead" \notin Unpacked \union Moved /\ "dead" \notin Forced
    BY StepsApart
  <1>5. QED
    BY <1>1, <1>2, <1>3, <1>4, Passes

LEMMA InfoDescCheckKeeps == ASSUME IInv, InfoDescCheck  PROVE IInv'
  <1>1. op.kind = "install" /\ op.step = "check"
    BY OnlyInstall DEF InfoDescCheck
  <1>2. UNCHANGED <<dirs, units, icons, workdir, tainted, saved>>
    BY DEF InfoDescCheck
  <1>3. op.step \in Unpacked
    BY <1>1 DEF Unpacked
  <1>4. workdir \in ToSet(Temps) /\ workdir # Void /\ dirs[workdir] = op.wgt
    BY <1>3, TempsApart DEF IInv, UnitsInv, InPlace
  <1>5. FailTo \/ op' = [op EXCEPT !.desc = op.wgt, !.step = "target"]
    BY <1>1, <1>4 DEF InfoDescCheck
  <1>6. CASE FailTo
    BY <1>1, <1>2, <1>3, <1>6, Fails
  <1>7. CASE op' = [op EXCEPT !.desc = op.wgt, !.step = "target"]
    <2>1. "target" \in Steps /\ "target" \in Unpacked /\ "target" \notin Forced /\ "target" \notin Moved
      BY DEF Steps, Unpacked, Forced, Moved
    <2>2. /\ op' \in Ops /\ op'.step = "target" /\ op'.kind = op.kind /\ op'.wgt = op.wgt
          /\ op'.desc = op.wgt /\ op'.force = op.force
      BY <1>1, <1>7, <2>1, Facts, OpDesc
    <2>3. QED
      BY <1>1, <1>2, <1>3, <2>1, <2>2, Passes
  <1>8. QED
    BY <1>5, <1>6, <1>7

LEMMA TargetKeeps == ASSUME IInv, Target  PROVE IInv'
  <1>1. op.kind = "install" /\ op.step = "target"
    BY OnlyInstall DEF Target
  <1>2. UNCHANGED <<dirs, units, icons, workdir, tainted, saved>>
    BY DEF Target
  <1>3. op.step \in Unpacked /\ op.desc = op.wgt
    BY <1>1, Facts DEF Unpacked
  <1>4. op.force = TRUE \/ op.force = FALSE
    BY <1>1, Facts
  <1>5. CASE FailTo
    BY <1>1, <1>2, <1>3, <1>5, Fails
  <1>6. CASE Goto("move") /\ dirs[op.wgt.id] = Void
    <2>1. "move" \in Steps /\ "move" \in Unpacked /\ "move" \notin Forced /\ "move" \notin Moved
      BY DEF Steps, Unpacked, Forced, Moved
    <2>2. /\ op' \in Ops /\ op'.step = "move" /\ op'.kind = op.kind /\ op'.wgt = op.wgt
          /\ op'.desc = op.desc /\ op'.force = op.force
      BY <1>1, <1>6, <2>1, Facts, OpGoto DEF Goto
    <2>3. Quiet(op.wgt.id)
      BY <1>1, <1>6, Facts DEF IInv, UnitsInv, UnitsHaveFiles, Quiet
    <2>4. Quiet(op.wgt.id)'
      BY <1>2, <2>2, <2>3 DEF Quiet
    <2>5. QED
      BY <1>1, <1>2, <1>3, <1>6, <2>1, <2>2, <2>4, Passes
  <1>7. CASE Goto("oldinfo") /\ dirs[op.wgt.id] # Void /\ op.force = TRUE
    <2>1. "oldinfo" \in Steps /\ "oldinfo" \in Unpacked /\ "oldinfo" \notin Moved
      BY DEF Steps, Unpacked, Moved
    <2>2. /\ op' \in Ops /\ op'.step = "oldinfo" /\ op'.kind = op.kind /\ op'.wgt = op.wgt
          /\ op'.desc = op.desc /\ op'.force = op.force
      BY <1>1, <1>7, <2>1, Facts, OpGoto DEF Goto
    <2>3. QED
      BY <1>1, <1>2, <1>3, <1>7, <2>1, <2>2, Passes
  <1>8. QED
    BY <1>3, <1>4, <1>5, <1>6, <1>7 DEF Target

\* The steps of uninstall_at, of a forced installation.
LEMMA OldStep ==
    ASSUME IInv, op.kind = "install", op.step \in Forced
    PROVE  /\ op.step \in Unpacked /\ op.desc = op.wgt /\ op.force = TRUE /\ dirs[op.wgt.id] # Void
           /\ workdir \in ToSet(Temps) /\ dirs[workdir] = op.wgt
  <1>1. op.step \in Unpacked /\ op.step # "check"
    BY DEF Unpacked, Forced
  <1>2. op.force = TRUE \/ op.force = FALSE
    BY Facts
  <1>3. QED
    BY <1>1, <1>2, Facts DEF IInv, UnitsInv, InPlace, Unforced

\* Passing from one of them to the next, when nothing is changed.
LEMMA OldPasses ==
    ASSUME IInv, op.kind = "install", op.step \in Forced, UNCHANGED <<dirs, units, icons, workdir, saved>>,
           tainted \subseteq tainted', NEW x \in Forced, NEW b \in BOOLEAN,
           op' = [op EXCEPT !.step = x] \/ op' = [op EXCEPT !.step = x, !.ok = b],
           x \in {"oldicon", "oldrules", "oldremove"} => op.wgt.id \in tainted' \/ Quiet(op.wgt.id)
    PROVE  IInv'
  <1>1. /\ op.step \in Unpacked /\ op.desc = op.wgt /\ op.force = TRUE /\ dirs[op.wgt.id] # Void
    BY OldStep
  <1>2. x \in Steps /\ x \in Unpacked /\ x \notin Moved /\ x # "move"
    BY DEF Steps, Unpacked, Moved, Forced
  <1>3. /\ op' \in Ops /\ op'.step = x /\ op'.kind = op.kind /\ op'.wgt = op.wgt
        /\ op'.desc = op.desc /\ op'.force = op.force
    <2>1. op \in Ops
      BY Facts
    <2>2. CASE op' = [op EXCEPT !.step = x]
      BY <1>2, <2>1, <2>2, OpGoto
    <2>3. CASE op' = [op EXCEPT !.step = x, !.ok = b]
      BY <1>2, <2>1, <2>3, OpSet
    <2>4. QED
      BY <2>2, <2>3
  <1>4. x \in {"oldicon", "oldrules", "oldremove"} => Quiet(op.wgt.id)'
    <2>1. PICK i : i = op.wgt.id
      OBVIOUS
    <2>2. x \in {"oldicon", "oldrules", "oldremove"} => Quiet(i)'
      BY <2>1 DEF Quiet
    <2>3. op'.wgt.id = i
      BY <1>3, <2>1
    <2>4. QED
      BY <2>2, <2>3 DEF Quiet
  <1>5. op'.step \in {"rules", "modes", "units"} => op'.step \in Moved
    BY DEF Moved
  <1>6. QED
    BY <1>1, <1>2, <1>3, <1>4, <1>5, Passes

LEMMA OldInfoKeeps == ASSUME IInv, OldInfo  PROVE IInv'
  <1>1. op.kind = "install" /\ op.step = "oldinfo"
    BY OnlyInstall DEF OldInfo
  <1>2. UNCHANGED <<dirs, units, icons, workdir, saved>>
    BY DEF OldInfo
  <1>3. op.step \in Forced /\ "oldunits" \in Forced /\ "oldremove" \in Forced
    BY <1>1 DEF Forced
  <1>4. op.desc = op.wgt
    BY <1>1, <1>3, OldStep
  <1>5. CASE op' = [op EXCEPT !.step = "oldunits", !.desc = IF op.kind = "remove" THEN dirs[op.dir] ELSE @]
             /\ UNCHANGED tainted
    <2>1. op' = [op EXCEPT !.step = "oldunits"]
      BY <1>1, <1>5, Facts DEF Ops
    <2>2. QED
      BY <1>1, <1>2, <1>3, <1>5, <2>1, OldPasses
  <1>6. CASE op' = [op EXCEPT !.step = "oldremove", !.ok = TRUE] /\ tainted' = tainted \union {op.desc.id}
    BY <1>1, <1>2, <1>3, <1>4, <1>6, OldPasses
  <1>7. QED
    BY <1>1, <1>5, <1>6 DEF OldInfo

\* A step of a forced installation that has not reached its end.
LEMMA ForcedKeeps ==
    ASSUME op'.force = TRUE, ToolTypeOK', InPlace', UnitsHaveFiles',
           op'.step \in Unpacked \union {"cleanup"}
    PROVE  IInv'
  <1>1. op'.step \notin {"rules", "modes", "units", "end"}
    BY DEF Unpacked
  <1>2. Iconed' /\ Unforced'
    BY <1>1 DEF Iconed, Unforced
  <1>3. QED
    BY <1>2 DEF IInv, UnitsInv

LEMMA SetdownUnitsKeeps == ASSUME IInv, SetdownUnits  PROVE IInv'
  <1>1. op.kind = "install" /\ op.step = "oldunits"
    BY OnlyInstall DEF SetdownUnits
  <1>2. UNCHANGED <<dirs, icons, workdir, saved>> /\ op' = [op EXCEPT !.step = "oldicon"]
    BY DEF SetdownUnits, Goto
  <1>3. op.step \in Forced /\ "oldicon" \in Forced /\ "oldicon" \in Steps /\ "oldicon" \in Unpacked
        /\ "oldicon" \notin Moved
    BY <1>1 DEF Forced, Steps, Unpacked, Moved
  <1>4. op.desc = op.wgt /\ op.force = TRUE /\ dirs[op.wgt.id] # Void /\ workdir \in ToSet(Temps)
        /\ dirs[workdir] = op.wgt
    BY <1>1, <1>3, OldStep
  <1>5. CASE tainted' = tainted \union {op.desc.id} /\ UNCHANGED units
    BY <1>1, <1>2, <1>3, <1>4, <1>5, OldPasses
  <1>6. CASE units' = [units EXCEPT ![op.desc.id] = Void] /\ UNCHANGED tainted
    <2>1. /\ op' \in Ops /\ op'.step = "oldicon" /\ op'.kind = op.kind /\ op'.wgt = op.wgt
          /\ op'.desc = op.desc /\ op'.force = op.force
      BY <1>1, <1>2, <1>3, Facts, OpGoto
    <2>2. op.wgt.id \in Ids /\ op.wgt \in Packages
      BY <1>1, Facts
    <2>3. ToolTypeOK /\ UnitsHaveFiles
      BY DEF IInv, UnitsInv
    <2>4. /\ units' \in Tables /\ units'[op.wgt.id] = Void
          /\ \A i \in Ids : i # op.wgt.id => units'[i] = units[i]
      BY <1>4, <1>6, <2>2, <2>3 DEF ToolTypeOK, Tables, Held
    <2>5. ToolTypeOK'
      BY <1>1, <1>2, <1>4, <2>1, <2>2, <2>3, <2>4 DEF ToolTypeOK
    <2>6. InPlace'
      BY <1>2, <1>3, <1>4, <2>1, <2>4 DEF InPlace, Quiet
    <2>7. UnitsHaveFiles'
      BY <1>2, <1>6, <2>3, <2>4 DEF UnitsHaveFiles
    <2>8. QED
      BY <1>3, <1>4, <2>1, <2>5, <2>6, <2>7, ForcedKeeps
  <1>7. QED
    BY <1>5, <1>6 DEF SetdownUnits

LEMMA SetdownIconKeeps == ASSUME IInv, SetdownIcon  PROVE IInv'
  <1>1. op.kind = "install" /\ op.step = "oldicon"
    BY OnlyInstall DEF SetdownIcon
  <1>2. UNCHANGED <<dirs, units, workdir, tainted, saved>>
    BY DEF SetdownIcon
  <1>3. op.step \in Forced /\ "oldrules" \in Forced /\ "oldremove" \in Forced
        /\ "oldrules" \in Steps /\ "oldrules" \in Unpacked /\ "oldrules" \notin Moved
    BY <1>1 DEF Forced, Steps, Unpacked, Moved
  <1>4. op.desc = op.wgt /\ op.force = TRUE /\ dirs[op.wgt.id] # Void /\ workdir \in ToSet(Temps)
        /\ dirs[workdir] = op.wgt
    BY <1>1, <1>3, OldStep
  <1>5. Quiet(op.wgt.id)
    BY <1>1 DEF IInv, UnitsInv, InPlace
  <1>6. CASE AfterSetdown /\ UNCHANGED icons
    <2>1. op' = [op EXCEPT !.step = "oldremove"]
      BY <1>1, <1>6 DEF AfterSetdown, Goto
    <2>2. QED
      BY <1>1, <1>2, <1>3, <1>5, <1>6, <2>1, OldPasses
  <1>7. CASE icons' = [icons EXCEPT ![op.desc.id] = Void] /\ Goto("oldrules")
    <2>1. /\ op' \in Ops /\ op'.step = "oldrules" /\ op'.kind = op.kind /\ op'.wgt = op.wgt
          /\ op'.desc = op.desc /\ op'.force = op.force
      BY <1>1, <1>3, <1>7, Facts, OpGoto DEF Goto
    <2>2. op.wgt.id \in Ids /\ op.wgt \in Packages
      BY <1>1, Facts
    <2>3. ToolTypeOK /\ UnitsHaveFiles
      BY DEF IInv, UnitsInv
    <2>4. icons' \in Tables
      BY <1>7, <2>3 DEF ToolTypeOK, Tables, Held
    <2>5. ToolTypeOK'
      BY <1>1, <1>2, <1>4, <2>1, <2>2, <2>3, <2>4 DEF ToolTypeOK
    <2>6. InPlace'
      BY <1>2, <1>3, <1>4, <1>5, <2>1 DEF InPlace, Quiet
    <2>7. UnitsHaveFiles'
      BY <1>2, <2>3 DEF UnitsHaveFiles
    <2>8. QED
      BY <1>3, <1>4, <2>1, <2>5, <2>6, <2>7, ForcedKeeps
  <1>8. QED
    BY <1>6, <1>7 DEF SetdownIcon

LEMMA SetdownSecurityKeeps == ASSUME IInv, SetdownSecurity  PROVE IInv'
  <1>1. op.kind = "install" /\ op.step = "oldrules"
    BY OnlyInstall DEF SetdownSecurity
  <1>2. UNCHANGED <<dirs, units, icons, workdir, tainted, saved>> /\ op' = [op EXCEPT !.step = "oldremove"]
    BY <1>1 DEF SetdownSecurity, AfterSetdown, Goto
  <1>3. op.step \in Forced /\ "oldremove" \in Forced
    BY <1>1 DEF Forced
  <1>4. Quiet(op.wgt.id)
    BY <1>1 DEF IInv, UnitsInv, InPlace
  <1>5. QED
    BY <1>1, <1>2, <1>3, <1>4, OldPasses

LEMMA RemoveOldKeeps == ASSUME IInv, RemoveOld  PROVE IInv'
  <1>1. op.kind = "install" /\ op.step = "oldremove"
    BY OnlyInstall DEF RemoveOld
  <1>2. UNCHANGED <<icons, units, workdir, tainted, saved>>
    BY DEF RemoveOld
  <1>3. op.step \in Forced
    BY <1>1 DEF Forced
  <1>4. op.desc = op.wgt /\ op.force = TRUE /\ dirs[op.wgt.id] # Void /\ workdir \in ToSet(Temps)
        /\ dirs[workdir] = op.wgt
    BY <1>1, <1>3, OldStep
  <1>5. Quiet(op.wgt.id)
    BY <1>1 DEF IInv, UnitsInv, InPlace
  <1>6. op \in Ops /\ op.wgt.id \in Ids /\ op.wgt.id \in AllDirs /\ op.wgt \in Packages
    BY <1>1, Facts
  <1>7. ToolTypeOK /\ UnitsHaveFiles
    BY DEF IInv, UnitsInv
  <1>8. workdir \notin Ids /\ workdir \in AllDirs
    BY <1>4, TempsApart
  <1>9. PICK x \in {"move", "cleanup"} :
            /\ op' = [op EXCEPT !.step = x]
            /\ x = "move" => dirs' = [dirs EXCEPT ![op.wgt.id] = Void]
            /\ x = "cleanup" => dirs' = dirs \/ dirs' = [dirs EXCEPT ![op.wgt.id].config = FALSE,
                                                                     ![op.wgt.id].files = <<>>]
    BY <1>1, <1>4 DEF RemoveOld, FailTo, Goto
  <1>10. x \in Steps /\ x \in Unpacked \union {"cleanup"} /\ x \notin Forced /\ x \notin Moved
         /\ x \notin {"read", "check", "idle", "oldicon", "oldrules", "oldremove"}
    BY DEF Steps, Unpacked, Forced, Moved
  <1>11. /\ op' \in Ops /\ op'.step = x /\ op'.kind = op.kind /\ op'.wgt = op.wgt
         /\ op'.desc = op.desc /\ op'.force = op.force
    BY <1>6, <1>9, <1>10, OpGoto
  <1>12. dirs' \in Disks /\ \A d \in AllDirs : d # op.wgt.id => dirs'[d] = dirs[d]
    <2>1. dirs \in Disks
      BY <1>7 DEF ToolTypeOK
    <2>2. CASE dirs' = [dirs EXCEPT ![op.wgt.id] = Void]
      BY <1>6, <2>1, <2>2 DEF Disks, Held
    <2>3. CASE dirs' = dirs
      BY <2>1, <2>3
    <2>4. CASE dirs' = [dirs EXCEPT ![op.wgt.id].config = FALSE, ![op.wgt.id].files = <<>>]
      <3>1. PICK i \in AllDirs : i = op.wgt.id
        BY <1>6
      <3>2. PICK w \in Widgets : w = dirs[i]
        BY <1>4, <2>1, <3>1 DEF Disks, Held
      <3>3. dirs' = [dirs EXCEPT ![i] = [w EXCEPT !.config = FALSE, !.files = <<>>]]
        BY <2>1, <2>4, <3>1, <3>2 DEF Disks
      <3>4. [w EXCEPT !.config = FALSE, !.files = <<>>] \in Held
        BY EmptiedHeld DEF Held
      <3>5. QED
        BY <2>1, <3>1, <3>3, <3>4 DEF Disks
    <2>5. QED
      BY <1>9, <2>2, <2>3, <2>4
  <1>13. ToolTypeOK'
    BY <1>1, <1>2, <1>4, <1>6, <1>7, <1>10, <1>11, <1>12 DEF ToolTypeOK
  <1>14. InPlace'
    <2>1. op.wgt # Void /\ dirs'[workdir] = op.wgt
      BY <1>4, <1>6, <1>8, <1>12, IdOf
    <2>2. QED
      BY <1>2, <1>4, <1>5, <1>6, <1>8, <1>10, <1>11, <2>1 DEF InPlace, Quiet
  <1>15. UnitsHaveFiles'
    <2>1. \A i \in Ids : i \in AllDirs
      BY DEF AllDirs
    <2>2. QED
      BY <1>2, <1>5, <1>7, <1>12, <2>1 DEF UnitsHaveFiles, Quiet
  <1>16. QED
    BY <1>4, <1>10, <1>11, <1>13, <1>14, <1>15, ForcedKeeps

LEMMA MakeWorkdirKeeps == ASSUME IInv, MakeWorkdir  PROVE IInv'
  <1>1. op.kind = "install" /\ op.step = "workdir"
    BY OnlyInstall DEF MakeWorkdir
  <1>2. UNCHANGED <<icons, units, tainted, saved>>
    BY DEF MakeWorkdir
  <1>3. op \in Ops /\ op.wgt.id \in Ids /\ op.wgt \in Packages
    BY <1>1, Facts
  <1>4. ToolTypeOK /\ UnitsHaveFiles /\ Unforced
    BY DEF IInv, UnitsInv
  <1>5. CASE Finish(FALSE) /\ workdir' = Void /\ UNCHANGED dirs
    <2>1. /\ op' \in Ops /\ op'.step = "end" /\ op'.kind = op.kind /\ op'.wgt = op.wgt
          /\ op'.desc = op.desc /\ op'.force = op.force /\ op'.ok = FALSE
      BY <1>3, <1>5, OpSet, StepsApart DEF Finish
    <2>2. "end" \notin Unpacked \union Moved /\ "end" \notin Forced
      BY StepsApart
    <2>3. ToolTypeOK'
      BY <1>1, <1>2, <1>3, <1>4, <1>5, <2>1, <2>2 DEF ToolTypeOK
    <2>4. InPlace' /\ Iconed'
      BY <2>1, <2>2 DEF InPlace, Iconed
    <2>5. UnitsHaveFiles'
      BY <1>2, <1>4, <1>5 DEF UnitsHaveFiles
    <2>6. Unforced'
      BY <1>1, <1>2, <1>4, <1>5, <2>1, <2>2 DEF Unforced, Contained
    <2>7. QED
      BY <2>3, <2>4, <2>5, <2>6 DEF IInv, UnitsInv
  <1>6. CASE /\ LET free == {i \in DOMAIN Temps : dirs[Temps[i]] = Void}
                IN  free # {} /\ workdir' = Temps[Min(free)]
             /\ dirs' = [dirs EXCEPT ![workdir'] = [op.wgt EXCEPT !.config = FALSE, !.files = <<>>]]
             /\ Goto("read")
    <2>1. workdir' \in ToSet(Temps) /\ dirs[workdir'] = Void
      <3>1. PICK free \in SUBSET DOMAIN Temps :
                /\ free = {i \in DOMAIN Temps : dirs[Temps[i]] = Void}
                /\ free # {} /\ workdir' = Temps[Min(free)]
        BY <1>6
      <3>2. Min(free) \in free
        BY <3>1, FirstFree
      <3>3. Min(free) \in DOMAIN Temps /\ dirs[Temps[Min(free)]] = Void
        BY <3>1, <3>2
      <3>4. QED
        BY <3>1, <3>3, DirsAssumption DEF ToSet
    <2>2. workdir' \in AllDirs /\ workdir' \notin Ids
      BY <2>1, TempsApart
    <2>3. [op.wgt EXCEPT !.config = FALSE, !.files = <<>>] \in Widgets
      <3>1. PICK w \in Widgets : w = op.wgt
        BY <1>3, WidgetsAssumption
      <3>2. QED
        BY <3>1, EmptiedHeld
    <2>4. dirs' \in Disks /\ dirs'[workdir'] # Void /\ \A d \in AllDirs : d # workdir' => dirs'[d] = dirs[d]
      <3>1. PICK w \in Widgets : w = [op.wgt EXCEPT !.config = FALSE, !.files = <<>>]
        BY <2>3
      <3>2. dirs' = [dirs EXCEPT ![workdir'] = w]
        BY <1>6, <3>1
      <3>3. QED
        BY <1>4, <2>2, <3>2, VoidAssumption DEF ToolTypeOK, Disks, Held
    <2>5. "read" \notin Unpacked \union Moved /\ "read" \notin Forced /\ "read" \in Steps
      BY StepsApart
    <2>6. /\ op' \in Ops /\ op'.step = "read" /\ op'.kind = op.kind /\ op'.wgt = op.wgt
          /\ op'.desc = op.desc /\ op'.force = op.force
      BY <1>3, <1>6, <2>5, OpGoto DEF Goto
    <2>7. ToolTypeOK'
      BY <1>1, <1>2, <1>3, <1>4, <2>2, <2>4, <2>5, <2>6 DEF ToolTypeOK
    <2>8. InPlace' /\ Iconed'
      BY <2>1, <2>4, <2>5, <2>6 DEF InPlace, Iconed
    <2>9. UnitsHaveFiles'
      <3>1. \A i \in Ids : i \in AllDirs /\ i # workdir'
        BY <2>2 DEF AllDirs
      <3>2. QED
        BY <1>2, <1>4, <2>4, <3>1 DEF UnitsHaveFiles
    <2>10. Unforced'
      <3>1. op.force = FALSE => dirs = saved.dirs /\ units = saved.units
        BY <1>1, <1>4 DEF Unforced
      <3>2. op.force = FALSE => OnlyWorkdir'
        BY <1>2, <2>1, <2>4, <2>6, <3>1 DEF OnlyWorkdir
      <3>3. QED
        BY <2>5, <2>6, <3>2 DEF Unforced
    <2>11. QED
      BY <2>7, <2>8, <2>9, <2>10 DEF IInv, UnitsInv
  <1>7. QED
    BY <1>5, <1>6 DEF MakeWorkdir

LEMMA ZReadKeeps == ASSUME IInv, ZRead  PROVE IInv'
  <1>1. op.kind = "install" /\ op.step = "read"
    BY OnlyInstall DEF ZRead
  <1>2. UNCHANGED <<icons, units, workdir, tainted, saved>>
    BY DEF ZRead
  <1>3. op \in Ops /\ op.wgt.id \in Ids /\ op.wgt \in Packages /\ op.wgt \in Held
    BY <1>1, Facts
  <1>4. ToolTypeOK /\ InPlace /\ UnitsHaveFiles /\ Unforced
    BY DEF IInv, UnitsInv
  <1>5. CASE FailTo /\ UNCHANGED dirs
    BY <1>1, <1>2, <1>5, Fails
  <1>6. CASE dirs' = [dirs EXCEPT ![workdir] = op.wgt] /\ Goto("check")
    <2>1. workdir \in ToSet(Temps)
      BY <1>1, <1>4 DEF InPlace
    <2>2. workdir \in AllDirs /\ workdir \notin Ids
      BY <2>1, TempsApart
    <2>3. /\ dirs' \in Disks /\ dirs'[workdir] = op.wgt
          /\ \A d \in AllDirs : d # workdir => dirs'[d] = dirs[d]
      BY <1>3, <1>4, <1>6, <2>2 DEF ToolTypeOK, Disks
    <2>4. "check" \in Unpacked /\ "check" \in Steps /\ "check" \notin Moved /\ "check" \notin Forced
      BY DEF Unpacked, Steps, Moved, Forced
    <2>5. /\ op' \in Ops /\ op'.step = "check" /\ op'.kind = op.kind /\ op'.wgt = op.wgt
          /\ op'.desc = op.desc /\ op'.force = op.force
      BY <1>3, <1>6, <2>4, OpGoto DEF Goto
    <2>6. ToolTypeOK'
      BY <1>1, <1>2, <1>3, <1>4, <2>3, <2>4, <2>5 DEF ToolTypeOK
    <2>7. InPlace' /\ Iconed'
      BY <1>2, <2>1, <2>3, <2>4, <2>5 DEF InPlace, Iconed
    <2>8. UnitsHaveFiles'
      <3>1. \A i \in Ids : i \in AllDirs /\ i # workdir
        BY <2>2 DEF AllDirs
      <3>2. QED
        BY <1>2, <1>4, <2>3, <3>1 DEF UnitsHaveFiles
    <2>9. Unforced'
      <3>1. op.force = FALSE => OnlyWorkdir
        BY <1>1, <1>4 DEF Unforced
      <3>2. op.force = FALSE => OnlyWorkdir'
        BY <1>2, <2>3, <2>5, <3>1 DEF OnlyWorkdir
      <3>3. QED
        BY <2>4, <2>5, <3>2 DEF Unforced
    <2>10. QED
      BY <2>6, <2>7, <2>8, <2>9 DEF IInv, UnitsInv
  <1>7. QED
    BY <1>5, <1>6 DEF ZRead

LEMMA MoveWorkdirKeeps == ASSUME IInv, MoveWorkdir  PROVE IInv'
  <1>1. op.kind = "install" /\ op.step = "move"
    BY OnlyInstall DEF MoveWorkdir
  <1>2. UNCHANGED <<icons, units, tainted, saved>>
    BY DEF MoveWorkdir
  <1>3. op \in Ops /\ op.wgt.id \in Ids /\ op.wgt.id \in AllDirs /\ op.wgt \in Packages /\ op.wgt \in Held
    BY <1>1, Facts
  <1>4. ToolTypeOK /\ InPlace /\ UnitsHaveFiles /\ Unforced
    BY DEF IInv, UnitsInv
  <1>5. op.step \in Unpacked /\ op.desc = op.wgt
    BY <1>1, Facts DEF Unpacked
  <1>6. workdir \in ToSet(Temps) /\ dirs[workdir] = op.wgt /\ Quiet(op.wgt.id)
    BY <1>1, <1>4, <1>5 DEF InPlace
  <1>7. workdir \in AllDirs /\ workdir \notin Ids /\ workdir # op.wgt.id
    BY <1>3, <1>6, TempsApart
  <1>8. op.force = FALSE => OnlyWorkdir /\ dirs[op.wgt.id] = Void
    BY <1>1, <1>4, <1>5 DEF Unforced
  <1> DEFINE moved == [dirs EXCEPT ![op.wgt.id] = dirs[workdir], ![workdir] = Void]
  <1>9. /\ moved \in Disks /\ moved[op.wgt.id] = op.wgt /\ moved[workdir] = Void
        /\ \A d \in AllDirs : d # workdir /\ d # op.wgt.id => moved[d] = dirs[d]
    BY <1>3, <1>4, <1>6, <1>7 DEF ToolTypeOK, Disks, Held
  <1>10. \A i \in Ids : i \in AllDirs /\ i # workdir
    BY <1>7 DEF AllDirs
  <1>11. dirs' = dirs \/ dirs' = moved => dirs' \in Disks /\ UnitsHaveFiles'
    <2>1. dirs' \in {dirs, moved} => dirs' \in Disks
      BY <1>4, <1>9 DEF ToolTypeOK
    <2>2. dirs' = dirs => UnitsHaveFiles'
      BY <1>2, <1>4 DEF UnitsHaveFiles
    <2>3. dirs' = moved => UnitsHaveFiles'
      BY <1>2, <1>4, <1>6, <1>9, <1>10 DEF UnitsHaveFiles, Quiet
    <2>4. QED
      BY <2>1, <2>2, <2>3
  <1> HIDE DEF moved
  <1>12. CASE FailTo /\ UNCHANGED <<dirs, workdir>>
    BY <1>1, <1>2, <1>5, <1>12, Fails
  <1>13. CASE FailTo /\ workdir' = Void /\ dirs' \in {dirs, moved}
    <2>1. "cleanup" \notin Unpacked \union Moved /\ "cleanup" \notin Forced /\ "cleanup" \in Steps
      BY StepsApart
    <2>2. /\ op' \in Ops /\ op'.step = "cleanup" /\ op'.kind = op.kind /\ op'.wgt = op.wgt
          /\ op'.desc = op.desc /\ op'.force = op.force
      BY <1>1, <1>3, <1>13, <2>1, OpGoto DEF FailTo, Goto
    <2>3. ToolTypeOK'
      BY <1>1, <1>2, <1>3, <1>4, <1>11, <1>13, <2>1, <2>2 DEF ToolTypeOK
    <2>4. workdir' \notin AllDirs /\ workdir' \notin Ids
      BY <1>13, VoidAssumption DEF AllDirs
    <2>5. InPlace' /\ Iconed'
      BY <2>1, <2>2, <2>4 DEF InPlace, Iconed
    <2>6. op.force = FALSE => OnlyWorkdir'
      BY <1>2, <1>8, <2>2, <2>4 DEF OnlyWorkdir
    <2>7. Unforced'
      BY <2>1, <2>2, <2>6 DEF Unforced
    <2>8. QED
      BY <1>11, <1>13, <2>3, <2>5, <2>7 DEF IInv, UnitsInv
  <1>14. CASE dirs' = moved /\ workdir' = op.wgt.id /\ Goto("icon")
    <2>1. "icon" \notin Unpacked /\ "icon" \in Moved /\ "icon" \notin Forced /\ "icon" \in Steps
      BY DEF Unpacked, Moved, Forced, Steps
    <2>2. /\ op' \in Ops /\ op'.step = "icon" /\ op'.kind = op.kind /\ op'.wgt = op.wgt
          /\ op'.desc = op.desc /\ op'.force = op.force
      BY <1>3, <1>14, <2>1, OpGoto DEF Goto
    <2>3. ToolTypeOK'
      BY <1>1, <1>2, <1>3, <1>4, <1>5, <1>11, <1>14, <2>1, <2>2 DEF ToolTypeOK
    <2>4. InPlace' /\ Iconed'
      BY <1>2, <1>6, <1>9, <1>14, <2>1, <2>2 DEF InPlace, Iconed, Quiet
    <2>5. op.force = FALSE => OnlyWorkdir'
      BY <1>2, <1>3, <1>7, <1>8, <1>9, <1>14, <2>2 DEF OnlyWorkdir
    <2>6. Unforced'
      BY <2>1, <2>2, <2>5 DEF Unforced
    <2>7. QED
      BY <1>11, <1>14, <2>3, <2>4, <2>6 DEF IInv, UnitsInv
  <1>15. QED
    BY <1>5, <1>12, <1>13, <1>14 DEF MoveWorkdir, moved

\* The steps that set up the widget at its place.
LEMMA MovedStep ==
    ASSUME IInv, op.kind = "install", op.step \in Moved
    PROVE  op.desc = op.wgt /\ workdir = op.wgt.id /\ dirs[op.wgt.id] = op.wgt /\ Quiet(op.wgt.id)
  BY Facts DEF IInv, UnitsInv, InPlace

\* Passing from one of them to the next, when nothing is changed.
LEMMA MovedPasses ==
    ASSUME IInv, op.kind = "install", op.step \in Moved, NEW x \in Moved, Goto(x),
           UNCHANGED <<dirs, units, icons, workdir, tainted, saved>>,
           x \in {"rules", "modes", "units"} /\ op.wgt.icon # <<>> => icons[op.wgt.id] = op.wgt
    PROVE  IInv'
  <1>1. x \in Steps /\ x \notin Unpacked /\ x \notin Forced /\ x \notin {"dead", "cleanup"}
        /\ x \notin {"oldicon", "oldrules", "oldremove", "move"}
    BY DEF Steps, Unpacked, Forced, Moved
  <1>2. /\ op' \in Ops /\ op'.step = x /\ op'.kind = op.kind /\ op'.wgt = op.wgt
        /\ op'.desc = op.desc /\ op'.force = op.force
    BY <1>1, Facts, OpGoto DEF Goto
  <1>3. op.desc = op.wgt
    BY MovedStep
  <1>4. QED
    BY <1>1, <1>2, <1>3, Passes

LEMMA InstallIconKeeps == ASSUME IInv, InstallIcon  PROVE IInv'
  <1>1. op.kind = "install" /\ op.step = "icon"
    BY OnlyInstall DEF InstallIcon
  <1>2. UNCHANGED <<dirs, units, workdir, tainted, saved>>
    BY DEF InstallIcon
  <1>3. op.step \in Moved /\ "rules" \in Moved
    BY <1>1 DEF Moved
  <1>4. op.desc = op.wgt /\ workdir = op.wgt.id /\ dirs[op.wgt.id] = op.wgt /\ Quiet(op.wgt.id)
    BY <1>1, <1>3, MovedStep
  <1>5. CASE FailTo /\ UNCHANGED icons
    BY <1>1, <1>2, <1>3, <1>5, Fails
  <1>6. CASE Goto("rules") /\ op.wgt.icon = <<>> /\ UNCHANGED icons
    BY <1>1, <1>2, <1>3, <1>6, MovedPasses
  <1>7. CASE Goto("rules") /\ icons' = [icons EXCEPT ![op.wgt.id] = op.wgt]
    <2>1. op \in Ops /\ op.wgt.id \in Ids /\ op.wgt \in Packages /\ op.wgt \in Held
      BY <1>1, Facts
    <2>2. ToolTypeOK /\ UnitsHaveFiles /\ Unforced
      BY DEF IInv, UnitsInv
    <2>3. icons' \in Tables /\ icons'[op.wgt.id] = op.wgt
      BY <1>7, <2>1, <2>2 DEF ToolTypeOK, Tables
    <2>4. "rules" \in Steps /\ "rules" \notin Unpacked /\ "rules" \notin Forced
      BY DEF Steps, Unpacked, Forced, Moved
    <2>5. /\ op' \in Ops /\ op'.step = "rules" /\ op'.kind = op.kind /\ op'.wgt = op.wgt
          /\ op'.desc = op.desc /\ op'.force = op.force
      BY <1>7, <2>1, <2>4, OpGoto DEF Goto
    <2>6. ToolTypeOK'
      BY <1>1, <1>2, <1>4, <2>1, <2>2, <2>3, <2>5 DEF ToolTypeOK
    <2>7. InPlace' /\ Iconed'
      BY <1>2, <1>3, <1>4, <2>3, <2>4, <2>5 DEF InPlace, Iconed, Quiet
    <2>8. UnitsHaveFiles'
      BY <1>2, <2>2 DEF UnitsHaveFiles
    <2>9. Unforced'
      <3>1. op.force = FALSE => OnlyWorkdir
        BY <1>1, <1>3, <2>2 DEF Unforced
      <3>2. op.force = FALSE => OnlyWorkdir'
        BY <1>2, <2>5, <3>1 DEF OnlyWorkdir
      <3>3. QED
        BY <2>4, <2>5, <3>2 DEF Unforced
    <2>10. QED
      BY <2>6, <2>7, <2>8, <2>9 DEF IInv, UnitsInv
  <1>8. QED
    BY <1>4, <1>5, <1>6, <1>7 DEF InstallIcon

LEMMA InstallSecurityKeeps == ASSUME IInv, InstallSecurity  PROVE IInv'
  <1>1. op.kind = "install" /\ op.step = "rules"
    BY OnlyInstall DEF InstallSecurity
  <1>2. UNCHANGED <<dirs, units, icons, workdir, tainted, saved>> /\ (Goto("modes") \/ FailTo)
    BY DEF InstallSecurity
  <1>3. op.step \in Moved /\ "modes" \in Moved
    BY <1>1 DEF Moved
  <1>4. op.wgt.icon # <<>> => icons[op.wgt.id] = op.wgt
    BY <1>1 DEF IInv, Iconed
  <1>5. CASE FailTo
    BY <1>1, <1>2, <1>3, <1>5, Fails
  <1>6. CASE Goto("modes")
    BY <1>1, <1>2, <1>3, <1>4, <1>6, MovedPasses
  <1>7. QED
    BY <1>2, <1>5, <1>6

LEMMA InstallModesKeeps == ASSUME IInv, InstallModes  PROVE IInv'
  <1>1. op.kind = "install" /\ op.step = "modes"
    BY OnlyInstall DEF InstallModes
  <1>2. UNCHANGED <<dirs, units, icons, workdir, tainted, saved>> /\ (Goto("units") \/ FailTo)
    BY DEF InstallModes
  <1>3. op.step \in Moved /\ "units" \in Moved
    BY <1>1 DEF Moved
  <1>4. op.wgt.icon # <<>> => icons[op.wgt.id] = op.wgt
    BY <1>1 DEF IInv, Iconed
  <1>5. CASE FailTo
    BY <1>1, <1>2, <1>3, <1>5, Fails
  <1>6. CASE Goto("units")
    BY <1>1, <1>2, <1>3, <1>4, <1>6, MovedPasses
  <1>7. QED
    BY <1>2, <1>5, <1>6

LEMMA SetupUnitsKeeps == ASSUME IInv, SetupUnits  PROVE IInv'
  <1>1. op.kind = "install" /\ op.step = "units"
    BY OnlyInstall DEF SetupUnits
  <1>2. UNCHANGED <<dirs, icons, workdir, tainted, saved>>
    BY DEF SetupUnits
  <1>3. op.step \in Moved
    BY <1>1 DEF Moved
  <1>4. op.desc = op.wgt /\ workdir = op.wgt.id /\ dirs[op.wgt.id] = op.wgt
    BY <1>1, <1>3, MovedStep
  <1>5. CASE FailTo /\ UNCHANGED units
    BY <1>1, <1>2, <1>3, <1>5, Fails
  <1>6. CASE units' = [units EXCEPT ![op.wgt.id] = op.wgt] /\ Finish(TRUE)
    <2>1. op \in Ops /\ op.wgt.id \in Ids /\ op.wgt \in Packages /\ op.wgt \in Held
      BY <1>1, Facts
    <2>2. ToolTypeOK /\ UnitsHaveFiles /\ Iconed
      BY DEF IInv, UnitsInv
    <2>3. /\ units' \in Tables /\ units'[op.wgt.id] = op.wgt
          /\ \A i \in Ids : i # op.wgt.id => units'[i] = units[i]
      BY <1>6, <2>1, <2>2 DEF ToolTypeOK, Tables
    <2>4. "end" \in Steps /\ "end" \notin Unpacked \union Moved /\ "end" \notin Forced
      BY StepsApart
    <2>5. /\ op' \in Ops /\ op'.step = "end" /\ op'.kind = op.kind /\ op'.wgt = op.wgt
          /\ op'.desc = op.desc /\ op'.force = op.force /\ op'.ok = TRUE
      BY <1>6, <2>1, <2>4, OpSet DEF Finish
    <2>6. ToolTypeOK'
      BY <1>1, <1>2, <2>1, <2>2, <2>3, <2>4, <2>5 DEF ToolTypeOK
    <2>7. InPlace' /\ Unforced'
      BY <2>4, <2>5 DEF InPlace, Unforced
    <2>8. op.wgt.icon # <<>> => icons[op.wgt.id] = op.wgt
      BY <1>1, <2>2 DEF Iconed
    <2>9. Iconed'
      BY <1>2, <1>4, <2>3, <2>5, <2>8 DEF Iconed, Present
    <2>10. UnitsHaveFiles'
      BY <1>2, <1>4, <2>2, <2>3 DEF UnitsHaveFiles
    <2>11. QED
      BY <2>6, <2>7, <2>9, <2>10 DEF IInv, UnitsInv
  <1>7. QED
    BY <1>4, <1>5, <1>6 DEF SetupUnits

LEMMA CleanupKeeps == ASSUME IInv, Cleanup  PROVE IInv'
  <1>1. op.kind = "install" /\ op.step = "cleanup"
    BY OnlyInstall DEF Cleanup
  <1>2. UNCHANGED <<icons, units, tainted, saved>>
    BY DEF Cleanup
  <1>3. op \in Ops /\ op.wgt.id \in Ids /\ op.wgt \in Packages
    BY <1>1, Facts
  <1>4. ToolTypeOK /\ InPlace /\ UnitsHaveFiles /\ Unforced
    BY DEF IInv, UnitsInv
  <1>5. CASE Goto("dead") /\ UNCHANGED <<workdir, dirs>>
    <2>1. /\ op' \in Ops /\ op'.step = "dead" /\ op'.kind = op.kind /\ op'.wgt = op.wgt
          /\ op'.force = op.force
      BY <1>3, <1>5, OpGoto, StepsApart DEF Goto
    <2>2. "dead" \notin Unpacked \union Moved /\ "dead" \notin Forced
      BY StepsApart
    <2>3. QED
      BY <1>1, <1>2, <1>5, <2>1, <2>2, Passes
  <1>6. CASE /\ workdir # Void /\ Finish(FALSE) /\ workdir' = Void
             /\ \/ dirs' = dirs
                \/ workdir \notin Ids /\ dirs' = [dirs EXCEPT ![workdir] = Void]
                \/ workdir \notin Ids /\ dirs' = [dirs EXCEPT ![workdir].config = FALSE, ![workdir].files = <<>>]
    <2>1. workdir \in AllDirs /\ dirs \in Disks /\ dirs[workdir] # Void
      BY <1>1, <1>4, <1>6 DEF ToolTypeOK, InPlace
    <2>2. /\ dirs' \in Disks
          /\ workdir \in Ids => dirs' = dirs
          /\ \A d \in AllDirs : d # workdir => dirs'[d] = dirs[d]
      <3>1. CASE dirs' = dirs
        BY <2>1, <3>1
      <3>2. CASE workdir \notin Ids /\ dirs' = [dirs EXCEPT ![workdir] = Void]
        BY <2>1, <3>2 DEF Disks, Held
      <3>3. CASE workdir \notin Ids /\ dirs' = [dirs EXCEPT ![workdir].config = FALSE, ![workdir].files = <<>>]
        <4>1. PICK i \in AllDirs : i = workdir
          BY <2>1
        <4>2. PICK w \in Widgets : w = dirs[i]
          BY <2>1, <4>1 DEF Disks, Held
        <4>3. dirs' = [dirs EXCEPT ![i] = [w EXCEPT !.config = FALSE, !.files = <<>>]]
          BY <2>1, <3>3, <4>1, <4>2 DEF Disks
        <4>4. [w EXCEPT !.config = FALSE, !.files = <<>>] \in Held
          BY EmptiedHeld DEF Held
        <4>5. QED
          BY <2>1, <3>3, <4>1, <4>3, <4>4 DEF Disks
      <3>4. QED
        BY <1>6, <3>1, <3>2, <3>3
    <2>3. "end" \in Steps /\ "end" \notin Unpacked \union Moved /\ "end" \notin Forced
      BY StepsApart
    <2>4. /\ op' \in Ops /\ op'.step = "end" /\ op'.kind = op.kind /\ op'.wgt = op.wgt
          /\ op'.desc = op.desc /\ op'.force = op.force /\ op'.ok = FALSE
      BY <1>3, <1>6, <2>3, OpSet DEF Finish
    <2>5. ToolTypeOK'
      BY <1>1, <1>2, <1>3, <1>4, <1>6, <2>2, <2>3, <2>4 DEF ToolTypeOK
    <2>6. InPlace' /\ Iconed'
      BY <2>3, <2>4 DEF InPlace, Iconed
    <2>7. \A i \in Ids : i \in AllDirs /\ dirs'[i] = dirs[i]
      BY <2>2 DEF AllDirs
    <2>8. UnitsHaveFiles'
      BY <1>2, <1>4, <2>7 DEF UnitsHaveFiles
    <2>9. Unforced'
      <3>1. SUFFICES ASSUME op.force = FALSE  PROVE Contained'
        BY <2>3, <2>4 DEF Unforced
      <3>2. OnlyWorkdir
        BY <1>1, <1>4, <3>1 DEF Unforced
      <3>3. units' = saved'.units /\ saved.dirs[workdir] = Void
        BY <1>2, <2>1, <3>2 DEF OnlyWorkdir
      <3>4. \A d \in AllDirs : d # workdir => dirs'[d] = saved.dirs[d]
        BY <2>1, <2>2, <3>2 DEF OnlyWorkdir
      <3>5. ASSUME NEW i \in Ids
            PROVE  dirs'[i] = saved.dirs[i] \/ (i = op.wgt.id /\ saved.dirs[i] = Void /\ dirs'[i] = op.wgt)
        <4>1. CASE i # workdir
          BY <2>7, <3>4, <4>1
        <4>2. CASE i = workdir
          BY <1>1, <1>4, <2>7, <3>3, <4>2 DEF InPlace
        <4>3. QED
          BY <4>1, <4>2
      <3>6. QED
        BY <1>2, <2>4, <3>3, <3>4, <3>5 DEF Contained
    <2>10. QED
      BY <2>5, <2>6, <2>8, <2>9 DEF IInv, UnitsInv
  <1>7. QED
    BY <1>5, <1>6 DEF Cleanup

\* Nothing is in progress.
LEMMA IdleKeeps ==
    ASSUME op' = Idle, dirs' \in Disks, units' \in Tables, icons' \in Tables,
           workdir' \in AllDirs \union {Void}, UnitsHaveFiles'
    PROVE  IInv'
  <1>1. "idle" \in Steps /\ "idle" \notin Unpacked \union Moved /\ "idle" \notin Forced
    BY StepsApart
  <1>2. op' \in Ops /\ op'.kind = "none" /\ op'.step = "idle"
    BY <1>1 DEF Ops, Idle, Held
  <1>3. ToolTypeOK'
    BY <1>1, <1>2 DEF ToolTypeOK
  <1>4. InPlace' /\ Unforced' /\ Iconed'
    BY <1>1, <1>2 DEF InPlace, Unforced, Iconed
  <1>5. QED
    BY <1>3, <1>4 DEF IInv, UnitsInv

LEMMA NextWidgetKeeps == ASSUME IInv, NextWidget \/ Restart  PROVE IInv'
  <1>1. op' = Idle /\ UNCHANGED <<dirs, units, icons, tainted>> /\ workdir' \in {workdir, Void}
    BY DEF NextWidget, Restart
  <1>2. ToolTypeOK /\ UnitsHaveFiles
    BY DEF IInv, UnitsInv
  <1>3. UnitsHaveFiles'
    BY <1>1, <1>2 DEF UnitsHaveFiles
  <1>4. QED
    BY <1>1, <1>2, <1>3, IdleKeeps DEF ToolTypeOK

LEMMA StartInstallKeeps == ASSUME IInv, StartInstall  PROVE IInv'
  <1>1. UNCHANGED <<dirs, units, icons, workdir, tainted>>
    BY DEF StartInstall
  <1>2. ToolTypeOK /\ UnitsHaveFiles
    BY DEF IInv, UnitsInv
  <1>3. PICK w \in Packages, f \in BOOLEAN :
            op' = [Idle EXCEPT !.kind = "install", !.step = "workdir", !.wgt = w, !.force = f]
    BY DEF StartInstall
  <1>4. "workdir" \in Steps /\ "workdir" \notin Unpacked \union Moved /\ "workdir" \notin Forced
    BY StepsApart
  <1>5. saved'.dirs = dirs /\ saved'.units = units
    BY DEF StartInstall
  <1>6. op' = [kind |-> "install", step |-> "workdir", dir |-> Void, wgt |-> w, desc |-> Void, force |-> f,
               ok |-> TRUE]
    BY <1>3 DEF Idle
  <1>7. op' \in Ops /\ op'.kind = "install" /\ op'.step = "workdir" /\ op'.wgt = w
    BY <1>4, <1>6, IdOf DEF Ops, Held
  <1>8. ToolTypeOK'
    BY <1>1, <1>2, <1>4, <1>5, <1>7 DEF ToolTypeOK
  <1>9. InPlace' /\ Iconed'
    BY <1>4, <1>7 DEF InPlace, Iconed
  <1>10. UnitsHaveFiles'
    BY <1>1, <1>2 DEF UnitsHaveFiles
  <1>11. Unforced'
    BY <1>1, <1>4, <1>5, <1>7 DEF Unforced
  <1>12. QED
    BY <1>8, <1>9, <1>10, <1>11 DEF IInv, UnitsInv

----------------------------------------------------------------------------
(* The theorems. *)

\* The invariant holds in every state of the tool: type, place, units, untouched disk, icon.
LEMMA Invariance == ToolSpec => []IInv
  <1>1. WidgetInit => IInv
    <2>1. SUFFICES ASSUME WidgetInit  PROVE IInv
      OBVIOUS
    <2>2. dirs \in Disks /\ units \in Tables /\ icons \in Tables /\ workdir = Void /\ op = Idle
      BY <2>1 DEF WidgetInit, Disks, Tables, Held
    <2>3. "idle" \in Steps /\ "idle" \notin Unpacked \union Moved /\ "idle" \notin Forced
      BY StepsApart
    <2>4. op \in Ops /\ op.kind = "none" /\ op.step = "idle"
      BY <2>2, <2>3 DEF Ops, Idle, Held
    <2>5. ToolTypeOK
      BY <2>2, <2>3, <2>4 DEF ToolTypeOK
    <2>6. InPlace /\ Unforced /\ Iconed
      BY <2>3, <2>4 DEF InPlace, Unforced, Iconed
    <2>7. UnitsHaveFiles
      BY <2>1 DEF WidgetInit, UnitsHaveFiles
    <2>8. QED
      BY <2>5, <2>6, <2>7 DEF IInv, UnitsInv
  <1>2. IInv /\ [ToolNext]_widgetVars => IInv'
    <2>1. SUFFICES ASSUME IInv, [ToolNext]_widgetVars  PROVE IInv'
      OBVIOUS
    <2>2. CASE UNCHANGED widgetVars
      BY <2>1, <2>2 DEF widgetVars, IInv, UnitsInv, ToolTypeOK, InPlace, UnitsHaveFiles, Unforced, OnlyWorkdir,
                        Contained, Iconed, Present, Quiet
    <2>3. CASE StartInstall \/ NextWidget \/ Restart
      BY <2>1, <2>3, StartInstallKeeps, NextWidgetKeeps
    <2>4. CASE MakeWorkdir \/ ZRead \/ InfoDescCheck \/ Target
      BY <2>1, <2>4, MakeWorkdirKeeps, ZReadKeeps, InfoDescCheckKeeps, TargetKeeps
    <2>5. CASE OldInfo \/ SetdownUnits \/ SetdownIcon \/ SetdownSecurity \/ RemoveOld
      BY <2>1, <2>5, OldInfoKeeps, SetdownUnitsKeeps, SetdownIconKeeps, SetdownSecurityKeeps, RemoveOldKeeps
    <2>6. CASE MoveWorkdir \/ InstallIcon \/ InstallSecurity \/ InstallModes \/ SetupUnits \/ Cleanup \/ Die
      BY <2>1, <2>6, MoveWorkdirKeeps, InstallIconKeeps, InstallSecurityKeeps, InstallModesKeeps,
         SetupUnitsKeeps, CleanupKeeps, DieKeeps
    <2>7. QED
      BY <2>1, <2>2, <2>3, <2>4, <2>5, <2>6 DEF ToolNext, WidgetStep
  <1>3. QED
    BY <1>1, <1>2, PTL DEF ToolSpec

\* No unit runs a widget that is not there (install_widget, uninstall_at), however many widgets
\* are installed, over one another or not, whatever step fails and wherever the process dies;
\* only the units whose removal failed, which uninstall_at ignores, are left out.
THEOREM UnitsCorrect == ToolSpec => []UnitsHaveFiles
  <1>1. IInv => UnitsHaveFiles
    BY DEF IInv, UnitsInv
  <1>2. QED
    BY <1>1, Invariance, PTL

\* An installation that succeeds has its directory, its units and its icon at their place
\* (install_widget), whatever was installed there before and whatever the removal of it forgot.
THEOREM PresentCorrect == ToolSpec => []InstalledPresent
  <1>1. IInv => InstalledPresent
    <2>1. SUFFICES ASSUME IInv, op.kind = "install", op.step = "end", op.ok
                   PROVE  Present(op.wgt)
      BY DEF InstalledPresent
    <2>2. op.ok = TRUE
      BY <2>1, Facts
    <2>3. QED
      BY <2>1, <2>2 DEF IInv, Iconed
  <1>2. QED
    BY <1>1, Invariance, PTL

----------------------------------------------------------------------------
(* Folds over sequences.  FoldLeft is a recursive function over the subsets of  *)
(* the domain of the sequence, that takes out the greatest index: that there is *)
(* one, and what it is for the first indexes, is proved here.                   *)

LEMMA LeastNumber ==
    ASSUME NEW T \in SUBSET Nat, T # {}
    PROVE  \E n \in T : \A k \in T : n <= k
  <1>1. IsWellFoundedOn(OpToRel(<, Nat), Nat)
    BY NatLessThanWellFounded
  <1>2. PICK n \in T : \A k \in T : ~(<<k, n>> \in OpToRel(<, Nat))
    BY <1>1, WFMin
  <1>3. \A k \in T : ~(k < n)
    BY <1>2 DEF OpToRel
  <1>4. QED
    BY <1>3

\* A set of numbers that holds 0 and the successor of each of its numbers.
LEMMA EveryNumber ==
    ASSUME NEW T \in SUBSET Nat, 0 \in T, \A k \in Nat : k \in T => k + 1 \in T
    PROVE  T = Nat
  <1>1. SUFFICES ASSUME Nat \ T # {}  PROVE FALSE
    OBVIOUS
  <1>2. PICK n \in Nat \ T : \A k \in Nat \ T : n <= k
    BY <1>1, LeastNumber
  <1>3. n # 0 /\ n - 1 \in Nat /\ (n - 1) + 1 = n
    BY <1>2
  <1>4. n - 1 \in T
    BY <1>2, <1>3
  <1>5. QED
    BY <1>2, <1>3, <1>4

LEMMA MaxIn ==
    ASSUME NEW n \in Nat, NEW s \in SUBSET (1..n), s # {}
    PROVE  Max(s) \in s /\ \A x \in s : x <= Max(s)
  <1> DEFINE T == {k \in Nat : \E x \in s : k = n - x}
  <1>1. T \in SUBSET Nat /\ T # {}
    <2>1. PICK x \in s : TRUE
      OBVIOUS
    <2>2. x \in 1..n
      OBVIOUS
    <2>3. n - x \in Nat
      BY <2>2
    <2>4. n - x \in T
      BY <2>3
    <2>5. QED  BY <2>4
  <1>2. PICK k \in T : \A j \in T : k <= j
    <2> HIDE DEF T
    <2> QED  BY <1>1, LeastNumber
  <1>3. PICK m \in s : k = n - m
    OBVIOUS
  <1>4. \A x \in s : x <= m
    <2>1. SUFFICES ASSUME NEW x \in s  PROVE x <= m
      OBVIOUS
    <2>2. x \in 1..n /\ m \in 1..n
      OBVIOUS
    <2>3. n - x \in T
      BY <2>2
    <2>4. k <= n - x
      BY <1>2, <2>3
    <2>5. QED  BY <1>3, <2>2, <2>4
  <1>5. \E y \in s : \A x \in s : y >= x
    BY <1>4
  <1>6. \A x \in s : Max(s) >= x
    BY <1>5 DEF Max
  <1>7. Max(s) \in s
    BY <1>5 DEF Max
  <1>8. QED
    BY <1>6, <1>7

LEMMA MaxFirst ==
    ASSUME NEW k \in Nat, k # 0
    PROVE  Max(1..k) = k /\ (1..k) \ {Max(1..k)} = 1..(k - 1) /\ 1..k # {}
  <1>1. 1..k \in SUBSET (1..k) /\ k \in 1..k
    OBVIOUS
  <1>2. Max(1..k) \in 1..k /\ \A x \in 1..k : x <= Max(1..k)
    BY <1>1, MaxIn
  <1>3. Max(1..k) = k
    BY <1>1, <1>2
  <1>4. (1..k) \ {k} = 1..(k - 1)
    OBVIOUS
  <1>5. QED
    BY <1>1, <1>3, <1>4

\* A function that folds phi from base, over the subsets of 1..n.
FoldStep(f, phi, base, s) == IF s = {} THEN base ELSE phi[<<f[s \ {Max(s)}], Max(s)>>]

Folding(f, n, W, phi, base) ==
    f \in [SUBSET (1..n) -> W] /\ \A s \in SUBSET (1..n) : f[s] = FoldStep(f, phi, base, s)

LEMMA FoldExists ==
    ASSUME NEW n, NEW W, NEW base, NEW phi, n \in Nat, base \in W, phi \in [W \X (1..n) -> W]
    PROVE  \E f : Folding(f, n, W, phi, base)
  <1> DEFINE D == SUBSET (1..n)
             Solves(f, k) == \A s \in D : s \subseteq 1..k => f[s] = FoldStep(f, phi, base, s)
             T == {k \in Nat : \E f \in [D -> W] : Solves(f, k)}
  <1>0. \A s \in D : s # {} => /\ s \ {Max(s)} \in D /\ Max(s) \in 1..n
                               /\ \A k \in Nat : s \subseteq 1..(k + 1) => s \ {Max(s)} \subseteq 1..k
    <2>1. SUFFICES ASSUME NEW s \in D, s # {}
          PROVE  /\ s \ {Max(s)} \in D /\ Max(s) \in 1..n
                 /\ \A k \in Nat : s \subseteq 1..(k + 1) => s \ {Max(s)} \subseteq 1..k
      OBVIOUS
    <2>2. Max(s) \in s /\ \A x \in s : x <= Max(s)
      BY <2>1, MaxIn
    <2>3. ASSUME NEW k \in Nat, s \subseteq 1..(k + 1), NEW x \in s \ {Max(s)}  PROVE x \in 1..k
      <3>1. PICK m : m = Max(s)
        OBVIOUS
      <3>2. m \in 1..(k + 1) /\ x \in 1..(k + 1) /\ x <= m /\ x # m
        BY <2>2, <2>3, <3>1
      <3>3. QED  BY <3>2
    <2>4. QED  BY <2>2, <2>3
  <1>1. T \in SUBSET Nat
    OBVIOUS
  <1>2. 0 \in T
    <2>1. Solves([s \in D |-> base], 0)
      BY DEF FoldStep
    <2>2. [s \in D |-> base] \in [D -> W]
      OBVIOUS
    <2> HIDE DEF Solves
    <2>3. QED  BY <2>1, <2>2
  <1>3. ASSUME NEW k \in Nat, k \in T  PROVE k + 1 \in T
    <2>1. PICK f \in [D -> W] : Solves(f, k)
      BY <1>3
    <2>2. PICK h : h = [s \in D |-> FoldStep(f, phi, base, s)]
      OBVIOUS
    <2>3. h \in [D -> W]
      <3>1. \A s \in D : FoldStep(f, phi, base, s) \in W
        <4>1. SUFFICES ASSUME NEW s \in D  PROVE FoldStep(f, phi, base, s) \in W
          OBVIOUS
        <4>2. CASE s = {}
          BY <4>2 DEF FoldStep
        <4>3. CASE s # {}
          <5>1. f[s \ {Max(s)}] \in W /\ Max(s) \in 1..n
            BY <1>0, <4>3
          <5>2. phi[<<f[s \ {Max(s)}], Max(s)>>] \in W
            BY <5>1
          <5>3. QED  BY <4>3, <5>2 DEF FoldStep
        <4>4. QED  BY <4>2, <4>3
      <3>2. QED  BY <2>2, <3>1
    <2>4. \A s \in D : s \subseteq 1..k => h[s] = f[s]
      BY <2>1, <2>2
    <2>5. Solves(h, k + 1)
      <3>1. SUFFICES ASSUME NEW s \in D, s \subseteq 1..(k + 1)  PROVE h[s] = FoldStep(h, phi, base, s)
        OBVIOUS
      <3>2. h[s] = FoldStep(f, phi, base, s)
        BY <2>2
      <3>3. CASE s = {}
        BY <3>2, <3>3 DEF FoldStep
      <3>4. CASE s # {}
        <4>1. h[s \ {Max(s)}] = f[s \ {Max(s)}]
          BY <1>0, <2>4, <3>1, <3>4
        <4>2. QED  BY <3>2, <3>4, <4>1 DEF FoldStep
      <3>5. QED  BY <3>3, <3>4
    <2> HIDE DEF Solves
    <2>6. QED  BY <2>3, <2>5
  <1>4. T = Nat
    <2> HIDE DEF T
    <2> QED  BY <1>1, <1>2, <1>3, EveryNumber
  <1>5. PICK f \in [D -> W] : Solves(f, n)
    BY <1>4
  <1>6. QED
    BY <1>5 DEF Folding

\* The first indexes, one after the other.
LEMMA FirstIndexes ==
    ASSUME NEW n \in Nat
    PROVE  /\ 1..0 = {}
           /\ \A k \in 1..n : /\ 1..k \in SUBSET (1..n) /\ 1..(k - 1) \in SUBSET (1..n) /\ 1..k # {}
                              /\ Max(1..k) = k /\ (1..k) \ {Max(1..k)} = 1..(k - 1)
  <1>1. 1..0 = {}
    OBVIOUS
  <1>2. SUFFICES ASSUME NEW k \in 1..n
        PROVE /\ 1..k \in SUBSET (1..n) /\ 1..(k - 1) \in SUBSET (1..n) /\ 1..k # {}
              /\ Max(1..k) = k /\ (1..k) \ {Max(1..k)} = 1..(k - 1)
    BY <1>1
  <1>3. 1..k \in SUBSET (1..n) /\ 1..(k - 1) \in SUBSET (1..n)
    OBVIOUS
  <1>4. k \in Nat /\ k # 0
    OBVIOUS
  <1>5. QED
    BY <1>3, <1>4, MaxFirst

\* Induction over the first indexes.
LEMMA EveryIndex ==
    ASSUME NEW n \in Nat, NEW T \in SUBSET Nat, 0 \in T, \A k \in 1..n : k - 1 \in T => k \in T
    PROVE  n \in T
  <1> DEFINE U == {k \in Nat : k <= n => k \in T}
  <1>1. 0 \in U
    OBVIOUS
  <1>2. ASSUME NEW k \in Nat, k \in U  PROVE k + 1 \in U
    <2>1. SUFFICES ASSUME k + 1 <= n  PROVE k + 1 \in T
      OBVIOUS
    <2>2. k \in T /\ k + 1 \in 1..n /\ (k + 1) - 1 = k
      BY <1>2, <2>1
    <2>3. QED  BY <2>2
  <1>3. U \in SUBSET Nat
    OBVIOUS
  <1>4. U = Nat
    <2> HIDE DEF U
    <2> QED  BY <1>1, <1>2, <1>3, EveryNumber
  <1>5. QED
    BY <1>4

----------------------------------------------------------------------------
(* check_permissions. *)

PermTables == [WgtPerms -> [granted : BOOLEAN, requested : BOOLEAN]]
PermStates == [ok : BOOLEAN, table : PermTables]

PermStep(s, param, refused) ==
    IF ~s.ok THEN s
    ELSE IF param.value \notin {"required", "optional"} THEN [s EXCEPT !.ok = FALSE]
    ELSE IF param.name \notin refused THEN [ok |-> TRUE, table |-> RequestPermission(s.table, param.name)]
    ELSE [s EXCEPT !.ok = param.value = "optional"]

PermFold(f, base, params, refused) ==
    f = [s \in SUBSET DOMAIN params |-> IF s = {} THEN base ELSE PermStep(f[s \ {Max(s)}], params[Max(s)], refused)]

LEMMA PermStepType ==
    ASSUME NEW s \in PermStates, NEW param \in [name : WgtPerms, value : STRING], NEW refused
    PROVE  PermStep(s, param, refused) \in PermStates
  <1>1. s.ok \in BOOLEAN /\ s.table \in PermTables /\ param.name \in WgtPerms
    BY DEF PermStates
  <1>2. [s EXCEPT !.ok = FALSE] \in PermStates
    BY DEF PermStates
  <1>3. [granted |-> TRUE, requested |-> TRUE] \in [granted : BOOLEAN, requested : BOOLEAN]
    OBVIOUS
  <1>4. RequestPermission(s.table, param.name) \in PermTables
    <2>1. PICK R, r : R = [granted : BOOLEAN, requested : BOOLEAN] /\ r = [granted |-> TRUE, requested |-> TRUE]
      OBVIOUS
    <2>2. r \in R /\ PermTables = [WgtPerms -> R]
      BY <1>3, <2>1 DEF PermTables
    <2>3. [s.table EXCEPT ![param.name] = r] \in PermTables
      BY <1>1, <2>2
    <2>4. QED  BY <2>1, <2>3 DEF RequestPermission
  <1>5. [ok |-> TRUE, table |-> RequestPermission(s.table, param.name)] \in PermStates
    BY <1>4 DEF PermStates
  <1>6. [s EXCEPT !.ok = TRUE] \in PermStates
    BY DEF PermStates
  <1>7. CASE param.value = "optional"
    <2>1. [s EXCEPT !.ok = param.value = "optional"] = [s EXCEPT !.ok = TRUE]
      BY <1>7
    <2>2. QED  BY <1>2, <1>5, <1>6, <2>1 DEF PermStep
  <1>8. CASE param.value # "optional"
    <2>1. [s EXCEPT !.ok = param.value = "optional"] = [s EXCEPT !.ok = FALSE]
      BY <1>8
    <2>2. QED  BY <1>2, <1>5, <2>1 DEF PermStep
  <1>9. QED
    BY <1>7, <1>8

LEMMA PermFoldExists ==
    ASSUME NEW base \in PermStates, NEW params \in Seq([name : WgtPerms, value : STRING]), NEW refused
    PROVE  \E f : PermFold(f, base, params, refused)
  <1>1. PICK n \in Nat : DOMAIN params = 1..n
    OBVIOUS
  <1>2. \A i \in 1..n : params[i] \in [name : WgtPerms, value : STRING]
    <2>1. PICK R : R = [name : WgtPerms, value : STRING]
      OBVIOUS
    <2>2. params \in Seq(R)
      BY <2>1
    <2>3. \A i \in DOMAIN params : params[i] \in R
      BY <2>2
    <2>4. QED  BY <1>1, <2>1, <2>3
  <1>3. PICK phi : phi = [z \in PermStates \X (1..n) |-> PermStep(z[1], params[z[2]], refused)]
    OBVIOUS
  <1>4. phi \in [PermStates \X (1..n) -> PermStates]
    BY <1>2, <1>3, PermStepType
  <1>5. PICK f \in [SUBSET (1..n) -> PermStates] :
            \A s \in SUBSET (1..n) : f[s] = FoldStep(f, phi, base, s)
    <2>1. PICK f : Folding(f, n, PermStates, phi, base)
      BY <1>4, FoldExists
    <2>2. QED  BY <2>1 DEF Folding
  <1>6. \A s \in SUBSET (1..n) : s # {} => phi[<<f[s \ {Max(s)}], Max(s)>>] = PermStep(f[s \ {Max(s)}], params[Max(s)], refused)
    <2>1. SUFFICES ASSUME NEW s \in SUBSET (1..n), s # {}
          PROVE phi[<<f[s \ {Max(s)}], Max(s)>>] = PermStep(f[s \ {Max(s)}], params[Max(s)], refused)
      OBVIOUS
    <2>2. Max(s) \in 1..n /\ s \ {Max(s)} \in SUBSET (1..n)
      BY <2>1, MaxIn
    <2>3. PICK a \in PermStates, i \in 1..n : a = f[s \ {Max(s)}] /\ i = Max(s)
      BY <2>2
    <2>4. phi[<<a, i>>] = PermStep(a, params[i], refused)
      BY <1>3
    <2>5. QED  BY <2>3, <2>4
  <1>7. \A s \in SUBSET (1..n) : f[s] = IF s = {} THEN base ELSE PermStep(f[s \ {Max(s)}], params[Max(s)], refused)
    BY <1>5, <1>6 DEF FoldStep
  <1>8. f = [s \in SUBSET (1..n) |-> IF s = {} THEN base ELSE PermStep(f[s \ {Max(s)}], params[Max(s)], refused)]
    BY <1>7
  <1>9. QED
    BY <1>1, <1>8 DEF PermFold

LEMMA CheckPermissionsIs ==
    ASSUME NEW w, NEW table \in PermTables, NEW refused, w.params \in Seq([name : WgtPerms, value : STRING])
    PROVE  \E f : /\ PermFold(f, [ok |-> TRUE, table |-> table], w.params, refused)
                  /\ CheckPermissions(table, w, refused) = f[DOMAIN w.params]
  <1>1. [ok |-> TRUE, table |-> table] \in PermStates
    BY DEF PermStates
  <1>2. PICK base : base = [ok |-> TRUE, table |-> table]
    OBVIOUS
  <1>3. PICK params : params = w.params
    OBVIOUS
  <1> DEFINE Body(f) == [s \in SUBSET DOMAIN params |->
                            IF s = {} THEN base ELSE PermStep(f[s \ {Max(s)}], params[Max(s)], refused)]
  <1>4. PICK g : g = CHOOSE f : f = Body(f)
    OBVIOUS
  <1>5. \E f : f = Body(f)
    <2>1. base \in PermStates /\ params \in Seq([name : WgtPerms, value : STRING])
      BY <1>1, <1>2, <1>3
    <2>2. PICK f : PermFold(f, base, params, refused)
      BY <2>1, PermFoldExists
    <2>3. f = Body(f)
      BY <2>2 DEF PermFold
    <2>4. QED
      <3> HIDE DEF Body
      <3> QED  BY <2>3
  <1>6. g = Body(g)
    <2> HIDE DEF Body
    <2> QED  BY <1>4, <1>5
  <1>7. CheckPermissions(table, w, refused) = g[DOMAIN w.params]
    BY <1>2, <1>3, <1>4 DEF CheckPermissions, FoldLeft, MapThenFoldSet, PermStep
  <1>8. QED
    BY <1>2, <1>3, <1>6, <1>7 DEF PermFold

\* What has been asked by the first k parameters, from a table where nothing is requested.
AskedFirst(table, params, k, refused) ==
    /\ \A p \in WgtPerms : /\ table[p].requested = TRUE <=> p \notin refused /\ \E i \in 1..k : params[i].name = p
                           /\ table[p].requested = TRUE => table[p].granted = TRUE
    /\ \A i \in 1..k : params[i].name \in refused => params[i].value = "optional"

LEMMA ResetType ==
    ASSUME NEW table \in PermTables
    PROVE  ResetRequested(table) \in PermTables /\ \A p \in WgtPerms : ResetRequested(table)[p].requested = FALSE
  BY DEF PermTables, ResetRequested

LEMMA Requested ==
    ASSUME NEW table \in PermTables, NEW q \in WgtPerms
    PROVE  \A p \in WgtPerms : /\ p = q => /\ RequestPermission(table, q)[p].requested = TRUE
                                           /\ RequestPermission(table, q)[p].granted = TRUE
                               /\ p # q => RequestPermission(table, q)[p] = table[p]
  <1>1. PICK r : r = [granted |-> TRUE, requested |-> TRUE]
    OBVIOUS
  <1>2. r.granted = TRUE /\ r.requested = TRUE
    BY <1>1
  <1>3. RequestPermission(table, q) = [table EXCEPT ![q] = r]
    BY <1>1 DEF RequestPermission
  <1>4. DOMAIN table = WgtPerms
    BY DEF PermTables
  <1>5. QED
    BY <1>2, <1>3, <1>4

LEMMA AskedOneMore ==
    ASSUME NEW s \in PermStates, NEW params \in Seq([name : WgtPerms, value : STRING]), NEW k \in DOMAIN params,
           NEW refused,
           s.ok = TRUE => AskedFirst(s.table, params, k - 1, refused)
    PROVE  PermStep(s, params[k], refused) \in PermStates /\
           (PermStep(s, params[k], refused).ok = TRUE => AskedFirst(PermStep(s, params[k], refused).table, params, k, refused))
  <1>1. params[k] \in [name : WgtPerms, value : STRING] /\ k \in Nat /\ k >= 1
    <2>1. PICK R : R = [name : WgtPerms, value : STRING]
      OBVIOUS
    <2>2. params \in Seq(R)
      BY <2>1
    <2>3. params[k] \in R /\ k \in Nat /\ k >= 1
      BY <2>2
    <2>4. QED  BY <2>1, <2>3
  <1>2. PermStep(s, params[k], refused) \in PermStates
    BY <1>1, PermStepType
  <1>3. s.ok \in BOOLEAN /\ s.table \in PermTables
    BY DEF PermStates
  <1>4. PICK q \in WgtPerms : q = params[k].name
    BY <1>1
  <1>5. SUFFICES ASSUME PermStep(s, params[k], refused).ok = TRUE
                 PROVE  AskedFirst(PermStep(s, params[k], refused).table, params, k, refused)
    BY <1>2
  <1>6. /\ s.ok = TRUE
        /\ q \notin refused => PermStep(s, params[k], refused).table = RequestPermission(s.table, q)
        /\ q \in refused => PermStep(s, params[k], refused).table = s.table /\ params[k].value = "optional"
    <2>1. CASE s.ok = FALSE
      <3>1. PermStep(s, params[k], refused).ok = FALSE
        BY <2>1 DEF PermStep
      <3>2. QED  BY <1>5, <3>1
    <2>2. CASE s.ok = TRUE
      <3>1. [s EXCEPT !.ok = FALSE].ok = FALSE
        BY DEF PermStates
      <3>2. CASE params[k].value \notin {"required", "optional"}
        <4>1. PermStep(s, params[k], refused).ok = FALSE
          BY <2>2, <3>1, <3>2 DEF PermStep
        <4>2. QED  BY <1>5, <4>1
      <3>3. CASE params[k].value \in {"required", "optional"} /\ q \notin refused
        <4>1. PermStep(s, params[k], refused) = [ok |-> TRUE, table |-> RequestPermission(s.table, q)]
          BY <1>4, <2>2, <3>3 DEF PermStep
        <4>2. QED  BY <2>2, <3>3, <4>1
      <3>4. CASE params[k].value \in {"required", "optional"} /\ q \in refused
        <4>1. PermStep(s, params[k], refused) = [s EXCEPT !.ok = params[k].value = "optional"]
          BY <1>4, <2>2, <3>4 DEF PermStep
        <4>2. CASE params[k].value = "optional"
          <5>1. [s EXCEPT !.ok = params[k].value = "optional"] = [s EXCEPT !.ok = TRUE]
            BY <4>2
          <5>2. [s EXCEPT !.ok = TRUE].table = s.table
            BY DEF PermStates
          <5>3. QED  BY <2>2, <3>4, <4>1, <4>2, <5>1, <5>2
        <4>3. CASE params[k].value # "optional"
          <5>1. [s EXCEPT !.ok = params[k].value = "optional"] = [s EXCEPT !.ok = FALSE]
            BY <4>3
          <5>2. QED  BY <1>5, <3>1, <4>1, <5>1
        <4>4. QED  BY <4>2, <4>3
      <3>5. QED  BY <3>2, <3>3, <3>4
    <2>3. QED  BY <1>3, <2>1, <2>2
  <1>7. AskedFirst(s.table, params, k - 1, refused)
    BY <1>6
  <1>8. 1..k = (1..(k - 1)) \union {k}
    BY <1>1
  <1>9. \A p : (\E i \in 1..k : params[i].name = p) <=> p = q \/ (\E i \in 1..(k - 1) : params[i].name = p)
    BY <1>4, <1>8
  <1>10. \A i \in 1..k : params[i].name \in refused => params[i].value = "optional"
    <2>1. \A i \in 1..(k - 1) : params[i].name \in refused => params[i].value = "optional"
      BY <1>7 DEF AskedFirst
    <2>2. QED  BY <1>4, <1>6, <1>8, <2>1
  <1>11. PICK t : t = PermStep(s, params[k], refused).table
    OBVIOUS
  <1>12. \A p \in WgtPerms : /\ p = q /\ q \notin refused => t[p].requested = TRUE /\ t[p].granted = TRUE
                             /\ p # q \/ q \in refused => t[p] = s.table[p]
    <2>1. CASE q \in refused
      BY <1>6, <1>11, <2>1
    <2>2. CASE q \notin refused
      <3>1. t = RequestPermission(s.table, q)
        BY <1>6, <1>11, <2>2
      <3>2. QED  BY <1>3, <2>2, <3>1, Requested
    <2>3. QED  BY <2>1, <2>2
  <1>13. AskedFirst(t, params, k, refused)
    <2>1. SUFFICES ASSUME NEW p \in WgtPerms
          PROVE /\ t[p].requested = TRUE <=> p \notin refused /\ \E i \in 1..k : params[i].name = p
                /\ t[p].requested = TRUE => t[p].granted = TRUE
      BY <1>10 DEF AskedFirst
    <2>2. /\ s.table[p].requested = TRUE <=> p \notin refused /\ \E i \in 1..(k - 1) : params[i].name = p
          /\ s.table[p].requested = TRUE => s.table[p].granted = TRUE
      BY <1>7 DEF AskedFirst
    <2>3. CASE p = q /\ q \notin refused
      BY <1>9, <1>12, <2>3
    <2>4. CASE p # q \/ q \in refused
      BY <1>9, <1>12, <2>2, <2>4
    <2>5. QED  BY <2>3, <2>4
  <1>14. QED
    BY <1>11, <1>13

\* The permissions that could not be recorded are optional.
OnlyOptional(w, refused) == \A p \in ToSet(w.params) : p.name \in refused => p.value = "optional"

\* What check_permissions leaves when it accepts a widget: its permissions, and no other, but for
\* the optional ones that could not be recorded.
LEMMA PermissionsAsked ==
    ASSUME NEW w \in Widgets, NEW table \in PermTables, NEW refused
    PROVE  /\ CheckPermissions(ResetRequested(table), w, refused).table \in PermTables
           /\ CheckPermissions(ResetRequested(table), w, refused).ok \in BOOLEAN
           /\ CheckPermissions(ResetRequested(table), w, refused).ok = TRUE =>
                /\ UsablePermissions(CheckPermissions(ResetRequested(table), w, refused).table) = Asks(w) \ refused
                /\ OnlyOptional(w, refused)
  <1>1. PICK params \in Seq([name : WgtPerms, value : STRING]) : params = w.params
    BY DEF Widgets
  <1>2. PICK n \in Nat : DOMAIN params = 1..n
    OBVIOUS
  <1>3. PICK base : base = [ok |-> TRUE, table |-> ResetRequested(table)]
    OBVIOUS
  <1>4. base \in PermStates /\ AskedFirst(base.table, params, 0, refused)
    <2>1. base.table = ResetRequested(table)
      BY <1>3
    <2>2. base \in PermStates
      BY <1>3, ResetType DEF PermStates
    <2>3. \A p \in WgtPerms : base.table[p].requested = FALSE
      BY <2>1, ResetType
    <2>4. 1..0 = {}
      OBVIOUS
    <2>5. QED  BY <2>2, <2>3, <2>4 DEF AskedFirst
  <1>5. PICK f : PermFold(f, base, params, refused) /\ CheckPermissions(ResetRequested(table), w, refused) = f[1..n]
    <2>1. ResetRequested(table) \in PermTables /\ w.params \in Seq([name : WgtPerms, value : STRING])
      BY <1>1, ResetType
    <2>2. PICK f : /\ PermFold(f, [ok |-> TRUE, table |-> ResetRequested(table)], w.params, refused)
                   /\ CheckPermissions(ResetRequested(table), w, refused) = f[DOMAIN w.params]
      BY <2>1, CheckPermissionsIs
    <2>3. QED  BY <1>1, <1>2, <1>3, <2>2
  <1> DEFINE T == {k \in Nat : f[1..k] \in PermStates /\ (f[1..k].ok = TRUE => AskedFirst(f[1..k].table, params, k, refused))}
  <1>6. \A k \in 1..n : f[1..k] = PermStep(f[1..(k - 1)], params[k], refused)
    <2>1. SUFFICES ASSUME NEW k \in 1..n  PROVE f[1..k] = PermStep(f[1..(k - 1)], params[k], refused)
      OBVIOUS
    <2>2. f = [s \in SUBSET (1..n) |-> IF s = {} THEN base ELSE PermStep(f[s \ {Max(s)}], params[Max(s)], refused)]
      BY <1>2, <1>5 DEF PermFold
    <2>3. PICK s \in SUBSET (1..n) : s = 1..k
      BY FirstIndexes
    <2>4. s # {} /\ Max(s) = k /\ s \ {Max(s)} = 1..(k - 1)
      BY <2>3, FirstIndexes
    <2>5. f[s] = PermStep(f[s \ {Max(s)}], params[Max(s)], refused)
      BY <2>2, <2>4
    <2>6. QED  BY <2>3, <2>4, <2>5
  <1>7. f[1..0] = base
    <2>1. f = [s \in SUBSET (1..n) |-> IF s = {} THEN base ELSE PermStep(f[s \ {Max(s)}], params[Max(s)], refused)]
      BY <1>2, <1>5 DEF PermFold
    <2>2. f[{}] = base
      BY <2>1
    <2>3. QED  BY <2>2, FirstIndexes
  <1>8. 0 \in T
    BY <1>4, <1>7
  <1>9. ASSUME NEW k \in 1..n, k - 1 \in T  PROVE k \in T
    <2>1. PICK s \in PermStates : s = f[1..(k - 1)]
      BY <1>9
    <2>2. s.ok = TRUE => AskedFirst(s.table, params, k - 1, refused)
      BY <1>9, <2>1
    <2>3. PICK r : r = PermStep(s, params[k], refused)
      OBVIOUS
    <2>4. r \in PermStates /\ (r.ok = TRUE => AskedFirst(r.table, params, k, refused))
      BY <1>2, <2>2, <2>3, AskedOneMore
    <2>5. f[1..k] = r
      BY <1>6, <2>1, <2>3
    <2>6. QED  BY <2>4, <2>5
  <1>10. n \in T
    <2>1. T \in SUBSET Nat
      OBVIOUS
    <2> HIDE DEF T
    <2>2. QED  BY <1>8, <1>9, <2>1, EveryIndex
  <1>11. PICK r \in PermStates : r = CheckPermissions(ResetRequested(table), w, refused) /\ (r.ok = TRUE => AskedFirst(r.table, params, n, refused))
    BY <1>5, <1>10
  <1>12. r.ok \in BOOLEAN /\ r.table \in PermTables
    BY DEF PermStates
  <1>13. ASSUME r.ok = TRUE  PROVE UsablePermissions(r.table) = Asks(w) \ refused /\ OnlyOptional(w, refused)
    <2>1. PICK t : t = r.table
      OBVIOUS
    <2>2. \A p \in WgtPerms : t[p].granted \in BOOLEAN /\ t[p].requested \in BOOLEAN
      BY <1>12, <2>1 DEF PermTables
    <2>3. /\ \A p \in WgtPerms : /\ t[p].requested = TRUE <=> p \notin refused /\ \E i \in 1..n : params[i].name = p
                                 /\ t[p].requested = TRUE => t[p].granted = TRUE
          /\ \A i \in 1..n : params[i].name \in refused => params[i].value = "optional"
      BY <1>11, <1>13, <2>1 DEF AskedFirst
    <2>4. \A p \in WgtPerms : t[p].granted /\ t[p].requested <=> p \notin refused /\ \E i \in 1..n : params[i].name = p
      BY <2>2, <2>3
    <2>5. \A i \in 1..n : params[i].name \in WgtPerms
      <3>1. PICK R : R = [name : WgtPerms, value : STRING]
        OBVIOUS
      <3>2. params \in Seq(R)
        BY <3>1
      <3>3. \A i \in DOMAIN params : params[i] \in R
        BY <3>2
      <3>4. QED  BY <1>2, <3>1, <3>3
    <2>6. ToSet(w.params) = {params[i] : i \in 1..n}
      BY <1>1, <1>2 DEF ToSet
    <2>7. UsablePermissions(t) = {p \in WgtPerms : p \notin refused /\ \E i \in 1..n : params[i].name = p}
      BY <2>4 DEF UsablePermissions
    <2>8. Asks(w) = {p.name : p \in {params[i] : i \in 1..n}}
      BY <2>6 DEF Asks
    <2>9. {p \in WgtPerms : p \notin refused /\ \E i \in 1..n : params[i].name = p}
            = {p.name : p \in {params[i] : i \in 1..n}} \ refused
      BY <2>5
    <2>10. OnlyOptional(w, refused)
      BY <2>3, <2>6 DEF OnlyOptional
    <2>11. QED  BY <2>1, <2>7, <2>8, <2>9, <2>10
  <1>14. QED
    BY <1>11, <1>12, <1>13

----------------------------------------------------------------------------
(* install_security. *)

WaysTo(path) == {SubSeq(path, 1, n) : n \in 1..Len(path)}
WaysFirst(list, k) == {<<>>} \union UNION {WaysTo(list[i]) : i \in 1..k}

PathStep(types, path, w) ==
    [q \in DOMAIN types \union WaysTo(path) |->
        IF q = <<>> THEN IF ComputePathtype(path, w) = "public" THEN ComputePathtype(path, w) ELSE types[q]
        ELSE IF q \notin WaysTo(path) THEN types[q]
        ELSE IF q \in DOMAIN types THEN UpdateType(types[q], ComputePathtype(path, w))
        ELSE ComputePathtype(path, w)]

PathFold(f, base, list, w) ==
    f = [s \in SUBSET DOMAIN list |-> IF s = {} THEN base ELSE PathStep(f[s \ {Max(s)}], list[Max(s)], w)]

\* The rules that the files of a list can give.
PathTables(list, w) ==
    UNION {[{<<>>} \union D -> {"id"} \union {ComputePathtype(list[i], w) : i \in DOMAIN list}] :
              D \in SUBSET UNION {WaysTo(list[i]) : i \in DOMAIN list}}

LEMMA PathStepType ==
    ASSUME NEW list, NEW w, NEW types \in PathTables(list, w), NEW i \in DOMAIN list
    PROVE  PathStep(types, list[i], w) \in PathTables(list, w)
  <1>1. PICK V : V = {"id"} \union {ComputePathtype(list[j], w) : j \in DOMAIN list}
    OBVIOUS
  <1>2. PICK P : P = UNION {WaysTo(list[j]) : j \in DOMAIN list}
    OBVIOUS
  <1>3. \A g : g \in PathTables(list, w) <=> \E D \in SUBSET P : g \in [{<<>>} \union D -> V]
    BY <1>1, <1>2 DEF PathTables
  <1>4. PICK D \in SUBSET P : types \in [{<<>>} \union D -> V]
    BY <1>3
  <1>5. PICK new \in V : new = ComputePathtype(list[i], w)
    BY <1>1
  <1>6. PICK ways \in SUBSET P : ways = WaysTo(list[i])
    BY <1>2
  <1>7. PathStep(types, list[i], w) =
          [q \in {<<>>} \union D \union ways |->
              IF q = <<>> THEN IF new = "public" THEN new ELSE types[q]
              ELSE IF q \notin ways THEN types[q]
              ELSE IF q \in {<<>>} \union D THEN UpdateType(types[q], new)
              ELSE new]
    BY <1>4, <1>5, <1>6 DEF PathStep
  <1>8. PathStep(types, list[i], w) \in [{<<>>} \union (D \union ways) -> V]
    BY <1>4, <1>7 DEF UpdateType
  <1>9. D \union ways \in SUBSET P
    OBVIOUS
  <1>10. QED
    BY <1>3, <1>8, <1>9

LEMMA PathFoldExists ==
    ASSUME NEW list, NEW w, NEW n \in Nat, DOMAIN list = 1..n, NEW base \in PathTables(list, w)
    PROVE  \E f : PathFold(f, base, list, w)
  <1>1. PICK W : W = PathTables(list, w)
    OBVIOUS
  <1>2. PICK phi : phi = [z \in W \X (1..n) |-> PathStep(z[1], list[z[2]], w)]
    OBVIOUS
  <1>3. phi \in [W \X (1..n) -> W]
    BY <1>1, <1>2, PathStepType
  <1>4. PICK f : Folding(f, n, W, phi, base)
    BY <1>1, <1>3, FoldExists
  <1>5. f \in [SUBSET (1..n) -> W] /\ \A s \in SUBSET (1..n) : f[s] = FoldStep(f, phi, base, s)
    BY <1>4 DEF Folding
  <1>6. \A s \in SUBSET (1..n) : s # {} => phi[<<f[s \ {Max(s)}], Max(s)>>] = PathStep(f[s \ {Max(s)}], list[Max(s)], w)
    <2>1. SUFFICES ASSUME NEW s \in SUBSET (1..n), s # {}
          PROVE phi[<<f[s \ {Max(s)}], Max(s)>>] = PathStep(f[s \ {Max(s)}], list[Max(s)], w)
      OBVIOUS
    <2>2. Max(s) \in 1..n /\ s \ {Max(s)} \in SUBSET (1..n)
      BY <2>1, MaxIn
    <2>3. PICK a \in W, i \in 1..n : a = f[s \ {Max(s)}] /\ i = Max(s)
      BY <1>5, <2>2
    <2>4. phi[<<a, i>>] = PathStep(a, list[i], w)
      BY <1>2
    <2>5. QED  BY <2>3, <2>4
  <1>7. \A s \in SUBSET (1..n) : f[s] = IF s = {} THEN base ELSE PathStep(f[s \ {Max(s)}], list[Max(s)], w)
    BY <1>5, <1>6 DEF FoldStep
  <1>8. f = [s \in SUBSET (1..n) |-> IF s = {} THEN base ELSE PathStep(f[s \ {Max(s)}], list[Max(s)], w)]
    BY <1>5, <1>7
  <1>9. QED
    BY <1>8 DEF PathFold

LEMMA PathTypesIs ==
    ASSUME NEW list, NEW w, NEW n \in Nat, DOMAIN list = 1..n
    PROVE  \E f : PathFold(f, [q \in {<<>>} |-> "id"], list, w) /\ PathTypes(list, w) = f[1..n]
  <1>1. PICK base : base = [q \in {<<>>} |-> "id"]
    OBVIOUS
  <1>2. base \in PathTables(list, w)
    <2>1. base \in [{<<>>} \union {} -> {"id"} \union {ComputePathtype(list[i], w) : i \in DOMAIN list}]
      BY <1>1
    <2>2. {} \in SUBSET UNION {WaysTo(list[i]) : i \in DOMAIN list}
      OBVIOUS
    <2>3. QED  BY <2>1, <2>2, Zenon DEF PathTables
  <1> DEFINE Body(f) == [s \in SUBSET DOMAIN list |->
                            IF s = {} THEN base ELSE PathStep(f[s \ {Max(s)}], list[Max(s)], w)]
  <1>3. PICK g : g = CHOOSE f : f = Body(f)
    OBVIOUS
  <1>4. \E f : f = Body(f)
    <2>1. PICK f : PathFold(f, base, list, w)
      BY <1>2, PathFoldExists
    <2>2. f = Body(f)
      BY <2>1 DEF PathFold
    <2>3. QED
      <3> HIDE DEF Body
      <3> QED  BY <2>2
  <1>5. g = Body(g)
    <2> HIDE DEF Body
    <2> QED  BY <1>3, <1>4
  <1>6. PathTypes(list, w) = g[DOMAIN list]
    BY <1>1, <1>3 DEF PathTypes, FoldLeft, MapThenFoldSet, PathStep, WaysTo
  <1>7. QED
    BY <1>1, <1>5, <1>6 DEF PathFold

----------------------------------------------------------------------------
(* What the rules of a widget are: its paths, and no other; and public ways. *)

PrefixesIn(q, D) == \A m \in 1..Len(q) : SubSeq(q, 1, m) \in D

LEMMA WayPrefixes ==
    ASSUME NEW path \in Paths, NEW q \in WaysTo(path)
    PROVE  q \in Paths /\ PrefixesIn(q, WaysTo(path))
  <1>1. PICK S : Paths = Seq(S)
    BY DEF Paths
  <1>2. path \in Seq(S)
    BY <1>1
  <1>3. PICK k \in 1..Len(path) : q = SubSeq(path, 1, k)
    BY DEF WaysTo
  <1>4. Len(q) = k /\ q \in Seq(S) /\ k \in Nat /\ k <= Len(path)
    BY <1>2, <1>3
  <1>5. ASSUME NEW m \in 1..Len(q)  PROVE SubSeq(q, 1, m) \in WaysTo(path)
    <2>1. m \in 1..Len(path)
      BY <1>2, <1>4, <1>5
    <2>2. SubSeq(q, 1, m) = SubSeq(path, 1, m)
      BY <1>2, <1>3, <1>4, <1>5
    <2>3. QED  BY <2>1, <2>2 DEF WaysTo
  <1>6. PrefixesIn(q, WaysTo(path))
    BY <1>5, Zenon DEF PrefixesIn
  <1>7. QED
    BY <1>1, <1>4, <1>6

LEMMA NoPrefix == ASSUME NEW q \in Paths  PROVE SubSeq(q, 1, 0) = <<>>
  BY DEF Paths

LEMMA NoPath == <<>> \in Paths /\ Len(<<>>) = 0
  BY DEF Paths

\* The way to a public path is public.
PublicUp(types) ==
    \A q \in DOMAIN types : types[q] = "public" => \A m \in 0..Len(q) : types[SubSeq(q, 1, m)] = "public"
PrefixClosed(D) == <<>> \in D /\ \A q \in D : \A m \in 0..Len(q) : SubSeq(q, 1, m) \in D

LEMMA WaysClosed ==
    ASSUME NEW list \in Seq(Paths), NEW k \in Nat, k <= Len(list)
    PROVE  PrefixClosed(WaysFirst(list, k))
  <1>1. SUFFICES ASSUME NEW q \in WaysFirst(list, k), NEW m \in 0..Len(q)  PROVE SubSeq(q, 1, m) \in WaysFirst(list, k)
    BY DEF PrefixClosed, WaysFirst
  <1>2. CASE q = <<>>
    <2>1. m = 0
      BY <1>2, NoPath
    <2>2. QED  BY <1>2, <2>1, NoPrefix, NoPath DEF WaysFirst
  <1>3. CASE q # <<>>
    <2>1. PICK i \in 1..k : q \in WaysTo(list[i])
      BY <1>3 DEF WaysFirst
    <2>2. list[i] \in Paths
      OBVIOUS
    <2>3. q \in Paths /\ PrefixesIn(q, WaysTo(list[i]))
      BY <2>1, <2>2, WayPrefixes
    <2>4. CASE m = 0
      BY <2>3, <2>4, NoPrefix DEF WaysFirst
    <2>5. CASE m # 0
      <3>1. m \in 1..Len(q)
        BY <2>5
      <3>2. SubSeq(q, 1, m) \in WaysTo(list[i])
        BY <2>3, <3>1, Zenon DEF PrefixesIn
      <3>3. QED  BY <2>1, <3>2 DEF WaysFirst
    <2>6. QED  BY <2>4, <2>5
  <1>4. QED
    BY <1>2, <1>3

LEMMA PublicOneMore ==
    ASSUME NEW types, NEW path \in Paths, NEW w, PrefixClosed(DOMAIN types), PublicUp(types)
    PROVE  /\ DOMAIN PathStep(types, path, w) = DOMAIN types \union WaysTo(path)
           /\ PublicUp(PathStep(types, path, w))
  <1>1. PICK new : new = ComputePathtype(path, w)
    OBVIOUS
  <1>2. PICK ways : ways = WaysTo(path)
    OBVIOUS
  <1>3. PICK t : t = PathStep(types, path, w)
    OBVIOUS
  <1>4. /\ DOMAIN t = DOMAIN types \union ways
        /\ \A q \in DOMAIN t : t[q] = IF q = <<>> THEN IF new = "public" THEN new ELSE types[q]
                                      ELSE IF q \notin ways THEN types[q]
                                      ELSE IF q \in DOMAIN types THEN UpdateType(types[q], new)
                                      ELSE new
    BY <1>1, <1>2, <1>3 DEF PathStep
  <1>5. <<>> \in DOMAIN types
    BY DEF PrefixClosed
  <1>6. \A q \in DOMAIN types : types[q] = "public" => t[q] = "public"
    BY <1>4 DEF UpdateType
  <1>7. new = "public" => \A q \in ways \union {<<>>} : t[q] = "public"
    BY <1>4, <1>5 DEF UpdateType
  <1>8. ASSUME NEW q \in DOMAIN t, t[q] = "public", NEW m \in 0..Len(q)  PROVE t[SubSeq(q, 1, m)] = "public"
    <2>1. CASE q \in DOMAIN types /\ types[q] = "public"
      BY <1>6, <1>8, <2>1 DEF PublicUp, PrefixClosed
    <2>2. CASE ~(q \in DOMAIN types /\ types[q] = "public")
      <3>1. new = "public" /\ q \in ways \union {<<>>}
        BY <1>4, <1>5, <1>8, <2>2 DEF UpdateType
      <3>2. CASE m = 0
        <4>1. q \in Paths
          BY <1>2, <3>1, NoPath, WayPrefixes
        <4>2. QED  BY <1>7, <3>1, <3>2, <4>1, NoPrefix
      <3>3. CASE m # 0
        <4>1. q # <<>>
          BY <1>8, <3>3, NoPath
        <4>2. q \in Paths /\ PrefixesIn(q, ways)
          BY <1>2, <3>1, <4>1, WayPrefixes
        <4>3. SubSeq(q, 1, m) \in ways
          <5>1. m \in 1..Len(q)
            BY <3>3
          <5>2. QED  BY <4>2, <5>1, Zenon DEF PrefixesIn
        <4>4. QED  BY <1>7, <3>1, <4>3
      <3>4. QED  BY <3>2, <3>3
    <2>3. QED  BY <2>1, <2>2
  <1>9. QED
    BY <1>2, <1>3, <1>4, <1>8 DEF PublicUp

LEMMA PathTypesSound ==
    ASSUME NEW list \in Seq(Paths), NEW w
    PROVE  DOMAIN PathTypes(list, w) = WaysFirst(list, Len(list)) /\ PublicUp(PathTypes(list, w))
  <1>1. PICK n \in Nat : n = Len(list) /\ DOMAIN list = 1..n
    OBVIOUS
  <1>2. PICK base : base = [q \in {<<>>} |-> "id"]
    OBVIOUS
  <1>3. PICK f : PathFold(f, base, list, w) /\ PathTypes(list, w) = f[1..n]
    BY <1>1, <1>2, PathTypesIs
  <1>4. f = [s \in SUBSET (1..n) |-> IF s = {} THEN base ELSE PathStep(f[s \ {Max(s)}], list[Max(s)], w)]
    BY <1>1, <1>3 DEF PathFold
  <1> DEFINE T == {k \in Nat : DOMAIN f[1..k] = WaysFirst(list, k) /\ PublicUp(f[1..k])}
  <1>5. 0 \in T
    <2>1. f[{}] = base /\ 1..0 = {}
      BY <1>4
    <2>2. DOMAIN base = {<<>>} /\ base[<<>>] = "id"
      BY <1>2
    <2>3. WaysFirst(list, 0) = {<<>>}
      BY <2>1 DEF WaysFirst
    <2>4. PublicUp(base)
      BY <2>2 DEF PublicUp
    <2>5. QED  BY <2>1, <2>2, <2>3, <2>4
  <1>6. ASSUME NEW k \in 1..n, k - 1 \in T  PROVE k \in T
    <2>1. PICK types : types = f[1..(k - 1)]
      OBVIOUS
    <2>2. DOMAIN types = WaysFirst(list, k - 1) /\ PublicUp(types)
      BY <1>6, <2>1
    <2>3. PrefixClosed(DOMAIN types)
      <3>1. k - 1 \in Nat /\ k - 1 <= Len(list)
        BY <1>1
      <3>2. QED  BY <2>2, <3>1, WaysClosed
    <2>4. list[k] \in Paths
      BY <1>1
    <2>5. /\ DOMAIN PathStep(types, list[k], w) = DOMAIN types \union WaysTo(list[k])
          /\ PublicUp(PathStep(types, list[k], w))
      BY <2>2, <2>3, <2>4, PublicOneMore
    <2>6. f[1..k] = PathStep(types, list[k], w)
      <3>1. PICK s \in SUBSET (1..n) : s = 1..k
        BY FirstIndexes
      <3>2. s # {} /\ Max(s) = k /\ s \ {Max(s)} = 1..(k - 1)
        BY <3>1, FirstIndexes
      <3>3. f[s] = PathStep(f[s \ {Max(s)}], list[Max(s)], w)
        BY <1>4, <3>2
      <3>4. QED  BY <2>1, <3>1, <3>2, <3>3
    <2>7. WaysFirst(list, k) = WaysFirst(list, k - 1) \union WaysTo(list[k])
      <3>1. 1..k = (1..(k - 1)) \union {k}
        OBVIOUS
      <3>2. \A x : x \in WaysFirst(list, k) <=> x \in WaysFirst(list, k - 1) \union WaysTo(list[k])
        <4>1. \A x, j : x \in WaysFirst(list, j) <=> x = <<>> \/ \E i \in 1..j : x \in WaysTo(list[i])
          BY Zenon DEF WaysFirst
        <4>2. \A x : x \in WaysFirst(list, k) <=> x = <<>> \/ \E i \in 1..k : x \in WaysTo(list[i])
          BY <4>1, Zenon
        <4>3. \A x : x \in WaysFirst(list, k - 1) <=> x = <<>> \/ \E i \in 1..(k - 1) : x \in WaysTo(list[i])
          BY <4>1, Zenon
        <4>4. QED  BY <3>1, <4>2, <4>3
      <3>3. QED  BY <3>2
    <2>8. DOMAIN f[1..k] = WaysFirst(list, k) /\ PublicUp(f[1..k])
      BY <2>2, <2>5, <2>6, <2>7, Zenon
    <2>9. k \in Nat
      OBVIOUS
    <2>10. QED  BY <2>8, <2>9, Zenon
  <1>7. n \in T
    <2>1. T \in SUBSET Nat
      OBVIOUS
    <2> HIDE DEF T
    <2>2. QED  BY <1>5, <1>6, <2>1, EveryIndex
  <1>8. QED
    BY <1>1, <1>3, <1>7

----------------------------------------------------------------------------
(* The rules of the security manager. *)

Ruled(w) ==
    /\ DOMAIN rules[w.id].paths = {<<>>} \union AllWays(w)
    /\ rules[w.id].permits = {DefaultPerm} \union (Asks(w) \ denied)
    /\ OnlyOptional(w, denied)
Permitted(w) == UsablePermissions(perms) = Asks(w) \ denied /\ OnlyOptional(w, denied)
Checked == (Unpacked \ {"check"}) \union Moved

\* The list of files and the permissions are those of the widget in progress from the step that
\* fills them on, and the rules come from them; no rule leaves a public path under a closed one.
RulesInv ==
    /\ perms \in PermTables
    /\ rules = [i \in Ids |-> rules[i]]
    /\ op.step \in Unpacked \union Moved => files = op.wgt.files
    /\ op.step \in Checked => Permitted(op.wgt)
    /\ op.step \in {"modes", "units"} => Ruled(op.wgt)
    /\ op.step = "end" /\ op.kind = "install" /\ op.ok = TRUE => Ruled(op.wgt)
    /\ PublicWays

Quits == {"idle", "workdir", "read", "cleanup", "dead"}

LEMMA QuitsApart ==
    /\ Quits \subseteq Steps /\ "end" \in Steps
    /\ Quits \cap (Unpacked \union Moved) = {} /\ "end" \notin Unpacked \union Moved /\ "end" \notin Quits
    /\ {"modes", "units"} \subseteq Moved /\ Checked \subseteq Unpacked \union Moved
  BY DEF Quits, Steps, Unpacked, Moved, Checked

\* The operation is over, or the widget is not unpacked.
LEMMA RulesQuit ==
    ASSUME RulesInv, UNCHANGED rules, perms' \in PermTables,
           op'.step \in Quits \/ (op'.step = "end" /\ op'.ok = FALSE)
    PROVE  RulesInv'
  <1>1. PublicWays'
    BY DEF RulesInv, PublicWays
  <1>2. op'.step \notin Unpacked \union Moved /\ op'.step \notin Checked /\ op'.step \notin {"modes", "units"}
        /\ (op'.step = "end" => op'.ok = FALSE)
    BY QuitsApart
  <1>3. QED
    BY <1>1, <1>2 DEF RulesInv

LEMMA RulesFail ==
    ASSUME IInv, RulesInv, op.kind = "install", FailTo, UNCHANGED rules, perms' \in PermTables
    PROVE  RulesInv'
  <1>1. op'.step = "cleanup"
    <2>1. op \in Ops /\ op' = [op EXCEPT !.step = "cleanup"] /\ "cleanup" \in Steps
      BY Facts, StepsApart DEF FailTo, Goto
    <2>2. QED  BY <2>1, OpGoto
  <1>2. QED
    BY <1>1, RulesQuit DEF Quits

\* The widget is unpacked and checked, and remains so.
LEMMA RulesPass ==
    ASSUME RulesInv, UNCHANGED <<rules, perms, denied>>, op'.wgt = op.wgt, op'.step # "end",
           op.step \in Unpacked \union Moved, op'.step \in Unpacked \union Moved, files' = op.wgt.files,
           op'.step \in Checked => op.step \in Checked,
           op'.step \in {"modes", "units"} => op.step \in {"modes", "units"}
    PROVE  RulesInv'
  <1>1. PublicWays'
    BY DEF RulesInv, PublicWays
  <1>2. op'.step \in {"modes", "units"} => Ruled(op.wgt)'
    BY DEF RulesInv, Ruled
  <1>3. Ruled(op.wgt)' = Ruled(op.wgt)
    BY DEF Ruled
  <1>4. op'.step \in Checked => Permitted(op.wgt)'
    BY DEF RulesInv, Permitted
  <1>5. QED
    BY <1>1, <1>2, <1>4 DEF RulesInv

\* The next step, when the operation goes on.
LEMMA RulesGoto ==
    ASSUME IInv, RulesInv, op.kind = "install", UNCHANGED <<rules, perms, denied, files>>, op.step \in Checked,
           NEW x \in Checked, NEW b \in BOOLEAN,
           op' = [op EXCEPT !.step = x] \/ op' = [op EXCEPT !.step = x, !.ok = b],
           x \in {"modes", "units"} => op.step \in {"modes", "units"}
    PROVE  RulesInv'
  <1>1. x \in Steps /\ x # "end" /\ x \in Unpacked \union Moved /\ op.step \in Unpacked \union Moved
    BY QuitsApart, StepsApart
  <1>2. op'.step = x /\ op'.wgt = op.wgt
    <2>1. op \in Ops
      BY Facts
    <2>2. CASE op' = [op EXCEPT !.step = x]
      BY <1>1, <2>1, <2>2, OpGoto
    <2>3. CASE op' = [op EXCEPT !.step = x, !.ok = b]
      BY <1>1, <2>1, <2>3, OpSet
    <2>4. QED  BY <2>2, <2>3
  <1>3. files' = op.wgt.files
    BY <1>1 DEF RulesInv
  <1>4. QED
    BY <1>1, <1>2, <1>3, RulesPass

LEMMA CheckedSteps ==
    /\ {"target", "oldinfo", "oldunits", "oldicon", "oldrules", "oldremove", "move"} \subseteq Checked
    /\ {"icon", "rules", "modes", "units"} \subseteq Checked
  BY DEF Checked, Unpacked, Moved

LEMMA ZReadRules == ASSUME IInv, RulesInv, ZRead  PROVE RulesInv'
  <1>1. op.kind = "install" /\ op.step = "read"
    BY OnlyInstall DEF ZRead
  <1>2. UNCHANGED <<rules, perms, denied>> /\ perms' \in PermTables
    BY DEF ZRead, RulesInv
  <1>3. CASE FailTo
    BY <1>1, <1>2, <1>3, RulesFail
  <1>4. CASE files' = op.wgt.files /\ Goto("check")
    <2>1. "check" \in Steps /\ "check" \notin Checked /\ "check" \notin {"modes", "units"}
      BY DEF Steps, Unpacked, Moved, Checked
    <2>2. op'.step = "check" /\ op'.wgt = op.wgt
      BY <1>1, <1>4, <2>1, Facts, OpGoto DEF Goto
    <2>3. PublicWays'
      BY <1>2 DEF RulesInv, PublicWays
    <2>4. QED
      BY <1>2, <1>4, <2>1, <2>2, <2>3 DEF RulesInv
  <1>5. QED
    BY <1>3, <1>4 DEF ZRead

LEMMA InfoDescCheckRules == ASSUME IInv, RulesInv, InfoDescCheck  PROVE RulesInv'
  <1>1. op.kind = "install" /\ op.step = "check"
    BY OnlyInstall DEF InfoDescCheck
  <1>2. UNCHANGED rules
    BY DEF InfoDescCheck
  <1>3. op.step \in Unpacked
    BY <1>1 DEF Unpacked
  <1>4. workdir \in ToSet(Temps) /\ workdir # Void /\ dirs[workdir] = op.wgt
    BY <1>3, TempsApart DEF IInv, UnitsInv, InPlace
  <1>5. op.wgt \in Widgets /\ perms \in PermTables
    BY <1>1, Facts, WidgetsAssumption DEF RulesInv
  <1>6. CASE FailTo /\ UNCHANGED perms
    BY <1>1, <1>2, <1>5, <1>6, RulesFail
  <1>7. CASE \E refused : LET asked == CheckPermissions(ResetRequested(perms), op.wgt, refused)
                          IN  /\ denied' = refused
                              /\ perms' = IF CheckTemporaryConstraints(op.wgt) THEN asked.table ELSE ResetRequested(perms)
                              /\ IF CheckTemporaryConstraints(op.wgt) /\ asked.ok /\ CheckContent(op.wgt)
                                 THEN op' = [op EXCEPT !.desc = op.wgt, !.step = "target"] /\ UNCHANGED files
                                 ELSE FailTo
    <2>1. PICK refused, asked :
             /\ asked = CheckPermissions(ResetRequested(perms), op.wgt, refused) /\ denied' = refused
             /\ perms' = IF CheckTemporaryConstraints(op.wgt) THEN asked.table ELSE ResetRequested(perms)
             /\ IF CheckTemporaryConstraints(op.wgt) /\ asked.ok /\ CheckContent(op.wgt)
                THEN op' = [op EXCEPT !.desc = op.wgt, !.step = "target"] /\ UNCHANGED files
                ELSE FailTo
      BY <1>7, Zenon
    <2>2. /\ asked.table \in PermTables /\ asked.ok \in BOOLEAN
          /\ asked.ok = TRUE => UsablePermissions(asked.table) = Asks(op.wgt) \ refused /\ OnlyOptional(op.wgt, refused)
      <3>1. PICK w \in Widgets, t \in PermTables : w = op.wgt /\ t = perms
        BY <1>5
      <3>2. asked = CheckPermissions(ResetRequested(t), w, refused)
        BY <2>1, <3>1
      <3>3. QED  BY <3>1, <3>2, PermissionsAsked
    <2>3. perms' \in PermTables
      BY <1>5, <2>1, <2>2, ResetType
    <2>4. CASE FailTo
      BY <1>1, <1>2, <2>3, <2>4, RulesFail
    <2>5. CASE /\ CheckTemporaryConstraints(op.wgt) /\ asked.ok
               /\ op' = [op EXCEPT !.desc = op.wgt, !.step = "target"] /\ UNCHANGED files
      <3>1. "target" \in Steps /\ "target" \notin {"modes", "units", "end"}
        BY DEF Steps, Unpacked
      <3>2. op'.step = "target" /\ op'.wgt = op.wgt
        BY <1>1, <2>5, <3>1, Facts, OpDesc
      <3>3. asked.ok = TRUE /\ perms' = asked.table
        BY <2>1, <2>2, <2>5
      <3>4. Permitted(op.wgt)'
        BY <2>1, <2>2, <3>2, <3>3 DEF Permitted, OnlyOptional
      <3>5. files' = op'.wgt.files
        BY <1>3, <2>5, <3>2 DEF RulesInv
      <3>6. PublicWays'
        BY <1>2 DEF RulesInv, PublicWays
      <3>7. QED
        BY <1>2, <2>3, <3>1, <3>2, <3>4, <3>5, <3>6 DEF RulesInv
    <2>6. QED
      BY <2>1, <2>4, <2>5
  <1>8. QED
    <2>1. (IF workdir = Void THEN Void ELSE dirs[workdir]) = op.wgt
      BY <1>4
    <2>2. (IF op.kind = "install" THEN "target" ELSE "icon") = "target"
      BY <1>1
    <2>3. QED
      BY <1>6, <1>7, <2>1, <2>2, Zenon DEF InfoDescCheck

LEMMA SimpleRules ==
    ASSUME IInv, RulesInv, Target \/ OldInfo \/ SetdownUnits \/ SetdownIcon \/ RemoveOld \/ MoveWorkdir
    PROVE  RulesInv'
  <1>1. UNCHANGED <<rules, perms, denied>> /\ perms' \in PermTables
    BY DEF Target, OldInfo, SetdownUnits, SetdownIcon, RemoveOld, MoveWorkdir, RulesInv
  <1>2. op.kind = "install"
    BY OnlyInstall DEF Target, OldInfo, SetdownUnits, SetdownIcon, RemoveOld, MoveWorkdir
  <1>3. op.step \in Checked /\ op.step \notin {"modes", "units"}
    BY OnlyInstall, CheckedSteps DEF Target, OldInfo, SetdownUnits, SetdownIcon, RemoveOld, MoveWorkdir
  <1>4. CASE FailTo
    BY <1>1, <1>2, <1>4, RulesFail
  <1>5. CASE ~FailTo
    <2>1. PICK x \in {"move", "oldinfo", "oldunits", "oldicon", "oldrules", "oldremove", "icon"}, b \in BOOLEAN :
              op' = [op EXCEPT !.step = x] \/ op' = [op EXCEPT !.step = x, !.ok = b]
      <3>1. CASE Target
        BY <1>5, <3>1 DEF Target, Goto
      <3>2. CASE OldInfo
        <4>1. op.step = "oldinfo"
          BY <3>2, OnlyInstall DEF OldInfo
        <4>2. op' = [op EXCEPT !.step = "oldunits", !.desc = IF op.kind = "remove" THEN dirs[op.dir] ELSE @]
                \/ op' = [op EXCEPT !.step = "oldremove", !.ok = TRUE]
          BY <1>2, <3>2 DEF OldInfo
        <4>3. [op EXCEPT !.step = "oldunits", !.desc = IF op.kind = "remove" THEN dirs[op.dir] ELSE @]
                = [op EXCEPT !.step = "oldunits"]
          BY <1>2, Facts DEF Ops
        <4>4. QED  BY <4>2, <4>3
      <3>3. CASE SetdownUnits \/ SetdownIcon
        BY <1>2, <3>3 DEF SetdownUnits, SetdownIcon, AfterSetdown, Goto
      <3>4. CASE RemoveOld \/ MoveWorkdir
        BY <1>5, <3>4 DEF RemoveOld, MoveWorkdir, Goto
      <3>5. QED  BY <3>1, <3>2, <3>3, <3>4
    <2>2. x \in Checked /\ x \notin {"modes", "units"}
      BY CheckedSteps
    <2>3. UNCHANGED files
      BY <1>5 DEF Target, OldInfo, SetdownUnits, SetdownIcon, RemoveOld, MoveWorkdir
    <2>4. QED
      BY <1>1, <1>2, <1>3, <2>1, <2>2, <2>3, RulesGoto
  <1>6. QED
    BY <1>4, <1>5

LEMMA SetdownSecurityRules == ASSUME IInv, RulesInv, SetdownSecurity  PROVE RulesInv'
  <1>1. op.kind = "install" /\ op.step = "oldrules"
    BY OnlyInstall DEF SetdownSecurity
  <1>2. UNCHANGED <<perms, denied>> /\ op' = [op EXCEPT !.step = "oldremove"] /\ files' = dirs[workdir].files
    BY <1>1 DEF SetdownSecurity, AfterSetdown, Goto
  <1>3. op.step \in Forced /\ "oldremove" \in Steps /\ "oldremove" \notin {"modes", "units", "end"}
    BY <1>1 DEF Forced, Steps, Unpacked
  <1>4. op.desc = op.wgt /\ dirs[workdir] = op.wgt
    BY <1>1, <1>3, OldStep
  <1>5. op'.step = "oldremove" /\ op'.wgt = op.wgt
    BY <1>1, <1>2, <1>3, Facts, OpGoto
  <1>6. PICK i \in Ids : i = op.desc.id
    BY <1>1, <1>4, Facts
  <1>7. rules' = [rules EXCEPT ![i] = Void] \/ rules' = rules
    BY <1>6 DEF SetdownSecurity
  <1>8. rules' = [j \in Ids |-> rules'[j]] /\ \A j \in Ids : rules'[j] # Void => rules'[j] = rules[j]
    BY <1>7 DEF RulesInv
  <1>9. PublicWays'
    BY <1>8 DEF RulesInv, PublicWays
  <1>10. Permitted(op.wgt)'
    BY <1>1, <1>2, <1>5, CheckedSteps DEF RulesInv, Permitted
  <1>11. QED
    BY <1>2, <1>3, <1>4, <1>5, <1>8, <1>9, <1>10 DEF RulesInv

LEMMA WaysAll ==
    ASSUME NEW w \in Widgets
    PROVE  WaysFirst(w.files, Len(w.files)) = {<<>>} \union AllWays(w)
  <1>1. PICK list \in Seq(Paths) : list = w.files
    BY DEF Widgets
  <1>2. PICK n \in Nat : n = Len(list) /\ DOMAIN list = 1..n
    OBVIOUS
  <1>3. \A i \in 1..n : list[i] \in Paths
    BY <1>2
  <1>4. ToSet(list) = {list[i] : i \in 1..n}
    BY <1>2 DEF ToSet
  <1>5. ASSUME NEW path \in Paths  PROVE {<<>>} \union WaysTo(path) = {<<>>} \union {SubSeq(path, 1, m) : m \in 0..Len(path)}
    <2>1. Len(path) \in Nat
      BY DEF Paths
    <2>2. 0..Len(path) = {0} \union (1..Len(path))
      BY <2>1
    <2>3. SubSeq(path, 1, 0) = <<>>
      BY NoPrefix
    <2>4. {SubSeq(path, 1, m) : m \in {0} \union (1..Len(path))} = {SubSeq(path, 1, 0)} \union {SubSeq(path, 1, m) : m \in 1..Len(path)}
      BY Zenon
    <2>5. QED  BY <2>2, <2>3, <2>4, Zenon DEF WaysTo
  <1>6. PICK upto : upto = [path \in Paths |-> {SubSeq(path, 1, m) : m \in 0..Len(path)}]
    OBVIOUS
  <1>7. \A i \in 1..n : {<<>>} \union WaysTo(list[i]) = {<<>>} \union upto[list[i]]
    BY <1>3, <1>5, <1>6, Zenon
  <1>8. \A x : x \in WaysFirst(list, n) <=> x = <<>> \/ \E i \in 1..n : x \in WaysTo(list[i])
    BY Zenon DEF WaysFirst
  <1>9. \A x : x \in AllWays(w) <=> \E i \in 1..n : x \in upto[list[i]]
    <2>1. AllWays(w) = UNION {{SubSeq(q, 1, m) : m \in 0..Len(q)} : q \in ToSet(list)}
      BY <1>1, Zenon DEF AllWays
    <2>2. \A q \in ToSet(list) : q \in Paths /\ upto[q] = {SubSeq(q, 1, m) : m \in 0..Len(q)}
      <3>1. \A q \in ToSet(list) : q \in Paths
        BY <1>3, <1>4
      <3>2. QED  BY <1>6, <3>1, Zenon
    <2>3. \A x : x \in AllWays(w) <=> \E q \in ToSet(list) : x \in {SubSeq(q, 1, m) : m \in 0..Len(q)}
      BY <2>1, Zenon
    <2>4. \A x : x \in AllWays(w) <=> \E q \in ToSet(list) : x \in upto[q]
      BY <2>2, <2>3, Zenon
    <2>5. QED  BY <1>4, <2>4
  <1>10. \A x : x \in WaysFirst(list, n) <=> x \in {<<>>} \union AllWays(w)
    <2>1. \A x : \A i \in 1..n : x # <<>> => (x \in WaysTo(list[i]) <=> x \in upto[list[i]])
      BY <1>7
    <2>2. QED  BY <1>8, <1>9, <2>1, Zenon
  <1>11. QED
    BY <1>1, <1>2, <1>10

LEMMA InstallSecurityRules == ASSUME IInv, RulesInv, InstallSecurity  PROVE RulesInv'
  <1>1. op.kind = "install" /\ op.step = "rules"
    BY OnlyInstall DEF InstallSecurity
  <1>2. UNCHANGED <<perms, denied>> /\ perms' \in PermTables
    BY DEF InstallSecurity, RulesInv
  <1>3. op.step \in Moved /\ op.step \in Checked
    BY <1>1, CheckedSteps DEF Moved
  <1>4. op.desc = op.wgt
    BY <1>1, <1>3, MovedStep
  <1>5. CASE FailTo /\ UNCHANGED rules
    BY <1>1, <1>2, <1>5, RulesFail
  <1>6. CASE /\ Goto("modes") /\ UNCHANGED files
             /\ rules' = [rules EXCEPT ![op.desc.id] =
                  [paths |-> PathTypes(files, op.desc), permits |-> UsablePermissions(perms) \union {DefaultPerm}]]
    <2>1. PICK w \in Widgets : w = op.wgt
      BY <1>1, Facts, WidgetsAssumption
    <2>2. PICK i \in Ids : i = w.id
      BY <1>1, <2>1, Facts
    <2>3. files = w.files /\ UsablePermissions(perms) = Asks(w) \ denied /\ OnlyOptional(w, denied)
      BY <1>3, <2>1 DEF RulesInv, Permitted
    <2>4. PICK types : types = PathTypes(w.files, w)
      OBVIOUS
    <2>5. w.files \in Seq(Paths)
      BY DEF Widgets
    <2>6. DOMAIN types = {<<>>} \union AllWays(w) /\ PublicUp(types)
      BY <2>4, <2>5, PathTypesSound, WaysAll
    <2>7. PICK r : r = [paths |-> types, permits |-> (Asks(w) \ denied) \union {DefaultPerm}]
      OBVIOUS
    <2>8. r.paths = types /\ r.permits = {DefaultPerm} \union (Asks(w) \ denied)
      BY <2>7
    <2>9. rules' = [rules EXCEPT ![i] = r]
      BY <1>4, <1>6, <2>1, <2>2, <2>3, <2>4, <2>7
    <2>10. /\ rules' = [j \in Ids |-> rules'[j]] /\ rules'[i] = r
           /\ \A j \in Ids : j # i => rules'[j] = rules[j]
      BY <2>9 DEF RulesInv
    <2>11. "modes" \in Steps /\ "modes" \notin {"end"}
      BY DEF Steps, Moved
    <2>12. op'.step = "modes" /\ op'.wgt = op.wgt
      BY <1>1, <1>6, <2>11, Facts, OpGoto DEF Goto
    <2>13. PublicWays'
      <3>1. SUFFICES ASSUME NEW j \in Ids, rules'[j] # Void, NEW q \in DOMAIN rules'[j].paths,
                            rules'[j].paths[q] = "public", NEW m \in 0..Len(q)
                     PROVE  rules'[j].paths[SubSeq(q, 1, m)] = "public"
        BY DEF PublicWays
      <3>2. CASE j = i
        BY <2>6, <2>8, <2>10, <3>1, <3>2 DEF PublicUp
      <3>3. CASE j # i
        BY <2>10, <3>1, <3>3 DEF RulesInv, PublicWays
      <3>4. QED  BY <3>2, <3>3
    <2>14. Ruled(op.wgt)'
      BY <1>2, <2>1, <2>2, <2>3, <2>6, <2>8, <2>10, <2>12 DEF Ruled, OnlyOptional
    <2>15. Permitted(op.wgt)' /\ files' = op'.wgt.files
      BY <1>2, <1>6, <2>1, <2>3, <2>12 DEF Permitted, OnlyOptional
    <2>16. QED
      BY <1>2, <2>10, <2>11, <2>12, <2>13, <2>14, <2>15 DEF RulesInv
  <1>7. QED
    BY <1>5, <1>6 DEF InstallSecurity

LEMMA MovedRules == ASSUME IInv, RulesInv, InstallIcon \/ InstallModes  PROVE RulesInv'
  <1>1. UNCHANGED <<rules, perms, denied>> /\ perms' \in PermTables
    BY DEF InstallIcon, InstallModes, RulesInv
  <1>2. op.kind = "install" /\ op.step \in {"icon", "modes"}
    BY OnlyInstall DEF InstallIcon, InstallModes
  <1>3. CASE FailTo
    BY <1>1, <1>2, <1>3, RulesFail
  <1>4. CASE ~FailTo
    <2>1. PICK x \in {"rules", "units"} : op' = [op EXCEPT !.step = x] /\ (x = "units" => op.step = "modes")
      BY <1>4 DEF InstallIcon, InstallModes, Goto, At
    <2>2. UNCHANGED files
      BY <1>4 DEF InstallIcon, InstallModes
    <2>3. x \in Checked /\ op.step \in Checked /\ (x \in {"modes", "units"} => op.step \in {"modes", "units"})
      BY <1>2, <2>1, CheckedSteps
    <2>4. QED
      BY <1>1, <1>2, <2>1, <2>2, <2>3, RulesGoto
  <1>5. QED
    BY <1>3, <1>4

LEMMA SetupUnitsRules == ASSUME IInv, RulesInv, SetupUnits  PROVE RulesInv'
  <1>1. op.kind = "install" /\ op.step = "units"
    BY OnlyInstall DEF SetupUnits
  <1>2. UNCHANGED <<rules, perms, denied>> /\ perms' \in PermTables
    BY DEF SetupUnits, RulesInv
  <1>3. CASE FailTo
    BY <1>1, <1>2, <1>3, RulesFail
  <1>4. CASE Finish(TRUE)
    <2>1. op'.step = "end" /\ op'.wgt = op.wgt
      BY <1>1, <1>4, Facts, OpSet, QuitsApart DEF Finish
    <2>2. Ruled(op.wgt)
      BY <1>1 DEF RulesInv
    <2>3. Ruled(op.wgt)'
      BY <1>2, <2>1, <2>2 DEF Ruled
    <2>4. PublicWays'
      BY <1>2 DEF RulesInv, PublicWays
    <2>5. op'.step \notin Unpacked \union Moved /\ op'.step \notin Checked /\ op'.step \notin {"modes", "units"}
      BY <2>1, QuitsApart
    <2>6. QED
      BY <1>2, <2>3, <2>4, <2>5 DEF RulesInv
  <1>5. QED
    BY <1>3, <1>4 DEF SetupUnits

LEMMA QuitRules ==
    ASSUME IInv, RulesInv, StartInstall \/ MakeWorkdir \/ Cleanup \/ Die \/ NextWidget \/ Restart
    PROVE  RulesInv'
  <1>1. UNCHANGED rules
    BY DEF StartInstall, MakeWorkdir, Cleanup, Die, NextWidget, Restart
  <1>2. perms' \in PermTables
    <2>1. NoPerms \in PermTables
      BY DEF NoPerms, PermTables
    <2>2. QED  BY <2>1 DEF StartInstall, MakeWorkdir, Cleanup, Die, NextWidget, Restart, RulesInv
  <1>3. op'.step \in Quits \/ (op'.step = "end" /\ op'.ok = FALSE)
    <2>1. op \in Ops /\ "read" \in Steps /\ "dead" \in Steps /\ "end" \in Steps
      BY StepsApart DEF IInv, UnitsInv, ToolTypeOK
    <2>2. CASE StartInstall
      <3>1. PICK w \in Packages, f \in BOOLEAN :
                op' = [Idle EXCEPT !.kind = "install", !.step = "workdir", !.wgt = w, !.force = f]
        BY <2>2 DEF StartInstall
      <3>2. op'.step = "workdir"
        BY <3>1 DEF Idle
      <3>3. QED  BY <3>2 DEF Quits
    <2>3. CASE NextWidget \/ Restart
      BY <2>3 DEF NextWidget, Restart, Idle, Quits
    <2>4. CASE Finish(FALSE)
      BY <2>1, <2>4, OpSet DEF Finish
    <2>5. CASE Goto("read")
      BY <2>1, <2>5, OpGoto DEF Goto, Quits
    <2>6. CASE Goto("dead")
      BY <2>1, <2>6, OpGoto DEF Goto, Quits
    <2>7. QED
      BY <2>2, <2>3, <2>4, <2>5, <2>6 DEF MakeWorkdir, Cleanup, Die
  <1>4. QED
    BY <1>1, <1>2, <1>3, RulesQuit

LEMMA RulesInvariance == ToolSpec => [](IInv /\ RulesInv)
  <1>1. WidgetInit => RulesInv
    <2>1. SUFFICES ASSUME WidgetInit  PROVE RulesInv
      OBVIOUS
    <2>2. NoPerms \in PermTables
      BY DEF NoPerms, PermTables
    <2>3. op.step = "idle"
      BY <2>1 DEF WidgetInit, Idle
    <2>4. "idle" \notin Unpacked \union Moved /\ "idle" \notin Checked
      BY QuitsApart DEF Quits
    <2>5. perms = NoPerms /\ rules = [i \in Ids |-> Void]
      BY <2>1 DEF WidgetInit
    <2>6. PublicWays
      BY <2>5 DEF PublicWays
    <2>7. QED
      BY <2>2, <2>3, <2>4, <2>5, <2>6 DEF RulesInv
  <1>2. IInv /\ RulesInv /\ [ToolNext]_widgetVars => RulesInv'
    <2>1. SUFFICES ASSUME IInv, RulesInv, [ToolNext]_widgetVars  PROVE RulesInv'
      OBVIOUS
    <2>2. CASE UNCHANGED widgetVars
      BY <2>1, <2>2 DEF widgetVars, RulesInv, Ruled, Permitted, OnlyOptional, PublicWays
    <2>3. CASE StartInstall \/ MakeWorkdir \/ Cleanup \/ Die \/ NextWidget \/ Restart
      BY <2>1, <2>3, QuitRules
    <2>4. CASE Target \/ OldInfo \/ SetdownUnits \/ SetdownIcon \/ RemoveOld \/ MoveWorkdir
      BY <2>1, <2>4, SimpleRules
    <2>5. CASE ZRead \/ InfoDescCheck \/ SetdownSecurity \/ InstallSecurity
      BY <2>1, <2>5, ZReadRules, InfoDescCheckRules, SetdownSecurityRules, InstallSecurityRules
    <2>6. CASE InstallIcon \/ InstallModes \/ SetupUnits
      BY <2>1, <2>6, MovedRules, SetupUnitsRules
    <2>7. QED
      BY <2>1, <2>2, <2>3, <2>4, <2>5, <2>6 DEF ToolNext, WidgetStep
  <1>3. QED
    BY <1>1, <1>2, Invariance, PTL DEF ToolSpec

----------------------------------------------------------------------------
(* What an installation that is not forced leaves of the icons and of the rules. *)

Early == {"workdir", "read"} \union Unpacked

\* They are as they were, but for the widget that is now at its place.
Kept ==
    \A i \in Ids : \/ icons[i] = saved.icons[i] /\ rules[i] = saved.rules[i]
                   \/ i = op.wgt.id /\ saved.dirs[i] = Void /\ dirs[i] = op.wgt

KeptInv ==
    op.kind = "install" /\ op.force = FALSE =>
        /\ op.step \in Early => icons = saved.icons /\ rules = saved.rules
        /\ op.step \in Moved \union {"cleanup"} => Kept
        /\ op.step = "end" /\ op.ok = FALSE => Kept

LEMMA EarlySteps ==
    /\ Early \cap (Moved \union {"cleanup", "end", "dead", "idle"}) = {}
    /\ Moved \cap {"cleanup", "end", "dead", "idle"} = {}
  BY DEF Early, Unpacked, Moved

\* The step of an operation keeps what it is about.
LEMMA SameOperation ==
    ASSUME IInv, op.kind = "install",
           NEW x \in Steps, NEW b \in BOOLEAN, NEW w \in Held,
           op' \in {[op EXCEPT !.step = x], [op EXCEPT !.step = x, !.ok = b], [op EXCEPT !.desc = w, !.step = x]}
    PROVE  op'.step = x /\ op'.kind = op.kind /\ op'.wgt = op.wgt /\ op'.force = op.force
  <1>1. op \in Ops
    BY Facts
  <1>2. CASE op' = [op EXCEPT !.step = x]
    BY <1>1, <1>2, OpGoto
  <1>3. CASE op' = [op EXCEPT !.step = x, !.ok = b]
    BY <1>1, <1>3, OpSet
  <1>4. CASE op' = [op EXCEPT !.desc = w, !.step = x]
    BY <1>1, <1>4, OpDesc
  <1>5. QED
    BY <1>2, <1>3, <1>4

\* A step that changes neither icons nor rules.
LEMMA KeptSame ==
    ASSUME KeptInv, op.kind = "install", UNCHANGED <<icons, rules, saved>>,
           op'.kind = op.kind, op'.wgt = op.wgt, op'.force = op.force,
           op.step \in Early \union Moved \union {"cleanup"},
           op'.step \in Early => op.step \in Early,
           op.step \in Moved \union {"cleanup"} => \A i \in Ids : dirs'[i] = dirs[i]
    PROVE  KeptInv'
  <1>1. SUFFICES ASSUME op.force = FALSE
                 PROVE  /\ op'.step \in Early => icons' = saved'.icons /\ rules' = saved'.rules
                        /\ op'.step \notin Early => Kept'
    BY EarlySteps DEF KeptInv
  <1>2. CASE op.step \in Early
    BY <1>1, <1>2 DEF KeptInv, Kept
  <1>3. CASE op.step \in Moved \union {"cleanup"}
    <2>1. Kept /\ op'.step \notin Early
      BY <1>1, <1>3, EarlySteps DEF KeptInv
    <2>2. QED  BY <1>3, <2>1 DEF Kept
  <1>4. QED
    BY <1>2, <1>3

LEMMA PassesKept ==
    ASSUME IInv, KeptInv, MakeWorkdir \/ ZRead \/ Target \/ MoveWorkdir \/ InstallModes \/ SetupUnits
    PROVE  KeptInv'
  <1>1. UNCHANGED <<icons, rules, saved>>
    BY DEF MakeWorkdir, ZRead, Target, MoveWorkdir, InstallModes, SetupUnits
  <1>2. op.kind = "install" /\ op.step \in {"workdir", "read", "target", "move", "modes", "units"}
    BY OnlyInstall DEF MakeWorkdir, ZRead, Target, MoveWorkdir, InstallModes, SetupUnits
  <1>3. op.step \in Early \union Moved
    BY <1>2 DEF Early, Unpacked, Moved
  <1>4. op.step \in Moved => UNCHANGED dirs /\ (InstallModes \/ SetupUnits)
    <2>1. CASE MakeWorkdir \/ ZRead \/ Target \/ MoveWorkdir
      <3>1. op.step \in {"workdir", "read", "target", "move"}
        BY <2>1, OnlyInstall DEF MakeWorkdir, ZRead, Target, MoveWorkdir
      <3>2. QED  BY <3>1 DEF Moved
    <2>2. CASE InstallModes \/ SetupUnits
      BY <2>2 DEF InstallModes, SetupUnits
    <2>3. QED  BY <2>1, <2>2
  <1>5. PICK x \in {"read", "end", "check", "cleanup", "move", "oldinfo", "icon", "units"}, b \in BOOLEAN :
            op' \in {[op EXCEPT !.step = x], [op EXCEPT !.step = x, !.ok = b]}
    BY <1>2 DEF MakeWorkdir, ZRead, Target, MoveWorkdir, InstallModes, SetupUnits, FailTo, Finish, Goto
  <1>6. x \in Steps /\ Void \in Held
    BY DEF Steps, Unpacked, Moved, Held
  <1>7. op'.step = x /\ op'.kind = op.kind /\ op'.wgt = op.wgt /\ op'.force = op.force
    <2>1. PICK v \in Held : v = Void
      BY <1>6
    <2>2. op' \in {[op EXCEPT !.step = x], [op EXCEPT !.step = x, !.ok = b], [op EXCEPT !.desc = v, !.step = x]}
      BY <1>5
    <2>3. QED  BY <1>2, <1>6, <2>2, SameOperation
  <1>8. x \in Early => op.step \in Early
    <2>1. CASE op.step \notin Moved
      BY <1>3, <2>1
    <2>2. CASE op.step \in Moved
      <3>1. op' \in {[op EXCEPT !.step = "units"], [op EXCEPT !.step = "cleanup"], [op EXCEPT !.step = "end", !.ok = TRUE]}
        BY <1>2, <1>4, <2>2 DEF InstallModes, SetupUnits, FailTo, Finish, Goto
      <3>2. op'.step \in {"units", "cleanup", "end"}
        BY <1>2, <3>1, Facts DEF Ops
      <3>3. QED  BY <1>7, <3>2 DEF Early, Unpacked
    <2>3. QED  BY <2>1, <2>2
  <1>9. QED
    BY <1>1, <1>2, <1>3, <1>4, <1>7, <1>8, KeptSame

LEMMA InfoDescCheckKept == ASSUME IInv, KeptInv, InfoDescCheck  PROVE KeptInv'
  <1>1. op.kind = "install" /\ op.step = "check" /\ UNCHANGED <<icons, rules, saved>>
    BY OnlyInstall DEF InfoDescCheck
  <1>2. op.step \in Unpacked /\ op.step \in Early /\ op.step \notin Moved \union {"cleanup"}
    BY <1>1 DEF Unpacked, Early, Moved
  <1>3. workdir # Void /\ dirs[workdir] = op.wgt
    BY <1>2, TempsApart DEF IInv, UnitsInv, InPlace
  <1>4. op' \in {[op EXCEPT !.step = "cleanup"], [op EXCEPT !.desc = op.wgt, !.step = "target"]}
    BY <1>1, <1>3 DEF InfoDescCheck, FailTo, Goto
  <1>5. op'.kind = op.kind /\ op'.wgt = op.wgt /\ op'.force = op.force
    <2>1. "cleanup" \in Steps /\ "target" \in Steps /\ op.wgt \in Held /\ TRUE \in BOOLEAN
      BY <1>1, Facts DEF Steps, Unpacked
    <2>2. QED  BY <1>1, <1>4, <2>1, Facts, OpGoto, OpDesc
  <1>6. QED
    BY <1>1, <1>2, <1>5, KeptSame

LEMMA ForcedKept ==
    ASSUME IInv, KeptInv, OldInfo \/ SetdownUnits \/ SetdownIcon \/ SetdownSecurity \/ RemoveOld
    PROVE  KeptInv'
  <1>1. op.kind = "install" /\ op.step \in Forced
    BY OnlyInstall DEF OldInfo, SetdownUnits, SetdownIcon, SetdownSecurity, RemoveOld, Forced
  <1>2. op.force = TRUE /\ op \in Ops
    BY <1>1, OldStep, Facts
  <1>3. op'.force = op.force
    BY <1>1, <1>2 DEF OldInfo, SetdownUnits, SetdownIcon, SetdownSecurity, RemoveOld, AfterSetdown, FailTo, Goto, Ops
  <1>4. QED
    BY <1>2, <1>3 DEF KeptInv

\* What is set up after the move is of the widget at its place.
LEMMA SetupKept == ASSUME IInv, RulesInv, KeptInv, InstallIcon \/ InstallSecurity  PROVE KeptInv'
  <1>1. op.kind = "install" /\ op.step \in {"icon", "rules"} /\ UNCHANGED <<dirs, saved>>
    BY OnlyInstall DEF InstallIcon, InstallSecurity
  <1>2. op.step \in Moved /\ op.step \notin Early
    BY <1>1 DEF Moved, Early, Unpacked
  <1>3. /\ op.desc = op.wgt /\ workdir = op.wgt.id /\ dirs[op.wgt.id] = op.wgt
        /\ op.wgt.id \in Ids /\ op.wgt.id \in AllDirs /\ op \in Ops
    BY <1>1, <1>2, MovedStep, Facts
  <1>4. PICK x \in {"rules", "modes", "cleanup"} : op' = [op EXCEPT !.step = x]
    BY <1>1 DEF InstallIcon, InstallSecurity, FailTo, Goto
  <1>5. x \in Steps /\ x \notin Early /\ x # "end"
    BY DEF Steps, Moved, Early, Unpacked
  <1>6. op'.step = x /\ op'.kind = op.kind /\ op'.wgt = op.wgt /\ op'.force = op.force
    BY <1>3, <1>4, <1>5, OpGoto
  <1>7. \A i \in Ids : i # op.wgt.id => icons'[i] = icons[i] /\ rules'[i] = rules[i]
    <2>1. PICK j \in Ids : j = op.wgt.id
      BY <1>3
    <2>2. icons \in Tables /\ rules = [i \in Ids |-> rules[i]]
      BY DEF IInv, UnitsInv, ToolTypeOK, RulesInv
    <2>3. CASE InstallIcon
      <3>1. rules' = rules /\ (icons' = icons \/ icons' = [icons EXCEPT ![j] = op.desc])
        BY <1>3, <2>1, <2>3 DEF InstallIcon
      <3>2. QED  BY <2>1, <2>2, <3>1 DEF Tables
    <2>4. CASE InstallSecurity
      <3>1. PICK r : r = [paths |-> PathTypes(files, op.desc), permits |-> UsablePermissions(perms) \union {DefaultPerm}]
        OBVIOUS
      <3>2. icons' = icons /\ (rules' = rules \/ rules' = [rules EXCEPT ![j] = r])
        BY <1>3, <2>1, <2>4, <3>1 DEF InstallSecurity
      <3>3. QED  BY <2>1, <2>2, <3>2
    <2>5. QED  BY <2>3, <2>4
  <1>8. SUFFICES ASSUME op.force = FALSE  PROVE Kept'
    BY <1>5, <1>6 DEF KeptInv
  <1>9. Kept /\ saved.dirs[op.wgt.id] = Void
    <2>1. OnlyWorkdir
      BY <1>1, <1>2, <1>8 DEF IInv, Unforced
    <2>2. QED  BY <1>1, <1>2, <1>3, <1>8, <2>1 DEF OnlyWorkdir, KeptInv
  <1>10. QED
    BY <1>1, <1>3, <1>6, <1>7, <1>9 DEF Kept

LEMMA CleanupKept == ASSUME IInv, KeptInv, Cleanup  PROVE KeptInv'
  <1>1. op.kind = "install" /\ op.step = "cleanup" /\ UNCHANGED <<icons, rules, saved>>
    BY OnlyInstall DEF Cleanup
  <1>2. PICK x \in {"end", "dead"} : op' \in {[op EXCEPT !.step = x], [op EXCEPT !.step = x, !.ok = FALSE]}
    BY <1>1 DEF Cleanup, Finish, Goto
  <1>3. x \in Steps /\ x \notin Early
    BY DEF Steps, Early, Unpacked
  <1>4. op'.step = x /\ op'.kind = op.kind /\ op'.wgt = op.wgt /\ op'.force = op.force
    BY <1>1, <1>2, <1>3, Facts, OpGoto, OpSet
  <1>5. \A i \in Ids : dirs'[i] = dirs[i]
    <2>1. dirs \in Disks /\ workdir \in AllDirs \union {Void}
      BY DEF IInv, UnitsInv, ToolTypeOK
    <2>2. \A i \in Ids : i \in AllDirs
      BY DEF AllDirs
    <2>3. PICK j, v : dirs' = dirs \/ (j \notin Ids /\ dirs' = [dirs EXCEPT ![j] = v])
      <3>1. CASE dirs' = [dirs EXCEPT ![workdir].config = FALSE, ![workdir].files = <<>>]
        <4>1. CASE workdir \in Ids \/ workdir = Void
          BY <2>1, <4>1, VoidAssumption DEF Cleanup, Disks
        <4>2. CASE workdir \notin Ids /\ workdir # Void
          <5>1. PICK v : v = [dirs[workdir] EXCEPT !.config = FALSE, !.files = <<>>]
            OBVIOUS
          <5>2. PICK i \in AllDirs : i = workdir
            BY <2>1, <4>2
          <5>3. dirs' = [dirs EXCEPT ![i] = v]
            BY <2>1, <3>1, <5>1, <5>2 DEF Disks
          <5>4. QED  BY <4>2, <5>2, <5>3
        <4>3. QED  BY <4>1, <4>2
      <3>2. CASE dirs' # [dirs EXCEPT ![workdir].config = FALSE, ![workdir].files = <<>>]
        BY <3>2 DEF Cleanup
      <3>3. QED  BY <3>1, <3>2
    <2>4. QED  BY <2>1, <2>2, <2>3 DEF Disks
  <1>6. QED
    BY <1>1, <1>3, <1>4, <1>5, KeptSame

LEMMA OthersKept == ASSUME IInv, KeptInv, StartInstall \/ Die \/ NextWidget \/ Restart  PROVE KeptInv'
  <1>1. CASE StartInstall
    <2>1. PICK w \in Packages, f \in BOOLEAN :
              op' = [Idle EXCEPT !.kind = "install", !.step = "workdir", !.wgt = w, !.force = f]
      BY <1>1 DEF StartInstall
    <2>2. op'.step = "workdir"
      BY <2>1 DEF Idle
    <2>3. icons' = saved'.icons /\ rules' = saved'.rules
      BY <1>1 DEF StartInstall
    <2>4. "workdir" \notin Moved \union {"cleanup", "end"}
      BY DEF Moved
    <2>5. QED  BY <2>2, <2>3, <2>4 DEF KeptInv
  <1>2. CASE Die
    <2>1. op'.step = "dead"
      <3>1. op \in Ops /\ "dead" \in Steps
        BY DEF IInv, UnitsInv, ToolTypeOK, Steps
      <3>2. QED  BY <1>2, <3>1, OpGoto DEF Die, Goto
    <2>2. QED  BY <2>1, EarlySteps DEF KeptInv
  <1>3. CASE NextWidget \/ Restart
    <2>1. op'.kind = "none"
      BY <1>3 DEF NextWidget, Restart, Idle
    <2>2. QED  BY <2>1 DEF KeptInv
  <1>4. QED
    BY <1>1, <1>2, <1>3

LEMMA KeptInvariance == ToolSpec => [](IInv /\ RulesInv /\ KeptInv)
  <1>1. WidgetInit => KeptInv
    BY DEF WidgetInit, KeptInv, Idle
  <1>2. IInv /\ RulesInv /\ KeptInv /\ [ToolNext]_widgetVars => KeptInv'
    <2>1. SUFFICES ASSUME IInv, RulesInv, KeptInv, [ToolNext]_widgetVars  PROVE KeptInv'
      OBVIOUS
    <2>2. CASE UNCHANGED widgetVars
      BY <2>1, <2>2 DEF widgetVars, KeptInv, Kept
    <2>3. CASE StartInstall \/ Die \/ NextWidget \/ Restart
      BY <2>1, <2>3, OthersKept
    <2>4. CASE MakeWorkdir \/ ZRead \/ Target \/ MoveWorkdir \/ InstallModes \/ SetupUnits
      BY <2>1, <2>4, PassesKept
    <2>5. CASE OldInfo \/ SetdownUnits \/ SetdownIcon \/ SetdownSecurity \/ RemoveOld
      BY <2>1, <2>5, ForcedKept
    <2>6. CASE InfoDescCheck \/ InstallIcon \/ InstallSecurity \/ Cleanup
      BY <2>1, <2>6, InfoDescCheckKept, SetupKept, CleanupKept
    <2>7. QED
      BY <2>1, <2>2, <2>3, <2>4, <2>5, <2>6 DEF ToolNext, WidgetStep
  <1>3. QED
    BY <1>1, <1>2, RulesInvariance, PTL DEF ToolSpec

\* What a failed installation leaves, in every state.
LEMMA ContainedAll == IInv /\ KeptInv => FailureContained
  <1>1. SUFFICES ASSUME IInv, KeptInv, op.kind = "install", op.step = "end", ~op.ok, ~op.force
                 PROVE  /\ units = saved.units
                        /\ \A d \in AllDirs : saved.dirs[d] # Void => dirs[d] = saved.dirs[d]
                        /\ \A i \in Ids : \/ Untouched(i)
                                          \/ i = op.wgt.id /\ saved.dirs[i] = Void /\ dirs[i] = op.wgt
    BY DEF FailureContained
  <1>2. op.ok = FALSE /\ op.force = FALSE
    BY <1>1, Facts
  <1>3. Contained /\ Kept
    BY <1>1, <1>2 DEF IInv, Unforced, KeptInv
  <1>4. QED
    BY <1>3 DEF Contained, Kept, Untouched

\* An installation that is not forced and that fails, whichever step failed (install_widget): it
\* has added no unit and has left what was installed as it was; all that it may leave is a
\* temporary directory whose removal failed or, past the move, the widget at a place where nothing
\* was, its icon and its rules.  That it leaves no directory at all is false (FailureUndone).
THEOREM FailureCorrect == ToolSpec => []FailureContained
  BY ContainedAll, KeptInvariance, PTL

\* The answer of install_widget is true: a success leaves the widget whole (its directory, its
\* icon, its units, a rule for each of its paths and for no other, the permissions that it asks and
\* no other, but for the optional ones that could not be recorded), whatever the process has
\* installed before with the same global variables; a failure that was not forced is contained, as
\* FailureCorrect tells; and the way to what is public is public.
THEOREM AnswersCorrect == ToolSpec => []WidgetAnswers
  <1>1. IInv /\ RulesInv /\ KeptInv => WidgetAnswers
    <2>1. SUFFICES ASSUME IInv, RulesInv  PROVE InstalledWhole
      <3>1. RulesInv => PublicWays
        BY DEF RulesInv
      <3>2. QED  BY <3>1, ContainedAll DEF WidgetAnswers
    <2>2. SUFFICES ASSUME op.step = "end", op.ok, op.kind \in {"install", "redpesk"}
                   PROVE  /\ op.kind = "install" /\ Present(op.wgt) /\ Ruled(op.wgt)
      BY DEF InstalledWhole, Present, Ruled, OnlyOptional
    <2>3. op.kind = "install"
      BY <2>1, <2>2, OpFields DEF IInv, UnitsInv, ToolTypeOK
    <2>4. op.ok = TRUE
      BY <2>1, <2>2, <2>3, Facts
    <2>5. QED
      BY <2>1, <2>2, <2>3, <2>4 DEF IInv, Iconed, RulesInv
  <1>2. QED
    BY <1>1, KeptInvariance, PTL

----------------------------------------------------------------------------
(* The signatures of legacy widgets: what the automatic signatures leave, and the list  *)
(* of the signatures of a directory.                                                    *)

SignDirs == [SignNames -> Nat]
SignDocs == {SetDoc} \union {[refs |-> Restrict(dir, S)] : dir \in SignDirs, S \in SUBSET SignNames}
SignStates == [content : SignDirs, docs : [Signatures -> SignDocs], clock : Nat, shots : [Signatures -> SignDirs]]

\* The document of a signature is the one that was computed from what its signer saw.
SoundStates ==
    {st \in SignStates : \A s \in Signatures : st.content[s] # 0 => st.docs[s] = [refs |-> XmlsecCreate(st.shots[s], s)]}

LEMMA CreateDigsigSound ==
    ASSUME NEW st \in SoundStates, NEW name \in Signatures
    PROVE  CreateDigsig(st, name) \in SoundStates
  <1>1. /\ st.content \in SignDirs /\ st.docs \in [Signatures -> SignDocs] /\ st.clock \in Nat
        /\ st.shots \in [Signatures -> SignDirs]
        /\ \A s \in Signatures : st.content[s] # 0 => st.docs[s] = [refs |-> XmlsecCreate(st.shots[s], s)]
    BY DEF SoundStates, SignStates
  <1>2. PICK dir \in SignDirs : dir = st.content
    BY <1>1
  <1>a. PICK d : d = [refs |-> XmlsecCreate(dir, name)]
    OBVIOUS
  <1>3. d \in SignDocs
    <2>1. PICK S \in SUBSET SignNames : XmlsecCreate(dir, name) = Restrict(dir, S)
      BY DEF XmlsecCreate, Listed
    <2>2. QED  BY <1>a, <2>1 DEF SignDocs
  <1>4. name \in SignNames
    BY DEF SignNames
  <1>5. PICK new \in SignDirs : new = [dir EXCEPT ![name] = st.clock + 1]
    <2>1. st.clock + 1 \in Nat
      BY <1>1
    <2>2. [dir EXCEPT ![name] = st.clock + 1] \in SignDirs
      BY <1>4, <2>1 DEF SignDirs
    <2>3. QED  BY <2>2
  <1>6. \A s \in Signatures : s # name => new[s] = dir[s]
    BY <1>5 DEF SignDirs, SignNames
  <1>7. PICK docs2 \in [Signatures -> SignDocs], shots2 \in [Signatures -> SignDirs] :
            docs2 = [st.docs EXCEPT ![name] = d] /\ shots2 = [st.shots EXCEPT ![name] = dir]
    BY <1>1, <1>3
  <1>8. CreateDigsig(st, name) = [content |-> new, docs |-> docs2, clock |-> st.clock + 1, shots |-> shots2]
    BY <1>2, <1>5, <1>7, <1>a DEF CreateDigsig
  <1>9. ASSUME NEW s \in Signatures, new[s] # 0
        PROVE  docs2[s] = [refs |-> XmlsecCreate(shots2[s], s)]
    <2>1. CASE s = name
      <3>1. docs2[s] = d /\ shots2[s] = dir
        BY <1>1, <1>7, <2>1
      <3>2. QED  BY <1>2, <1>a, <2>1, <3>1
    <2>2. CASE s # name
      <3>1. docs2[s] = st.docs[s] /\ shots2[s] = st.shots[s]
        BY <1>1, <1>7, <2>2
      <3>2. st.docs[s] = [refs |-> XmlsecCreate(st.shots[s], s)]
        BY <1>1, <1>2, <1>6, <1>9, <2>2
      <3>3. QED  BY <3>1, <3>2
    <2>3. QED  BY <2>1, <2>2
  <1>10. PICK r : r = CreateDigsig(st, name)
    OBVIOUS
  <1>11. r \in SignStates /\ r.content = new /\ r.docs = docs2 /\ r.shots = shots2
    BY <1>1, <1>8, <1>10 DEF SignStates
  <1>12. r \in SoundStates
    BY <1>9, <1>11 DEF SoundStates
  <1>13. QED
    BY <1>10, <1>12

\* create_auto_digsig
SignFold(f, base, names) ==
    f = [s \in SUBSET DOMAIN names |-> IF s = {} THEN base ELSE CreateDigsig(f[s \ {Max(s)}], names[Max(s)])]

LEMMA SignFoldExists ==
    ASSUME NEW base \in SoundStates, NEW names \in Seq(Signatures)
    PROVE  \E f \in [SUBSET DOMAIN names -> SoundStates] : SignFold(f, base, names)
  <1>1. PICK n \in Nat : DOMAIN names = 1..n
    OBVIOUS
  <1>2. \A i \in 1..n : names[i] \in Signatures
    BY <1>1
  <1>3. PICK phi : phi = [z \in SoundStates \X (1..n) |-> CreateDigsig(z[1], names[z[2]])]
    OBVIOUS
  <1>4. phi \in [SoundStates \X (1..n) -> SoundStates]
    BY <1>2, <1>3, CreateDigsigSound
  <1>5. PICK f \in [SUBSET (1..n) -> SoundStates] :
            \A s \in SUBSET (1..n) : f[s] = FoldStep(f, phi, base, s)
    <2>1. PICK f : Folding(f, n, SoundStates, phi, base)
      BY <1>4, FoldExists
    <2>2. QED  BY <2>1 DEF Folding
  <1>6. \A s \in SUBSET (1..n) : s # {} => phi[<<f[s \ {Max(s)}], Max(s)>>] = CreateDigsig(f[s \ {Max(s)}], names[Max(s)])
    <2>1. SUFFICES ASSUME NEW s \in SUBSET (1..n), s # {}
          PROVE phi[<<f[s \ {Max(s)}], Max(s)>>] = CreateDigsig(f[s \ {Max(s)}], names[Max(s)])
      OBVIOUS
    <2>2. Max(s) \in 1..n /\ s \ {Max(s)} \in SUBSET (1..n)
      BY <2>1, MaxIn
    <2>3. PICK a \in SoundStates, i \in 1..n : a = f[s \ {Max(s)}] /\ i = Max(s)
      BY <2>2
    <2>4. phi[<<a, i>>] = CreateDigsig(a, names[i])
      BY <1>3
    <2>5. QED  BY <2>3, <2>4
  <1>7. \A s \in SUBSET (1..n) : f[s] = IF s = {} THEN base ELSE CreateDigsig(f[s \ {Max(s)}], names[Max(s)])
    BY <1>5, <1>6 DEF FoldStep
  <1>8. f = [s \in SUBSET (1..n) |-> IF s = {} THEN base ELSE CreateDigsig(f[s \ {Max(s)}], names[Max(s)])]
    BY <1>7
  <1>9. QED
    BY <1>1, <1>8 DEF SignFold

LEMMA AutoDigsigSound ==
    ASSUME NEW base \in SoundStates, NEW names \in Seq(Signatures)
    PROVE  FoldLeft(CreateDigsig, base, names) \in SoundStates
  <1> DEFINE Body(f) == [s \in SUBSET DOMAIN names |->
                            IF s = {} THEN base ELSE CreateDigsig(f[s \ {Max(s)}], names[Max(s)])]
  <1>1. PICK g : g = CHOOSE f : f = Body(f)
    OBVIOUS
  <1>2. \E f : f = Body(f)
    <2>1. PICK f : SignFold(f, base, names)
      BY SignFoldExists
    <2>2. f = Body(f)
      BY <2>1 DEF SignFold
    <2>3. QED
      <3> HIDE DEF Body
      <3> QED  BY <2>2
  <1>3. g = Body(g)
    <2> HIDE DEF Body
    <2> QED  BY <1>1, <1>2
  <1>4. FoldLeft(CreateDigsig, base, names) = g[DOMAIN names]
    BY <1>1 DEF FoldLeft, MapThenFoldSet
  <1>5. PICK n \in Nat : DOMAIN names = 1..n
    OBVIOUS
  <1> DEFINE T == {k \in Nat : k <= n => g[1..k] \in SoundStates}
  <1>6. \A s \in SUBSET (1..n) : g[s] = IF s = {} THEN base ELSE CreateDigsig(g[s \ {Max(s)}], names[Max(s)])
    BY <1>3, <1>5
  <1>7. 0 \in T
    <2>1. 1..0 = {} /\ {} \in SUBSET (1..n)
      OBVIOUS
    <2>2. g[1..0] = base
      BY <1>6, <2>1
    <2>3. QED  BY <2>2
  <1>8. ASSUME NEW k \in 1..n, k - 1 \in T  PROVE k \in T
    <2>1. /\ 1..k \in SUBSET (1..n) /\ 1..k # {}
          /\ Max(1..k) = k /\ (1..k) \ {Max(1..k)} = 1..(k - 1)
      BY FirstIndexes
    <2>2. g[1..k] = CreateDigsig(g[1..(k - 1)], names[k])
      BY <1>6, <2>1
    <2>3. names[k] \in Signatures /\ g[1..(k - 1)] \in SoundStates
      BY <1>5, <1>8
    <2>4. g[1..k] \in SoundStates
      BY <2>2, <2>3, CreateDigsigSound
    <2>5. QED  BY <2>4
  <1>9. n \in T
    <2>1. T \in SUBSET Nat
      OBVIOUS
    <2> HIDE DEF T
    <2> QED  BY <1>7, <1>8, <2>1, EveryIndex
  <1>10. QED
    BY <1>4, <1>5, <1>9


\* The signatures have distinct numbers.
LEMMA SignumInjective ==
    /\ \A s \in Signatures : Signum(s) \in Nat
    /\ \A s, t \in Signatures : Signum(s) = Signum(t) => s = t
    /\ IsFiniteSet(Signatures)
  <1>1. PICK n \in Nat : n = Len(SigFiles) /\ DOMAIN SigFiles = 1..n
    BY SignAssumption
  <1>2. \A f \in ToSet(SigFiles) : \E i \in 1..n : SigFiles[i] = f
    BY <1>1 DEF ToSet
  <1>3. \A f \in ToSet(SigFiles) : Signum(f) \in 1..n /\ SigFiles[Signum(f)] = f
    <2>1. SUFFICES ASSUME NEW f \in ToSet(SigFiles)
          PROVE Signum(f) \in 1..n /\ SigFiles[Signum(f)] = f
      OBVIOUS
    <2>2. Signum(f) = CHOOSE i \in 1..n : SigFiles[i] = f
      BY <1>1, SignAssumption DEF Signum
    <2>3. QED  BY <1>2, <2>2
  <1>4. Signum(AuthorFile) = n + 1
    BY <1>1 DEF Signum
  <1>5. \A s \in Signatures : s # AuthorFile => s \in ToSet(SigFiles)
    BY DEF Signatures
  <1>6. \A s \in Signatures : Signum(s) \in Nat
    BY <1>3, <1>4, <1>5
  <1>7. \A s, t \in Signatures : Signum(s) = Signum(t) => s = t
    BY <1>3, <1>4, <1>5
  <1>8. IsFiniteSet(Signatures)
    <2>1. IsFiniteSet(1..n)
      BY FS_Interval
    <2>2. PICK f : f = [i \in 1..n |-> SigFiles[i]]
      OBVIOUS
    <2>3. f \in Surjection(1..n, ToSet(SigFiles))
      BY <1>1, <2>2 DEF ToSet, Surjection
    <2>4. IsFiniteSet(ToSet(SigFiles))
      BY <2>1, <2>3, FS_Surjection
    <2>5. QED  BY <2>4, FS_AddElement DEF Signatures
  <1>9. QED
    BY <1>6, <1>7, <1>8

Below(S, x) == {y \in S : Signum(y) <= Signum(x)}

LEMMA Ranks ==
    ASSUME NEW S \in SUBSET Signatures
    PROVE  /\ IsFiniteSet(S)
           /\ \A x \in S : Cardinality(Below(S, x)) \in 1..Cardinality(S)
           /\ \A x, y \in S : Signum(x) < Signum(y) => Cardinality(Below(S, x)) < Cardinality(Below(S, y))
  <1>1. IsFiniteSet(S) /\ Cardinality(S) \in Nat
    BY SignumInjective, FS_Subset, FS_CardinalityType
  <1>2. \A x \in S : /\ Below(S, x) \subseteq S /\ IsFiniteSet(Below(S, x)) /\ Cardinality(Below(S, x)) \in Nat
                     /\ Cardinality(Below(S, x)) <= Cardinality(S) /\ x \in Below(S, x)
    <2>1. SUFFICES ASSUME NEW x \in S
          PROVE /\ Below(S, x) \subseteq S /\ IsFiniteSet(Below(S, x)) /\ Cardinality(Below(S, x)) \in Nat
                /\ Cardinality(Below(S, x)) <= Cardinality(S) /\ x \in Below(S, x)
      OBVIOUS
    <2>2. PICK B : B = Below(S, x)
      OBVIOUS
    <2>3. B \subseteq S /\ x \in B
      <3>1. Signum(x) \in Nat
        BY SignumInjective
      <3>2. QED  BY <2>2, <3>1 DEF Below
    <2>4. IsFiniteSet(B) /\ Cardinality(B) \in Nat /\ Cardinality(B) <= Cardinality(S)
      BY <1>1, <2>3, FS_Subset, FS_CardinalityType
    <2>5. QED  BY <2>2, <2>3, <2>4
  <1>3. \A x \in S : Cardinality(Below(S, x)) # 0
    <2>1. SUFFICES ASSUME NEW x \in S  PROVE Cardinality(Below(S, x)) # 0
      OBVIOUS
    <2>2. IsFiniteSet(Below(S, x)) /\ Below(S, x) # {}
      BY <1>2
    <2>3. QED  BY <2>2, FS_EmptySet
  <1>4. ASSUME NEW x \in S, NEW y \in S, Signum(x) < Signum(y)
        PROVE  Cardinality(Below(S, x)) < Cardinality(Below(S, y))
    <2>1. PICK A, B : A = Below(S, x) /\ B = Below(S, y)
      OBVIOUS
    <2>2. Signum(x) \in Nat /\ Signum(y) \in Nat /\ \A z \in S : Signum(z) \in Nat
      BY SignumInjective
    <2>3. A \subseteq B
      BY <1>4, <2>1, <2>2 DEF Below
    <2>4. y \in B /\ y \notin A
      BY <1>4, <2>1, <2>2 DEF Below
    <2>5. IsFiniteSet(B)
      BY <1>2, <2>1
    <2>6. A # B
      BY <2>4
    <2>7. Cardinality(A) <= Cardinality(B) /\ Cardinality(A) # Cardinality(B)
      BY <2>3, <2>5, <2>6, FS_Subset
    <2>8. Cardinality(A) \in Nat /\ Cardinality(B) \in Nat
      BY <1>2, <2>1
    <2>9. QED  BY <2>1, <2>7, <2>8
  <1>5. \A x \in S : Cardinality(Below(S, x)) \in 1..Cardinality(S)
    BY <1>1, <1>2, <1>3
  <1>6. QED
    BY <1>1, <1>4, <1>5

Sorted(s) == \A i, j \in DOMAIN s : i < j => Signum(s[i]) < Signum(s[j])

LEMMA SortedExists ==
    ASSUME NEW S \in SUBSET Signatures, NEW n \in Nat, n = Cardinality(S)
    PROVE  \E s \in [1..n -> S] : Sorted(s)
  <1>1. PICK r : r = [x \in S |-> Cardinality(Below(S, x))]
    OBVIOUS
  <1>2. r \in [S -> 1..n] /\ \A x, y \in S : Signum(x) < Signum(y) => r[x] < r[y]
    BY <1>1, Ranks
  <1>3. \A x \in S : Signum(x) \in Nat
    BY SignumInjective
  <1>4. \A x, y \in S : r[x] = r[y] => x = y
    <2>1. SUFFICES ASSUME NEW x \in S, NEW y \in S, r[x] = r[y]  PROVE x = y
      OBVIOUS
    <2>2. r[x] \in Nat /\ r[y] \in Nat /\ Signum(x) \in Nat /\ Signum(y) \in Nat
      BY <1>2, <1>3
    <2>3. ~(Signum(x) < Signum(y)) /\ ~(Signum(y) < Signum(x))
      BY <1>2, <2>1, <2>2
    <2>4. Signum(x) = Signum(y)
      BY <2>2, <2>3
    <2>5. QED  BY <2>4, SignumInjective
  <1>5. r \in Injection(S, 1..n)
    BY <1>2, <1>4 DEF Injection, IsInjective
  <1>6. IsFiniteSet(1..n) /\ Cardinality(1..n) = n
    BY FS_Interval
  <1>7. r \in Surjection(S, 1..n)
    BY <1>5, <1>6, FS_Injection
  <1>8. \A i \in 1..n : \E x \in S : r[x] = i
    BY <1>7 DEF Surjection
  <1>9. PICK s : s = [i \in 1..n |-> CHOOSE x \in S : r[x] = i]
    OBVIOUS
  <1>10. s \in [1..n -> S] /\ \A i \in 1..n : r[s[i]] = i
    BY <1>8, <1>9
  <1>11. ASSUME NEW i \in 1..n, NEW j \in 1..n, i < j  PROVE Signum(s[i]) < Signum(s[j])
    <2>1. PICK x \in S, y \in S : x = s[i] /\ y = s[j] /\ r[x] = i /\ r[y] = j
      BY <1>10
    <2>2. Signum(x) \in Nat /\ Signum(y) \in Nat /\ x # y
      BY <1>3, <1>11, <2>1
    <2>3. ~(Signum(y) < Signum(x))
      BY <1>2, <1>11, <2>1
    <2>4. Signum(x) # Signum(y)
      BY <2>2, SignumInjective
    <2>5. QED  BY <2>1, <2>2, <2>3, <2>4
  <1>12. QED
    BY <1>10, <1>11 DEF Sorted

\* All the signatures of the directory are in the list.
LEMMA SortedAll ==
    ASSUME NEW dir
    PROVE  \E n \in Nat : /\ SortedSignatures(dir) \in [1..n -> Signatures]
                          /\ {SortedSignatures(dir)[i] : i \in 1..n} = Signatures \intersect Listed(dir)
  <1>1. PICK S \in SUBSET Signatures : S = Signatures \intersect Listed(dir)
    OBVIOUS
  <1>2. PICK n \in Nat : n = Cardinality(S)
    BY Ranks, FS_CardinalityType
  <1>3. SortedSignatures(dir) = CHOOSE s \in [1..n -> S] : Sorted(s)
    BY <1>1, <1>2 DEF SortedSignatures, Sorted
  <1>4. PICK s \in [1..n -> S] : s = SortedSignatures(dir) /\ Sorted(s)
    BY <1>2, <1>3, SortedExists
  <1>5. ASSUME NEW i \in 1..n, NEW j \in 1..n, s[i] = s[j]  PROVE i = j
    <2>1. Signum(s[i]) \in Nat /\ ~(Signum(s[i]) < Signum(s[j])) /\ ~(Signum(s[j]) < Signum(s[i]))
      BY <1>5, SignumInjective
    <2>2. ~(i < j) /\ ~(j < i)
      BY <1>4, <2>1 DEF Sorted
    <2>3. QED  BY <2>2
  <1>6. s \in Injection(1..n, S)
    BY <1>4, <1>5 DEF Injection, IsInjective
  <1>7. IsFiniteSet(S) /\ IsFiniteSet(1..n) /\ Cardinality(1..n) = n
    BY Ranks, FS_Interval
  <1>8. s \in Surjection(1..n, S)
    BY <1>2, <1>6, <1>7, FS_Injection
  <1>9. {s[i] : i \in 1..n} = S
    BY <1>8 DEF Surjection
  <1>10. s \in [1..n -> Signatures]
    BY <1>4
  <1>11. QED
    BY <1>1, <1>4, <1>9, <1>10


\* The files of a directory are what a signer saw.
AsSeen(dir, shot, s) ==
    /\ \A f \in Plain : shot[f] = dir[f]
    /\ s # AuthorFile => shot[AuthorFile] \in {0, dir[AuthorFile]}

\* The references of a signature and their digests are right exactly if nothing has changed.
LEMMA VerifyIs ==
    ASSUME NEW dir \in SignDirs, NEW shot \in SignDirs, NEW s \in Signatures, NEW marked,
           docs[s] = [refs |-> XmlsecCreate(shot, s)]
    PROVE  VerifyDigsig(dir, marked, s).ok = AsSeen(dir, shot, s)
  <1>1. PICK D : D = Listed(shot) \ (IF s = AuthorFile THEN Signatures ELSE ToSet(SigFiles))
    OBVIOUS
  <1>2. PICK refs : refs = XmlsecCreate(shot, s)
    OBVIOUS
  <1>3. DOMAIN refs = D /\ \A f \in D : refs[f] = shot[f]
    BY <1>1, <1>2 DEF XmlsecCreate, Restrict
  <1>4. docs[s].refs = refs
    BY <1>2
  <1>5. VerifyDigsig(dir, marked, s).ok =
            /\ D \subseteq Listed(dir) \ ToSet(SigFiles)
            /\ Listed(dir) \ Signatures \subseteq D
            /\ \A f \in D : dir[f] = refs[f]
    <2>1. DOMAIN docs[s].refs = D
      BY <1>3, <1>4
    <2>2. CheckReferences(dir, docs[s].refs, {}).ok =
              (D \subseteq Listed(dir) \ ToSet(SigFiles) /\ Listed(dir) \ Signatures \subseteq D)
      BY <2>1 DEF CheckReferences
    <2>3. QED  BY <1>4, <2>1, <2>2 DEF VerifyDigsig
  <1>6. /\ AuthorFile \notin ToSet(SigFiles) /\ \A f \in Plain : f \notin Signatures /\ f \notin ToSet(SigFiles)
        /\ Plain \subseteq SignNames /\ AuthorFile \in Signatures /\ AuthorFile \in SignNames
        /\ \A f \in SignNames : f \in Plain \/ f = AuthorFile \/ f \in ToSet(SigFiles)
        /\ \A f : f \in Signatures <=> f = AuthorFile \/ f \in ToSet(SigFiles)
    BY SignAssumption DEF SignNames, Signatures
  <1>7. \A f \in SignNames : (f \in Listed(dir) <=> dir[f] # 0) /\ (f \in Listed(shot) <=> shot[f] # 0)
    BY DEF Listed
  <1>8. \A f \in Plain : f \in D <=> shot[f] # 0
    BY <1>1, <1>6, <1>7
  <1>9. AuthorFile \in D <=> s # AuthorFile /\ shot[AuthorFile] # 0
    BY <1>1, <1>6, <1>7
  <1>10. \A f \in D : f \in SignNames /\ f \notin ToSet(SigFiles) /\ (f \in Plain \/ f = AuthorFile)
    BY <1>1, <1>6 DEF Listed
  <1>11. ASSUME D \subseteq Listed(dir) \ ToSet(SigFiles), Listed(dir) \ Signatures \subseteq D, \A f \in D : dir[f] = refs[f]
         PROVE  AsSeen(dir, shot, s)
    <2>1. ASSUME NEW f \in Plain  PROVE shot[f] = dir[f]
      <3>1. CASE f \in D
        BY <1>3, <1>11, <3>1
      <3>2. CASE f \notin D
        <4>1. shot[f] = 0
          BY <1>8, <3>2
        <4>2. f \notin Listed(dir)
          BY <1>6, <1>11, <3>2
        <4>3. QED  BY <1>6, <1>7, <4>1, <4>2
      <3>3. QED  BY <3>1, <3>2
    <2>2. ASSUME s # AuthorFile  PROVE shot[AuthorFile] \in {0, dir[AuthorFile]}
      <3>1. CASE shot[AuthorFile] # 0
        BY <1>3, <1>9, <1>11, <2>2, <3>1
      <3>2. QED  BY <3>1
    <2>3. QED  BY <2>1, <2>2 DEF AsSeen
  <1>12. ASSUME AsSeen(dir, shot, s)
         PROVE  /\ D \subseteq Listed(dir) \ ToSet(SigFiles)
                /\ Listed(dir) \ Signatures \subseteq D
                /\ \A f \in D : dir[f] = refs[f]
    <2>1. ASSUME NEW f \in D  PROVE f \in Listed(dir) /\ f \notin ToSet(SigFiles) /\ dir[f] = refs[f]
      <3>1. CASE f \in Plain
        <4>1. dir[f] = shot[f] /\ shot[f] # 0
          BY <1>8, <1>12, <3>1 DEF AsSeen
        <4>2. QED  BY <1>3, <1>6, <1>7, <3>1, <4>1
      <3>2. CASE f = AuthorFile
        <4>1. s # AuthorFile /\ shot[AuthorFile] # 0
          BY <1>9, <2>1, <3>2
        <4>2. dir[AuthorFile] = shot[AuthorFile]
          BY <1>12, <4>1 DEF AsSeen
        <4>3. QED  BY <1>3, <1>6, <1>7, <3>2, <4>1, <4>2
      <3>3. QED  BY <1>10, <3>1, <3>2
    <2>2. ASSUME NEW f \in Listed(dir) \ Signatures  PROVE f \in D
      <3>1. f \in Plain /\ dir[f] # 0
        BY <1>6 DEF Listed
      <3>2. shot[f] = dir[f]
        BY <1>12, <3>1 DEF AsSeen
      <3>3. QED  BY <1>8, <3>1, <3>2
    <2>3. QED  BY <2>1, <2>2
  <1>13. QED
    <2>1. AsSeen(dir, shot, s) \in BOOLEAN
      BY DEF AsSeen
    <2>2. QED  BY <1>5, <1>11, <1>12, <2>1

----------------------------------------------------------------------------
(* check_all_signatures *)

Marks == [ok : BOOLEAN, marked : SUBSET SignNames]

VerifyStep(dir, s, name) ==
    LET v == VerifyDigsig(dir, s.marked, name) IN [ok |-> s.ok /\ v.ok, marked |-> v.marked]

VerifyFold(f, dir, base, names) ==
    f = [s \in SUBSET DOMAIN names |-> IF s = {} THEN base ELSE VerifyStep(dir, f[s \ {Max(s)}], names[Max(s)])]

\* The signatures whose documents are sound.
SoundNames == {s \in Signatures : shots[s] \in SignDirs /\ docs[s] = [refs |-> XmlsecCreate(shots[s], s)]}

LEMMA VerifyStepType ==
    ASSUME NEW dir \in SignDirs, NEW s \in Marks, NEW name \in SoundNames
    PROVE  /\ VerifyStep(dir, s, name) \in Marks
           /\ VerifyStep(dir, s, name).ok = (s.ok /\ AsSeen(dir, shots[name], name))
  <1>1. name \in Signatures /\ shots[name] \in SignDirs /\ docs[name] = [refs |-> XmlsecCreate(shots[name], name)]
    BY DEF SoundNames
  <1>2. PICK v : v = VerifyDigsig(dir, s.marked, name)
    OBVIOUS
  <1>3. v.ok = AsSeen(dir, shots[name], name)
    <2>1. PICK m : m = s.marked
      OBVIOUS
    <2>a. PICK shot \in SignDirs : shot = shots[name]
      BY <1>1
    <2>2. VerifyDigsig(dir, m, name).ok = AsSeen(dir, shot, name)
      BY <1>1, <2>a, VerifyIs
    <2>3. QED  BY <1>2, <2>1, <2>2, <2>a
  <1>4. AsSeen(dir, shots[name], name) \in BOOLEAN
    BY DEF AsSeen
  <1>5. v.marked \in SUBSET SignNames
    <2>1. docs[name].refs = XmlsecCreate(shots[name], name)
      BY <1>1
    <2>2. DOMAIN docs[name].refs \subseteq SignNames
      BY <2>1 DEF XmlsecCreate, Restrict, Listed
    <2>3. v.marked = {} \union DOMAIN docs[name].refs
      BY <1>2 DEF VerifyDigsig, CheckReferences
    <2>4. QED  BY <2>2, <2>3
  <1>6. VerifyStep(dir, s, name) = [ok |-> s.ok /\ v.ok, marked |-> v.marked]
    BY <1>2 DEF VerifyStep
  <1>7. s.ok \in BOOLEAN
    BY DEF Marks
  <1>8. PICK b \in BOOLEAN : b = (s.ok /\ v.ok)
    BY <1>3, <1>4, <1>7
  <1>9. QED
    BY <1>3, <1>5, <1>6, <1>8 DEF Marks

LEMMA VerifyFoldExists ==
    ASSUME NEW dir \in SignDirs, NEW base \in Marks, NEW names \in Seq(SoundNames)
    PROVE  \E f : VerifyFold(f, dir, base, names)
  <1>1. PICK n \in Nat : DOMAIN names = 1..n
    OBVIOUS
  <1>2. \A i \in 1..n : names[i] \in SoundNames
    BY <1>1
  <1>3. PICK phi : phi = [z \in Marks \X (1..n) |-> VerifyStep(dir, z[1], names[z[2]])]
    OBVIOUS
  <1>4. phi \in [Marks \X (1..n) -> Marks]
    BY <1>2, <1>3, VerifyStepType
  <1>5. PICK f \in [SUBSET (1..n) -> Marks] :
            \A s \in SUBSET (1..n) : f[s] = FoldStep(f, phi, base, s)
    <2>1. PICK f : Folding(f, n, Marks, phi, base)
      <3>1. PICK M, pp : M = Marks /\ pp = phi
        OBVIOUS
      <3>2. pp \in [M \X (1..n) -> M] /\ base \in M
        BY <1>4, <3>1
      <3>3. QED  BY <3>1, <3>2, FoldExists
    <2>2. QED  BY <2>1 DEF Folding
  <1>6. \A s \in SUBSET (1..n) : s # {} => phi[<<f[s \ {Max(s)}], Max(s)>>] = VerifyStep(dir, f[s \ {Max(s)}], names[Max(s)])
    <2>1. SUFFICES ASSUME NEW s \in SUBSET (1..n), s # {}
          PROVE phi[<<f[s \ {Max(s)}], Max(s)>>] = VerifyStep(dir, f[s \ {Max(s)}], names[Max(s)])
      OBVIOUS
    <2>2. Max(s) \in 1..n /\ s \ {Max(s)} \in SUBSET (1..n)
      BY <2>1, MaxIn
    <2>3. PICK a \in Marks, i \in 1..n : a = f[s \ {Max(s)}] /\ i = Max(s)
      BY <2>2
    <2>4. phi[<<a, i>>] = VerifyStep(dir, a, names[i])
      BY <1>3
    <2>5. QED  BY <2>3, <2>4
  <1>7. \A s \in SUBSET (1..n) : f[s] = IF s = {} THEN base ELSE VerifyStep(dir, f[s \ {Max(s)}], names[Max(s)])
    BY <1>5, <1>6 DEF FoldStep
  <1>8. f = [s \in SUBSET (1..n) |-> IF s = {} THEN base ELSE VerifyStep(dir, f[s \ {Max(s)}], names[Max(s)])]
    BY <1>7
  <1>9. QED
    BY <1>1, <1>8 DEF VerifyFold

SeenFirst(dir, names, k) == \A i \in 1..k : AsSeen(dir, shots[names[i]], names[i])

\* The marks that a signature leaves do not matter to the next one.
LEMMA VerifyAll ==
    ASSUME NEW dir \in SignDirs, NEW base \in Marks, NEW names \in Seq(SoundNames), base.ok = TRUE,
           NEW g, VerifyFold(g, dir, base, names)
    PROVE  g[DOMAIN names].ok = \A i \in DOMAIN names : AsSeen(dir, shots[names[i]], names[i])
  <1>1. PICK n \in Nat : DOMAIN names = 1..n
    OBVIOUS
  <1> DEFINE T == {k \in Nat : k <= n => /\ g[1..k] \in Marks
                                         /\ g[1..k].ok = SeenFirst(dir, names, k)}
  <1>2. \A s \in SUBSET (1..n) : g[s] = IF s = {} THEN base ELSE VerifyStep(dir, g[s \ {Max(s)}], names[Max(s)])
    BY <1>1 DEF VerifyFold
  <1>3. 0 \in T
    <2>1. 1..0 = {} /\ {} \in SUBSET (1..n)
      OBVIOUS
    <2>2. g[1..0] = base
      BY <1>2, <2>1
    <2>3. SeenFirst(dir, names, 0) = TRUE
      BY <2>1 DEF SeenFirst
    <2>4. QED  BY <2>2, <2>3
  <1>4. ASSUME NEW k \in 1..n, k - 1 \in T  PROVE k \in T
    <2>1. /\ 1..k \in SUBSET (1..n) /\ 1..k # {}
          /\ Max(1..k) = k /\ (1..k) \ {Max(1..k)} = 1..(k - 1)
      BY FirstIndexes
    <2>2. g[1..k] = VerifyStep(dir, g[1..(k - 1)], names[k])
      BY <1>2, <2>1
    <2>3. PICK a : a = g[1..(k - 1)]
      OBVIOUS
    <2>4. names[k] \in SoundNames /\ a \in Marks /\ a.ok = SeenFirst(dir, names, k - 1)
      BY <1>1, <1>4, <2>3
    <2>5. /\ VerifyStep(dir, a, names[k]) \in Marks
          /\ VerifyStep(dir, a, names[k]).ok = (a.ok /\ AsSeen(dir, shots[names[k]], names[k]))
      <3>1. PICK name \in SoundNames : name = names[k]
        BY <2>4
      <3>2. QED  BY <2>4, <3>1, VerifyStepType
    <2>6. 1..k = (1..(k - 1)) \union {k}
      OBVIOUS
    <2>7. SeenFirst(dir, names, k) = (SeenFirst(dir, names, k - 1) /\ AsSeen(dir, shots[names[k]], names[k]))
      BY <2>6 DEF SeenFirst
    <2>8. QED  BY <2>2, <2>3, <2>4, <2>5, <2>7
  <1>5. n \in T
    <2>1. T \in SUBSET Nat
      OBVIOUS
    <2> HIDE DEF T
    <2> QED  BY <1>3, <1>4, <2>1, EveryIndex
  <1>6. g[1..n].ok = SeenFirst(dir, names, n)
    BY <1>5
  <1>7. QED
    BY <1>1, <1>6 DEF SeenFirst

LEMMA CheckAllIs ==
    ASSUME NEW dir \in SignDirs, NEW allownone \in BOOLEAN, SortedSignatures(dir) # <<>>,
           Signatures \intersect Listed(dir) \subseteq SoundNames
    PROVE  CheckAllSignatures(dir, allownone) =
               \A s \in Signatures \intersect Listed(dir) : AsSeen(dir, shots[s], s)
  <1>1. PICK n \in Nat : /\ SortedSignatures(dir) \in [1..n -> Signatures]
                         /\ {SortedSignatures(dir)[i] : i \in 1..n} = Signatures \intersect Listed(dir)
    BY SortedAll
  <1>2. PICK s0 \in [1..n -> Signatures] : s0 = SortedSignatures(dir)
    BY <1>1
  <1>3. s0 \in Seq(Signatures) /\ Len(s0) = n
    BY <1>2
  <1>4. n # 0
    BY <1>2, <1>3
  <1>5. PICK names : names = Reverse(s0)
    OBVIOUS
  <1>6. names = [i \in 1..n |-> s0[(n - i) + 1]]
    BY <1>3, <1>5 DEF Reverse
  <1>7. \A i \in 1..n : (n - i) + 1 \in 1..n /\ (n - ((n - i) + 1)) + 1 = i
    OBVIOUS
  <1>8. \A i \in 1..n : s0[i] \in SoundNames
    BY <1>1, <1>2
  <1>9. names \in [1..n -> SoundNames] /\ DOMAIN names = 1..n
    BY <1>6, <1>7, <1>8
  <1>10. names \in Seq(SoundNames)
    BY <1>9
  <1>11. names # <<>>
    <2>1. 1 \in DOMAIN names
      BY <1>4, <1>9
    <2>2. QED  BY <2>1
  <1>12. \A s \in Signatures \intersect Listed(dir) : \E i \in 1..n : names[i] = s
    <2>1. SUFFICES ASSUME NEW s \in Signatures \intersect Listed(dir)  PROVE \E i \in 1..n : names[i] = s
      OBVIOUS
    <2>2. PICK i \in 1..n : s0[i] = s
      BY <1>1, <1>2
    <2>3. names[(n - i) + 1] = s0[i]
      BY <1>6, <1>7
    <2>4. QED  BY <1>7, <2>2, <2>3
  <1>13. \A i \in 1..n : names[i] \in Signatures \intersect Listed(dir)
    BY <1>1, <1>2, <1>6, <1>7
  <1>14. PICK base : base = [ok |-> TRUE, marked |-> {}]
    OBVIOUS
  <1>15. base \in Marks /\ base.ok = TRUE
    BY <1>14 DEF Marks
  <1> DEFINE Body(f) == [s \in SUBSET DOMAIN names |->
                            IF s = {} THEN base ELSE VerifyStep(dir, f[s \ {Max(s)}], names[Max(s)])]
  <1>16. PICK g : g = CHOOSE f : f = Body(f)
    OBVIOUS
  <1>17. \E f : f = Body(f)
    <2>1. PICK f : VerifyFold(f, dir, base, names)
      BY <1>10, <1>15, VerifyFoldExists
    <2>2. f = Body(f)
      BY <2>1 DEF VerifyFold
    <2>3. QED
      <3> HIDE DEF Body
      <3> QED  BY <2>2
  <1>18. g = Body(g)
    <2> HIDE DEF Body
    <2> QED  BY <1>16, <1>17
  <1>19. CheckAllSignatures(dir, allownone) = g[DOMAIN names].ok
    BY <1>2, <1>5, <1>11, <1>14, <1>16 DEF CheckAllSignatures, FoldLeft, MapThenFoldSet, VerifyStep
  <1>20. VerifyFold(g, dir, base, names)
    BY <1>18 DEF VerifyFold
  <1>21. g[DOMAIN names].ok = \A i \in DOMAIN names : AsSeen(dir, shots[names[i]], names[i])
    <2> HIDE DEF Body
    <2> QED  BY <1>10, <1>15, <1>20, VerifyAll
  <1>22. (\A i \in DOMAIN names : AsSeen(dir, shots[names[i]], names[i]))
            = (\A s \in Signatures \intersect Listed(dir) : AsSeen(dir, shots[s], s))
    BY <1>9, <1>12, <1>13
  <1>23. QED
    BY <1>19, <1>21, <1>22


\* The inductive invariant: the documents of the signatures are those of what their signers saw,
\* and nothing is written once the widget is packed.
SignInv ==
    /\ SignState \in SoundStates
    /\ package = <<>> \/ package = <<content>>
    /\ package = <<>> => checked = "no"
    /\ AcceptedIffUntouched

LEMMA SignStateParts ==
    ASSUME SignState \in SoundStates
    PROVE  /\ content \in SignDirs /\ docs \in [Signatures -> SignDocs] /\ clock \in Nat /\ shots \in [Signatures -> SignDirs]
           /\ \A s \in Signatures : content[s] # 0 => docs[s] = [refs |-> XmlsecCreate(shots[s], s)]
  BY DEF SoundStates, SignStates, SignState

LEMMA PartsSignState ==
    ASSUME NEW c \in SignDirs, NEW d \in [Signatures -> SignDocs], NEW k \in Nat, NEW h \in [Signatures -> SignDirs],
           \A s \in Signatures : c[s] # 0 => d[s] = [refs |-> XmlsecCreate(h[s], s)]
    PROVE  [content |-> c, docs |-> d, clock |-> k, shots |-> h] \in SoundStates
  BY DEF SoundStates, SignStates

LEMMA SignInitInv == SignInit => SignInv
  <1>1. SUFFICES ASSUME SignInit  PROVE SignInv
    OBVIOUS
  <1>2. PICK c \in SignDirs : c = content
    BY <1>1 DEF SignInit, SignDirs
  <1>3. SetDoc \in SignDocs
    BY DEF SignDocs
  <1>4. PICK d \in [Signatures -> SignDocs] : d = docs
    BY <1>1, <1>3 DEF SignInit
  <1>5. PICK h \in [Signatures -> SignDirs] : h = shots
    BY <1>1, <1>2 DEF SignInit
  <1>6. \A s \in Signatures : c[s] = 0
    BY <1>1, <1>2, SignAssumption DEF SignInit, SignNames, Signatures
  <1>7. clock \in Nat /\ package = <<>> /\ checked = "no"
    BY <1>1 DEF SignInit
  <1>8. SignState \in SoundStates
    BY <1>2, <1>4, <1>5, <1>6, <1>7, PartsSignState DEF SignState
  <1>9. QED
    BY <1>7, <1>8 DEF SignInv, AcceptedIffUntouched

LEMMA WritingKeeps ==
    ASSUME SignInv, EditFile \/ RemoveFile
    PROVE  SignInv'
  <1>1. /\ content \in SignDirs /\ docs \in [Signatures -> SignDocs] /\ clock \in Nat /\ shots \in [Signatures -> SignDirs]
        /\ \A s \in Signatures : content[s] # 0 => docs[s] = [refs |-> XmlsecCreate(shots[s], s)]
    BY SignStateParts DEF SignInv
  <1>2. package = <<>> /\ checked = "no" /\ UNCHANGED <<docs, package, checked, shots>> /\ clock' = clock + 1
    BY DEF SignInv, EditFile, RemoveFile
  <1>3. content' \in SignDirs /\ \A s \in Signatures : content'[s] \in {0, content[s]}
    <2>1. CASE EditFile
      <3>1. PICK f \in Plain : content' = [content EXCEPT ![f] = clock + 1]
        BY <2>1 DEF EditFile
      <3>2. f \notin Signatures /\ clock + 1 \in Nat
        BY <1>1, SignAssumption DEF Signatures
      <3>3. QED  BY <1>1, <3>1, <3>2 DEF SignDirs, SignNames
    <2>2. CASE RemoveFile
      <3>1. PICK f \in SignNames : content' = [content EXCEPT ![f] = 0]
        BY <2>2 DEF RemoveFile
      <3>2. QED  BY <1>1, <3>1 DEF SignDirs, SignNames
    <2>3. QED  BY <2>1, <2>2
  <1>4. PICK c \in SignDirs, d \in [Signatures -> SignDocs], k \in Nat, h \in [Signatures -> SignDirs] :
            c = content' /\ d = docs' /\ k = clock' /\ h = shots'
    BY <1>1, <1>2, <1>3
  <1>5. \A s \in Signatures : c[s] # 0 => d[s] = [refs |-> XmlsecCreate(h[s], s)]
    BY <1>1, <1>2, <1>3, <1>4
  <1>6. SignState' \in SoundStates
    <2>1. [content |-> c, docs |-> d, clock |-> k, shots |-> h] \in SoundStates
      BY <1>5, PartsSignState
    <2>2. QED  BY <1>4, <2>1 DEF SignState
  <1>7. QED
    BY <1>2, <1>6 DEF SignInv, AcceptedIffUntouched

LEMMA SetSound ==
    ASSUME NEW st \in SoundStates, SetSignState(st)
    PROVE  SignState' \in SoundStates /\ content' = st.content
  <1>1. st = [content |-> st.content, docs |-> st.docs, clock |-> st.clock, shots |-> st.shots]
    BY DEF SoundStates, SignStates
  <1>2. QED
    BY <1>1 DEF SetSignState, SignState

LEMMA SigningKeeps ==
    ASSUME SignInv, SignTool \/ PackTool
    PROVE  SignInv'
  <1>1. SignState \in SoundStates
    BY DEF SignInv
  <1>2. package = <<>> /\ checked = "no" /\ UNCHANGED checked
    BY DEF SignInv, SignTool, PackTool
  <1>3. CASE SignTool
    <2>1. PICK name \in Signatures : SetSignState(CreateDigsig(SignState, name))
      BY <1>3 DEF SignTool
    <2>2. PICK st \in SoundStates : st = CreateDigsig(SignState, name)
      <3>1. PICK a \in SoundStates : a = SignState
        BY <1>1
      <3>2. CreateDigsig(a, name) \in SoundStates
        BY CreateDigsigSound
      <3>3. QED  BY <3>1, <3>2
    <2>3. SignState' \in SoundStates
      BY <2>1, <2>2, SetSound
    <2>4. UNCHANGED package
      BY <1>3 DEF SignTool
    <2>5. QED  BY <1>2, <2>3, <2>4 DEF SignInv, AcceptedIffUntouched
  <1>4. CASE PackTool
    <2>1. PICK autosign \in {<<>>, <<AuthorFile>>} \union {<<s>> : s \in ToSet(SigFiles)}
                       \union {<<AuthorFile, s>> : s \in ToSet(SigFiles)}
                       \union {<<s, AuthorFile>> : s \in ToSet(SigFiles)} :
            /\ SetSignState(FoldLeft(CreateDigsig, SignState, autosign))
            /\ package' = <<FoldLeft(CreateDigsig, SignState, autosign).content>>
      BY <1>4 DEF PackTool
    <2>2. autosign \in Seq(Signatures)
      <3>1. AuthorFile \in Signatures /\ \A s \in ToSet(SigFiles) : s \in Signatures
        BY DEF Signatures
      <3>2. \A a, b \in Signatures : <<>> \in Seq(Signatures) /\ <<a>> \in Seq(Signatures) /\ <<a, b>> \in Seq(Signatures)
        OBVIOUS
      <3>3. \/ autosign \in {<<>>, <<AuthorFile>>} \/ autosign \in {<<s>> : s \in ToSet(SigFiles)}
            \/ autosign \in {<<AuthorFile, s>> : s \in ToSet(SigFiles)}
            \/ autosign \in {<<s, AuthorFile>> : s \in ToSet(SigFiles)}
        BY <2>1
      <3>4. QED  BY <3>1, <3>2, <3>3
    <2>3. PICK st \in SoundStates : st = FoldLeft(CreateDigsig, SignState, autosign)
      <3>1. PICK a \in SoundStates : a = SignState
        BY <1>1
      <3>2. FoldLeft(CreateDigsig, a, autosign) \in SoundStates
        BY <2>2, AutoDigsigSound
      <3>3. QED  BY <3>1, <3>2
    <2>4. SignState' \in SoundStates /\ content' = st.content
      BY <2>1, <2>3, SetSound
    <2>5. package' = <<content'>>
      BY <2>1, <2>3, <2>4
    <2>6. checked' = "no"
      BY <1>2
    <2>7. AcceptedIffUntouched'
      BY <2>6 DEF AcceptedIffUntouched
    <2>8. QED  BY <2>4, <2>5, <2>6, <2>7 DEF SignInv
  <1>5. QED
    BY <1>3, <1>4

LEMMA CheckKeeps ==
    ASSUME SignInv, CheckPackage
    PROVE  SignInv'
  <1>1. /\ content \in SignDirs /\ docs \in [Signatures -> SignDocs] /\ shots \in [Signatures -> SignDirs]
        /\ \A s \in Signatures : content[s] # 0 => docs[s] = [refs |-> XmlsecCreate(shots[s], s)]
    BY SignStateParts DEF SignInv
  <1>2. package = <<content>> /\ package # <<>> /\ UNCHANGED <<content, docs, clock, package, shots>>
    BY DEF SignInv, CheckPackage
  <1>3. PICK dir \in SignDirs : dir = content /\ dir = package[1]
    BY <1>1, <1>2
  <1>4. PICK allownone \in BOOLEAN : checked' = IF CheckAllSignatures(dir, allownone) THEN "ok" ELSE "refused"
    BY <1>3 DEF CheckPackage
  <1>5. Signatures \intersect Listed(dir) \subseteq SoundNames
    BY <1>1, <1>3 DEF SoundNames, Listed
  <1>6. AcceptedIffUntouched'
    <2>1. SUFFICES ASSUME SortedSignatures(dir) # <<>>
          PROVE  checked' = "ok" <=> \A s \in Signatures \intersect Listed(dir) : Unchanged(s)'
      BY <1>2, <1>3 DEF AcceptedIffUntouched
    <2>2. CheckAllSignatures(dir, allownone) =
               \A s \in Signatures \intersect Listed(dir) : AsSeen(dir, shots[s], s)
      BY <1>5, <2>1, CheckAllIs
    <2>3. \A s : Unchanged(s)' = AsSeen(dir, shots[s], s)
      BY <1>2, <1>3 DEF Unchanged, AsSeen
    <2>4. QED  BY <1>4, <2>2, <2>3
  <1>7. SignState' = SignState
    BY <1>2 DEF SignState
  <1>8. QED
    BY <1>2, <1>6, <1>7 DEF SignInv

\* However files and signatures are written, removed, made again or made automatically before a
\* widget is packed, and whatever the number of its signatures and the order in which they were
\* made, check_all_signatures accepts it exactly when nothing that any of its signers saw has
\* changed.
THEOREM SignaturesCorrect == SignSpec => []AcceptedIffUntouched
  <1>1. SignInv /\ [SignNext]_signVars => SignInv'
    <2>1. SUFFICES ASSUME SignInv, [SignNext]_signVars  PROVE SignInv'
      OBVIOUS
    <2>2. CASE UNCHANGED signVars
      <3>1. SignState' = SignState
        BY <2>2 DEF signVars, SignState
      <3>2. \A s : Unchanged(s)' = Unchanged(s)
        BY <2>2 DEF signVars, Unchanged
      <3>3. AcceptedIffUntouched'
        BY <2>1, <2>2, <3>2 DEF signVars, SignInv, AcceptedIffUntouched
      <3>4. QED  BY <2>1, <2>2, <3>1, <3>3 DEF signVars, SignInv
    <2>3. CASE SignNext
      BY <2>1, <2>3, WritingKeeps, SigningKeeps, CheckKeeps DEF SignNext
    <2>4. QED  BY <2>1, <2>2, <2>3
  <1>2. SignInv => AcceptedIffUntouched
    BY DEF SignInv
  <1>3. QED
    BY <1>1, <1>2, SignInitInv, PTL DEF SignSpec

----------------------------------------------------------------------------
(* The trust in the signer of a package.  The specification of domains that a   *)
(* certificate carries, as the fold of its items.                               *)

Specs == [Domains -> 0..3]
ResultCodes == {"ok", "ENOKEY", "ENODATA", "EEXIST", "ENOENT", "EINVAL"}
Results == [rc : ResultCodes, spec : Specs]

ItemStep(s, item) ==
    IF s.rc # "ok" THEN s
    ELSE IF item.tag \notin Grants..Root THEN Result("ENOKEY", EmptySpec)
    ELSE IF item.name \notin Domains THEN Result("ENODATA", EmptySpec)
    ELSE IF s.spec[item.name] # None0 THEN Result("EEXIST", EmptySpec)
    ELSE [s EXCEPT !.spec[item.name] = item.tag]

ItemFold(f, items) ==
    f = [s \in SUBSET DOMAIN items |-> IF s = {} THEN Result("ok", EmptySpec) ELSE ItemStep(f[s \ {Max(s)}], items[Max(s)])]

LEMMA ResultType ==
    /\ EmptySpec \in Specs
    /\ \A r \in ResultCodes, sp \in Specs : Result(r, sp) \in Results /\ Result(r, sp).rc = r /\ Result(r, sp).spec = sp
    /\ \A r \in Results : r.rc \in ResultCodes /\ r.spec \in Specs /\ r = Result(r.rc, r.spec)
  <1>1. EmptySpec \in Specs
    BY DEF EmptySpec, Specs, None0
  <1>2. QED
    BY <1>1 DEF Result, Results

\* An item that is accepted sets the permission of its domain.
LEMMA ItemSets ==
    ASSUME NEW s \in Results, NEW item, s.rc = "ok", item.tag \in 1..3, item.name \in Domains, s.spec[item.name] = 0
    PROVE  /\ ItemStep(s, item) \in Results /\ ItemStep(s, item).rc = "ok"
           /\ ItemStep(s, item).spec = [s.spec EXCEPT ![item.name] = item.tag]
  <1>1. PICK sp \in Specs : sp = s.spec
    BY ResultType
  <1>2. s = [rc |-> "ok", spec |-> sp]
    BY <1>1 DEF Results
  <1>3. PICK t \in 1..3, d \in Domains : t = item.tag /\ d = item.name
    OBVIOUS
  <1>4. ItemStep(s, item) = [s EXCEPT !.spec[d] = t]
    BY <1>1, <1>2, <1>3 DEF ItemStep, Grants, Root, None0
  <1>5. PICK new \in Specs : new = [sp EXCEPT ![d] = t]
    <2>1. t \in 0..3
      OBVIOUS
    <2>2. QED  BY <2>1 DEF Specs
  <1>6. ItemStep(s, item) = [rc |-> "ok", spec |-> new]
    BY <1>2, <1>4, <1>5
  <1>7. QED
    BY <1>1, <1>3, <1>5, <1>6 DEF Results, ResultCodes

LEMMA ItemStepType ==
    ASSUME NEW s \in Results, NEW item
    PROVE  ItemStep(s, item) \in Results
  <1>1. CASE s.rc # "ok"
    BY <1>1 DEF ItemStep
  <1>2. CASE s.rc = "ok" /\ item.tag \in 1..3 /\ item.name \in Domains /\ s.spec[item.name] = 0
    BY <1>2, ItemSets
  <1>3. CASE s.rc = "ok" /\ ~(item.tag \in 1..3 /\ item.name \in Domains /\ s.spec[item.name] = 0)
    <2>1. ItemStep(s, item) \in {Result("ENOKEY", EmptySpec), Result("ENODATA", EmptySpec), Result("EEXIST", EmptySpec)}
      BY <1>3 DEF ItemStep, Grants, Root, None0
    <2>2. {"ENOKEY", "ENODATA", "EEXIST"} \subseteq ResultCodes
      BY DEF ResultCodes
    <2>3. QED  BY <2>1, <2>2, ResultType
  <1>4. QED
    BY <1>1, <1>2, <1>3

LEMMA ItemFoldExists ==
    ASSUME NEW I, NEW items \in Seq(I)
    PROVE  \E f : ItemFold(f, items)
  <1>1. PICK n \in Nat : DOMAIN items = 1..n
    OBVIOUS
  <1>2. PICK base \in Results : base = Result("ok", EmptySpec)
    <2>1. "ok" \in ResultCodes
      BY DEF ResultCodes
    <2>2. QED  BY <2>1, ResultType
  <1>3. PICK phi : phi = [z \in Results \X (1..n) |-> ItemStep(z[1], items[z[2]])]
    OBVIOUS
  <1>4. phi \in [Results \X (1..n) -> Results]
    BY <1>3, ItemStepType
  <1>5. PICK f \in [SUBSET (1..n) -> Results] :
            \A s \in SUBSET (1..n) : f[s] = FoldStep(f, phi, base, s)
    <2>1. PICK f : Folding(f, n, Results, phi, base)
      BY <1>4, FoldExists
    <2>2. QED  BY <2>1 DEF Folding
  <1>6. \A s \in SUBSET (1..n) : s # {} => phi[<<f[s \ {Max(s)}], Max(s)>>] = ItemStep(f[s \ {Max(s)}], items[Max(s)])
    <2>1. SUFFICES ASSUME NEW s \in SUBSET (1..n), s # {}
          PROVE phi[<<f[s \ {Max(s)}], Max(s)>>] = ItemStep(f[s \ {Max(s)}], items[Max(s)])
      OBVIOUS
    <2>2. Max(s) \in 1..n /\ s \ {Max(s)} \in SUBSET (1..n)
      BY <2>1, MaxIn
    <2>3. PICK a \in Results, i \in 1..n : a = f[s \ {Max(s)}] /\ i = Max(s)
      BY <2>2
    <2>4. phi[<<a, i>>] = ItemStep(a, items[i])
      BY <1>3
    <2>5. QED  BY <2>3, <2>4
  <1>7. \A s \in SUBSET (1..n) : f[s] = IF s = {} THEN base ELSE ItemStep(f[s \ {Max(s)}], items[Max(s)])
    BY <1>5, <1>6 DEF FoldStep
  <1>8. f = [s \in SUBSET (1..n) |-> IF s = {} THEN base ELSE ItemStep(f[s \ {Max(s)}], items[Max(s)])]
    BY <1>7
  <1>9. QED
    BY <1>1, <1>2, <1>8 DEF ItemFold

\* What get_domain_spec_of_string does item after item.
LEMMA SpecOfStringIs ==
    ASSUME NEW I, NEW items \in Seq(I)
    PROVE  \E f : /\ SpecOfString(items) = f[1..Len(items)] /\ f[1..0] = Result("ok", EmptySpec)
                  /\ \A k \in 1..Len(items) : f[1..k] = ItemStep(f[1..(k - 1)], items[k])
  <1> DEFINE Body(f) == [s \in SUBSET DOMAIN items |->
                            IF s = {} THEN Result("ok", EmptySpec) ELSE ItemStep(f[s \ {Max(s)}], items[Max(s)])]
  <1>1. PICK g : g = CHOOSE f : f = Body(f)
    OBVIOUS
  <1>2. \E f : f = Body(f)
    <2>1. PICK f : ItemFold(f, items)
      BY ItemFoldExists
    <2>2. f = Body(f)
      BY <2>1 DEF ItemFold
    <2>3. QED
      <3> HIDE DEF Body
      <3> QED  BY <2>2
  <1>3. g = Body(g)
    <2> HIDE DEF Body
    <2> QED  BY <1>1, <1>2
  <1>4. SpecOfString(items) = g[DOMAIN items]
    BY <1>1 DEF SpecOfString, FoldLeft, MapThenFoldSet, ItemStep
  <1>5. PICK n \in Nat : n = Len(items) /\ DOMAIN items = 1..n
    OBVIOUS
  <1>6. \A s \in SUBSET (1..n) : g[s] = IF s = {} THEN Result("ok", EmptySpec)
                                        ELSE ItemStep(g[s \ {Max(s)}], items[Max(s)])
    BY <1>3, <1>5
  <1>7. g[1..0] = Result("ok", EmptySpec)
    <2>1. 1..0 = {} /\ {} \in SUBSET (1..n)
      OBVIOUS
    <2>2. QED  BY <1>6, <2>1
  <1>8. ASSUME NEW k \in 1..n  PROVE g[1..k] = ItemStep(g[1..(k - 1)], items[k])
    <2>1. /\ 1..k \in SUBSET (1..n) /\ 1..k # {}
          /\ Max(1..k) = k /\ (1..k) \ {Max(1..k)} = 1..(k - 1)
      BY FirstIndexes
    <2>2. QED  BY <1>6, <2>1
  <1>9. QED
    BY <1>4, <1>5, <1>7, <1>8

LEMMA SpecOfStringType ==
    ASSUME NEW I, NEW items \in Seq(I)
    PROVE  SpecOfString(items) \in Results
  <1>1. PICK f : /\ SpecOfString(items) = f[1..Len(items)] /\ f[1..0] = Result("ok", EmptySpec)
                 /\ \A k \in 1..Len(items) : f[1..k] = ItemStep(f[1..(k - 1)], items[k])
    BY SpecOfStringIs
  <1>2. PICK n \in Nat : n = Len(items)
    OBVIOUS
  <1> DEFINE T == {k \in Nat : k <= n => f[1..k] \in Results}
  <1>3. 0 \in T
    <2>1. "ok" \in ResultCodes
      BY DEF ResultCodes
    <2>2. QED  BY <1>1, <2>1, ResultType
  <1>4. ASSUME NEW k \in 1..n, k - 1 \in T  PROVE k \in T
    <2>1. f[1..(k - 1)] \in Results
      BY <1>4
    <2>2. f[1..k] \in Results
      BY <1>1, <1>2, <2>1, ItemStepType
    <2>3. QED  BY <2>2
  <1>5. n \in T
    <2>1. T \in SUBSET Nat
      OBVIOUS
    <2> HIDE DEF T
    <2> QED  BY <1>3, <1>4, <2>1, EveryIndex
  <1>6. QED
    BY <1>1, <1>2, <1>5

LEMMA SpecOfCertType ==
    ASSUME NEW w \in Worlds, NEW c \in ToSet(w.certs) \cup ToSet(w.trusteds)
    PROVE  SpecOfCert(w, c) \in Results
  <1>1. CASE w.raw[c] = NoExt
    <2>1. "ENOENT" \in ResultCodes
      BY DEF ResultCodes
    <2>2. QED  BY <1>1, <2>1, ResultType DEF SpecOfCert
  <1>2. CASE w.raw[c] # NoExt
    <2>1. PICK I : I = ToSet(w.raw[c])
      OBVIOUS
    <2>2. PICK items \in Seq(I) : items = w.raw[c]
      BY <1>2, <2>1, WorldsAssumption
    <2>3. QED  BY <1>2, <2>2, SpecOfStringType DEF SpecOfCert
  <1>3. QED
    BY <1>1, <1>2


\* The given certificates and the trusted ones that have issued c.
GivenTo(w, c) == {i \in {j \in DOMAIN w.certs : w.certs[j] \in w.issuers[c]} : w.certs[i] # c}
TrustedOf(w, c) == {i \in DOMAIN w.trusteds : w.trusteds[i] \in w.issuers[c]}

\* What is told of a certificate that is issued by one of which super is told.
UnderOf(super, own) ==
    IF super.rc # "ok" THEN Result(super.rc, EmptySpec)
    ELSE IF own.rc = "ENOENT" THEN Result("ok", EmptySpec)
    ELSE IF own.rc # "ok" THEN own
    ELSE IF ~AbleToSign(super.spec, own.spec) THEN Result("EINVAL", EmptySpec)
    ELSE own

LevelOf(w, above, n, c) ==
    IF GivenTo(w, c) # {} /\ n > 0 THEN UnderOf(above[w.certs[Min(GivenTo(w, c))]], SpecOfCert(w, c))
    ELSE IF TrustedOf(w, c) # {} THEN SpecOfCert(w, w.trusteds[Min(TrustedOf(w, c))])
    ELSE Result("ENOENT", EmptySpec)

LEMMA MinIn ==
    ASSUME NEW n \in Nat, NEW S \in SUBSET (1..n), S # {}
    PROVE  Min(S) \in S
  <1>1. S \in SUBSET Nat
    OBVIOUS
  <1>2. \E x \in S : \A y \in S : x <= y
    BY <1>1, LeastNumber
  <1>3. QED
    BY <1>2 DEF Min

LEMMA GivenIn ==
    ASSUME NEW w \in Worlds, NEW c
    PROVE  /\ GivenTo(w, c) # {} => w.certs[Min(GivenTo(w, c))] \in ToSet(w.certs)
           /\ TrustedOf(w, c) # {} => /\ w.trusteds[Min(TrustedOf(w, c))] \in ToSet(w.trusteds)
                                      /\ w.trusteds[Min(TrustedOf(w, c))] \in w.issuers[c]
  <1>1. PICK C, D : C = ToSet(w.certs) /\ D = ToSet(w.trusteds)
    OBVIOUS
  <1>2. PICK certs \in Seq(C) : certs = w.certs
    BY <1>1, WorldsAssumption
  <1>3. PICK trusteds \in Seq(D) : trusteds = w.trusteds
    BY <1>1, WorldsAssumption
  <1>4. PICK m \in Nat, n \in Nat : DOMAIN certs = 1..m /\ DOMAIN trusteds = 1..n
    OBVIOUS
  <1>5. ASSUME GivenTo(w, c) # {}  PROVE w.certs[Min(GivenTo(w, c))] \in ToSet(w.certs)
    <2>1. GivenTo(w, c) \in SUBSET (1..m)
      BY <1>2, <1>4 DEF GivenTo
    <2>2. PICK i \in GivenTo(w, c) : i = Min(GivenTo(w, c))
      BY <1>5, <2>1, MinIn
    <2>3. i \in DOMAIN certs
      BY <1>4, <2>1
    <2>4. certs[i] \in C
      BY <2>3
    <2>5. QED  BY <1>1, <1>2, <2>2, <2>4
  <1>6. ASSUME TrustedOf(w, c) # {}
        PROVE  /\ w.trusteds[Min(TrustedOf(w, c))] \in ToSet(w.trusteds)
               /\ w.trusteds[Min(TrustedOf(w, c))] \in w.issuers[c]
    <2>1. TrustedOf(w, c) \in SUBSET (1..n)
      BY <1>3, <1>4 DEF TrustedOf
    <2>2. PICK i \in TrustedOf(w, c) : i = Min(TrustedOf(w, c))
      BY <1>6, <2>1, MinIn
    <2>3. i \in DOMAIN trusteds /\ w.trusteds[i] \in w.issuers[c]
      BY <1>4, <2>1, <2>2 DEF TrustedOf
    <2>4. trusteds[i] \in D
      BY <2>3
    <2>5. QED  BY <1>1, <1>3, <2>2, <2>3, <2>4
  <1>7. QED
    BY <1>5, <1>6

LEMMA UnderOfType ==
    ASSUME NEW super \in Results, NEW own \in Results
    PROVE  /\ UnderOf(super, own) \in Results
           /\ UnderOf(super, own).rc = "ok" =>
                  /\ super.rc = "ok"
                  /\ \A d \in Domains : UnderOf(super, own).spec[d] # 0 =>
                        super.spec[d] > UnderOf(super, own).spec[d] \/ super.spec[d] = 3
  <1>1. {"ok", "EINVAL"} \subseteq ResultCodes /\ super.rc \in ResultCodes
    BY ResultType DEF ResultCodes
  <1>2. CASE super.rc # "ok"
    BY <1>1, <1>2, ResultType DEF UnderOf
  <1>3. CASE super.rc = "ok" /\ own.rc = "ENOENT"
    <2>1. UnderOf(super, own) = Result("ok", EmptySpec)
      BY <1>3 DEF UnderOf
    <2>2. \A d \in Domains : EmptySpec[d] = 0
      BY DEF EmptySpec, None0
    <2>3. QED  BY <1>1, <1>3, <2>1, <2>2, ResultType
  <1>4. CASE super.rc = "ok" /\ own.rc # "ENOENT" /\ own.rc # "ok"
    BY <1>4 DEF UnderOf
  <1>5. CASE super.rc = "ok" /\ own.rc = "ok" /\ ~AbleToSign(super.spec, own.spec)
    <2>1. UnderOf(super, own) = Result("EINVAL", EmptySpec)
      BY <1>5 DEF UnderOf
    <2>2. QED  BY <1>1, <2>1, ResultType
  <1>6. CASE super.rc = "ok" /\ own.rc = "ok" /\ AbleToSign(super.spec, own.spec)
    <2>1. UnderOf(super, own) = own
      BY <1>6 DEF UnderOf
    <2>2. QED  BY <1>6, <2>1 DEF AbleToSign, None0, Root
  <1>7. QED
    BY <1>2, <1>3, <1>4, <1>5, <1>6

LEMMA LevelType ==
    ASSUME NEW w \in Worlds, NEW above \in [ToSet(w.certs) -> Results], NEW n, NEW c \in ToSet(w.certs)
    PROVE  LevelOf(w, above, n, c) \in Results
  <1>1. SpecOfCert(w, c) \in Results
    BY SpecOfCertType
  <1>2. CASE GivenTo(w, c) # {} /\ n > 0
    <2>1. above[w.certs[Min(GivenTo(w, c))]] \in Results
      BY <1>2, GivenIn
    <2>2. QED  BY <1>1, <1>2, <2>1, UnderOfType DEF LevelOf
  <1>3. CASE ~(GivenTo(w, c) # {} /\ n > 0) /\ TrustedOf(w, c) # {}
    <2>1. SpecOfCert(w, w.trusteds[Min(TrustedOf(w, c))]) \in Results
      BY <1>3, GivenIn, SpecOfCertType
    <2>2. QED  BY <1>3, <2>1 DEF LevelOf
  <1>4. CASE ~(GivenTo(w, c) # {} /\ n > 0) /\ TrustedOf(w, c) = {}
    <2>1. "ENOENT" \in ResultCodes
      BY DEF ResultCodes
    <2>2. QED  BY <1>4, <2>1, ResultType DEF LevelOf
  <1>5. QED
    BY <1>2, <1>3, <1>4


\* What is told of the certificates, by the length of the way to a trusted one.
Levels(f, w) ==
    f = [n \in 0..Len(w.certs) |-> [c \in ToSet(w.certs) |-> LevelOf(w, f[n - 1], n, c)]]

LEMMA LevelsExist ==
    ASSUME NEW w \in Worlds
    PROVE  \E f : Levels(f, w)
  <1>1. PICK C : C = ToSet(w.certs)
    OBVIOUS
  <1>2. PICK m \in Nat : m = Len(w.certs)
    BY WorldsAssumption
  <1>3. PICK W : W = [C -> Results]
    OBVIOUS
  <1>4. "ok" \in ResultCodes
    BY DEF ResultCodes
  <1>5. PICK any \in W : TRUE
    <2>1. [c \in C |-> Result("ok", EmptySpec)] \in W
      BY <1>3, <1>4, ResultType
    <2>2. QED  BY <2>1
  <1>6. PICK base \in W : base = [c \in C |-> LevelOf(w, any, 0, c)]
    <2>1. \A c \in C : LevelOf(w, any, 0, c) \in Results
      BY <1>1, <1>3, LevelType
    <2>2. QED  BY <1>3, <2>1
  <1>7. PICK phi : phi = [z \in W \X (1..m) |-> [c \in C |-> LevelOf(w, z[1], z[2], c)]]
    OBVIOUS
  <1>8. phi \in [W \X (1..m) -> W]
    <2>1. \A z \in W \X (1..m) : [c \in C |-> LevelOf(w, z[1], z[2], c)] \in W
      <3>1. SUFFICES ASSUME NEW z \in W \X (1..m)  PROVE [c \in C |-> LevelOf(w, z[1], z[2], c)] \in W
        OBVIOUS
      <3>2. PICK a \in W, k \in 1..m : a = z[1] /\ k = z[2]
        OBVIOUS
      <3>3. \A c \in C : LevelOf(w, a, k, c) \in Results
        BY <1>1, <1>3, LevelType
      <3>4. QED  BY <1>3, <3>2, <3>3
    <2>2. QED  BY <1>7, <2>1
  <1>9. PICK g \in [SUBSET (1..m) -> W] :
            \A s \in SUBSET (1..m) : g[s] = FoldStep(g, phi, base, s)
    <2>1. PICK g : Folding(g, m, W, phi, base)
      BY <1>8, FoldExists
    <2>2. QED  BY <2>1 DEF Folding
  <1>10. g[1..0] = base
    <2>1. 1..0 = {} /\ {} \in SUBSET (1..m)
      OBVIOUS
    <2>2. QED  BY <1>9, <2>1 DEF FoldStep
  <1>11. ASSUME NEW k \in 1..m  PROVE g[1..k] = [c \in C |-> LevelOf(w, g[1..(k - 1)], k, c)]
    <2>1. /\ 1..k \in SUBSET (1..m) /\ 1..(k - 1) \in SUBSET (1..m) /\ 1..k # {}
          /\ Max(1..k) = k /\ (1..k) \ {Max(1..k)} = 1..(k - 1)
      BY FirstIndexes
    <2>2. g[1..k] = phi[<<g[1..(k - 1)], k>>]
      BY <1>9, <2>1 DEF FoldStep
    <2>3. PICK a \in W : a = g[1..(k - 1)]
      BY <2>1
    <2>4. phi[<<a, k>>] = [c \in C |-> LevelOf(w, a, k, c)]
      BY <1>7
    <2>5. QED  BY <2>2, <2>3, <2>4
  <1>12. PICK f : f = [n \in 0..m |-> g[1..n]]
    OBVIOUS
  <1>13. ASSUME NEW n \in 0..m  PROVE f[n] = [c \in C |-> LevelOf(w, f[n - 1], n, c)]
    <2>1. CASE n = 0
      <3>1. \A x : \A c \in C : LevelOf(w, x, 0, c) = LevelOf(w, any, 0, c)
        BY DEF LevelOf
      <3>2. f[0] = base
        BY <1>10, <1>12
      <3>3. QED  BY <1>6, <2>1, <3>1, <3>2
    <2>2. CASE n # 0
      <3>1. n \in 1..m /\ n - 1 \in 0..m
        BY <2>2
      <3>2. f[n] = g[1..n] /\ f[n - 1] = g[1..(n - 1)]
        BY <1>12, <3>1
      <3>3. QED  BY <1>11, <3>1, <3>2
    <2>3. QED  BY <2>1, <2>2
  <1>14. f = [n \in 0..m |-> [c \in C |-> LevelOf(w, f[n - 1], n, c)]]
    BY <1>12, <1>13
  <1>15. QED
    BY <1>1, <1>2, <1>14 DEF Levels

LEMMA CheckCrtChainIs ==
    ASSUME NEW w \in Worlds
    PROVE  \E f : Levels(f, w) /\ CheckCrtChain(w) = f[Len(w.certs)]
  <1> DEFINE Body(f) == [n \in 0..Len(w.certs) |-> [c \in ToSet(w.certs) |-> LevelOf(w, f[n - 1], n, c)]]
  <1>1. PICK g : g = CHOOSE f : f = Body(f)
    OBVIOUS
  <1>2. \E f : f = Body(f)
    <2>1. PICK f : Levels(f, w)
      BY LevelsExist
    <2>2. f = Body(f)
      BY <2>1 DEF Levels
    <2>3. QED
      <3> HIDE DEF Body
      <3> QED  BY <2>2
  <1>3. g = Body(g)
    <2> HIDE DEF Body
    <2> QED  BY <1>1, <1>2
  <1>4. CheckCrtChain(w) = g[Len(w.certs)]
    BY <1>1 DEF CheckCrtChain, LevelOf, GivenTo, TrustedOf, UnderOf
  <1>5. QED
    BY <1>3, <1>4 DEF Levels

\* The trusted certificates that have issued a given one.
TrustingOf(w) == {t \in ToSet(w.trusteds) : \E p \in ToSet(w.certs) : t \in w.issuers[p]}

\* What is told of certificate c at level n is bounded by a trusted certificate, which is a root
\* or, when no given certificate is above, its issuer if the right to sign is told.
BoundedBy(w, n, c, r) ==
    r.rc = "ok" => \A d \in Domains : r.spec[d] # 0 =>
        \E t \in TrustingOf(w) :
            LET top == SpecOfCert(w, t).spec[d]
            IN  top = 3 \/ (top >= r.spec[d] /\ (r.spec[d] = 1 \/ n = 0 \/ GivenTo(w, c) = {}))

LEMMA LevelBounded ==
    ASSUME NEW w \in Worlds, NEW above \in [ToSet(w.certs) -> Results], NEW n \in Nat, NEW c \in ToSet(w.certs),
           NEW k, \A p \in ToSet(w.certs) : BoundedBy(w, k, p, above[p])
    PROVE  BoundedBy(w, n, c, LevelOf(w, above, n, c))
  <1>1. SpecOfCert(w, c) \in Results
    BY SpecOfCertType
  <1>2. CASE GivenTo(w, c) # {} /\ n > 0
    <2>1. PICK p \in ToSet(w.certs) : p = w.certs[Min(GivenTo(w, c))]
      BY <1>2, GivenIn
    <2>2. PICK super \in Results : super = above[p]
      OBVIOUS
    <2>3. PICK r \in Results : r = UnderOf(super, SpecOfCert(w, c))
      BY <1>1, UnderOfType
    <2>4. LevelOf(w, above, n, c) = r
      BY <1>2, <2>1, <2>2, <2>3 DEF LevelOf
    <2>5. r.rc = "ok" => /\ super.rc = "ok"
                         /\ \A d \in Domains : r.spec[d] # 0 => super.spec[d] > r.spec[d] \/ super.spec[d] = 3
      BY <1>1, <2>3, UnderOfType
    <2>6. ASSUME r.rc = "ok", NEW d \in Domains, r.spec[d] # 0
          PROVE  \E t \in TrustingOf(w) :
                    LET top == SpecOfCert(w, t).spec[d]
                    IN  top = 3 \/ (top >= r.spec[d] /\ (r.spec[d] = 1 \/ n = 0 \/ GivenTo(w, c) = {}))
      <3>1. PICK x \in 0..3, y \in 0..3 : x = r.spec[d] /\ y = super.spec[d]
        BY ResultType DEF Specs
      <3>2. super.rc = "ok" /\ x # 0 /\ (y > x \/ y = 3)
        BY <2>5, <2>6, <3>1
      <3>3. y # 0
        BY <3>1, <3>2
      <3>4. PICK t \in TrustingOf(w) :
                LET top == SpecOfCert(w, t).spec[d]
                IN  top = 3 \/ top >= y
        BY <2>2, <3>1, <3>2, <3>3 DEF BoundedBy
      <3>5. PICK top \in 0..3 : top = SpecOfCert(w, t).spec[d]
        <4>1. t \in ToSet(w.trusteds)
          BY DEF TrustingOf
        <4>2. QED  BY <4>1, SpecOfCertType, ResultType DEF Specs
      <3>6. top = 3 \/ (top >= x /\ x = 1)
        BY <3>1, <3>2, <3>4, <3>5
      <3>7. QED  BY <3>1, <3>5, <3>6
    <2>7. QED  BY <2>4, <2>6 DEF BoundedBy
  <1>3. CASE ~(GivenTo(w, c) # {} /\ n > 0) /\ TrustedOf(w, c) # {}
    <2>1. PICK t \in ToSet(w.trusteds) : t = w.trusteds[Min(TrustedOf(w, c))] /\ t \in w.issuers[c]
      BY <1>3, GivenIn
    <2>2. t \in TrustingOf(w)
      BY <2>1 DEF TrustingOf
    <2>3. LevelOf(w, above, n, c) = SpecOfCert(w, t)
      BY <1>3, <2>1 DEF LevelOf
    <2>4. SpecOfCert(w, t) \in Results
      BY SpecOfCertType
    <2>5. \A d \in Domains : SpecOfCert(w, t).spec[d] \in 0..3
      BY <2>4, ResultType DEF Specs
    <2>6. \A d \in Domains : SpecOfCert(w, t).spec[d] >= SpecOfCert(w, t).spec[d]
      BY <2>5
    <2>7. n = 0 \/ GivenTo(w, c) = {}
      BY <1>3
    <2>8. QED  BY <2>1, <2>2, <2>3, <2>6, <2>7 DEF BoundedBy
  <1>4. CASE ~(GivenTo(w, c) # {} /\ n > 0) /\ TrustedOf(w, c) = {}
    <2>1. LevelOf(w, above, n, c) = Result("ENOENT", EmptySpec)
      BY <1>4 DEF LevelOf
    <2>2. "ENOENT" \in ResultCodes
      BY DEF ResultCodes
    <2>3. QED  BY <2>1, <2>2, ResultType DEF BoundedBy
  <1>5. QED
    BY <1>2, <1>3, <1>4

\* However long the chain.
LEMMA ChainLevels ==
    ASSUME NEW w \in Worlds, NEW c \in ToSet(w.certs)
    PROVE  CheckCrtChain(w)[c] \in Results /\ BoundedBy(w, Len(w.certs), c, CheckCrtChain(w)[c])
  <1>1. PICK f : Levels(f, w) /\ CheckCrtChain(w) = f[Len(w.certs)]
    BY CheckCrtChainIs
  <1>2. PICK m \in Nat : m = Len(w.certs)
    BY WorldsAssumption
  <1>3. PICK C : C = ToSet(w.certs)
    OBVIOUS
  <1>4. \A n \in 0..m : f[n] = [p \in C |-> LevelOf(w, f[n - 1], n, p)]
    BY <1>1, <1>2, <1>3 DEF Levels
  <1> DEFINE LevelSound(k, x) == x \in [C -> Results] /\ \A p \in C : BoundedBy(w, k, p, x[p])
             T == {k \in Nat : k <= m => LevelSound(k, f[k])}
  <1>5. ASSUME NEW x, NEW k, LevelSound(k, x), NEW n \in Nat  PROVE LevelSound(n, [p \in C |-> LevelOf(w, x, n, p)])
    <2>1. \A p \in C : LevelOf(w, x, n, p) \in Results
      BY <1>3, <1>5, LevelType
    <2>2. \A p \in C : BoundedBy(w, n, p, LevelOf(w, x, n, p))
      BY <1>3, <1>5, LevelBounded
    <2>3. QED  BY <2>1, <2>2
  <1>6. 0 \in T
    <2>1. PICK x : x = [p \in C |-> Result("ENOENT", EmptySpec)]
      OBVIOUS
    <2>2. LevelSound(0, x)
      <3>1. "ENOENT" \in ResultCodes
        BY DEF ResultCodes
      <3>2. QED  BY <2>1, <3>1, ResultType DEF BoundedBy
    <2>3. f[0] = [p \in C |-> LevelOf(w, x, 0, p)]
      <3>1. \A y : \A p \in C : LevelOf(w, y, 0, p) = LevelOf(w, x, 0, p)
        BY DEF LevelOf
      <3>2. f[0] = [p \in C |-> LevelOf(w, f[0 - 1], 0, p)]
        BY <1>4
      <3>3. QED  BY <3>1, <3>2
    <2> HIDE DEF LevelSound
    <2>4. LevelSound(0, f[0])
      BY <1>5, <2>2, <2>3
    <2>5. QED  BY <2>4
  <1>7. ASSUME NEW k \in 1..m, k - 1 \in T  PROVE k \in T
    <2> HIDE DEF LevelSound
    <2>1. LevelSound(k - 1, f[k - 1]) /\ k \in Nat
      BY <1>7
    <2>2. f[k] = [p \in C |-> LevelOf(w, f[k - 1], k, p)]
      BY <1>4
    <2>3. LevelSound(k, f[k])
      BY <1>5, <2>1, <2>2
    <2>4. QED  BY <2>3
  <1>8. m \in T
    <2>1. T \in SUBSET Nat
      OBVIOUS
    <2> HIDE DEF T
    <2> QED  BY <1>6, <1>7, <2>1, EveryIndex
  <1>9. LevelSound(m, f[m])
    BY <1>8
  <1>10. QED
    BY <1>1, <1>2, <1>3, <1>9


LEMMA SetToSeqAll ==
    ASSUME NEW S, IsFiniteSet(S)
    PROVE  \E n \in Nat : /\ SetToSeq(S) \in [1..n -> S]
                          /\ \A i, j \in 1..n : SetToSeq(S)[i] = SetToSeq(S)[j] => i = j
                          /\ \A x \in S : \E i \in 1..n : SetToSeq(S)[i] = x
  <1>1. PICK n \in Nat : n = Cardinality(S) /\ ExistsBijection(1..n, S)
    BY FS_CardinalityType
  <1>2. \E f \in [1..n -> S] : IsInjective(f)
    BY <1>1 DEF ExistsBijection, Bijection, Injection
  <1>3. SetToSeq(S) = CHOOSE f \in [1..n -> S] : IsInjective(f)
    BY <1>1 DEF SetToSeq
  <1>4. PICK f \in [1..n -> S] : f = SetToSeq(S) /\ IsInjective(f)
    BY <1>2, <1>3
  <1>5. f \in Injection(1..n, S)
    BY <1>4 DEF Injection
  <1>6. Cardinality(1..n) = n
    BY FS_Interval
  <1>7. f \in Surjection(1..n, S)
    BY <1>1, <1>5, <1>6, FS_Injection
  <1>8. \A i, j \in 1..n : f[i] = f[j] => i = j
    BY <1>4 DEF IsInjective
  <1>9. \A x \in S : \E i \in 1..n : f[i] = x
    BY <1>7 DEF Surjection
  <1>10. QED
    BY <1>4, <1>8, <1>9

\* What has been read of the first k names.
ReadFirst(of, names, k, r) ==
    /\ r \in Results /\ r.rc = "ok"
    /\ \A d \in Domains : r.spec[d] = IF \E i \in 1..k : names[i] = d THEN of[d] ELSE 0

\* A specification that is printed is read again as it is.
LEMMA PrintedIsRead ==
    ASSUME NEW of \in Specs
    PROVE  /\ SpecOfString(StringOfSpec(of).items) = Result("ok", of)
           /\ StringOfSpec(of).size <= StringOfSpec(of).room \/ of = EmptySpec
  <1>1. PICK S \in SUBSET Domains : S = {d \in Domains : of[d] # None0}
    OBVIOUS
  <1>2. IsFiniteSet(S)
    BY WorldsAssumption, FS_Subset
  <1>3. PICK n \in Nat : /\ SetToSeq(S) \in [1..n -> S]
                         /\ \A i, j \in 1..n : SetToSeq(S)[i] = SetToSeq(S)[j] => i = j
                         /\ \A x \in S : \E i \in 1..n : SetToSeq(S)[i] = x
    BY <1>2, SetToSeqAll
  <1>4. PICK names \in [1..n -> S] : names = SetToSeq(S)
    BY <1>3
  <1>5. DOMAIN names = 1..n /\ Len(names) = n
    BY <1>4
  <1>6. PICK items : items = [i \in 1..n |-> [tag |-> of[names[i]], name |-> names[i]]]
    OBVIOUS
  <1>7. /\ StringOfSpec(of).items = items
        /\ StringOfSpec(of).room = 3 * n
        /\ StringOfSpec(of).size = 2 * n + (IF names = <<>> THEN 0 ELSE n - 1) + 1
    BY <1>1, <1>4, <1>5, <1>6 DEF StringOfSpec
  <1>8. \A i \in 1..n : /\ items[i].name = names[i] /\ items[i].tag = of[names[i]]
                        /\ names[i] \in Domains /\ of[names[i]] \in 1..3
    <2>1. SUFFICES ASSUME NEW i \in 1..n
          PROVE /\ items[i].name = names[i] /\ items[i].tag = of[names[i]]
                /\ names[i] \in Domains /\ of[names[i]] \in 1..3
      OBVIOUS
    <2>2. PICK d \in S : d = names[i]
      BY <1>4
    <2>3. of[d] \in 0..3 /\ of[d] # 0
      BY <1>1 DEF Specs, None0
    <2>4. QED  BY <1>6, <2>2, <2>3
  <1>9. PICK I : I = {items[i] : i \in 1..n}
    OBVIOUS
  <1>10. items \in Seq(I) /\ Len(items) = n
    BY <1>6, <1>9
  <1>11. PICK f : /\ SpecOfString(items) = f[1..Len(items)] /\ f[1..0] = Result("ok", EmptySpec)
                  /\ \A k \in 1..Len(items) : f[1..k] = ItemStep(f[1..(k - 1)], items[k])
    BY <1>10, SpecOfStringIs
  <1> DEFINE T == {k \in Nat : k <= n => ReadFirst(of, names, k, f[1..k])}
  <1>12. 0 \in T
    <2>1. "ok" \in ResultCodes
      BY DEF ResultCodes
    <2>2. \A d \in Domains : EmptySpec[d] = 0
      BY DEF EmptySpec, None0
    <2>3. ReadFirst(of, names, 0, Result("ok", EmptySpec))
      BY <2>1, <2>2, ResultType DEF ReadFirst
    <2>4. QED  BY <1>11, <2>3
  <1>13. ASSUME NEW k \in 1..n, k - 1 \in T  PROVE k \in T
    <2>1. PICK r \in Results : r = f[1..(k - 1)] /\ ReadFirst(of, names, k - 1, r)
      BY <1>13 DEF ReadFirst
    <2>a. PICK item : item = items[k]
      OBVIOUS
    <2>2. PICK x \in Domains : x = names[k]
      BY <1>8
    <2>3. r.rc = "ok" /\ item.tag \in 1..3 /\ item.name = x /\ item.tag = of[x]
      BY <1>8, <2>1, <2>2, <2>a DEF ReadFirst
    <2>4. ~ \E i \in 1..(k - 1) : names[i] = x
      <3>1. \A i \in 1..(k - 1) : i \in 1..n /\ i # k
        OBVIOUS
      <3>2. QED  BY <1>3, <1>4, <2>2, <3>1
    <2>5. r.spec[x] = 0
      BY <2>1, <2>4 DEF ReadFirst
    <2>6. PICK new \in Results : new = ItemStep(r, item) /\ new.rc = "ok" /\ new.spec = [r.spec EXCEPT ![x] = of[x]]
      BY <2>3, <2>5, ItemSets
    <2>7. r.spec \in Specs
      BY ResultType
    <2>8. \A d \in Domains : new.spec[d] = IF d = x THEN of[x] ELSE r.spec[d]
      BY <2>6, <2>7 DEF Specs
    <2>9. \A d \in Domains : (\E i \in 1..k : names[i] = d) <=> (d = x \/ \E i \in 1..(k - 1) : names[i] = d)
      <3>1. 1..k = (1..(k - 1)) \union {k}
        OBVIOUS
      <3>2. QED  BY <2>2, <3>1
    <2>10. ReadFirst(of, names, k, new)
      BY <2>1, <2>6, <2>8, <2>9 DEF ReadFirst
    <2>11. f[1..k] = new
      BY <1>10, <1>11, <2>1, <2>6, <2>a
    <2>12. QED  BY <2>10, <2>11
  <1>14. n \in T
    <2>1. T \in SUBSET Nat
      OBVIOUS
    <2> HIDE DEF T
    <2> QED  BY <1>12, <1>13, <2>1, EveryIndex
  <1>15. PICK r \in Results : r = SpecOfString(items) /\ ReadFirst(of, names, n, r)
    BY <1>10, <1>11, <1>14 DEF ReadFirst
  <1>16. \A d \in Domains : r.spec[d] = of[d]
    <2>1. SUFFICES ASSUME NEW d \in Domains  PROVE r.spec[d] = of[d]
      OBVIOUS
    <2>2. CASE d \in S
      BY <1>3, <1>4, <1>15, <2>2 DEF ReadFirst
    <2>3. CASE d \notin S
      <3>1. of[d] = 0
        BY <1>1, <2>3 DEF None0
      <3>2. QED  BY <1>15, <3>1 DEF ReadFirst
    <2>4. QED  BY <2>2, <2>3
  <1>17. r.spec = of
    BY <1>16, ResultType DEF Specs
  <1>18. r = Result("ok", of)
    BY <1>15, <1>17, ResultType DEF ReadFirst
  <1>19. StringOfSpec(of).size <= StringOfSpec(of).room \/ of = EmptySpec
    <2>1. CASE n = 0
      <3>1. \A d \in Domains : of[d] = 0
        BY <1>1, <1>3, <2>1 DEF None0
      <3>2. of = EmptySpec
        BY <3>1 DEF EmptySpec, None0, Specs
      <3>3. QED  BY <3>2
    <2>2. CASE n # 0
      <3>1. names # <<>>
        BY <1>5, <2>2
      <3>2. 2 * n + (n - 1) + 1 <= 3 * n
        OBVIOUS
      <3>3. QED  BY <1>7, <3>1, <3>2
    <2>3. QED  BY <2>1, <2>2
  <1>20. QED
    BY <1>7, <1>15, <1>18, <1>19

----------------------------------------------------------------------------
(* The checks of chains. *)

ChainInv ==
    /\ world \in Worlds /\ target \in ToSet(world.certs)
    /\ spec # NoExt => spec = CheckCrtChain(world)[target]
    /\ text # NoExt => spec # NoExt /\ spec.rc = "ok" /\ text = StringOfSpec(spec.spec)

\* Whatever certificates are given and however long the chain, the rights that check_crt_chain
\* tells of a certificate are bounded by those of a trusted one, the right to sign passes from a
\* given certificate to the next only under a root, and the specification that is printed is read
\* as it is and fits the room allocated for it, but for the one without domain.
THEOREM RightsCorrect == ChainSpec => []RightsFaithful
  <1>1. ChainInit => ChainInv
    BY DEF ChainInit, ChainInv
  <1>2. ChainInv /\ [ChainNext]_chainVars => ChainInv'
    BY DEF ChainInv, ChainNext, Check, PrintSpec, chainVars
  <1>3. ChainInv => RightsFaithful
    <2>1. SUFFICES ASSUME ChainInv, spec # NoExt, spec.rc = "ok"
          PROVE  /\ \A d \in Domains : spec.spec[d] # None0 =>
                        \E t \in Trusting : LET top == SpecOfCert(world, t).spec[d]
                                            IN  top = Root \/ top >= spec.spec[d]
                 /\ Deliverers # {} => \A d \in Domains : spec.spec[d] \in {Auth, Root} =>
                        \E t \in Trusting : SpecOfCert(world, t).spec[d] = Root
                 /\ PrintedSpec
      BY DEF RightsFaithful, ChainBounded, RightsDecrease, PrintedSpec, ChainInv
    <2>2. spec \in Results /\ BoundedBy(world, Len(world.certs), target, spec)
      BY <2>1, ChainLevels DEF ChainInv
    <2>3. Trusting = TrustingOf(world)
      BY DEF Trusting, TrustingOf
    <2>a. Deliverers # {} => Len(world.certs) # 0 /\ GivenTo(world, target) # {}
      <3>1. PICK w \in Worlds : w = world
        BY <2>1 DEF ChainInv
      <3>2. w.certs \in Seq(ToSet(w.certs))
        BY WorldsAssumption
      <3>3. SUFFICES ASSUME NEW c \in ToSet(w.certs), c \in w.issuers[target], c # target
                     PROVE  Len(w.certs) # 0 /\ GivenTo(w, target) # {}
        BY <3>1 DEF Deliverers
      <3>4. PICK i \in DOMAIN w.certs : w.certs[i] = c
        BY DEF ToSet
      <3>5. Len(w.certs) # 0
        BY <3>2, <3>4
      <3>6. i \in GivenTo(w, target)
        BY <3>3, <3>4 DEF GivenTo
      <3>7. QED  BY <3>5, <3>6
    <2>4. ASSUME NEW d \in Domains, spec.spec[d] # 0
          PROVE  /\ \E t \in Trusting : LET top == SpecOfCert(world, t).spec[d]
                                            IN  top = 3 \/ top >= spec.spec[d]
                 /\ Deliverers # {} /\ spec.spec[d] \in {2, 3} => \E t \in Trusting : SpecOfCert(world, t).spec[d] = 3
      <3>1. PICK t \in Trusting :
                LET top == SpecOfCert(world, t).spec[d]
                IN  top = 3 \/ (top >= spec.spec[d]
                                /\ (spec.spec[d] = 1 \/ Len(world.certs) = 0 \/ GivenTo(world, target) = {}))
        BY <2>1, <2>2, <2>3, <2>4 DEF BoundedBy
      <3>2. QED  BY <2>a, <3>1
    <2>5. PrintedSpec
      <3>1. SUFFICES ASSUME text # NoExt
            PROVE  SpecOfString(text.items) = spec /\ (text.size <= text.room \/ spec.spec = EmptySpec)
        BY DEF PrintedSpec
      <3>2. PICK of \in Specs : of = spec.spec /\ spec = Result("ok", of) /\ text = StringOfSpec(of)
        BY <2>1, <2>2, <3>1, ResultType DEF ChainInv
      <3>3. QED  BY <3>2, PrintedIsRead
    <2>6. \A d \in Domains : spec.spec[d] \in {2, 3} => spec.spec[d] # 0
      OBVIOUS
    <2>7. QED  BY <2>4, <2>5, <2>6 DEF None0, Auth, Root
  <1>4. QED
    BY <1>1, <1>2, <1>3, PTL DEF ChainSpec

----------------------------------------------------------------------------
(* The transactions of the former rpm plugin. *)

\* The values that the record of a package takes.
Seen == [dir |-> Void, toinstall |-> FALSE, installed |-> FALSE, toremove |-> TRUE]
Leaving(i) == [dir |-> i, toinstall |-> FALSE, installed |-> FALSE, toremove |-> TRUE]
Moving(i) == [dir |-> i, toinstall |-> TRUE, installed |-> FALSE, toremove |-> TRUE]
Coming(i) == [dir |-> i, toinstall |-> TRUE, installed |-> FALSE, toremove |-> FALSE]
Settled(i) == [dir |-> i, toinstall |-> TRUE, installed |-> TRUE, toremove |-> FALSE]

\* The elements, and what remains of each sequence of them.
AddFiles == Element("ADDED", TRUE)
AddVoid == Element("ADDED", FALSE)
RemoveFiles == Element("REMOVED", TRUE)
RemoveVoid == Element("REMOVED", FALSE)
Install1 == <<AddFiles, AddVoid>>
Last1 == <<AddVoid>>
Remove1 == <<RemoveVoid, RemoveFiles>>
Remove2 == <<RemoveFiles>>
Upgrade1 == <<RemoveVoid, AddFiles, RemoveFiles, AddVoid>>
Upgrade2 == <<AddFiles, RemoveFiles, AddVoid>>
Upgrade3 == <<RemoveFiles, AddVoid>>

\* What was done.
Unpack == <<"unpack">>
InstallDone == <<"unpack", "install">>
Uninstall == <<"uninstall">>
RemoveDone == <<"uninstall", "erase">>
Replace == <<"uninstall", "unpack">>
Replaced == <<"uninstall", "unpack", "erase">>
UpgradeDone == <<"uninstall", "unpack", "erase", "install">>

\* Where a package is.
StageOf(i) == IF current.pkg = i THEN current.stage ELSE "none"
Waiting == {"none", "pre"}
Passing == {"work", "post", "done"}
Row(i, rest, stages, pkg, did) ==
    todo[i] = rest /\ StageOf(i) \in stages /\ rpkgs[i] = pkg /\ calls[i] = did

\* What the disk holds of a package, as long as nothing failed.
SetUp(i) == troubles = 0 => dirs[i] = trans[i].old
Down(i, w) == troubles = 0 => dirs[i] = w /\ units[i] = Void /\ icons[i] = Void /\ rules[i] = Void
There(i) == troubles = 0 => dirs[i] = trans[i].new
Wanted(w) == IF w # Void /\ Settles(w) THEN w ELSE Void
Final(i) == troubles = 0 => dirs[i] = trans[i].new /\ units[i] = Wanted(trans[i].new)

InstallRows(i) ==
    \/ Row(i, Install1, Waiting, Void, <<>>) /\ Down(i, Void)
    \/ Row(i, Install1, {"work"}, Coming(i), <<>>) /\ Down(i, Void)
    \/ Row(i, Install1, {"post"}, Coming(i), Unpack) /\ Down(i, trans[i].new)
    \/ Row(i, Install1, {"installing"}, Settled(i), InstallDone) /\ There(i)
    \/ Row(i, Last1, Waiting \union Passing, Settled(i), InstallDone) /\ Final(i)
    \/ Row(i, <<>>, {"none"}, Settled(i), InstallDone) /\ Final(i)

RemoveRows(i) ==
    \/ Row(i, Remove1, Waiting, Void, <<>>) /\ SetUp(i)
    \/ Row(i, Remove1, Passing, Seen, <<>>) /\ SetUp(i)
    \/ Row(i, Remove2, Waiting, Seen, <<>>) /\ SetUp(i)
    \/ Row(i, Remove2, {"removing"}, Leaving(i), Uninstall) /\ SetUp(i)
    \/ Row(i, Remove2, {"work"}, Leaving(i), Uninstall) /\ Down(i, trans[i].old)
    \/ Row(i, Remove2, {"post", "done"}, Leaving(i), RemoveDone) /\ Down(i, Void)
    \/ Row(i, <<>>, {"none"}, Leaving(i), RemoveDone) /\ Down(i, Void)

UpgradeRows(i) ==
    \/ Row(i, Upgrade1, Waiting, Void, <<>>) /\ SetUp(i)
    \/ Row(i, Upgrade1, Passing, Seen, <<>>) /\ SetUp(i)
    \/ Row(i, Upgrade2, Waiting, Seen, <<>>) /\ SetUp(i)
    \/ Row(i, Upgrade2, {"removing"}, Moving(i), Uninstall) /\ SetUp(i)
    \/ Row(i, Upgrade2, {"work"}, Moving(i), Uninstall) /\ Down(i, trans[i].old)
    \/ Row(i, Upgrade2, {"post"}, Moving(i), Replace) /\ Down(i, trans[i].new)
    \/ Row(i, Upgrade2, {"done"}, Coming(i), Replace) /\ Down(i, trans[i].new)
    \/ Row(i, Upgrade3, Waiting \union {"work"}, Coming(i), Replace) /\ Down(i, trans[i].new)
    \/ Row(i, Upgrade3, {"post"}, Coming(i), Replaced) /\ Down(i, trans[i].new)
    \/ Row(i, Upgrade3, {"installing"}, Settled(i), UpgradeDone) /\ There(i)
    \/ Row(i, Last1, Waiting \union Passing, Settled(i), UpgradeDone) /\ Final(i)
    \/ Row(i, <<>>, {"none"}, Settled(i), UpgradeDone) /\ Final(i)

Rows(i) ==
    \/ trans[i].kind = "install" /\ InstallRows(i)
    \/ trans[i].kind = "remove" /\ RemoveRows(i)
    \/ trans[i].kind = "upgrade" /\ UpgradeRows(i)
    \/ trans[i].kind = "none" /\ Row(i, <<>>, {"none"}, Void, <<>>)

RemoveSteps == {"oldinfo", "oldunits", "oldicon", "oldrules", "end", "dead"}
SetupSteps == {"check", "icon", "rules", "modes", "units", "end", "dead"}
Stages == {"none", "pre", "removing", "work", "post", "installing", "done", "end"}
RpmOps ==
    [kind : {"none", "remove", "redpesk"}, step : {"idle"} \union RemoveSteps \union SetupSteps,
     dir : AllDirs \union {Void}, wgt : {Void}, desc : Held, force : BOOLEAN, ok : BOOLEAN]

RpmTypeOK ==
    /\ trans \in Transactions
    /\ dirs \in Disks /\ units \in Tables /\ icons \in Tables /\ rules = [i \in Ids |-> rules[i]]
    /\ workdir \in AllDirs \union {Void} /\ perms \in PermTables /\ troubles \in Nat
    /\ op \in RpmOps
    /\ current \in [pkg : Ids \union {Void}, stage : Stages]
    /\ current.pkg \in Ids <=> current.stage \notin {"none", "end"}
    /\ rpkgs = [i \in Ids |-> rpkgs[i]] /\ todo = [i \in Ids |-> todo[i]] /\ calls = [i \in Ids |-> calls[i]]

\* uninstall_redpesk of package i has gone up to its step, and nothing failed.
Removal(i) ==
    /\ op.step \in {"oldunits", "oldicon", "oldrules"} => op.desc = trans[i].old
    /\ op.step \in {"oldicon", "oldrules", "end"} => units[i] = Void
    /\ op.step \in {"oldrules", "end"} => icons[i] = Void
    /\ op.step = "end" => rules[i] = Void

\* install_redpesk of package i has gone up to its step, and nothing failed.
Setup(i) ==
    /\ op.step = "check" => workdir = i
    /\ op.step \in {"icon", "rules", "modes", "units"} => op.desc = trans[i].new /\ Accepted(trans[i].new)
    /\ op.step = "units" => trans[i].new.props
    /\ op.step \in {"check", "icon", "rules", "modes", "units"} => units[i] = Void
    /\ op.step = "end" => units[i] = Wanted(trans[i].new)

InProgress ==
    /\ current.stage \notin {"removing", "installing"} => op = Idle
    /\ current.stage = "removing" => /\ op.kind = "remove" /\ op.dir = current.pkg /\ op.step \in RemoveSteps
                                     /\ troubles = 0 => Removal(current.pkg)
    /\ current.stage = "installing" => /\ op.kind = "redpesk" /\ op.step \in SetupSteps
                                       /\ troubles = 0 => Setup(current.pkg)

RpmInv ==
    /\ RpmTypeOK /\ InProgress
    /\ current.stage # "end" => \A i \in Ids : Rows(i)
    /\ TransactionDone

LEMMA PackageRecords ==
    ASSUME NEW i \in Ids
    PROVE  /\ Seen \in Rpkgs /\ Leaving(i) \in Rpkgs /\ Moving(i) \in Rpkgs /\ Coming(i) \in Rpkgs /\ Settled(i) \in Rpkgs
           /\ Seen # Void /\ Leaving(i) # Void /\ Moving(i) # Void /\ Coming(i) # Void /\ Settled(i) # Void
           /\ i \in AllDirs /\ i # Void
  <1>1. i \in AllDirs /\ i # Void
    BY VoidAssumption DEF AllDirs
  <1>2. PICK D : D = AllDirs \union {Void}
    OBVIOUS
  <1>3. i \in D /\ Void \in D /\ Rpkgs = [dir : D, toinstall : BOOLEAN, installed : BOOLEAN, toremove : BOOLEAN]
    BY <1>1, <1>2 DEF Rpkgs
  <1>4. Seen \in Rpkgs /\ Leaving(i) \in Rpkgs /\ Moving(i) \in Rpkgs /\ Coming(i) \in Rpkgs /\ Settled(i) \in Rpkgs
    BY <1>3 DEF Seen, Leaving, Moving, Coming, Settled
  <1>5. QED
    BY <1>1, <1>4, TransactionsAssumption

\* What redpesk_psm_pre makes of the record of a package.
PreNew(type) == [dir |-> Void, toinstall |-> FALSE, installed |-> FALSE, toremove |-> type = "REMOVED"]
PreDir(pkg, te, i) == IF pkg.dir # Void THEN pkg.dir ELSE IF te.files THEN i ELSE Void
PreNext(pkg, te, i) ==
    [pkg EXCEPT !.dir = PreDir(pkg, te, i), !.toinstall = @ \/ (PreDir(pkg, te, i) # Void /\ te.type = "ADDED")]

LEMMA ElementFields ==
    /\ AddFiles.type = "ADDED" /\ AddFiles.files = TRUE
    /\ AddVoid.type = "ADDED" /\ AddVoid.files = FALSE
    /\ RemoveFiles.type = "REMOVED" /\ RemoveFiles.files = TRUE
    /\ RemoveVoid.type = "REMOVED" /\ RemoveVoid.files = FALSE
  BY Zenon DEF AddFiles, AddVoid, RemoveFiles, RemoveVoid, Element

LEMMA Rests ==
    /\ Head(Install1) = AddFiles /\ Tail(Install1) = Last1
    /\ Head(Last1) = AddVoid /\ Tail(Last1) = <<>>
    /\ Head(Remove1) = RemoveVoid /\ Tail(Remove1) = Remove2
    /\ Head(Remove2) = RemoveFiles /\ Tail(Remove2) = <<>>
    /\ Head(Upgrade1) = RemoveVoid /\ Tail(Upgrade1) = Upgrade2
    /\ Head(Upgrade2) = AddFiles /\ Tail(Upgrade2) = Upgrade3
    /\ Head(Upgrade3) = RemoveFiles /\ Tail(Upgrade3) = Last1
    /\ <<>> \notin {Install1, Last1, Remove1, Remove2, Upgrade1, Upgrade2, Upgrade3}
  BY DEF Install1, Last1, Remove1, Remove2, Upgrade1, Upgrade2, Upgrade3

LEMMA SequenceIs ==
    /\ Sequence["install"] = Install1 /\ Sequence["remove"] = Remove1
    /\ Sequence["upgrade"] = Upgrade1 /\ Sequence["none"] = <<>>
  <1>1. PICK a, b, c, d : a = Install1 /\ b = Remove1 /\ c = Upgrade1 /\ d = <<>>
    OBVIOUS
  <1>2. Sequence = [install |-> a, remove |-> b, upgrade |-> c, none |-> d]
    BY <1>1, Zenon DEF Sequence, Install1, Remove1, Upgrade1, AddFiles, AddVoid, RemoveFiles, RemoveVoid
  <1>3. QED
    BY <1>1, <1>2

LEMMA ExpectedIs ==
    /\ Expected["install"] = InstallDone /\ Expected["remove"] = RemoveDone
    /\ Expected["upgrade"] = UpgradeDone /\ Expected["none"] = <<>>
  <1>1. PICK a, b, c, d : a = InstallDone /\ b = RemoveDone /\ c = UpgradeDone /\ d = <<>>
    OBVIOUS
  <1>2. Expected = [install |-> a, remove |-> b, upgrade |-> c, none |-> d]
    BY <1>1, Zenon DEF Expected, InstallDone, RemoveDone, UpgradeDone
  <1>3. QED
    BY <1>1, <1>2

LEMMA AppendTwo == ASSUME NEW S, NEW x \in S, NEW y \in S  PROVE Append(<<x>>, y) = <<x, y>>
  <1>1. <<x>> \in Seq(S) /\ <<x, y>> \in Seq(S) /\ Len(<<x>>) = 1 /\ Len(<<x, y>>) = 2
    OBVIOUS
  <1>2. PICK s \in Seq(S), t \in Seq(S) : s = <<x>> /\ t = <<x, y>>
    BY <1>1
  <1>3. s[1] = x /\ t[1] = x /\ t[2] = y
    BY <1>2
  <1>4. PICK u : u = Append(s, y)
    OBVIOUS
  <1>5. u \in Seq(S) /\ Len(u) = 2 /\ u[1] = x /\ u[2] = y
    BY <1>1, <1>2, <1>3, <1>4
  <1>6. \A k \in 1..Len(u) : u[k] = t[k]
    BY <1>3, <1>5
  <1>7. QED
    BY <1>1, <1>2, <1>4, <1>5, <1>6, SeqEqual

LEMMA AppendThree == ASSUME NEW S, NEW x \in S, NEW y \in S, NEW z \in S  PROVE Append(<<x, y>>, z) = <<x, y, z>>
  <1>1. <<x, y>> \in Seq(S) /\ <<x, y, z>> \in Seq(S) /\ Len(<<x, y>>) = 2 /\ Len(<<x, y, z>>) = 3
    OBVIOUS
  <1>2. PICK s \in Seq(S), t \in Seq(S) : s = <<x, y>> /\ t = <<x, y, z>>
    BY <1>1
  <1>3. s[1] = x /\ s[2] = y /\ t[1] = x /\ t[2] = y /\ t[3] = z
    BY <1>2
  <1>4. PICK u : u = Append(s, z)
    OBVIOUS
  <1>5. u \in Seq(S) /\ Len(u) = 3 /\ u[1] = x /\ u[2] = y /\ u[3] = z
    BY <1>1, <1>2, <1>3, <1>4
  <1>6. \A k \in 1..Len(u) : u[k] = t[k]
    BY <1>3, <1>5
  <1>7. QED
    BY <1>1, <1>2, <1>4, <1>5, <1>6, SeqEqual

LEMMA AppendFour == ASSUME NEW S, NEW x \in S, NEW y \in S, NEW z \in S, NEW v \in S  PROVE Append(<<x, y, z>>, v) = <<x, y, z, v>>
  <1>1. <<x, y, z>> \in Seq(S) /\ <<x, y, z, v>> \in Seq(S) /\ Len(<<x, y, z>>) = 3 /\ Len(<<x, y, z, v>>) = 4
    OBVIOUS
  <1>2. PICK s \in Seq(S), t \in Seq(S) : s = <<x, y, z>> /\ t = <<x, y, z, v>>
    BY <1>1
  <1>3. s[1] = x /\ s[2] = y /\ s[3] = z /\ t[1] = x /\ t[2] = y /\ t[3] = z /\ t[4] = v
    BY <1>2
  <1>4. PICK u : u = Append(s, v)
    OBVIOUS
  <1>5. u \in Seq(S) /\ Len(u) = 4 /\ u[1] = x /\ u[2] = y /\ u[3] = z /\ u[4] = v
    BY <1>1, <1>2, <1>3, <1>4
  <1>6. \A k \in 1..Len(u) : u[k] = t[k]
    BY <1>3, <1>5
  <1>7. QED
    BY <1>1, <1>2, <1>4, <1>5, <1>6, SeqEqual

LEMMA CallsMore ==
    /\ Append(<<>>, "unpack") = Unpack /\ Append(Unpack, "install") = InstallDone
    /\ Append(<<>>, "uninstall") = Uninstall /\ Append(Uninstall, "erase") = RemoveDone
    /\ Append(Uninstall, "unpack") = Replace /\ Append(Replace, "erase") = Replaced
    /\ Append(Replaced, "install") = UpgradeDone
  <1>1. \A x : Append(<<>>, x) = <<x>>
    OBVIOUS
  <1>2. PICK S : S = {"unpack", "install", "uninstall", "erase"}
    OBVIOUS
  <1>3. "unpack" \in S /\ "install" \in S /\ "uninstall" \in S /\ "erase" \in S
    BY <1>2
  <1>4. Append(<<"unpack">>, "install") = <<"unpack", "install">>
    BY <1>3, AppendTwo, Zenon
  <1>5. Append(<<"uninstall">>, "erase") = <<"uninstall", "erase">>
    BY <1>3, AppendTwo, Zenon
  <1>6. Append(<<"uninstall">>, "unpack") = <<"uninstall", "unpack">>
    BY <1>3, AppendTwo, Zenon
  <1>7. Append(<<"uninstall", "unpack">>, "erase") = <<"uninstall", "unpack", "erase">>
    BY <1>3, AppendThree, Zenon
  <1>8. Append(<<"uninstall", "unpack", "erase">>, "install") = <<"uninstall", "unpack", "erase", "install">>
    BY <1>3, AppendFour, Zenon
  <1>9. QED
    BY <1>1, <1>4, <1>5, <1>6, <1>7, <1>8, Zenon DEF Unpack, InstallDone, Uninstall, RemoveDone, Replace, Replaced, UpgradeDone

\* What rpm was asked.
LEMMA Asked ==
    ASSUME NEW t \in Transactions, NEW i \in Ids
    PROVE  /\ t[i].kind \in {"install", "remove", "upgrade", "none"}
           /\ t[i].old \in Held /\ t[i].new \in Held
           /\ t[i].old # Void => t[i].old.id = i /\ Settles(t[i].old)
           /\ t[i].new # Void => t[i].new.id = i
           /\ t[i].kind = "install" => t[i].old = Void /\ t[i].new # Void
           /\ t[i].kind = "remove" => t[i].old # Void /\ t[i].new = Void
           /\ t[i].kind = "upgrade" => t[i].old # Void /\ t[i].new # Void
  <1>1. \A w \in {t[i].old, t[i].new} : w = Void \/ (w \in Widgets /\ w.id = i)
    BY TransactionsAssumption, Zenon
  <1>2. QED
    BY <1>1, TransactionsAssumption DEF Held

ValidFirst(params, k) == \A j \in 1..k : params[j].value \in {"required", "optional"}

\* check_permissions accepts only a widget the values of whose parameters are known, and any of
\* them when every permission can be recorded.
LEMMA PermissionsAccepted ==
    ASSUME NEW w \in Widgets, NEW table \in PermTables, NEW refused
    PROVE  /\ CheckPermissions(table, w, refused).table \in PermTables /\ CheckPermissions(table, w, refused).ok \in BOOLEAN
           /\ CheckPermissions(table, w, refused).ok = TRUE =>
                \A p \in ToSet(w.params) : p.value \in {"required", "optional"}
           /\ refused = {} /\ (\A p \in ToSet(w.params) : p.value \in {"required", "optional"}) =>
                CheckPermissions(table, w, refused).ok = TRUE
  <1>1. PICK params \in Seq([name : WgtPerms, value : STRING]) : params = w.params
    BY DEF Widgets
  <1>2. PICK n \in Nat : DOMAIN params = 1..n
    OBVIOUS
  <1>3. PICK base : base = [ok |-> TRUE, table |-> table]
    OBVIOUS
  <1>4. base \in PermStates /\ base.ok = TRUE /\ ValidFirst(params, 0)
    BY <1>3 DEF PermStates, ValidFirst
  <1>5. PICK f : PermFold(f, base, params, refused) /\ CheckPermissions(table, w, refused) = f[1..n]
    <2>1. PICK f : /\ PermFold(f, [ok |-> TRUE, table |-> table], w.params, refused)
                   /\ CheckPermissions(table, w, refused) = f[DOMAIN w.params]
      BY <1>1, CheckPermissionsIs
    <2>2. QED  BY <1>1, <1>2, <1>3, <2>1
  <1> DEFINE T == {k \in Nat : /\ f[1..k] \in PermStates
                               /\ f[1..k].ok = TRUE => ValidFirst(params, k)
                               /\ refused = {} /\ ValidFirst(params, k) => f[1..k].ok = TRUE}
  <1>6. \A k \in 1..n : f[1..k] = PermStep(f[1..(k - 1)], params[k], refused)
    <2>1. SUFFICES ASSUME NEW k \in 1..n  PROVE f[1..k] = PermStep(f[1..(k - 1)], params[k], refused)
      OBVIOUS
    <2>2. f = [s \in SUBSET (1..n) |-> IF s = {} THEN base ELSE PermStep(f[s \ {Max(s)}], params[Max(s)], refused)]
      BY <1>2, <1>5 DEF PermFold
    <2>3. PICK s \in SUBSET (1..n) : s = 1..k
      BY FirstIndexes
    <2>4. s # {} /\ Max(s) = k /\ s \ {Max(s)} = 1..(k - 1)
      BY <2>3, FirstIndexes
    <2>5. f[s] = PermStep(f[s \ {Max(s)}], params[Max(s)], refused)
      BY <2>2, <2>4
    <2>6. QED  BY <2>3, <2>4, <2>5
  <1>7. f[1..0] = base
    <2>1. f = [s \in SUBSET (1..n) |-> IF s = {} THEN base ELSE PermStep(f[s \ {Max(s)}], params[Max(s)], refused)]
      BY <1>2, <1>5 DEF PermFold
    <2>2. f[{}] = base
      BY <2>1
    <2>3. QED  BY <2>2, FirstIndexes
  <1>8. 0 \in T
    BY <1>4, <1>7
  <1>9. ASSUME NEW k \in 1..n, k - 1 \in T  PROVE k \in T
    <2>1. PICK s \in PermStates : s = f[1..(k - 1)]
      BY <1>9
    <2>2. (s.ok = TRUE => ValidFirst(params, k - 1)) /\ (refused = {} /\ ValidFirst(params, k - 1) => s.ok = TRUE)
      BY <1>9, <2>1
    <2>3. params[k] \in [name : WgtPerms, value : STRING]
      <3>1. PICK R : R = [name : WgtPerms, value : STRING]
        OBVIOUS
      <3>2. params \in Seq(R)
        BY <3>1
      <3>3. k \in DOMAIN params
        BY <1>2
      <3>4. params[k] \in R
        BY <3>2, <3>3
      <3>5. QED  BY <3>1, <3>4
    <2>4. PICK r \in PermStates : r = PermStep(s, params[k], refused)
      BY <2>3, PermStepType
    <2>5. ValidFirst(params, k) <=> ValidFirst(params, k - 1) /\ params[k].value \in {"required", "optional"}
      <3>1. 1..k = (1..(k - 1)) \union {k}
        OBVIOUS
      <3>2. QED  BY <3>1 DEF ValidFirst
    <2>6. s.ok \in BOOLEAN
      BY DEF PermStates
    <2>7. /\ r.ok = TRUE => s.ok = TRUE /\ params[k].value \in {"required", "optional"}
          /\ refused = {} /\ s.ok = TRUE /\ params[k].value \in {"required", "optional"} => r.ok = TRUE
      <3>1. CASE s.ok = FALSE
        BY <2>4, <3>1 DEF PermStep
      <3>2. CASE s.ok = TRUE /\ params[k].value \notin {"required", "optional"}
        <4>1. r = [s EXCEPT !.ok = FALSE]
          BY <2>4, <3>2 DEF PermStep
        <4>2. r.ok = FALSE
          BY <4>1 DEF PermStates
        <4>3. QED  BY <3>2, <4>2
      <3>3. CASE s.ok = TRUE /\ params[k].value \in {"required", "optional"}
        <4>1. refused = {} => r = [ok |-> TRUE, table |-> RequestPermission(s.table, params[k].name)]
          BY <2>4, <3>3 DEF PermStep
        <4>2. refused = {} => r.ok = TRUE
          BY <4>1
        <4>3. QED  BY <3>3, <4>2
      <3>4. QED  BY <2>6, <3>1, <3>2, <3>3
    <2>8. f[1..k] = r
      BY <1>6, <2>1, <2>4
    <2>9. QED  BY <2>2, <2>5, <2>7, <2>8
  <1>10. n \in T
    <2>1. T \in SUBSET Nat
      OBVIOUS
    <2> HIDE DEF T
    <2>2. QED  BY <1>8, <1>9, <2>1, EveryIndex
  <1>11. PICK r \in PermStates : /\ r = CheckPermissions(table, w, refused)
                                 /\ r.ok = TRUE => ValidFirst(params, n)
                                 /\ refused = {} /\ ValidFirst(params, n) => r.ok = TRUE
    BY <1>5, <1>10
  <1>12. r.ok \in BOOLEAN /\ r.table \in PermTables
    BY DEF PermStates
  <1>13. ValidFirst(params, n) <=> \A p \in ToSet(w.params) : p.value \in {"required", "optional"}
    <2>1. ToSet(w.params) = {params[i] : i \in 1..n}
      BY <1>1, <1>2 DEF ToSet
    <2>2. QED  BY <2>1 DEF ValidFirst
  <1>14. QED
    BY <1>11, <1>12, <1>13

----------------------------------------------------------------------------

LEMMA RpmOpGoto ==
    ASSUME op \in RpmOps, NEW x \in {"idle"} \union RemoveSteps \union SetupSteps, op' = [op EXCEPT !.step = x]
    PROVE  op' \in RpmOps /\ op'.step = x /\ op'.kind = op.kind /\ op'.dir = op.dir /\ op'.desc = op.desc
  BY DEF RpmOps

LEMMA RpmOpSet ==
    ASSUME op \in RpmOps, NEW x \in {"idle"} \union RemoveSteps \union SetupSteps, NEW b \in BOOLEAN,
           op' = [op EXCEPT !.step = x, !.ok = b]
    PROVE  op' \in RpmOps /\ op'.step = x /\ op'.kind = op.kind /\ op'.dir = op.dir /\ op'.desc = op.desc
  BY DEF RpmOps

LEMMA RpmOpDesc ==
    ASSUME op \in RpmOps, NEW x \in {"idle"} \union RemoveSteps \union SetupSteps, NEW w \in Held,
           op' = [op EXCEPT !.desc = w, !.step = x] \/ op' = [op EXCEPT !.step = x, !.desc = w]
    PROVE  op' \in RpmOps /\ op'.step = x /\ op'.kind = op.kind /\ op'.dir = op.dir /\ op'.desc = w
  BY DEF RpmOps

LEMMA IdleIs == Idle \in RpmOps /\ Idle.step = "idle" /\ Idle.kind = "none"
  BY DEF Idle, RpmOps, Held

LEMMA RemoveStarts ==
    ASSUME NEW d \in AllDirs, op' = [Idle EXCEPT !.kind = "remove", !.step = "oldinfo", !.dir = d]
    PROVE  op' \in RpmOps /\ op'.kind = "remove" /\ op'.step = "oldinfo" /\ op'.dir = d
  BY DEF Idle, RpmOps, Held, RemoveSteps, SetupSteps

LEMMA RedpeskStarts ==
    ASSUME NEW d \in AllDirs, op' = [Idle EXCEPT !.kind = "redpesk", !.step = "check", !.dir = d]
    PROVE  op' \in RpmOps /\ op'.kind = "redpesk" /\ op'.step = "check" /\ op'.dir = d
  BY DEF Idle, RpmOps, Held, RemoveSteps, SetupSteps

\* What a package that is not worked on keeps.
LEMMA RowsKept ==
    ASSUME NEW j \in Ids, Rows(j), UNCHANGED trans, StageOf(j)' = StageOf(j),
           todo'[j] = todo[j], rpkgs'[j] = rpkgs[j], calls'[j] = calls[j],
           troubles' = 0 => troubles = 0 /\ dirs'[j] = dirs[j],
           troubles' = 0 /\ StageOf(j) \notin {"removing", "installing"} =>
              units'[j] = units[j] /\ icons'[j] = icons[j] /\ rules'[j] = rules[j]
    PROVE  Rows(j)'
  <1>1. \A rest, stages, pkg, did : Row(j, rest, stages, pkg, did) => Row(j, rest, stages, pkg, did)'
    BY DEF Row
  <1>2. (SetUp(j) => SetUp(j)') /\ (There(j) => There(j)')
    BY DEF SetUp, There
  <1>3. StageOf(j) \notin {"removing", "installing"} =>
            /\ Final(j) => Final(j)'
            /\ \A w : Down(j, w) => Down(j, w)'
    BY DEF Final, Down
  <1>5. \A rest, stages, pkg, did :
            Row(j, rest, stages, pkg, did) /\ "removing" \notin stages /\ "installing" \notin stages =>
               StageOf(j) \notin {"removing", "installing"}
    BY DEF Row
  <1>7. CASE trans[j].kind = "install"
    BY <1>1, <1>2, <1>3, <1>5, <1>7 DEF Rows, InstallRows, Waiting, Passing
  <1>8. CASE trans[j].kind = "remove"
    BY <1>1, <1>2, <1>3, <1>5, <1>8 DEF Rows, RemoveRows, Waiting, Passing
  <1>9. CASE trans[j].kind = "upgrade"
    BY <1>1, <1>2, <1>3, <1>5, <1>9 DEF Rows, UpgradeRows, Waiting, Passing
  <1>10. CASE trans[j].kind = "none"
    BY <1>1, <1>10 DEF Rows
  <1>11. QED
    BY <1>7, <1>8, <1>9, <1>10 DEF Rows

RpmSteps == {"idle"} \union RemoveSteps \union SetupSteps

LEMMA RpmFacts ==
    ASSUME RpmInv
    PROVE  /\ RpmTypeOK /\ InProgress /\ TransactionDone
           /\ current.stage # "end" => \A i \in Ids : Rows(i)
           /\ op \in RpmOps /\ op.kind \in {"none", "remove", "redpesk"} /\ op.step \in RpmSteps
           /\ op.dir \in AllDirs \union {Void} /\ op.desc \in Held
           /\ current.pkg \in Ids \union {Void} /\ current.stage \in Stages
  <1>1. RpmTypeOK /\ InProgress
    BY DEF RpmInv
  <1>2. op \in RpmOps /\ current \in [pkg : Ids \union {Void}, stage : Stages]
    BY <1>1 DEF RpmTypeOK
  <1>3. op.kind \in {"none", "remove", "redpesk"} /\ op.step \in RpmSteps /\ op.dir \in AllDirs \union {Void} /\ op.desc \in Held
    BY <1>2 DEF RpmOps, RpmSteps
  <1>4. QED
    BY <1>1, <1>2, <1>3 DEF RpmInv

\* The package that uninstall_redpesk or install_redpesk works on.
LEMMA Busy ==
    ASSUME RpmInv, op.step # "idle"
    PROVE  /\ current.pkg \in Ids /\ current.pkg # Void
           /\ trans[current.pkg].old \in Held /\ trans[current.pkg].new \in Held
           /\ \/ /\ current.stage = "removing" /\ op.kind = "remove" /\ op.dir = current.pkg /\ op.step \in RemoveSteps
                 /\ SetUp(current.pkg)
                 /\ trans[current.pkg].old # Void /\ trans[current.pkg].old.id = current.pkg /\ WgtInfo(trans[current.pkg].old)
              \/ /\ current.stage = "installing" /\ op.kind = "redpesk" /\ op.step \in SetupSteps /\ There(current.pkg)
                 /\ trans[current.pkg].new # Void /\ trans[current.pkg].new.id = current.pkg
  <1>1. current.stage \in {"removing", "installing"}
    BY RpmFacts, IdleIs DEF InProgress
  <1>2. PICK i \in Ids : i = current.pkg
    BY <1>1, RpmFacts DEF RpmTypeOK
  <1>3. StageOf(i) = current.stage /\ Rows(i)
    BY <1>1, <1>2, RpmFacts DEF StageOf
  <1>4. trans \in Transactions
    BY RpmFacts DEF RpmTypeOK
  <1>5. CASE current.stage = "removing"
    <2>1. SetUp(i) /\ trans[i].kind \in {"remove", "upgrade"}
      BY <1>3, <1>5 DEF Rows, InstallRows, RemoveRows, UpgradeRows, Row, Waiting, Passing
    <2>2. trans[i].old # Void /\ trans[i].old.id = i /\ Settles(trans[i].old)
      BY <1>4, <2>1, Asked
    <2>3. WgtInfo(trans[i].old)
      BY <2>2 DEF Settles, Accepted
    <2>4. QED
      BY <1>2, <1>4, <1>5, <2>1, <2>2, <2>3, RpmFacts, Asked, VoidAssumption DEF InProgress, AllDirs
  <1>6. CASE current.stage = "installing"
    <2>1. There(i) /\ trans[i].kind \in {"install", "upgrade"}
      BY <1>3, <1>6 DEF Rows, InstallRows, RemoveRows, UpgradeRows, Row, Waiting, Passing
    <2>2. trans[i].new # Void /\ trans[i].new.id = i
      BY <1>4, <2>1, Asked
    <2>3. QED
      BY <1>2, <1>4, <1>6, <2>1, <2>2, RpmFacts, Asked, VoidAssumption DEF InProgress, AllDirs
  <1>7. QED
    BY <1>1, <1>5, <1>6

\* A step of uninstall_redpesk or of install_redpesk.
LEMMA WidgetKeeps ==
    ASSUME RpmInv, op.step # "idle", UNCHANGED <<rpmVars, dirs>>, workdir' = workdir,
           op' \in RpmOps, units' \in Tables, icons' \in Tables, rules' = [j \in Ids |-> rules'[j]],
           perms' \in PermTables, troubles' \in Nat, op'.kind = op.kind, op'.dir = op.dir,
           current.stage = "removing" => op'.step \in RemoveSteps /\ (troubles' = 0 => Removal(current.pkg)'),
           current.stage = "installing" => op'.step \in SetupSteps /\ (troubles' = 0 => Setup(current.pkg)'),
           troubles' = 0 => /\ troubles = 0
                            /\ \A j \in Ids : j # current.pkg => units'[j] = units[j] /\ icons'[j] = icons[j] /\ rules'[j] = rules[j]
    PROVE  RpmInv'
  <1>1. UNCHANGED <<rpkgs, todo, current, trans, calls>>
    BY DEF rpmVars
  <1>2. current.stage \in {"removing", "installing"} /\ current.pkg \in Ids
    BY Busy
  <1>3. RpmTypeOK'
    BY <1>1, RpmFacts DEF RpmTypeOK
  <1>4. InProgress'
    BY <1>1, <1>2, Busy DEF InProgress
  <1>5. ASSUME NEW j \in Ids  PROVE Rows(j)'
    <2>1. Rows(j)
      BY <1>2, RpmFacts
    <2>2. StageOf(j)' = StageOf(j)
      BY <1>1 DEF StageOf
    <2>3. StageOf(j) \notin {"removing", "installing"} => j # current.pkg
      BY <1>2 DEF StageOf
    <2>4. QED
      BY <1>1, <2>1, <2>2, <2>3, RowsKept
  <1>6. TransactionDone'
    BY <1>1, <1>2 DEF TransactionDone
  <1>7. QED
    BY <1>3, <1>4, <1>5, <1>6 DEF RpmInv

LEMMA TroublesNat ==
    ASSUME RpmInv, Trouble \/ Fine
    PROVE  troubles' \in Nat /\ (troubles' = 0 => troubles = 0 /\ Fine) /\ (Trouble => troubles' # 0)
  BY RpmFacts DEF RpmTypeOK, Trouble, Fine

LEMMA StepNames ==
    /\ RemoveSteps \subseteq RpmSteps /\ SetupSteps \subseteq RpmSteps /\ "idle" \notin RemoveSteps \union SetupSteps
    /\ {"oldinfo", "oldunits", "oldicon", "oldrules", "end", "dead"} \subseteq RemoveSteps
    /\ {"check", "icon", "rules", "modes", "units", "end", "dead"} \subseteq SetupSteps
  BY DEF RpmSteps, RemoveSteps, SetupSteps

LEMMA RpmDie == ASSUME RpmInv, UNCHANGED rpmVars, Die  PROVE RpmInv'
  <1>1. op.step # "idle" /\ Trouble /\ op' = [op EXCEPT !.step = "dead"]
        /\ UNCHANGED <<dirs, icons, units, rules, workdir, perms>>
    BY DEF Die, Goto
  <1>2. op' \in RpmOps /\ op'.step = "dead" /\ op'.kind = op.kind /\ op'.dir = op.dir
    BY <1>1, RpmFacts, StepNames, RpmOpGoto DEF RpmSteps
  <1>3. troubles' \in Nat /\ troubles' # 0
    BY <1>1, TroublesNat
  <1>4. units' \in Tables /\ icons' \in Tables /\ rules' = [j \in Ids |-> rules'[j]] /\ perms' \in PermTables
    BY <1>1, RpmFacts DEF RpmTypeOK
  <1>5. QED
    BY <1>1, <1>2, <1>3, <1>4, StepNames, WidgetKeeps

\* The steps of uninstall_redpesk are those of a removal.
LEMMA RemoveStep ==
    ASSUME RpmInv, NEW kinds, NEW step, "none" \notin kinds, "redpesk" \notin kinds, At(kinds, step)
    PROVE  /\ "remove" \in kinds /\ current.stage = "removing" /\ op.kind = "remove" /\ op.dir = current.pkg
           /\ op.step = step /\ op.step # "idle"
           /\ troubles = 0 => Removal(current.pkg) /\ dirs[current.pkg] = trans[current.pkg].old
  <1>1. op.kind = "remove" /\ op.step = step
    BY RpmFacts DEF At
  <1>2. op.step # "idle"
    <2>1. Idle.kind # "remove"
      BY IdleIs
    <2>2. op # Idle
      BY <1>1, <2>1
    <2>3. current.stage \in {"removing", "installing"}
      BY <2>2, RpmFacts DEF InProgress
    <2>4. QED
      BY <2>3, RpmFacts, StepNames DEF InProgress
  <1>3. current.stage = "removing" /\ op.dir = current.pkg /\ SetUp(current.pkg)
    BY <1>1, <1>2, Busy
  <1>4. QED
    BY <1>1, <1>2, <1>3, RpmFacts DEF InProgress, SetUp, At

LEMMA SetupStep ==
    ASSUME RpmInv, NEW kinds, NEW step, "none" \notin kinds, "remove" \notin kinds, At(kinds, step)
    PROVE  /\ "redpesk" \in kinds /\ current.stage = "installing" /\ op.kind = "redpesk"
           /\ op.step = step /\ op.step # "idle"
           /\ troubles = 0 => Setup(current.pkg) /\ dirs[current.pkg] = trans[current.pkg].new
  <1>1. op.kind = "redpesk" /\ op.step = step
    BY RpmFacts DEF At
  <1>2. op.step # "idle"
    <2>1. Idle.kind # "redpesk"
      BY IdleIs
    <2>2. op # Idle
      BY <1>1, <2>1
    <2>3. current.stage \in {"removing", "installing"}
      BY <2>2, RpmFacts DEF InProgress
    <2>4. QED
      BY <2>3, RpmFacts, StepNames DEF InProgress
  <1>3. current.stage = "installing" /\ There(current.pkg)
    BY <1>1, <1>2, Busy
  <1>4. QED
    BY <1>1, <1>2, <1>3, RpmFacts DEF InProgress, There, At

\* What no step of them does: install_widget is not in progress.
LEMMA NoInstall ==
    ASSUME RpmInv, NEW step, At({"install"}, step)  PROVE FALSE
  BY RpmFacts DEF At

----------------------------------------------------------------------------
LEMMA RpmOldInfo == ASSUME RpmInv, UNCHANGED rpmVars, OldInfo  PROVE RpmInv'
  <1>1. /\ current.stage = "removing" /\ op.kind = "remove" /\ op.dir = current.pkg
        /\ op.step = "oldinfo" /\ op.step # "idle"
        /\ troubles = 0 => Removal(current.pkg) /\ dirs[current.pkg] = trans[current.pkg].old
    BY RemoveStep DEF OldInfo
  <1>2. UNCHANGED <<dirs, icons, units, rules, workdir, perms, current, trans>>
    BY DEF OldInfo, rpmVars
  <1>3. units' \in Tables /\ icons' \in Tables /\ rules' = [j \in Ids |-> rules'[j]] /\ perms' \in PermTables
    BY <1>2, RpmFacts DEF RpmTypeOK
  <1>4. current.pkg \in Ids /\ WgtInfo(trans[current.pkg].old)
    BY <1>1, Busy
  <1>5. PICK old \in Held : old = dirs[op.dir]
    BY <1>1, <1>4, RpmFacts DEF RpmTypeOK, Disks, AllDirs
  <1>6. CASE Fine /\ op' = [op EXCEPT !.step = "oldunits", !.desc = old]
    <2>1. op' \in RpmOps /\ op'.step = "oldunits" /\ op'.kind = op.kind /\ op'.dir = op.dir /\ op'.desc = old
      BY <1>6, RpmFacts, StepNames, RpmOpDesc DEF RpmSteps
    <2>2. troubles' \in Nat /\ (troubles' = 0 => troubles = 0)
      BY <1>6, TroublesNat
    <2>3. troubles' = 0 => Removal(current.pkg)'
      BY <1>1, <1>2, <1>5, <2>1, <2>2 DEF Removal
    <2>4. QED
      BY <1>1, <1>2, <1>3, <2>1, <2>2, <2>3, StepNames, WidgetKeeps
  <1>7. CASE (IF WgtInfo(old) THEN Trouble ELSE Fine) /\ \E b \in BOOLEAN : op' = [op EXCEPT !.step = "end", !.ok = b]
    <2>1. op' \in RpmOps /\ op'.step = "end" /\ op'.kind = op.kind /\ op'.dir = op.dir
      BY <1>7, RpmFacts, StepNames, RpmOpSet DEF RpmSteps
    <2>2. troubles' \in Nat /\ (troubles' = 0 => troubles = 0 /\ Fine) /\ (Trouble => troubles' # 0)
      BY <1>7, TroublesNat
    <2>3. troubles' # 0
      BY <1>1, <1>4, <1>5, <1>7, <2>2
    <2>4. QED
      BY <1>1, <1>2, <1>3, <2>1, <2>2, <2>3, StepNames, WidgetKeeps
  <1>8. QED
    <2>1. PICK b \in BOOLEAN : b = (op.kind = "install")
      OBVIOUS
    <2>2. \/ Fine /\ op' = [op EXCEPT !.step = "oldunits", !.desc = old]
          \/ (IF WgtInfo(old) THEN Trouble ELSE Fine) /\ op' = [op EXCEPT !.step = "end", !.ok = b]
      BY <1>1, <1>5, <2>1 DEF OldInfo
    <2>3. QED
      BY <1>6, <1>7, <2>2

\* The tables, changed at one identifier or not at all.
LEMMA UnitsSet ==
    ASSUME RpmInv, NEW x, NEW w \in Held, units' = [units EXCEPT ![x] = w]
    PROVE  units' \in Tables /\ \A j \in Ids : units'[j] = IF j = x THEN w ELSE units[j]
  BY RpmFacts DEF RpmTypeOK, Tables

LEMMA IconsSet ==
    ASSUME RpmInv, NEW x, NEW w \in Held, icons' = [icons EXCEPT ![x] = w]
    PROVE  icons' \in Tables /\ \A j \in Ids : icons'[j] = IF j = x THEN w ELSE icons[j]
  BY RpmFacts DEF RpmTypeOK, Tables

LEMMA RulesSet ==
    ASSUME RpmInv, NEW x, NEW v, rules' = [rules EXCEPT ![x] = v]
    PROVE  /\ rules' = [j \in Ids |-> rules'[j]]
           /\ \A j \in Ids : rules'[j] = IF j = x THEN v ELSE rules[j]
  <1>1. PICK r : r = rules
    OBVIOUS
  <1>2. r = [j \in Ids |-> r[j]]
    BY <1>1, RpmFacts DEF RpmTypeOK
  <1>3. [r EXCEPT ![x] = v] = [j \in Ids |-> [r EXCEPT ![x] = v][j]] /\ \A j \in Ids : [r EXCEPT ![x] = v][j] = IF j = x THEN v ELSE r[j]
    BY <1>2
  <1>4. QED
    BY <1>1, <1>3

LEMMA RpmSame ==
    ASSUME RpmInv
    PROVE  /\ units' = units => units' \in Tables
           /\ icons' = icons => icons' \in Tables
           /\ rules' = rules => rules' = [j \in Ids |-> rules'[j]]
           /\ perms' = perms => perms' \in PermTables
  BY RpmFacts DEF RpmTypeOK

LEMMA VoidHeld == Void \in Held
  BY DEF Held

LEMMA RpmSetdownUnits == ASSUME RpmInv, UNCHANGED rpmVars, SetdownUnits  PROVE RpmInv'
  <1>1. /\ current.stage = "removing" /\ op.kind = "remove" /\ op.dir = current.pkg
        /\ op.step = "oldunits" /\ op.step # "idle"
        /\ troubles = 0 => Removal(current.pkg) /\ dirs[current.pkg] = trans[current.pkg].old
    BY RemoveStep DEF SetdownUnits
  <1>2. UNCHANGED <<dirs, icons, rules, workdir, perms, current, trans>> /\ op' = [op EXCEPT !.step = "oldicon"]
    BY DEF SetdownUnits, rpmVars, Goto
  <1>3. current.pkg \in Ids /\ trans[current.pkg].old.id = current.pkg
    BY <1>1, Busy
  <1>4. op' \in RpmOps /\ op'.step = "oldicon" /\ op'.kind = op.kind /\ op'.dir = op.dir /\ op'.desc = op.desc
    BY <1>2, RpmFacts, StepNames, RpmOpGoto DEF RpmSteps
  <1>5. CASE Fine /\ units' = [units EXCEPT ![op.desc.id] = Void]
    <2>1. units' \in Tables /\ \A j \in Ids : units'[j] = IF j = op.desc.id THEN Void ELSE units[j]
      BY <1>5, UnitsSet, VoidHeld
    <2>2. troubles' \in Nat /\ (troubles' = 0 => troubles = 0)
      BY <1>5, TroublesNat
    <2>3. troubles' = 0 => op.desc = trans[current.pkg].old /\ op.desc.id = current.pkg
      BY <1>1, <1>3, <2>2 DEF Removal
    <2>4. troubles' = 0 => Removal(current.pkg)'
      BY <1>1, <1>2, <1>3, <1>4, <2>1, <2>3 DEF Removal
    <2>5. QED
      BY <1>1, <1>2, <1>4, <2>1, <2>2, <2>3, <2>4, RpmSame, StepNames, WidgetKeeps
  <1>6. CASE Trouble /\ UNCHANGED units
    <2>1. troubles' \in Nat /\ troubles' # 0
      BY <1>6, TroublesNat
    <2>2. QED
      BY <1>1, <1>2, <1>4, <1>6, <2>1, RpmSame, StepNames, WidgetKeeps
  <1>7. QED
    BY <1>5, <1>6 DEF SetdownUnits

LEMMA RpmSetdownIcon == ASSUME RpmInv, UNCHANGED rpmVars, SetdownIcon  PROVE RpmInv'
  <1>1. /\ current.stage = "removing" /\ op.kind = "remove" /\ op.dir = current.pkg
        /\ op.step = "oldicon" /\ op.step # "idle"
        /\ troubles = 0 => Removal(current.pkg) /\ dirs[current.pkg] = trans[current.pkg].old
    BY RemoveStep DEF SetdownIcon
  <1>2. UNCHANGED <<dirs, units, rules, workdir, perms, current, trans>>
    BY DEF SetdownIcon, rpmVars
  <1>3. current.pkg \in Ids /\ trans[current.pkg].old.id = current.pkg
    BY <1>1, Busy
  <1>4. CASE Fine /\ icons' = [icons EXCEPT ![op.desc.id] = Void] /\ op' = [op EXCEPT !.step = "oldrules"]
    <2>1. icons' \in Tables /\ \A j \in Ids : icons'[j] = IF j = op.desc.id THEN Void ELSE icons[j]
      BY <1>4, IconsSet, VoidHeld
    <2>2. troubles' \in Nat /\ (troubles' = 0 => troubles = 0)
      BY <1>4, TroublesNat
    <2>3. op' \in RpmOps /\ op'.step = "oldrules" /\ op'.kind = op.kind /\ op'.dir = op.dir /\ op'.desc = op.desc
      BY <1>4, RpmFacts, StepNames, RpmOpGoto DEF RpmSteps
    <2>4. troubles' = 0 => op.desc = trans[current.pkg].old /\ op.desc.id = current.pkg
      BY <1>1, <1>3, <2>2 DEF Removal
    <2>5. troubles' = 0 => Removal(current.pkg)'
      BY <1>1, <1>2, <1>3, <2>1, <2>2, <2>3, <2>4 DEF Removal
    <2>6. QED
      BY <1>1, <1>2, <2>1, <2>2, <2>3, <2>4, <2>5, RpmSame, StepNames, WidgetKeeps
  <1>5. CASE Trouble /\ AfterSetdown /\ UNCHANGED icons
    <2>1. troubles' \in Nat /\ troubles' # 0
      BY <1>5, TroublesNat
    <2>2. op' = [op EXCEPT !.step = "end", !.ok = TRUE]
      BY <1>1, <1>5 DEF AfterSetdown
    <2>3. op' \in RpmOps /\ op'.step = "end" /\ op'.kind = op.kind /\ op'.dir = op.dir
      BY <2>2, RpmFacts, StepNames, RpmOpSet DEF RpmSteps
    <2>4. QED
      BY <1>1, <1>2, <1>5, <2>1, <2>3, RpmSame, StepNames, WidgetKeeps
  <1>6. QED
    BY <1>4, <1>5 DEF SetdownIcon, Goto

LEMMA RpmSetdownSecurity == ASSUME RpmInv, UNCHANGED rpmVars, SetdownSecurity  PROVE RpmInv'
  <1>1. /\ current.stage = "removing" /\ op.kind = "remove" /\ op.dir = current.pkg
        /\ op.step = "oldrules" /\ op.step # "idle"
        /\ troubles = 0 => Removal(current.pkg) /\ dirs[current.pkg] = trans[current.pkg].old
    BY RemoveStep DEF SetdownSecurity
  <1>2. UNCHANGED <<dirs, units, icons, workdir, perms, current, trans>>
    BY DEF SetdownSecurity, rpmVars
  <1>3. op' = [op EXCEPT !.step = "end", !.ok = TRUE]
    BY <1>1 DEF SetdownSecurity, AfterSetdown
  <1>4. op' \in RpmOps /\ op'.step = "end" /\ op'.kind = op.kind /\ op'.dir = op.dir
    BY <1>3, RpmFacts, StepNames, RpmOpSet DEF RpmSteps
  <1>5. current.pkg \in Ids /\ trans[current.pkg].old.id = current.pkg
    BY <1>1, Busy
  <1>6. CASE Fine /\ rules' = [rules EXCEPT ![op.desc.id] = Void]
    <2>1. /\ rules' = [j \in Ids |-> rules'[j]]
          /\ \A j \in Ids : rules'[j] = IF j = op.desc.id THEN Void ELSE rules[j]
      BY <1>6, RulesSet
    <2>2. troubles' \in Nat /\ (troubles' = 0 => troubles = 0)
      BY <1>6, TroublesNat
    <2>3. troubles' = 0 => op.desc = trans[current.pkg].old /\ op.desc.id = current.pkg
      BY <1>1, <1>5, <2>2 DEF Removal
    <2>4. troubles' = 0 => Removal(current.pkg)'
      <3>1. SUFFICES ASSUME troubles' = 0  PROVE Removal(current.pkg)'
        OBVIOUS
      <3>2. units[current.pkg] = Void /\ icons[current.pkg] = Void
        BY <1>1, <2>2, <3>1 DEF Removal
      <3>3. rules'[current.pkg] = Void
        BY <1>5, <2>1, <2>3, <3>1
      <3>4. QED
        BY <1>2, <1>4, <3>2, <3>3 DEF Removal
    <2>5. QED
      BY <1>1, <1>2, <1>4, <2>1, <2>2, <2>3, <2>4, RpmSame, StepNames, WidgetKeeps
  <1>7. CASE Trouble /\ UNCHANGED rules
    <2>1. troubles' \in Nat /\ troubles' # 0
      BY <1>7, TroublesNat
    <2>2. QED
      BY <1>1, <1>2, <1>4, <1>7, <2>1, RpmSame, StepNames, WidgetKeeps
  <1>8. QED
    BY <1>6, <1>7 DEF SetdownSecurity

----------------------------------------------------------------------------
\* install_redpesk ends on an error.
LEMMA RpmFails ==
    ASSUME RpmInv, FailTo, op.kind = "redpesk"
    PROVE  op' \in RpmOps /\ op'.step = "end" /\ op'.kind = op.kind /\ op'.dir = op.dir
  <1>1. op' = [op EXCEPT !.step = "end", !.ok = FALSE]
    BY DEF FailTo, Finish
  <1>2. QED
    BY <1>1, RpmFacts, StepNames, RpmOpSet DEF RpmSteps

\* Such an end, with the units that the package is to have.
LEMMA SetupEnds ==
    ASSUME RpmInv, UNCHANGED rpmVars, current.stage = "installing", op.step # "idle",
           UNCHANGED <<dirs, workdir, icons, units, rules>>, perms' \in PermTables,
           FailTo, Trouble \/ Fine,
           Fine /\ troubles = 0 => units[current.pkg] = Wanted(trans[current.pkg].new)
    PROVE  RpmInv'
  <1>1. op.kind = "redpesk" /\ current.pkg \in Ids
    BY Busy
  <1>2. op' \in RpmOps /\ op'.step = "end" /\ op'.kind = op.kind /\ op'.dir = op.dir
    BY <1>1, RpmFails
  <1>3. troubles' \in Nat /\ (troubles' = 0 => troubles = 0 /\ Fine)
    BY TroublesNat
  <1>4. troubles' = 0 => Setup(current.pkg)'
    <2>1. SUFFICES ASSUME troubles' = 0  PROVE Setup(current.pkg)'
      OBVIOUS
    <2>2. units'[current.pkg] = Wanted(trans[current.pkg].new)
      BY <1>3, <2>1
    <2>3. QED
      BY <1>2, <2>2 DEF Setup, rpmVars
  <1>5. QED
    BY <1>1, <1>2, <1>3, <1>4, RpmSame, StepNames, WidgetKeeps

LEMMA RpmInfoDescCheck == ASSUME RpmInv, UNCHANGED rpmVars, InfoDescCheck  PROVE RpmInv'
  <1>1. /\ current.stage = "installing" /\ op.kind = "redpesk" /\ op.step = "check" /\ op.step # "idle"
        /\ troubles = 0 => Setup(current.pkg) /\ dirs[current.pkg] = trans[current.pkg].new
    BY SetupStep DEF InfoDescCheck
  <1>2. UNCHANGED <<dirs, icons, units, rules, workdir, current, trans>>
    BY DEF InfoDescCheck, rpmVars
  <1>3. PICK w \in Held : w = IF workdir = Void THEN Void ELSE dirs[workdir]
    BY VoidHeld, RpmFacts DEF RpmTypeOK, Disks
  <1>4. PICK table \in PermTables : table = ResetRequested(perms)
    BY RpmFacts, ResetType DEF RpmTypeOK
  <1>5. current.pkg \in Ids /\ current.pkg # Void /\ trans[current.pkg].new # Void
    BY <1>1, Busy
  <1>6. troubles = 0 => w = trans[current.pkg].new /\ units[current.pkg] = Void
    BY <1>1, <1>3, <1>5 DEF Setup
  <1>7. WgtInfo(w) => w \in Widgets
    BY DEF WgtInfo, Held
  <1>8. Fine => ~Trouble
    BY RpmFacts DEF RpmTypeOK, Fine, Trouble
  <1>9. ASSUME FailTo, perms' \in PermTables, Trouble \/ Fine, Fine => ~Accepted(w)  PROVE RpmInv'
    <2>1. ~Accepted(w) => Wanted(w) = Void
      BY DEF Wanted, Settles
    <2>2. Fine /\ troubles = 0 => units[current.pkg] = Wanted(trans[current.pkg].new)
      BY <1>6, <1>9, <2>1
    <2>3. QED
      BY <1>1, <1>2, <1>9, <2>2, SetupEnds
  <1>10. CASE (IF WgtInfo(w) /\ SignaturesValid(w) THEN Trouble ELSE Fine) /\ FailTo /\ UNCHANGED perms
    <2>1. Trouble \/ Fine
      BY <1>10
    <2>2. Fine => ~Accepted(w)
      BY <1>8, <1>10 DEF Accepted
    <2>3. QED  BY <1>9, <1>10, <2>1, <2>2, RpmSame
  <1>11. CASE /\ WgtInfo(w) /\ SignaturesValid(w)
              /\ \E refused \in SUBSET {p \in Asks(w) : ~perms[p].granted} :
                    LET asked == CheckPermissions(table, w, refused)
                    IN  /\ IF refused = {} THEN Fine ELSE Trouble
                        /\ denied' = refused
                        /\ perms' = IF CheckTemporaryConstraints(w) THEN asked.table ELSE table
                        /\ IF CheckTemporaryConstraints(w) /\ asked.ok /\ CheckContent(w)
                           THEN /\ op' = [op EXCEPT !.desc = w,
                                                     !.step = IF op.kind = "install" THEN "target" ELSE "icon"]
                                /\ UNCHANGED files
                           ELSE FailTo
    <2>1. PICK refused, asked :
             /\ asked = CheckPermissions(table, w, refused)
             /\ IF refused = {} THEN Fine ELSE Trouble
             /\ perms' = IF CheckTemporaryConstraints(w) THEN asked.table ELSE table
             /\ IF CheckTemporaryConstraints(w) /\ asked.ok /\ CheckContent(w)
                THEN op' = [op EXCEPT !.desc = w, !.step = IF op.kind = "install" THEN "target" ELSE "icon"]
                ELSE FailTo
      BY <1>11, Zenon
    <2>2. /\ asked.table \in PermTables /\ asked.ok \in BOOLEAN
          /\ asked.ok = TRUE => \A p \in ToSet(w.params) : p.value \in {"required", "optional"}
          /\ refused = {} /\ (\A p \in ToSet(w.params) : p.value \in {"required", "optional"}) => asked.ok = TRUE
      <3>1. w \in Widgets
        BY <1>7, <1>11
      <3>2. QED  BY <2>1, <3>1, PermissionsAccepted
    <2>3. perms' \in PermTables
      BY <2>1, <2>2
    <2>4. Trouble \/ Fine
      BY <2>1
    <2>5. CASE CheckTemporaryConstraints(w) /\ asked.ok /\ CheckContent(w)
      <3>1. op' = [op EXCEPT !.desc = w, !.step = "icon"]
        <4>1. (IF op.kind = "install" THEN "target" ELSE "icon") = "icon"
          BY <1>1
        <4>2. QED  BY <2>1, <2>5, <4>1, Zenon
      <3>2. op' \in RpmOps /\ op'.step = "icon" /\ op'.kind = op.kind /\ op'.dir = op.dir /\ op'.desc = w
        BY <3>1, RpmFacts, StepNames, RpmOpDesc DEF RpmSteps
      <3>3. troubles' \in Nat /\ (troubles' = 0 => troubles = 0)
        BY <2>4, TroublesNat
      <3>4. Accepted(w)
        <4>1. asked.ok = TRUE
          BY <2>2, <2>5
        <4>2. QED  BY <1>11, <2>2, <2>5, <4>1 DEF Accepted
      <3>5. troubles' = 0 => Setup(current.pkg)'
        BY <1>2, <1>6, <3>2, <3>3, <3>4 DEF Setup
      <3>6. QED
        BY <1>1, <1>2, <2>3, <3>2, <3>3, <3>5, RpmSame, StepNames, WidgetKeeps
    <2>6. CASE ~(CheckTemporaryConstraints(w) /\ asked.ok /\ CheckContent(w))
      <3>1. Fine => refused = {}
        BY <1>8, <2>1
      <3>2. refused = {} /\ Accepted(w) => CheckTemporaryConstraints(w) /\ CheckContent(w) /\ asked.ok = TRUE
        BY <2>2 DEF Accepted
      <3>3. FailTo
        BY <2>1, <2>6, Zenon
      <3>4. QED  BY <1>9, <2>3, <2>4, <2>6, <3>1, <3>2, <3>3
    <2>7. QED  BY <2>5, <2>6
  <1>12. QED
    BY <1>3, <1>4, <1>10, <1>11, Zenon DEF InfoDescCheck

\* A step of install_redpesk that goes on.
LEMMA SetupGoes ==
    ASSUME RpmInv, UNCHANGED rpmVars, current.stage = "installing", op.step \in {"icon", "rules", "modes"},
           UNCHANGED <<dirs, workdir, units, perms>>, Fine,
           NEW x \in {"rules", "modes", "units"}, op' = [op EXCEPT !.step = x],
           x = "units" /\ troubles = 0 => trans[current.pkg].new.props,
           icons' \in Tables, rules' = [j \in Ids |-> rules'[j]],
           troubles = 0 => \A j \in Ids : j # current.pkg => icons'[j] = icons[j] /\ rules'[j] = rules[j]
    PROVE  RpmInv'
  <1>1. op.step # "idle"
    OBVIOUS
  <1>2. op' \in RpmOps /\ op'.step = x /\ op'.kind = op.kind /\ op'.dir = op.dir /\ op'.desc = op.desc
    BY RpmFacts, StepNames, RpmOpGoto DEF RpmSteps
  <1>3. troubles' \in Nat /\ (troubles' = 0 => troubles = 0)
    BY TroublesNat
  <1>4. troubles = 0 => Setup(current.pkg)
    BY RpmFacts DEF InProgress
  <1>5. troubles' = 0 => Setup(current.pkg)'
    BY <1>2, <1>3, <1>4 DEF Setup, rpmVars
  <1>6. x \in SetupSteps
    BY StepNames
  <1>7. QED
    BY <1>1, <1>2, <1>3, <1>5, <1>6, RpmSame, WidgetKeeps

LEMMA SetupDesc ==
    ASSUME RpmInv, current.stage = "installing", op.step \in {"icon", "rules", "modes", "units"}
    PROVE  /\ current.pkg \in Ids /\ trans[current.pkg].new # Void
           /\ troubles = 0 => /\ op.desc = trans[current.pkg].new /\ op.desc.id = current.pkg
                              /\ Accepted(trans[current.pkg].new) /\ units[current.pkg] = Void
  BY Busy, RpmFacts DEF InProgress, Setup

LEMMA RpmInstallIcon == ASSUME RpmInv, UNCHANGED rpmVars, InstallIcon  PROVE RpmInv'
  <1>1. current.stage = "installing" /\ op.kind = "redpesk" /\ op.step = "icon" /\ op.step # "idle"
    BY SetupStep DEF InstallIcon
  <1>2. UNCHANGED <<dirs, units, rules, workdir, perms>>
    BY DEF InstallIcon
  <1>3. CASE Fine /\ op' = [op EXCEPT !.step = "rules"]
             /\ icons' = IF op.desc.icon = <<>> THEN icons ELSE [icons EXCEPT ![op.desc.id] = op.desc]
    <2>1. op.desc \in Held
      BY RpmFacts
    <2>2. icons' \in Tables /\ \A j \in Ids : j # op.desc.id => icons'[j] = icons[j]
      <3>1. CASE icons' = icons
        BY <3>1, RpmSame
      <3>2. CASE icons' = [icons EXCEPT ![op.desc.id] = op.desc]
        <4>1. icons' \in Tables /\ \A j \in Ids : icons'[j] = IF j = op.desc.id THEN op.desc ELSE icons[j]
          BY <2>1, <3>2, IconsSet
        <4>2. QED  BY <4>1
      <3>3. QED  BY <1>3, <3>1, <3>2
    <2>3. troubles = 0 => op.desc.id = current.pkg
      BY <1>1, SetupDesc
    <2>4. QED
      BY <1>1, <1>2, <1>3, <2>2, <2>3, RpmSame, SetupGoes
  <1>4. CASE Trouble /\ FailTo /\ UNCHANGED icons
    <2>1. ~Fine
      BY <1>4, RpmFacts DEF RpmTypeOK, Fine, Trouble
    <2>2. QED
      BY <1>1, <1>2, <1>4, <2>1, RpmSame, SetupEnds
  <1>5. QED
    BY <1>3, <1>4 DEF InstallIcon, Goto

LEMMA RpmInstallSecurity == ASSUME RpmInv, UNCHANGED rpmVars, InstallSecurity  PROVE RpmInv'
  <1>1. current.stage = "installing" /\ op.kind = "redpesk" /\ op.step = "rules" /\ op.step # "idle"
    BY SetupStep DEF InstallSecurity
  <1>2. UNCHANGED <<dirs, units, icons, workdir, perms>>
    BY DEF InstallSecurity
  <1>3. CASE Fine /\ op' = [op EXCEPT !.step = "modes"] /\ \E v : rules' = [rules EXCEPT ![op.desc.id] = v]
    <2>1. rules' = [j \in Ids |-> rules'[j]] /\ \A j \in Ids : j # op.desc.id => rules'[j] = rules[j]
      <3>1. PICK v : rules' = [rules EXCEPT ![op.desc.id] = v]
        BY <1>3
      <3>2. QED  BY <3>1, RulesSet
    <2>2. troubles = 0 => op.desc.id = current.pkg
      BY <1>1, SetupDesc
    <2>3. QED
      BY <1>1, <1>2, <1>3, <2>1, <2>2, RpmSame, SetupGoes
  <1>4. CASE Trouble /\ FailTo /\ UNCHANGED rules
    <2>1. ~Fine
      BY <1>4, RpmFacts DEF RpmTypeOK, Fine, Trouble
    <2>2. QED
      BY <1>1, <1>2, <1>4, <2>1, RpmSame, SetupEnds
  <1>5. QED
    BY <1>3, <1>4, Zenon DEF InstallSecurity, Goto

LEMMA RpmInstallModes == ASSUME RpmInv, UNCHANGED rpmVars, InstallModes  PROVE RpmInv'
  <1>1. current.stage = "installing" /\ op.kind = "redpesk" /\ op.step = "modes" /\ op.step # "idle"
    BY SetupStep DEF InstallModes
  <1>2. UNCHANGED <<dirs, units, icons, rules, workdir, perms>>
    BY DEF InstallModes
  <1>3. troubles = 0 => op.desc = trans[current.pkg].new /\ units[current.pkg] = Void
    BY <1>1, SetupDesc
  <1>4. CASE op.desc.props /\ Fine /\ op' = [op EXCEPT !.step = "units"]
    BY <1>1, <1>2, <1>3, <1>4, RpmSame, SetupGoes
  <1>5. CASE (IF op.desc.props THEN Trouble ELSE Fine) /\ FailTo
    <2>1. Fine => ~op.desc.props
      BY <1>5, RpmFacts DEF RpmTypeOK, Fine, Trouble
    <2>2. ~op.desc.props => Wanted(op.desc) = Void
      BY DEF Wanted, Settles
    <2>3. Fine /\ troubles = 0 => units[current.pkg] = Wanted(trans[current.pkg].new)
      BY <1>3, <2>1, <2>2
    <2>4. QED
      BY <1>1, <1>2, <1>5, <2>3, RpmSame, SetupEnds
  <1>6. QED
    BY <1>4, <1>5 DEF InstallModes, Goto

LEMMA RpmSetupUnits == ASSUME RpmInv, UNCHANGED rpmVars, SetupUnits  PROVE RpmInv'
  <1>1. /\ current.stage = "installing" /\ op.kind = "redpesk" /\ op.step = "units" /\ op.step # "idle"
        /\ troubles = 0 => Setup(current.pkg)
    BY SetupStep DEF SetupUnits
  <1>2. UNCHANGED <<dirs, icons, rules, workdir, perms>>
    BY DEF SetupUnits
  <1>3. /\ current.pkg \in Ids /\ trans[current.pkg].new # Void
        /\ troubles = 0 => /\ op.desc = trans[current.pkg].new /\ op.desc.id = current.pkg
                           /\ Accepted(trans[current.pkg].new) /\ units[current.pkg] = Void
    BY <1>1, SetupDesc
  <1>4. CASE Fine /\ units' = [units EXCEPT ![op.desc.id] = op.desc] /\ Finish(TRUE)
    <2>1. op' = [op EXCEPT !.step = "end", !.ok = TRUE]
      BY <1>4 DEF Finish
    <2>2. op' \in RpmOps /\ op'.step = "end" /\ op'.kind = op.kind /\ op'.dir = op.dir
      BY <2>1, RpmFacts, StepNames, RpmOpSet DEF RpmSteps
    <2>3. troubles' \in Nat /\ (troubles' = 0 => troubles = 0)
      BY <1>4, TroublesNat
    <2>4. units' \in Tables /\ \A j \in Ids : units'[j] = IF j = op.desc.id THEN op.desc ELSE units[j]
      BY <1>4, RpmFacts, UnitsSet
    <2>5. troubles' = 0 => Setup(current.pkg)'
      <3>1. SUFFICES ASSUME troubles' = 0  PROVE Setup(current.pkg)'
        OBVIOUS
      <3>2. trans[current.pkg].new.props
        BY <1>1, <2>3, <3>1 DEF Setup
      <3>3. Wanted(trans[current.pkg].new) = trans[current.pkg].new
        BY <1>3, <2>3, <3>1, <3>2 DEF Wanted, Settles
      <3>4. units'[current.pkg] = trans[current.pkg].new
        BY <1>3, <2>3, <2>4, <3>1
      <3>5. QED
        BY <2>2, <3>3, <3>4 DEF Setup, rpmVars
    <2>6. QED
      BY <1>1, <1>2, <1>3, <2>2, <2>3, <2>4, <2>5, RpmSame, StepNames, WidgetKeeps
  <1>5. CASE (IF units[op.desc.id] = Void THEN Trouble ELSE Fine) /\ FailTo /\ UNCHANGED units
    <2>1. Fine => troubles # 0
      BY <1>3, <1>5, RpmFacts DEF RpmTypeOK, Fine, Trouble
    <2>2. QED
      BY <1>1, <1>2, <1>5, <2>1, RpmSame, SetupEnds
  <1>6. QED
    BY <1>4, <1>5 DEF SetupUnits

LEMMA WidgetStepKeeps == ASSUME RpmInv, WidgetStep, UNCHANGED rpmVars  PROVE RpmInv'
  <1>1. ~(MakeWorkdir \/ ZRead \/ Target \/ RemoveOld \/ MoveWorkdir \/ Cleanup)
    BY NoInstall DEF MakeWorkdir, ZRead, Target, RemoveOld, MoveWorkdir, Cleanup
  <1>2. QED
    BY <1>1, RpmInfoDescCheck, RpmOldInfo, RpmSetdownUnits, RpmSetdownIcon, RpmSetdownSecurity,
       RpmInstallIcon, RpmInstallSecurity, RpmInstallModes, RpmSetupUnits, RpmDie DEF WidgetStep

----------------------------------------------------------------------------
(* The records of the packages. *)

PreRemoves(pkg, te, i) == PreDir(pkg, te, i) # Void /\ pkg.toremove

LEMMA RecordFields ==
    ASSUME NEW i \in Ids
    PROVE  /\ Seen.dir = Void /\ Seen.toinstall = FALSE /\ Seen.installed = FALSE /\ Seen.toremove = TRUE
           /\ Leaving(i).dir = i /\ Leaving(i).toinstall = FALSE /\ Leaving(i).installed = FALSE /\ Leaving(i).toremove = TRUE
           /\ Moving(i).dir = i /\ Moving(i).toinstall = TRUE /\ Moving(i).installed = FALSE /\ Moving(i).toremove = TRUE
           /\ Coming(i).dir = i /\ Coming(i).toinstall = TRUE /\ Coming(i).installed = FALSE /\ Coming(i).toremove = FALSE
           /\ Settled(i).dir = i /\ Settled(i).toinstall = TRUE /\ Settled(i).installed = TRUE /\ Settled(i).toremove = FALSE
  BY DEF Seen, Leaving, Moving, Coming, Settled

LEMMA NewFields ==
    /\ PreNew("ADDED") \in Rpkgs /\ PreNew("REMOVED") = Seen
    /\ PreNew("ADDED").dir = Void /\ PreNew("ADDED").toinstall = FALSE /\ PreNew("ADDED").installed = FALSE
    /\ PreNew("ADDED").toremove = FALSE
  <1>1. PICK a \in BOOLEAN, b \in BOOLEAN : a = ("ADDED" = "REMOVED") /\ b = ("REMOVED" = "REMOVED")
    OBVIOUS
  <1>2. a = FALSE /\ b = TRUE
    BY <1>1
  <1>3. PreNew("ADDED") = [dir |-> Void, toinstall |-> FALSE, installed |-> FALSE, toremove |-> FALSE]
    BY <1>1, <1>2, Zenon DEF PreNew
  <1>4. PreNew("REMOVED") = Seen
    BY <1>1, <1>2, Zenon DEF PreNew, Seen
  <1>5. PICK D : D = AllDirs \union {Void}
    OBVIOUS
  <1>6. Void \in D /\ Rpkgs = [dir : D, toinstall : BOOLEAN, installed : BOOLEAN, toremove : BOOLEAN]
    BY <1>5 DEF Rpkgs
  <1>7. PICK r : r = [dir |-> Void, toinstall |-> FALSE, installed |-> FALSE, toremove |-> FALSE]
    OBVIOUS
  <1>8. r \in Rpkgs /\ r.dir = Void /\ r.toinstall = FALSE /\ r.installed = FALSE /\ r.toremove = FALSE
    BY <1>6, <1>7
  <1>9. PreNew("ADDED") = r
    BY <1>3, <1>7, Zenon
  <1>10. QED
    BY <1>4, <1>8, <1>9

\* What redpesk_psm_pre makes of a record.
PreTo(p, te, i, q) ==
    /\ p \in Rpkgs /\ q \in Rpkgs /\ te.files \in BOOLEAN
    /\ q.dir = IF p.dir # Void THEN p.dir ELSE IF te.files THEN i ELSE Void
    /\ q.toinstall = TRUE <=> p.toinstall = TRUE \/ (q.dir # Void /\ te.type = "ADDED")
    /\ q.installed = p.installed /\ q.toremove = p.toremove

LEMMA PreMakes ==
    ASSUME NEW i \in Ids, NEW p, NEW te, NEW q, PreTo(p, te, i, q)
    PROVE  /\ PreNext(p, te, i) = q /\ PreDir(p, te, i) = q.dir
           /\ PreRemoves(p, te, i) <=> q.dir # Void /\ p.toremove = TRUE
  <1>1. p \in Rpkgs /\ q \in Rpkgs /\ p.toinstall \in BOOLEAN /\ p.toremove \in BOOLEAN /\ q.toinstall \in BOOLEAN
    BY DEF PreTo, Rpkgs
  <1>2. PreDir(p, te, i) = q.dir
    BY DEF PreDir, PreTo
  <1>3. q.toinstall = (p.toinstall \/ (PreDir(p, te, i) # Void /\ te.type = "ADDED"))
    BY <1>1, <1>2 DEF PreTo
  <1>4. PreNext(p, te, i) = [p EXCEPT !.dir = q.dir, !.toinstall = q.toinstall]
    BY <1>2, <1>3, Zenon DEF PreNext
  <1>5. [p EXCEPT !.dir = q.dir, !.toinstall = q.toinstall] = q
    BY <1>1 DEF PreTo, Rpkgs
  <1>6. PreRemoves(p, te, i) <=> q.dir # Void /\ p.toremove = TRUE
    BY <1>1, <1>2 DEF PreRemoves
  <1>7. QED
    BY <1>2, <1>4, <1>5, <1>6, Zenon

LEMMA PreCases ==
    ASSUME NEW i \in Ids
    PROVE  /\ PreNext(PreNew("ADDED"), AddFiles, i) = Coming(i) /\ ~PreRemoves(PreNew("ADDED"), AddFiles, i)
           /\ PreNext(Seen, RemoveVoid, i) = Seen /\ ~PreRemoves(Seen, RemoveVoid, i)
           /\ PreNext(Seen, RemoveFiles, i) = Leaving(i) /\ PreRemoves(Seen, RemoveFiles, i)
           /\ PreNext(Seen, AddFiles, i) = Moving(i) /\ PreRemoves(Seen, AddFiles, i)
           /\ PreNext(Settled(i), AddVoid, i) = Settled(i) /\ ~PreRemoves(Settled(i), AddVoid, i)
           /\ PreNext(Coming(i), RemoveFiles, i) = Coming(i) /\ ~PreRemoves(Coming(i), RemoveFiles, i)
           /\ PreDir(Seen, RemoveFiles, i) = i /\ PreDir(Seen, AddFiles, i) = i
  <1>1. i # Void
    BY PackageRecords
  <1>2. PreNext(PreNew("ADDED"), AddFiles, i) = Coming(i) /\ PreDir(PreNew("ADDED"), AddFiles, i) = Coming(i).dir /\ ~PreRemoves(PreNew("ADDED"), AddFiles, i)
    <2>1. PICK p, q, te : p = PreNew("ADDED") /\ q = Coming(i) /\ te = AddFiles
      OBVIOUS
    <2>2. PreTo(p, te, i, q)
      BY <1>1, <2>1, NewFields, ElementFields, RecordFields, PackageRecords DEF PreTo
    <2>3. PreNext(p, te, i) = q /\ PreDir(p, te, i) = q.dir /\ (PreRemoves(p, te, i) <=> q.dir # Void /\ p.toremove = TRUE)
      BY <2>2, PreMakes
    <2>4. ~(q.dir # Void /\ p.toremove = TRUE)
      BY <1>1, <2>1, NewFields, RecordFields
    <2>5. QED  BY <2>1, <2>3, <2>4
  <1>3. PreNext(Seen, RemoveVoid, i) = Seen /\ PreDir(Seen, RemoveVoid, i) = Seen.dir /\ ~PreRemoves(Seen, RemoveVoid, i)
    <2>1. PICK p, q, te : p = Seen /\ q = Seen /\ te = RemoveVoid
      OBVIOUS
    <2>2. PreTo(p, te, i, q)
      BY <1>1, <2>1, NewFields, ElementFields, RecordFields, PackageRecords DEF PreTo
    <2>3. PreNext(p, te, i) = q /\ PreDir(p, te, i) = q.dir /\ (PreRemoves(p, te, i) <=> q.dir # Void /\ p.toremove = TRUE)
      BY <2>2, PreMakes
    <2>4. ~(q.dir # Void /\ p.toremove = TRUE)
      BY <1>1, <2>1, NewFields, RecordFields
    <2>5. QED  BY <2>1, <2>3, <2>4
  <1>4. PreNext(Seen, RemoveFiles, i) = Leaving(i) /\ PreDir(Seen, RemoveFiles, i) = Leaving(i).dir /\ PreRemoves(Seen, RemoveFiles, i)
    <2>1. PICK p, q, te : p = Seen /\ q = Leaving(i) /\ te = RemoveFiles
      OBVIOUS
    <2>2. PreTo(p, te, i, q)
      BY <1>1, <2>1, NewFields, ElementFields, RecordFields, PackageRecords DEF PreTo
    <2>3. PreNext(p, te, i) = q /\ PreDir(p, te, i) = q.dir /\ (PreRemoves(p, te, i) <=> q.dir # Void /\ p.toremove = TRUE)
      BY <2>2, PreMakes
    <2>4. q.dir # Void /\ p.toremove = TRUE
      BY <1>1, <2>1, NewFields, RecordFields
    <2>5. QED  BY <2>1, <2>3, <2>4
  <1>5. PreNext(Seen, AddFiles, i) = Moving(i) /\ PreDir(Seen, AddFiles, i) = Moving(i).dir /\ PreRemoves(Seen, AddFiles, i)
    <2>1. PICK p, q, te : p = Seen /\ q = Moving(i) /\ te = AddFiles
      OBVIOUS
    <2>2. PreTo(p, te, i, q)
      BY <1>1, <2>1, NewFields, ElementFields, RecordFields, PackageRecords DEF PreTo
    <2>3. PreNext(p, te, i) = q /\ PreDir(p, te, i) = q.dir /\ (PreRemoves(p, te, i) <=> q.dir # Void /\ p.toremove = TRUE)
      BY <2>2, PreMakes
    <2>4. q.dir # Void /\ p.toremove = TRUE
      BY <1>1, <2>1, NewFields, RecordFields
    <2>5. QED  BY <2>1, <2>3, <2>4
  <1>6. PreNext(Settled(i), AddVoid, i) = Settled(i) /\ PreDir(Settled(i), AddVoid, i) = Settled(i).dir /\ ~PreRemoves(Settled(i), AddVoid, i)
    <2>1. PICK p, q, te : p = Settled(i) /\ q = Settled(i) /\ te = AddVoid
      OBVIOUS
    <2>2. PreTo(p, te, i, q)
      BY <1>1, <2>1, NewFields, ElementFields, RecordFields, PackageRecords DEF PreTo
    <2>3. PreNext(p, te, i) = q /\ PreDir(p, te, i) = q.dir /\ (PreRemoves(p, te, i) <=> q.dir # Void /\ p.toremove = TRUE)
      BY <2>2, PreMakes
    <2>4. ~(q.dir # Void /\ p.toremove = TRUE)
      BY <1>1, <2>1, NewFields, RecordFields
    <2>5. QED  BY <2>1, <2>3, <2>4
  <1>7. PreNext(Coming(i), RemoveFiles, i) = Coming(i) /\ PreDir(Coming(i), RemoveFiles, i) = Coming(i).dir /\ ~PreRemoves(Coming(i), RemoveFiles, i)
    <2>1. PICK p, q, te : p = Coming(i) /\ q = Coming(i) /\ te = RemoveFiles
      OBVIOUS
    <2>2. PreTo(p, te, i, q)
      BY <1>1, <2>1, NewFields, ElementFields, RecordFields, PackageRecords DEF PreTo
    <2>3. PreNext(p, te, i) = q /\ PreDir(p, te, i) = q.dir /\ (PreRemoves(p, te, i) <=> q.dir # Void /\ p.toremove = TRUE)
      BY <2>2, PreMakes
    <2>4. ~(q.dir # Void /\ p.toremove = TRUE)
      BY <1>1, <2>1, NewFields, RecordFields
    <2>5. QED  BY <2>1, <2>3, <2>4
  <1>8. QED
    BY <1>2, <1>3, <1>4, <1>5, <1>6, <1>7, RecordFields

\* What redpesk_psm_post makes of a record.
PostNext(pkg, te) == [pkg EXCEPT !.toremove = @ /\ te.type # "ADDED"]
PostInstalled(pkg, te) == [pkg EXCEPT !.installed = TRUE, !.toremove = @ /\ te.type # "ADDED"]

LEMMA PostMakes ==
    ASSUME NEW p \in Rpkgs, NEW q \in Rpkgs, NEW te, q.dir = p.dir, q.toinstall = p.toinstall,
           q.toremove = TRUE <=> p.toremove = TRUE /\ te.type # "ADDED"
    PROVE  /\ q.installed = p.installed => PostNext(p, te) = q
           /\ q.installed = TRUE => PostInstalled(p, te) = q
  <1>1. p.toremove \in BOOLEAN /\ q.toremove \in BOOLEAN
    BY DEF Rpkgs
  <1>2. q.toremove = (p.toremove /\ te.type # "ADDED")
    BY <1>1
  <1>3. PostNext(p, te) = [p EXCEPT !.toremove = q.toremove]
    BY <1>2, Zenon DEF PostNext
  <1>4. PostInstalled(p, te) = [p EXCEPT !.installed = TRUE, !.toremove = q.toremove]
    BY <1>2, Zenon DEF PostInstalled
  <1>5. q.installed = p.installed => [p EXCEPT !.toremove = q.toremove] = q
    BY DEF Rpkgs
  <1>6. q.installed = TRUE => [p EXCEPT !.installed = TRUE, !.toremove = q.toremove] = q
    BY DEF Rpkgs
  <1>7. QED
    BY <1>3, <1>4, <1>5, <1>6, Zenon

LEMMA PostCases ==
    ASSUME NEW i \in Ids
    PROVE  /\ PostInstalled(Coming(i), AddFiles) = Settled(i) /\ PostInstalled(Coming(i), RemoveFiles) = Settled(i)
           /\ PostNext(Seen, RemoveVoid) = Seen /\ PostNext(Leaving(i), RemoveFiles) = Leaving(i)
           /\ PostNext(Moving(i), AddFiles) = Coming(i) /\ PostNext(Settled(i), AddVoid) = Settled(i)
  <1>1. PostInstalled(Coming(i), AddFiles) = Settled(i)
    <2>1. PICK p, q, te : p = Coming(i) /\ q = Settled(i) /\ te = AddFiles
      OBVIOUS
    <2>2. /\ p \in Rpkgs /\ q \in Rpkgs /\ q.dir = p.dir /\ q.toinstall = p.toinstall /\ q.installed = TRUE
          /\ q.toremove = TRUE <=> p.toremove = TRUE /\ te.type # "ADDED"
      BY <2>1, ElementFields, RecordFields, PackageRecords
    <2>3. PostInstalled(p, te) = q
      BY <2>2, PostMakes
    <2>4. QED  BY <2>1, <2>3
  <1>2. PostInstalled(Coming(i), RemoveFiles) = Settled(i)
    <2>1. PICK p, q, te : p = Coming(i) /\ q = Settled(i) /\ te = RemoveFiles
      OBVIOUS
    <2>2. /\ p \in Rpkgs /\ q \in Rpkgs /\ q.dir = p.dir /\ q.toinstall = p.toinstall /\ q.installed = TRUE
          /\ q.toremove = TRUE <=> p.toremove = TRUE /\ te.type # "ADDED"
      BY <2>1, ElementFields, RecordFields, PackageRecords
    <2>3. PostInstalled(p, te) = q
      BY <2>2, PostMakes
    <2>4. QED  BY <2>1, <2>3
  <1>3. PostNext(Seen, RemoveVoid) = Seen
    <2>1. PICK p, q, te : p = Seen /\ q = Seen /\ te = RemoveVoid
      OBVIOUS
    <2>2. /\ p \in Rpkgs /\ q \in Rpkgs /\ q.dir = p.dir /\ q.toinstall = p.toinstall /\ q.installed = p.installed
          /\ q.toremove = TRUE <=> p.toremove = TRUE /\ te.type # "ADDED"
      BY <2>1, ElementFields, RecordFields, PackageRecords
    <2>3. PostNext(p, te) = q
      BY <2>2, PostMakes
    <2>4. QED  BY <2>1, <2>3
  <1>4. PostNext(Leaving(i), RemoveFiles) = Leaving(i)
    <2>1. PICK p, q, te : p = Leaving(i) /\ q = Leaving(i) /\ te = RemoveFiles
      OBVIOUS
    <2>2. /\ p \in Rpkgs /\ q \in Rpkgs /\ q.dir = p.dir /\ q.toinstall = p.toinstall /\ q.installed = p.installed
          /\ q.toremove = TRUE <=> p.toremove = TRUE /\ te.type # "ADDED"
      BY <2>1, ElementFields, RecordFields, PackageRecords
    <2>3. PostNext(p, te) = q
      BY <2>2, PostMakes
    <2>4. QED  BY <2>1, <2>3
  <1>5. PostNext(Moving(i), AddFiles) = Coming(i)
    <2>1. PICK p, q, te : p = Moving(i) /\ q = Coming(i) /\ te = AddFiles
      OBVIOUS
    <2>2. /\ p \in Rpkgs /\ q \in Rpkgs /\ q.dir = p.dir /\ q.toinstall = p.toinstall /\ q.installed = p.installed
          /\ q.toremove = TRUE <=> p.toremove = TRUE /\ te.type # "ADDED"
      BY <2>1, ElementFields, RecordFields, PackageRecords
    <2>3. PostNext(p, te) = q
      BY <2>2, PostMakes
    <2>4. QED  BY <2>1, <2>3
  <1>6. PostNext(Settled(i), AddVoid) = Settled(i)
    <2>1. PICK p, q, te : p = Settled(i) /\ q = Settled(i) /\ te = AddVoid
      OBVIOUS
    <2>2. /\ p \in Rpkgs /\ q \in Rpkgs /\ q.dir = p.dir /\ q.toinstall = p.toinstall /\ q.installed = p.installed
          /\ q.toremove = TRUE <=> p.toremove = TRUE /\ te.type # "ADDED"
      BY <2>1, ElementFields, RecordFields, PackageRecords
    <2>3. PostNext(p, te) = q
      BY <2>2, PostMakes
    <2>4. QED  BY <2>1, <2>3
  <1>7. QED
    BY <1>1, <1>2, <1>3, <1>4, <1>5, <1>6

----------------------------------------------------------------------------
(* The steps of rpm and of the plugin. *)

LEMMA FuncSet ==
    ASSUME NEW f, f = [j \in Ids |-> f[j]], NEW i \in Ids, NEW v, NEW g, g = [f EXCEPT ![i] = v]
    PROVE  g = [j \in Ids |-> g[j]] /\ g[i] = v /\ \A j \in Ids : j # i => g[j] = f[j]
  OBVIOUS

LEMMA CurrentGoto ==
    ASSUME RpmInv, NEW x \in Stages, GotoStage(x)
    PROVE  /\ current' \in [pkg : Ids \union {Void}, stage : Stages] /\ current'.pkg = current.pkg /\ current'.stage = x
  BY RpmFacts DEF RpmTypeOK, GotoStage

\* The package of the element in progress.
LEMMA InElement ==
    ASSUME RpmInv, current.stage \notin {"none", "end"}
    PROVE  /\ current.pkg \in Ids /\ current.pkg # Void /\ StageOf(current.pkg) = current.stage /\ Rows(current.pkg)
           /\ trans \in Transactions
           /\ rpkgs = [j \in Ids |-> rpkgs[j]] /\ todo = [j \in Ids |-> todo[j]] /\ calls = [j \in Ids |-> calls[j]]
  BY RpmFacts, VoidAssumption DEF RpmTypeOK, StageOf, AllDirs

\* A step on one package leaves the others.
LEMMA RpmKeeps ==
    ASSUME RpmInv, NEW i \in Ids, current.stage # "end", current.pkg \in {i, Void}, UNCHANGED <<trans, troubles>>,
           current' \in [pkg : Ids \union {Void}, stage : Stages], current'.stage # "end", current'.pkg \in {i, Void},
           current'.pkg \in Ids <=> current'.stage # "none",
           rpkgs' = [j \in Ids |-> rpkgs'[j]], todo' = [j \in Ids |-> todo'[j]], calls' = [j \in Ids |-> calls'[j]],
           \A j \in Ids : j # i => rpkgs'[j] = rpkgs[j] /\ todo'[j] = todo[j] /\ calls'[j] = calls[j] /\ dirs'[j] = dirs[j],
           dirs' \in Disks, UNCHANGED <<units, icons, rules, perms>>, workdir' \in AllDirs \union {Void}, op' \in RpmOps,
           InProgress', Rows(i)'
    PROVE  RpmInv'
  <1>1. RpmTypeOK'
    BY RpmFacts DEF RpmTypeOK
  <1>2. ASSUME NEW j \in Ids  PROVE Rows(j)'
    <2>1. CASE j = i
      BY <2>1
    <2>2. CASE j # i
      <3>1. Rows(j)
        BY RpmFacts
      <3>2. j # Void
        BY VoidAssumption DEF AllDirs
      <3>3. StageOf(j) = "none" /\ StageOf(j)' = "none"
        BY <2>2, <3>2 DEF StageOf
      <3>4. QED
        BY <2>2, <3>1, <3>3, RowsKept
    <2>3. QED  BY <2>1, <2>2
  <1>3. TransactionDone'
    BY DEF TransactionDone
  <1>4. QED
    BY <1>1, <1>2, <1>3 DEF RpmInv

LEMMA RpmElementKeeps == ASSUME RpmInv, RpmElement  PROVE RpmInv'
  <1>1. PICK i \in Ids : todo[i] # <<>> /\ current' = [pkg |-> i, stage |-> "pre"]
    BY DEF RpmElement
  <1>2. UNCHANGED <<dirs, icons, units, rules, workdir, perms, op, troubles, rpkgs, todo, trans, calls>>
    BY DEF RpmElement, widgetVars
  <1>3. current.pkg = Void /\ current.stage = "none"
    BY DEF RpmElement, NoElement
  <1>4. /\ current' \in [pkg : Ids \union {Void}, stage : Stages] /\ current'.stage = "pre" /\ current'.pkg = i
    BY <1>1 DEF Stages
  <1>5. i # Void
    BY VoidAssumption DEF AllDirs
  <1>6. StageOf(i) = "none" /\ StageOf(i)' = "pre"
    BY <1>3, <1>4, <1>5 DEF StageOf
  <1>7. Rows(i)
    BY <1>3, RpmFacts
  <1>8. (SetUp(i) <=> SetUp(i)') /\ (Final(i) <=> Final(i)') /\ \A w : Down(i, w) <=> Down(i, w)'
    BY <1>2 DEF SetUp, Final, Down
  <1>9. \A rest, pkg, did, stages : Row(i, rest, stages, pkg, did) /\ "pre" \in stages => Row(i, rest, stages, pkg, did)'
    BY <1>2, <1>6 DEF Row
  <1>10. \A rest, pkg, did, stages : Row(i, rest, stages, pkg, did) => rest # <<>> /\ "none" \in stages
    BY <1>1, <1>6 DEF Row
  <1>11. Rows(i)'
    BY <1>2, <1>7, <1>8, <1>9, <1>10 DEF Rows, InstallRows, RemoveRows, UpgradeRows, Waiting, Passing
  <1>12. InProgress'
    BY <1>2, <1>3, <1>4, RpmFacts DEF InProgress
  <1>13. QED
    BY <1>2, <1>3, <1>4, <1>11, <1>12, RpmFacts, RpmKeeps DEF RpmTypeOK

LEMMA RemovedKeeps == ASSUME RpmInv, Removed  PROVE RpmInv'
  <1>1. current.stage = "removing" /\ op.step = "end" /\ op' = Idle /\ GotoStage("work")
    BY DEF Removed
  <1>2. UNCHANGED <<dirs, icons, units, rules, workdir, perms, troubles, rpkgs, todo, trans, calls>>
    BY DEF Removed
  <1>3. PICK i \in Ids : i = current.pkg
    BY <1>1, InElement
  <1>4. /\ StageOf(i) = "removing" /\ Rows(i)
        /\ rpkgs = [j \in Ids |-> rpkgs[j]] /\ todo = [j \in Ids |-> todo[j]] /\ calls = [j \in Ids |-> calls[j]]
    BY <1>1, <1>3, InElement
  <1>5. current' \in [pkg : Ids \union {Void}, stage : Stages] /\ current'.pkg = i /\ current'.stage = "work"
    BY <1>1, <1>3, CurrentGoto DEF Stages
  <1>6. StageOf(i)' = "work"
    BY <1>5 DEF StageOf
  <1>7. SetUp(i) => Down(i, trans[i].old)'
    BY <1>1, <1>2, <1>3, RpmFacts DEF InProgress, Removal, SetUp, Down
  <1>8. \A rest, pkg, did, stages : Row(i, rest, stages, pkg, did) => Row(i, rest, {"work"}, pkg, did)' /\ "removing" \in stages
    BY <1>2, <1>4, <1>6 DEF Row
  <1>9. Rows(i)'
    BY <1>2, <1>4, <1>7, <1>8 DEF Rows, InstallRows, RemoveRows, UpgradeRows, Waiting, Passing
  <1>10. InProgress'
    BY <1>1, <1>5 DEF InProgress
  <1>11. QED
    BY <1>1, <1>2, <1>3, <1>4, <1>5, <1>9, <1>10, IdleIs, RpmFacts, RpmKeeps DEF RpmTypeOK

LEMMA ElementDoneKeeps == ASSUME RpmInv, ElementDone  PROVE RpmInv'
  <1>1. current.stage \in {"installing", "done"} /\ op' = Idle /\ current' = NoElement
    BY DEF ElementDone
  <1>2. UNCHANGED <<dirs, icons, units, rules, workdir, perms, troubles, rpkgs, trans, calls>>
    BY DEF ElementDone
  <1>3. PICK i \in Ids : i = current.pkg
    BY <1>1, InElement
  <1>4. /\ StageOf(i) = current.stage /\ Rows(i)
        /\ rpkgs = [j \in Ids |-> rpkgs[j]] /\ todo = [j \in Ids |-> todo[j]] /\ calls = [j \in Ids |-> calls[j]]
    BY <1>1, <1>3, InElement
  <1>5. todo' = [j \in Ids |-> todo'[j]] /\ todo'[i] = Tail(todo[i]) /\ \A j \in Ids : j # i => todo'[j] = todo[j]
    <2>1. todo' = [todo EXCEPT ![i] = Tail(todo[i])]
      BY <1>3 DEF ElementDone
    <2>2. QED  BY <1>4, <2>1, FuncSet
  <1>6. current' \in [pkg : Ids \union {Void}, stage : Stages] /\ current'.pkg = Void /\ current'.stage = "none"
    BY <1>1 DEF NoElement, Stages
  <1>7. Void \notin Ids
    BY VoidAssumption DEF AllDirs
  <1>8. StageOf(i)' = "none"
    BY <1>6, <1>7 DEF StageOf
  <1>9. current.stage = "installing" => op.step = "end"
    BY DEF ElementDone
  <1>10. current.stage = "installing" /\ There(i) => Final(i)'
    BY <1>2, <1>3, <1>9, RpmFacts DEF InProgress, Setup, There, Final
  <1>11. (SetUp(i) <=> SetUp(i)') /\ (Final(i) <=> Final(i)') /\ \A w : Down(i, w) <=> Down(i, w)'
    BY <1>2 DEF SetUp, Final, Down
  <1>12. ASSUME NEW rest, NEW pkg, NEW did, NEW stages, Row(i, rest, stages, pkg, did)
         PROVE  /\ current.stage \in stages
                /\ \A next : "none" \in next => Row(i, Tail(rest), next, pkg, did)'
    BY <1>2, <1>4, <1>5, <1>8, <1>12 DEF Row
  <1> DEFINE Live == Waiting \union Passing
  <1> DEFINE Ahead == Waiting \union {"work"}
  <1>13. "none" \in Waiting /\ "none" \in Live /\ "none" \in Ahead
    BY DEF Waiting
  <1>14. Rows(i)'
    <2> HIDE DEF Live, Ahead
    <2>1. CASE trans[i].kind = "install"
      <3>1. \/ Row(i, Install1, {"installing"}, Settled(i), InstallDone) /\ There(i) /\ current.stage = "installing"
            \/ Row(i, Last1, Live, Settled(i), InstallDone) /\ Final(i)
        BY <1>1, <1>4, <1>12, <2>1 DEF Rows, InstallRows, Waiting, Passing, Live
      <3>2. \/ Row(i, Last1, Live, Settled(i), InstallDone)' /\ Final(i)'
            \/ Row(i, <<>>, {"none"}, Settled(i), InstallDone)' /\ Final(i)'
        BY <1>13, <1>10, <1>11, <1>12, <3>1, Rests
      <3>3. QED  BY <1>2, <2>1, <3>2 DEF Rows, InstallRows, Live
    <2>2. CASE trans[i].kind = "remove"
      <3>1. \/ Row(i, Remove1, Passing, Seen, <<>>) /\ SetUp(i)
            \/ Row(i, Remove2, {"post", "done"}, Leaving(i), RemoveDone) /\ Down(i, Void)
        BY <1>1, <1>4, <1>12, <2>2 DEF Rows, RemoveRows, Waiting, Passing
      <3>2. \/ Row(i, Remove2, Waiting, Seen, <<>>)' /\ SetUp(i)'
            \/ Row(i, <<>>, {"none"}, Leaving(i), RemoveDone)' /\ Down(i, Void)'
        BY <1>13, <1>11, <1>12, <3>1, Rests
      <3>3. QED  BY <1>2, <2>2, <3>2 DEF Rows, RemoveRows
    <2>3. CASE trans[i].kind = "upgrade"
      <3>1. \/ Row(i, Upgrade1, Passing, Seen, <<>>) /\ SetUp(i)
            \/ Row(i, Upgrade2, {"done"}, Coming(i), Replace) /\ Down(i, trans[i].new)
            \/ Row(i, Upgrade3, {"installing"}, Settled(i), UpgradeDone) /\ There(i) /\ current.stage = "installing"
            \/ Row(i, Last1, Live, Settled(i), UpgradeDone) /\ Final(i)
        BY <1>1, <1>4, <1>12, <2>3 DEF Rows, UpgradeRows, Waiting, Passing, Live, Ahead
      <3>2. \/ Row(i, Upgrade2, Waiting, Seen, <<>>)' /\ SetUp(i)'
            \/ Row(i, Upgrade3, Ahead, Coming(i), Replace)' /\ Down(i, trans[i].new)'
            \/ Row(i, Last1, Live, Settled(i), UpgradeDone)' /\ Final(i)'
            \/ Row(i, <<>>, {"none"}, Settled(i), UpgradeDone)' /\ Final(i)'
        BY <1>13, <1>2, <1>10, <1>11, <1>12, <3>1, Rests
      <3>3. QED  BY <1>2, <2>3, <3>2 DEF Rows, UpgradeRows, Live, Ahead
    <2>4. QED
      BY <1>1, <1>4, <1>12, <2>1, <2>2, <2>3 DEF Rows
  <1>15. InProgress'
    BY <1>1, <1>6 DEF InProgress
  <1>16. QED
    BY <1>1, <1>2, <1>3, <1>4, <1>5, <1>6, <1>7, <1>14, <1>15, IdleIs, RpmFacts, RpmKeeps DEF RpmTypeOK

LEMMA RedpeskTsmPostKeeps == ASSUME RpmInv, RedpeskTsmPost  PROVE RpmInv'
  <1>1. current = NoElement /\ (\A i \in Ids : todo[i] = <<>>) /\ current' = [pkg |-> Void, stage |-> "end"]
        /\ rpkgs' = [i \in Ids |-> Void]
    BY DEF RedpeskTsmPost
  <1>2. UNCHANGED <<dirs, icons, units, rules, workdir, perms, op, troubles, todo, trans, calls>>
    BY DEF RedpeskTsmPost, widgetVars
  <1>3. current.stage = "none" /\ current.pkg = Void /\ current'.stage = "end" /\ current'.pkg = Void
        /\ current' \in [pkg : Ids \union {Void}, stage : Stages]
    BY <1>1 DEF NoElement, Stages
  <1>4. Void \notin Ids
    BY VoidAssumption DEF AllDirs
  <1>5. RpmTypeOK'
    BY <1>1, <1>2, <1>3, <1>4, RpmFacts DEF RpmTypeOK
  <1>6. InProgress'
    BY <1>2, <1>3, RpmFacts DEF InProgress
  <1>7. ASSUME NEW i \in Ids
        PROVE  /\ calls[i] = Expected[trans[i].kind]
               /\ troubles = 0 /\ trans[i].kind # "none" =>
                  /\ dirs[i] = trans[i].new
                  /\ units[i] = IF trans[i].new # Void /\ Settles(trans[i].new) THEN trans[i].new ELSE Void
                  /\ trans[i].new = Void => rules[i] = Void /\ icons[i] = Void
    <2>1. Rows(i) /\ todo[i] = <<>> /\ trans \in Transactions
      BY <1>1, <1>3, RpmFacts DEF RpmTypeOK
    <2>2. CASE trans[i].kind = "install"
      <3>1. calls[i] = InstallDone /\ Final(i)
        BY <2>1, <2>2, Rests DEF Rows, InstallRows, Row
      <3>2. trans[i].new # Void
        BY <2>1, <2>2, Asked
      <3>3. QED  BY <2>2, <3>1, <3>2, ExpectedIs DEF Final, Wanted
    <2>3. CASE trans[i].kind = "remove"
      <3>1. calls[i] = RemoveDone /\ Down(i, Void)
        BY <2>1, <2>3, Rests DEF Rows, RemoveRows, Row
      <3>2. trans[i].new = Void
        BY <2>1, <2>3, Asked
      <3>3. QED  BY <2>3, <3>1, <3>2, ExpectedIs DEF Down
    <2>4. CASE trans[i].kind = "upgrade"
      <3>1. calls[i] = UpgradeDone /\ Final(i)
        BY <2>1, <2>4, Rests DEF Rows, UpgradeRows, Row
      <3>2. trans[i].new # Void
        BY <2>1, <2>4, Asked
      <3>3. QED  BY <2>4, <3>1, <3>2, ExpectedIs DEF Final, Wanted
    <2>5. CASE trans[i].kind = "none"
      BY <2>1, <2>5, ExpectedIs DEF Rows, Row
    <2>6. QED
      BY <2>1, <2>2, <2>3, <2>4, <2>5 DEF Rows
  <1>8. TransactionDone'
    BY <1>2, <1>7 DEF TransactionDone
  <1>9. QED
    BY <1>3, <1>5, <1>6, <1>8 DEF RpmInv

LEMMA InStageOp ==
    ASSUME RpmInv, NEW name \in {"pre", "work", "post"}, InStage(name)
    PROVE  current.stage = name /\ op = Idle
  BY RpmFacts DEF InStage, InProgress

LEMMA PsmPreKeeps == ASSUME RpmInv, PsmPre  PROVE RpmInv'
  <1>1. current.stage = "pre" /\ op = Idle /\ UNCHANGED <<todo, trans>>
    BY InStageOp DEF PsmPre
  <1>2. PICK i \in Ids : i = current.pkg
    BY <1>1, InElement
  <1>3. /\ i # Void /\ StageOf(i) = "pre" /\ Rows(i) /\ i \in AllDirs
        /\ rpkgs = [j \in Ids |-> rpkgs[j]] /\ todo = [j \in Ids |-> todo[j]] /\ calls = [j \in Ids |-> calls[j]]
    BY <1>1, <1>2, InElement DEF AllDirs
  <1>4. PICK te, pkg, next : /\ te = Head(todo[i])
                             /\ pkg = IF rpkgs[i] # Void THEN rpkgs[i] ELSE PreNew(te.type)
                             /\ next = PreNext(pkg, te, i)
    OBVIOUS
  <1>5. /\ rpkgs' = [rpkgs EXCEPT ![i] = next]
        /\ IF PreRemoves(pkg, te, i)
           THEN StartRemove(PreDir(pkg, te, i)) /\ GotoStage("removing") /\ calls' = [calls EXCEPT ![i] = Append(@, "uninstall")]
           ELSE GotoStage("work") /\ UNCHANGED <<widgetVars, calls>>
    BY <1>2, <1>4, Zenon DEF PsmPre, Te, PreNext, PreDir, PreRemoves, PreNew
  <1>6. rpkgs' = [j \in Ids |-> rpkgs'[j]] /\ rpkgs'[i] = next /\ \A j \in Ids : j # i => rpkgs'[j] = rpkgs[j]
    BY <1>3, <1>5, FuncSet
  <1>7. ASSUME ~PreRemoves(pkg, te, i)
        PROVE  /\ StageOf(i)' = "work" /\ UNCHANGED <<dirs, units, icons, rules, troubles, calls>>
               /\ Rows(i)' => RpmInv'
    <2>1. GotoStage("work") /\ UNCHANGED <<dirs, icons, units, rules, workdir, perms, op, troubles, calls>>
      BY <1>5, <1>7 DEF widgetVars
    <2>2. current' \in [pkg : Ids \union {Void}, stage : Stages] /\ current'.pkg = i /\ current'.stage = "work"
      BY <1>2, <2>1, CurrentGoto DEF Stages
    <2>3. InProgress'
      BY <1>1, <2>1, <2>2 DEF InProgress
    <2>4. StageOf(i)' = "work"
      BY <2>2 DEF StageOf
    <2>5. Rows(i)' => RpmInv'
      BY <1>1, <1>2, <1>3, <1>6, <2>1, <2>2, <2>3, RpmFacts, RpmKeeps DEF RpmTypeOK
    <2>6. QED  BY <2>1, <2>4, <2>5
  <1>8. ASSUME PreRemoves(pkg, te, i), PreDir(pkg, te, i) = i
        PROVE  /\ StageOf(i)' = "removing" /\ UNCHANGED <<dirs, troubles>>
               /\ calls'[i] = Append(calls[i], "uninstall")
               /\ Rows(i)' => RpmInv'
    <2>1. StartRemove(i) /\ GotoStage("removing") /\ calls' = [calls EXCEPT ![i] = Append(calls[i], "uninstall")]
      BY <1>5, <1>8
    <2>2. current' \in [pkg : Ids \union {Void}, stage : Stages] /\ current'.pkg = i /\ current'.stage = "removing"
      BY <1>2, <2>1, CurrentGoto DEF Stages
    <2>3. UNCHANGED <<dirs, icons, units, rules, perms, troubles>> /\ workdir' \in {workdir, i}
      BY <2>1 DEF StartRemove, SetWorkdir
    <2>4. op' \in RpmOps /\ op'.kind = "remove" /\ op'.step = "oldinfo" /\ op'.dir = i
      <3>1. op' = [Idle EXCEPT !.kind = "remove", !.step = "oldinfo", !.dir = i]
        BY <2>1 DEF StartRemove
      <3>2. QED  BY <1>3, <3>1, RemoveStarts
    <2>5. calls' = [j \in Ids |-> calls'[j]] /\ calls'[i] = Append(calls[i], "uninstall") /\ \A j \in Ids : j # i => calls'[j] = calls[j]
      BY <1>3, <2>1, FuncSet
    <2>6. Removal(i)'
      BY <2>4 DEF Removal
    <2>7. InProgress'
      BY <2>2, <2>4, <2>6, StepNames DEF InProgress
    <2>8. StageOf(i)' = "removing"
      BY <2>2 DEF StageOf
    <2>9. workdir' \in AllDirs \union {Void}
      BY <1>3, <2>3, RpmFacts DEF RpmTypeOK
    <2>10. Rows(i)' => RpmInv'
      BY <1>1, <1>2, <1>3, <1>6, <2>2, <2>3, <2>4, <2>5, <2>7, <2>9, RpmFacts, RpmKeeps DEF RpmTypeOK
    <2>11. QED  BY <2>3, <2>5, <2>8, <2>10
  <1>9. rpkgs[i] = Void => pkg = PreNew(te.type)
    BY <1>4
  <1>10. rpkgs[i] # Void => pkg = rpkgs[i]
    BY <1>4
  <1>11. ASSUME SetUp(i), UNCHANGED <<dirs, troubles>>  PROVE SetUp(i)'
    BY <1>1, <1>11 DEF SetUp
  <1>12. ASSUME UNCHANGED <<dirs, units, icons, rules, troubles>>
         PROVE  (Final(i) => Final(i)') /\ \A w : Down(i, w) => Down(i, w)'
    BY <1>1, <1>12 DEF Final, Down
  <1>13. CASE trans[i].kind = "install" /\ todo[i] = Install1 /\ rpkgs[i] = Void /\ calls[i] = <<>> /\ Down(i, Void)
    <2>1. pkg = PreNew("ADDED") /\ te = AddFiles
      BY <1>4, <1>9, <1>13, Rests, ElementFields
    <2>2. ~PreRemoves(pkg, te, i) /\ rpkgs'[i] = Coming(i)
      BY <1>4, <1>6, <2>1, PreCases
    <2>3. Row(i, Install1, {"work"}, Coming(i), <<>>)' /\ Down(i, Void)'
      BY <1>1, <1>7, <1>12, <1>13, <2>2 DEF Row
    <2>4. Rows(i)'
      BY <1>1, <1>13, <2>3 DEF Rows, InstallRows
    <2>5. QED  BY <1>7, <2>2, <2>4
  <1>14. CASE /\ \/ trans[i].kind = "install" /\ calls[i] = InstallDone
                 \/ trans[i].kind = "upgrade" /\ calls[i] = UpgradeDone
              /\ todo[i] = Last1 /\ rpkgs[i] = Settled(i) /\ Final(i)
    <2>1. pkg = Settled(i) /\ te = AddVoid
      BY <1>4, <1>10, <1>14, Rests, PackageRecords
    <2>2. ~PreRemoves(pkg, te, i) /\ rpkgs'[i] = Settled(i)
      BY <1>4, <1>6, <2>1, PreCases
    <2>3. \A did : calls[i] = did => Row(i, Last1, Waiting \union Passing, Settled(i), did)' /\ Final(i)'
      BY <1>1, <1>7, <1>12, <1>14, <2>2 DEF Row, Passing
    <2>4. Rows(i)'
      <3>1. CASE trans[i].kind = "install" /\ calls[i] = InstallDone
        BY <1>1, <2>3, <3>1 DEF Rows, InstallRows
      <3>2. CASE trans[i].kind = "upgrade" /\ calls[i] = UpgradeDone
        BY <1>1, <2>3, <3>2 DEF Rows, UpgradeRows
      <3>3. QED  BY <1>14, <3>1, <3>2
    <2>5. QED  BY <1>7, <2>2, <2>4
  <1>15. CASE /\ \/ trans[i].kind = "remove" /\ todo[i] = Remove1
                 \/ trans[i].kind = "upgrade" /\ todo[i] = Upgrade1
              /\ rpkgs[i] = Void /\ calls[i] = <<>> /\ SetUp(i)
    <2>1. pkg = Seen /\ te = RemoveVoid
      BY <1>4, <1>9, <1>15, Rests, ElementFields, NewFields
    <2>2. ~PreRemoves(pkg, te, i) /\ rpkgs'[i] = Seen
      BY <1>4, <1>6, <2>1, PreCases
    <2>3. \A rest : todo[i] = rest => Row(i, rest, Passing, Seen, <<>>)' /\ SetUp(i)'
      BY <1>1, <1>7, <1>11, <1>15, <2>2 DEF Row, Passing
    <2>4. Rows(i)'
      <3>1. CASE trans[i].kind = "remove" /\ todo[i] = Remove1
        BY <1>1, <2>3, <3>1 DEF Rows, RemoveRows
      <3>2. CASE trans[i].kind = "upgrade" /\ todo[i] = Upgrade1
        BY <1>1, <2>3, <3>2 DEF Rows, UpgradeRows
      <3>3. QED  BY <1>15, <3>1, <3>2
    <2>5. QED  BY <1>7, <2>2, <2>4
  <1>16. CASE trans[i].kind = "remove" /\ todo[i] = Remove2 /\ rpkgs[i] = Seen /\ calls[i] = <<>> /\ SetUp(i)
    <2>1. pkg = Seen /\ te = RemoveFiles
      BY <1>4, <1>10, <1>16, Rests, PackageRecords
    <2>2. PreRemoves(pkg, te, i) /\ PreDir(pkg, te, i) = i /\ rpkgs'[i] = Leaving(i)
      BY <1>4, <1>6, <2>1, PreCases
    <2>3. Row(i, Remove2, {"removing"}, Leaving(i), Uninstall)' /\ SetUp(i)'
      BY <1>1, <1>8, <1>11, <1>16, <2>2, CallsMore DEF Row
    <2>4. Rows(i)'
      BY <1>1, <1>16, <2>3 DEF Rows, RemoveRows
    <2>5. QED  BY <1>8, <2>2, <2>4
  <1>17. CASE trans[i].kind = "upgrade" /\ todo[i] = Upgrade2 /\ rpkgs[i] = Seen /\ calls[i] = <<>> /\ SetUp(i)
    <2>1. pkg = Seen /\ te = AddFiles
      BY <1>4, <1>10, <1>17, Rests, PackageRecords
    <2>2. PreRemoves(pkg, te, i) /\ PreDir(pkg, te, i) = i /\ rpkgs'[i] = Moving(i)
      BY <1>4, <1>6, <2>1, PreCases
    <2>3. Row(i, Upgrade2, {"removing"}, Moving(i), Uninstall)' /\ SetUp(i)'
      BY <1>1, <1>8, <1>11, <1>17, <2>2, CallsMore DEF Row
    <2>4. Rows(i)'
      BY <1>1, <1>17, <2>3 DEF Rows, UpgradeRows
    <2>5. QED  BY <1>8, <2>2, <2>4
  <1>18. CASE trans[i].kind = "upgrade" /\ todo[i] = Upgrade3 /\ rpkgs[i] = Coming(i) /\ calls[i] = Replace
              /\ Down(i, trans[i].new)
    <2>1. pkg = Coming(i) /\ te = RemoveFiles
      BY <1>4, <1>10, <1>18, Rests, PackageRecords
    <2>2. ~PreRemoves(pkg, te, i) /\ rpkgs'[i] = Coming(i)
      BY <1>4, <1>6, <2>1, PreCases
    <2>3. Row(i, Upgrade3, Waiting \union {"work"}, Coming(i), Replace)' /\ Down(i, trans[i].new)'
      BY <1>1, <1>7, <1>12, <1>18, <2>2 DEF Row
    <2>4. Rows(i)'
      BY <1>1, <1>18, <2>3 DEF Rows, UpgradeRows
    <2>5. QED  BY <1>7, <2>2, <2>4
  <1>19. QED
    <2>1. CASE trans[i].kind = "install"
      BY <1>3, <1>13, <1>14, <2>1 DEF Rows, InstallRows, Row
    <2>2. CASE trans[i].kind = "remove"
      BY <1>3, <1>15, <1>16, <2>2 DEF Rows, RemoveRows, Row, Passing
    <2>3. CASE trans[i].kind = "upgrade"
      BY <1>3, <1>14, <1>15, <1>17, <1>18, <2>3 DEF Rows, UpgradeRows, Row, Passing
    <2>4. QED
      BY <1>3, <2>1, <2>2, <2>3 DEF Rows, Row

LEMMA RpmWorkKeeps == ASSUME RpmInv, UnpackMayFail = FALSE, RpmWork  PROVE RpmInv'
  <1>1. current.stage = "work" /\ op = Idle
        /\ UNCHANGED <<icons, units, rules, workdir, perms, op, troubles, rpkgs, todo, trans>>
    BY InStageOp DEF RpmWork
  <1>2. PICK i \in Ids : i = current.pkg
    BY <1>1, InElement
  <1>3. /\ i # Void /\ StageOf(i) = "work" /\ Rows(i) /\ i \in AllDirs /\ trans \in Transactions
        /\ rpkgs = [j \in Ids |-> rpkgs[j]] /\ todo = [j \in Ids |-> todo[j]] /\ calls = [j \in Ids |-> calls[j]]
    BY <1>1, <1>2, InElement DEF AllDirs
  <1>4. PICK te : te = Head(todo[i])
    OBVIOUS
  <1>5. /\ dirs' = IF ~te.files THEN dirs
                   ELSE IF te.type = "ADDED" THEN [dirs EXCEPT ![i] = trans[i].new]
                   ELSE IF trans[i].new = Void THEN [dirs EXCEPT ![i] = Void] ELSE dirs
        /\ calls' = IF te.files THEN [calls EXCEPT ![i] = Append(@, IF te.type = "ADDED" THEN "unpack" ELSE "erase")] ELSE calls
        /\ GotoStage("post")
    BY <1>2, <1>4 DEF RpmWork, Te
  <1>6. current' \in [pkg : Ids \union {Void}, stage : Stages] /\ current'.pkg = i /\ current'.stage = "post"
    BY <1>2, <1>5, CurrentGoto DEF Stages
  <1>7. StageOf(i)' = "post" /\ InProgress'
    BY <1>1, <1>6 DEF StageOf, InProgress
  <1>8. dirs \in Disks /\ DOMAIN dirs = AllDirs /\ trans[i].new \in Held /\ Void \in Held
    BY <1>3, RpmFacts, Asked, VoidHeld DEF RpmTypeOK, Disks
  <1>9. ASSUME dirs' \in Disks, \A j \in Ids : j # i => dirs'[j] = dirs[j],
               calls' = [j \in Ids |-> calls'[j]], \A j \in Ids : j # i => calls'[j] = calls[j], Rows(i)'
        PROVE  RpmInv'
    BY <1>1, <1>2, <1>3, <1>6, <1>7, <1>9, RpmFacts, RpmKeeps DEF RpmTypeOK
  <1>10. ASSUME te.files = FALSE  PROVE UNCHANGED <<dirs, calls>> /\ (Rows(i)' => RpmInv')
    <2>1. UNCHANGED <<dirs, calls>>
      BY <1>5, <1>10
    <2>2. QED  BY <1>3, <1>8, <1>9, <2>1
  <1>11. ASSUME te.files = TRUE, te.type = "ADDED"
         PROVE  dirs'[i] = trans[i].new /\ calls'[i] = Append(calls[i], "unpack") /\ (Rows(i)' => RpmInv')
    <2>1. dirs' = [dirs EXCEPT ![i] = trans[i].new] /\ calls' = [calls EXCEPT ![i] = Append(calls[i], "unpack")]
      BY <1>5, <1>11
    <2>2. dirs' \in Disks /\ dirs'[i] = trans[i].new /\ \A j \in Ids : j # i => dirs'[j] = dirs[j]
      BY <1>3, <1>8, <2>1 DEF Disks
    <2>3. calls' = [j \in Ids |-> calls'[j]] /\ calls'[i] = Append(calls[i], "unpack") /\ \A j \in Ids : j # i => calls'[j] = calls[j]
      BY <1>3, <2>1, FuncSet
    <2>4. QED  BY <1>9, <2>2, <2>3
  <1>12. ASSUME te.files = TRUE, te.type = "REMOVED"
         PROVE  /\ dirs'[i] = IF trans[i].new = Void THEN Void ELSE dirs[i]
                /\ calls'[i] = Append(calls[i], "erase") /\ (Rows(i)' => RpmInv')
    <2>1. dirs' = (IF trans[i].new = Void THEN [dirs EXCEPT ![i] = Void] ELSE dirs)
          /\ calls' = [calls EXCEPT ![i] = Append(calls[i], "erase")]
      BY <1>5, <1>12
    <2>2. dirs' \in Disks /\ (\A j \in Ids : j # i => dirs'[j] = dirs[j])
          /\ dirs'[i] = IF trans[i].new = Void THEN Void ELSE dirs[i]
      BY <1>3, <1>8, <2>1 DEF Disks
    <2>3. calls' = [j \in Ids |-> calls'[j]] /\ calls'[i] = Append(calls[i], "erase") /\ \A j \in Ids : j # i => calls'[j] = calls[j]
      BY <1>3, <2>1, FuncSet
    <2>4. QED  BY <1>9, <2>2, <2>3
  <1>13. CASE trans[i].kind = "install"
    <2>1. CASE todo[i] = Install1 /\ rpkgs[i] = Coming(i) /\ calls[i] = <<>> /\ Down(i, Void)
      <3>1. te.files = TRUE /\ te.type = "ADDED"
        BY <1>4, <2>1, Rests, ElementFields
      <3>2. Row(i, Install1, {"post"}, Coming(i), Unpack)'
        BY <1>1, <1>7, <1>11, <2>1, <3>1, CallsMore DEF Row
      <3>3. Down(i, trans[i].new)'
        BY <1>1, <1>11, <2>1, <3>1 DEF Down
      <3>4. Rows(i)'
        BY <1>1, <1>13, <3>2, <3>3 DEF Rows, InstallRows
      <3>5. QED  BY <1>11, <3>1, <3>4
    <2>2. CASE todo[i] = Last1 /\ rpkgs[i] = Settled(i) /\ calls[i] = InstallDone /\ Final(i)
      <3>1. te.files = FALSE
        BY <1>4, <2>2, Rests, ElementFields
      <3>2. Row(i, Last1, Waiting \union Passing, Settled(i), InstallDone)'
        BY <1>1, <1>7, <1>10, <2>2, <3>1 DEF Row, Passing
      <3>3. Final(i)'
        BY <1>1, <1>10, <2>2, <3>1 DEF Final
      <3>4. Rows(i)'
        BY <1>1, <1>13, <3>2, <3>3 DEF Rows, InstallRows
      <3>5. QED  BY <1>10, <3>1, <3>4
    <2>3. QED
      BY <1>3, <1>13, <2>1, <2>2 DEF Rows, InstallRows, Row, Waiting
  <1>14. CASE trans[i].kind = "remove"
    <2>1. CASE todo[i] = Remove1 /\ rpkgs[i] = Seen /\ calls[i] = <<>> /\ SetUp(i)
      <3>1. te.files = FALSE
        BY <1>4, <2>1, Rests, ElementFields
      <3>2. Row(i, Remove1, Passing, Seen, <<>>)'
        BY <1>1, <1>7, <1>10, <2>1, <3>1 DEF Row, Passing
      <3>3. SetUp(i)'
        BY <1>1, <1>10, <2>1, <3>1 DEF SetUp
      <3>4. Rows(i)'
        BY <1>1, <1>14, <3>2, <3>3 DEF Rows, RemoveRows
      <3>5. QED  BY <1>10, <3>1, <3>4
    <2>2. CASE todo[i] = Remove2 /\ rpkgs[i] = Leaving(i) /\ calls[i] = Uninstall /\ Down(i, trans[i].old)
      <3>1. te.files = TRUE /\ te.type = "REMOVED" /\ trans[i].new = Void
        BY <1>3, <1>4, <1>14, <2>2, Rests, ElementFields, Asked
      <3>2. Row(i, Remove2, {"post", "done"}, Leaving(i), RemoveDone)'
        BY <1>1, <1>7, <1>12, <2>2, <3>1, CallsMore DEF Row
      <3>3. Down(i, Void)'
        BY <1>1, <1>12, <2>2, <3>1 DEF Down
      <3>4. Rows(i)'
        BY <1>1, <1>14, <3>2, <3>3 DEF Rows, RemoveRows
      <3>5. QED  BY <1>12, <3>1, <3>4
    <2>3. QED
      BY <1>3, <1>14, <2>1, <2>2 DEF Rows, RemoveRows, Row, Waiting
  <1>15. CASE trans[i].kind = "upgrade"
    <2>1. CASE todo[i] = Upgrade1 /\ rpkgs[i] = Seen /\ calls[i] = <<>> /\ SetUp(i)
      <3>1. te.files = FALSE
        BY <1>4, <2>1, Rests, ElementFields
      <3>2. Row(i, Upgrade1, Passing, Seen, <<>>)'
        BY <1>1, <1>7, <1>10, <2>1, <3>1 DEF Row, Passing
      <3>3. SetUp(i)'
        BY <1>1, <1>10, <2>1, <3>1 DEF SetUp
      <3>4. Rows(i)'
        BY <1>1, <1>15, <3>2, <3>3 DEF Rows, UpgradeRows
      <3>5. QED  BY <1>10, <3>1, <3>4
    <2>2. CASE todo[i] = Upgrade2 /\ rpkgs[i] = Moving(i) /\ calls[i] = Uninstall /\ Down(i, trans[i].old)
      <3>1. te.files = TRUE /\ te.type = "ADDED"
        BY <1>4, <2>2, Rests, ElementFields
      <3>2. Row(i, Upgrade2, {"post"}, Moving(i), Replace)'
        BY <1>1, <1>7, <1>11, <2>2, <3>1, CallsMore DEF Row
      <3>3. Down(i, trans[i].new)'
        BY <1>1, <1>11, <2>2, <3>1 DEF Down
      <3>4. Rows(i)'
        BY <1>1, <1>15, <3>2, <3>3 DEF Rows, UpgradeRows
      <3>5. QED  BY <1>11, <3>1, <3>4
    <2>3. CASE todo[i] = Upgrade3 /\ rpkgs[i] = Coming(i) /\ calls[i] = Replace /\ Down(i, trans[i].new)
      <3>1. te.files = TRUE /\ te.type = "REMOVED" /\ trans[i].new # Void
        BY <1>3, <1>4, <1>15, <2>3, Rests, ElementFields, Asked
      <3>2. Row(i, Upgrade3, {"post"}, Coming(i), Replaced)'
        BY <1>1, <1>7, <1>12, <2>3, <3>1, CallsMore DEF Row
      <3>3. Down(i, trans[i].new)'
        BY <1>1, <1>12, <2>3, <3>1 DEF Down
      <3>4. Rows(i)'
        BY <1>1, <1>15, <3>2, <3>3 DEF Rows, UpgradeRows
      <3>5. QED  BY <1>12, <3>1, <3>4
    <2>4. CASE todo[i] = Last1 /\ rpkgs[i] = Settled(i) /\ calls[i] = UpgradeDone /\ Final(i)
      <3>1. te.files = FALSE
        BY <1>4, <2>4, Rests, ElementFields
      <3>2. Row(i, Last1, Waiting \union Passing, Settled(i), UpgradeDone)'
        BY <1>1, <1>7, <1>10, <2>4, <3>1 DEF Row, Passing
      <3>3. Final(i)'
        BY <1>1, <1>10, <2>4, <3>1 DEF Final
      <3>4. Rows(i)'
        BY <1>1, <1>15, <3>2, <3>3 DEF Rows, UpgradeRows
      <3>5. QED  BY <1>10, <3>1, <3>4
    <2>5. QED
      BY <1>3, <1>15, <2>1, <2>2, <2>3, <2>4 DEF Rows, UpgradeRows, Row, Waiting
  <1>16. QED
    BY <1>3, <1>13, <1>14, <1>15 DEF Rows, Row

LEMMA PsmPostKeeps == ASSUME RpmInv, PsmPost  PROVE RpmInv'
  <1>1. current.stage = "post" /\ op = Idle /\ UNCHANGED <<todo, trans>>
    BY InStageOp DEF PsmPost
  <1>2. PICK i \in Ids : i = current.pkg
    BY <1>1, InElement
  <1>3. /\ i # Void /\ StageOf(i) = "post" /\ Rows(i) /\ i \in AllDirs /\ trans \in Transactions
        /\ rpkgs = [j \in Ids |-> rpkgs[j]] /\ todo = [j \in Ids |-> todo[j]] /\ calls = [j \in Ids |-> calls[j]]
    BY <1>1, <1>2, InElement DEF AllDirs
  <1>4. PICK te, pkg : te = Head(todo[i]) /\ pkg = rpkgs[i]
    OBVIOUS
  <1>5. IF ~pkg.toremove /\ ~pkg.installed /\ pkg.toinstall
        THEN /\ StartRedpesk(pkg.dir) /\ GotoStage("installing")
             /\ rpkgs' = [rpkgs EXCEPT ![i] = PostInstalled(pkg, te)]
             /\ calls' = [calls EXCEPT ![i] = Append(@, "install")]
        ELSE /\ GotoStage("done")
             /\ rpkgs' = [rpkgs EXCEPT ![i] = PostNext(pkg, te)]
             /\ UNCHANGED <<widgetVars, calls>>
    BY <1>2, <1>4, Zenon DEF PsmPost, Te, PostInstalled, PostNext
  <1>6. ASSUME NEW next, PostNext(pkg, te) = next, pkg.toremove = TRUE \/ pkg.installed = TRUE
        PROVE  /\ StageOf(i)' = "done" /\ UNCHANGED <<dirs, units, icons, rules, troubles, calls>> /\ rpkgs'[i] = next
               /\ Rows(i)' => RpmInv'
    <2>1. GotoStage("done") /\ rpkgs' = [rpkgs EXCEPT ![i] = next]
          /\ UNCHANGED <<dirs, icons, units, rules, workdir, perms, op, troubles, calls>>
      BY <1>5, <1>6 DEF widgetVars
    <2>2. current' \in [pkg : Ids \union {Void}, stage : Stages] /\ current'.pkg = i /\ current'.stage = "done"
      BY <1>2, <2>1, CurrentGoto DEF Stages
    <2>3. InProgress' /\ StageOf(i)' = "done"
      BY <1>1, <2>1, <2>2 DEF InProgress, StageOf
    <2>4. rpkgs' = [j \in Ids |-> rpkgs'[j]] /\ rpkgs'[i] = next /\ \A j \in Ids : j # i => rpkgs'[j] = rpkgs[j]
      BY <1>3, <2>1, FuncSet
    <2>5. Rows(i)' => RpmInv'
      BY <1>1, <1>2, <1>3, <2>1, <2>2, <2>3, <2>4, RpmFacts, RpmKeeps DEF RpmTypeOK
    <2>6. QED  BY <2>1, <2>3, <2>4, <2>5
  <1>7. ASSUME pkg = Coming(i), PostInstalled(pkg, te) = Settled(i), trans[i].new # Void, Down(i, trans[i].new)
        PROVE  /\ StageOf(i)' = "installing" /\ There(i)' /\ rpkgs'[i] = Settled(i)
               /\ calls'[i] = Append(calls[i], "install") /\ (Rows(i)' => RpmInv')
    <2>1. pkg.toremove = FALSE /\ pkg.installed = FALSE /\ pkg.toinstall = TRUE /\ pkg.dir = i
      BY <1>7, RecordFields
    <2>2. StartRedpesk(i) /\ GotoStage("installing") /\ rpkgs' = [rpkgs EXCEPT ![i] = Settled(i)]
          /\ calls' = [calls EXCEPT ![i] = Append(calls[i], "install")]
      BY <1>5, <1>7, <2>1
    <2>3. current' \in [pkg : Ids \union {Void}, stage : Stages] /\ current'.pkg = i /\ current'.stage = "installing"
      BY <1>2, <2>2, CurrentGoto DEF Stages
    <2>4. UNCHANGED <<dirs, icons, units, rules, perms, troubles>> /\ workdir' = IF dirs[i] = Void THEN workdir ELSE i
      BY <2>2 DEF StartRedpesk, SetWorkdir
    <2>5. op' \in RpmOps /\ op'.kind = "redpesk" /\ op'.step = "check"
      <3>1. op' = [Idle EXCEPT !.kind = "redpesk", !.step = "check", !.dir = i]
        BY <2>2 DEF StartRedpesk
      <3>2. QED  BY <1>3, <3>1, RedpeskStarts
    <2>6. calls' = [j \in Ids |-> calls'[j]] /\ calls'[i] = Append(calls[i], "install") /\ \A j \in Ids : j # i => calls'[j] = calls[j]
      BY <1>3, <2>2, FuncSet
    <2>7. rpkgs' = [j \in Ids |-> rpkgs'[j]] /\ rpkgs'[i] = Settled(i) /\ \A j \in Ids : j # i => rpkgs'[j] = rpkgs[j]
      BY <1>3, <2>2, FuncSet
    <2>8. troubles' = 0 => Setup(i)'
      BY <1>7, <2>4, <2>5 DEF Setup, Down
    <2>9. InProgress' /\ StageOf(i)' = "installing"
      BY <2>3, <2>5, <2>8, StepNames DEF InProgress, StageOf
    <2>10. There(i)'
      BY <1>1, <1>7, <2>4 DEF There, Down
    <2>11. workdir' \in AllDirs \union {Void}
      BY <1>3, <2>4, RpmFacts DEF RpmTypeOK
    <2>12. Rows(i)' => RpmInv'
      BY <1>1, <1>2, <1>3, <2>3, <2>4, <2>5, <2>6, <2>7, <2>9, <2>11, RpmFacts, RpmKeeps DEF RpmTypeOK
    <2>13. QED  BY <2>6, <2>7, <2>9, <2>10, <2>12
  <1>8. ASSUME UNCHANGED <<dirs, units, icons, rules, troubles>>
        PROVE  (SetUp(i) => SetUp(i)') /\ (Final(i) => Final(i)') /\ \A w : Down(i, w) => Down(i, w)'
    BY <1>1, <1>8 DEF SetUp, Final, Down
  <1>9. CASE trans[i].kind = "install"
    <2>1. CASE todo[i] = Install1 /\ rpkgs[i] = Coming(i) /\ calls[i] = Unpack /\ Down(i, trans[i].new)
      <3>1. pkg = Coming(i) /\ PostInstalled(pkg, te) = Settled(i) /\ trans[i].new # Void
        BY <1>3, <1>4, <1>9, <2>1, Rests, PostCases, Asked
      <3>2. Row(i, Install1, {"installing"}, Settled(i), InstallDone)'
        BY <1>1, <1>7, <2>1, <3>1, CallsMore DEF Row
      <3>3. Rows(i)'
        BY <1>1, <1>7, <1>9, <2>1, <3>1, <3>2 DEF Rows, InstallRows
      <3>4. QED  BY <1>7, <2>1, <3>1, <3>3
    <2>2. CASE todo[i] = Last1 /\ rpkgs[i] = Settled(i) /\ calls[i] = InstallDone /\ Final(i)
      <3>1. PostNext(pkg, te) = Settled(i) /\ pkg.installed = TRUE
        BY <1>4, <2>2, Rests, PostCases, RecordFields
      <3>2. Row(i, Last1, Waiting \union Passing, Settled(i), InstallDone)' /\ Final(i)'
        BY <1>1, <1>6, <1>8, <2>2, <3>1 DEF Row, Passing
      <3>3. Rows(i)'
        BY <1>1, <1>9, <3>2 DEF Rows, InstallRows
      <3>4. QED  BY <1>6, <3>1, <3>3
    <2>3. QED
      BY <1>3, <1>9, <2>1, <2>2 DEF Rows, InstallRows, Row, Waiting
  <1>10. CASE trans[i].kind = "remove"
    <2>1. CASE todo[i] = Remove1 /\ rpkgs[i] = Seen /\ calls[i] = <<>> /\ SetUp(i)
      <3>1. PostNext(pkg, te) = Seen /\ pkg.toremove = TRUE
        BY <1>4, <2>1, Rests, PostCases, RecordFields
      <3>2. Row(i, Remove1, Passing, Seen, <<>>)' /\ SetUp(i)'
        BY <1>1, <1>6, <1>8, <2>1, <3>1 DEF Row, Passing
      <3>3. Rows(i)'
        BY <1>1, <1>10, <3>2 DEF Rows, RemoveRows
      <3>4. QED  BY <1>6, <3>1, <3>3
    <2>2. CASE todo[i] = Remove2 /\ rpkgs[i] = Leaving(i) /\ calls[i] = RemoveDone /\ Down(i, Void)
      <3>1. PostNext(pkg, te) = Leaving(i) /\ pkg.toremove = TRUE
        <4>1. pkg = Leaving(i) /\ te = RemoveFiles
          BY <1>4, <2>2, Rests
        <4>2. PostNext(pkg, te) = Leaving(i)
          BY <4>1, PostCases
        <4>3. pkg.toremove = TRUE
          BY <4>1, RecordFields
        <4>4. QED  BY <4>2, <4>3
      <3>2. Row(i, Remove2, {"post", "done"}, Leaving(i), RemoveDone)' /\ Down(i, Void)'
        BY <1>1, <1>6, <1>8, <2>2, <3>1 DEF Row
      <3>3. Rows(i)'
        BY <1>1, <1>10, <3>2 DEF Rows, RemoveRows
      <3>4. QED  BY <1>6, <3>1, <3>3
    <2>3. QED
      BY <1>3, <1>10, <2>1, <2>2 DEF Rows, RemoveRows, Row, Waiting
  <1>11. CASE trans[i].kind = "upgrade"
    <2>1. CASE todo[i] = Upgrade1 /\ rpkgs[i] = Seen /\ calls[i] = <<>> /\ SetUp(i)
      <3>1. PostNext(pkg, te) = Seen /\ pkg.toremove = TRUE
        BY <1>4, <2>1, Rests, PostCases, RecordFields
      <3>2. Row(i, Upgrade1, Passing, Seen, <<>>)' /\ SetUp(i)'
        BY <1>1, <1>6, <1>8, <2>1, <3>1 DEF Row, Passing
      <3>3. Rows(i)'
        BY <1>1, <1>11, <3>2 DEF Rows, UpgradeRows
      <3>4. QED  BY <1>6, <3>1, <3>3
    <2>2. CASE todo[i] = Upgrade2 /\ rpkgs[i] = Moving(i) /\ calls[i] = Replace /\ Down(i, trans[i].new)
      <3>1. PostNext(pkg, te) = Coming(i) /\ pkg.toremove = TRUE
        <4>1. pkg = Moving(i) /\ te = AddFiles
          BY <1>4, <2>2, Rests
        <4>2. PostNext(pkg, te) = Coming(i)
          BY <4>1, PostCases
        <4>3. pkg.toremove = TRUE
          BY <4>1, RecordFields
        <4>4. QED  BY <4>2, <4>3
      <3>2. Row(i, Upgrade2, {"done"}, Coming(i), Replace)' /\ Down(i, trans[i].new)'
        BY <1>1, <1>6, <1>8, <2>2, <3>1 DEF Row
      <3>3. Rows(i)'
        BY <1>1, <1>11, <3>2 DEF Rows, UpgradeRows
      <3>4. QED  BY <1>6, <3>1, <3>3
    <2>3. CASE todo[i] = Upgrade3 /\ rpkgs[i] = Coming(i) /\ calls[i] = Replaced /\ Down(i, trans[i].new)
      <3>1. pkg = Coming(i) /\ PostInstalled(pkg, te) = Settled(i) /\ trans[i].new # Void
        BY <1>3, <1>4, <1>11, <2>3, Rests, PostCases, Asked
      <3>2. Row(i, Upgrade3, {"installing"}, Settled(i), UpgradeDone)'
        BY <1>1, <1>7, <2>3, <3>1, CallsMore DEF Row
      <3>3. Rows(i)'
        BY <1>1, <1>7, <1>11, <2>3, <3>1, <3>2 DEF Rows, UpgradeRows
      <3>4. QED  BY <1>7, <2>3, <3>1, <3>3
    <2>4. CASE todo[i] = Last1 /\ rpkgs[i] = Settled(i) /\ calls[i] = UpgradeDone /\ Final(i)
      <3>1. PostNext(pkg, te) = Settled(i) /\ pkg.installed = TRUE
        BY <1>4, <2>4, Rests, PostCases, RecordFields
      <3>2. Row(i, Last1, Waiting \union Passing, Settled(i), UpgradeDone)' /\ Final(i)'
        BY <1>1, <1>6, <1>8, <2>4, <3>1 DEF Row, Passing
      <3>3. Rows(i)'
        BY <1>1, <1>11, <3>2 DEF Rows, UpgradeRows
      <3>4. QED  BY <1>6, <3>1, <3>3
    <2>5. QED
      BY <1>3, <1>11, <2>1, <2>2, <2>3, <2>4 DEF Rows, UpgradeRows, Row, Waiting
  <1>12. QED
    BY <1>3, <1>9, <1>10, <1>11 DEF Rows, Row

LEMMA RpmStarts == ASSUME RpmInit  PROVE RpmInv
  <1>1. trans \in Transactions /\ op = Idle /\ workdir = Void /\ perms = NoPerms /\ troubles = 0 /\ current = NoElement
        /\ rpkgs = [i \in Ids |-> Void] /\ todo = [i \in Ids |-> Sequence[trans[i].kind]] /\ calls = [i \in Ids |-> <<>>]
    BY DEF RpmInit
  <1>2. current \in [pkg : Ids \union {Void}, stage : Stages] /\ current.pkg = Void /\ current.stage = "none"
    BY <1>1 DEF NoElement, Stages
  <1>3. Void \notin Ids
    BY VoidAssumption DEF AllDirs
  <1>4. dirs \in Disks /\ units \in Tables /\ icons \in Tables /\ rules = [i \in Ids |-> rules[i]]
    <2>1. \A i \in Ids : trans[i].old \in Held
      BY <1>1, Asked
    <2>2. dirs \in Disks
      BY <2>1, VoidHeld DEF RpmInit, Disks
    <2>3. units \in Tables
      BY <2>1 DEF RpmInit, Tables
    <2>4. icons \in Tables
      BY <2>1, VoidHeld DEF RpmInit, Tables
    <2>5. rules = [i \in Ids |-> rules[i]]
      <3>1. PICK F : F = [i \in Ids |-> IF trans[i].old = Void THEN Void ELSE
                            [paths |-> PathTypes(trans[i].old.files, trans[i].old), permits |-> {DefaultPerm}]]
        OBVIOUS
      <3>2. F = [i \in Ids |-> F[i]]
        BY <3>1
      <3>3. QED  BY <3>1, <3>2 DEF RpmInit
    <2>6. QED  BY <2>2, <2>3, <2>4, <2>5
  <1>5. perms \in PermTables
    BY <1>1 DEF NoPerms, PermTables
  <1>6. RpmTypeOK
    <2>1. rpkgs = [i \in Ids |-> rpkgs[i]] /\ todo = [i \in Ids |-> todo[i]] /\ calls = [i \in Ids |-> calls[i]]
      BY <1>1
    <2>2. QED
      BY <1>1, <1>2, <1>3, <1>4, <1>5, <2>1, IdleIs DEF RpmTypeOK
  <1>7. InProgress
    BY <1>1, <1>2 DEF InProgress
  <1>8. ASSUME NEW i \in Ids  PROVE Rows(i)
    <2>1. trans[i].kind \in {"install", "remove", "upgrade", "none"} /\ (trans[i].kind = "install" => trans[i].old = Void)
      BY <1>1, Asked
    <2>2. StageOf(i) = "none" /\ rpkgs[i] = Void /\ calls[i] = <<>> /\ todo[i] = Sequence[trans[i].kind]
      BY <1>1, <1>2, <1>3 DEF StageOf
    <2>3. dirs[i] = trans[i].old /\ units[i] = trans[i].old
          /\ (trans[i].old = Void => icons[i] = Void /\ rules[i] = Void)
      BY DEF RpmInit, AllDirs
    <2>4. SetUp(i) /\ (trans[i].kind = "install" => Down(i, Void))
      BY <2>1, <2>3 DEF SetUp, Down
    <2>5. \A rest : todo[i] = rest => Row(i, rest, Waiting, Void, <<>>) /\ Row(i, rest, {"none"}, Void, <<>>)
      BY <2>2 DEF Row, Waiting
    <2>6. CASE trans[i].kind = "install"
      BY <2>2, <2>4, <2>5, <2>6, SequenceIs DEF Rows, InstallRows
    <2>7. CASE trans[i].kind = "remove"
      BY <2>2, <2>4, <2>5, <2>7, SequenceIs DEF Rows, RemoveRows
    <2>8. CASE trans[i].kind = "upgrade"
      BY <2>2, <2>4, <2>5, <2>8, SequenceIs DEF Rows, UpgradeRows
    <2>9. CASE trans[i].kind = "none"
      BY <2>2, <2>5, <2>9, SequenceIs DEF Rows
    <2>10. QED  BY <2>1, <2>6, <2>7, <2>8, <2>9
  <1>9. TransactionDone
    BY <1>2 DEF TransactionDone
  <1>10. QED
    BY <1>6, <1>7, <1>8, <1>9 DEF RpmInv

\* For any packages, what is removed or replaced having been set up, any order of the elements, any failures and
\* deaths, and an rpm that unpacks what it is to: each package of a transaction is set down before its files are
\* touched and set up after the last of them, once, and without failure the system is as the new packages want it
\* (redpesk_psm_pre, redpesk_psm_post).
THEOREM TransactionCorrect == ASSUME UnpackMayFail = FALSE  PROVE RpmSpec => []TransactionDone
  <1>1. RpmInit => RpmInv
    BY RpmStarts
  <1>2. RpmInv /\ [TransactionNext]_legacyVars => RpmInv'
    <2>1. SUFFICES ASSUME RpmInv, [TransactionNext]_legacyVars  PROVE RpmInv'
      OBVIOUS
    <2>2. CASE RpmStep
      BY <2>1, <2>2, RpmElementKeeps, PsmPreKeeps, RemovedKeeps, RpmWorkKeeps, PsmPostKeeps, ElementDoneKeeps,
         RedpeskTsmPostKeeps DEF RpmStep
    <2>3. CASE WidgetStep /\ UNCHANGED rpmVars
      BY <2>1, <2>3, WidgetStepKeeps
    <2>4. CASE UNCHANGED legacyVars
      <3>1. UNCHANGED <<dirs, icons, units, rules, workdir, files, perms, op, troubles, rpkgs, todo, current, trans, calls>>
        BY <2>4 DEF legacyVars, widgetVars, rpmVars
      <3>2. RpmTypeOK' /\ InProgress' /\ TransactionDone'
        BY <2>1, <3>1, RpmFacts DEF RpmTypeOK, InProgress, Removal, Setup, TransactionDone
      <3>3. ASSUME NEW j \in Ids, current.stage # "end"  PROVE Rows(j)'
        <4>1. Rows(j) /\ StageOf(j)' = StageOf(j)
          BY <2>1, <3>1, <3>3, RpmFacts DEF StageOf
        <4>2. QED  BY <3>1, <4>1, RowsKept
      <3>4. QED
        BY <3>1, <3>2, <3>3 DEF RpmInv
    <2>5. QED
      BY <2>1, <2>2, <2>3, <2>4 DEF TransactionNext
  <1>3. RpmInv => TransactionDone
    BY DEF RpmInv
  <1>4. QED
    BY <1>1, <1>2, <1>3, PTL DEF RpmSpec
============================================================================
