------------------------------ MODULE MCPackaging ------------------------------
(***************************************************************************)
(* What runs beside the installer daemon, on small instances: either the   *)
(* rpm plugin, or the database that is read again after it, or one of the  *)
(* legacy parts: the tools that sign and pack, the tool wgtpkg-install, a  *)
(* transaction of rpm with the former plugin.                              *)
(***************************************************************************)
EXTENDS RpmPlugin, AfmUdb, LegacyRpm, WidgetSign

VARIABLE mode

Param(p, v) == [name |-> p, value |-> v]
Feature(t, f) == [type |-> t, path |-> f]
Wgt(id, list, feats, icon, params) ==
    [id |-> id, files |-> list, features |-> feats, icon |-> icon, params |-> params,
     contents |-> <<list[1]>>, strings |-> TRUE, config |-> TRUE, signed |-> TRUE, props |-> TRUE, zip |-> TRUE]

\* The plugin: an upgrade of a package, an addition and an element of another type; then a
\* set in between.  Buffer0 holds the requests of two files, not of four.
Te0(type, n) == [type |-> type, files |-> n]
MCElements ==
    [s \in Sets |->
       IF s = "s1"
       THEN <<Te0("added", 1), Te0("removed", 2), Te0("other", 0), Te0("added", 4), Te0("removed", 0)>>
       ELSE <<Te0("removed", 1), Te0("added", 2)>>]

\* The flags of one set at a time are special.
MCFlagChoices == {f \in [Sets -> SUBSET Flags] : f["s1"] = {} \/ f["s2"] = {}}

\* The database: two unit files, any change of them, errors included.
MCDisks == [UnitFiles -> {"none", "visible"}]
MCChanges == UnitFiles \X Kinds

MCSigFiles == <<"signature1", "signature2">>

MCTemps == <<"TMP0", "TMP1", "TMP2">>   \* one more than the deaths that may leave one

\* Two versions of a, one that is wrong late, and b.
A1 == Wgt("a", <<<<"bin", "x">>, <<"icon">>, <<"lib", "y">>>>, <<Feature("public", <<"lib", "y">>)>>, <<"icon">>,
          <<Param("p", "required")>>)
A2 == Wgt("a", <<<<"bin", "x">>, <<"lib", "a", "y">>, <<"lib", "a", "z">>>>, <<Feature("public", <<"lib", "a", "y">>)>>, <<>>,
          <<Param("q", "optional")>>)
A3 == [Wgt("a", <<<<"bin", "x">>>>, <<>>, <<>>, <<>>) EXCEPT !.props = FALSE]
B1 == Wgt("b", <<<<"var", "d">>, <<"w">>>>, <<>>, <<"w">>, <<>>)

\* What the checks refuse: the signature, a permission after a valid one, a content that is
\* not there.  An archive or a configuration that is wrong fails as a system call does.
B2 == [B1 EXCEPT !.params = <<Param("q", "required"), Param("p", "maybe")>>]
Refused == {[B1 EXCEPT !.signed = FALSE], [B1 EXCEPT !.contents = <<<<"no">>>>], B2}
MCPackages == {A1, A2, A3, B1} \union Refused

Do(kind, old, new) == [kind |-> kind, old |-> old, new |-> new]
MCTransactions ==
    {[a |-> x, b |-> y] :
        x \in {Do("install", Void, A1), Do("remove", A1, Void), Do("upgrade", A1, A2), Do("upgrade", A2, A1),
               Do("install", Void, A3)},
        y \in {Do("none", B1, B1), Do("install", Void, B1), Do("remove", B1, Void), Do("upgrade", B1, B1),
               Do("upgrade", B1, B2)}}

NoTransaction ==
    /\ trans = [i \in Ids |-> Do("none", Void, Void)] /\ rpkgs = [i \in Ids |-> Void]
    /\ todo = [i \in Ids |-> <<>>] /\ current = NoElement /\ calls = [i \in Ids |-> <<>>]

IdleUdb == mode # "database" => disk = [u \in UnitFiles |-> "none"]
IdlePlugin == mode # "plugin" => flags = [s \in Sets |-> {}]

MCInit ==
    /\ SignInit /\ PluginInit /\ UdbInit
    /\ \/ mode \in {"plugin", "database", "sign", "tool"} /\ WidgetInit /\ NoTransaction
       \/ mode = "rpm" /\ RpmInit
    /\ IdlePlugin /\ IdleUdb

MCVars == <<pluginVars, udbVars, legacyVars, signVars, mode>>

Plugin(action) == mode = "plugin" /\ action /\ UNCHANGED <<udbVars, legacyVars, signVars, mode>>
Database(action) == mode = "database" /\ action /\ UNCHANGED <<pluginVars, legacyVars, signVars, mode>>
Tool(action) == mode = "tool" /\ action /\ UNCHANGED <<pluginVars, udbVars, rpmVars, signVars, mode>>
Transaction == mode = "rpm" /\ TransactionNext /\ UNCHANGED <<pluginVars, udbVars, signVars, mode>>

MCNext ==
    \/ Plugin(PluginNext)
    \/ Database(UdbNext)
    \/ mode = "sign" /\ SignNext /\ UNCHANGED <<pluginVars, udbVars, legacyVars, mode>>
    \/ Tool(ToolNext)
    \/ Transaction

\* The fairness of each part.  A behaviour has one mode, so that the fairness of a disjunction
\* over modes is the one of each of its disjuncts.
MCFair ==
    /\ WF_MCVars(Plugin(PerformNext) \/ Database(Signal \/ SignalFails) \/ Tool(WidgetStep \/ NextWidget \/ Restart) \/ Transaction)
    /\ WF_MCVars(Plugin(DaemonNext) \/ Database(UpdateBegin))
    /\ \A s \in Sets :
          WF_MCVars(Plugin(\E res \in BOOLEAN : TsmPost(s, res)) \/ Database(ScanEntry \/ UpdateEnd))

MCSpec == MCInit /\ [][MCNext]_MCVars /\ MCFair

\* Every operation ends, with an answer or with the death of the process, and so does every
\* transaction (install_widget, uninstall_redpesk, the elements of rpm).
LegacyEnds ==
    /\ mode = "tool" ~> op.step \in {"idle", "dead"}
    /\ mode = "rpm" ~> (current.stage = "end" \/ op.step = "dead")

\* Nothing that a package manager waits for lasts for ever: the hooks of the plugin return,
\* the operations of the tool and the transactions end.
PackagingEnds == HooksReturn /\ LegacyEnds
=============================================================================
