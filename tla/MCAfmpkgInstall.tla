-------------------------- MODULE MCAfmpkgInstall --------------------------
(* Small instances of AfmpkgInstall for TLC.  The package "outer" embeds      *)
(* "inner"; "other" is apart but has a unit of the same path as the one of    *)
(* "inner"; "third" shares nothing; the entry "loose" is held by no package.  *)
EXTENDS AfmpkgInstall

MCPackages == {"outer", "inner", "other", "third"}
MCEntries == {"eo", "ei", "ex", "et", "loose"}
MCUnder == [p \in MCPackages |->
    CASE p = "outer" -> {"eo", "ei"}
      [] p = "inner" -> {"ei"}
      [] p = "other" -> {"ex"}
      [] p = "third" -> {"et"}]

MCUnits == {"uo", "uo2", "ui", "ut"}
MCUnitsOf == [p \in MCPackages |->
    CASE p = "outer" -> <<"uo", "uo2">>
      [] p \in {"inner", "other"} -> <<"ui">>
      [] p = "third" -> <<"ut">>]
MCWanted == {"uo2", "ui"}

Nested == {"eo", "ei", "loose"}

\* The requests that concern the common unit are for the same thread...
MCApart == [t \in {1, 2} |-> IF t = 1 THEN {Nested, {"ex"}} ELSE {{"et"}}]
\* ... or for two threads.
MCMeeting == [t \in {1, 2} |-> IF t = 1 THEN {Nested} ELSE {{"ex"}}]
=============================================================================
