---------------------------- MODULE MCAlgorithms ----------------------------
(***************************************************************************)
(* The parts that work alone, on small instances: a behaviour is one of    *)
(* one of the modules, the variables of the others stay as they are.       *)
(***************************************************************************)
EXTENDS PathTree, MCAfmpkgContents, UnitProcess, AuthCheck, MCCertChain, SignedDigest

VARIABLE which  \* the module that runs

\* PathTree: two packages, one embedded in the other, one at the root, and other files.
MCFiles == {<<"manifest">>, <<"a", "manifest">>, <<"a", "b", "manifest">>, <<"a", "f">>, <<"c">>}

\* UnitProcess: the marks of units in any order, and units of some lines.
Plain(w) == Line(FALSE, w, FALSE)
Marked == {Plain(w) : w \in Begins \cup Ends \cup {"text"}}
Bodies == {Line(l, w, c) : l \in BOOLEAN, w \in {"X-AFM-a", ""}, c \in BOOLEAN}
          \cup {Plain(w) : w \in {"text", "X-AFM--c", ";text", "%user", "%system", "%socket a", "%service b", Tag}}
          \cup {Line(TRUE, "%nl", FALSE), Line(FALSE, "%wanted c", TRUE)}
Few == {Line(TRUE, "X-AFM-a", TRUE), Line(FALSE, "X-AFM-a", FALSE), Line(TRUE, "", FALSE), Line(FALSE, "", TRUE),
        Plain("X-AFM--c"), Plain(";text"), Plain("%user"), Plain(Tag)}
MCTemplate == UNION {[1..n -> Marked] : n \in 0..5}
    \cup {<<Plain("%begin unit")>> \o b \o <<Plain("%end unit")>> : b \in UNION {[1..n -> Bodies] : n \in 0..2} \cup [1..3 -> Few]}
MCParts == {<<Line(TRUE, "X-AFM-b", TRUE), Plain("text")>>}

\* AuthCheck: expressions of depth 3, on the left or on the right.
Leaf(t) == [type |-> t]
Leaves == {[type |-> "Permission", text |-> p] : p \in Perms} \cup {Leaf("Yes"), Leaf("Token")}
Over(S, T) == {[type |-> "Not", first |-> a] : a \in S}
    \cup {[type |-> o, first |-> a, next |-> b] : o \in {"Or", "And"}, a \in S, b \in T}
MCAuths == LET one == Over(Leaves, Leaves)
               two == Over(one, Leaves) \cup Over(Leaves, one)
           IN  Leaves \cup one \cup two \cup {[type |-> "Not", first |-> a] : a \in Over(one, {Leaf("Yes")})}
MCHeight == LET of[a \in MCAuths] ==
                  IF a.type = "Not" THEN 1 + of[a.first]
                  ELSE IF a.type \in {"Or", "And"} THEN 1 + of[a.first] + of[a.next] ELSE 0
            IN  of

\* SignedDigest: certificates that grant something, that grant nothing, and one that is not trusted.
MCGrantsOf == [c \in Certs |-> IF c = "nothing" THEN {} ELSE {c}]

\* Some input of each module that does not run.
IdleManifest == Manifest(<<>>, <<>>, <<>>, <<>>, None)
IdleContents == manifest = IdleManifest /\ environ = Environ(6, 0, {}, None, FALSE, None)
                /\ order = <<"pack">> /\ stage = "normalize"
IdleUnits == file = <<>> /\ part = [t \in Threads |-> <<>>]
IdleAuth == auth = Leaf("Yes") /\ grants = [p \in Perms |-> 0]
IdleChain == target = "c1" /\ spec = NoExt /\ text = NoExt
             /\ world = [certs |-> <<"c1">>, trusteds |-> <<>>, issuers |-> [c1 |-> {}], raw |-> [c1 |-> NoExt]]

MCInit ==
    /\ which \in {"tree", "contents", "units", "auth", "chain", "digest"}
    /\ IF which = "contents" THEN ContentsInput ELSE IdleContents
    /\ IF which = "units" THEN UnitsInput ELSE IdleUnits
    /\ IF which = "auth" THEN AuthInput ELSE IdleAuth
    /\ IF which = "chain" THEN ChainInit ELSE IdleChain
    /\ TreeInit /\ ContentsStart /\ UnitsStart /\ AuthStart /\ DigestInit

Alone(name) ==
    /\ which = name
    /\ name # "tree" => UNCHANGED treeVars
    /\ name # "contents" => UNCHANGED contentsVars
    /\ name # "units" => UNCHANGED unitVars
    /\ name # "auth" => UNCHANGED authVars
    /\ name # "chain" => UNCHANGED chainVars
    /\ name # "digest" => UNCHANGED digestVars
    /\ UNCHANGED which

MCNext ==
    \/ Alone("tree") /\ TreeNext
    \/ Alone("contents") /\ ContentsNext
    \/ Alone("units") /\ UnitsNext
    \/ Alone("auth") /\ AuthNext
    \/ Alone("chain") /\ ChainNext
    \/ Alone("digest") /\ DigestNext

MCSpec == MCInit /\ [][MCNext]_<<which, treeVars, contentsVars, unitVars, authVars, chainVars, digestVars>>
=============================================================================
