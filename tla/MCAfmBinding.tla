--------------------------- MODULE MCAfmBinding ---------------------------
(* Two requests of two users on two applications, one of them per user. *)
EXTENDS AfmBinding, TLC

CONSTANTS r1, r2

MCRequests == {r1, r2}
MCDisks == {[fixed |-> "hidden", peruser |-> "visible"]}
MCChanges == {<<"peruser", "none">>}
MCPaths == {<<"fixed", 0>>, <<"peruser", 1>>, <<"peruser", 2>>}
MCBooted == [p \in MCPaths |-> IF p[1] = "fixed" THEN 1 ELSE 0]
MCIdOf == [fixed |-> "App", peruser |-> "other"]
MCFold(id) == IF id = "other" THEN id ELSE "app"

Call(verb, client, form) ==
    [verb |-> verb, client |-> client, form |-> form,
     uid |-> None, all |-> FALSE, id |-> None, runid |-> None]

\* The calls: the forms of the arguments, a bad type, another user, the hidden
\* applications.  The first request starts, the second one looks and stops.
MCCalls ==
    (r1 :> {[Call("once", 2, "string") EXCEPT !.id = "App"],
            [Call("start", 1, "object") EXCEPT !.id = "other", !.uid = 2],
            [Call("detail", 1, "string") EXCEPT !.id = "APP"],
            [Call("terminate", 1, "object") EXCEPT !.runid = Bad]}) @@
    (r2 :> {[Call("terminate", 2, "string") EXCEPT !.id = "other"],
            [Call("terminate", 1, "int") EXCEPT !.runid = 1],
            [Call("state", 1, "string") EXCEPT !.id = "other"],
            [Call("pause", 2, "int") EXCEPT !.runid = 1],
            [Call("runnables", 1, "object") EXCEPT !.all = TRUE],
            [Call("runners", 1, "object") EXCEPT !.all = TRUE, !.uid = 2],
            [Call("start", 1, "none") EXCEPT !.id = "other"]})

\* The calls that take several steps on the bus.
MCLongCalls ==
    (r1 :> {[Call("once", 2, "string") EXCEPT !.id = "App"]}) @@
    (r2 :> {[Call("terminate", 2, "string") EXCEPT !.id = "other"],
            [Call("runners", 1, "object") EXCEPT !.all = TRUE, !.uid = 2]})
=============================================================================
