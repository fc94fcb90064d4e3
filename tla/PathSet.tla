------------------------------ MODULE PathSet ------------------------------
(***************************************************************************)
(* What a tree of paths promises: it is a set of paths, closed by parent,  *)
(* some of which were added and the others implied.                        *)
(***************************************************************************)
EXTENDS Sequences, SequencesExt

CONSTANT Files      \* the paths that can be added

VARIABLES
    paths,      \* the paths of the tree, the empty one is its root
    given       \* those that were added

setVars == <<paths, given>>

SetInit == paths = {} /\ given = {}

New ==
    /\ paths = {}
    /\ paths' = {<<>>}
    /\ UNCHANGED given

\* f is added with its parents.
Add(f) ==
    /\ paths # {}
    /\ paths' = paths \cup Prefixes(f)
    /\ given' = given \cup {f}

\* The memory is exhausted: the first parents of f stay.
AddPart(f) ==
    /\ paths # {}
    /\ \E g \in Prefixes(f) \ {f} : paths' = paths \cup Prefixes(g)
    /\ UNCHANGED given

\* The path p and all that is below disappear.
Prune(p) ==
    /\ paths' = {q \in paths : ~IsPrefix(p, q)}
    /\ given' = {q \in given : ~IsPrefix(p, q)}

SetNext ==
    \/ New
    \/ \E f \in Files : Add(f) \/ AddPart(f)
    \/ \E p \in paths : Prune(p)

SetSpec == SetInit /\ [][SetNext]_setVars
=============================================================================
