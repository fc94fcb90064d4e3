------------------------------ MODULE PathTree ------------------------------
(***************************************************************************)
(* The tree of the files of a request, path-entry.c, during the life of    *)
(* the request: created by afmpkg_request_init, filled by the FILE lines,  *)
(* consumed by afmpkg_process that destroys the directory of each package  *)
(* once it is processed, and destroyed by afmpkg_request_deinit.           *)
(*                                                                         *)
(* An entry is a cell of the heap; an address is never given twice, so     *)
(* that a use of a freed cell shows.  The order of the children, that      *)
(* comes from a comparison of names, is left open.  A path is the sequence *)
(* of its names, and the manifest of a package is a file named manifest in *)
(* its directory.                                                          *)
(***************************************************************************)
EXTENDS Naturals, FiniteSets, Sequences, SequencesExt

CONSTANTS
    Files,          \* the paths that FILE lines can tell
    MaxFiles,       \* bound: number of FILE lines
    MaxCells,       \* bound: number of cells
    MaxFailures,    \* bound: number of allocations that fail
    Null            \* NULL

ASSUME TreeAssumption ==
    /\ {MaxFiles, MaxCells, MaxFailures} \subseteq Nat /\ MaxCells # 0
    /\ Null \notin Nat
    /\ \A f \in Files : f \in Seq(ToSet(f))

VARIABLES
    cells,      \* the allocated entries
    next,       \* the next address
    root,       \* req->apkg.files
    files,      \* state.files
    found,      \* the roots of packages that are found and not processed
    phase,      \* init, receive, process or end
    lines,      \* number of FILE lines
    failures,   \* number of allocations that failed
    crashed     \* has a cell that is freed been used?

treeVars == <<cells, next, root, files, found, phase, lines, failures, crashed>>

Cell(parent, name) == [parent |-> parent, name |-> name, children |-> {}, added |-> FALSE]
Live == DOMAIN cells

TreeInit ==
    /\ cells = <<>>
    /\ next = 1
    /\ root = Null
    /\ files = Null
    /\ found = <<>>
    /\ phase = "init"
    /\ lines = 0
    /\ failures = 0
    /\ crashed = FALSE

----------------------------------------------------------------------------
(* path-entry.c *)

SearchChild(t, e, name) ==
    IF \E k \in t.cells[e].children : t.cells[k].name = name
    THEN CHOOSE k \in t.cells[e].children : t.cells[k].name = name
    ELSE Null

MakeChildMutant(t, e, name) ==
    LET grown == [k \in DOMAIN t.cells \cup {t.next} |->
                    IF k = t.next THEN [Cell(e, name) EXCEPT !.added = TRUE] ELSE t.cells[k]]
    IN  [t EXCEPT !.cells = [grown EXCEPT ![e].children = @ \cup {t.next}],
                  !.next = @ + 1, !.room = @ - 1, !.at = t.next]

MakeChild(t, e, name) ==
    LET grown == [k \in DOMAIN t.cells \cup {t.next} |->
                    IF k = t.next THEN Cell(e, name) ELSE t.cells[k]]
    IN  [t EXCEPT !.cells = [grown EXCEPT ![e].children = @ \cup {t.next}],
                  !.next = @ + 1, !.room = @ - 1, !.at = t.next]

\* get_child: the child of that name, or a new one unless malloc fails.
GetChild(t, e, name) ==
    LET k == SearchChild(t, e, name)
    IN  IF k # Null THEN [t EXCEPT !.at = k]
        ELSE IF t.room = 0 THEN [t EXCEPT !.at = Null]
        ELSE MakeChild(t, e, name)

\* process with get_child: room is the number of allocations that succeed.
Grow(path, room) ==
    LET start == [cells |-> cells, next |-> next, room |-> room, at |-> root]
        Enter(t, name) == IF t.at = Null THEN t ELSE GetChild(t, t.at, name)
    IN  FoldLeft(Enter, start, path)

\* process with search_child
Lookup(e, path) ==
    LET t == [cells |-> cells]
        Enter(k, name) == IF k = Null THEN Null ELSE SearchChild(t, k, name)
    IN  FoldLeft(Enter, e, path)

\* path_entry_relpath from the root: the names of the parents.
RelPath(e) ==
    LET up[k \in Live] ==
          IF cells[k].parent = Null THEN <<>> ELSE Append(up[cells[k].parent], cells[k].name)
    IN  up[e]

\* The cells that destroy and do_foreach visit from e.
SubTree(e) ==
    LET below[n \in 0..MaxCells] ==
          IF n = 0 THEN {e}
          ELSE below[n - 1] \cup UNION {cells[k].children : k \in below[n - 1]}
    IN  below[MaxCells]

\* path_entry_destroy: unlinks the entry from its parent, then frees what is below.
Without(e) ==
    LET parent == cells[e].parent
        kept == [k \in Live \ SubTree(e) |-> cells[k]]
    IN  IF parent = Null THEN kept
        ELSE [kept EXCEPT ![parent].children = @ \ {e}]

\* The orders in which do_foreach with PATH_ENTRY_FORALL_AFTER emits entries S.
Walks(S) ==
    {s \in SetToSeqs(S) : \A i, j \in 1..Len(s) : i < j => s[j] \notin SubTree(s[i])}

----------------------------------------------------------------------------
(* The life of a request. *)

\* afmpkg_request_init: path_entry_create_root
CreateRoot ==
    /\ phase = "init"
    /\ cells' = [k \in {next} |-> Cell(Null, "")]
    /\ next' = next + 1
    /\ root' = next
    /\ phase' = "receive"
    /\ UNCHANGED <<files, found, lines, failures, crashed>>

\* afmpkg_request_init fails: the root is NULL, the request is not processed.
CreateFails ==
    /\ phase = "init" /\ failures < MaxFailures
    /\ failures' = failures + 1
    /\ phase' = "deinit"
    /\ UNCHANGED <<cells, next, root, files, found, lines, crashed>>

\* A FILE line: path_entry_add_length
AddFile ==
    /\ phase = "receive" /\ lines < MaxFiles
    /\ lines' = lines + 1
    /\ \E f \in Files :
          LET t == Grow(f, MaxCells)
          IN  /\ t.next <= MaxCells + 1
              /\ cells' = [t.cells EXCEPT ![t.at].added = TRUE]
              /\ next' = t.next
    /\ UNCHANGED <<root, files, found, phase, failures, crashed>>

\* A FILE line, and a malloc fails: the request is in error.
AddFails ==
    /\ phase = "receive" /\ lines < MaxFiles /\ failures < MaxFailures
    /\ failures' = failures + 1
    /\ \E f \in Files : \E room \in 0..Len(f) - 1 :
          LET t == Grow(f, room)
          IN  /\ t.at = Null /\ t.next <= MaxCells + 1
              /\ cells' = t.cells
              /\ next' = t.next
    /\ phase' = "deinit"
    /\ UNCHANGED <<root, files, found, lines, crashed>>

\* detect_package_roots_cb
IsPackage(e) == Lookup(e, <<"manifest">>) # Null

\* afmpkg_process: the roots of packages are searched after their children.
Detect ==
    /\ phase = "receive"
    /\ files' = root
    /\ found' \in Walks({e \in SubTree(root) : IsPackage(e)})
    /\ phase' = "process"
    /\ UNCHANGED <<cells, next, root, lines, failures, crashed>>

ProcessRootpkgMutant(ok) ==
    /\ phase = "process" /\ found # <<>>
    /\ cells' = Without(Head(found))
    /\ found' = IF ok THEN Tail(found) ELSE <<>>
    /\ phase' = IF ok THEN phase ELSE "deinit"
    /\ UNCHANGED <<next, root, files, lines, failures, crashed>>

\* process_rootpkg: the package, processed or failed, is destroyed.  ok tells if the
\* loop goes on.
ProcessRootpkg(ok) ==
    /\ phase = "process" /\ found # <<>>
    /\ LET packdir == Head(found)
       IN  IF packdir \notin Live
           THEN crashed' = TRUE /\ UNCHANGED <<cells, files>>
           ELSE /\ cells' = Without(packdir)
                /\ files' = IF packdir = files THEN Null ELSE files
                /\ UNCHANGED crashed
    /\ found' = IF ok THEN Tail(found) ELSE <<>>
    /\ phase' = IF ok THEN phase ELSE "deinit"
    /\ UNCHANGED <<next, root, lines, failures>>

\* process_default_tree walks what remains, if something remains.
DefaultTree ==
    /\ phase = "process" /\ found = <<>>
    /\ crashed' = (crashed \/ files \notin Live \cup {Null})
    /\ phase' = "deinit"
    /\ UNCHANGED <<cells, next, root, files, found, lines, failures>>

\* afmpkg_request_deinit: path_entry_destroy of a root that may be NULL.
Deinit ==
    /\ phase = "deinit"
    /\ IF root = Null THEN UNCHANGED <<cells, crashed>>
       ELSE IF root \notin Live THEN crashed' = TRUE /\ UNCHANGED cells
       ELSE cells' = Without(root) /\ UNCHANGED crashed
    /\ phase' = "end"
    /\ UNCHANGED <<next, root, files, found, lines, failures>>

TreeNext ==
    \/ CreateRoot \/ CreateFails \/ AddFile \/ AddFails \/ Detect
    \/ (\E ok \in BOOLEAN : ProcessRootpkg(ok))
    \/ DefaultTree \/ Deinit

TreeSpec == TreeInit /\ [][TreeNext]_treeVars

----------------------------------------------------------------------------
(* Properties. *)

\* The links of the entries agree: a child names its parent, siblings have
\* distinct names, every entry is found by its path (search_child, relpath).
WellLinked ==
    /\ \A e \in Live :
          /\ \A k \in cells[e].children : k \in Live /\ cells[k].parent = e
          /\ \A k, l \in cells[e].children : cells[k].name = cells[l].name => k = l
          /\ cells[e].parent # Null => cells[e].parent \in Live /\ e \in cells[cells[e].parent].children
    /\ \A e \in Live : Lookup(root, RelPath(e)) = e

Abstract == INSTANCE PathSet WITH
    paths <- {RelPath(e) : e \in Live},
    given <- {RelPath(e) : e \in {k \in Live : cells[k].added}}

\* The linked entries implement a set of paths: adding, failing and destroying
\* have no other effect than those of the abstract operations.
ImplementsPathSet == Abstract!SetSpec

\* The roots of packages that wait, found once for all, are still allocated when
\* their turn comes: destroying a package destroys no package that waits.
FoundAlive == \A i \in DOMAIN found : found[i] \in Live

\* No freed entry is used or freed again, but by the deinit of a request one package of
\* which is at the root of the tree: process_rootpkg has destroyed the root that
\* req->apkg.files still designates.
FreedOnce == crashed => phase = "end" /\ files = Null

\* When the request is over nothing remains in memory.
NothingLeaks == phase = "end" => Live = {}

\* The tree of a request is sound from its first line to its deinit: links that agree, package
\* roots that are alive when their turn comes, entries freed once and none left behind
\* (path_entry_add, process_rootpkg, afmpkg_request_deinit).
TreeSound == WellLinked /\ FoundAlive /\ FreedOnce /\ NothingLeaks
=============================================================================
