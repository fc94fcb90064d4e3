---------------------------- MODULE AfidManager ----------------------------
(***************************************************************************)
(* The allocator of application identifiers, manage-afid.c, and its        *)
(* clients: the installations, that take one identifier per target of      *)
(* their package (add_meta_to_target of afmpkg.c) and later write it in a  *)
(* unit file, and the removals, that delete the unit files.                *)
(*                                                                         *)
(* The memory of the allocator is a bit array, filled from the unit files  *)
(* the first time it is used and when it is full.  It has no lock, though  *)
(* each installation runs in its own thread: the steps of the              *)
(* installations are interleaved.                                          *)
(*                                                                         *)
(* Three things defeat the allocator; the history variable harm tells      *)
(* which of them have happened.                                            *)
(*                                                                         *)
(* The array is the set of the identifiers whose bit is set.  Its words    *)
(* matter for the search of a free bit and for the update of a bit, which  *)
(* reads and writes a whole word.                                          *)
(***************************************************************************)
EXTENDS Integers, Sequences, FiniteSets

CONSTANTS
    Packages,       \* the packages that are installed and removed
    MaxTargets,     \* bound: number of targets of a package
    AfidMax,        \* AFID_MAX; AFID_MIN is 1
    WordBits        \* number of bits of a word of the array, 32 in the code

ASSUME AfidAssumption == AfidMax \in Nat \ {0} /\ WordBits \in Nat \ {0}
ASSUME TargetsAssumption == MaxTargets \in Nat \ {0}

AfidMin == 1
Afids == AfidMin..AfidMax
NoAfid == 0     \* get_new_afid returned an error

VARIABLES
    initDone,   \* init_done
    used,       \* afids_array
    pc,         \* where the installation of each package is
    targets,    \* number of targets of each package
    ids,        \* the identifiers got for the targets of each package, in order
    retried,    \* has the running get_new_afid already rescanned?
    found,      \* afid, local of get_new_afid
    word,       \* the word read by AFID_SET
    seen,       \* history: what the scan of the running get_new_afid has read
    harm        \* history: what has happened that the code does not guard against

history == <<seen, harm>>
afidVars == <<initDone, used, pc, targets, ids, retried, found, word, seen, harm>>

Harms ==
    {"overlap",     \* get_new_afid was called while another thread was in it
     "forgotten",   \* the array was cleared while an identifier it records was in no unit file
     "unread"}      \* reading the unit files failed

----------------------------------------------------------------------------
(* The array. *)

AIdx(afid) == (afid - AfidMin) \div WordBits

\* The bits of the word that holds afid; the last word has bits above AfidMax,
\* which are never set.
WordOf(afid) == {AfidMin + AIdx(afid) * WordBits + b : b \in 0..(WordBits - 1)}

WordStarts == {AfidMin + k * WordBits : k \in 0..AIdx(AfidMax)}

Least(S) == CHOOSE a \in S : \A b \in S : a <= b

\* first_free_afid: skip the words that are full, then the bits that are set.
FirstFree(S) ==
    LET starts == {a \in WordStarts : ~(WordOf(a) \subseteq S)}
        free == {a \in Afids : starts # {} /\ a >= Least(starts) /\ a \notin S}
    IN  IF free = {} THEN NoAfid ELSE Least(free)

\* The identifiers written in the unit files of the installed packages.
IdsOf(p) == {ids[p][i] : i \in DOMAIN ids[p]}
OnDisk == UNION {IdsOf(p) : p \in {q \in Packages : pc[q] = "installed"}}

----------------------------------------------------------------------------
\* The daemon starts; packages were installed before.
AfidInit ==
    /\ initDone = FALSE
    /\ used = {}
    /\ targets \in [Packages -> 1..MaxTargets]
    /\ \E installed \in SUBSET Packages :
         pc = [p \in Packages |-> IF p \in installed THEN "installed" ELSE "absent"]
    /\ ids \in [Packages -> {<<>>} \cup UNION {[1..n -> Afids] : n \in 1..MaxTargets}]
    /\ \A p \in Packages : Len(ids[p]) = (IF pc[p] = "installed" THEN targets[p] ELSE 0)
    /\ \A p, q \in Packages : \A i \in DOMAIN ids[p], j \in DOMAIN ids[q] :
         ids[p][i] = ids[q][j] => p = q /\ i = j
    /\ retried = [p \in Packages |-> FALSE]
    /\ found = [p \in Packages |-> NoAfid]
    /\ word = [p \in Packages |-> {}]
    /\ seen = [p \in Packages |-> {}]
    /\ harm = {}

\* The thread that installs the package is in get_new_afid.
Getting(p) == pc[p] \in {"init", "clear", "scan", "find", "load", "store"}

Pending(p) == pc[p] # "installed" /\ IdsOf(p) \cap Afids # {}

Goto(p, from, to) ==
    /\ pc[p] = from
    /\ pc' = [pc EXCEPT ![p] = to]

\* The installation of a package reaches add_meta_to_target for its first target.
StartInstall(p) ==
    /\ Goto(p, "absent", "call")
    /\ UNCHANGED <<initDone, used, targets, ids, retried, found, word, history>>

\* get_new_afid calls init_afid_manager: the test of init_done.
InitManager(p) ==
    /\ Goto(p, "call", IF initDone THEN "find" ELSE "init")
    /\ harm' = harm \cup IF \E q \in Packages : Getting(q) THEN {"overlap"} ELSE {}
    /\ UNCHANGED <<initDone, used, targets, ids, retried, found, word, seen>>

\* init_afid_manager: init_done is set before the unit files are read.
InitSetDone(p) ==
    /\ Goto(p, "init", "clear")
    /\ initDone' = TRUE
    /\ UNCHANGED <<used, targets, ids, retried, found, word, history>>

\* update_afids: the array is cleared...
UpdateClear(p) ==
    /\ Goto(p, "clear", "scan")
    /\ used' = {}
    /\ harm' = harm \cup IF \E q \in Packages : Pending(q) THEN {"forgotten"} ELSE {}
    /\ UNCHANGED <<initDone, targets, ids, retried, found, word, seen>>

\* ... then the identifiers of the unit files are set.  The files are read one
\* by one: if reading fails some were read, and get_new_afid returns the error.
UpdateScan(p) ==
    /\ \/ /\ Goto(p, "scan", "find")
          /\ used' = used \cup OnDisk
          /\ seen' = [seen EXCEPT ![p] = OnDisk]
          /\ UNCHANGED <<ids, harm>>
       \/ /\ Goto(p, "scan", "next")
          /\ \E read \in SUBSET OnDisk : used' = used \cup read
          /\ ids' = [ids EXCEPT ![p] = Append(@, NoAfid)]
          /\ harm' = harm \cup {"unread"}
          /\ UNCHANGED seen
    /\ UNCHANGED <<initDone, targets, retried, found, word>>

FindFreeMutant(p) ==
    LET free == FirstFree(used) IN
    /\ IF free # NoAfid
       THEN /\ Goto(p, "find", "load")
            /\ found' = [found EXCEPT ![p] = free]
            /\ UNCHANGED ids
       ELSE /\ Goto(p, "find", "next")
            /\ ids' = [ids EXCEPT ![p] = Append(@, NoAfid)]
            /\ UNCHANGED found
    /\ UNCHANGED <<initDone, used, targets, word, retried, history>>

\* get_new_afid: first_free_afid; if there is none, rescan once.
FindFree(p) ==
    LET free == FirstFree(used) IN
    /\ IF free # NoAfid
       THEN /\ Goto(p, "find", "load")
            /\ found' = [found EXCEPT ![p] = free]
            /\ UNCHANGED <<ids, retried>>
       ELSE IF ~retried[p]
       THEN /\ Goto(p, "find", "clear")
            /\ retried' = [retried EXCEPT ![p] = TRUE]
            /\ UNCHANGED <<ids, found>>
       ELSE /\ Goto(p, "find", "next")
            /\ ids' = [ids EXCEPT ![p] = Append(@, NoAfid)]
            /\ UNCHANGED <<found, retried>>
    /\ UNCHANGED <<initDone, used, targets, word, history>>

\* AFID_SET: the word is read, then written with its new bit.
SetLoad(p) ==
    /\ Goto(p, "load", "store")
    /\ word' = [word EXCEPT ![p] = used \cap WordOf(found[p])]
    /\ UNCHANGED <<initDone, used, targets, ids, retried, found, history>>

SetStoreMutant(p) ==
    /\ Goto(p, "store", "next")
    /\ ids' = [ids EXCEPT ![p] = Append(@, found[p])]
    /\ UNCHANGED <<initDone, used, targets, retried, found, word, history>>

SetStore(p) ==
    /\ Goto(p, "store", "next")
    /\ used' = (used \ WordOf(found[p])) \cup word[p] \cup {found[p]}
    /\ ids' = [ids EXCEPT ![p] = Append(@, found[p])]
    /\ found' = [found EXCEPT ![p] = NoAfid]
    /\ word' = [word EXCEPT ![p] = {}]
    /\ UNCHANGED <<initDone, targets, retried, history>>

\* get_new_afid returns; the next target of the package, also after an error, or
\* the end of the loop.
NextTarget(p) ==
    /\ Goto(p, "next", IF Len(ids[p]) < targets[p] THEN "call" ELSE "write")
    /\ retried' = [retried EXCEPT ![p] = FALSE]
    /\ seen' = [seen EXCEPT ![p] = {}]
    /\ UNCHANGED <<initDone, used, targets, ids, found, word, harm>>

\* The unit files of the package are written, unless an identifier is missing or
\* the installation fails for another reason: its identifiers stay set.
WriteUnits(p) ==
    /\ \/ /\ NoAfid \notin IdsOf(p)
          /\ Goto(p, "write", "installed")
          /\ UNCHANGED ids
       \/ /\ Goto(p, "write", "absent")
          /\ ids' = [ids EXCEPT ![p] = <<>>]
    /\ UNCHANGED <<initDone, used, targets, retried, found, word, history>>

\* A removal deletes the unit files; it does not tell the allocator.
Remove(p) ==
    /\ Goto(p, "installed", "absent")
    /\ ids' = [ids EXCEPT ![p] = <<>>]
    /\ UNCHANGED <<initDone, used, targets, retried, found, word, history>>

AfidNext ==
    \E p \in Packages :
        \/ StartInstall(p)
        \/ InitManager(p)
        \/ InitSetDone(p)
        \/ UpdateClear(p)
        \/ UpdateScan(p)
        \/ FindFree(p)
        \/ SetLoad(p)
        \/ SetStore(p)
        \/ NextTarget(p)
        \/ WriteUnits(p)
        \/ Remove(p)

AfidSpec == AfidInit /\ [][AfidNext]_afidVars

----------------------------------------------------------------------------
(* Properties. *)

AfidTypeOK ==
    /\ initDone \in BOOLEAN
    /\ used \subseteq Afids
    /\ pc \in [Packages -> {"absent", "call", "init", "clear", "scan", "find", "load",
                           "store", "next", "write", "installed"}]
    /\ targets \in [Packages -> 1..MaxTargets]
    /\ ids \in [Packages -> Seq(Afids \cup {NoAfid})]
    /\ retried \in [Packages -> BOOLEAN]
    /\ found \in [Packages -> Afids \cup {NoAfid}]
    /\ word \in [Packages -> SUBSET Afids]
    /\ seen \in [Packages -> SUBSET Afids]
    /\ harm \subseteq Harms

\* The identifier is the "numeric id of the target": no two targets, of the same
\* package or of two packages, installed or being installed, have the same one,
\* hence the same http port.  The code does not ensure it, even for a package alone: its
\* third target may get the identifier of the first, after a rescan.  See AfidsUnique.
AfidsDistinct ==
    \A p, q \in Packages : \A i \in DOMAIN ids[p], j \in DOMAIN ids[q] :
        ids[p][i] = ids[q][j] /\ ids[p][i] # NoAfid => p = q /\ i = j

\* Whatever is installed, removed, refused and rescanned, by overlapping threads
\* too, get_new_afid gives no identifier twice as long as no two threads were in
\* it at the same time, no scan was made while an identifier that it had given
\* was not yet in a unit file, and no scan failed.  A duplicate thus comes from
\* one of these three.
AfidsUnique == harm = {} => AfidsDistinct

\* get_new_afid fails, but for a failed scan and for two threads in it, only when
\* its own rescan has found every identifier in the unit files: those that
\* removals and failed installations have freed are found again.
ExhaustedOnlyIfFull ==
    harm \cap {"overlap", "unread"} = {} =>
        \A p \in Packages :
            pc[p] = "next" /\ ids[p][Len(ids[p])] = NoAfid => seen[p] = Afids
=============================================================================
