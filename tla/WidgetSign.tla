----------------------------- MODULE WidgetSign -----------------------------
(***************************************************************************)
(* The signatures of the legacy widgets: wgtpkg-sign signs the content of  *)
(* a directory, wgtpkg-pack signs it from the environment and packs it,    *)
(* and check_all_signatures, called by the installer and by wgtpkg-info,   *)
(* checks what is unpacked (wgtpkg-digsig.c, wgtpkg-xmlsec.c,              *)
(* wgtpkg-files.c).                                                        *)
(*                                                                         *)
(* The content of a file is the number of its last writing, 0 when there   *)
(* is no such file.  A signature document is the function of the files     *)
(* that it references to what they contained.                              *)
(***************************************************************************)
EXTENDS Integers, Sequences, SequencesExt, FiniteSets, FiniteSetsExt, Functions

CONSTANTS
    Plain,          \* the names of the files that are not signatures
    AuthorFile,     \* author-signature.xml
    SigFiles,       \* the sequence of the names of distributor signatures, by number
    MaxWritings     \* bound: the writings of files

\* The names of signatures are recognised (what_signature): they are not those of other files.
ASSUME SignAssumption ==
    /\ SigFiles \in Seq(ToSet(SigFiles))
    /\ \A i, j \in DOMAIN SigFiles : SigFiles[i] = SigFiles[j] => i = j
    /\ AuthorFile \notin ToSet(SigFiles)
    /\ Plain \intersect ({AuthorFile} \union ToSet(SigFiles)) = {}
    /\ MaxWritings \in Nat

VARIABLES
    content,    \* the directory: the content of each file
    docs,       \* the document that each signature file holds
    clock,      \* the writings up to now
    package,    \* the packed widget, <<>> for none
    checked,    \* the result of check_all_signatures on the package, "no" before
    shots       \* history: the directory when each signature was made

signVars == <<content, docs, clock, package, checked, shots>>

Signatures == {AuthorFile} \union ToSet(SigFiles)
SignNames == Plain \union Signatures
Listed(dir) == {f \in SignNames : dir[f] # 0}       \* fill_files, zread
SetDoc == [refs |-> <<>>]

\* what_signature: the author comes last in the list of signatures.
Signum(f) == IF f = AuthorFile THEN Len(SigFiles) + 1 ELSE CHOOSE n \in DOMAIN SigFiles : SigFiles[n] = f

\* get_filedesc: the signatures of the directory in the order of their numbers.
SortedSignatures(dir) ==
    LET found == Signatures \intersect Listed(dir)
    IN  CHOOSE s \in [1..Cardinality(found) -> found] :
            \A i, j \in DOMAIN s : i < j => Signum(s[i]) < Signum(s[j])

\* xmlsec_create: a distributor references the author signature too.
XmlsecCreate(dir, name) ==
    Restrict(dir, Listed(dir) \ (IF name = AuthorFile THEN Signatures ELSE ToSet(SigFiles)))

\* create_digsig: the document is computed, then written in its file.
CreateDigsig(state, name) ==
    [content |-> [state.content EXCEPT ![name] = state.clock + 1],
     docs    |-> [state.docs EXCEPT ![name] = [refs |-> XmlsecCreate(state.content, name)]],
     clock   |-> state.clock + 1,
     shots   |-> [state.shots EXCEPT ![name] = state.content]]

SignState == [content |-> content, docs |-> docs, clock |-> clock, shots |-> shots]

SetSignState(s) ==
    /\ content' = s.content
    /\ docs' = s.docs
    /\ clock' = s.clock
    /\ shots' = s.shots

SignInit ==
    /\ content = [f \in SignNames |-> IF f \in Plain THEN 1 ELSE 0]
    /\ docs = [f \in Signatures |-> SetDoc]
    /\ clock = 1
    /\ package = <<>>
    /\ checked = "no"
    /\ shots = [f \in Signatures |-> content]

\* Somebody writes or removes a file of the directory, signatures included.
EditFile ==
    /\ package = <<>> /\ clock < MaxWritings
    /\ \E f \in Plain : content' = [content EXCEPT ![f] = clock + 1]
    /\ clock' = clock + 1
    /\ UNCHANGED <<docs, package, checked, shots>>

RemoveFile ==
    /\ package = <<>> /\ clock < MaxWritings
    /\ \E f \in SignNames : content[f] # 0 /\ content' = [content EXCEPT ![f] = 0]
    /\ clock' = clock + 1
    /\ UNCHANGED <<docs, package, checked, shots>>

\* wgtpkg-sign: the author, a given number, or (as a special case) the first free one; an
\* existing signature is only overwritten when forced.
SignTool ==
    /\ package = <<>> /\ clock < MaxWritings
    /\ \E force \in BOOLEAN, name \in Signatures :
        /\ content[name] = 0 \/ force
        /\ SetSignState(CreateDigsig(SignState, name))
    /\ UNCHANGED <<package, checked>>

\* wgtpkg-pack: create_auto_digsig signs by the variables in the order of the environment,
\* whatever exists, then zwrite packs all of the directory.
PackTool ==
    /\ package = <<>>
    /\ \E autosign \in {<<>>, <<AuthorFile>>} \union {<<s>> : s \in ToSet(SigFiles)}
                       \union {<<AuthorFile, s>> : s \in ToSet(SigFiles)}
                       \union {<<s, AuthorFile>> : s \in ToSet(SigFiles)} :
        LET final == FoldLeft(CreateDigsig, SignState, autosign)
        IN  /\ SetSignState(final)
            /\ package' = <<final.content>>
    /\ UNCHANGED checked

\* check_references: no reference to an absent file or to a distributor signature, and every
\* file that is not a signature is referenced, given the files already marked.
CheckReferences(dir, refs, marked) ==
    LET seen == marked \union DOMAIN refs
    IN  [ok |-> /\ DOMAIN refs \subseteq Listed(dir) \ ToSet(SigFiles)
                /\ Listed(dir) \ Signatures \subseteq seen,
         marked |-> seen]

VerifyDigsigMutant(dir, marked, name) ==
    LET refs == docs[name].refs
        found == CheckReferences(dir, refs, marked)
    IN  [ok |-> found.ok /\ \A f \in DOMAIN refs : dir[f] = refs[f], marked |-> found.marked]

\* verify_digsig: the marks of the former signature are cleared; the references, then the
\* digests of the files.
VerifyDigsig(dir, marked, name) ==
    LET refs == docs[name].refs
        found == CheckReferences(dir, refs, {})
    IN  [ok |-> found.ok /\ \A f \in DOMAIN refs : dir[f] = refs[f], marked |-> found.marked]

\* check_all_signatures, from the last one to the first, all of them.
CheckAllSignatures(dir, allownone) ==
    LET names == Reverse(SortedSignatures(dir))
        Step(s, name) == LET v == VerifyDigsig(dir, s.marked, name)
                         IN  [ok |-> s.ok /\ v.ok, marked |-> v.marked]
    IN  IF names = <<>> THEN allownone ELSE FoldLeft(Step, [ok |-> TRUE, marked |-> {}], names).ok

\* The installer requires a signature, wgtpkg-info does not.
CheckPackage ==
    /\ package # <<>> /\ checked = "no"
    /\ \E allownone \in BOOLEAN :
        checked' = IF CheckAllSignatures(package[1], allownone) THEN "ok" ELSE "refused"
    /\ UNCHANGED <<content, docs, clock, package, shots>>

SignNext == EditFile \/ RemoveFile \/ SignTool \/ PackTool \/ CheckPackage
SignSpec == SignInit /\ [][SignNext]_signVars

----------------------------------------------------------------------------
(* Properties. *)

\* What a signature vouched for is still there: all the plain files as they were, no other,
\* and the author signature that a distributor has seen.
Unchanged(s) ==
    /\ \A f \in Plain : shots[s][f] = package[1][f]
    /\ s # AuthorFile => shots[s][AuthorFile] \in {0, package[1][AuthorFile]}

\* A package with signatures is accepted exactly when nothing that any of its signers saw has
\* been written, added or removed since, whatever the order of signatures, edits and
\* automatic signatures (xmlsec_create, check_references, file_clear_flags).
AcceptedIffUntouched ==
    checked # "no" /\ SortedSignatures(package[1]) # <<>> =>
        (checked = "ok" <=> \A s \in Signatures \intersect Listed(package[1]) : Unchanged(s))
=============================================================================
