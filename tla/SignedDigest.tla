---------------------------- MODULE SignedDigest ----------------------------
(***************************************************************************)
(* The signature of the files of a package and its check: digest.c and     *)
(* signed-digest.c, with make-signature.c, check-signature.c and           *)
(* signature-name.c.                                                       *)
(*                                                                         *)
(* A file has a version for content.  A signature is a file: it embeds a   *)
(* digest, a sequence of records [name, hash], and is signed by a          *)
(* certificate. The author signs the files that are not signatures, a      *)
(* distributor signs what is not the signature of a distributor.           *)
(***************************************************************************)
EXTENDS Naturals, Sequences, FiniteSets, SequencesExt

CONSTANTS
    Files0,         \* the files that are not signatures
    Author,         \* the name of the signature of the author
    Distributors,   \* the names of the signatures of distributors
    Certs,          \* the certificates that sign
    GrantsOf,       \* the domains each certificate grants, {} if it is not trusted
    Trusted,        \* those that the check of the chain accepts
    MaxEdits,       \* bound: number of changes
    MaxReadFaults,  \* bound: number of files that cannot be read
    Absent          \* nothing

ASSUME DigestAssumption == Trusted \subseteq Certs /\ {MaxEdits, MaxReadFaults} \subseteq Nat
\* The names of signatures are recognised (signature-name.c) and are not those of other files.
ASSUME NamesAssumption ==
    /\ IsFiniteSet(Files0 \cup Distributors)
    /\ Author \notin Distributors /\ Files0 \cap ({Author} \cup Distributors) = {}
    /\ Absent \notin {"ok", "ENOENT", "EBADF"}

VARIABLES
    content,    \* the version of each file, or Absent
    sigs,       \* what each signature embeds
    edits,      \* number of changes
    readFaults, \* number of failures
    check,      \* the check in progress
    hashes,     \* the hash recorded in each entry of the tree
    verdicts,   \* history: the result for each signature
    granted     \* the domains in the specification of the caller

digestVars == <<content, sigs, edits, readFaults, check, hashes, verdicts, granted>>

Signatures == {Author} \cup Distributors
AllFiles == Files0 \cup Signatures
Tree == {f \in AllFiles : content[f] # Absent}
NoSig == [records |-> <<>>, signer |-> Absent]
NoCheck == [at |-> "no", sig |-> Absent, left |-> {}, record |-> 0, marked |-> {}, rc |-> "ok", edited |-> FALSE]

DigestInit ==
    /\ content = [f \in AllFiles |-> IF f \in Files0 THEN 1 ELSE Absent]
    /\ sigs = [s \in Signatures |-> NoSig]
    /\ edits = 0
    /\ readFaults = 0
    /\ check = NoCheck
    /\ hashes = [f \in AllFiles |-> Absent]
    /\ verdicts = [s \in Signatures |-> Absent]
    /\ granted = {}

----------------------------------------------------------------------------
(* The making of signatures. *)

\* filter_for_author and filter_for_distributor: the entries that signature s covers.
Filter(s) == IF s = Author THEN Files0 ELSE AllFiles \ Distributors

\* digest_maker_cb on the tree: a file that cannot be read is left out, and the error is
\* recorded in maker.rc, that make_file_list_digest does not return.
FileListDigest(s, unreadable) ==
    LET names == SetToSeq((Tree \cap Filter(s)) \ unreadable)
    IN  [i \in DOMAIN names |-> [name |-> names[i], hash |-> content[names[i]]]]

\* make_signed_digest and make_signature; the signature is then a file of the package.
Sign(s, c) ==
    /\ check.at = "no" /\ edits < MaxEdits
    /\ edits' = edits + 1
    /\ \/ /\ sigs' = [sigs EXCEPT ![s] = [records |-> FileListDigest(s, {}), signer |-> c]]
          /\ UNCHANGED readFaults
       \/ \E f \in Tree \cap Filter(s) :
             /\ readFaults < MaxReadFaults
             /\ readFaults' = readFaults + 1
             /\ sigs' = [sigs EXCEPT ![s] = [records |-> FileListDigest(s, {f}), signer |-> c]]
    /\ content' = [content EXCEPT ![s] = edits']
    /\ UNCHANGED <<check, hashes, verdicts, granted>>

\* A file of the package is replaced, added or removed before or during a check.
Edit(f, version) ==
    /\ edits < MaxEdits
    /\ edits' = edits + 1
    /\ content[f] # version
    /\ check.at # "no" => version # Absent /\ content[f] # Absent
    /\ content' = [content EXCEPT ![f] = version]
    /\ check' = [check EXCEPT !.edited = check.at # "no"]
    /\ UNCHANGED <<sigs, readFaults, hashes, verdicts, granted>>

----------------------------------------------------------------------------
(* check_signed_digest_of_files *)

StartCheck ==
    /\ check.at = "no" /\ Tree \cap Signatures # {}
    /\ check' = [NoCheck EXCEPT !.at = "next", !.left = Tree \cap Signatures]
    /\ UNCHANGED <<content, sigs, edits, readFaults, hashes, verdicts, granted>>

\* check_all_cb: the next signature of the tree; check_digest resets the marks.
NextSignature(s) ==
    /\ check.at = "next" /\ s \in check.left
    /\ check' = [check EXCEPT !.at = "record", !.sig = s, !.left = @ \ {s}, !.record = 1, !.marked = {}]
    /\ UNCHANGED <<content, sigs, edits, readFaults, hashes, verdicts, granted>>

OneOfAllMutant(rc) ==
    LET signer == sigs[check.sig].signer
    IN  /\ granted' = granted \cup GrantsOf[signer]
        /\ verdicts' = [verdicts EXCEPT ![check.sig] = rc]
        /\ check' = [check EXCEPT !.at = IF check.left = {} THEN "end" ELSE "next",
                                  !.rc = IF GrantsOf[signer] = {} THEN @ ELSE rc]

\* The end of check_one_of_all: the result replaces the one of the former signature, and
\* what the certificate grants is added if it is 0.
OneOfAll(rc) ==
    LET signer == sigs[check.sig].signer
        good == rc = "ok"
        gives == IF good THEN GrantsOf[signer] ELSE {}
    IN  /\ granted' = granted \cup gives
        /\ verdicts' = [verdicts EXCEPT ![check.sig] = rc]
        /\ check' = [check EXCEPT !.at = IF check.left = {} THEN "end" ELSE "next",
                                  !.rc = IF good /\ gives = {} THEN @ ELSE rc]

\* entry_hash: the one recorded in the entry, or the one of the file.
EntryHash(f) == IF hashes[f] = Absent THEN content[f] ELSE hashes[f]

\* A turn of check_digest: the entry must exist and have the hash.
CheckRecord ==
    /\ check.at = "record" /\ check.record <= Len(sigs[check.sig].records)
    /\ LET r == sigs[check.sig].records[check.record]
       IN  IF content[r.name] = Absent
           THEN OneOfAll("ENOENT") /\ UNCHANGED hashes
           ELSE /\ hashes' = [hashes EXCEPT ![r.name] = EntryHash(r.name)]
                /\ IF EntryHash(r.name) = r.hash
                   THEN /\ check' = [check EXCEPT !.record = @ + 1, !.marked = @ \cup {r.name}]
                        /\ UNCHANGED <<verdicts, granted>>
                   ELSE OneOfAll("EBADF")
    /\ UNCHANGED <<content, sigs, edits, readFaults>>

\* check_signed: the entries of the tree whose mark is not the expected one.
CheckSigned(s) ==
    {f \in Tree : (f \in check.marked) # (f \in Files0 \/ (f = Author /\ s \in Distributors))}

\* The end of check_digest, then check_signature.
CheckEnd ==
    /\ check.at = "record" /\ check.record > Len(sigs[check.sig].records)
    /\ OneOfAll(IF CheckSigned(check.sig) # {} THEN "EBADF"
                ELSE IF sigs[check.sig].signer \notin Trusted THEN "ENOENT" ELSE "ok")
    /\ UNCHANGED <<content, sigs, edits, readFaults, hashes>>

DigestNext ==
    \/ \E s \in Signatures, c \in Certs : Sign(s, c)
    \/ \E f \in Files0, v \in {1, 2, Absent} : Edit(f, v)
    \/ StartCheck
    \/ \E s \in Signatures : NextSignature(s)
    \/ CheckRecord \/ CheckEnd

DigestSpec == DigestInit /\ [][DigestNext]_digestVars

----------------------------------------------------------------------------
(* Properties. *)

\* A signature is accepted only if it covers exactly the files it has to, each with the hash
\* that was read first and kept, even if the file is replaced meanwhile, and is refused only
\* for a reason: a file that was not readable when signing, was added, removed or replaced
\* makes it refused (check_digest).
DigestExact ==
    \A s \in Signatures :
        LET covered == {<<r.name, r.hash>> : r \in ToSet(sigs[s].records)}
            expected == {<<f, hashes[f]>> : f \in Tree \cap Filter(s)}
            current == {<<f, content[f]>> : f \in Tree \cap Filter(s)}
        IN  /\ verdicts[s] = "ok" => covered = expected /\ sigs[s].signer \in Trusted
            /\ verdicts[s] \in {"ENOENT", "EBADF"} =>
                  covered # current \/ sigs[s].signer \notin Trusted \/ check.edited

\* The domains granted are those of the signatures that were accepted, whatever the ones
\* that were refused before or after (get_domains_cb).
GrantsOfAccepted ==
    granted = UNION {GrantsOf[sigs[s].signer] : s \in {t \in Signatures : verdicts[t] = "ok"}}

\* The checks of the signatures of a package accept and grant exactly what they should,
\* whatever the order of the signatures and the edits of the files (check_one_of_all).
ChecksExact == DigestExact /\ GrantsOfAccepted
=============================================================================
