------------------------------ MODULE CertChain ------------------------------
(***************************************************************************)
(* The trust in the signer of a package: common-cert.c climbs from a       *)
(* certificate to a trusted one, and domain-spec.c holds the permissions   *)
(* on domains that each certificate carries.                               *)
(*                                                                         *)
(* The certificates are chosen at start: who has issued whom, and the      *)
(* specification of domains that each one carries, as the list of its      *)
(* items.                                                                  *)
(***************************************************************************)
EXTENDS Integers, Sequences, FiniteSets, SequencesExt, FiniteSetsExt

CONSTANTS
    Domains,        \* the domains
    Worlds,         \* the certificates: a set of records [certs, trusteds, issuers, raw]
    NoExt           \* a certificate without specification

\* The lists that are read from files, and the items of the specifications they carry.
ASSUME WorldsAssumption ==
    /\ IsFiniteSet(Domains)
    /\ \A w \in Worlds :
          /\ w.certs \in Seq(ToSet(w.certs)) /\ w.trusteds \in Seq(ToSet(w.trusteds))
          /\ \A c \in ToSet(w.certs) \cup ToSet(w.trusteds) :
                w.raw[c] # NoExt => w.raw[c] \in Seq(ToSet(w.raw[c]))

VARIABLES
    world,      \* the certificates
    target,     \* the certificate to check
    spec,       \* the result of check_crt_chain, or NoExt
    text        \* the string of the specification: its items, room and size

chainVars == <<world, target, spec, text>>

\* domain_permission_t
None0 == 0
Grants == 1
Auth == 2
Root == 3
EmptySpec == [d \in Domains |-> None0]
Result(rc, of) == [rc |-> rc, spec |-> of]

\* get_domain_spec_of_string: an item is a tag and a name, a name comes once.
SpecOfString(items) ==
    LET Step(s, item) ==
          IF s.rc # "ok" THEN s
          ELSE IF item.tag \notin Grants..Root THEN Result("ENOKEY", EmptySpec)
          ELSE IF item.name \notin Domains THEN Result("ENODATA", EmptySpec)
          ELSE IF s.spec[item.name] # None0 THEN Result("EEXIST", EmptySpec)
          ELSE [s EXCEPT !.spec[item.name] = item.tag]
    IN  FoldLeft(Step, Result("ok", EmptySpec), items)

\* get_domain_spec_of_cert
SpecOfCert(w, c) ==
    IF w.raw[c] = NoExt THEN Result("ENOENT", EmptySpec) ELSE SpecOfString(w.raw[c])

AbleToSignMutant(auth, spec1) ==
    \A d \in Domains : spec1[d] # None0 => auth[d] >= spec1[d]

\* is_domain_spec_able_to_sign
AbleToSign(auth, spec1) ==
    \A d \in Domains : spec1[d] # None0 => auth[d] > spec1[d] \/ auth[d] = Root

\* check_crt_chain: the first of the given certificates that has issued the target, or the
\* first trusted one; the former must itself be trusted and be able to sign the target.
CheckCrtChain(w) ==
    LET Issuer(c, among) == {i \in DOMAIN among : among[i] \in w.issuers[c]}
        Level(of, n, c) ==
          LET given == {i \in Issuer(c, w.certs) : w.certs[i] # c}   \* not the self signed
              trusted == Issuer(c, w.trusteds)
              own == SpecOfCert(w, c)
          IN  IF given # {} /\ n > 0
              THEN LET super == of[n - 1][w.certs[Min(given)]]
                   IN  IF super.rc # "ok" THEN Result(super.rc, EmptySpec)
                       ELSE IF own.rc = "ENOENT" THEN Result("ok", EmptySpec)
                       ELSE IF own.rc # "ok" THEN own
                       ELSE IF ~AbleToSign(super.spec, own.spec) THEN Result("EINVAL", EmptySpec)
                       ELSE own
              ELSE IF trusted # {} THEN SpecOfCert(w, w.trusteds[Min(trusted)])
              ELSE Result("ENOENT", EmptySpec)
        of[n \in 0..Len(w.certs)] == [c \in ToSet(w.certs) |-> Level(of, n, c)]
    IN  of[Len(w.certs)]

ChainInit ==
    /\ world \in Worlds
    /\ target \in ToSet(world.certs)
    /\ spec = NoExt
    /\ text = NoExt

Check ==
    /\ spec = NoExt
    /\ spec' = CheckCrtChain(world)[target]
    /\ UNCHANGED <<world, target, text>>

\* get_string_of_domain_spec: each domain takes its tag, its name (of one byte) and a comma
\* or the final null.
StringOfSpec(of) ==
    LET names == SetToSeq({d \in Domains : of[d] # None0})
    IN  [items |-> [i \in DOMAIN names |-> [tag |-> of[names[i]], name |-> names[i]]],
         room |-> 3 * Len(names),
         size |-> 2 * Len(names) + (IF names = <<>> THEN 0 ELSE Len(names) - 1) + 1]

\* The tools print the specification they got.
PrintSpec ==
    /\ spec # NoExt /\ spec.rc = "ok" /\ text = NoExt
    /\ text' = StringOfSpec(spec.spec)
    /\ UNCHANGED <<world, target, spec>>

ChainNext == Check \/ PrintSpec
ChainSpec == ChainInit /\ [][ChainNext]_chainVars

----------------------------------------------------------------------------
(* Properties. *)

\* The certificates from the target up to a trusted one.
Trusting == {c \in ToSet(world.trusteds) : \E p \in ToSet(world.certs) : c \in world.issuers[p]}

\* A domain that the check of a certificate gives is known to a trusted certificate with at
\* least that permission, however long the chain and whatever its certificates tell
\* (check_crt_chain, is_domain_spec_able_to_sign).
ChainBounded ==
    spec # NoExt /\ spec.rc = "ok" =>
        \A d \in Domains : spec.spec[d] # None0 =>
            \E t \in Trusting : LET top == SpecOfCert(world, t).spec[d]
                                IN  top = Root \/ top >= spec.spec[d]

\* The given certificates that have issued the target.
Deliverers == {c \in ToSet(world.certs) : c \in world.issuers[target] /\ c # target}

\* Between the given certificates no right to sign passes down, unless a root is above: a
\* certificate that another one has issued has no '#' nor '@' of a domain that no trusted
\* certificate is '@' of (is_domain_spec_able_to_sign). Nothing is said of a certificate that
\* a trusted one has issued itself: check_crt_chain gives it the specification of the trusted one,
\* its '#' included, where docs/giving-credentials.md lets '#' deliver only '+'.
RightsDecrease ==
    spec # NoExt /\ spec.rc = "ok" /\ Deliverers # {} =>
        \A d \in Domains : spec.spec[d] \in {Auth, Root} =>
            \E t \in Trusting : SpecOfCert(world, t).spec[d] = Root

\* What is printed of a specification is read as that specification, and fits the room that
\* is allocated for it, but for the null of a specification without domain.
PrintedSpec ==
    text # NoExt =>
        /\ SpecOfString(text.items) = spec
        /\ text.size <= text.room \/ spec.spec = EmptySpec

\* The rights that a chain of certificates gives are bounded by those of its trusted end, the
\* right to sign does not pass from a given certificate to the next but under a root, and the
\* rights are printed as they are (check_crt_chain, get_string_of_domain_spec).
RightsFaithful == ChainBounded /\ RightsDecrease /\ PrintedSpec
=============================================================================
