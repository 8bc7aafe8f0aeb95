---------------------------- MODULE ChainVerifier ----------------------------
(***************************************************************************)
(* pkix-chain: Verifier::verify_one, its revocation loop and its AIA loop, *)
(* and the purpose wrappers over it.                                       *)
(*                                                                         *)
(* The crates below it appear by what they promise.  validate_path walks   *)
(* from an anchor to the leaf and reports the first fault; the path        *)
(* builder, as PathBuilder has it, answers from the set of chains the pool *)
(* holds, so the pool is a set.  Servers answer a caIssuers URI with one   *)
(* of the certificates it stands for, with garbage or not at all, and the  *)
(* caller's revocation checker says what it likes.                         *)
(*                                                                         *)
(* Chain positions are 1-based: chain[1] is the leaf.                      *)
(***************************************************************************)
EXTENDS Naturals, Sequences, FiniteSets, SequencesExt

CONSTANTS
  Cert,         \* certificates: records, see CertFields
  Uri,          \* caIssuers URIs
  Serves,       \* Serves[u]: the certificates that may be served at u
  Calls,        \* the calls made: see CallFields
  MaxDepth,     \* PathBuilderConfig::max_depth
  Budget,       \* PathBuilderConfig::dfs_budget
  AIA_MAX_DEPTH \* bound on the fetch iterations; 5 in the code

Purposes == {"any", "server", "mailbox", "time_stamper", "ocsp_responder"}

\* What verification reads of a certificate.  "fits" are the purposes its names
\* and extensions are right for; "expired" stands for every defect that more
\* certificates do not cure.
CertFields(c) ==
  /\ {"subject", "issuer", "serial", "key", "signer", "ca", "expired", "nocheck",
      "uris", "fits"} \subseteq DOMAIN c
  /\ c.uris \subseteq Uri
  /\ c.fits \subseteq Purposes

CallFields(c) ==
  /\ DOMAIN c = {"chain", "anchors", "purpose", "issuer", "aia"}
  /\ c.chain \in Seq(Cert)
  /\ DOMAIN c.anchors = 1 .. Len(c.anchors) /\ Len(c.anchors) \in Nat
  /\ c.purpose \in Purposes
  /\ c.issuer \in Cert
  /\ c.aia \in {"http", "none"}

ASSUME InputsAssumption ==
  /\ \A c \in Cert : CertFields(c)
  /\ Serves \in [Uri -> SUBSET Cert]
  /\ \A c \in Calls : CallFields(c)
  /\ MaxDepth \in Nat /\ Budget \in Nat /\ AIA_MAX_DEPTH \in Nat

VARIABLES
  call,            \* the arguments
  pc,              \* where the call is
  pool,            \* certificates known, supplied and fetched
  tried_uris,
  batch,           \* the URIs about to be fetched
  iteration,
  last_aia_error,  \* "none" or a kind of AiaError
  built,           \* the chain under validation
  anchor,          \* validated.anchor_index
  index,           \* position of the revocation loop
  result,
  fetches,         \* history: how often each URI was fetched
  checked          \* history: positions the caller's checker has passed

aia   == <<pool, tried_uris, batch, iteration, last_aia_error, fetches>>
vars  == <<call, pc, aia, built, anchor, index, result, checked>>

(***************************************************************************)
(* validate_path: an anchor is tried when its name is the issuer of the    *)
(* top certificate, the first that carries the chain wins, and the last    *)
(* one tried gives the error.                                              *)
(***************************************************************************)
NameAbove(c, a, j) == IF j = Len(c) THEN a.subject ELSE c[j + 1].subject
KeyAbove(c, a, j)  == IF j = Len(c) THEN a.key ELSE c[j + 1].key

\* What speaks against position j, in the order of the checks.
Fault(c, a, j) ==
  IF c[j].signer # KeyAbove(c, a, j) THEN "SignatureInvalid"
  ELSE IF c[j].issuer # NameAbove(c, a, j) THEN "ChainBroken"
  ELSE IF c[j].expired THEN "ValidityPeriod"
  ELSE IF j > 1 /\ ~c[j].ca THEN "NotCA"
  ELSE "none"

\* The walk runs top down and stops at the first fault.
Faults(c, a) == {j \in 1 .. Len(c) : Fault(c, a, j) # "none"}
WalkError(c, a) == Fault(c, a, Max(Faults(c, a)))

Walkable(c, as) ==
  {n \in 1 .. Len(as) :
     /\ as[n].subject = Last(c).issuer
     /\ Last(c).issuer = Last(c).subject => as[n].key = Last(c).key}

Accepting(c, as) == {n \in Walkable(c, as) : Faults(c, as[n]) = {}}

\* Without the input check for repeated certificates.
Mut_DuplicatesPass(c) == FALSE

\* Certificates are compared by issuer and serial number.
Duplicates(c) ==
  \E i, j \in 1 .. Len(c) : i < j /\ c[i].issuer = c[j].issuer /\ c[i].serial = c[j].serial

PathError(c, as) ==
  IF Len(as) > 0 /\ Duplicates(c) THEN "DuplicateCertificate"
  ELSE IF Walkable(c, as) = {} THEN "NoTrustedPath"
  ELSE WalkError(c, as[Max(Walkable(c, as))])

Validates(c, as) == c # <<>> /\ ~Duplicates(c) /\ Accepting(c, as) # {}

AnchorIndex(c, as) == Min(Accepting(c, as))

(***************************************************************************)
(* The path builder: the chains it can reach from the leaf, and what       *)
(* build_first_valid_path makes of them.                                   *)
(***************************************************************************)
Anchored(c) == \E n \in 1 .. Len(call.anchors) : call.anchors[n].subject = Last(c).issuer

Topological(c) ==
  \A j \in 2 .. Len(c) : /\ c[j].ca /\ c[j].subject = c[j - 1].issuer
                         /\ \A i \in 1 .. j - 1 : c[i].key # c[j].key

\* Chains over the pool, none continued above a certificate an anchor issued.
Explorable(depth) ==
  {c \in {<<call.chain[1]>> \o above : above \in UNION {[1 .. n -> pool] : n \in 0 .. depth}} :
     Topological(c) /\ \A j \in 1 .. Len(c) - 1 : ~Anchored(SubSeq(c, 1, j))}

Reachable(depth) == {c \in Explorable(depth) : Anchored(c)}

Candidates == {c \in Reachable(MaxDepth) : Validates(c, call.anchors)}

\* The budget lasts for a search to this depth.
Exhausts(depth) == Cardinality(Explorable(depth)) <= Budget

\* The error it may return.  When the budget does not last, it may still come to
\* a chain that validates before it runs out.
MayFail(e) ==
  LET nothing == Reachable(MaxDepth) = {}
  IN  CASE e = "NoValidPath"    -> Exhausts(MaxDepth) /\ ~nothing /\ Candidates = {}
        [] e = "NoPathFound"    -> /\ Exhausts(MaxDepth) /\ Exhausts(MaxDepth + 1)
                                   /\ Reachable(MaxDepth + 1) = {}
        [] e = "DepthExceeded"  -> /\ Exhausts(MaxDepth) /\ nothing
                                   /\ Reachable(MaxDepth + 1) # {}
        [] e = "BudgetExceeded" -> \/ ~Exhausts(MaxDepth)
                                   \/ nothing /\ ~Exhausts(MaxDepth + 1)

(***************************************************************************)
(* Returning.                                                              *)
(***************************************************************************)
Results == {"pending", "Ok", "Identity", "ProfileViolation", "OcspDelegation", "Revocation",
            "Aia", "AiaDepthExceeded"}
           \cup {"DuplicateCertificate", "NoTrustedPath", "SignatureInvalid",
                 "ChainBroken", "ValidityPeriod", "NotCA"}
           \cup {"NoPathFound", "DepthExceeded", "BudgetExceeded"}

Return(r) == result' = r /\ pc' = "returned"

\* is_aia_recoverable
Recoverable == {"ChainBroken", "NoTrustedPath", "SignatureInvalid"}

\* The chain has passed validate_path: on to revocation.
Validated(c) ==
  /\ built' = c
  /\ anchor' = AnchorIndex(c, call.anchors)
  /\ index' = 1
  /\ pc' = "revocation"
  /\ UNCHANGED result

(***************************************************************************)
(* verify_one                                                              *)
(***************************************************************************)
\* An empty chain: verify_ocsp_responder turns it down by itself; for the others
\* NoTrustedPath leads to build_with_aia, which has no leaf to start from.
EmptyChain ==
  /\ pc = "start" /\ call.chain = <<>>
  /\ Return(IF call.purpose = "ocsp_responder" THEN "OcspDelegation" ELSE "NoPathFound")
  /\ UNCHANGED <<call, aia, built, anchor, index, checked>>

FastPath ==
  /\ pc = "start" /\ call.chain # <<>>
  /\ IF Validates(call.chain, call.anchors)
       THEN Validated(call.chain) /\ UNCHANGED aia
     ELSE /\ UNCHANGED <<built, anchor, index>>
          /\ IF PathError(call.chain, call.anchors) \in Recoverable
               THEN /\ pool' = Range(call.chain)
                    /\ pc' = "build"
                    /\ UNCHANGED <<tried_uris, batch, iteration, last_aia_error, fetches, result>>
               ELSE Return(PathError(call.chain, call.anchors)) /\ UNCHANGED aia
  /\ UNCHANGED <<call, checked>>

\* A chain was found, or one whose validation will say what is wrong with it.
BuiltChain(c) ==
  /\ \/ c \in Candidates
     \/ MayFail("NoValidPath") /\ c \in Reachable(MaxDepth)
  /\ built' = c
  /\ pc' = "validate"
  /\ UNCHANGED <<call, aia, anchor, index, result, checked>>

Build ==
  /\ pc = "build"
  /\ \E c \in Reachable(MaxDepth) : BuiltChain(c)

\* One iteration too many.
InLoop == iteration < AIA_MAX_DEPTH

\* Inside of the loop: too deep and too many are final ...
BuildFails ==
  /\ pc = "build" /\ InLoop
  /\ \E e \in {"DepthExceeded", "BudgetExceeded"} : MayFail(e) /\ Return(e)
  /\ UNCHANGED <<call, aia, built, anchor, index, checked>>

IssuerResolvable(c) ==
  \/ \E d \in pool : d.subject = c.issuer
  \/ \E n \in 1 .. Len(call.anchors) : call.anchors[n].subject = c.issuer

\* URIs are not remembered.
Mut_NewUrisAgain == UNION {c.uris : c \in {d \in pool : ~IssuerResolvable(d)}}

NewUris == (UNION {c.uris : c \in {d \in pool : ~IssuerResolvable(d)}}) \ tried_uris

\* ... and no path means that something is missing.
Collect ==
  /\ pc = "build" /\ InLoop /\ MayFail("NoPathFound")
  /\ tried_uris' = tried_uris \cup NewUris
  /\ batch' = NewUris
  /\ IF NewUris = {}
       THEN Return(IF last_aia_error = "none" THEN "NoPathFound" ELSE "Aia")
       ELSE pc' = "fetch" /\ UNCHANGED result
  /\ UNCHANGED <<call, pool, iteration, last_aia_error, fetches, built, anchor, index, checked>>

\* No last try: what the last iteration fetched is never looked at.
Mut_NoLastTry ==
  /\ pc = "build" /\ iteration = AIA_MAX_DEPTH
  /\ Return("AiaDepthExceeded")
  /\ UNCHANGED <<call, aia, built, anchor, index, checked>>

\* The last try, after the loop.
DepthExceeded ==
  /\ pc = "build" /\ iteration = AIA_MAX_DEPTH
  /\ \E e \in {"NoPathFound", "DepthExceeded", "BudgetExceeded"} : MayFail(e)
  /\ Return("AiaDepthExceeded")
  /\ UNCHANGED <<call, aia, built, anchor, index, checked>>

\* The AiaErrors of NoAiaFetcher, and of a fetch or a decode that failed.
AiaErrors == {"FetchingDisabled", "MalformedCertificate", "IoFailure"}
FetchErrors ==
  IF call.aia = "none" THEN {"FetchingDisabled"} ELSE {"MalformedCertificate", "IoFailure"}

\* Some of the URIs bring a certificate each; of the errors of the others the last
\* one is kept.
Receive(got) ==
  /\ pool' = pool \cup Range(got)
  /\ IF DOMAIN got = batch THEN UNCHANGED last_aia_error ELSE last_aia_error' \in FetchErrors
  /\ IF DOMAIN got = {}
       THEN Return("Aia") /\ UNCHANGED iteration
       ELSE iteration' = iteration + 1 /\ pc' = "build" /\ UNCHANGED result

BatchFetch ==
  /\ pc = "fetch"
  /\ \E some \in IF call.aia = "none" THEN {{}} ELSE SUBSET batch :
       \E got \in [some -> UNION {Serves[u] : u \in some}] :
         /\ \A u \in some : got[u] \in Serves[u]
         /\ Receive(got)
  /\ fetches' = [u \in Uri |-> fetches[u] + (IF u \in batch THEN 1 ELSE 0)]
  /\ UNCHANGED <<call, tried_uris, batch, built, anchor, index, checked>>

ValidateBuilt ==
  /\ pc = "validate"
  /\ IF Validates(built, call.anchors)
       THEN Validated(built)
       ELSE Return(PathError(built, call.anchors)) /\ UNCHANGED <<built, anchor, index>>
  /\ UNCHANGED <<call, aia, checked>>

(***************************************************************************)
(* run_revocation_checks, through the shim of verify_ocsp_responder.       *)
(***************************************************************************)
\* NoCheckShim: a responder with id-pkix-ocsp-nocheck, known by issuer and serial.
Bypassed(c) ==
  /\ call.purpose = "ocsp_responder" /\ call.chain[1].nocheck
  /\ c.issuer = call.chain[1].issuer /\ c.serial = call.chain[1].serial

LoopEnds(n) == n > Len(built)

SkipCheck ==
  /\ pc = "revocation" /\ ~LoopEnds(index) /\ Bypassed(built[index])
  /\ index' = index + 1
  /\ UNCHANGED <<call, pc, aia, built, anchor, result, checked>>

CheckRevocation ==
  /\ pc = "revocation" /\ ~LoopEnds(index) /\ ~Bypassed(built[index])
  /\ \/ index' = index + 1 /\ checked' = checked \cup {index} /\ UNCHANGED <<pc, result>>
     \/ Return("Revocation") /\ UNCHANGED <<index, checked>>
  /\ UNCHANGED <<call, aia, built, anchor>>

ChecksDone ==
  /\ pc = "revocation" /\ LoopEnds(index)
  /\ pc' = "purpose"
  /\ UNCHANGED <<call, aia, built, anchor, index, result, checked>>

(***************************************************************************)
(* The purpose wrappers, on the first certificate the caller passed in.    *)
(***************************************************************************)
Mut_DelegatedByName(c, issuer) == c.issuer = issuer.subject

\* verify_responder_is_delegated_by
DelegatedBy(c, issuer) == c.issuer = issuer.subject /\ c.signer = issuer.key

\* The shape a time stamper's key usages must have, the name or mailbox of the others.
Fits(c) == call.purpose \in c.fits

PurposeError ==
  CASE call.purpose = "any" -> "Ok"
    [] call.purpose \in {"server", "mailbox"} ->
         IF Fits(call.chain[1]) THEN "Ok" ELSE "Identity"
    [] call.purpose = "time_stamper" ->
         IF Fits(call.chain[1]) THEN "Ok" ELSE "ProfileViolation"
    [] call.purpose = "ocsp_responder" ->
         IF DelegatedBy(call.chain[1], call.issuer) THEN "Ok" ELSE "OcspDelegation"

CheckPurpose ==
  /\ pc = "purpose"
  /\ Return(PurposeError)
  /\ UNCHANGED <<call, aia, built, anchor, index, checked>>

(***************************************************************************)
(* The specification.                                                      *)
(***************************************************************************)
Init ==
  /\ call \in Calls
  /\ pc = "start"
  /\ pool = {} /\ tried_uris = {} /\ batch = {}
  /\ iteration = 0
  /\ last_aia_error = "none"
  /\ built = <<>> /\ anchor = 0 /\ index = 0
  /\ result = "pending"
  /\ fetches = [u \in Uri |-> 0]
  /\ checked = {}

Step ==
  \/ EmptyChain \/ FastPath
  \/ Build \/ BuildFails \/ Collect \/ DepthExceeded \/ BatchFetch \/ ValidateBuilt
  \/ SkipCheck \/ CheckRevocation \/ ChecksDone
  \/ CheckPurpose

Done == pc = "returned" /\ UNCHANGED vars

Next == Step \/ Done

Spec == Init /\ [][Next]_vars

-----------------------------------------------------------------------------
(***************************************************************************)
(* Properties.                                                             *)
(***************************************************************************)
\* Types, and the two loops within their bounds: at most AIA_MAX_DEPTH
\* iterations, and the revocation loop inside of the chain.
TypeOK ==
  /\ call \in Calls
  /\ pc \in {"start", "build", "fetch", "validate", "revocation", "purpose", "returned"}
  /\ pool \subseteq Cert
  /\ tried_uris \subseteq Uri /\ batch \subseteq Uri
  /\ iteration \in 0 .. AIA_MAX_DEPTH
  /\ pc = "fetch" => iteration < AIA_MAX_DEPTH
  /\ last_aia_error \in AiaErrors \cup {"none"}
  /\ built \in Seq(Cert)
  /\ anchor \in 0 .. Len(call.anchors)
  /\ index \in 0 .. Len(built) + 1
  /\ result \in Results
  /\ fetches \in [Uri -> Nat]
  /\ checked \subseteq 1 .. Len(built)

\* A chain is accepted only as a whole: it starts at the caller's leaf, every
\* certificate is unexpired, signed and named by the one above it, the top one by
\* an anchor the caller trusts, and the caller's checker has passed every one of
\* them.  Only a responder certificate with id-pkix-ocsp-nocheck goes unchecked,
\* and never a CA above it, although the shim knows certificates by number.
AcceptedChainIsChecked ==
  result = "Ok" =>
    /\ built # <<>> /\ built[1] = call.chain[1]
    /\ anchor \in 1 .. Len(call.anchors)
    /\ \A j \in 1 .. Len(built) :
         /\ built[j].signer = KeyAbove(built, call.anchors[anchor], j)
         /\ built[j].issuer = NameAbove(built, call.anchors[anchor], j)
         /\ ~built[j].expired
         /\ j > 1 => built[j].ca
         /\ \/ j \in checked
            \/ j = 1 /\ call.purpose = "ocsp_responder" /\ built[1].nocheck

\* An accepted OCSP responder was certified by the very key of the CA it is to
\* speak for, also when the verifier put the chain together by itself and a CA of
\* the same name was closer at hand.
ResponderSpeaksForIssuer ==
  result = "Ok" /\ call.purpose = "ocsp_responder" =>
    /\ KeyAbove(built, call.anchors[anchor], 1) = call.issuer.key
    /\ NameAbove(built, call.anchors[anchor], 1) = call.issuer.subject

\* Across all iterations of build_with_aia a URI is fetched at most once.
UrisFetchedOnce == \A u \in Uri : fetches[u] <= 1

\* When verify_one gives up for want of certificates, none of the chains its pool
\* holds would have validated: nothing fetched in the last iteration is wasted.
NothingOverlooked ==
  result \in {"NoPathFound", "Aia", "AiaDepthExceeded"} /\ call.chain # <<>> =>
    Candidates = {} \/ ~Exhausts(MaxDepth)

=============================================================================
