---------------------------- MODULE PathValidation ----------------------------
(***************************************************************************)
(* pkix-path: validate_path and the chain walk of RFC 5280 section 6.1.    *)
(*                                                                         *)
(* Chain positions are 1-based: chain[1] is the leaf (the code's index 0)  *)
(* and chain[Len(chain)] is the certificate an anchor issued.  The walk    *)
(* runs from the top down.  An extension field is Absent, Malformed (it    *)
(* does not decode, or decodes to something the accessor refuses) or its   *)
(* value.  DNs are sequences of RDNs up to names_match; <<>> is the empty  *)
(* DN.  A signature is the key that made it.                               *)
(***************************************************************************)
EXTENDS Naturals, Sequences, FiniteSets, PolicyTree, NameConstraints

CONSTANTS
  Absent, Malformed,  \* the two non-values of an extension field
  Callers             \* what callers pass in: each has chains (leaf first),
                      \* anchor_lists and policies, in any combination

Chains == UNION {u.chains : u \in Callers}
AnchorLists == UNION {u.anchor_lists : u \in Callers}

ASSUME InputsAssumption ==
  /\ Absent # Malformed
  /\ \A c \in Chains : DOMAIN c = 1 .. Len(c) /\ Len(c) \in Nat
  /\ \A as \in AnchorLists : DOMAIN as = 1 .. Len(as) /\ Len(as) \in Nat

VARIABLES
  chain, anchors, policy,   \* the arguments of validate_path
  pc,          \* where validate_path, or the chain walk it runs, is
  anchor,      \* position of the anchor loop in anchors
  last_err,    \* error of the last walk, NoTrustedPath before the first
  result,      \* what validate_path returned
  k,           \* position of the walk in chain, top down
  working_spki, working_issuer_name, working_issuer_is_san_identity,
  nc_permitted, nc_excluded, nc_constrained_types,
  explicit_policy, inhibit_any, policy_mapping, policy_tree,
  walked       \* history: the anchor of the last walk, 0 before the first

inputs  == <<chain, anchors, policy>>
working == <<working_spki, working_issuer_name, working_issuer_is_san_identity>>
names   == <<nc_permitted, nc_excluded, nc_constrained_types>>
counters == <<explicit_policy, inhibit_any, policy_mapping>>
walk    == <<k, working, names, counters, policy_tree>>
vars    == <<inputs, pc, anchor, last_err, result, walk, walked>>

(* index is the position the walk stopped at, kept also for the kinds that *)
(* carry none in the code (PathTooLong, MissingSan, MissingEku, ...).      *)
Error(kind, index) == [kind |-> kind, index |-> index]
NoIndex == 0

-----------------------------------------------------------------------------
(* Reading a certificate. *)

Present(ext) == ext \notin {Absent, Malformed}

IsSelfIssued(c) == c.subject # <<>> /\ c.subject = c.issuer

(* Empty subject, critical SAN: the SAN is the identity. *)
HasSanIdentity(c) == c.subject = <<>> /\ c.san # Absent /\ c.san_critical

IsCa(c) == Present(c.bc) /\ c.bc.ca

NonSelfIssued(from, to) == Cardinality({j \in from .. to : ~IsSelfIssued(chain[j])})

Verifies(key, c) == c.signer = key

-----------------------------------------------------------------------------
(* Control. *)

Init ==
  /\ \E u \in Callers : /\ chain \in u.chains
                       /\ anchors \in u.anchor_lists
                       /\ policy \in u.policies
  /\ pc = "start"
  /\ anchor = 1
  /\ last_err = Error("NoTrustedPath", NoIndex)
  /\ result = Error("pending", NoIndex)
  /\ k = 0
  /\ working_spki = Absent
  /\ working_issuer_name = <<>>
  /\ working_issuer_is_san_identity = FALSE
  /\ nc_permitted = {}
  /\ nc_excluded = {}
  /\ nc_constrained_types = {}
  /\ explicit_policy = 0
  /\ inhibit_any = 0
  /\ policy_mapping = 0
  /\ policy_tree = NullTree
  /\ walked = 0

Return(r) ==
  /\ pc' = "returned"
  /\ result' = r
  /\ UNCHANGED <<inputs, anchor, last_err, walk, walked>>

Mut_FirstAnchorDecides(kind, index) == Return(Error(kind, index))

(* chain_walk returns Err: validate_path remembers it and moves on. *)
Fail(kind, index) ==
  /\ last_err' = Error(kind, index)
  /\ pc' = "anchors"
  /\ anchor' = anchor + 1
  /\ UNCHANGED <<inputs, result, walk, walked>>

GoTo(phase) ==
  /\ pc' = phase
  /\ UNCHANGED <<inputs, anchor, last_err, result, walked>>

(* checks is a list of <<it fails, the error kind>>; the first that fails  *)
(* ends the walk.                                                          *)
FirstFailing(checks, j) == checks[j][1] /\ \A m \in 1 .. j - 1 : ~checks[m][1]

FailsOneOf(checks, index) ==
  \E j \in DOMAIN checks : FirstFailing(checks, j) /\ Fail(checks[j][2], index)

Passes(checks) == \A j \in DOMAIN checks : ~checks[j][1]

-----------------------------------------------------------------------------
(* validate_path: input guards. *)

Duplicates ==
  \E i, j \in DOMAIN chain : /\ i < j
                             /\ chain[i].issuer = chain[j].issuer
                             /\ chain[i].serial = chain[j].serial

InconsistentOids == {j \in DOMAIN chain : chain[j].alg # chain[j].tbs_alg}

ChainTooLong == NonSelfIssued(2, Len(chain)) > policy.max_path_len

(* The first guard that objects names the error; a leaf-first scan names   *)
(* the first certificate whose two algorithm fields disagree.              *)
CheckInputs ==
  /\ pc = "start"
  /\ IF chain = <<>> \/ anchors = <<>> THEN Return(Error("NoTrustedPath", NoIndex))
     ELSE IF Duplicates THEN Return(Error("DuplicateCertificate", NoIndex))
     ELSE IF InconsistentOids # {}
          THEN \E j \in InconsistentOids :
                 /\ \A m \in InconsistentOids : j <= m
                 /\ Return(Error("MalformedCertificate", j))
     ELSE IF ChainTooLong THEN Return(Error("PathTooLong", NoIndex))
     ELSE GoTo("anchors") /\ UNCHANGED walk

(* validate_path: the anchor loop. *)

(* An anchor is tried when its name is the top issuer; when the top        *)
(* certificate is self-issued its key must also be the anchor's.           *)
Walkable(a) ==
  LET top == chain[Len(chain)]
  IN  /\ a.subject = top.issuer
      /\ top.issuer = top.subject => a.key = top.key

SkipAnchor ==
  /\ pc = "anchors"
  /\ anchor <= Len(anchors)
  /\ ~Walkable(anchors[anchor])
  /\ anchor' = anchor + 1
  /\ UNCHANGED <<inputs, pc, last_err, result, walk, walked>>

(* 6.1.2: the walk starts from the anchor, with a fresh state. *)
BeginWalk ==
  /\ pc = "anchors"
  /\ anchor <= Len(anchors)
  /\ Walkable(anchors[anchor])
  /\ LET a == anchors[anchor]
         n == Len(chain)
         never == n + 1
     IN  /\ pc' = "check"
         /\ k' = n
         /\ working_spki' = a.key
         /\ working_issuer_name' = a.subject
         /\ working_issuer_is_san_identity' = FALSE
         /\ nc_permitted' = IF a.nc = Absent THEN {} ELSE a.nc.permitted
         /\ nc_excluded' = IF a.nc = Absent THEN {} ELSE a.nc.excluded
         /\ nc_constrained_types' = TypeBits(nc_permitted')
         /\ explicit_policy' = IF policy.initial_explicit_policy THEN 0 ELSE never
         /\ inhibit_any' = IF policy.initial_any_policy_inhibit THEN 0 ELSE never
         /\ policy_mapping' = IF policy.initial_policy_mapping_inhibit THEN 0 ELSE never
         /\ policy_tree' = InitPolicyTree
         /\ walked' = anchor
  /\ UNCHANGED <<inputs, anchor, last_err, result>>

OutOfAnchors ==
  /\ pc = "anchors"
  /\ anchor > Len(anchors)
  /\ Return(last_err)

-----------------------------------------------------------------------------
(* chain_walk: 6.1.3, the checks every certificate gets. *)

AlgorithmAllowed(c) ==
  policy.allowed_signature_algs = Absent \/ c.alg \in policy.allowed_signature_algs

InValidity(c) == policy.now >= c.not_before /\ policy.now <= c.not_after

(* saturating_sub: an inverted window has length 0. *)
Lifetime(c) == IF c.not_after >= c.not_before THEN c.not_after - c.not_before ELSE 0

ValidityTooLong(c) ==
  policy.max_validity_secs # Absent /\ Lifetime(c) > policy.max_validity_secs

(* Keys that are not RSA have no rsa_bits and pass. *)
KeyTooSmall(c) ==
  /\ policy.min_rsa_key_bits # Absent
  /\ c.rsa_bits # Absent
  /\ c.rsa_bits < policy.min_rsa_key_bits

Mut_LinkedUnlessEmpty(c) ==
  working_issuer_name = <<>> \/ working_issuer_name = c.issuer

(* A SAN-identity issuer has no DN to compare with. *)
IssuerLinked(c) ==
  working_issuer_is_san_identity \/ working_issuer_name = c.issuer

CertChecks(c) ==
  << <<~AlgorithmAllowed(c), "AlgorithmNotAllowed">>,
     <<~Verifies(working_spki, c), "SignatureInvalid">>,
     <<~IssuerLinked(c), "ChainBroken">>,
     <<~InValidity(c), "ValidityPeriod">>,
     <<ValidityTooLong(c), "ValidityPeriodExceedsMax">>,
     <<KeyTooSmall(c), "KeyTooSmall">>,
     <<c.unhandled_critical, "UnhandledCriticalExtension">>,
     <<c.cp = Malformed, "MalformedCertificate">> >>

CheckCert ==
  /\ pc = "check"
  /\ \/ FailsOneOf(CertChecks(chain[k]), k)
     \/ /\ Passes(CertChecks(chain[k]))
        /\ GoTo("policies")
        /\ UNCHANGED walk

-----------------------------------------------------------------------------
(* chain_walk: 6.1.3 (d) to (f), the policy tree. *)

(* 1 for the certificate below the anchor, Len(chain) for the leaf. *)
CertDepth == Len(chain) - k + 1

MayExpandAny(c) == inhibit_any > 0 \/ (k > 1 /\ IsSelfIssued(c))

TreeAfterPolicies(c) ==
  IF policy_tree = NullTree \/ c.cp = Absent
  THEN NullTree
  ELSE GrowTree(policy_tree, c.cp, CertDepth, MayExpandAny(c))

UpdatePolicies ==
  /\ pc = "policies"
  /\ LET tree == TreeAfterPolicies(chain[k])
     IN  IF explicit_policy = 0 /\ tree = NullTree
         THEN Fail("PolicyViolation", k)
         ELSE /\ policy_tree' = tree
              /\ GoTo("names")
              /\ UNCHANGED <<k, working, names, counters>>

-----------------------------------------------------------------------------
(* chain_walk: 6.1.3 (b) and (c), the names of this certificate. *)

Mut_ExemptNobody(c) == FALSE

ExemptFromNames(c) == k > 1 /\ IsSelfIssued(c)

SanNames(c) == IF Present(c.san) THEN c.san ELSE {}

(* The names of a certificate, wherever it carries them. *)
NamesOf(c) == SubjectNames(c.subject) \cup SanNames(c) \cup c.emails

Permits(nc) == IF Present(nc) THEN nc.permitted ELSE {}

IsLabels(path) == path \in Seq(ToSet(path))

(* Names are lists of labels, and TrustAnchor holds decoded constraints. *)
ASSUME NamesAssumption ==
  /\ \A as \in AnchorLists : \A i \in DOMAIN as :
       as[i].nc # Malformed /\ \A s \in Permits(as[i].nc) : IsLabels(s.path)
  /\ \A c \in Chains : \A i \in DOMAIN c :
       \A n \in NamesOf(c[i]) \cup Permits(c[i].nc) : IsLabels(n.path)

BadNames(c) ==
  /\ ~ExemptFromNames(c)
  /\ NameConstraintsViolated(c.subject, c.emails, SanNames(c),
                             nc_permitted, nc_excluded, nc_constrained_types)

NameChecks(c) ==
  << <<c.san = Malformed, "MalformedCertificate">>,
     <<BadNames(c), "NameConstraintViolation">> >>

CheckNames ==
  /\ pc = "names"
  /\ \/ FailsOneOf(NameChecks(chain[k]), k)
     \/ /\ Passes(NameChecks(chain[k]))
        /\ GoTo(IF k = 1 THEN "leaf" ELSE "ca")
        /\ UNCHANGED walk

-----------------------------------------------------------------------------
(* chain_walk: what the policy asks of the leaf only. *)

(* Absent and empty differ: an empty requirement still decodes the field. *)
Lacks(required, ext) ==
  required # Absent /\ IF Present(ext) THEN ~(required \subseteq ext) ELSE required # {}

LeafChecks(c) ==
  << <<policy.require_subject_alt_name /\ SanNames(c) = {}, "MissingSan">>,
     <<policy.required_leaf_eku # Absent /\ c.eku = Malformed, "MalformedCertificate">>,
     <<Lacks(policy.required_leaf_eku, c.eku), "MissingEku">>,
     <<Lacks(policy.required_leaf_policy_oids, c.cp), "MissingLeafPolicyOid">>,
     <<policy.dn_rule # Absent /\ c.subject \notin policy.dn_rule, "SubjectDnAttrRuleUnmet">>,
     <<policy.require_subject_alt_name /\ policy.require_rfc822_san
         /\ \A n \in SanNames(c) : n.type # "rfc822", "MissingRfc822San">> >>

CheckLeaf ==
  /\ pc = "leaf"
  /\ \/ FailsOneOf(LeafChecks(chain[k]), k)
     \/ /\ Passes(LeafChecks(chain[k]))
        /\ GoTo("next")
        /\ UNCHANGED walk

-----------------------------------------------------------------------------
(* chain_walk: 6.1.4 (k) to (n), what a CA must be. *)

Mut_PathLenCountsAll(c) ==
  IsCa(c) /\ c.bc.path_len # Absent /\ c.bc.path_len < k - 1

(* The certificates between the leaf and this one, self-issued ones free.  *)
PathLenExceeded(c) ==
  IsCa(c) /\ c.bc.path_len # Absent /\ c.bc.path_len < NonSelfIssued(2, k - 1)

CaChecks(c) ==
  << <<c.bc = Malformed, "MalformedCertificate">>,
     <<~IsCa(c), "NotCA">>,
     <<policy.enforce_key_usage /\ c.ku = Malformed, "MalformedCertificate">>,
     <<policy.enforce_key_usage /\ Present(c.ku) /\ "keyCertSign" \notin c.ku, "KeyUsageMissing">>,
     <<policy.require_crl_sign_on_cas /\ c.ku = Malformed, "MalformedCertificate">>,
     <<policy.require_crl_sign_on_cas /\ Present(c.ku) /\ "cRLSign" \notin c.ku, "CrlSignMissing">>,
     <<PathLenExceeded(c), "PathTooLong">>,
     <<c.pm = Malformed, "MalformedCertificate">>,
     <<Present(c.pm) /\ \E m \in Range(c.pm) : AnyPolicy \in {m[1], m[2]}, "PolicyViolation">> >>

CheckCa ==
  /\ pc = "ca"
  /\ \/ FailsOneOf(CaChecks(chain[k]), k)
     \/ /\ Passes(CaChecks(chain[k]))
        /\ GoTo("mappings")
        /\ UNCHANGED walk

(* A PolicyMappings value is a list. *)
ASSUME MappingsAssumption ==
  \A c \in Chains : \A i \in DOMAIN c :
    Present(c[i].pm) => Len(c[i].pm) \in Nat /\ DOMAIN c[i].pm = 1 .. Len(c[i].pm)

(* 6.1.4 (b): the counter decides before this certificate decrements it. *)
TreeAfterMappings(c) ==
  IF Present(c.pm)
  THEN IF policy_mapping > 0
       THEN ApplyMappings(policy_tree, CertDepth, c.pm)
       ELSE DeleteMapped(policy_tree, CertDepth, c.pm)
  ELSE policy_tree

MapPolicies ==
  /\ pc = "mappings"
  /\ policy_tree' = PostOpPrune(TreeAfterMappings(chain[k]), 0)
  /\ GoTo("counters")
  /\ UNCHANGED <<k, working, names, counters>>

(* 6.1.4 (h) to (j): decrement unless self-issued, then clamp. *)
Decremented(c, counter) == IF IsSelfIssued(c) \/ counter = 0 THEN counter ELSE counter - 1

ClampTo(counter, bound) == IF bound # Absent /\ bound < counter THEN bound ELSE counter

Mut_ClampThenDecrement(c, counter, bound) == Decremented(c, ClampTo(counter, bound))

CounterAfter(c, counter, bound) == ClampTo(Decremented(c, counter), bound)

RequireExplicit(c) == IF Present(c.pcons) THEN c.pcons.require_explicit_policy ELSE Absent
InhibitMapping(c) == IF Present(c.pcons) THEN c.pcons.inhibit_policy_mapping ELSE Absent
InhibitAnyPolicy(c) == IF Present(c.iap) THEN c.iap ELSE Absent

(* The SkipCerts fields are non-negative integers. *)
ASSUME SkipCertsAssumption ==
  \A c \in Chains : \A i \in DOMAIN c :
    {RequireExplicit(c[i]), InhibitMapping(c[i]), InhibitAnyPolicy(c[i])} \subseteq Nat \cup {Absent}

ConstraintChecks(c) ==
  << <<c.pcons = Malformed, "MalformedCertificate">>,
     <<c.iap = Malformed, "MalformedCertificate">> >>

UpdateCounters ==
  /\ pc = "counters"
  /\ LET c == chain[k]
     IN  \/ FailsOneOf(ConstraintChecks(c), k)
         \/ /\ Passes(ConstraintChecks(c))
            /\ explicit_policy' = CounterAfter(c, explicit_policy, RequireExplicit(c))
            /\ policy_mapping' = CounterAfter(c, policy_mapping, InhibitMapping(c))
            /\ inhibit_any' = CounterAfter(c, inhibit_any, InhibitAnyPolicy(c))
            /\ GoTo("constraints")
            /\ UNCHANGED <<k, working, names, policy_tree>>

(* 6.1.4 (g): intersect what is permitted, add to what is excluded. *)
ConstrainNames ==
  /\ pc = "constraints"
  /\ LET nc == chain[k].nc
     IN  \/ nc = Malformed /\ Fail("MalformedCertificate", k)
         \/ /\ nc = Absent
            /\ GoTo("next")
            /\ UNCHANGED walk
         \/ /\ Present(nc)
            /\ nc_permitted' = IntersectPermitted(nc_permitted, nc.permitted)
            /\ nc_excluded' = UnionExcluded(nc_excluded, nc.excluded)
            /\ nc_constrained_types' = nc_constrained_types \cup TypeBits(nc.permitted)
            /\ GoTo("next")
            /\ UNCHANGED <<k, working, counters, policy_tree>>

(* The bottom of the loop: this certificate is the issuer of the next. *)
NextCert ==
  /\ pc = "next"
  /\ working_spki' = chain[k].key
  /\ working_issuer_name' = chain[k].subject
  /\ working_issuer_is_san_identity' = HasSanIdentity(chain[k])
  /\ k' = k - 1
  /\ GoTo(IF k = 1 THEN "finish" ELSE "check")
  /\ UNCHANGED <<names, counters, policy_tree>>

-----------------------------------------------------------------------------
(* chain_walk: 6.1.5, and the verdict. *)

FinalTree ==
  IF policy.initial_policy_set = {} \/ policy_tree = NullTree
  THEN policy_tree
  ELSE IntersectInitialSet(policy_tree, policy.initial_policy_set, Len(chain))

Finish ==
  /\ pc = "finish"
  /\ LET leaf == chain[1]
         explicit == CounterAfter(leaf, explicit_policy, RequireExplicit(leaf))
     IN  IF leaf.pcons = Malformed
         THEN Fail("MalformedCertificate", 1)
         ELSE IF explicit = 0 /\ FinalTree = NullTree
         THEN Fail("PolicyViolation", 1)
         ELSE Return(Error("Ok", NoIndex))

Done == pc = "returned" /\ UNCHANGED vars

Step ==
  \/ CheckInputs
  \/ SkipAnchor
  \/ BeginWalk
  \/ OutOfAnchors
  \/ CheckCert
  \/ UpdatePolicies
  \/ CheckNames
  \/ CheckLeaf
  \/ CheckCa
  \/ MapPolicies
  \/ UpdateCounters
  \/ ConstrainNames
  \/ NextCert
  \/ Finish

Next == Step \/ Done

Spec == Init /\ [][Next]_vars

-----------------------------------------------------------------------------
(* Reference definitions: RFC 5280 over the whole chain at once. *)

Accepted == pc = "returned" /\ result.kind = "Ok"

WellFormedInputs ==
  chain # <<>> /\ ~Duplicates /\ InconsistentOids = {} /\ ~ChainTooLong

(* What stands above position j when the walk starts from anchor a. *)
KeyAbove(j, a) == IF j = Len(chain) THEN a.key ELSE chain[j + 1].key

LinkedAbove(j, a) ==
  IF j = Len(chain)
  THEN chain[j].issuer = a.subject
  ELSE HasSanIdentity(chain[j + 1]) \/ chain[j].issuer = chain[j + 1].subject

(* Position j is vouched for by what stands above it, at the policy's time. *)
VouchedFor(j, a) ==
  /\ chain[j].signer = KeyAbove(j, a)
  /\ LinkedAbove(j, a)
  /\ InValidity(chain[j])
  /\ AlgorithmAllowed(chain[j])
  /\ ~ValidityTooLong(chain[j])
  /\ ~KeyTooSmall(chain[j])
  /\ ~chain[j].unhandled_critical
  /\ Malformed \notin {chain[j].cp, chain[j].san, chain[j].pcons}

UsageAllows(j, bit) ==
  chain[j].ku = Absent \/ (Present(chain[j].ku) /\ bit \in chain[j].ku)

PathLenAllows(j) ==
  chain[j].bc.path_len # Absent => ~(chain[j].bc.path_len < NonSelfIssued(2, j - 1))

(* Position j may sign certificates (and CRLs, if the policy asks for it): *)
(* a CA, for signing, and far enough up.                                   *)
MaySign(j) ==
  /\ IsCa(chain[j])
  /\ Malformed \notin {chain[j].pm, chain[j].iap, chain[j].nc}
  /\ policy.enforce_key_usage => UsageAllows(j, "keyCertSign")
  /\ policy.require_crl_sign_on_cas => UsageAllows(j, "cRLSign")
  /\ PathLenAllows(j)

(* A self-issued top certificate is the anchor's own, key included.        *)
Eligible(a) ==
  LET top == chain[Len(chain)]
  IN  a.subject = top.issuer /\ (top.issuer = top.subject => a.key = top.key)

Trusts(a) ==
  /\ Eligible(a)
  /\ \A j \in DOMAIN chain : VouchedFor(j, a) /\ (j > 1 => MaySign(j))

(* An error of this kind at position j is true of the chain under a. *)
Fits(kind, j, a) ==
  /\ kind = "SignatureInvalid" => chain[j].signer # KeyAbove(j, a)
  /\ kind = "ChainBroken" => ~LinkedAbove(j, a)
  /\ kind = "NotCA" => j > 1 /\ ~IsCa(chain[j])
  /\ kind = "ValidityPeriod" => ~InValidity(chain[j])
  /\ kind = "PathTooLong" => j > 1 /\ IsCa(chain[j]) /\ ~PathLenAllows(j)

(* No policies, name constraints or leaf requirements have a say. *)
OnlyTrust ==
  /\ \A j \in DOMAIN chain : \A ext \in {chain[j].nc, chain[j].pcons, chain[j].pm} : ~Present(ext)
  /\ \A i \in DOMAIN anchors : anchors[i].nc = Absent
  /\ ~policy.initial_explicit_policy
  /\ ~policy.require_subject_alt_name
  /\ \A rule \in {policy.required_leaf_eku, policy.required_leaf_policy_oids, policy.dn_rule} :
       rule = Absent

-----------------------------------------------------------------------------
(* Properties: trust. *)

WalkPhases == {"check", "policies", "names", "leaf", "ca", "mappings", "counters",
               "constraints", "next"}

TypeOK ==
  /\ pc \in {"start", "anchors", "finish", "returned"} \cup WalkPhases
  /\ anchor \in 1 .. Len(anchors) + 1
  /\ walked \in 0 .. Len(anchors)
  /\ k \in 0 .. Len(chain)
  /\ pc \in WalkPhases => k \in DOMAIN chain /\ walked = anchor
  /\ explicit_policy \in Nat /\ inhibit_any \in Nat /\ policy_mapping \in Nat
  /\ working_issuer_is_san_identity \in BOOLEAN
  /\ nc_constrained_types \subseteq NcTypes

(* A chain validate_path accepts is one chain of trust from an anchor the   *)
(* caller supplied down to the leaf: each signature is by the key above,    *)
(* each name links, every certificate is in its validity window, and every  *)
(* one above the leaf is a CA whose pathLenConstraint allows what is below. *)
AcceptedChainIsTrusted ==
  Accepted => /\ anchor \in DOMAIN anchors
              /\ Trusts(anchors[anchor])

(* Trying several anchors (a rolled root key under one name) neither loses  *)
(* nor invents a path: the verdict is Ok exactly when some anchor alone     *)
(* trusts the chain, and anchor_index is the first of them.  For calls that *)
(* ask nothing but trust (see OnlyTrust).                                   *)
FirstTrustingAnchorWins ==
  pc = "returned" /\ WellFormedInputs /\ OnlyTrust =>
    IF result.kind = "Ok"
    THEN \A i \in 1 .. anchor - 1 : ~Trusts(anchors[i])
    ELSE \A i \in DOMAIN anchors : ~Trusts(anchors[i])

(* The error reported belongs to the last anchor walked, and blames a       *)
(* certificate that really fails under it, everything above being sound:    *)
(* no working state of an earlier walk or certificate leaks into it.        *)
ErrorBlamesTheFault ==
  (pc = "returned" /\ walked > 0 /\ result.index > 0) =>
    LET j == result.index
        a == anchors[walked]
    IN  /\ Eligible(a)
        /\ \A i \in walked + 1 .. Len(anchors) : ~Eligible(anchors[i])
        /\ Fits(result.kind, j, a)
        /\ \A m \in j + 1 .. Len(chain) : VouchedFor(m, a) /\ MaySign(m)
=============================================================================
