------------------------- MODULE PathValidation_proofs -------------------------
(***************************************************************************)
(* validate_path never accepts a chain that is not a chain of trust, for   *)
(* chains, anchor lists and policies of any size and content.              *)
(*                                                                         *)
(* AcceptedChainIsTrusted speaks of the whole chain; the walk sees one     *)
(* certificate at a time and knows what is above it only through           *)
(* working_spki, working_issuer_name and the SAN-identity flag.  WalkInv   *)
(* says that these three mirror the certificate above position k, that     *)
(* everything above k has passed all its checks under the current anchor,  *)
(* and how far the certificate at k has come.                              *)
(***************************************************************************)
EXTENDS PathNames, PathPolicies, FiniteSetTheorems, WellFoundedInduction, TLAPS

(* The checks of CheckCert, stated against what stands above position j.   *)
Checked(j, a) ==
  /\ chain[j].signer = KeyAbove(j, a)
  /\ LinkedAbove(j, a)
  /\ InValidity(chain[j])
  /\ AlgorithmAllowed(chain[j])
  /\ ~ValidityTooLong(chain[j])
  /\ ~KeyTooSmall(chain[j])
  /\ ~chain[j].unhandled_critical
  /\ chain[j].cp # Malformed

(* The checks of CheckCa. *)
CaPassed(j) ==
  /\ IsCa(chain[j])
  /\ chain[j].pm # Malformed
  /\ policy.enforce_key_usage => UsageAllows(j, "keyCertSign")
  /\ policy.require_crl_sign_on_cas => UsageAllows(j, "cRLSign")
  /\ PathLenAllows(j)

(* Everything the walk asks of position j; of the leaf's PolicyConstraints *)
(* it asks only at the end.                                                *)
Passed(j, a) ==
  /\ Checked(j, a)
  /\ chain[j].san # Malformed
  /\ j > 1 => CaPassed(j) /\ Malformed \notin {chain[j].pcons, chain[j].iap, chain[j].nc}

CaPhases == {"ca", "mappings", "counters", "constraints"}

(* How far position k has come when the walk is in phase p. *)
Progress(p, a) ==
  /\ p # "check" => Checked(k, a)
  /\ p \notin {"check", "policies", "names"} => chain[k].san # Malformed
  /\ p = "leaf" => k = 1
  /\ p \in CaPhases => k > 1
  /\ (p \in {"mappings", "counters", "constraints", "next"} /\ k > 1) => CaPassed(k)
  /\ (p \in {"constraints", "next"} /\ k > 1) =>
       chain[k].pcons # Malformed /\ chain[k].iap # Malformed
  /\ (p = "next" /\ k > 1) => chain[k].nc # Malformed

(* The working state mirrors what stands above position k. *)
Mirror(a) ==
  /\ k \in DOMAIN chain
  /\ working_spki = KeyAbove(k, a)
  /\ IssuerLinked(chain[k]) <=> LinkedAbove(k, a)

PhaseInv(a) == Mirror(a) /\ Progress(pc, a)

WalkInv ==
  /\ pc \in WalkPhases \cup {"finish"} =>
       /\ anchor \in DOMAIN anchors
       /\ Eligible(anchors[anchor])
       /\ \A j \in DOMAIN chain : j > k => Passed(j, anchors[anchor])
  /\ pc \in WalkPhases => PhaseInv(anchors[anchor])
  /\ pc = "finish" => k = 0

InputsOK ==
  /\ chain \in Chains
  /\ anchors \in AnchorLists
  /\ pc \notin {"start", "returned"} => chain # <<>>
  /\ last_err.kind # "Ok"

IInv == TypeOK /\ InputsOK /\ WalkInv /\ AcceptedChainIsTrusted

-----------------------------------------------------------------------------
(* A list of checks that passes has passed each of its checks. *)

\* A certificate that passes the per-certificate checks has the link, signature and validity they are for.
LEMMA CertPasses ==
  ASSUME NEW c, Passes(CertChecks(c))
  PROVE  /\ AlgorithmAllowed(c) /\ Verifies(working_spki, c) /\ IssuerLinked(c)
         /\ InValidity(c) /\ ~ValidityTooLong(c) /\ ~KeyTooSmall(c)
         /\ ~c.unhandled_critical /\ c.cp # Malformed
<1>1. DOMAIN CertChecks(c) = 1 .. 8
  BY DEF CertChecks
<1>2. \A j \in 1 .. 8 : ~CertChecks(c)[j][1]
  BY <1>1 DEF Passes
<1>3. /\ ~CertChecks(c)[1][1] /\ ~CertChecks(c)[2][1] /\ ~CertChecks(c)[3][1] /\ ~CertChecks(c)[4][1]
      /\ ~CertChecks(c)[5][1] /\ ~CertChecks(c)[6][1] /\ ~CertChecks(c)[7][1] /\ ~CertChecks(c)[8][1]
  BY <1>2
<1> QED
  BY <1>3, Zenon DEF CertChecks

\* A certificate that passes the name checks has none of the name faults.
LEMMA NamePasses ==
  ASSUME NEW c, Passes(NameChecks(c))
  PROVE  c.san # Malformed /\ ~BadNames(c)
<1>1. DOMAIN NameChecks(c) = 1 .. 2
  BY DEF NameChecks
<1>2. ~NameChecks(c)[1][1] /\ ~NameChecks(c)[2][1]
  BY <1>1 DEF Passes
<1> QED
  BY <1>2, Zenon DEF NameChecks

\* A certificate that passes the constraint checks carries constraints the walk can apply.
LEMMA ConstraintsPass ==
  ASSUME NEW c, Passes(ConstraintChecks(c))
  PROVE  c.pcons # Malformed /\ c.iap # Malformed
<1>1. DOMAIN ConstraintChecks(c) = 1 .. 2
  BY DEF ConstraintChecks
<1>2. ~ConstraintChecks(c)[1][1] /\ ~ConstraintChecks(c)[2][1]
  BY <1>1 DEF Passes
<1> QED
  BY <1>2, Zenon DEF ConstraintChecks

\* A certificate that passes the CA checks may issue: CA bit, key usage and path length are in order.
LEMMA CaPasses ==
  ASSUME Passes(CaChecks(chain[k]))
  PROVE  CaPassed(k)
<1> DEFINE c == chain[k]
<1>1. DOMAIN CaChecks(c) = 1 .. 9
  BY DEF CaChecks
<1>2. \A i \in 1 .. 9 : ~CaChecks(c)[i][1]
  BY <1>1 DEF Passes
<1>3. /\ ~CaChecks(c)[2][1] /\ ~CaChecks(c)[3][1] /\ ~CaChecks(c)[4][1] /\ ~CaChecks(c)[5][1]
      /\ ~CaChecks(c)[6][1] /\ ~CaChecks(c)[7][1] /\ ~CaChecks(c)[8][1]
  BY <1>2
<1>4. /\ IsCa(c) /\ ~(policy.enforce_key_usage /\ c.ku = Malformed)
      /\ ~(policy.enforce_key_usage /\ Present(c.ku) /\ "keyCertSign" \notin c.ku)
      /\ ~(policy.require_crl_sign_on_cas /\ c.ku = Malformed)
      /\ ~(policy.require_crl_sign_on_cas /\ Present(c.ku) /\ "cRLSign" \notin c.ku)
      /\ ~PathLenExceeded(c) /\ c.pm # Malformed
  BY <1>3, Zenon DEF CaChecks
<1> QED
  BY <1>4, Zenon DEF CaPassed, PathLenExceeded, PathLenAllows, UsageAllows, Present

-----------------------------------------------------------------------------
(* Position j is judged by the arguments alone. *)
LEMMA PassedKept ==
  ASSUME UNCHANGED inputs, NEW j, NEW a
  PROVE  /\ Checked(j, a)' <=> Checked(j, a)
         /\ CaPassed(j)' <=> CaPassed(j)
         /\ Passed(j, a)' <=> Passed(j, a)
         /\ Eligible(a)' <=> Eligible(a)
         /\ LinkedAbove(j, a)' <=> LinkedAbove(j, a)
         /\ KeyAbove(j, a)' = KeyAbove(j, a)
<1>1. chain' = chain /\ policy' = policy
  BY DEF inputs
<1>2. LinkedAbove(j, a)' <=> LinkedAbove(j, a)
  BY <1>1 DEF LinkedAbove, HasSanIdentity
<1>3. KeyAbove(j, a)' = KeyAbove(j, a)
  BY <1>1 DEF KeyAbove
<1>4. Checked(j, a)' <=> Checked(j, a)
  BY <1>1, <1>2, <1>3, Zenon
     DEF Checked, InValidity, AlgorithmAllowed, ValidityTooLong, KeyTooSmall, Lifetime
<1>5. NonSelfIssued(2, j - 1)' = NonSelfIssued(2, j - 1)
  BY <1>1, Zenon DEF NonSelfIssued, IsSelfIssued
<1>6. CaPassed(j)' <=> CaPassed(j)
  BY <1>1, <1>5, Zenon DEF CaPassed, PathLenAllows, UsageAllows, IsCa, Present
<1>7. Eligible(a)' <=> Eligible(a)
  BY <1>1, Zenon DEF Eligible
<1> QED
  BY <1>1, <1>2, <1>3, <1>4, <1>6, <1>7, Zenon DEF Passed

(* No list of checks calls its error "Ok". *)
LEMMA ChecksNameErrors ==
  ASSUME NEW c
  PROVE  /\ \A j \in DOMAIN CertChecks(c) : CertChecks(c)[j][2] # "Ok"
         /\ \A j \in DOMAIN NameChecks(c) : NameChecks(c)[j][2] # "Ok"
         /\ \A j \in DOMAIN LeafChecks(c) : LeafChecks(c)[j][2] # "Ok"
         /\ \A j \in DOMAIN CaChecks(c) : CaChecks(c)[j][2] # "Ok"
         /\ \A j \in DOMAIN ConstraintChecks(c) : ConstraintChecks(c)[j][2] # "Ok"
<1>1. \A j \in DOMAIN CertChecks(c) : CertChecks(c)[j][2] # "Ok"
  BY DEF CertChecks
<1>2. \A j \in DOMAIN NameChecks(c) : NameChecks(c)[j][2] # "Ok"
  BY DEF NameChecks
<1>3. \A j \in DOMAIN LeafChecks(c) : LeafChecks(c)[j][2] # "Ok"
  BY DEF LeafChecks
<1>4. \A j \in DOMAIN CaChecks(c) : CaChecks(c)[j][2] # "Ok"
  BY DEF CaChecks
<1>5. \A j \in DOMAIN ConstraintChecks(c) : ConstraintChecks(c)[j][2] # "Ok"
  BY DEF ConstraintChecks
<1> QED
  BY <1>1, <1>2, <1>3, <1>4, <1>5

(* A walk that ends in an error leaves a state to try the next anchor in.  *)
LEMMA FailKeeps ==
  ASSUME IInv, pc \in WalkPhases \cup {"finish"}, NEW kind, NEW index, kind # "Ok",
         Fail(kind, index)
  PROVE  IInv'
<1> USE DEF IInv
<1>1. /\ pc' = "anchors" /\ anchor' = anchor + 1 /\ last_err' = Error(kind, index)
      /\ UNCHANGED <<inputs, result, walk, walked>>
  BY DEF Fail
<1>2. /\ UNCHANGED <<chain, anchors, policy, result, walked, k, explicit_policy, inhibit_any>>
      /\ UNCHANGED <<policy_mapping, working_issuer_is_san_identity, nc_constrained_types>>
  BY <1>1 DEF inputs, walk, working, names, counters
<1>3. anchor \in 1 .. Len(anchors) /\ Len(anchors) \in Nat
  BY InputsAssumption DEF WalkInv, InputsOK
<1>4. anchor + 1 \in 1 .. Len(anchors) + 1
  BY <1>3
<1>5. TypeOK'
  BY <1>1, <1>2, <1>4 DEF TypeOK, WalkPhases
<1>6. InputsOK'
  BY <1>1, <1>2 DEF InputsOK, Error, WalkPhases
<1>7. WalkInv' /\ AcceptedChainIsTrusted'
  BY <1>1 DEF WalkInv, AcceptedChainIsTrusted, Accepted, WalkPhases
<1> QED
  BY <1>5, <1>6, <1>7

(* An error, too, may be returned from anywhere. *)
LEMMA ReturnKeeps ==
  ASSUME IInv, NEW r, r.kind # "Ok", Return(r)
  PROVE  IInv'
<1> USE DEF IInv
<1>1. /\ pc' = "returned" /\ result' = r
      /\ UNCHANGED <<inputs, anchor, last_err, walk, walked>>
  BY DEF Return
<1>2. /\ UNCHANGED <<chain, anchors, anchor, last_err, walked, k, explicit_policy, inhibit_any>>
      /\ UNCHANGED <<policy_mapping, working_issuer_is_san_identity, nc_constrained_types>>
  BY <1>1 DEF inputs, walk, working, names, counters
<1>3. TypeOK'
  BY <1>1, <1>2 DEF TypeOK, WalkPhases
<1>4. InputsOK'
  BY <1>1, <1>2 DEF InputsOK
<1>5. WalkInv' /\ AcceptedChainIsTrusted'
  BY <1>1 DEF WalkInv, AcceptedChainIsTrusted, Accepted, WalkPhases
<1> QED
  BY <1>3, <1>4, <1>5

(* The walk moves to phase p of the same certificate. *)
LEMMA PhaseKeeps ==
  ASSUME IInv, pc \in WalkPhases, NEW p \in WalkPhases, pc' = p,
         UNCHANGED <<inputs, anchor, k, working>>,
         Progress(p, anchors[anchor])
  PROVE  WalkInv' /\ AcceptedChainIsTrusted'
<1> USE DEF IInv
<1> DEFINE a == anchors[anchor]
<1>1. /\ anchor \in DOMAIN anchors /\ Eligible(a) /\ Mirror(a)
      /\ \A j \in DOMAIN chain : j > k => Passed(j, a)
  BY DEF WalkInv, PhaseInv
<1>2. /\ UNCHANGED <<chain, anchors, policy, anchor, k, working_spki, working_issuer_name>>
      /\ UNCHANGED working_issuer_is_san_identity
  BY DEF inputs, working
<1> HIDE DEF a
<1>3. Eligible(a)' /\ \A j \in DOMAIN chain' : j > k' => Passed(j, a)'
  BY <1>1, <1>2, PassedKept DEF a
<1>4. Mirror(a)'
  BY <1>1, <1>2, PassedKept DEF a, Mirror, IssuerLinked
<1>5. Progress(pc, a)'
  BY <1>2, PassedKept DEF a, Progress
<1>6. pc' # "finish" /\ pc' # "returned"
  BY DEF WalkPhases
<1> QED
  BY <1>1, <1>2, <1>3, <1>4, <1>5, <1>6
  DEF a, WalkInv, PhaseInv, AcceptedChainIsTrusted, Accepted

(* A check list of a phase that fails ends the walk. *)
LEMMA FailsOneOfKeeps ==
  ASSUME IInv, pc \in WalkPhases, NEW checks, NEW index,
         \A j \in DOMAIN checks : checks[j][2] # "Ok",
         FailsOneOf(checks, index)
  PROVE  IInv'
<1>1. PICK j \in DOMAIN checks : Fail(checks[j][2], index)
  BY DEF FailsOneOf
<1> QED
  BY <1>1, FailKeeps

(* The parts of the state a phase that passes does not write. *)
LEMMA PassKeeps ==
  ASSUME IInv, pc \in WalkPhases, NEW p \in WalkPhases, GoTo(p),
         UNCHANGED <<k, working, names, counters>>,
         Progress(p, anchors[anchor])
  PROVE  IInv'
<1> USE DEF IInv
<1>1. /\ pc' = p /\ UNCHANGED <<inputs, anchor, last_err, result, walked>>
  BY DEF GoTo
<1>2. WalkInv' /\ AcceptedChainIsTrusted'
  BY <1>1, PhaseKeeps
<1>3. /\ UNCHANGED <<chain, anchors, anchor, last_err, walked, k, explicit_policy, inhibit_any>>
      /\ UNCHANGED <<policy_mapping, working_issuer_is_san_identity, nc_constrained_types>>
  BY <1>1 DEF inputs, working, names, counters
<1>4. TypeOK'
  BY <1>1, <1>3 DEF TypeOK, WalkPhases
<1>5. InputsOK'
  BY <1>1, <1>3 DEF InputsOK, WalkPhases
<1> QED
  BY <1>2, <1>4, <1>5

-----------------------------------------------------------------------------
(* One lemma per action, in the order of the walk.                         *)

\* The input checks of validate_path preserve the invariant.
LEMMA CheckInputsKeeps ==
  ASSUME IInv, CheckInputs
  PROVE  IInv'
<1>1. CASE \E r : r.kind # "Ok" /\ Return(r)
  BY <1>1, ReturnKeeps
<1>2. CASE GoTo("anchors") /\ chain # <<>> /\ UNCHANGED walk
  <2>1. /\ pc' = "anchors"
        /\ UNCHANGED <<chain, anchors, anchor, last_err, walked, k, explicit_policy, inhibit_any>>
        /\ UNCHANGED <<policy_mapping, working_issuer_is_san_identity, nc_constrained_types>>
    BY <1>2 DEF GoTo, inputs, walk, working, names, counters
  <2>2. TypeOK' /\ InputsOK'
    BY <1>2, <2>1 DEF IInv, TypeOK, InputsOK, WalkPhases
  <2>3. WalkInv' /\ AcceptedChainIsTrusted'
    BY <2>1 DEF WalkInv, AcceptedChainIsTrusted, Accepted, WalkPhases
  <2> QED
    BY <2>2, <2>3 DEF IInv
<1>3. \A kind, index : kind # "Ok" => Error(kind, index).kind # "Ok"
  BY DEF Error
<1>4. CASE \E j \in InconsistentOids : Return(Error("MalformedCertificate", j))
  BY <1>1, <1>3, <1>4
<1>5. CASE \/ Return(Error("NoTrustedPath", NoIndex))
           \/ Return(Error("DuplicateCertificate", NoIndex))
           \/ Return(Error("PathTooLong", NoIndex))
  BY <1>1, <1>3, <1>5
<1> QED
  BY <1>2, <1>4, <1>5 DEF CheckInputs

\* Skipping an anchor that cannot head the chain preserves the invariant.
LEMMA SkipAnchorKeeps ==
  ASSUME IInv, SkipAnchor
  PROVE  IInv'
<1> USE DEF IInv
<1>1. /\ pc = "anchors" /\ anchor <= Len(anchors) /\ anchor' = anchor + 1
      /\ UNCHANGED <<inputs, pc, last_err, result, walk, walked>>
  BY DEF SkipAnchor
<1>2. /\ UNCHANGED <<chain, anchors, pc, last_err, walked, k, explicit_policy, inhibit_any>>
      /\ UNCHANGED <<policy_mapping, working_issuer_is_san_identity, nc_constrained_types>>
  BY <1>1 DEF inputs, walk, working, names, counters
<1>3. Len(anchors) \in Nat
  BY InputsAssumption DEF InputsOK
<1>4. TypeOK' /\ InputsOK'
  BY <1>1, <1>2, <1>3 DEF TypeOK, InputsOK, WalkPhases
<1>5. WalkInv' /\ AcceptedChainIsTrusted'
  BY <1>1, <1>2 DEF WalkInv, AcceptedChainIsTrusted, Accepted, WalkPhases
<1> QED
  BY <1>4, <1>5

\* The start of a walk establishes the working state the invariant describes.
LEMMA BeginWalkKeeps ==
  ASSUME IInv, BeginWalk
  PROVE  IInv'
<1> USE DEF IInv
<1> DEFINE a == anchors[anchor]
           n == Len(chain)
<1>1. /\ pc = "anchors" /\ anchor <= Len(anchors) /\ Walkable(a)
      /\ pc' = "check" /\ k' = n /\ walked' = anchor
      /\ working_spki' = a.key /\ working_issuer_name' = a.subject
      /\ working_issuer_is_san_identity' = FALSE
      /\ UNCHANGED <<inputs, anchor, last_err, result>>
  BY DEF BeginWalk
<1>2. /\ nc_constrained_types' = TypeBits(nc_permitted')
      /\ explicit_policy' = IF policy.initial_explicit_policy THEN 0 ELSE n + 1
      /\ inhibit_any' = IF policy.initial_any_policy_inhibit THEN 0 ELSE n + 1
      /\ policy_mapping' = IF policy.initial_policy_mapping_inhibit THEN 0 ELSE n + 1
  BY DEF BeginWalk
<1>3. UNCHANGED <<chain, anchors, policy, anchor, last_err>>
  BY <1>1 DEF inputs
<1>4. /\ n \in Nat /\ Len(anchors) \in Nat
      /\ DOMAIN chain = 1 .. n /\ DOMAIN anchors = 1 .. Len(anchors)
  BY InputsAssumption DEF InputsOK
<1>5. chain # <<>> /\ anchor \in DOMAIN anchors
  BY <1>1, <1>4 DEF InputsOK, TypeOK
<1>6. n \in DOMAIN chain
  BY <1>4, <1>5, InputsAssumption DEF InputsOK
<1>7. TypeOK'
  <2>1. explicit_policy' \in Nat /\ inhibit_any' \in Nat /\ policy_mapping' \in Nat
    BY <1>2, <1>4
  <2>2. nc_constrained_types' \subseteq NcTypes
    BY <1>2 DEF TypeBits
  <2>3. anchor' \in 1 .. Len(anchors') + 1 /\ walked' \in 0 .. Len(anchors')
    BY <1>1, <1>3, <1>4, <1>5
  <2>4. k' \in 0 .. Len(chain') /\ k' \in DOMAIN chain' /\ walked' = anchor'
    BY <1>1, <1>3, <1>4, <1>6
  <2>5. pc' = "check" /\ working_issuer_is_san_identity' \in BOOLEAN
    BY <1>1
  <2> QED
    BY <2>1, <2>2, <2>3, <2>4, <2>5 DEF TypeOK, WalkPhases
<1>8. InputsOK'
  BY <1>1, <1>3, <1>5 DEF InputsOK
<1>9. Eligible(a)'
  BY <1>1, <1>3, Zenon DEF Walkable, Eligible
<1>10. Mirror(a)'
  BY <1>1, <1>3, <1>6 DEF Mirror, KeyAbove, LinkedAbove, IssuerLinked
<1>11. Progress("check", a)'
  BY DEF Progress, CaPhases
<1>12. \A j \in DOMAIN chain' : ~(j > k')
  BY <1>1, <1>3, <1>4
<1> QED
  BY <1>1, <1>3, <1>5, <1>7, <1>8, <1>9, <1>10, <1>11, <1>12
  DEF WalkInv, PhaseInv, AcceptedChainIsTrusted, Accepted

\* Returning the last error after the anchor list preserves the invariant.
LEMMA OutOfAnchorsKeeps ==
  ASSUME IInv, OutOfAnchors
  PROVE  IInv'
BY ReturnKeeps DEF OutOfAnchors, IInv, InputsOK

\* The per-certificate checks preserve the invariant.
LEMMA CheckCertKeeps ==
  ASSUME IInv, CheckCert
  PROVE  IInv'
<1> DEFINE a == anchors[anchor]
<1>1. pc = "check" /\ pc \in WalkPhases /\ "policies" \in WalkPhases
  BY DEF CheckCert, WalkPhases
<1>2. Mirror(a)
  BY <1>1 DEF IInv, WalkInv, PhaseInv
<1>3. CASE FailsOneOf(CertChecks(chain[k]), k)
  BY <1>1, <1>3, ChecksNameErrors, FailsOneOfKeeps
<1>4. CASE Passes(CertChecks(chain[k])) /\ GoTo("policies") /\ UNCHANGED walk
  <2>1. Checked(k, a)
    BY <1>2, <1>4, CertPasses DEF Checked, Mirror, Verifies
  <2>2. Progress("policies", a)
    BY <2>1 DEF Progress, CaPhases
  <2> QED
    BY <1>1, <1>4, <2>2, PassKeeps DEF walk
<1> QED
  BY <1>3, <1>4 DEF CheckCert

\* Growing the policy tree preserves the invariant.
LEMMA UpdatePoliciesKeeps ==
  ASSUME IInv, UpdatePolicies
  PROVE  IInv'
<1> DEFINE a == anchors[anchor]
<1>1. pc = "policies" /\ pc \in WalkPhases /\ "names" \in WalkPhases
  BY DEF UpdatePolicies, WalkPhases
<1>2. Progress("policies", a)
  BY <1>1 DEF IInv, WalkInv, PhaseInv
<1>3. Progress("names", a)
  BY <1>2 DEF Progress, CaPhases
<1>4. CASE Fail("PolicyViolation", k)
  BY <1>1, <1>4, FailKeeps
<1>5. CASE GoTo("names") /\ UNCHANGED <<k, working, names, counters>>
  BY <1>1, <1>3, <1>5, PassKeeps
<1> QED
  BY <1>4, <1>5 DEF UpdatePolicies

\* The name checks preserve the invariant.
LEMMA CheckNamesKeeps ==
  ASSUME IInv, CheckNames
  PROVE  IInv'
<1> DEFINE a == anchors[anchor]
           next == IF k = 1 THEN "leaf" ELSE "ca"
<1>1. pc = "names" /\ pc \in WalkPhases /\ next \in WalkPhases
  BY DEF CheckNames, WalkPhases
<1>2. Progress("names", a) /\ k \in DOMAIN chain
  BY <1>1 DEF IInv, WalkInv, PhaseInv, Mirror
<1>3. CASE FailsOneOf(NameChecks(chain[k]), k)
  BY <1>1, <1>3, ChecksNameErrors, FailsOneOfKeeps
<1>4. CASE Passes(NameChecks(chain[k])) /\ GoTo(next) /\ UNCHANGED walk
  <2>1. chain[k].san # Malformed
    BY <1>4, NamePasses
  <2>2. k \in Nat /\ k >= 1
    BY <1>2, InputsAssumption DEF IInv, InputsOK
  <2>3. Progress(next, a)
    BY <1>2, <2>1, <2>2 DEF Progress, CaPhases
  <2> QED
    BY <1>1, <1>4, <2>3, PassKeeps DEF walk
<1> QED
  BY <1>3, <1>4 DEF CheckNames

\* The leaf checks preserve the invariant.
LEMMA CheckLeafKeeps ==
  ASSUME IInv, CheckLeaf
  PROVE  IInv'
<1> DEFINE a == anchors[anchor]
<1>1. pc = "leaf" /\ pc \in WalkPhases /\ "next" \in WalkPhases
  BY DEF CheckLeaf, WalkPhases
<1>2. Progress("leaf", a)
  BY <1>1 DEF IInv, WalkInv, PhaseInv
<1>3. Progress("next", a)
  BY <1>2 DEF Progress, CaPhases
<1>4. CASE FailsOneOf(LeafChecks(chain[k]), k)
  BY <1>1, <1>4, ChecksNameErrors, FailsOneOfKeeps
<1>5. CASE GoTo("next") /\ UNCHANGED walk
  BY <1>1, <1>3, <1>5, PassKeeps DEF walk
<1> QED
  BY <1>4, <1>5 DEF CheckLeaf

\* The CA checks preserve the invariant.
LEMMA CheckCaKeeps ==
  ASSUME IInv, CheckCa
  PROVE  IInv'
<1> DEFINE a == anchors[anchor]
<1>1. pc = "ca" /\ pc \in WalkPhases /\ "mappings" \in WalkPhases
  BY DEF CheckCa, WalkPhases
<1>2. Progress("ca", a)
  BY <1>1 DEF IInv, WalkInv, PhaseInv
<1>3. CASE FailsOneOf(CaChecks(chain[k]), k)
  BY <1>1, <1>3, ChecksNameErrors, FailsOneOfKeeps
<1>4. CASE Passes(CaChecks(chain[k])) /\ GoTo("mappings") /\ UNCHANGED walk
  <2>1. CaPassed(k)
    BY <1>4, CaPasses
  <2>2. Progress("mappings", a)
    BY <1>2, <2>1 DEF Progress, CaPhases
  <2> QED
    BY <1>1, <1>4, <2>2, PassKeeps DEF walk
<1> QED
  BY <1>3, <1>4 DEF CheckCa

\* Applying the policy mappings preserves the invariant.
LEMMA MapPoliciesKeeps ==
  ASSUME IInv, MapPolicies
  PROVE  IInv'
<1> DEFINE a == anchors[anchor]
<1>1. pc = "mappings" /\ pc \in WalkPhases /\ "counters" \in WalkPhases
  BY DEF MapPolicies, WalkPhases
<1>2. Progress("mappings", a)
  BY <1>1 DEF IInv, WalkInv, PhaseInv
<1>3. Progress("counters", a)
  BY <1>2 DEF Progress, CaPhases
<1> QED
  BY <1>1, <1>3, PassKeeps DEF MapPolicies

(* Decrementing stops at zero, and a bound only lowers. *)
LEMMA CounterStaysNat ==
  ASSUME NEW c, NEW counter \in Nat, NEW bound \in Nat \cup {Absent}
  PROVE  CounterAfter(c, counter, bound) \in Nat
<1>1. Decremented(c, counter) \in Nat
  BY DEF Decremented
<1> QED
  BY <1>1 DEF CounterAfter, ClampTo

\* Counting the SkipCerts counters down preserves the invariant.
LEMMA UpdateCountersKeeps ==
  ASSUME IInv, UpdateCounters
  PROVE  IInv'
<1> DEFINE a == anchors[anchor]
           c == chain[k]
<1>1. pc = "counters" /\ pc \in WalkPhases /\ "constraints" \in WalkPhases
  BY DEF UpdateCounters, WalkPhases
<1>2. Progress("counters", a) /\ k \in DOMAIN chain /\ chain \in Chains
  BY <1>1 DEF IInv, WalkInv, PhaseInv, Mirror, InputsOK
<1>3. CASE FailsOneOf(ConstraintChecks(c), k)
  BY <1>1, <1>3, ChecksNameErrors, FailsOneOfKeeps
<1>4. CASE /\ Passes(ConstraintChecks(c))
           /\ explicit_policy' = CounterAfter(c, explicit_policy, RequireExplicit(c))
           /\ policy_mapping' = CounterAfter(c, policy_mapping, InhibitMapping(c))
           /\ inhibit_any' = CounterAfter(c, inhibit_any, InhibitAnyPolicy(c))
           /\ GoTo("constraints")
           /\ UNCHANGED <<k, working, names, policy_tree>>
  <2>1. Progress("constraints", a)
    BY <1>2, <1>4, ConstraintsPass DEF Progress, CaPhases
  <2>2. pc' = "constraints" /\ UNCHANGED <<inputs, anchor, last_err, result, walked>>
    BY <1>4 DEF GoTo
  <2>3. WalkInv' /\ AcceptedChainIsTrusted'
    BY <1>1, <1>4, <2>1, <2>2, PhaseKeeps
  <2>4. explicit_policy \in Nat /\ policy_mapping \in Nat /\ inhibit_any \in Nat
    BY DEF IInv, TypeOK
  <2>5. {RequireExplicit(c), InhibitMapping(c), InhibitAnyPolicy(c)} \subseteq Nat \cup {Absent}
    BY <1>2, SkipCertsAssumption
  <2>6. explicit_policy' \in Nat /\ policy_mapping' \in Nat /\ inhibit_any' \in Nat
    BY <1>4, <2>4, <2>5, CounterStaysNat
  <2>7. UNCHANGED <<chain, anchors, anchor, last_err, walked, k,
                    working_issuer_is_san_identity, nc_constrained_types>>
    BY <1>4, <2>2 DEF inputs, working, names
  <2>8. TypeOK'
    BY <1>1, <2>2, <2>6, <2>7 DEF IInv, TypeOK, WalkPhases
  <2>9. InputsOK'
    BY <1>1, <2>2, <2>7 DEF IInv, InputsOK
  <2> QED
    BY <2>3, <2>8, <2>9 DEF IInv
<1> QED
  BY <1>3, <1>4 DEF UpdateCounters

\* Accumulating the name constraints and moving to the next certificate preserves the invariant.
LEMMA ConstrainNamesKeeps ==
  ASSUME IInv, ConstrainNames
  PROVE  IInv'
<1> DEFINE a == anchors[anchor]
           nc == chain[k].nc
<1>1. pc = "constraints" /\ pc \in WalkPhases /\ "next" \in WalkPhases
  BY DEF ConstrainNames, WalkPhases
<1>2. Progress("constraints", a)
  BY <1>1 DEF IInv, WalkInv, PhaseInv
<1>3. CASE nc = Malformed /\ Fail("MalformedCertificate", k)
  BY <1>1, <1>3, FailKeeps
<1>4. CASE nc = Absent /\ GoTo("next") /\ UNCHANGED walk
  <2>1. Progress("next", a)
    BY <1>2, <1>4, InputsAssumption DEF Progress, CaPhases
  <2> QED
    BY <1>1, <1>4, <2>1, PassKeeps DEF walk
<1>5. CASE /\ Present(nc)
           /\ nc_constrained_types' = nc_constrained_types \cup TypeBits(nc.permitted)
           /\ GoTo("next")
           /\ UNCHANGED <<k, working, counters, policy_tree>>
  <2>1. Progress("next", a)
    BY <1>2, <1>5 DEF Progress, CaPhases, Present
  <2>2. pc' = "next" /\ UNCHANGED <<inputs, anchor, last_err, result, walked>>
    BY <1>5 DEF GoTo
  <2>3. WalkInv' /\ AcceptedChainIsTrusted'
    BY <1>1, <1>5, <2>1, <2>2, PhaseKeeps
  <2>4. nc_constrained_types' \subseteq NcTypes
    BY <1>5 DEF IInv, TypeOK, TypeBits
  <2>5. /\ UNCHANGED <<chain, anchors, anchor, last_err, walked, k, explicit_policy, inhibit_any>>
        /\ UNCHANGED <<policy_mapping, working_issuer_is_san_identity>>
    BY <1>5, <2>2 DEF inputs, working, counters
  <2>6. TypeOK'
    BY <1>1, <2>2, <2>4, <2>5 DEF IInv, TypeOK, WalkPhases
  <2>7. InputsOK'
    BY <1>1, <2>2, <2>5 DEF IInv, InputsOK
  <2> QED
    BY <2>3, <2>6, <2>7 DEF IInv
<1> QED
  BY <1>3, <1>4, <1>5 DEF ConstrainNames

(* The certificate at k is done: it joins those that have passed, and the  *)
(* working state is rebound to it.                                         *)
LEMMA NextCertKeeps ==
  ASSUME IInv, NextCert
  PROVE  IInv'
<1> USE DEF IInv
<1> DEFINE a == anchors[anchor]
           phase == IF k = 1 THEN "finish" ELSE "check"
<1>1. /\ pc = "next" /\ pc \in WalkPhases /\ k' = k - 1 /\ pc' = phase
      /\ working_spki' = chain[k].key /\ working_issuer_name' = chain[k].subject
      /\ working_issuer_is_san_identity' = HasSanIdentity(chain[k])
      /\ UNCHANGED <<inputs, anchor, last_err, result, walked, names, counters>>
  BY DEF NextCert, GoTo, WalkPhases
<1>2. /\ UNCHANGED <<chain, anchors, policy, anchor, last_err, walked, explicit_policy>>
      /\ UNCHANGED <<inhibit_any, policy_mapping, nc_constrained_types>>
  BY <1>1 DEF inputs, names, counters
<1>3. /\ Progress("next", a) /\ Mirror(a) /\ anchor \in DOMAIN anchors /\ Eligible(a)
      /\ \A j \in DOMAIN chain : j > k => Passed(j, a)
  BY <1>1 DEF WalkInv, PhaseInv
<1>4. DOMAIN chain = 1 .. Len(chain) /\ Len(chain) \in Nat /\ k \in 1 .. Len(chain)
  BY <1>3, InputsAssumption DEF InputsOK, Mirror
<1>5. Passed(k, a)
  BY <1>3 DEF Progress, Passed
<1>6. \A j \in DOMAIN chain : j > k - 1 => Passed(j, a)
  BY <1>3, <1>4, <1>5
<1>7. /\ Eligible(a)' /\ \A j \in DOMAIN chain' : j > k' => Passed(j, a)'
  BY <1>1, <1>2, <1>3, <1>6, PassedKept
<1>8. k # 1 => Mirror(a)'
  <2>1. k # 1 => k - 1 \in DOMAIN chain /\ k - 1 # Len(chain) /\ k - 1 + 1 = k
    BY <1>4
  <2> QED
    BY <1>1, <1>2, <2>1 DEF Mirror, KeyAbove, LinkedAbove, IssuerLinked, HasSanIdentity
<1>9. Progress("check", a)'
  BY DEF Progress, CaPhases
<1>10. WalkInv'
  BY <1>1, <1>2, <1>3, <1>4, <1>7, <1>8, <1>9 DEF WalkInv, PhaseInv, WalkPhases
<1>11. TypeOK'
  <2>1. working_issuer_is_san_identity' \in BOOLEAN
    BY <1>1, Zenon DEF HasSanIdentity
  <2>2. k' \in 0 .. Len(chain') /\ (k # 1 => k' \in DOMAIN chain')
    BY <1>1, <1>2, <1>4
  <2> QED
    BY <1>1, <1>2, <2>1, <2>2 DEF TypeOK, WalkPhases
<1>12. InputsOK' /\ AcceptedChainIsTrusted'
  BY <1>1, <1>2 DEF InputsOK, AcceptedChainIsTrusted, Accepted
<1> QED
  BY <1>10, <1>11, <1>12

\* The wrap-up after the leaf preserves the invariant, and accepts only what it describes.
LEMMA FinishKeeps ==
  ASSUME IInv, Finish
  PROVE  IInv'
<1> DEFINE a == anchors[anchor]
<1>1. pc = "finish"
  BY DEF Finish
<1>2. /\ k = 0 /\ anchor \in DOMAIN anchors /\ Eligible(a)
      /\ \A j \in DOMAIN chain : j > k => Passed(j, a)
  BY <1>1 DEF IInv, WalkInv
<1>3. CASE \E kind \in {"MalformedCertificate", "PolicyViolation"} : Fail(kind, 1)
  BY <1>1, <1>3, FailKeeps
<1>4. CASE Return(Error("Ok", NoIndex)) /\ chain[1].pcons # Malformed
  <2>1. /\ pc' = "returned"
        /\ UNCHANGED <<inputs, anchor, last_err, walk, walked>>
    BY <1>4 DEF Return
  <2>2. /\ UNCHANGED <<chain, anchors, policy, anchor, last_err, walked, k, explicit_policy>>
        /\ UNCHANGED <<inhibit_any, policy_mapping, working_issuer_is_san_identity>>
        /\ UNCHANGED nc_constrained_types
    BY <2>1 DEF inputs, walk, working, names, counters
  <2>3. \A j \in DOMAIN chain : Passed(j, a) /\ j \in Nat /\ j >= 1
    BY <1>2, InputsAssumption DEF IInv, InputsOK
  <2>4. \A j \in DOMAIN chain : VouchedFor(j, a) /\ (j > 1 => MaySign(j))
    BY <1>4, <2>3 DEF Passed, Checked, CaPassed, VouchedFor, MaySign
  <2>5. Trusts(a)
    BY <1>2, <2>4 DEF Trusts
  <2>6. Trusts(a)'
    BY <2>2, <2>5, ZenonT(60) DEF Trusts, Eligible, VouchedFor, MaySign, KeyAbove, LinkedAbove,
       HasSanIdentity, InValidity, AlgorithmAllowed, ValidityTooLong, Lifetime, KeyTooSmall,
       IsCa, Present, PathLenAllows, UsageAllows, NonSelfIssued, IsSelfIssued
  <2>7. AcceptedChainIsTrusted'
    BY <1>2, <2>2, <2>6 DEF AcceptedChainIsTrusted
  <2>8. TypeOK' /\ InputsOK' /\ WalkInv'
    BY <2>1, <2>2 DEF IInv, TypeOK, InputsOK, WalkInv, WalkPhases
  <2> QED
    BY <2>7, <2>8 DEF IInv
<1> QED
  BY <1>3, <1>4 DEF Finish

-----------------------------------------------------------------------------
(* IInv is inductive: it holds when a call starts and every step keeps it. *)

\* The invariant holds when validate_path is called.
LEMMA InitEstablishes ==
  ASSUME Init
  PROVE  IInv
<1>1. chain \in Chains /\ anchors \in AnchorLists /\ pc = "start" /\ last_err.kind # "Ok"
  <2>1. PICK u \in Callers : chain \in u.chains /\ anchors \in u.anchor_lists
    BY DEF Init
  <2>2. chain \in Chains /\ anchors \in AnchorLists
    BY <2>1 DEF Chains, AnchorLists
  <2> QED  BY <2>2 DEF Init, Error
<1>2. Len(chain) \in Nat /\ Len(anchors) \in Nat
  BY <1>1, InputsAssumption
<1>3. /\ anchor = 1 /\ walked = 0 /\ k = 0 /\ explicit_policy = 0 /\ inhibit_any = 0
      /\ policy_mapping = 0 /\ working_issuer_is_san_identity = FALSE
      /\ nc_constrained_types = {}
  BY DEF Init
<1>4. TypeOK
  <2>1. anchor \in 1 .. Len(anchors) + 1 /\ walked \in 0 .. Len(anchors) /\ k \in 0 .. Len(chain)
    BY <1>2, <1>3
  <2>2. explicit_policy \in Nat /\ inhibit_any \in Nat /\ policy_mapping \in Nat
    BY <1>3
  <2>3. nc_constrained_types \subseteq NcTypes
    BY <1>3
  <2>4. working_issuer_is_san_identity \in BOOLEAN
    BY <1>3, Zenon
  <2>5. pc \in {"start", "anchors", "finish", "returned"} \cup WalkPhases /\ pc \notin WalkPhases
    BY <1>1 DEF WalkPhases
  <2> QED
    BY <2>1, <2>2, <2>3, <2>4, <2>5, Zenon DEF TypeOK
<1> QED
  BY <1>1, <1>4 DEF IInv, InputsOK, WalkInv, WalkPhases, AcceptedChainIsTrusted, Accepted

\* A stuttering step preserves the invariant.
LEMMA StutterKeeps ==
  ASSUME IInv, UNCHANGED vars
  PROVE  IInv'
<1>1. /\ UNCHANGED <<chain, anchors, policy, pc, anchor, last_err, result, walked>>
      /\ UNCHANGED <<k, working_spki, working_issuer_name, working_issuer_is_san_identity>>
      /\ UNCHANGED <<nc_constrained_types, explicit_policy, inhibit_any, policy_mapping>>
  BY DEF vars, inputs, walk, working, names, counters
<1>2. TypeOK' /\ InputsOK'
  BY <1>1 DEF IInv, TypeOK, InputsOK
<1>3. WalkInv'
  <2>1. CASE pc \in WalkPhases
    BY <1>1, <2>1, PhaseKeeps DEF IInv, WalkInv, PhaseInv, inputs, working
  <2>2. CASE pc \notin WalkPhases
    BY <1>1, <2>2, PassedKept DEF IInv, WalkInv, inputs
  <2> QED
    BY <2>1, <2>2
<1>4. AcceptedChainIsTrusted'
  BY <1>1, ZenonT(60) DEF IInv, AcceptedChainIsTrusted, Accepted, Trusts, Eligible, VouchedFor, MaySign,
     KeyAbove, LinkedAbove, HasSanIdentity, InValidity, AlgorithmAllowed, ValidityTooLong,
     Lifetime, KeyTooSmall, IsCa, Present, PathLenAllows, UsageAllows,
     NonSelfIssued, IsSelfIssued
<1> QED
  BY <1>2, <1>3, <1>4 DEF IInv

\* Every step of validate_path preserves the invariant.
LEMMA StepKeeps ==
  ASSUME IInv, [Next]_vars
  PROVE  IInv'
BY CheckInputsKeeps, SkipAnchorKeeps, BeginWalkKeeps, OutOfAnchorsKeeps, CheckCertKeeps,
   UpdatePoliciesKeeps, CheckNamesKeeps, CheckLeafKeeps, CheckCaKeeps, MapPoliciesKeeps,
   UpdateCountersKeeps, ConstrainNamesKeeps, NextCertKeeps, FinishKeeps, StutterKeeps
DEF Next, Step, Done

\* The invariant holds in every state of a validation.
LEMMA Inductive == Spec => []IInv
<1>1. Init => IInv
  BY InitEstablishes
<1>2. IInv /\ [Next]_vars => IInv'
  BY StepKeeps
<1> QED
  BY <1>1, <1>2, PTL DEF Spec

(* The control state, the loop positions and the counters of validate_path *)
(* keep their types: no walk leaves the chain or the anchor list, and no   *)
(* counter falls below zero.                                               *)
THEOREM TypeCorrect == Spec => []TypeOK
<1>1. IInv => TypeOK
  BY DEF IInv
<1> QED
  BY <1>1, Inductive, PTL

(* Soundness of validate_path: whatever the chain, the anchors and the     *)
(* policy, an accepted chain is a chain of trust from the anchor named in  *)
(* the result down to the leaf.                                            *)
THEOREM Soundness == Spec => []AcceptedChainIsTrusted
<1>1. IInv => AcceptedChainIsTrusted
  BY DEF IInv
<1> QED
  BY <1>1, Inductive, PTL

-----------------------------------------------------------------------------
(* The anchor loop: which anchors were tried, and what their walks proved. *)
(*                                                                         *)
(* RInv is a second layer over IInv.  TriedInv says that the remembered    *)
(* error refutes the last anchor walked and that the anchors since then    *)
(* were not eligible; BarredInv that no anchor already passed trusts the   *)
(* chain; FreeInv that when trust alone is asked for, neither the name     *)
(* constraints nor the policy counter can end the walk.                    *)

SoundAbove(j, a) == \A m \in j + 1 .. Len(chain) : VouchedFor(m, a) /\ MaySign(m)

Refutes(err, a) ==
  /\ err.index \in DOMAIN chain
  /\ Eligible(a)
  /\ Fits(err.kind, err.index, a)
  /\ SoundAbove(err.index, a)

TriedInv ==
  /\ pc = "start" => walked = 0 /\ anchor = 1
  /\ pc = "finish" => walked = anchor
  /\ pc = "anchors" =>
       /\ walked < anchor
       /\ walked > 0 => Refutes(last_err, anchors[walked])
       /\ \A i \in walked + 1 .. anchor - 1 : ~Eligible(anchors[i])

BarredInv ==
  (pc \notin {"start", "returned"} /\ OnlyTrust) =>
    \A i \in 1 .. anchor - 1 : ~Trusts(anchors[i])

(* What explicit_policy still has to last for. *)
CertsLeft ==
  IF pc = "finish" THEN 2 ELSE IF k > 1 /\ pc \in {"constraints", "next"} THEN k ELSE k + 1

FreeInv ==
  (pc \in WalkPhases \cup {"finish"} /\ OnlyTrust) =>
    /\ nc_permitted = {} /\ nc_excluded = {} /\ nc_constrained_types = {}
    /\ explicit_policy >= CertsLeft

RInv == TriedInv /\ BarredInv /\ FreeInv /\ ErrorBlamesTheFault /\ FirstTrustingAnchorWins

(* What the chain, the anchors and the policy decide, no step changes. *)
LEMMA VerdictsKept ==
  ASSUME UNCHANGED inputs, NEW j, NEW a, NEW kind
  PROVE  /\ VouchedFor(j, a)' <=> VouchedFor(j, a)
         /\ MaySign(j)' <=> MaySign(j)
         /\ Trusts(a)' <=> Trusts(a)
         /\ SoundAbove(j, a)' <=> SoundAbove(j, a)
         /\ Fits(kind, j, a)' <=> Fits(kind, j, a)
<1>1. chain' = chain /\ policy' = policy
  BY DEF inputs
<1>2. \A m : VouchedFor(m, a)' <=> VouchedFor(m, a)
  BY <1>1, ZenonT(60) DEF VouchedFor, KeyAbove, LinkedAbove, HasSanIdentity, InValidity,
     AlgorithmAllowed, ValidityTooLong, Lifetime, KeyTooSmall
<1>3. \A m : MaySign(m)' <=> MaySign(m)
  BY <1>1, ZenonT(60) DEF MaySign, PathLenAllows, UsageAllows, IsCa, Present, NonSelfIssued,
     IsSelfIssued
<1>4. Trusts(a)' <=> Trusts(a)
  BY <1>1, <1>2, <1>3, ZenonT(60) DEF Trusts, Eligible
<1>5. SoundAbove(j, a)' <=> SoundAbove(j, a)
  BY <1>1, <1>2, <1>3, ZenonT(60) DEF SoundAbove
<1>6. Fits(kind, j, a)' <=> Fits(kind, j, a)
  BY <1>1, ZenonT(60) DEF Fits, KeyAbove, LinkedAbove, HasSanIdentity, InValidity, IsCa, Present,
     PathLenAllows, NonSelfIssued, IsSelfIssued
<1> QED
  BY <1>2, <1>3, <1>4, <1>5, <1>6

\* Whether an error refutes an anchor depends on the arguments of the call alone.
LEMMA RefutesKept ==
  ASSUME UNCHANGED inputs, NEW err, NEW a
  PROVE  Refutes(err, a)' <=> Refutes(err, a)
<1>1. chain' = chain /\ policy' = policy
  BY DEF inputs
<1>2. Eligible(a)' <=> Eligible(a)
  BY PassedKept
<1> QED
  BY <1>1, <1>2, VerdictsKept, Zenon DEF Refutes

\* So do the side conditions of the two properties.
LEMMA AskedKept ==
  ASSUME UNCHANGED inputs
  PROVE  /\ OnlyTrust' <=> OnlyTrust
         /\ WellFormedInputs' <=> WellFormedInputs
<1>1. chain' = chain /\ policy' = policy /\ anchors' = anchors
  BY DEF inputs
<1>2. OnlyTrust' <=> OnlyTrust
  BY <1>1, ZenonT(60) DEF OnlyTrust, Present
<1>3. WellFormedInputs' <=> WellFormedInputs
  BY <1>1, ZenonT(60) DEF WellFormedInputs, Duplicates, InconsistentOids, ChainTooLong, NonSelfIssued,
     IsSelfIssued
<1> QED
  BY <1>2, <1>3

\* Above the position of the walk, every certificate was found sound.
LEMMA SoundSoFar ==
  ASSUME IInv, pc \in WalkPhases \cup {"finish"}
  PROVE  \A m \in DOMAIN chain : (m > k /\ m > 1) => VouchedFor(m, anchors[anchor]) /\ MaySign(m)
<1> DEFINE a == anchors[anchor]
<1>1. \A m \in DOMAIN chain : m > k => Passed(m, a)
  BY DEF IInv, WalkInv
<1>2. \A m : (Passed(m, a) /\ m > 1) => VouchedFor(m, a) /\ MaySign(m)
  BY DEF Passed, Checked, CaPassed, VouchedFor, MaySign
<1> QED
  BY <1>1, <1>2

\* A failed walk leaves an error that refutes its anchor.
LEMMA FailRefutes ==
  ASSUME IInv, RInv, pc \in WalkPhases \cup {"finish"}, NEW kind, NEW index, Fail(kind, index),
         index \in DOMAIN chain, index >= k, Fits(kind, index, anchors[anchor]),
         OnlyTrust => ~Trusts(anchors[anchor])
  PROVE  RInv'
<1> DEFINE a == anchors[anchor]
<1>1. /\ pc' = "anchors" /\ anchor' = anchor + 1 /\ last_err' = Error(kind, index)
      /\ UNCHANGED inputs /\ walked' = walked /\ anchors' = anchors
  BY DEF Fail, inputs
<1>2. /\ walked = anchor /\ anchor \in DOMAIN anchors /\ Eligible(a)
      /\ anchor \in Nat /\ anchor >= 1 /\ k \in Nat
      /\ DOMAIN chain = 1 .. Len(chain) /\ Len(chain) \in Nat
  <2>1. walked = anchor
    BY DEF IInv, TypeOK, RInv, TriedInv
  <2>2. anchor \in DOMAIN anchors /\ Eligible(a) /\ k \in 0 .. Len(chain)
    BY DEF IInv, WalkInv, TypeOK
  <2> QED
    BY <2>1, <2>2, InputsAssumption DEF IInv, InputsOK
<1>3. SoundAbove(index, a)
  BY <1>2, SoundSoFar DEF SoundAbove
<1>4. Refutes(Error(kind, index), a)
  BY <1>2, <1>3 DEF Refutes, Error
<1>5. Refutes(last_err, anchors[walked])'
  <2>1. PICK b : b = a
    OBVIOUS
  <2>2. PICK err : err = Error(kind, index)
    OBVIOUS
  <2>3. Refutes(err, b)'
    BY <1>1, <1>4, <2>1, <2>2, RefutesKept
  <2> QED
    BY <1>1, <1>2, <2>1, <2>2, <2>3
<1>6. TriedInv'
  BY <1>1, <1>2, <1>5 DEF TriedInv
<1>7. BarredInv'
  <2> SUFFICES ASSUME OnlyTrust, NEW i \in 1 .. anchor
               PROVE  ~Trusts(anchors[i])'
    BY <1>1, <1>2, AskedKept DEF BarredInv
  <2>1. ~Trusts(anchors[i])
    BY <1>2 DEF RInv, BarredInv, WalkPhases
  <2>2. PICK b : b = anchors[i]
    OBVIOUS
  <2>3. ~Trusts(b)'
    BY <1>1, <2>1, <2>2, VerdictsKept
  <2> QED
    BY <1>1, <2>2, <2>3
<1> QED
  BY <1>1, <1>6, <1>7
  DEF RInv, FreeInv, ErrorBlamesTheFault, FirstTrustingAnchorWins, WalkPhases

(* A list of checks that fails, fails for a reason that fits and that no   *)
(* chain the anchor trusts can give.                                       *)
LEMMA FailsOneOfRefutes ==
  ASSUME IInv, RInv, pc \in WalkPhases, NEW checks, FailsOneOf(checks, k),
         \A j \in DOMAIN checks : checks[j][1] =>
           /\ Fits(checks[j][2], k, anchors[anchor])
           /\ OnlyTrust => ~Trusts(anchors[anchor])
  PROVE  RInv'
<1>1. PICK j \in DOMAIN checks : checks[j][1] /\ Fail(checks[j][2], k)
  BY DEF FailsOneOf, FirstFailing
<1>2. k \in DOMAIN chain /\ k >= k
  BY InputsAssumption DEF IInv, WalkInv, PhaseInv, Mirror, InputsOK
<1> QED
  BY <1>1, <1>2, FailRefutes

(* A step inside the walk leaves the anchor loop alone. *)
LEMMA WalkOn ==
  ASSUME RInv, pc \in WalkPhases, pc' \in WalkPhases \cup {"finish"}, IInv,
         UNCHANGED <<inputs, anchor, last_err, result, walked>>, FreeInv'
  PROVE  RInv'
<1>1. anchors' = anchors /\ anchor' = anchor /\ walked' = walked
  BY DEF inputs
<1>2. TriedInv'
  BY <1>1 DEF TriedInv, WalkPhases, IInv, TypeOK
<1>3. BarredInv'
  <2> SUFFICES ASSUME OnlyTrust, NEW i \in 1 .. anchor - 1
               PROVE  ~Trusts(anchors[i])'
    BY <1>1, AskedKept DEF BarredInv
  <2>1. PICK b : b = anchors[i]
    OBVIOUS
  <2>2. ~Trusts(b)
    BY <2>1 DEF RInv, BarredInv, WalkPhases
  <2>3. ~Trusts(b)'
    BY <2>2, VerdictsKept
  <2> QED
    BY <1>1, <2>1, <2>3
<1> QED
  BY <1>2, <1>3 DEF RInv, ErrorBlamesTheFault, FirstTrustingAnchorWins, WalkPhases

\* Kinds outside the table of faults claim nothing.
LEMMA OtherKindsFit ==
  ASSUME NEW kind, NEW j, NEW a,
         kind \notin {"SignatureInvalid", "ChainBroken", "NotCA", "ValidityPeriod", "PathTooLong"}
  PROVE  Fits(kind, j, a)
BY DEF Fits

\* A certificate that is not vouched for, or may not sign what is below it, breaks the chain of trust.
LEMMA Distrusted ==
  ASSUME NEW a, NEW j \in DOMAIN chain, ~VouchedFor(j, a) \/ (j > 1 /\ ~MaySign(j))
  PROVE  ~Trusts(a)
BY DEF Trusts

\* A per-certificate check that fails names a fault the certificate has.
LEMMA CertFits ==
  ASSUME NEW a, Mirror(a), NEW j \in DOMAIN CertChecks(chain[k]), CertChecks(chain[k])[j][1]
  PROVE  Fits(CertChecks(chain[k])[j][2], k, a) /\ ~VouchedFor(k, a)
<1> DEFINE c == chain[k]
<1>1. j \in 1 .. 8
  BY DEF CertChecks
<1>2. CASE j = 1
  BY <1>2, OtherKindsFit, ZenonT(60) DEF CertChecks, VouchedFor
<1>3. CASE j = 2
  <2>1. ~Verifies(working_spki, c) /\ CertChecks(c)[j][2] = "SignatureInvalid"
    BY <1>3, ZenonT(60) DEF CertChecks
  <2> QED
    BY <2>1 DEF Fits, Mirror, VouchedFor, Verifies
<1>4. CASE j = 3
  <2>1. ~IssuerLinked(c) /\ CertChecks(c)[j][2] = "ChainBroken"
    BY <1>4, ZenonT(60) DEF CertChecks
  <2> QED
    BY <2>1 DEF Fits, Mirror, VouchedFor
<1>5. CASE j = 4
  <2>1. ~InValidity(c) /\ CertChecks(c)[j][2] = "ValidityPeriod"
    BY <1>5, ZenonT(60) DEF CertChecks
  <2> QED
    BY <2>1 DEF Fits, VouchedFor
<1>6. CASE j = 5
  <2>1. ValidityTooLong(c) /\ CertChecks(c)[j][2] = "ValidityPeriodExceedsMax"
    BY <1>6, ZenonT(60) DEF CertChecks
  <2> QED
    BY <2>1, OtherKindsFit DEF VouchedFor
<1>7. CASE j = 6
  <2>1. KeyTooSmall(c) /\ CertChecks(c)[j][2] = "KeyTooSmall"
    BY <1>7, ZenonT(60) DEF CertChecks
  <2> QED
    BY <2>1, OtherKindsFit DEF VouchedFor
<1>8. CASE j = 7
  <2>1. c.unhandled_critical /\ CertChecks(c)[j][2] = "UnhandledCriticalExtension"
    BY <1>8, ZenonT(60) DEF CertChecks
  <2> QED
    BY <2>1, OtherKindsFit DEF VouchedFor
<1>9. CASE j = 8
  <2>1. c.cp = Malformed /\ CertChecks(c)[j][2] = "MalformedCertificate"
    BY <1>9, Zenon DEF CertChecks
  <2> QED
    BY <2>1, OtherKindsFit DEF VouchedFor
<1> QED
  BY <1>1, <1>2, <1>3, <1>4, <1>5, <1>6, <1>7, <1>8, <1>9

\* A CA check that fails names a fault the certificate has, or a policy mapping it carries.
LEMMA CaFits ==
  ASSUME NEW a, NEW j \in DOMAIN CaChecks(chain[k]), CaChecks(chain[k])[j][1], k > 1
  PROVE  /\ Fits(CaChecks(chain[k])[j][2], k, a)
         /\ ~MaySign(k) \/ Present(chain[k].pm)
<1> DEFINE c == chain[k]
<1>1. j \in 1 .. 9
  BY DEF CaChecks
<1>2. CASE j = 1
  <2>1. c.bc = Malformed /\ CaChecks(c)[j][2] = "MalformedCertificate"
    BY <1>2, ZenonT(60) DEF CaChecks
  <2> QED
    BY <2>1, OtherKindsFit DEF MaySign, IsCa, Present
<1>3. CASE j = 2
  <2>1. ~IsCa(c) /\ CaChecks(c)[j][2] = "NotCA"
    BY <1>3, ZenonT(60) DEF CaChecks
  <2> QED
    BY <2>1 DEF Fits, MaySign
<1>4. CASE j \in {3, 4, 5, 6}
  <2>1. \/ policy.enforce_key_usage /\ ~UsageAllows(k, "keyCertSign")
        \/ policy.require_crl_sign_on_cas /\ ~UsageAllows(k, "cRLSign")
    <3>1. CASE j = 3
      BY <3>1, InputsAssumption, ZenonT(60) DEF CaChecks, UsageAllows, Present
    <3>2. CASE j = 4
      BY <3>2, ZenonT(60) DEF CaChecks, UsageAllows, Present
    <3>3. CASE j = 5
      BY <3>3, InputsAssumption, ZenonT(60) DEF CaChecks, UsageAllows, Present
    <3>4. CASE j = 6
      BY <3>4, ZenonT(60) DEF CaChecks, UsageAllows, Present
    <3> QED
      BY <1>4, <3>1, <3>2, <3>3, <3>4
  <2>2. CaChecks(c)[j][2] \in {"MalformedCertificate", "KeyUsageMissing", "CrlSignMissing"}
    BY <1>4 DEF CaChecks
  <2> QED
    BY <2>1, <2>2, OtherKindsFit DEF MaySign
<1>5. CASE j = 7
  <2>1. PathLenExceeded(c) /\ CaChecks(c)[j][2] = "PathTooLong"
    BY <1>5, ZenonT(60) DEF CaChecks
  <2>2. IsCa(c) /\ ~PathLenAllows(k)
    BY <2>1 DEF PathLenExceeded, PathLenAllows
  <2> QED
    BY <2>1, <2>2 DEF Fits, MaySign
<1>6. CASE j = 8
  <2>1. c.pm = Malformed /\ CaChecks(c)[j][2] = "MalformedCertificate"
    BY <1>6, ZenonT(60) DEF CaChecks
  <2> QED
    BY <2>1, OtherKindsFit DEF MaySign
<1>7. CASE j = 9
  <2>1. Present(c.pm) /\ CaChecks(c)[j][2] = "PolicyViolation"
    BY <1>7, ZenonT(60) DEF CaChecks
  <2> QED
    BY <2>1, OtherKindsFit
<1> QED
  BY <1>1, <1>2, <1>3, <1>4, <1>5, <1>6, <1>7

-----------------------------------------------------------------------------
(* RInv, action by action. *)

\* The input checks return before any anchor was tried, and only for inputs that are not well formed.
LEMMA CheckInputsTries ==
  ASSUME IInv, RInv, CheckInputs
  PROVE  RInv'
<1>1. pc = "start" /\ walked = 0
  BY DEF CheckInputs, RInv, TriedInv
<1>2. ASSUME NEW r, Return(r), r.kind # "Ok", WellFormedInputs => anchors = <<>>
      PROVE  RInv'
  <2>1. pc' = "returned" /\ walked' = 0 /\ UNCHANGED inputs /\ result' = r /\ anchors' = anchors
    BY <1>1, <1>2 DEF Return, inputs
  <2>2. anchors = <<>> => DOMAIN anchors = {}
    OBVIOUS
  <2>3. FirstTrustingAnchorWins'
    BY <1>2, <2>1, <2>2, AskedKept DEF FirstTrustingAnchorWins
  <2> QED
    BY <2>1, <2>3 DEF RInv, TriedInv, BarredInv, FreeInv, ErrorBlamesTheFault, WalkPhases
<1>3. \A kind, index : kind # "Ok" => Error(kind, index).kind # "Ok"
  BY DEF Error
<1>4. CASE chain = <<>> \/ anchors = <<>>
  <2>1. Return(Error("NoTrustedPath", NoIndex))
    BY <1>4 DEF CheckInputs
  <2> QED
    BY <1>2, <1>3, <1>4, <2>1 DEF WellFormedInputs
<1>5. CASE ~(chain = <<>> \/ anchors = <<>>) /\ Duplicates
  <2>1. Return(Error("DuplicateCertificate", NoIndex))
    BY <1>5 DEF CheckInputs
  <2> QED
    BY <1>2, <1>3, <1>5, <2>1 DEF WellFormedInputs
<1>6. CASE ~(chain = <<>> \/ anchors = <<>>) /\ ~Duplicates /\ InconsistentOids # {}
  <2>1. PICK j \in InconsistentOids : Return(Error("MalformedCertificate", j))
    BY <1>6 DEF CheckInputs
  <2> QED
    BY <1>2, <1>3, <1>6, <2>1 DEF WellFormedInputs
<1>7. CASE /\ ~(chain = <<>> \/ anchors = <<>>) /\ ~Duplicates /\ InconsistentOids = {}
           /\ ChainTooLong
  <2>1. Return(Error("PathTooLong", NoIndex))
    BY <1>7 DEF CheckInputs
  <2> QED
    BY <1>2, <1>3, <1>7, <2>1 DEF WellFormedInputs
<1>8. CASE GoTo("anchors") /\ UNCHANGED walk
  <2>1. pc' = "anchors" /\ walked' = 0 /\ anchor' = anchor
    BY <1>1, <1>8 DEF GoTo
  <2>2. anchor = 1
    BY <1>1 DEF RInv, TriedInv
  <2> QED
    BY <2>1, <2>2 DEF RInv, TriedInv, BarredInv, FreeInv, ErrorBlamesTheFault,
       FirstTrustingAnchorWins, WalkPhases
<1> QED
  BY <1>4, <1>5, <1>6, <1>7, <1>8 DEF CheckInputs

\* An anchor that is skipped is not eligible, so it trusts nothing.
LEMMA SkipAnchorTries ==
  ASSUME IInv, RInv, SkipAnchor
  PROVE  RInv'
<1>1. /\ pc = "anchors" /\ pc' = "anchors" /\ anchor <= Len(anchors) /\ anchor' = anchor + 1
      /\ ~Walkable(anchors[anchor])
      /\ UNCHANGED inputs /\ anchors' = anchors /\ last_err' = last_err /\ walked' = walked
  BY DEF SkipAnchor, inputs
<1>2. ~Eligible(anchors[anchor]) /\ ~Trusts(anchors[anchor])
  BY <1>1, Zenon DEF Walkable, Eligible, Trusts
<1>3. anchor \in Nat /\ anchor >= 1 /\ walked \in Nat /\ walked < anchor
  BY <1>1, InputsAssumption DEF IInv, InputsOK, TypeOK, RInv, TriedInv
<1>4. TriedInv'
  <2>1. walked > 0 => Refutes(last_err, anchors[walked])'
    <3>1. PICK b : b = anchors[walked]
      OBVIOUS
    <3>2. PICK err : err = last_err
      OBVIOUS
    <3>3. walked > 0 => Refutes(err, b)'
      BY <1>1, <3>1, <3>2, RefutesKept DEF RInv, TriedInv
    <3> QED
      BY <1>1, <3>1, <3>2, <3>3
  <2>2. ASSUME NEW i \in walked + 1 .. anchor
        PROVE  ~Eligible(anchors[i])'
    <3>1. PICK b : b = anchors[i]
      OBVIOUS
    <3>2. ~Eligible(b)
      BY <1>1, <1>2, <1>3, <3>1 DEF RInv, TriedInv
    <3>3. ~Eligible(b)'
      BY <1>1, <3>2, PassedKept
    <3> QED
      BY <1>1, <3>1, <3>3
  <2> QED
    BY <1>1, <1>3, <2>1, <2>2 DEF TriedInv
<1>5. BarredInv'
  <2> SUFFICES ASSUME OnlyTrust, NEW i \in 1 .. anchor
               PROVE  ~Trusts(anchors[i])'
    BY <1>1, <1>3, AskedKept DEF BarredInv
  <2>1. PICK b : b = anchors[i]
    OBVIOUS
  <2>2. ~Trusts(b)
    BY <1>1, <1>2, <1>3, <2>1 DEF RInv, BarredInv
  <2>3. ~Trusts(b)'
    BY <1>1, <2>2, VerdictsKept
  <2> QED
    BY <1>1, <2>1, <2>3
<1> QED
  BY <1>1, <1>4, <1>5
  DEF RInv, FreeInv, ErrorBlamesTheFault, FirstTrustingAnchorWins, WalkPhases

\* A walk that only trust can end starts without name constraints and with a counter that lasts.
LEMMA BeginWalkTries ==
  ASSUME IInv, RInv, BeginWalk
  PROVE  RInv'
<1>1. /\ pc = "anchors" /\ pc' = "check" /\ anchor <= Len(anchors)
      /\ k' = Len(chain) /\ walked' = anchor /\ UNCHANGED <<inputs, anchor>>
      /\ anchors' = anchors
  BY DEF BeginWalk, inputs
<1>2. /\ nc_permitted' = (IF anchors[anchor].nc = Absent THEN {} ELSE anchors[anchor].nc.permitted)
      /\ nc_excluded' = (IF anchors[anchor].nc = Absent THEN {} ELSE anchors[anchor].nc.excluded)
      /\ nc_constrained_types' = TypeBits(nc_permitted')
      /\ explicit_policy' = (IF policy.initial_explicit_policy THEN 0 ELSE Len(chain) + 1)
  BY DEF BeginWalk
<1>3. TriedInv'
  BY <1>1 DEF TriedInv
<1>4. BarredInv'
  <2> SUFFICES ASSUME OnlyTrust, NEW i \in 1 .. anchor - 1
               PROVE  ~Trusts(anchors[i])'
    BY <1>1, AskedKept DEF BarredInv
  <2>1. PICK b : b = anchors[i]
    OBVIOUS
  <2>2. ~Trusts(b)'
    BY <1>1, <2>1, VerdictsKept DEF RInv, BarredInv
  <2> QED
    BY <1>1, <2>1, <2>2
<1>5. FreeInv'
  <2> SUFFICES ASSUME OnlyTrust
               PROVE  /\ nc_permitted' = {} /\ nc_excluded' = {} /\ nc_constrained_types' = {}
                      /\ explicit_policy' >= CertsLeft'
    BY <1>1, AskedKept DEF FreeInv
  <2>1. anchor \in DOMAIN anchors /\ Len(chain) \in Nat
    BY <1>1, InputsAssumption DEF IInv, InputsOK, TypeOK
  <2>2. anchors[anchor].nc = Absent /\ ~policy.initial_explicit_policy
    BY <2>1 DEF OnlyTrust
  <2>3. TypeBits({}) = {}
    BY DEF TypeBits
  <2> QED
    BY <1>1, <1>2, <2>1, <2>2, <2>3 DEF CertsLeft
<1> QED
  BY <1>1, <1>3, <1>4, <1>5 DEF RInv, ErrorBlamesTheFault, FirstTrustingAnchorWins

\* After the last anchor the remembered error is the verdict.
LEMMA OutOfAnchorsTries ==
  ASSUME IInv, RInv, OutOfAnchors
  PROVE  RInv'
<1>1. /\ pc = "anchors" /\ anchor > Len(anchors) /\ pc' = "returned" /\ result' = last_err
      /\ UNCHANGED <<inputs, anchor, walked>> /\ anchors' = anchors /\ chain' = chain
  BY DEF OutOfAnchors, Return, inputs
<1>2. /\ anchor = Len(anchors) + 1 /\ Len(anchors) \in Nat /\ walked \in Nat
      /\ DOMAIN anchors = 1 .. Len(anchors) /\ last_err.kind # "Ok"
  BY <1>1, InputsAssumption DEF IInv, InputsOK, TypeOK
<1>3. ErrorBlamesTheFault'
  <2> SUFFICES ASSUME walked > 0
               PROVE  ErrorBlamesTheFault'
    BY <1>1 DEF ErrorBlamesTheFault
  <2>1. PICK b : b = anchors[walked]
    OBVIOUS
  <2>2. PICK err : err = last_err
    OBVIOUS
  <2>3. Refutes(err, b)'
    BY <1>1, <2>1, <2>2, RefutesKept DEF RInv, TriedInv
  <2>4. ASSUME NEW i \in walked + 1 .. Len(anchors)
        PROVE  ~Eligible(anchors[i])'
    <3>1. PICK c : c = anchors[i]
      OBVIOUS
    <3>2. ~Eligible(c)
      BY <1>1, <1>2, <3>1 DEF RInv, TriedInv
    <3> QED
      BY <1>1, <3>1, <3>2, PassedKept
  <2>5. Refutes(result, anchors[walked])'
    BY <1>1, <2>1, <2>2, <2>3
  <2> QED
    BY <1>1, <2>4, <2>5 DEF ErrorBlamesTheFault, Refutes, SoundAbove
<1>4. FirstTrustingAnchorWins'
  <2> SUFFICES ASSUME OnlyTrust, NEW i \in DOMAIN anchors
               PROVE  ~Trusts(anchors[i])'
    BY <1>1, <1>2, AskedKept DEF FirstTrustingAnchorWins
  <2>1. PICK b : b = anchors[i]
    OBVIOUS
  <2>2. ~Trusts(b)
    BY <1>1, <1>2, <2>1 DEF RInv, BarredInv
  <2>3. ~Trusts(b)'
    BY <1>1, <2>2, VerdictsKept
  <2> QED
    BY <1>1, <2>1, <2>3
<1> QED
  BY <1>1, <1>3, <1>4 DEF RInv, TriedInv, BarredInv, FreeInv, WalkPhases

\* In a walk phase the certificate under examination is on the chain.
LEMMA InWalk ==
  ASSUME IInv, pc \in WalkPhases
  PROVE  /\ Mirror(anchors[anchor]) /\ Progress(pc, anchors[anchor])
         /\ k \in DOMAIN chain /\ k \in Nat /\ k >= 1 /\ explicit_policy \in Nat
BY InputsAssumption DEF IInv, WalkInv, PhaseInv, Mirror, InputsOK, TypeOK

\* A phase that writes neither the name constraints nor explicit_policy keeps a free walk free.
LEMMA StaysFree ==
  ASSUME IInv, RInv, pc \in WalkPhases, pc' \in WalkPhases,
         UNCHANGED <<inputs, k, names, explicit_policy>>,
         k = 1 \/ (pc' \in {"constraints", "next"} <=> pc \in {"constraints", "next"})
  PROVE  FreeInv'
<1>1. OnlyTrust' <=> OnlyTrust
  BY AskedKept
<1>2. k \in Nat /\ explicit_policy \in Nat
  BY InWalk
<1> QED
  BY <1>1, <1>2 DEF RInv, FreeInv, CertsLeft, names, WalkPhases

\* A certificate that fails its own checks refutes the anchor.
LEMMA CheckCertTries ==
  ASSUME IInv, RInv, CheckCert
  PROVE  RInv'
<1>1. pc = "check" /\ pc \in WalkPhases /\ "policies" \in WalkPhases
  BY DEF CheckCert, WalkPhases
<1>2. CASE FailsOneOf(CertChecks(chain[k]), k)
  BY <1>1, <1>2, InWalk, CertFits, Distrusted, FailsOneOfRefutes
<1>3. CASE GoTo("policies") /\ UNCHANGED walk
  <2>1. FreeInv'
    BY <1>1, <1>3, StaysFree DEF GoTo, walk, counters
  <2> QED
    BY <1>1, <1>3, <2>1, WalkOn DEF GoTo
<1> QED
  BY <1>2, <1>3 DEF CheckCert

\* A policy violation ends no walk that only trust can end: explicit_policy has not run out.
LEMMA UpdatePoliciesTries ==
  ASSUME IInv, RInv, UpdatePolicies
  PROVE  RInv'
<1>1. pc = "policies" /\ pc \in WalkPhases /\ "names" \in WalkPhases
  BY DEF UpdatePolicies, WalkPhases
<1>2. CASE explicit_policy = 0 /\ Fail("PolicyViolation", k)
  <2>1. ~OnlyTrust
    BY <1>1, <1>2, InWalk DEF RInv, FreeInv, CertsLeft
  <2> QED
    BY <1>1, <1>2, <2>1, InWalk, OtherKindsFit, FailRefutes
<1>3. CASE GoTo("names") /\ UNCHANGED <<k, working, names, counters>>
  <2>1. FreeInv'
    BY <1>1, <1>3, StaysFree DEF GoTo, counters
  <2> QED
    BY <1>1, <1>3, <2>1, WalkOn DEF GoTo
<1> QED
  BY <1>2, <1>3 DEF UpdatePolicies

\* A malformed SAN refutes the anchor; without subtrees no name is forbidden.
LEMMA CheckNamesTries ==
  ASSUME IInv, RInv, CheckNames
  PROVE  RInv'
<1> DEFINE a == anchors[anchor]
           c == chain[k]
           next == IF k = 1 THEN "leaf" ELSE "ca"
<1>1. pc = "names" /\ pc \in WalkPhases /\ next \in WalkPhases
  BY DEF CheckNames, WalkPhases
<1>2. CASE FailsOneOf(NameChecks(c), k)
  <2>1. ASSUME NEW j \in DOMAIN NameChecks(c), NameChecks(c)[j][1]
        PROVE  Fits(NameChecks(c)[j][2], k, a) /\ (OnlyTrust => ~Trusts(a))
    <3>1. j \in 1 .. 2
      BY DEF NameChecks
    <3>2. CASE j = 1
      <4>1. c.san = Malformed /\ NameChecks(c)[j][2] = "MalformedCertificate"
        BY <2>1, <3>2, Zenon DEF NameChecks
      <4> QED
        BY <1>1, <4>1, InWalk, OtherKindsFit, Distrusted DEF VouchedFor
    <3>3. CASE j = 2
      <4>1. BadNames(c) /\ NameChecks(c)[j][2] = "NameConstraintViolation"
        BY <2>1, <3>3, Zenon DEF NameChecks
      <4>2. OnlyTrust => nc_excluded = {} /\ nc_constrained_types = {}
        BY <1>1 DEF RInv, FreeInv
      <4>3. ~OnlyTrust
        BY <4>1, <4>2, Zenon DEF BadNames, NameConstraintsViolated, Excludes, Forbids, MatchesAny
      <4> QED
        BY <4>1, <4>3, OtherKindsFit
    <3> QED
      BY <3>1, <3>2, <3>3
  <2> QED
    BY <1>1, <1>2, <2>1, FailsOneOfRefutes
<1>3. CASE GoTo(next) /\ UNCHANGED walk
  <2>1. FreeInv'
    BY <1>1, <1>3, StaysFree DEF GoTo, walk, counters
  <2> QED
    BY <1>1, <1>3, <2>1, WalkOn DEF GoTo
<1> QED
  BY <1>2, <1>3 DEF CheckNames

\* The leaf requirements end no walk that only trust can end.
LEMMA CheckLeafTries ==
  ASSUME IInv, RInv, CheckLeaf
  PROVE  RInv'
<1> DEFINE a == anchors[anchor]
           c == chain[k]
<1>1. pc = "leaf" /\ pc \in WalkPhases /\ "next" \in WalkPhases
  BY DEF CheckLeaf, WalkPhases
<1>2. k = 1
  BY <1>1, InWalk DEF Progress
<1>3. CASE FailsOneOf(LeafChecks(c), k)
  <2>1. ASSUME NEW j \in DOMAIN LeafChecks(c), LeafChecks(c)[j][1]
        PROVE  Fits(LeafChecks(c)[j][2], k, a) /\ ~OnlyTrust
    <3>1. j \in 1 .. 6
      BY DEF LeafChecks
    <3>2. Fits(LeafChecks(c)[j][2], k, a)
      <4>1. LeafChecks(c)[j][2] \in {"MissingSan", "MalformedCertificate", "MissingEku",
              "MissingLeafPolicyOid", "SubjectDnAttrRuleUnmet", "MissingRfc822San"}
        BY <3>1 DEF LeafChecks
      <4> QED
        BY <4>1, OtherKindsFit
    <3>3. \/ policy.require_subject_alt_name
          \/ policy.required_leaf_eku # Absent
          \/ policy.required_leaf_policy_oids # Absent
          \/ policy.dn_rule # Absent
      <4>1. CASE j = 1
        BY <2>1, <4>1, Zenon DEF LeafChecks
      <4>2. CASE j = 2
        BY <2>1, <4>2, Zenon DEF LeafChecks
      <4>3. CASE j = 3
        BY <2>1, <4>3, Zenon DEF LeafChecks, Lacks
      <4>4. CASE j = 4
        BY <2>1, <4>4, Zenon DEF LeafChecks, Lacks
      <4>5. CASE j = 5
        BY <2>1, <4>5, Zenon DEF LeafChecks
      <4>6. CASE j = 6
        BY <2>1, <4>6, Zenon DEF LeafChecks
      <4> QED
        BY <3>1, <4>1, <4>2, <4>3, <4>4, <4>5, <4>6
    <3> QED
      BY <3>2, <3>3 DEF OnlyTrust
  <2> QED
    BY <1>1, <1>3, <2>1, FailsOneOfRefutes
<1>4. CASE GoTo("next") /\ UNCHANGED walk
  <2>1. FreeInv'
    BY <1>1, <1>2, <1>4, StaysFree DEF GoTo, walk, counters
  <2> QED
    BY <1>1, <1>4, <2>1, WalkOn DEF GoTo
<1> QED
  BY <1>3, <1>4 DEF CheckLeaf

\* A certificate that may not issue refutes the anchor.
LEMMA CheckCaTries ==
  ASSUME IInv, RInv, CheckCa
  PROVE  RInv'
<1> DEFINE a == anchors[anchor]
           c == chain[k]
<1>1. pc = "ca" /\ pc \in WalkPhases /\ "mappings" \in WalkPhases
  BY DEF CheckCa, WalkPhases
<1>2. k > 1 /\ k \in DOMAIN chain
  BY <1>1, InWalk DEF Progress, CaPhases
<1>3. CASE FailsOneOf(CaChecks(c), k)
  <2>1. ASSUME NEW j \in DOMAIN CaChecks(c), CaChecks(c)[j][1]
        PROVE  Fits(CaChecks(c)[j][2], k, a) /\ (OnlyTrust => ~Trusts(a))
    <3>1. Fits(CaChecks(c)[j][2], k, a) /\ (~MaySign(k) \/ Present(c.pm))
      BY <1>2, <2>1, CaFits
    <3>2. OnlyTrust => ~Present(c.pm)
      BY <1>2 DEF OnlyTrust
    <3> QED
      BY <1>2, <3>1, <3>2, Distrusted
  <2> QED
    BY <1>1, <1>3, <2>1, FailsOneOfRefutes
<1>4. CASE GoTo("mappings") /\ UNCHANGED walk
  <2>1. FreeInv'
    BY <1>1, <1>4, StaysFree DEF GoTo, walk, counters
  <2> QED
    BY <1>1, <1>4, <2>1, WalkOn DEF GoTo
<1> QED
  BY <1>3, <1>4 DEF CheckCa

\* The policy mappings touch nothing the verdict of the anchor loop depends on.
LEMMA MapPoliciesTries ==
  ASSUME IInv, RInv, MapPolicies
  PROVE  RInv'
<1>1. pc = "mappings" /\ pc \in WalkPhases /\ "counters" \in WalkPhases
  BY DEF MapPolicies, WalkPhases
<1>2. FreeInv'
  BY <1>1, StaysFree DEF MapPolicies, GoTo, counters
<1> QED
  BY <1>1, <1>2, WalkOn DEF MapPolicies, GoTo

\* A certificate without PolicyConstraints costs explicit_policy at most one.
LEMMA CounterLoses ==
  ASSUME NEW c, NEW counter \in Nat, ~Present(c.pcons)
  PROVE  CounterAfter(c, counter, RequireExplicit(c)) >= counter - 1
<1>1. RequireExplicit(c) = Absent
  BY DEF RequireExplicit
<1>2. Decremented(c, counter) >= counter - 1
  BY DEF Decremented
<1> QED
  BY <1>1, <1>2 DEF CounterAfter, ClampTo

\* Malformed constraints refute the anchor; counting down leaves enough for the certificates to come.
LEMMA UpdateCountersTries ==
  ASSUME IInv, IInv', RInv, UpdateCounters
  PROVE  RInv'
<1> DEFINE a == anchors[anchor]
           c == chain[k]
<1>1. pc = "counters" /\ pc \in WalkPhases /\ "constraints" \in WalkPhases
  BY DEF UpdateCounters, WalkPhases
<1>2. k > 1 /\ k \in DOMAIN chain /\ k \in Nat
  BY <1>1, InWalk DEF Progress, CaPhases
<1>3. CASE FailsOneOf(ConstraintChecks(c), k)
  <2>1. ASSUME NEW j \in DOMAIN ConstraintChecks(c), ConstraintChecks(c)[j][1]
        PROVE  Fits(ConstraintChecks(c)[j][2], k, a) /\ ~Trusts(a)
    <3>1. j \in 1 .. 2
      BY DEF ConstraintChecks
    <3>2. ConstraintChecks(c)[j][2] = "MalformedCertificate"
      BY <3>1 DEF ConstraintChecks
    <3>3. CASE j = 1
      <4>1. c.pcons = Malformed
        BY <2>1, <3>3, Zenon DEF ConstraintChecks
      <4> QED
        BY <1>2, <3>2, <4>1, OtherKindsFit, Distrusted DEF VouchedFor
    <3>4. CASE j = 2
      <4>1. c.iap = Malformed
        BY <2>1, <3>4, Zenon DEF ConstraintChecks
      <4> QED
        BY <1>2, <3>2, <4>1, OtherKindsFit, Distrusted DEF MaySign
    <3> QED
      BY <3>1, <3>3, <3>4
  <2> QED
    BY <1>1, <1>3, <2>1, FailsOneOfRefutes
<1>4. CASE /\ explicit_policy' = CounterAfter(c, explicit_policy, RequireExplicit(c))
           /\ GoTo("constraints")
           /\ UNCHANGED <<k, working, names, policy_tree>>
  <2>1. FreeInv'
    <3> SUFFICES ASSUME OnlyTrust
                 PROVE  /\ nc_permitted = {} /\ nc_excluded = {} /\ nc_constrained_types = {}
                        /\ explicit_policy' >= k
      BY <1>1, <1>2, <1>4, AskedKept DEF FreeInv, CertsLeft, names, GoTo
    <3>1. /\ nc_permitted = {} /\ nc_excluded = {} /\ nc_constrained_types = {}
          /\ explicit_policy >= k + 1 /\ explicit_policy \in Nat
      BY <1>1, <1>2, InWalk DEF RInv, FreeInv, CertsLeft
    <3>2. ~Present(c.pcons)
      BY <1>2 DEF OnlyTrust
    <3>3. explicit_policy' \in Nat
      BY DEF IInv, TypeOK
    <3>4. explicit_policy' >= explicit_policy - 1
      BY <1>4, <3>1, <3>2, CounterLoses
    <3> QED
      BY <1>2, <3>1, <3>3, <3>4
  <2> QED
    BY <1>1, <1>4, <2>1, WalkOn DEF GoTo
<1> QED
  BY <1>3, <1>4 DEF UpdateCounters

\* Malformed name constraints refute the anchor; a free walk meets none to accumulate.
LEMMA ConstrainNamesTries ==
  ASSUME IInv, RInv, ConstrainNames
  PROVE  RInv'
<1> DEFINE a == anchors[anchor]
           nc == chain[k].nc
<1>1. pc = "constraints" /\ pc \in WalkPhases /\ "next" \in WalkPhases
  BY DEF ConstrainNames, WalkPhases
<1>2. k > 1 /\ k \in DOMAIN chain /\ k \in Nat
  BY <1>1, InWalk DEF Progress, CaPhases
<1>3. CASE nc = Malformed /\ Fail("MalformedCertificate", k)
  <2>1. ~Trusts(a)
    BY <1>2, <1>3, Distrusted DEF MaySign
  <2> QED
    BY <1>1, <1>2, <1>3, <2>1, OtherKindsFit, FailRefutes
<1>4. CASE GoTo("next") /\ UNCHANGED walk
  <2>1. FreeInv'
    BY <1>1, <1>4, StaysFree DEF GoTo, walk, counters
  <2> QED
    BY <1>1, <1>4, <2>1, WalkOn DEF GoTo
<1>5. CASE Present(nc) /\ GoTo("next") /\ UNCHANGED <<k, working, counters, policy_tree>>
  <2>1. ~OnlyTrust
    BY <1>2, <1>5 DEF OnlyTrust
  <2>2. FreeInv'
    BY <1>5, <2>1, AskedKept DEF FreeInv, GoTo
  <2> QED
    BY <1>1, <1>5, <2>2, WalkOn DEF GoTo
<1> QED
  BY <1>3, <1>4, <1>5 DEF ConstrainNames

\* Moving down one certificate uses up the step the counter was kept for.
LEMMA NextCertTries ==
  ASSUME IInv, RInv, NextCert
  PROVE  RInv'
<1>1. /\ pc = "next" /\ pc \in WalkPhases /\ k' = k - 1 /\ UNCHANGED <<names, explicit_policy>>
      /\ pc' = IF k = 1 THEN "finish" ELSE "check"
      /\ UNCHANGED <<inputs, anchor, last_err, result, walked>>
  BY DEF NextCert, GoTo, WalkPhases, counters
<1>2. k \in Nat /\ k >= 1 /\ explicit_policy \in Nat
  BY <1>1, InWalk
<1>3. FreeInv'
  <2> SUFFICES ASSUME OnlyTrust
               PROVE  /\ nc_permitted = {} /\ nc_excluded = {} /\ nc_constrained_types = {}
                      /\ explicit_policy >= IF k = 1 THEN 2 ELSE k
    BY <1>1, <1>2, AskedKept DEF FreeInv, CertsLeft, names
  <2> QED
    BY <1>1, <1>2 DEF RInv, FreeInv, CertsLeft
<1>4. pc' \in WalkPhases \cup {"finish"}
  BY <1>1 DEF WalkPhases
<1> QED
  BY <1>1, <1>3, <1>4, WalkOn

\* The wrap-up refutes the anchor or accepts the chain under the first anchor that trusts it.
LEMMA FinishTries ==
  ASSUME IInv, RInv, Finish
  PROVE  RInv'
<1> DEFINE a == anchors[anchor]
           leaf == chain[1]
           explicit == CounterAfter(leaf, explicit_policy, RequireExplicit(leaf))
<1>1. pc = "finish" /\ k = 0 /\ pc \in WalkPhases \cup {"finish"}
  BY DEF Finish, IInv, WalkInv
<1>2. 1 \in DOMAIN chain /\ 1 >= k
  <2>1. chain # <<>> /\ chain \in Chains
    BY <1>1 DEF IInv, InputsOK
  <2> QED
    BY <1>1, <2>1, InputsAssumption
<1>3. CASE leaf.pcons = Malformed /\ Fail("MalformedCertificate", 1)
  <2>1. ~Trusts(a)
    BY <1>2, <1>3, Distrusted DEF VouchedFor
  <2> QED
    BY <1>1, <1>2, <1>3, <2>1, OtherKindsFit, FailRefutes
<1>4. CASE explicit = 0 /\ Fail("PolicyViolation", 1)
  <2>1. ASSUME OnlyTrust
        PROVE  FALSE
    <3>1. ~Present(leaf.pcons)
      BY <1>2, <2>1 DEF OnlyTrust
    <3>2. explicit_policy \in Nat /\ explicit_policy >= 2
      BY <1>1, <2>1 DEF IInv, TypeOK, RInv, FreeInv, CertsLeft
    <3> QED
      BY <1>4, <3>1, <3>2, CounterLoses
  <2> QED
    BY <1>1, <1>2, <1>4, <2>1, OtherKindsFit, FailRefutes
<1>5. CASE Return(Error("Ok", NoIndex))
  <2>1. /\ pc' = "returned" /\ result' = Error("Ok", NoIndex)
        /\ UNCHANGED <<inputs, anchor>> /\ anchors' = anchors
    BY <1>5 DEF Return, inputs
  <2>2. result'.kind = "Ok" /\ result'.index = 0
    BY <2>1 DEF Error, NoIndex
  <2>3. FirstTrustingAnchorWins'
    <3> SUFFICES ASSUME OnlyTrust, NEW i \in 1 .. anchor - 1
                 PROVE  ~Trusts(anchors[i])'
      BY <2>1, <2>2, AskedKept DEF FirstTrustingAnchorWins
    <3>1. PICK b : b = anchors[i]
      OBVIOUS
    <3>2. ~Trusts(b)'
      BY <1>1, <2>1, <3>1, VerdictsKept DEF RInv, BarredInv
    <3> QED
      BY <2>1, <3>1, <3>2
  <2> QED
    BY <2>1, <2>2, <2>3 DEF RInv, TriedInv, BarredInv, FreeInv, ErrorBlamesTheFault, WalkPhases
<1> QED
  BY <1>3, <1>4, <1>5 DEF Finish

\* A stuttering step changes no verdict.
LEMMA StutterTries ==
  ASSUME IInv, RInv, UNCHANGED vars
  PROVE  RInv'
<1>1. /\ UNCHANGED inputs /\ UNCHANGED <<chain, anchors, policy, pc, anchor, last_err, result, walked>>
      /\ UNCHANGED <<k, nc_permitted, nc_excluded, nc_constrained_types, explicit_policy>>
  BY DEF vars, inputs, walk, names, counters
<1>2. TriedInv'
  <2>1. PICK b : b = anchors[walked]
    OBVIOUS
  <2>2. PICK err : err = last_err
    OBVIOUS
  <2>3. Refutes(last_err, anchors[walked])' <=> Refutes(last_err, anchors[walked])
    BY <1>1, <2>1, <2>2, RefutesKept
  <2>4. \A i : Eligible(anchors[i])' <=> Eligible(anchors[i])
    BY <1>1, Zenon DEF Eligible
  <2> QED
    BY <1>1, <2>3, <2>4 DEF RInv, TriedInv
<1>3. \A i : Trusts(anchors[i])' <=> Trusts(anchors[i])
  <2> TAKE i
  <2>1. PICK b : b = anchors[i]
    OBVIOUS
  <2> QED
    BY <1>1, <2>1, VerdictsKept
<1>4. BarredInv' /\ FirstTrustingAnchorWins'
  BY <1>1, <1>3, AskedKept DEF RInv, BarredInv, FirstTrustingAnchorWins
<1>5. FreeInv'
  BY <1>1, AskedKept DEF RInv, FreeInv, CertsLeft
<1>6. ErrorBlamesTheFault'
  <2>1. PICK b : b = anchors[walked]
    OBVIOUS
  <2>2. PICK err : err = result
    OBVIOUS
  <2>3. /\ Fits(err.kind, err.index, b)' <=> Fits(err.kind, err.index, b)
        /\ SoundAbove(err.index, b)' <=> SoundAbove(err.index, b)
    BY <1>1, VerdictsKept
  <2>4. \A i : Eligible(anchors[i])' <=> Eligible(anchors[i])
    BY <1>1, Zenon DEF Eligible
  <2>5. /\ Fits(result.kind, result.index, anchors[walked])'
             <=> Fits(result.kind, result.index, anchors[walked])
        /\ SoundAbove(result.index, anchors[walked])' <=> SoundAbove(result.index, anchors[walked])
    BY <1>1, <2>1, <2>2, <2>3
  <2>6. ErrorBlamesTheFault <=>
          ((pc = "returned" /\ walked > 0 /\ result.index > 0) =>
             /\ Eligible(anchors[walked])
             /\ \A i \in walked + 1 .. Len(anchors) : ~Eligible(anchors[i])
             /\ Fits(result.kind, result.index, anchors[walked])
             /\ SoundAbove(result.index, anchors[walked]))
    BY DEF ErrorBlamesTheFault, SoundAbove
  <2>7. ErrorBlamesTheFault' <=>
          ((pc = "returned" /\ walked > 0 /\ result.index > 0) =>
             /\ Eligible(anchors[walked])
             /\ \A i \in walked + 1 .. Len(anchors) : ~Eligible(anchors[i])
             /\ Fits(result.kind, result.index, anchors[walked])
             /\ SoundAbove(result.index, anchors[walked]))'
    BY DEF ErrorBlamesTheFault, SoundAbove
  <2> QED
    BY <1>1, <2>4, <2>5, <2>6, <2>7 DEF RInv
<1> QED
  BY <1>2, <1>4, <1>5, <1>6 DEF RInv

\* Every step of validate_path keeps the account of the anchors tried.
LEMMA StepTries ==
  ASSUME IInv, IInv', RInv, [Next]_vars
  PROVE  RInv'
BY CheckInputsTries, SkipAnchorTries, BeginWalkTries, OutOfAnchorsTries, CheckCertTries,
   UpdatePoliciesTries, CheckNamesTries, CheckLeafTries, CheckCaTries, MapPoliciesTries,
   UpdateCountersTries, ConstrainNamesTries, NextCertTries, FinishTries, StutterTries
DEF Next, Step, Done

\* The account of the anchors tried is true in every state of a validation.
LEMMA TriedInductive == Spec => []RInv
<1>1. Init => RInv
  BY DEF Init, RInv, TriedInv, BarredInv, FreeInv, ErrorBlamesTheFault, FirstTrustingAnchorWins,
     WalkPhases
<1>2. IInv /\ IInv' /\ RInv /\ [Next]_vars => RInv'
  BY StepTries
<1> QED
  BY <1>1, <1>2, Inductive, PTL DEF Spec

(* Completeness of validate_path over its anchors: for calls that ask for  *)
(* nothing but trust, a chain some anchor trusts is accepted, under the    *)
(* first such anchor; an error means that no anchor trusts it.             *)
THEOREM AnchorLoopIsComplete == Spec => []FirstTrustingAnchorWins
<1>1. RInv => FirstTrustingAnchorWins
  BY DEF RInv
<1> QED
  BY <1>1, TriedInductive, PTL

(* The error validate_path reports is true of the certificate it names     *)
(* under the last eligible anchor, and everything above is sound.          *)
THEOREM ErrorsAreTrue == Spec => []ErrorBlamesTheFault
<1>1. RInv => ErrorBlamesTheFault
  BY DEF RInv
<1> QED
  BY <1>1, TriedInductive, PTL

-----------------------------------------------------------------------------
(***************************************************************************)
(* Names.  NamesHonoured speaks of every CA and anchor above a name; the   *)
(* walk keeps one pair of lists, rewritten at each.  Accumulated says what *)
(* the lists stand for once the sources above position d are applied: the  *)
(* excluded subtrees of all of them, the types any of them permits, and    *)
(* entries that are Under every source permitting their type, if at most   *)
(* two do, and NothingLost among subtrees that nest.                       *)
(***************************************************************************)

(* What the three lists stand for once the sources above position d have   *)
(* been applied.                                                           *)
Entries(permitted, type) == {s \in permitted : s.type = type}

Under(s, m) == s \in NcAt(m).permitted \/ MatchesAny(s, PermittedBy(m, s.type))

Narrowed(d, permitted, type) ==
  /\ Permitting(d, type) = {} => Entries(permitted, type) = {}
  /\ Cardinality(Permitting(d, type)) = 1 => Entries(permitted, type) # {}
  /\ Cardinality(Permitting(d, type)) <= 2 =>
       \A s \in Entries(permitted, type) : \A m \in Permitting(d, type) : Under(s, m)

AllNest == \A m \in Sources(0) : \A s \in NcAt(m).permitted : Nests(s)

(* Subtrees that nest lose no name on the way. *)
NothingLost(d, permitted) ==
  AllNest =>
    \A j \in 1 .. d : \A n \in NamesOf(chain[j]) :
      (/\ n.type \in NcTypes
       /\ Permitting(d, n.type) # {}
       /\ ~OutsidePermitted(d, n)) => MatchesAny(n, permitted)

Accumulated(d, permitted, excluded, types) ==
  /\ excluded = UNION {NcAt(m).excluded : m \in Sources(d)}
  /\ types = {t \in NcTypes : Permitting(d, t) # {}}
  /\ permitted \subseteq UNION {NcAt(m).permitted : m \in Sources(d)}
  /\ \A t \in NcTypes : Narrowed(d, permitted, t)
  /\ NothingLost(d, permitted)

(* The sources above this position have been applied. *)
Heeded == IF pc = "next" /\ k > 1 THEN k - 1 ELSE k

Honoured(j) ==
  \A n \in ConstrainedNames(j) :
    /\ ~ExcludedFor(j, n)
    /\ (n.type \in NcTypes /\ Cardinality(Permitting(j, n.type)) <= 2) => ~OutsidePermitted(j, n)

Justified(err) ==
  (err.kind = "NameConstraintViolation" /\ AllNest) =>
    \E n \in ConstrainedNames(err.index) : ExcludedFor(err.index, n) \/ OutsidePermitted(err.index, n)

BeforeNames == {"check", "policies", "names"}

NInv ==
  /\ pc \in WalkPhases \cup {"finish"} =>
       /\ walked \in DOMAIN anchors
       /\ \A j \in DOMAIN chain : (j > k \/ (j = k /\ pc \notin BeforeNames)) => Honoured(j)
  /\ pc \in WalkPhases => Accumulated(Heeded, nc_permitted, nc_excluded, nc_constrained_types)
  /\ pc \in {"start", "anchors"} => Justified(last_err)
  /\ NamesHonoured
  /\ NameRejectionJustified

-----------------------------------------------------------------------------
\* A prefix, label by label.
LEMMA PrefixIff ==
  ASSUME NEW s, NEW t, IsLabels(s), IsLabels(t)
  PROVE  IsPrefix(s, t) <=> Len(s) <= Len(t) /\ \A i \in 1 .. Len(s) : s[i] = t[i]
<1>1. PICK S, T : s \in Seq(S) /\ t \in Seq(T)
  BY DEF IsLabels
<1>2. s \in Seq(S \cup T) /\ t \in Seq(S \cup T)
  BY <1>1
<1>3. Len(s) \in Nat /\ Len(t) \in Nat
  BY <1>1
<1>4. ASSUME Len(s) <= Len(t)
      PROVE  SubSeq(s, 1, Len(s)) = SubSeq(t, 1, Len(s)) <=> \A i \in 1 .. Len(s) : s[i] = t[i]
  <2>1. SubSeq(s, 1, Len(s)) = [i \in 1 .. Len(s) |-> s[i]]
    BY <1>1, <1>3
  <2>2. SubSeq(t, 1, Len(s)) = [i \in 1 .. Len(s) |-> t[i]]
    BY <1>1, <1>3, <1>4
  <2> QED
    BY <2>1, <2>2
<1> QED
  BY <1>4 DEF IsPrefix

\* Prefixes are ordered, and the prefixes of one path among themselves linearly.
LEMMA PrefixFacts ==
  ASSUME NEW a, NEW b, NEW c, IsLabels(a), IsLabels(b), IsLabels(c)
  PROVE  /\ IsPrefix(a, a)
         /\ IsPrefix(a, b) /\ IsPrefix(b, a) => a = b
         /\ IsPrefix(a, b) /\ IsPrefix(b, c) => IsPrefix(a, c)
         /\ IsPrefix(a, c) /\ IsPrefix(b, c) => IsPrefix(a, b) \/ IsPrefix(b, a)
<1>1. Len(a) \in Nat /\ Len(b) \in Nat /\ Len(c) \in Nat
  BY DEF IsLabels
<1>2. IsPrefix(a, a)
  BY <1>1, PrefixIff
<1>3. ASSUME IsPrefix(a, b), IsPrefix(b, a) PROVE a = b
  <2>1. Len(a) = Len(b) /\ \A i \in 1 .. Len(a) : a[i] = b[i]
    BY <1>1, <1>3, PrefixIff
  <2>2. a = [i \in 1 .. Len(a) |-> a[i]] /\ b = [i \in 1 .. Len(b) |-> b[i]]
    BY DEF IsLabels
  <2> QED
    BY <2>1, <2>2
<1>4. ASSUME IsPrefix(a, b), IsPrefix(b, c) PROVE IsPrefix(a, c)
  BY <1>1, <1>4, PrefixIff
<1>5. ASSUME IsPrefix(a, c), IsPrefix(b, c) PROVE IsPrefix(a, b) \/ IsPrefix(b, a)
  BY <1>1, <1>5, PrefixIff
<1> QED
  BY <1>2, <1>3, <1>4, <1>5

\* A strict prefix on either side makes the whole strict.
LEMMA StrictPrefixFacts ==
  ASSUME NEW a, NEW b, NEW c, IsLabels(a), IsLabels(b), IsLabels(c)
  PROVE  /\ IsStrictPrefix(a, b) /\ IsPrefix(b, c) => IsStrictPrefix(a, c)
         /\ IsPrefix(a, b) /\ IsStrictPrefix(b, c) => IsStrictPrefix(a, c)
<1>1. ASSUME IsPrefix(a, b), IsPrefix(b, c), a = c PROVE a = b /\ b = c
  BY <1>1, PrefixFacts
<1> QED
  BY <1>1, PrefixFacts DEF IsStrictPrefix

-----------------------------------------------------------------------------
(* A subtree read as a name: what matches it matches whatever it matches.  *)
(* About intersect_nc_permitted, which matches one base against another.   *)
LEMMA MatchesCompose ==
  ASSUME NEW n, NEW s, NEW b, IsLabels(n.path), IsLabels(s.path), IsLabels(b.path),
         NameMatchesSubtree(n, s), NameMatchesSubtree(s, b)
  PROVE  NameMatchesSubtree(n, b)
<1>1. n.type = s.type /\ s.type = b.type
  BY DEF NameMatchesSubtree
<1>2. CASE n.type = "dns"
  <2>1. MatchesDnsName(n, s) /\ MatchesDnsName(s, b)
    BY <1>1, <1>2 DEF NameMatchesSubtree
  <2>2. MatchesDnsName(n, b)
    BY <2>1, StrictPrefixFacts, PrefixFacts DEF MatchesDnsName, Below, IsStrictPrefix
  <2> QED
    BY <1>1, <1>2, <2>2 DEF NameMatchesSubtree
<1>3. CASE n.type = "rfc822"
  <2>1. MatchesRfc822Name(n, s) /\ MatchesRfc822Name(s, b)
    BY <1>1, <1>3 DEF NameMatchesSubtree
  <2>2. b.form = "name" => s = b
    BY <2>1 DEF MatchesRfc822Name
  <2>3. b.form # "name" => n = s
    BY <2>1 DEF MatchesRfc822Name
  <2> QED
    BY <2>2, <2>3
<1>4. CASE n.type = "uri"
  BY <1>1, <1>4 DEF NameMatchesSubtree, MatchesUri
<1>5. CASE n.type = "ip"
  BY <1>1, <1>5 DEF NameMatchesSubtree, MatchesIpAddress
<1>6. CASE n.type = "directory"
  BY <1>1, <1>6, PrefixFacts DEF NameMatchesSubtree, DnWithinSubtree
<1> QED
  BY <1>2, <1>3, <1>4, <1>5, <1>6 DEF NameMatchesSubtree

\* Of two nesting subtrees that one name matches, one matches the other.
LEMMA SubtreesNest ==
  ASSUME NEW n, NEW s, NEW b, IsLabels(n.path), IsLabels(s.path), IsLabels(b.path),
         Nests(s), Nests(b), NameMatchesSubtree(n, s), NameMatchesSubtree(n, b)
  PROVE  NameMatchesSubtree(s, b) \/ NameMatchesSubtree(b, s)
<1>1. n.type = s.type /\ s.type = b.type
  BY DEF NameMatchesSubtree
<1>2. CASE s.type = "directory"
  <2>1. IsPrefix(s.path, n.path) /\ IsPrefix(b.path, n.path)
    BY <1>1, <1>2 DEF NameMatchesSubtree, DnWithinSubtree
  <2> QED
    BY <1>1, <1>2, <2>1, PrefixFacts DEF NameMatchesSubtree, DnWithinSubtree
<1>3. CASE s.type = "dns"
  <2>1. MatchesDnsName(n, s) /\ MatchesDnsName(n, b) /\ s.form = "name" /\ b.form = "name"
    BY <1>1, <1>3 DEF NameMatchesSubtree, Nests
  <2>2. IsPrefix(s.path, n.path) /\ IsPrefix(b.path, n.path) /\ s.path # <<>> /\ b.path # <<>>
    BY <2>1, PrefixFacts DEF MatchesDnsName, Below, IsStrictPrefix
  <2>3. IsPrefix(s.path, b.path) \/ IsPrefix(b.path, s.path)
    BY <2>2, PrefixFacts
  <2>4. MatchesDnsName(s, b) \/ MatchesDnsName(b, s)
    BY <2>1, <2>2, <2>3 DEF MatchesDnsName, Below, IsStrictPrefix
  <2> QED
    BY <1>1, <1>3, <2>4 DEF NameMatchesSubtree
<1> QED
  BY <1>2, <1>3 DEF Nests
-----------------------------------------------------------------------------
(* Sources. *)

\* The arguments are those of a call, and the walk has an anchor.
Walking == InputsOK /\ walked \in DOMAIN anchors

\* What a source is, in a walk.
LEMMA WalkingFacts ==
  ASSUME Walking
  PROVE  /\ DOMAIN chain = 1 .. Len(chain) /\ Len(chain) \in Nat
         /\ \A m \in 1 .. Len(chain) : NcAt(m) = chain[m].nc
         /\ NcAt(Len(chain) + 1) = anchors[walked].nc
         /\ anchors[walked].nc # Malformed
<1>1. DOMAIN chain = 1 .. Len(chain) /\ Len(chain) \in Nat
  BY InputsAssumption DEF Walking, InputsOK
<1>2. anchors[walked].nc # Malformed
  BY NamesAssumption DEF Walking, InputsOK
<1> QED
  BY <1>1, <1>2 DEF NcAt

\* Names and permitted subtrees are lists of labels.
LEMMA Labels ==
  ASSUME Walking
  PROVE  /\ \A j \in DOMAIN chain : \A n \in NamesOf(chain[j]) : IsLabels(n.path)
         /\ \A d \in 0 .. Len(chain) : \A m \in Sources(d) : \A s \in NcAt(m).permitted : IsLabels(s.path)
<1>1. \A j \in DOMAIN chain : \A n \in NamesOf(chain[j]) : IsLabels(n.path)
  BY NamesAssumption DEF Walking, InputsOK
<1>2. ASSUME NEW d \in 0 .. Len(chain), NEW m \in Sources(d), NEW s \in NcAt(m).permitted
      PROVE  IsLabels(s.path)
  <2>1. m \in d + 1 .. Len(chain) + 1 /\ Present(NcAt(m)) /\ Len(chain) \in Nat
    BY WalkingFacts DEF Sources
  <2>2. s \in Permits(NcAt(m))
    BY <2>1 DEF Permits
  <2>3. CASE m = Len(chain) + 1
    <3>1. s \in Permits(anchors[walked].nc)
      BY <2>2, <2>3, WalkingFacts
    <3> QED
      BY <3>1, NamesAssumption DEF Walking, InputsOK
  <2>4. CASE m \in DOMAIN chain
    <3>1. s \in Permits(chain[m].nc)
      BY <2>2, <2>4, WalkingFacts
    <3> QED
      BY <2>4, <3>1, NamesAssumption DEF Walking, InputsOK
  <2>5. m = Len(chain) + 1 \/ m \in DOMAIN chain
    BY <2>1, WalkingFacts
  <2> QED
    BY <2>3, <2>4, <2>5
<1> QED
  BY <1>1, <1>2

\* One position further down, one source more at most.
LEMMA OneMoreSource ==
  ASSUME Walking, NEW d \in DOMAIN chain
  PROVE  /\ Sources(d - 1) = Sources(d) \cup (IF Present(chain[d].nc) THEN {d} ELSE {})
         /\ d \notin Sources(d)
         /\ Sources(d - 1) \subseteq Sources(0)
         /\ NcAt(d) = chain[d].nc
         /\ \A type : IsFiniteSet(Permitting(d, type))
         /\ d - 1 \in 0 .. Len(chain) /\ d \in 0 .. Len(chain)
<1>1. DOMAIN chain = 1 .. Len(chain) /\ Len(chain) \in Nat /\ d \in 1 .. Len(chain)
  BY WalkingFacts
<1>2. d - 1 + 1 = d /\ d .. Len(chain) + 1 = (d + 1 .. Len(chain) + 1) \cup {d}
  BY <1>1
<1>3. NcAt(d) = chain[d].nc
  BY <1>1, WalkingFacts
<1>4. Sources(d - 1) = Sources(d) \cup (IF Present(chain[d].nc) THEN {d} ELSE {})
  BY <1>2, <1>3 DEF Sources
<1>5. d \notin Sources(d) /\ Sources(d - 1) \subseteq Sources(0)
  BY <1>1 DEF Sources
<1>6. ASSUME NEW type PROVE IsFiniteSet(Permitting(d, type))
  <2>1. Permitting(d, type) \subseteq d + 1 .. Len(chain) + 1
    BY DEF Permitting, Sources
  <2>2. IsFiniteSet(d + 1 .. Len(chain) + 1)
    BY <1>1, FS_Interval
  <2> QED
    BY <2>1, <2>2, FS_Subset
<1> QED
  BY <1>1, <1>3, <1>4, <1>5, <1>6

\* What one more source adds to those that permit a type.
LEMMA OneMorePermitting ==
  ASSUME Walking, NEW d \in DOMAIN chain, NEW type
  PROVE  /\ (Present(chain[d].nc) /\ PermittedBy(d, type) # {}) =>
              /\ Permitting(d - 1, type) = Permitting(d, type) \cup {d}
              /\ Cardinality(Permitting(d - 1, type)) = Cardinality(Permitting(d, type)) + 1
         /\ ~(Present(chain[d].nc) /\ PermittedBy(d, type) # {}) =>
              Permitting(d - 1, type) = Permitting(d, type)
<1>1. /\ Sources(d - 1) = Sources(d) \cup (IF Present(chain[d].nc) THEN {d} ELSE {})
      /\ d \notin Sources(d) /\ IsFiniteSet(Permitting(d, type))
  BY OneMoreSource
<1>2. d \notin Permitting(d, type)
  BY <1>1 DEF Permitting
<1>3. CASE Present(chain[d].nc) /\ PermittedBy(d, type) # {}
  <2>1. Permitting(d - 1, type) = Permitting(d, type) \cup {d}
    BY <1>1, <1>3 DEF Permitting
  <2>2. Cardinality(Permitting(d, type) \cup {d}) = Cardinality(Permitting(d, type)) + 1
    BY <1>1, <1>2, FS_AddElement
  <2> QED
    BY <1>3, <2>1, <2>2
<1>4. CASE ~(Present(chain[d].nc) /\ PermittedBy(d, type) # {})
  BY <1>1, <1>4 DEF Permitting
<1> QED
  BY <1>3, <1>4

-----------------------------------------------------------------------------
(* One more source is intersected. *)

\* A subtree under p is under what p is under.
LEMMA UnderComposes ==
  ASSUME NEW m, NEW s, NEW p, NameMatchesSubtree(s, p), Under(p, m), IsLabels(s.path), IsLabels(p.path),
         \A q \in NcAt(m).permitted : IsLabels(q.path)
  PROVE  MatchesAny(s, PermittedBy(m, s.type))
<1>1. s.type = p.type
  BY DEF NameMatchesSubtree
<1>2. CASE p \in NcAt(m).permitted
  BY <1>1, <1>2 DEF MatchesAny, PermittedBy
<1>3. CASE MatchesAny(p, PermittedBy(m, p.type))
  <2>1. PICK q \in PermittedBy(m, p.type) : NameMatchesSubtree(p, q)
    BY <1>3 DEF MatchesAny
  <2>2. NameMatchesSubtree(s, q)
    BY <2>1, MatchesCompose DEF PermittedBy
  <2> QED
    BY <1>1, <2>1, <2>2 DEF MatchesAny
<1> QED
  BY <1>2, <1>3 DEF Under

(* Intersecting with one more source keeps the entries of a type under     *)
(* every source that permits it, while there are at most two.              *)
LEMMA IntersectionNarrows ==
  ASSUME Walking, NEW d \in DOMAIN chain, Present(chain[d].nc), NEW P, NEW t \in NcTypes,
         P \subseteq UNION {NcAt(m).permitted : m \in Sources(d)}, Narrowed(d, P, t)
  PROVE  Narrowed(d - 1, IntersectPermitted(P, chain[d].nc.permitted), t)
<1> DEFINE N == chain[d].nc.permitted
           Q == IntersectPermitted(P, N)
<1>1. /\ NcAt(d) = chain[d].nc /\ d \in 0 .. Len(chain) /\ d - 1 \in 0 .. Len(chain)
      /\ d \in Sources(d - 1) /\ IsFiniteSet(Permitting(d, t))
  BY OneMoreSource
<1>2. PermittedBy(d, t) = {s \in N : s.type = t}
  BY <1>1 DEF PermittedBy
<1>3. \A s \in P : IsLabels(s.path)
  BY <1>1, Labels
<1>4. \A s \in N : IsLabels(s.path)
  BY <1>1, Labels
<1>5. \A m \in Permitting(d, t) : \A s \in NcAt(m).permitted : IsLabels(s.path)
  BY <1>1, Labels DEF Permitting
<1>6. \A s : s \in Entries(Q, t) <=>
        \/ s \in PermittedBy(d, t) /\ (Entries(P, t) = {} \/ MatchesAny(s, Entries(P, t)))
        \/ s \in Entries(P, t) /\ (PermittedBy(d, t) = {} \/ MatchesAny(s, PermittedBy(d, t)))
  <2>1. \A s : s.type = t => {r \in P : SameNcVariant(r, s)} = Entries(P, t)
    BY DEF SameNcVariant, Entries
  <2>2. \A s : s.type = t => {r \in N : SameNcVariant(r, s)} = PermittedBy(d, t)
    BY <1>2 DEF SameNcVariant
  <2> QED
    BY <1>2, <2>1, <2>2 DEF IntersectPermitted, KeptAgainst, Entries
<1>7. Cardinality(Permitting(d, t)) \in Nat /\ (Cardinality(Permitting(d, t)) = 0 <=> Permitting(d, t) = {})
  BY <1>1, FS_CardinalityType, FS_EmptySet
<1> HIDE DEF Q, N
<1>8. CASE PermittedBy(d, t) = {}
  <2>1. Permitting(d - 1, t) = Permitting(d, t)
    BY <1>8, OneMorePermitting
  <2>2. Entries(Q, t) = Entries(P, t)
    BY <1>6, <1>8
  <2> QED
    BY <2>1, <2>2 DEF Narrowed, Q, N
<1>9. CASE PermittedBy(d, t) # {}
  <2>1. /\ Permitting(d - 1, t) = Permitting(d, t) \cup {d}
        /\ Cardinality(Permitting(d - 1, t)) = Cardinality(Permitting(d, t)) + 1
    BY <1>9, OneMorePermitting
  <2>2. Permitting(d, t) = {} => Entries(P, t) = {}
    BY DEF Narrowed
  <2>3. Cardinality(Permitting(d - 1, t)) = 1 => Entries(Q, t) # {}
    BY <1>6, <1>7, <1>9, <2>1, <2>2
  <2>4. ASSUME Cardinality(Permitting(d - 1, t)) <= 2, NEW s \in Entries(Q, t),
               NEW m \in Permitting(d - 1, t)
        PROVE  Under(s, m)
    <3>1. Cardinality(Permitting(d, t)) \in {0, 1}
      BY <1>7, <2>1, <2>4
    <3>2. s.type = t
      BY DEF Entries
    <3>3. \A p \in Entries(P, t) : \A i \in Permitting(d, t) : Under(p, i)
      BY <3>1 DEF Narrowed
    <3>4. Permitting(d, t) # {} => Entries(P, t) # {}
      BY <1>7, <3>1 DEF Narrowed
    <3>5. CASE s \in PermittedBy(d, t) /\ (Entries(P, t) = {} \/ MatchesAny(s, Entries(P, t)))
      <4>1. CASE m = d
        BY <1>1, <1>2, <3>5, <4>1 DEF Under, N
      <4>2. CASE m \in Permitting(d, t)
        <5>1. PICK p \in Entries(P, t) : NameMatchesSubtree(s, p)
          BY <3>4, <3>5, <4>2 DEF MatchesAny
        <5>2. Under(p, m) /\ IsLabels(s.path) /\ IsLabels(p.path)
          BY <1>2, <1>3, <1>4, <3>3, <3>5, <4>2, <5>1 DEF Entries
        <5>3. MatchesAny(s, PermittedBy(m, s.type))
          BY <1>5, <4>2, <5>1, <5>2, UnderComposes
        <5> QED
          BY <5>3 DEF Under
      <4> QED
        BY <2>1, <4>1, <4>2
    <3>6. CASE s \in Entries(P, t) /\ MatchesAny(s, PermittedBy(d, t))
      BY <2>1, <3>2, <3>3, <3>6 DEF Under
    <3> QED
      BY <1>6, <1>9, <3>5, <3>6
  <2> QED
    BY <2>1, <2>3, <2>4 DEF Narrowed, Q, N
<1> QED
  BY <1>8, <1>9

(* Intersecting nesting subtrees loses no name that all sources permit: of *)
(* the two entries it matches, the narrower one is kept.                   *)
LEMMA IntersectionLosesNothing ==
  ASSUME Walking, NEW d \in DOMAIN chain, Present(chain[d].nc), NEW P,
         P \subseteq UNION {NcAt(m).permitted : m \in Sources(d)},
         \A t \in NcTypes : Narrowed(d, P, t), NothingLost(d, P)
  PROVE  NothingLost(d - 1, IntersectPermitted(P, chain[d].nc.permitted))
<1> DEFINE N == chain[d].nc.permitted
           Q == IntersectPermitted(P, N)
<1>1. /\ NcAt(d) = chain[d].nc /\ d \in 0 .. Len(chain) /\ d - 1 \in 0 .. Len(chain)
      /\ Sources(d - 1) = Sources(d) \cup {d} /\ Sources(d - 1) \subseteq Sources(0)
  BY OneMoreSource
<1>2. /\ \A s \in P : IsLabels(s.path) /\ (AllNest => Nests(s))
      /\ \A s \in N : IsLabels(s.path) /\ (AllNest => Nests(s))
  BY <1>1, Labels DEF AllNest
<1> SUFFICES ASSUME AllNest, NEW j \in 1 .. d - 1, NEW n \in NamesOf(chain[j]), n.type \in NcTypes,
                    Permitting(d - 1, n.type) # {}, ~OutsidePermitted(d - 1, n)
             PROVE  MatchesAny(n, Q)
  BY DEF NothingLost
<1> DEFINE t == n.type
           B == PermittedBy(d, t)
<1>3. j \in DOMAIN chain /\ j \in 1 .. d /\ IsLabels(n.path)
  <2>1. j \in DOMAIN chain /\ j \in 1 .. d
    BY WalkingFacts
  <2> QED
    BY <2>1, Labels
<1>4. B = {s \in N : s.type = t}
  BY <1>1 DEF PermittedBy
<1>5. Permitting(d - 1, t) = Permitting(d, t) \cup (IF B # {} THEN {d} ELSE {})
  BY OneMorePermitting
<1>6. ~OutsidePermitted(d, n) /\ (B # {} => MatchesAny(n, B))
  BY <1>5 DEF OutsidePermitted
<1>7. Permitting(d, t) # {} => \E p \in P : NameMatchesSubtree(n, p)
  BY <1>3, <1>6 DEF NothingLost, MatchesAny
<1>8. Permitting(d, t) = {} => Entries(P, t) = {}
  BY DEF Narrowed
<1>9. /\ \A s \in P : s.type = t /\ (B = {} \/ MatchesAny(s, B)) => s \in Q
      /\ \A s \in N : s.type = t /\ (Entries(P, t) = {} \/ MatchesAny(s, Entries(P, t))) => s \in Q
  <2>1. \A s : s.type = t => {r \in P : SameNcVariant(r, s)} = Entries(P, t)
    BY DEF SameNcVariant, Entries
  <2>2. \A s : s.type = t => {r \in N : SameNcVariant(r, s)} = B
    BY <1>4 DEF SameNcVariant
  <2> QED
    BY <2>1, <2>2 DEF IntersectPermitted, KeptAgainst
<1> HIDE DEF Q, N, B
<1>10. CASE B = {}
  <2>1. PICK p \in P : NameMatchesSubtree(n, p)
    BY <1>5, <1>7, <1>10
  <2>2. p.type = t
    BY <2>1 DEF NameMatchesSubtree
  <2> QED
    BY <1>9, <1>10, <2>1, <2>2 DEF MatchesAny
<1>11. CASE B # {} /\ Permitting(d, t) = {}
  <2>1. PICK b \in B : NameMatchesSubtree(n, b)
    BY <1>6, <1>11 DEF MatchesAny
  <2>2. b \in Q
    BY <1>4, <1>8, <1>9, <1>11, <2>1
  <2> QED
    BY <2>1, <2>2 DEF MatchesAny
<1>12. CASE B # {} /\ Permitting(d, t) # {}
  <2>1. PICK b \in B : NameMatchesSubtree(n, b)
    BY <1>6, <1>12 DEF MatchesAny
  <2>2. PICK p \in P : NameMatchesSubtree(n, p)
    BY <1>7, <1>12
  <2>3. b \in N /\ b.type = t /\ p \in Entries(P, t) /\ p.type = t
    BY <1>4, <2>1, <2>2 DEF Entries, NameMatchesSubtree
  <2>4. NameMatchesSubtree(p, b) \/ NameMatchesSubtree(b, p)
    BY <1>2, <1>3, <2>1, <2>2, <2>3, SubtreesNest
  <2>5. p \in Q \/ b \in Q
    BY <1>9, <2>1, <2>2, <2>3, <2>4 DEF MatchesAny
  <2> QED
    BY <2>1, <2>2, <2>5 DEF MatchesAny
<1> QED
  BY <1>10, <1>11, <1>12 DEF Q, N

\* Name constraints of the certificate at d are applied: the lists stand for one source more.
LEMMA SourceApplied ==
  ASSUME Walking, NEW d \in DOMAIN chain, NEW P, NEW E, NEW T, Present(chain[d].nc), Accumulated(d, P, E, T)
  PROVE  Accumulated(d - 1, IntersectPermitted(P, chain[d].nc.permitted),
                     UnionExcluded(E, chain[d].nc.excluded), T \cup TypeBits(chain[d].nc.permitted))
<1> DEFINE N == chain[d].nc.permitted
           Q == IntersectPermitted(P, N)
<1>1. Sources(d - 1) = Sources(d) \cup {d} /\ NcAt(d) = chain[d].nc
  BY OneMoreSource
<1>2. UnionExcluded(E, chain[d].nc.excluded) = UNION {NcAt(m).excluded : m \in Sources(d - 1)}
  BY <1>1 DEF UnionExcluded, Accumulated
<1>3. T \cup TypeBits(N) = {t \in NcTypes : Permitting(d - 1, t) # {}}
  <2>1. T = {t \in NcTypes : Permitting(d, t) # {}}
    BY DEF Accumulated
  <2>2. \A t \in NcTypes : t \in TypeBits(N) <=> PermittedBy(d, t) # {}
    BY <1>1 DEF TypeBits, PermittedBy
  <2>3. TypeBits(N) \subseteq NcTypes
    BY DEF TypeBits
  <2>4. \A t : Permitting(d - 1, t) # {} <=> (Permitting(d, t) # {} \/ PermittedBy(d, t) # {})
    BY OneMorePermitting
  <2> QED
    BY <2>1, <2>2, <2>3, <2>4
<1>4. Q \subseteq UNION {NcAt(m).permitted : m \in Sources(d - 1)}
  <2>1. Q \subseteq P \cup N
    BY DEF IntersectPermitted, KeptAgainst
  <2> QED
    BY <1>1, <2>1 DEF Accumulated
<1>5. \A t \in NcTypes : Narrowed(d - 1, Q, t)
  BY IntersectionNarrows DEF Accumulated
<1>6. NothingLost(d - 1, Q)
  BY IntersectionLosesNothing DEF Accumulated
<1> QED
  BY <1>2, <1>3, <1>4, <1>5, <1>6 DEF Accumulated

\* A certificate without name constraints is no source.
LEMMA NoSourceApplied ==
  ASSUME Walking, NEW d \in DOMAIN chain, NEW P, NEW E, NEW T, ~Present(chain[d].nc), Accumulated(d, P, E, T)
  PROVE  Accumulated(d - 1, P, E, T)
<1>1. Sources(d - 1) = Sources(d) /\ \A t : Permitting(d - 1, t) = Permitting(d, t)
  BY OneMoreSource, OneMorePermitting
<1>2. \A t \in NcTypes : Narrowed(d - 1, P, t)
  BY <1>1 DEF Accumulated, Narrowed
<1>3. NothingLost(d - 1, P)
  <2>1. \A n : OutsidePermitted(d - 1, n) <=> OutsidePermitted(d, n)
    BY <1>1 DEF OutsidePermitted
  <2>2. 1 .. d - 1 \subseteq 1 .. d
    BY WalkingFacts
  <2> QED
    BY <1>1, <2>1, <2>2 DEF Accumulated, NothingLost
<1> QED
  BY <1>1, <1>2, <1>3 DEF Accumulated
-----------------------------------------------------------------------------
(* The verdict on one certificate. *)

\* The names of a certificate the walk does not exempt are the constrained ones.
LEMMA ConstrainedAreChecked ==
  ASSUME NEW j \in DOMAIN chain, j = k
  PROVE  ConstrainedNames(j) = IF ExemptFromNames(chain[j]) THEN {} ELSE NamesOf(chain[j])
BY DEF ConstrainedNames, ExemptFromNames

\* A certificate that check_name_constraints passes honours every source above it.
LEMMA PassHonours ==
  ASSUME Walking, k \in DOMAIN chain, ~BadNames(chain[k]),
         Accumulated(k, nc_permitted, nc_excluded, nc_constrained_types)
  PROVE  Honoured(k)
<1> SUFFICES ASSUME NEW n \in ConstrainedNames(k)
             PROVE  /\ ~ExcludedFor(k, n)
                    /\ (n.type \in NcTypes /\ Cardinality(Permitting(k, n.type)) <= 2)
                         => ~OutsidePermitted(k, n)
  BY DEF Honoured
<1>1. ~ExemptFromNames(chain[k]) /\ n \in NamesOf(chain[k])
  BY ConstrainedAreChecked
<1>2. /\ ~MatchesAny(n, nc_excluded)
      /\ n.type \in nc_constrained_types => MatchesAny(n, nc_permitted)
  BY <1>1 DEF BadNames, NameConstraintsViolated, Excludes, Forbids, NamesOf
<1>3. ~ExcludedFor(k, n)
  BY <1>2 DEF Accumulated, ExcludedFor, MatchesAny
<1>4. ASSUME n.type \in NcTypes, Cardinality(Permitting(k, n.type)) <= 2, NEW m \in Permitting(k, n.type)
      PROVE  MatchesAny(n, PermittedBy(m, n.type))
  <2>1. PICK s \in nc_permitted : NameMatchesSubtree(n, s)
    BY <1>2, <1>4 DEF Accumulated, MatchesAny
  <2>2. s \in Entries(nc_permitted, n.type) /\ Under(s, m)
    BY <1>4, <2>1 DEF Accumulated, Narrowed, Entries, NameMatchesSubtree
  <2>3. k \in 0 .. Len(chain) /\ m \in Sources(k)
    BY OneMoreSource DEF Permitting
  <2>4. IsLabels(n.path) /\ IsLabels(s.path) /\ \A q \in NcAt(m).permitted : IsLabels(q.path)
    BY <1>1, <2>1, <2>3, Labels DEF Accumulated
  <2> QED
    BY <2>1, <2>2, <2>4, UnderComposes
<1> QED
  BY <1>3, <1>4 DEF OutsidePermitted

\* One that it rejects has a name a source above it rules out.
LEMMA FailBlames ==
  ASSUME Walking, k \in DOMAIN chain, BadNames(chain[k]), AllNest,
         Accumulated(k, nc_permitted, nc_excluded, nc_constrained_types)
  PROVE  \E n \in ConstrainedNames(k) : ExcludedFor(k, n) \/ OutsidePermitted(k, n)
<1>1. ConstrainedNames(k) = NamesOf(chain[k])
  BY ConstrainedAreChecked DEF BadNames
<1>2. PICK n \in NamesOf(chain[k]) :
        \/ MatchesAny(n, nc_excluded)
        \/ n.type \in nc_constrained_types /\ ~MatchesAny(n, nc_permitted)
  BY DEF BadNames, NameConstraintsViolated, Excludes, Forbids, NamesOf
<1>3. CASE MatchesAny(n, nc_excluded)
  BY <1>1, <1>3 DEF Accumulated, ExcludedFor, MatchesAny
<1>4. CASE n.type \in nc_constrained_types /\ ~MatchesAny(n, nc_permitted)
  <2>1. n.type \in NcTypes /\ Permitting(k, n.type) # {}
    BY <1>4 DEF Accumulated
  <2>2. k \in 1 .. k
    BY WalkingFacts
  <2>3. OutsidePermitted(k, n)
    BY <1>4, <2>1, <2>2 DEF Accumulated, NothingLost
  <2> QED
    BY <1>1, <2>3
<1> QED
  BY <1>2, <1>3, <1>4

-----------------------------------------------------------------------------
(* The steps of a walk. *)

\* Sources and what they say depend on the arguments and the anchor walked.
LEMMA SourcesKept ==
  ASSUME UNCHANGED inputs, walked' = walked
  PROVE  /\ \A m : NcAt(m)' = NcAt(m)
         /\ \A d : Sources(d)' = Sources(d)
         /\ \A d, t : Permitting(d, t)' = Permitting(d, t)
         /\ \A m, t : PermittedBy(m, t)' = PermittedBy(m, t)
         /\ \A j : ConstrainedNames(j)' = ConstrainedNames(j)
         /\ \A d, n : ExcludedFor(d, n)' <=> ExcludedFor(d, n)
         /\ \A d, n : OutsidePermitted(d, n)' <=> OutsidePermitted(d, n)
         /\ AllNest' <=> AllNest
<1>1. chain' = chain /\ anchors' = anchors
  BY DEF inputs
<1>2. \A m : NcAt(m)' = NcAt(m)
  BY <1>1 DEF NcAt
<1>3. \A d : Sources(d)' = Sources(d)
  BY <1>1, <1>2, Zenon DEF Sources
<1>4. \A m, t : PermittedBy(m, t)' = PermittedBy(m, t)
  BY <1>2, Zenon DEF PermittedBy
<1>5. \A d, t : Permitting(d, t)' = Permitting(d, t)
  BY <1>3, <1>4, Zenon DEF Permitting
<1>6. \A j : ConstrainedNames(j)' = ConstrainedNames(j)
  BY <1>1, Zenon DEF ConstrainedNames, IsSelfIssued, NamesOf, SanNames, Present
<1>7. \A d, n : ExcludedFor(d, n)' <=> ExcludedFor(d, n)
  BY <1>2, <1>3, Zenon DEF ExcludedFor
<1>8. \A d, n : OutsidePermitted(d, n)' <=> OutsidePermitted(d, n)
  BY <1>4, <1>5, Zenon DEF OutsidePermitted
<1>9. AllNest' <=> AllNest
  BY <1>2, <1>3, Zenon DEF AllNest
<1> QED
  BY <1>2, <1>3, <1>4, <1>5, <1>6, <1>7, <1>8, <1>9

\* So does what the lists stand for.
LEMMA AccumulatedKept ==
  ASSUME UNCHANGED inputs, walked' = walked, NEW d, NEW P, NEW E, NEW T
  PROVE  Accumulated(d, P, E, T)' <=> Accumulated(d, P, E, T)
<1>1. chain' = chain
  BY DEF inputs
<1>2. \A s, m : Under(s, m)' <=> Under(s, m)
  BY SourcesKept, Zenon DEF Under
<1>3. \A t : Narrowed(d, P, t)' <=> Narrowed(d, P, t)
  BY <1>2, SourcesKept, Zenon DEF Narrowed
<1>4. NothingLost(d, P)' <=> NothingLost(d, P)
  <2>1. \A j : NamesOf(chain[j])' = NamesOf(chain[j])
    BY <1>1, Zenon DEF NamesOf, SanNames, Present
  <2>2. AllNest' <=> AllNest
    BY SourcesKept
  <2>3. /\ \A t : Permitting(d, t)' = Permitting(d, t)
        /\ \A n : OutsidePermitted(d, n)' <=> OutsidePermitted(d, n)
    BY SourcesKept
  <2> QED
    BY <2>1, <2>2, <2>3, Zenon DEF NothingLost
<1>5. UNION {NcAt(m).excluded : m \in Sources(d)}' = UNION {NcAt(m).excluded : m \in Sources(d)}
  BY <1>1 DEF inputs, Sources, NcAt, Present
<1>6. UNION {NcAt(m).permitted : m \in Sources(d)}' = UNION {NcAt(m).permitted : m \in Sources(d)}
  BY <1>1 DEF inputs, Sources, NcAt, Present
<1>7. {t \in NcTypes : Permitting(d, t) # {}}' = {t \in NcTypes : Permitting(d, t) # {}}
  BY <1>1 DEF inputs, Permitting, PermittedBy, Sources, NcAt, Present
<1> QED
  BY <1>3, <1>4, <1>5, <1>6, <1>7, Zenon DEF Accumulated

\* So do the verdict on a certificate and the justification of an error.
LEMMA HonouredKept ==
  ASSUME UNCHANGED inputs, walked' = walked, NEW j, NEW err
  PROVE  /\ Honoured(j)' <=> Honoured(j)
         /\ Justified(err)' <=> Justified(err)
<1>1. Honoured(j)' <=> Honoured(j)
  BY SourcesKept, Zenon DEF Honoured
<1>2. Justified(err)' <=> Justified(err)
  BY SourcesKept, Zenon DEF Justified
<1> QED
  BY <1>1, <1>2
(* A walk that fails leaves an error; one about names is justified. *)
LEMMA FailNames ==
  ASSUME IInv, NInv, pc \in WalkPhases \cup {"finish"}, NEW kind, NEW index, Fail(kind, index),
         Justified(Error(kind, index))
  PROVE  NInv'
<1>1. /\ pc' = "anchors" /\ last_err' = Error(kind, index) /\ walked' = walked
      /\ UNCHANGED inputs
  BY DEF Fail
<1>2. Justified(last_err)'
  <2>1. PICK err : err = Error(kind, index)
    OBVIOUS
  <2>2. Justified(err)'
    BY <1>1, <2>1, HonouredKept
  <2> QED
    BY <1>1, <2>1, <2>2
<1> QED
  BY <1>1, <1>2 DEF NInv, NamesHonoured, NameRejectionJustified, Accepted, WalkPhases

\* Errors of other kinds need no justification.
LEMMA OtherError ==
  ASSUME NEW kind, NEW index, kind # "NameConstraintViolation"
  PROVE  Justified(Error(kind, index))
BY DEF Justified, Error

\* No list of checks but that of the names blames names.
LEMMA OnlyNamesBlameNames ==
  ASSUME NEW c
  PROVE  /\ \A j \in DOMAIN CertChecks(c) : CertChecks(c)[j][2] # "NameConstraintViolation"
         /\ \A j \in DOMAIN LeafChecks(c) : LeafChecks(c)[j][2] # "NameConstraintViolation"
         /\ \A j \in DOMAIN CaChecks(c) : CaChecks(c)[j][2] # "NameConstraintViolation"
         /\ \A j \in DOMAIN ConstraintChecks(c) : ConstraintChecks(c)[j][2] # "NameConstraintViolation"
<1>1. \A j \in DOMAIN CertChecks(c) : CertChecks(c)[j][2] # "NameConstraintViolation"
  BY DEF CertChecks
<1>2. \A j \in DOMAIN LeafChecks(c) : LeafChecks(c)[j][2] # "NameConstraintViolation"
  BY DEF LeafChecks
<1>3. \A j \in DOMAIN CaChecks(c) : CaChecks(c)[j][2] # "NameConstraintViolation"
  BY DEF CaChecks
<1>4. \A j \in DOMAIN ConstraintChecks(c) : ConstraintChecks(c)[j][2] # "NameConstraintViolation"
  BY DEF ConstraintChecks
<1> QED
  BY <1>1, <1>2, <1>3, <1>4

\* A list of checks that fails ends the walk with one of its errors.
LEMMA ChecksFailNames ==
  ASSUME IInv, NInv, pc \in WalkPhases, NEW checks, FailsOneOf(checks, k),
         \A j \in DOMAIN checks : checks[j][2] # "NameConstraintViolation"
  PROVE  NInv'
<1>1. PICK j \in DOMAIN checks : Fail(checks[j][2], k)
  BY DEF FailsOneOf
<1> QED
  BY <1>1, OtherError, FailNames

\* A step to another phase of the same certificate, which does not touch the lists.
LEMMA PhaseNames ==
  ASSUME IInv, NInv, pc \in WalkPhases \ {"next"}, pc' \in WalkPhases, pc' = "next" => k = 1,
         UNCHANGED <<inputs, walked, k, names>>,
         pc' \in BeforeNames \/ pc \notin BeforeNames \/ Honoured(k)
  PROVE  NInv'
<1>1. chain' = chain /\ anchors' = anchors /\ walked' = walked /\ k' = k
  BY DEF inputs
<1>2. /\ walked \in DOMAIN anchors
      /\ \A j \in DOMAIN chain : (j > k \/ (j = k /\ pc' \notin BeforeNames)) => Honoured(j)
  BY DEF NInv
<1>3. Heeded' = Heeded
  BY <1>1 DEF Heeded
<1>4. Accumulated(Heeded, nc_permitted, nc_excluded, nc_constrained_types)'
  <2>1. PICK d, P, E, T : d = Heeded /\ P = nc_permitted /\ E = nc_excluded /\ T = nc_constrained_types
    OBVIOUS
  <2>2. Accumulated(d, P, E, T)'
    BY <2>1, AccumulatedKept DEF NInv
  <2>3. nc_permitted' = P /\ nc_excluded' = E /\ nc_constrained_types' = T /\ Heeded' = d
    BY <1>3, <2>1 DEF names
  <2> QED
    BY <2>2, <2>3
<1>5. \A j \in DOMAIN chain : Honoured(j)' <=> Honoured(j)
  BY HonouredKept
<1> QED
  BY <1>1, <1>2, <1>4, <1>5
  DEF NInv, NamesHonoured, NameRejectionJustified, Accepted, WalkPhases

\* A walk that is on has the arguments of a call and an anchor.
LEMMA InTheWalk ==
  ASSUME IInv, NInv, pc \in WalkPhases
  PROVE  /\ Walking /\ k \in DOMAIN chain /\ k \in Nat
         /\ Accumulated(Heeded, nc_permitted, nc_excluded, nc_constrained_types)
<1>1. Walking /\ k \in DOMAIN chain
  BY DEF IInv, NInv, Walking, WalkInv, PhaseInv, Mirror
<1> QED
  BY <1>1, WalkingFacts DEF NInv

(* The names of the certificate at k are judged by the accumulated lists.  *)
LEMMA CheckNamesNames ==
  ASSUME IInv, NInv, CheckNames
  PROVE  NInv'
<1>1. pc = "names" /\ pc \in WalkPhases
  BY DEF CheckNames, WalkPhases
<1>2. Walking /\ k \in DOMAIN chain /\ Accumulated(k, nc_permitted, nc_excluded, nc_constrained_types)
  BY <1>1, InTheWalk DEF Heeded
<1>3. CASE FailsOneOf(NameChecks(chain[k]), k)
  <2>1. PICK j \in DOMAIN NameChecks(chain[k]) :
          NameChecks(chain[k])[j][1] /\ Fail(NameChecks(chain[k])[j][2], k)
    BY <1>3 DEF FailsOneOf, FirstFailing
  <2>2. NameChecks(chain[k])[j][2] = "NameConstraintViolation" => BadNames(chain[k])
    <3>1. DOMAIN NameChecks(chain[k]) = 1 .. 2
      BY DEF NameChecks
    <3>2. NameChecks(chain[k])[1][2] # "NameConstraintViolation" /\ (NameChecks(chain[k])[2][1] <=> BadNames(chain[k]))
      BY Zenon DEF NameChecks
    <3>3. j = 1 \/ j = 2
      BY <3>1
    <3> QED
      BY <2>1, <3>2, <3>3
  <2>3. Justified(Error(NameChecks(chain[k])[j][2], k))
    BY <1>2, <2>2, FailBlames DEF Justified, Error
  <2> QED
    BY <1>1, <2>1, <2>3, FailNames
<1>4. CASE /\ Passes(NameChecks(chain[k])) /\ GoTo(IF k = 1 THEN "leaf" ELSE "ca") /\ UNCHANGED walk
  <2>1. Honoured(k)
    BY <1>2, <1>4, NamePasses, PassHonours
  <2>2. pc' \in {"leaf", "ca"} /\ UNCHANGED <<inputs, walked, k, names>>
    BY <1>4 DEF GoTo, walk
  <2> QED
    BY <1>1, <2>1, <2>2, PhaseNames DEF WalkPhases
<1> QED
  BY <1>3, <1>4 DEF CheckNames

(* Its own constraints join the lists, below every check of its own names. *)
LEMMA ConstrainNamesNames ==
  ASSUME IInv, NInv, ConstrainNames
  PROVE  NInv'
<1> DEFINE nc == chain[k].nc
<1>1. pc = "constraints" /\ pc \in WalkPhases
  BY DEF ConstrainNames, WalkPhases
<1>2. Walking /\ k \in DOMAIN chain /\ Accumulated(k, nc_permitted, nc_excluded, nc_constrained_types)
  BY <1>1, InTheWalk DEF Heeded
<1>3. k > 1
  BY <1>1 DEF IInv, WalkInv, PhaseInv, Progress, CaPhases
<1>4. CASE nc = Malformed /\ Fail("MalformedCertificate", k)
  BY <1>1, <1>4, OtherError, FailNames
<1>5. CASE pc' = "next" /\ UNCHANGED <<inputs, walked, k>>
           /\ Accumulated(k - 1, nc_permitted', nc_excluded', nc_constrained_types')
  <2>1. chain' = chain /\ anchors' = anchors /\ walked' = walked /\ k' = k
    BY <1>5 DEF inputs
  <2>2. Heeded' = k - 1
    BY <1>3, <1>5 DEF Heeded
  <2>3. PICK d, P, E, T :
          d = k - 1 /\ P = nc_permitted' /\ E = nc_excluded' /\ T = nc_constrained_types'
    OBVIOUS
  <2>4. Accumulated(d, P, E, T)'
    BY <1>5, <2>3, AccumulatedKept
  <2>5. Accumulated(Heeded, nc_permitted, nc_excluded, nc_constrained_types)'
    BY <2>2, <2>3, <2>4
  <2>6. \A j \in DOMAIN chain : j >= k => Honoured(j)
    BY <1>1, <1>2, WalkingFacts DEF NInv, BeforeNames
  <2>7. \A j \in DOMAIN chain : Honoured(j)' <=> Honoured(j)
    BY <1>5, HonouredKept
  <2>8. \A j \in DOMAIN chain : j > k \/ j = k => j >= k
    BY <1>2, WalkingFacts
  <2> QED
    BY <1>2, <1>5, <2>1, <2>5, <2>6, <2>7, <2>8
    DEF NInv, NamesHonoured, NameRejectionJustified, Accepted, WalkPhases, Walking
<1>6. CASE nc = Absent /\ GoTo("next") /\ UNCHANGED walk
  <2>1. Accumulated(k - 1, nc_permitted, nc_excluded, nc_constrained_types)
    BY <1>2, <1>6, NoSourceApplied DEF Present
  <2> QED
    BY <1>5, <1>6, <2>1 DEF GoTo, walk, names
<1>7. CASE /\ Present(nc)
           /\ nc_permitted' = IntersectPermitted(nc_permitted, nc.permitted)
           /\ nc_excluded' = UnionExcluded(nc_excluded, nc.excluded)
           /\ nc_constrained_types' = nc_constrained_types \cup TypeBits(nc.permitted)
           /\ GoTo("next")
           /\ UNCHANGED <<k, working, counters, policy_tree>>
  <2>1. Accumulated(k - 1, nc_permitted', nc_excluded', nc_constrained_types')
    BY <1>2, <1>7, SourceApplied
  <2> QED
    BY <1>5, <1>7, <2>1 DEF GoTo
<1> QED
  BY <1>4, <1>6, <1>7 DEF ConstrainNames

\* The next certificate down has the sources that have been applied.
LEMMA NextCertNames ==
  ASSUME IInv, NInv, NextCert
  PROVE  NInv'
<1>1. /\ pc = "next" /\ pc \in WalkPhases /\ k' = k - 1 /\ pc' = IF k = 1 THEN "finish" ELSE "check"
      /\ UNCHANGED <<inputs, walked, names>>
  BY DEF NextCert, GoTo, WalkPhases
<1>2. chain' = chain /\ anchors' = anchors /\ walked' = walked
  BY <1>1 DEF inputs
<1>3. /\ Walking /\ k \in DOMAIN chain /\ k \in Nat
      /\ Accumulated(Heeded, nc_permitted, nc_excluded, nc_constrained_types)
  BY <1>1, InTheWalk
<1>4. \A j \in DOMAIN chain : j > k - 1 => Honoured(j)
  <2>1. \A j \in DOMAIN chain : j > k - 1 => j > k \/ j = k
    BY <1>3, WalkingFacts
  <2> QED
    BY <1>1, <2>1 DEF NInv, BeforeNames
<1>5. \A j \in DOMAIN chain : Honoured(j)' <=> Honoured(j)
  BY <1>1, HonouredKept
<1>6. ASSUME k # 1 PROVE Accumulated(Heeded, nc_permitted, nc_excluded, nc_constrained_types)'
  <2>1. Heeded = k - 1 /\ Heeded' = k - 1
    BY <1>1, <1>3, <1>6, WalkingFacts DEF Heeded
  <2>2. PICK d, P, E, T : d = Heeded /\ P = nc_permitted /\ E = nc_excluded /\ T = nc_constrained_types
    OBVIOUS
  <2>3. Accumulated(d, P, E, T)'
    BY <1>1, <1>3, <2>2, AccumulatedKept
  <2>4. nc_permitted' = P /\ nc_excluded' = E /\ nc_constrained_types' = T /\ Heeded' = d
    BY <1>1, <2>1, <2>2 DEF names
  <2> QED
    BY <2>3, <2>4
<1>7. \A j \in DOMAIN chain : ~(j = k - 1 /\ pc' \notin BeforeNames)
  BY <1>1, WalkingFacts, <1>3 DEF BeforeNames
<1> QED
  BY <1>1, <1>2, <1>3, <1>4, <1>5, <1>6, <1>7
  DEF NInv, NamesHonoured, NameRejectionJustified, Accepted, WalkPhases, Walking

(* A walk starts with the lists of its anchor, whatever an earlier walk    *)
(* left in them.                                                           *)
LEMMA BeginWalkNames ==
  ASSUME IInv, NInv, BeginWalk
  PROVE  NInv'
<1> DEFINE a == anchors[anchor]
<1>0. PICK n : n = Len(chain)
  OBVIOUS
<1>1. /\ pc = "anchors" /\ anchor <= Len(anchors) /\ pc' = "check" /\ k' = n /\ walked' = anchor
      /\ nc_permitted' = (IF a.nc = Absent THEN {} ELSE a.nc.permitted)
      /\ nc_excluded' = (IF a.nc = Absent THEN {} ELSE a.nc.excluded)
      /\ nc_constrained_types' = TypeBits(nc_permitted')
      /\ UNCHANGED <<inputs, anchor, last_err, result>>
  BY <1>0 DEF BeginWalk
<1>2. chain' = chain /\ anchors' = anchors
  BY <1>1 DEF inputs
<1>3. anchor \in DOMAIN anchors /\ a.nc # Malformed /\ n \in Nat /\ DOMAIN chain = 1 .. n
  <2>1. anchor \in DOMAIN anchors
    BY <1>1, InputsAssumption DEF IInv, InputsOK, TypeOK
  <2> QED
    BY <1>0, <2>1, InputsAssumption, NamesAssumption DEF IInv, InputsOK
<1>4. Heeded' = n
  BY <1>1 DEF Heeded
<1>5. /\ \A m : m = n + 1 => NcAt(m)' = a.nc
      /\ \A m : m \in Sources(n)' <=> m = n + 1 /\ Present(a.nc)
  <2>1. \A m : m = n + 1 => NcAt(m)' = a.nc
    BY <1>0, <1>1, <1>2, <1>3 DEF NcAt
  <2>2. n + 1 .. n + 1 = {n + 1}
    BY <1>3
  <2> QED
    BY <1>0, <1>1, <1>2, <1>3, <2>1, <2>2 DEF Sources, NcAt, Present
<1>6. Present(a.nc) <=> a.nc # Absent
  BY <1>3 DEF Present
<1>7. \A m, t, s : m = n + 1 => (s \in PermittedBy(m, t)' <=> s \in a.nc.permitted /\ s.type = t)
  BY <1>5 DEF PermittedBy
<1>8. \A t, m : m \in Permitting(n, t)' <=> m = n + 1 /\ Present(a.nc) /\ \E s \in a.nc.permitted : s.type = t
  <2>1. \A t, m : m \in Permitting(n, t)' <=> m \in Sources(n)' /\ PermittedBy(m, t)' # {}
    BY DEF Permitting
  <2> QED
    BY <1>5, <1>7, <2>1
<1>9. /\ nc_excluded' = UNION {NcAt(m).excluded : m \in Sources(n)}'
      /\ nc_permitted' = UNION {NcAt(m).permitted : m \in Sources(n)}'
  BY <1>0, <1>1, <1>2, <1>3, <1>5, <1>6 DEF NcAt
<1>10. nc_constrained_types' = {t \in NcTypes : Permitting(n, t) # {}}'
  <2>1. \A t \in NcTypes : Permitting(n, t)' # {} <=> Present(a.nc) /\ \E s \in a.nc.permitted : s.type = t
    BY <1>7, <1>8
  <2> QED
    BY <1>1, <1>6, <2>1 DEF TypeBits
<1>11. \A t, s : s \in Entries(nc_permitted', t) <=> Present(a.nc) /\ s \in a.nc.permitted /\ s.type = t
  BY <1>1, <1>6 DEF Entries
<1>12. ASSUME NEW t \in NcTypes PROVE Narrowed(n, nc_permitted, t)'
  <2>1. Permitting(n, t)' = {} <=> Entries(nc_permitted', t) = {}
    BY <1>8, <1>11
  <2>2. Cardinality({}) = 0
    BY FS_EmptySet
  <2>3. \A s \in Entries(nc_permitted', t) : \A m \in Permitting(n, t)' : Under(s, m)'
    BY <1>5, <1>8, <1>11 DEF Under
  <2> QED
    BY <2>1, <2>2, <2>3 DEF Narrowed, Entries
<1>13. NothingLost(n, nc_permitted)'
  <2>1. ASSUME NEW x, Permitting(n, x.type)' # {}, ~OutsidePermitted(n, x)'
        PROVE  MatchesAny(x, nc_permitted')
    <3>1. PICK m : m = n + 1 /\ m \in Permitting(n, x.type)' /\ Present(a.nc)
      BY <1>8, <2>1
    <3>2. MatchesAny(x, PermittedBy(m, x.type)')
      BY <2>1, <3>1 DEF OutsidePermitted
    <3>3. PermittedBy(m, x.type)' \subseteq nc_permitted'
      BY <1>1, <1>6, <1>7, <3>1
    <3> QED
      BY <3>2, <3>3 DEF MatchesAny
  <2> QED
    BY <2>1 DEF NothingLost
<1>14. Accumulated(Heeded, nc_permitted, nc_excluded, nc_constrained_types)'
  <2>1. Accumulated(n, nc_permitted, nc_excluded, nc_constrained_types)'
    BY <1>9, <1>10, <1>12, <1>13 DEF Accumulated
  <2> QED
    BY <1>4, <2>1
<1>15. \A j \in DOMAIN chain : ~(j > n)
  BY <1>3
<1> QED
  BY <1>1, <1>2, <1>3, <1>14, <1>15
  DEF NInv, BeforeNames, NamesHonoured, NameRejectionJustified, Accepted, WalkPhases

\* An accepted chain has been checked down to the leaf.
LEMMA FinishNames ==
  ASSUME IInv, NInv, Finish
  PROVE  NInv'
<1>1. pc = "finish"
  BY DEF Finish
<1>2. CASE \E kind \in {"MalformedCertificate", "PolicyViolation"} : Fail(kind, 1)
  BY <1>1, <1>2, OtherError, FailNames
<1>3. CASE Return(Error("Ok", NoIndex))
  <2>1. /\ pc' = "returned" /\ result'.kind = "Ok" /\ walked' = walked /\ UNCHANGED inputs
    BY <1>3 DEF Return, Error
  <2>2. chain' = chain
    BY <2>1 DEF inputs
  <2>3. \A j \in DOMAIN chain : Honoured(j)
    BY <1>1, InputsAssumption DEF IInv, InputsOK, WalkInv, NInv
  <2>4. \A j \in DOMAIN chain : Honoured(j)'
    BY <2>1, <2>3, HonouredKept
  <2>5. NamesHonoured'
    BY <2>2, <2>4 DEF NamesHonoured, Honoured
  <2> QED
    BY <2>1, <2>5 DEF NInv, NameRejectionJustified, WalkPhases
<1> QED
  BY <1>2, <1>3 DEF Finish

\* An error is returned as it is; outside a walk there is only the last one.
LEMMA ReturnNames ==
  ASSUME IInv, NInv, NEW r, Return(r), r.kind # "Ok", Justified(r)
  PROVE  NInv'
<1>1. pc' = "returned" /\ result' = r /\ walked' = walked /\ UNCHANGED inputs
  BY DEF Return
<1>2. Justified(r)'
  BY <1>1, HonouredKept
<1>3. NameRejectionJustified'
  BY <1>1, <1>2 DEF NameRejectionJustified, Justified, AllNest
<1> QED
  BY <1>1, <1>3 DEF NInv, NamesHonoured, Accepted, WalkPhases

\* Outside a walk only the last error matters.
LEMMA OutsideNames ==
  ASSUME IInv, NInv, CheckInputs \/ SkipAnchor \/ OutOfAnchors
  PROVE  NInv'
<1>1. CASE OutOfAnchors
  BY <1>1, ReturnNames DEF OutOfAnchors, NInv, IInv, InputsOK
<1>2. CASE pc' = "anchors" /\ UNCHANGED <<inputs, last_err, walked>> /\ Justified(last_err)
  <2>1. PICK err : err = last_err
    OBVIOUS
  <2>2. Justified(err)'
    BY <1>2, <2>1, HonouredKept
  <2> QED
    BY <1>2, <2>1, <2>2 DEF NInv, NamesHonoured, NameRejectionJustified, Accepted, WalkPhases
<1>3. CASE SkipAnchor
  BY <1>2, <1>3 DEF SkipAnchor, NInv
<1>4. CASE CheckInputs
  <2>1. CASE GoTo("anchors")
    <3>1. Justified(last_err)
      BY <1>4, OtherError DEF CheckInputs, NInv
    <3> QED
      BY <1>2, <2>1, <3>1 DEF GoTo
  <2>2. CASE \E kind, index : kind \notin {"Ok", "NameConstraintViolation"} /\ Return(Error(kind, index))
    BY <2>2, OtherError, ReturnNames DEF Error
  <2> QED
    BY <1>4, <2>1, <2>2 DEF CheckInputs
<1> QED
  BY <1>1, <1>3, <1>4
\* The other phases of the walk leave names alone.
LEMMA CheckCertNames ==
  ASSUME IInv, NInv, CheckCert
  PROVE  NInv'
<1>1. pc = "check" /\ pc \in WalkPhases \ {"next"}
  BY DEF CheckCert, WalkPhases
<1>2. CASE FailsOneOf(CertChecks(chain[k]), k)
  BY <1>1, <1>2, OnlyNamesBlameNames, ChecksFailNames
<1>3. CASE GoTo("policies") /\ UNCHANGED walk
  <2>1. pc' = "policies" /\ UNCHANGED <<inputs, walked, k, names>>
    BY <1>3 DEF GoTo, walk
  <2> QED
    BY <1>1, <2>1, PhaseNames DEF WalkPhases, BeforeNames
<1> QED
  BY <1>2, <1>3 DEF CheckCert

\* Growing the policy tree does not touch the lists.
LEMMA UpdatePoliciesNames ==
  ASSUME IInv, NInv, UpdatePolicies
  PROVE  NInv'
<1>1. pc = "policies" /\ pc \in WalkPhases \ {"next"}
  BY DEF UpdatePolicies, WalkPhases
<1>2. CASE Fail("PolicyViolation", k)
  BY <1>1, <1>2, OtherError, FailNames
<1>3. CASE GoTo("names") /\ UNCHANGED <<k, working, names, counters>>
  <2>1. pc' = "names" /\ UNCHANGED <<inputs, walked, k, names>>
    BY <1>3 DEF GoTo
  <2> QED
    BY <1>1, <2>1, PhaseNames DEF WalkPhases, BeforeNames
<1> QED
  BY <1>2, <1>3 DEF UpdatePolicies

\* Nor do the checks of the leaf.
LEMMA CheckLeafNames ==
  ASSUME IInv, NInv, CheckLeaf
  PROVE  NInv'
<1>1. pc = "leaf" /\ pc \in WalkPhases \ {"next"}
  BY DEF CheckLeaf, WalkPhases
<1>2. CASE FailsOneOf(LeafChecks(chain[k]), k)
  BY <1>1, <1>2, OnlyNamesBlameNames, ChecksFailNames
<1>3. CASE GoTo("next") /\ UNCHANGED walk
  <2>1. pc' = "next" /\ UNCHANGED <<inputs, walked, k, names>>
    BY <1>3 DEF GoTo, walk
  <2>2. k = 1
    BY <1>1 DEF IInv, WalkInv, PhaseInv, Progress
  <2> QED
    BY <1>1, <2>1, <2>2, PhaseNames DEF WalkPhases, BeforeNames
<1> QED
  BY <1>2, <1>3 DEF CheckLeaf

\* Nor those of a CA.
LEMMA CheckCaNames ==
  ASSUME IInv, NInv, CheckCa
  PROVE  NInv'
<1>1. pc = "ca" /\ pc \in WalkPhases \ {"next"}
  BY DEF CheckCa, WalkPhases
<1>2. CASE FailsOneOf(CaChecks(chain[k]), k)
  BY <1>1, <1>2, OnlyNamesBlameNames, ChecksFailNames
<1>3. CASE GoTo("mappings") /\ UNCHANGED walk
  <2>1. pc' = "mappings" /\ UNCHANGED <<inputs, walked, k, names>>
    BY <1>3 DEF GoTo, walk
  <2> QED
    BY <1>1, <2>1, PhaseNames DEF WalkPhases, BeforeNames
<1> QED
  BY <1>2, <1>3 DEF CheckCa

\* Nor policy mappings.
LEMMA MapPoliciesNames ==
  ASSUME IInv, NInv, MapPolicies
  PROVE  NInv'
<1>1. pc = "mappings" /\ pc \in WalkPhases \ {"next"}
  BY DEF MapPolicies, WalkPhases
<1>2. pc' = "counters" /\ UNCHANGED <<inputs, walked, k, names>>
  BY DEF MapPolicies, GoTo
<1> QED
  BY <1>1, <1>2, PhaseNames DEF WalkPhases, BeforeNames

\* Nor the counters.
LEMMA UpdateCountersNames ==
  ASSUME IInv, NInv, UpdateCounters
  PROVE  NInv'
<1>1. pc = "counters" /\ pc \in WalkPhases \ {"next"}
  BY DEF UpdateCounters, WalkPhases
<1>2. CASE FailsOneOf(ConstraintChecks(chain[k]), k)
  BY <1>1, <1>2, OnlyNamesBlameNames, ChecksFailNames
<1>3. CASE GoTo("constraints") /\ UNCHANGED <<k, working, names, policy_tree>>
  <2>1. pc' = "constraints" /\ UNCHANGED <<inputs, walked, k, names>>
    BY <1>3 DEF GoTo
  <2> QED
    BY <1>1, <2>1, PhaseNames DEF WalkPhases, BeforeNames
<1> QED
  BY <1>2, <1>3 DEF UpdateCounters

\* Nor does a step that changes nothing.
LEMMA StutterNames ==
  ASSUME IInv, NInv, UNCHANGED vars
  PROVE  NInv'
<1>1. /\ UNCHANGED <<inputs, pc, last_err, result, k, nc_permitted, nc_excluded>>
      /\ UNCHANGED <<nc_constrained_types, walked, chain, anchors>>
  BY DEF vars, walk, names, inputs
<1>2. /\ \A j : Honoured(j)' <=> Honoured(j)
      /\ \A j : ConstrainedNames(j)' = ConstrainedNames(j)
      /\ \A d, t : Permitting(d, t)' = Permitting(d, t)
      /\ \A d, n : ExcludedFor(d, n)' <=> ExcludedFor(d, n)
      /\ \A d, n : OutsidePermitted(d, n)' <=> OutsidePermitted(d, n)
      /\ AllNest' <=> AllNest
  BY <1>1, HonouredKept, SourcesKept
<1>3. Accumulated(Heeded, nc_permitted, nc_excluded, nc_constrained_types)'
        <=> Accumulated(Heeded, nc_permitted, nc_excluded, nc_constrained_types)
  <2>1. PICK d, P, E, T : d = Heeded /\ P = nc_permitted /\ E = nc_excluded /\ T = nc_constrained_types
    OBVIOUS
  <2>2. Accumulated(d, P, E, T)' <=> Accumulated(d, P, E, T)
    BY <1>1, AccumulatedKept
  <2>3. nc_permitted' = P /\ nc_excluded' = E /\ nc_constrained_types' = T /\ Heeded' = d
    BY <1>1, <2>1 DEF Heeded
  <2> QED
    BY <2>1, <2>2, <2>3
<1>4. Justified(last_err)' <=> Justified(last_err)
  <2>1. PICK err : err = last_err
    OBVIOUS
  <2> QED
    BY <1>1, <2>1, HonouredKept
<1>5. NamesHonoured'
  <2>1. Accepted' <=> Accepted
    BY <1>1 DEF Accepted
  <2> QED
    BY <1>1, <1>2, <2>1 DEF NInv, NamesHonoured, Honoured
<1>6. NameRejectionJustified'
  <2>1. NameRejectionJustified <=> (pc = "returned" => Justified(result))
    BY DEF NameRejectionJustified, Justified, AllNest
  <2>2. NameRejectionJustified' <=> (pc' = "returned" => Justified(result)')
    BY DEF NameRejectionJustified, Justified, AllNest
  <2>3. PICK err : err = result
    OBVIOUS
  <2>4. Justified(err)' <=> Justified(err)
    BY <1>1, HonouredKept
  <2> QED
    BY <1>1, <2>1, <2>2, <2>3, <2>4 DEF NInv
<1> QED
  BY <1>1, <1>2, <1>3, <1>4, <1>5, <1>6 DEF NInv

\* Every step keeps it.
LEMMA StepNames ==
  ASSUME IInv, NInv, [Next]_vars
  PROVE  NInv'
BY OutsideNames, BeginWalkNames, CheckCertNames, UpdatePoliciesNames, CheckNamesNames,
   CheckLeafNames, CheckCaNames, MapPoliciesNames, UpdateCountersNames, ConstrainNamesNames,
   NextCertNames, FinishNames, StutterNames
DEF Next, Step, Done

\* What the lists stand for, in every state of a validation.
LEMMA NamesInductive == Spec => []NInv
<1>1. Init => NInv
  BY OtherError DEF Init, NInv, WalkPhases, Accepted, NamesHonoured, NameRejectionJustified, Error, Justified
<1>2. IInv /\ NInv /\ [Next]_vars => NInv'
  BY StepNames
<1> QED
  BY <1>1, <1>2, Inductive, PTL DEF Spec

(* validate_path accepts no chain in which a name is excluded by a CA or    *)
(* the anchor above it, or outside what one of them permits when at most    *)
(* two permit its type, for chains of any length and names of any depth:    *)
(* the two accumulated lists forget no source.                              *)
THEOREM ConstraintsAreHonoured == Spec => []NamesHonoured
<1>1. NInv => NamesHonoured
  BY DEF NInv
<1> QED
  BY <1>1, NamesInductive, PTL

(* A NameConstraintViolation blames a certificate one of whose names a      *)
(* source above it rules out, for subtrees that nest, whatever earlier      *)
(* anchors the loop has tried.                                              *)
THEOREM NameErrorsAreTrue == Spec => []NameRejectionJustified
<1>1. NInv => NameRejectionJustified
  BY DEF NInv
<1> QED
  BY <1>1, NamesInductive, PTL

-----------------------------------------------------------------------------
(***************************************************************************)
(* Policies: the tree at position m holds what the policy paths from the   *)
(* anchor down to m say, and a counter is how many certificates are left   *)
(* before some constraint above m takes hold.                              *)
(***************************************************************************)
\* The depth of the nodes of position m; the anchor is the root, at position Len(chain) + 1.
Depth(m) == Len(chain) - m + 1

ExpectedAt(m, p) == IF m > Len(chain) THEN {p} ELSE Expected(m, p)

Node(m, p) == PolicyNode(Depth(m), p, ExpectedAt(m, p))

\* The policy above position m on a path.
Over(f, m) == IF m = Len(chain) THEN AnyPolicy ELSE f[m + 1]

CarriesBelow(m, p, q) == Carries(m, p, q, ExpectedAt(m + 1, q))

\* What is a policy path from the anchor down to position m, and the policies there.
Leads(m) ==
  {f \in [DOMAIN chain -> PolicyOids] : \A i \in m .. Len(chain) : CarriesBelow(i, f[i], Over(f, i))}

Ends(m) == IF m > Len(chain) THEN {AnyPolicy} ELSE {f[m] : f \in Leads(m)}

\* Position m carries p below q, before its mappings are looked at.
Admits(m, p, q) ==
  IF p = AnyPolicy
  THEN q = AnyPolicy /\ AnyNode(m)
  ELSE \/ (Asserts(m, p) \/ AnyNode(m)) /\ p \in ExpectedAt(m + 1, q)
       \/ Asserts(m, p) /\ q = AnyPolicy

Grown(m) == {p \in PolicyOids : \E q \in Ends(m + 1) : Admits(m, p, q)}

GrownPaths(m) == {f \in Leads(m + 1) : Admits(m, f[m], Over(f, m))}

Rooted(tree, m) ==
  /\ \A n \in tree : n.depth \in 0 .. Depth(m)
  /\ tree # {} => AtDepth(tree, 0) = InitPolicyTree

\* The lowest level of the tree, when the mappings of m have been applied and before.
TreeIs(tree, m) ==
  /\ Rooted(tree, m)
  /\ AtDepth(tree, Depth(m)) = {Node(m, p) : p \in Ends(m)}
  /\ tree = {} <=> Ends(m) = {}

GrownIs(tree, m) ==
  /\ Rooted(tree, m)
  /\ AtDepth(tree, Depth(m)) = {PolicyNode(Depth(m), p, {p}) : p \in Grown(m)}
  /\ tree = {} <=> Grown(m) = {}

\* The levels above position m lose nothing of these paths, and hold nothing no path leads to.
LevelsAre(tree, m, paths) ==
  \A i \in m + 1 .. Len(chain) :
    /\ \A f \in paths : Node(i, f[i]) \in tree
    /\ AtDepth(tree, Depth(i)) \subseteq {Node(i, p) : p \in Ends(i)}

\* No CA asserts anyPolicy.
Unexpanded == \A m \in Above(1) : ~Asserts(m, AnyPolicy)

\* The mappings of position m are in the tree, or not yet.
TreeMapped(tree, m) ==
  IdentitiesLast =>
    /\ TreeIs(tree, m)
    /\ Unexpanded => LevelsAre(tree, m, Leads(m))

TreeGrown(tree, m) ==
  IdentitiesLast =>
    /\ GrownIs(tree, m)
    /\ Unexpanded => LevelsAre(tree, m, GrownPaths(m))

TreeInv ==
  /\ pc \in {"check", "policies", "finish"} => TreeMapped(policy_tree, k + 1)
  /\ pc \in {"names", "leaf", "ca", "mappings"} => TreeGrown(policy_tree, k)
  /\ pc \in {"counters", "constraints", "next"} => TreeMapped(policy_tree, k)

\* No mapping of position m involves anyPolicy.
MapsNoAny(m) == \A x \in Mappings(m) : AnyPolicy \notin {x[1], x[2]}

MappingsInv ==
  /\ pc \in WalkPhases \cup {"finish"} => \A m \in DOMAIN chain : m > k => MapsNoAny(m)
  /\ pc \in {"mappings", "counters", "constraints", "next"} => MapsNoAny(k)

ExplicitSkips == [j \in DOMAIN chain |-> RequireExplicit(chain[j])]
MappingSkips == [j \in DOMAIN chain |-> InhibitMapping(chain[j])]
AnySkips == [j \in DOMAIN chain |-> InhibitAnyPolicy(chain[j])]

\* A counter at position m: at most v if a constraint above takes hold within v more certificates.
CounterIs(counter, initial, skips, m) ==
  \A v \in Nat :
    counter <= v <=> \/ initial
                     \/ Len(chain) + 1 <= v + NonSelfIssued(m + 1, Len(chain))
                     \/ \E j \in Above(m) : skips[j] # Absent /\ skips[j] <= v + NonSelfIssued(m + 1, j - 1)

CountersAre(explicit, mapping, any, m) ==
  /\ CounterIs(explicit, policy.initial_explicit_policy, ExplicitSkips, m)
  /\ CounterIs(mapping, policy.initial_policy_mapping_inhibit, MappingSkips, m)
  /\ CounterIs(any, policy.initial_any_policy_inhibit, AnySkips, m)

\* The position whose counters they are: those of the leaf are not updated before the end.
Counted ==
  IF pc = "finish" THEN 1 ELSE IF pc \in {"constraints", "next"} /\ k > 1 THEN k - 1 ELSE k

CountersInv ==
  pc \in WalkPhases \cup {"finish"} => CountersAre(explicit_policy, policy_mapping, inhibit_any, Counted)

Violated == MapsAny \/ (ExplicitRequired /\ AcceptablePaths = {})

Blamed(err) == (err.kind = "PolicyViolation" /\ SetIsExact /\ IdentitiesLast) => Violated

\* What policy processing knows in every phase; PoliciesAreExact follows from it.
PInv ==
  /\ TreeInv
  /\ MappingsInv
  /\ CountersInv
  /\ pc \in {"start", "anchors"} => Blamed(last_err)
  /\ PolicyVerdict

\* A non-empty set of natural numbers has a smallest element.
LEMMA LeastNumber ==
  ASSUME NEW S \in SUBSET Nat, S # {}
  PROVE  \E x \in S : \A y \in S : x <= y
<1> DEFINE R == OpToRel(<, Nat)
<1>1. PICK x \in S : \A y \in S : ~(<<y, x>> \in R)
  <2>1. IsWellFoundedOn(R, Nat)
    BY NatLessThanWellFounded
  <2> HIDE DEF R
  <2> QED
    BY <2>1, WFMin
<1>2. ASSUME NEW y \in S, y < x PROVE FALSE
  <2>1. <<y, x>> \in R
    BY <1>2 DEF OpToRel
  <2> QED
    BY <1>1, <2>1
<1>3. \A y \in S : ~(y < x)
  BY <1>2
<1> QED
  BY <1>3

\* What pruning keeps of level d, if it keeps this of the level below.
Kept(tree, N, d, below) ==
  IF d = N THEN AtDepth(tree, d) ELSE {n \in AtDepth(tree, d) : HasChildIn(n, below)}

\* The recursion of prune_policy_tree has a solution, level by level from the lowest.
LEMMA KeptExists ==
  ASSUME NEW tree, NEW N \in Nat \ {0}
  PROVE  \E kept : kept = [d \in 1 .. N |-> Kept(tree, N, d, kept[d + 1])]
<1> DEFINE From(j) == N - j + 1 .. N
           Solves(f, j) == DOMAIN f = From(j) /\ \A d \in From(j) : f[d] = Kept(tree, N, d, f[d + 1])
           Unsolved == {j \in 1 .. N : ~\E f : Solves(f, j)}
<1>1. Unsolved = {}
  <2> SUFFICES ASSUME Unsolved # {} PROVE FALSE
    OBVIOUS
  <2>1. PICK j \in Unsolved : \A i \in Unsolved : j <= i
    <3>1. Unsolved \in SUBSET Nat
      OBVIOUS
    <3> HIDE DEF Unsolved
    <3> QED
      BY <3>1, LeastNumber
  <2>2. j # 1
    <3> DEFINE f == [d \in From(1) |-> AtDepth(tree, d)]
    <3>1. From(1) = {N}
      OBVIOUS
    <3>2. Solves(f, 1)
      BY <3>1 DEF Kept
    <3> QED
      BY <3>2
  <2>3. PICK f : Solves(f, j - 1)
    BY <2>1, <2>2
  <2> DEFINE e == N - j + 1
             g == [d \in From(j) |-> IF d = e THEN Kept(tree, N, e, f[e + 1]) ELSE f[d]]
  <2>4. /\ e \in From(j) /\ From(j) = {e} \cup From(j - 1)
        /\ e \notin From(j - 1) /\ e # N /\ e + 1 \in From(j - 1)
        /\ \A d \in From(j - 1) : d = N \/ d + 1 \in From(j - 1)
    BY <2>1, <2>2
  <2>5. \A d \in From(j) : g[d] = Kept(tree, N, d, g[d + 1])
    <3> SUFFICES ASSUME NEW d \in From(j) PROVE g[d] = Kept(tree, N, d, g[d + 1])
      OBVIOUS
    <3>1. CASE d = e
      <4>1. g[e + 1] = f[e + 1] /\ g[e] = Kept(tree, N, e, f[e + 1])
        BY <2>4
      <4> QED
        BY <3>1, <4>1
    <3>2. CASE d = N
      <4>1. g[N] = f[N] /\ f[N] = Kept(tree, N, N, f[N + 1])
        BY <2>3, <2>4, <3>2
      <4> QED
        BY <3>2, <4>1 DEF Kept
    <3>3. CASE d # e /\ d # N
      <4>1. d \in From(j - 1) /\ d + 1 \in From(j - 1) /\ d + 1 # e
        BY <2>4, <3>3
      <4>2. g[d] = f[d] /\ g[d + 1] = f[d + 1]
        BY <2>4, <3>3, <4>1
      <4> QED
        BY <2>3, <4>1, <4>2
    <3> QED
      BY <3>1, <3>2, <3>3
  <2>6. Solves(g, j)
    BY <2>5
  <2> QED
    BY <2>1, <2>6
<1>2. PICK f : Solves(f, N)
  <2> HIDE DEF Unsolved
  <2>1. N \in 1 .. N /\ N \notin Unsolved
    BY <1>1
  <2> USE DEF Unsolved
  <2> HIDE DEF Solves
  <2> QED
    BY <2>1
<1>3. From(N) = 1 .. N
  OBVIOUS
<1> DEFINE g == [d \in 1 .. N |-> f[d]]
<1>4. \A d \in 1 .. N : d = N \/ d + 1 \in 1 .. N
  OBVIOUS
<1>5. g = [d \in 1 .. N |-> Kept(tree, N, d, g[d + 1])]
  <2>1. \A d \in 1 .. N : g[d] = Kept(tree, N, d, g[d + 1])
    BY <1>2, <1>3, <1>4 DEF Kept
  <2> HIDE DEF g
  <2>2. DOMAIN g = 1 .. N /\ g = [d \in DOMAIN g |-> g[d]]
    BY DEF g
  <2> QED
    BY <2>1, <2>2
<1> QED
  BY <1>5

\* A pruned tree, level by level.
LEMMA PrunedLevels ==
  ASSUME NEW tree, NEW N \in Nat \ {0}
  PROVE  \E kept : /\ DOMAIN kept = 1 .. N
                   /\ \A d \in 1 .. N : kept[d] = Kept(tree, N, d, kept[d + 1])
                   /\ PrunePolicyTree(tree, N) = AtDepth(tree, 0) \cup UNION {kept[d] : d \in 1 .. N}
<1> DEFINE kept == CHOOSE f : f = [d \in 1 .. N |->
                     IF d = N THEN AtDepth(tree, d) ELSE {n \in AtDepth(tree, d) : HasChildIn(n, f[d + 1])}]
<1>1. PrunePolicyTree(tree, N) = AtDepth(tree, 0) \cup UNION {kept[d] : d \in 1 .. N}
  BY DEF PrunePolicyTree
<1>2. \E f : f = [d \in 1 .. N |->
                     IF d = N THEN AtDepth(tree, d) ELSE {n \in AtDepth(tree, d) : HasChildIn(n, f[d + 1])}]
  <2>1. PICK f : f = [d \in 1 .. N |-> Kept(tree, N, d, f[d + 1])]
    BY KeptExists
  <2>2. f = [d \in 1 .. N |->
                     IF d = N THEN AtDepth(tree, d) ELSE {n \in AtDepth(tree, d) : HasChildIn(n, f[d + 1])}]
    BY <2>1, Zenon DEF Kept
  <2> QED
    BY <2>2
<1>3. kept = [d \in 1 .. N |->
                     IF d = N THEN AtDepth(tree, d) ELSE {n \in AtDepth(tree, d) : HasChildIn(n, kept[d + 1])}]
  BY <1>2
<1> HIDE DEF kept
<1>4. DOMAIN kept = 1 .. N /\ \A d \in 1 .. N : kept[d] = Kept(tree, N, d, kept[d + 1])
  BY <1>3 DEF Kept
<1> QED
  BY <1>1, <1>4

\* Pruning takes nodes away, none of the root level, none of the lowest level and none on a path down to it.
LEMMA PruneFacts ==
  ASSUME NEW tree, NEW N \in Nat \ {0}
  PROVE  /\ PrunePolicyTree(tree, N) \subseteq tree
         /\ AtDepth(PrunePolicyTree(tree, N), 0) = AtDepth(tree, 0)
         /\ AtDepth(PrunePolicyTree(tree, N), N) = AtDepth(tree, N)
         /\ AtDepth(tree, N) = {} => \A n \in PrunePolicyTree(tree, N) : n.depth = 0
<1> DEFINE P == PrunePolicyTree(tree, N)
<1>1. PICK kept : /\ DOMAIN kept = 1 .. N
                  /\ \A d \in 1 .. N : kept[d] = Kept(tree, N, d, kept[d + 1])
                  /\ P = AtDepth(tree, 0) \cup UNION {kept[d] : d \in 1 .. N}
  BY PrunedLevels
<1> HIDE DEF P
<1>2. \A d \in 1 .. N : kept[d] \subseteq AtDepth(tree, d)
  BY <1>1 DEF Kept
<1>3. \A d \in 1 .. N : \A n \in kept[d] : n \in tree /\ n.depth = d
  BY <1>2 DEF AtDepth
<1>4. P \subseteq tree
  BY <1>1, <1>3 DEF AtDepth
<1>5. AtDepth(P, 0) = AtDepth(tree, 0)
  BY <1>1, <1>3 DEF AtDepth
<1>6. AtDepth(P, N) = AtDepth(tree, N)
  <2>1. kept[N] = AtDepth(tree, N)
    BY <1>1 DEF Kept
  <2>2. AtDepth(tree, N) \subseteq P
    BY <1>1, <2>1
  <2> QED
    BY <1>4, <2>2 DEF AtDepth
<1>7. ASSUME AtDepth(tree, N) = {}, NEW n \in P, n.depth # 0 PROVE FALSE
  <2> DEFINE Full == {j \in 0 .. N - 1 : kept[N - j] # {}}
  <2>1. Full # {}
    <3>1. PICK d \in 1 .. N : n \in kept[d]
      BY <1>1, <1>7 DEF AtDepth
    <3>2. N - d \in 0 .. N - 1 /\ N - (N - d) = d
      OBVIOUS
    <3> QED
      BY <3>1, <3>2
  <2>2. PICK j \in Full : \A i \in Full : j <= i
    <3>1. Full \in SUBSET Nat
      OBVIOUS
    <3> HIDE DEF Full
    <3> QED
      BY <2>1, <3>1, LeastNumber
  <2>3. j # 0
    BY <1>1, <1>7 DEF Kept
  <2>4. j - 1 \in 0 .. N - 1 /\ j - 1 \notin Full
    BY <2>2, <2>3
  <2>5. N - j \in 1 .. N /\ N - j # N /\ (N - j) + 1 = N - (j - 1)
    BY <2>2, <2>3
  <2>6. kept[(N - j) + 1] = {}
    BY <2>4, <2>5
  <2>7. kept[N - j] = {x \in AtDepth(tree, N - j) : HasChildIn(x, kept[(N - j) + 1])}
    BY <1>1, <2>5 DEF Kept
  <2> QED
    BY <2>2, <2>6, <2>7 DEF HasChildIn
<1> QED
  BY <1>4, <1>5, <1>6, <1>7 DEF P

\* Each node of a path down to the lowest level expects the policy of the next.
LEMMA PrunedPath ==
  ASSUME NEW tree, NEW N \in Nat \ {0}, NEW g,
         \A d \in 1 .. N : g[d] \in AtDepth(tree, d),
         \A d \in 1 .. N - 1 : g[d + 1].valid_policy \in g[d].expected_policy_set
  PROVE  \A d \in 1 .. N : g[d] \in PrunePolicyTree(tree, N)
<1>1. PICK kept : /\ DOMAIN kept = 1 .. N
                  /\ \A d \in 1 .. N : kept[d] = Kept(tree, N, d, kept[d + 1])
                  /\ PrunePolicyTree(tree, N) = AtDepth(tree, 0) \cup UNION {kept[d] : d \in 1 .. N}
  BY PrunedLevels
<1> DEFINE Lost == {j \in 0 .. N - 1 : g[N - j] \notin kept[N - j]}
<1>2. Lost = {}
  <2> SUFFICES ASSUME Lost # {} PROVE FALSE
    OBVIOUS
  <2>1. PICK j \in Lost : \A i \in Lost : j <= i
    <3>1. Lost \in SUBSET Nat
      OBVIOUS
    <3> HIDE DEF Lost
    <3> QED
      BY <3>1, LeastNumber
  <2>2. j # 0
    BY <1>1 DEF Kept
  <2>3. j - 1 \in 0 .. N - 1 /\ j - 1 \notin Lost
    BY <2>1, <2>2
  <2>4. N - j \in 1 .. N - 1 /\ (N - j) + 1 = N - (j - 1)
    BY <2>1, <2>2
  <2>5. g[(N - j) + 1] \in kept[(N - j) + 1]
    BY <2>3, <2>4
  <2>6. HasChildIn(g[N - j], kept[(N - j) + 1])
    BY <2>4, <2>5 DEF HasChildIn
  <2>7. kept[N - j] = {x \in AtDepth(tree, N - j) : HasChildIn(x, kept[(N - j) + 1])}
    BY <1>1, <2>4 DEF Kept
  <2>8. g[N - j] \in kept[N - j]
    BY <2>4, <2>6, <2>7
  <2> QED
    BY <2>1, <2>8
<1>3. ASSUME NEW d \in 1 .. N PROVE g[d] \in kept[d]
  <2>1. N - d \in 0 .. N - 1 /\ N - (N - d) = d
    OBVIOUS
  <2> QED
    BY <1>2, <2>1
<1> QED
  BY <1>1, <1>3

\* The NULL check after pruning: the tree is gone exactly if its lowest level is.
LEMMA PostPruned ==
  ASSUME NEW tree, NEW N \in Nat \ {0}, \A n \in tree : n.depth \in 0 .. N
  PROVE  LET P == PostOpPrune(tree, N)
         IN  /\ P \subseteq tree
             /\ P = Collapse(PrunePolicyTree(tree, N))
             /\ AtDepth(P, N) = AtDepth(tree, N)
             /\ P = {} <=> AtDepth(tree, N) = {}
             /\ P # {} => AtDepth(P, 0) = AtDepth(tree, 0)
<1> DEFINE P == PostOpPrune(tree, N)
           Q == PrunePolicyTree(tree, N)
<1>1. P = Collapse(Q)
  BY DEF PostOpPrune
<1> HIDE DEF P, Q
<1>2. /\ Q \subseteq tree /\ AtDepth(Q, 0) = AtDepth(tree, 0) /\ AtDepth(Q, N) = AtDepth(tree, N)
      /\ AtDepth(tree, N) = {} => \A n \in Q : n.depth = 0
  BY PruneFacts DEF Q
<1>3. CASE AtDepth(tree, N) = {}
  <2>1. P = {}
    BY <1>1, <1>2, <1>3 DEF Collapse, NullTree
  <2> QED
    BY <1>1, <1>3, <2>1 DEF AtDepth, P, Q
<1>4. CASE AtDepth(tree, N) # {}
  <2>1. \E n \in Q : n.depth >= 1
    BY <1>2, <1>4 DEF AtDepth
  <2>2. P = Q
    BY <1>1, <2>1 DEF Collapse
  <2>3. Q # {}
    BY <2>1
  <2> QED
    BY <1>1, <1>2, <1>4, <2>2, <2>3 DEF P, Q
<1> QED
  BY <1>3, <1>4

\* So a path down to the lowest level survives.
LEMMA PostPrunedPath ==
  ASSUME NEW tree, NEW N \in Nat \ {0}, \A n \in tree : n.depth \in 0 .. N, NEW g,
         \A d \in 1 .. N : g[d] \in AtDepth(tree, d),
         \A d \in 1 .. N - 1 : g[d + 1].valid_policy \in g[d].expected_policy_set
  PROVE  \A d \in 1 .. N : g[d] \in PostOpPrune(tree, N)
<1>1. \A d \in 1 .. N : g[d] \in PrunePolicyTree(tree, N)
  BY PrunedPath
<1>2. g[N] \in PrunePolicyTree(tree, N) /\ g[N].depth >= 1
  BY <1>1 DEF AtDepth
<1>3. PostOpPrune(tree, N) = PrunePolicyTree(tree, N)
  BY <1>2 DEF PostOpPrune, Collapse
<1> QED
  BY <1>1, <1>3

-----------------------------------------------------------------------------
(* Policy paths, position by position. *)

\* The positions of a chain are numbers.
LEMMA Positions ==
  ASSUME InputsOK
  PROVE  DOMAIN chain = 1 .. Len(chain) /\ Len(chain) \in Nat
BY InputsAssumption DEF InputsOK

\* A position, and the one above it.
LEMMA PositionAbove ==
  ASSUME InputsOK, NEW m \in DOMAIN chain
  PROVE  /\ m \in Nat /\ m > 0 /\ m <= Len(chain) /\ ~(m > Len(chain))
         /\ m # Len(chain) => m + 1 \in DOMAIN chain /\ ~(m + 1 > Len(chain)) /\ m + 1 <= Len(chain)
         /\ m = Len(chain) => m + 1 > Len(chain)
<1>1. PICK n \in Nat : n = Len(chain)
  BY Positions, Zenon
<1>2. DOMAIN chain = 1 .. n
  BY <1>1, Positions
<1>3. m \in 1 .. n
  BY <1>2
<1>4. m # n => m + 1 \in 1 .. n /\ ~(m + 1 > n) /\ m + 1 <= n
  BY <1>3
<1>5. m \in Nat /\ m > 0 /\ m <= n /\ ~(m > n) /\ m + 1 > m
  BY <1>3
<1> QED
  BY <1>1, <1>2, <1>4, <1>5

\* The policies the chain names are all that a node can carry or expect.
LEMMA Oids ==
  ASSUME InputsOK, NEW m \in DOMAIN chain
  PROVE  /\ AnyPolicy \in PolicyOids
         /\ \A p : Asserts(m, p) => p \in PolicyOids
         /\ \A x \in Mappings(m) : x[1] \in PolicyOids /\ x[2] \in PolicyOids
         /\ MappedFrom(m) \subseteq PolicyOids
         /\ \A p \in PolicyOids : Expected(m, p) \subseteq PolicyOids
<1> DEFINE Asserted == UNION {chain[i].cp : i \in {j \in DOMAIN chain : Present(chain[j].cp)}}
           All == UNION {Mappings(i) : i \in DOMAIN chain}
           Mapped == UNION {{x[1], x[2]} : x \in All}
<1>0. PolicyOids = Asserted \cup Mapped \cup {AnyPolicy}
  BY DEF PolicyOids
<1>1. AnyPolicy \in PolicyOids
  <2> HIDE DEF Asserted, Mapped
  <2> QED
    BY <1>0
<1>2. ASSUME NEW p, Asserts(m, p) PROVE p \in PolicyOids
  <2>1. p \in Asserted
    BY <1>2 DEF Asserts
  <2> HIDE DEF Asserted, Mapped
  <2> QED
    BY <1>0, <2>1
<1>3. ASSUME NEW x \in Mappings(m) PROVE x[1] \in PolicyOids /\ x[2] \in PolicyOids
  <2>1. x \in All
    OBVIOUS
  <2> HIDE DEF All
  <2>2. x[1] \in Mapped /\ x[2] \in Mapped
    BY <2>1
  <2> HIDE DEF Asserted, Mapped
  <2> QED
    BY <1>0, <2>2
<1>4. MappedFrom(m) \subseteq PolicyOids
  BY <1>3 DEF MappedFrom
<1>5. \A p \in PolicyOids : Expected(m, p) \subseteq PolicyOids
  BY <1>3 DEF Expected
<1> QED
  BY <1>1, <1>2, <1>3, <1>4, <1>5

\* What a path carries at m it carries below something that a path carries at m + 1.
LEMMA LeadsUp ==
  ASSUME InputsOK, NEW m \in DOMAIN chain, NEW f \in Leads(m)
  PROVE  /\ f \in Leads(m + 1) /\ f[m] \in PolicyOids /\ f[m] \in Ends(m)
         /\ Over(f, m) \in Ends(m + 1)
         /\ CarriesBelow(m, f[m], Over(f, m))
<1>1. DOMAIN chain = 1 .. Len(chain) /\ Len(chain) \in Nat /\ m \in m .. Len(chain)
  BY Positions
<1>2. m + 1 .. Len(chain) \subseteq m .. Len(chain)
  BY <1>1
<1>3. f \in Leads(m + 1)
  BY <1>2 DEF Leads
<1>4. f[m] \in PolicyOids /\ CarriesBelow(m, f[m], Over(f, m))
  BY <1>1 DEF Leads
<1>5. f[m] \in Ends(m)
  BY <1>1 DEF Ends
<1>6. Over(f, m) \in Ends(m + 1)
  <2>1. CASE m = Len(chain)
    BY <1>1, <2>1 DEF Over, Ends
  <2>2. CASE m # Len(chain)
    BY <1>1, <1>3, <2>2 DEF Over, Ends
  <2> QED
    BY <2>1, <2>2
<1> QED
  BY <1>3, <1>4, <1>5, <1>6

\* A path down to a position is one down to every position above it.
LEMMA LeadsFurtherUp ==
  ASSUME InputsOK, NEW m \in Nat, NEW i \in Nat, m <= i
  PROVE  Leads(m) \subseteq Leads(i)
<1>1. i .. Len(chain) \subseteq m .. Len(chain)
  BY Positions
<1> QED
  BY <1>1 DEF Leads

\* And it can be led on below.
LEMMA LeadsDown ==
  ASSUME InputsOK, NEW m \in DOMAIN chain, NEW g \in Leads(m + 1), NEW p \in PolicyOids,
         CarriesBelow(m, p, Over(g, m))
  PROVE  /\ [g EXCEPT ![m] = p] \in Leads(m)
         /\ \A i \in m + 1 .. Len(chain) : [g EXCEPT ![m] = p][i] = g[i]
         /\ [g EXCEPT ![m] = p][m] = p
<1> DEFINE f == [g EXCEPT ![m] = p]
<1>1. DOMAIN chain = 1 .. Len(chain) /\ Len(chain) \in Nat /\ m \in 1 .. Len(chain)
  BY Positions
<1>2. g \in [DOMAIN chain -> PolicyOids] /\ \A i \in m + 1 .. Len(chain) : CarriesBelow(i, g[i], Over(g, i))
  BY DEF Leads
<1>3. f \in [DOMAIN chain -> PolicyOids] /\ f[m] = p /\ \A i \in DOMAIN chain : i # m => f[i] = g[i]
  BY <1>2
<1> HIDE DEF f
<1>4. \A i \in m .. Len(chain) : Over(f, i) = Over(g, i)
  <2> SUFFICES ASSUME NEW i \in m .. Len(chain), i # Len(chain) PROVE f[i + 1] = g[i + 1]
    BY DEF Over
  <2>0. PICK n \in Nat : n = Len(chain) /\ DOMAIN chain = 1 .. n /\ m \in 1 .. n /\ i \in m .. n
    BY <1>1, Zenon
  <2>1. i \in DOMAIN chain /\ i + 1 # m
    BY <2>0
  <2>2. i + 1 \in DOMAIN chain
    BY <2>1, PositionAbove
  <2> QED
    BY <1>3, <2>1, <2>2
<1>5. \A i \in m + 1 .. Len(chain) : i \in DOMAIN chain /\ i # m
  BY <1>1
<1>6. \A i \in m .. Len(chain) : i = m \/ i \in m + 1 .. Len(chain)
  BY <1>1
<1>7. \A i \in m .. Len(chain) : CarriesBelow(i, f[i], Over(f, i))
  BY <1>2, <1>3, <1>4, <1>5, <1>6
<1>8. f \in Leads(m)
  BY <1>3, <1>7 DEF Leads
<1> QED
  BY <1>3, <1>5, <1>8 DEF f

\* What ends at m is what m carries below an end of m + 1.
LEMMA EndsStep ==
  ASSUME InputsOK, NEW m \in DOMAIN chain
  PROVE  Ends(m) = {p \in PolicyOids : \E q \in Ends(m + 1) : CarriesBelow(m, p, q)}
<1>1. DOMAIN chain = 1 .. Len(chain) /\ Len(chain) \in Nat
  BY Positions
<1>2. Ends(m) = {f[m] : f \in Leads(m)}
  BY <1>1 DEF Ends
<1>3. ASSUME NEW p \in Ends(m) PROVE p \in PolicyOids /\ \E q \in Ends(m + 1) : CarriesBelow(m, p, q)
  BY <1>2, LeadsUp
<1>4. ASSUME NEW p \in PolicyOids, NEW q \in Ends(m + 1), CarriesBelow(m, p, q) PROVE p \in Ends(m)
  <2>1. PICK g \in Leads(m + 1) : Over(g, m) = q
    <3>1. CASE m = Len(chain)
      <4>1. q = AnyPolicy /\ \A g : Over(g, m) = AnyPolicy
        BY <1>1, <3>1 DEF Ends, Over
      <4>2. [i \in DOMAIN chain |-> p] \in Leads(m + 1)
        BY <1>1, <3>1 DEF Leads
      <4> QED
        BY <4>1, <4>2
    <3>2. CASE m # Len(chain)
      BY <1>1, <3>2 DEF Ends, Over
    <3> QED
      BY <3>1, <3>2
  <2>2. [g EXCEPT ![m] = p] \in Leads(m) /\ [g EXCEPT ![m] = p][m] = p
    BY <1>4, <2>1, LeadsDown
  <2> QED
    BY <1>2, <2>2
<1> QED
  BY <1>3, <1>4

\* What a path carries, it carries already before the mappings of its position are looked at, unless they made it.
LEMMA CarriesSplit ==
  ASSUME NEW m, NEW p, NEW q, MapsNoAny(m)
  PROVE  CarriesBelow(m, p, q) <=>
           /\ p \in MappedFrom(m) => MappingActive(m)
           /\ \/ Admits(m, p, q)
              \/ p \in MappedFrom(m) /\ MappingActive(m) /\ Admits(m, AnyPolicy, q)
<1>1. AnyPolicy \notin MappedFrom(m)
  BY DEF MapsNoAny, MappedFrom
<1>2. CASE p = AnyPolicy
  BY <1>1, <1>2 DEF CarriesBelow, Carries, Admits
<1>3. CASE p # AnyPolicy
  BY <1>3 DEF CarriesBelow, Carries, Admits
<1> QED
  BY <1>2, <1>3

\* In any case there is something it was made from.
LEMMA CarriesFrom ==
  ASSUME NEW m, NEW p, NEW q, CarriesBelow(m, p, q)
  PROVE  Admits(m, p, q) \/ Admits(m, AnyPolicy, q)
BY DEF CarriesBelow, Carries, Admits

\* The ends of a position, from what has grown there.
LEMMA EndsMapped ==
  ASSUME InputsOK, NEW m \in DOMAIN chain, MapsNoAny(m)
  PROVE  Ends(m) = IF MappingActive(m)
                   THEN Grown(m) \cup (IF AnyPolicy \in Grown(m) THEN MappedFrom(m) ELSE {})
                   ELSE Grown(m) \ MappedFrom(m)
<1>1. Ends(m) = {p \in PolicyOids : \E q \in Ends(m + 1) : CarriesBelow(m, p, q)}
  BY EndsStep
<1>2. \A p, q : CarriesBelow(m, p, q) <=>
           /\ p \in MappedFrom(m) => MappingActive(m)
           /\ \/ Admits(m, p, q)
              \/ p \in MappedFrom(m) /\ MappingActive(m) /\ Admits(m, AnyPolicy, q)
  BY CarriesSplit
<1>3. MappedFrom(m) \subseteq PolicyOids /\ AnyPolicy \in PolicyOids
  BY Oids
<1>4. \A p : p \in Ends(m) <=>
           /\ p \in MappedFrom(m) => MappingActive(m)
           /\ p \in Grown(m) \/ (p \in MappedFrom(m) /\ MappingActive(m) /\ AnyPolicy \in Grown(m))
  BY <1>1, <1>2, <1>3 DEF Grown
<1> QED
  BY <1>4

\* Where nothing has grown, nothing ends.
LEMMA NoneGrown ==
  ASSUME InputsOK, NEW m \in DOMAIN chain, Grown(m) = {}
  PROVE  Ends(m) = {} /\ GrownPaths(m) = {}
<1>1. Ends(m) = {}
  BY EndsStep, CarriesFrom, Oids DEF Grown
<1>2. GrownPaths(m) \subseteq {f \in Leads(m + 1) : f[m] \in PolicyOids /\ Over(f, m) \in Ends(m + 1)}
  <2>1. \A f \in Leads(m + 1) : f[m] \in PolicyOids
    BY DEF Leads
  <2>2. ASSUME NEW f \in Leads(m + 1) PROVE Over(f, m) \in Ends(m + 1)
    <3>1. m + 1 > Len(chain) \/ m + 1 \in DOMAIN chain
      BY Positions
    <3>2. CASE m = Len(chain)
      BY <3>2, Positions DEF Over, Ends
    <3>3. CASE m # Len(chain)
      BY <3>1, <3>3, Positions DEF Over, Ends
    <3> QED
      BY <3>2, <3>3
  <2> QED
    BY <2>1, <2>2 DEF GrownPaths
<1> QED
  BY <1>1, <1>2 DEF Grown, GrownPaths

\* Where nothing ends, no path of the chain is.
LEMMA NoneEnds ==
  ASSUME InputsOK, NEW m \in DOMAIN chain, Ends(m) = {}
  PROVE  Leads(m) = {} /\ AcceptablePaths = {}
<1>1. Leads(m) = {}
  BY Positions DEF Ends
<1>2. Leads(1) \subseteq Leads(m)
  BY LeadsFurtherUp, Positions
<1>3. PolicyPaths \subseteq Leads(1)
  <2>1. ASSUME NEW f \in PolicyPaths, NEW i \in 1 .. Len(chain) PROVE CarriesBelow(i, f[i], Over(f, i))
    <3>1. DOMAIN chain = 1 .. Len(chain) /\ Len(chain) \in Nat
      BY Positions
    <3>2. CASE i = Len(chain)
      <4>1. Carries(i, f[i], AnyPolicy, {AnyPolicy})
        BY <3>1, <3>2 DEF PolicyPaths
      <4>2. Over(f, i) = AnyPolicy /\ ExpectedAt(i + 1, AnyPolicy) = {AnyPolicy}
        BY <3>1, <3>2 DEF Over, ExpectedAt
      <4> QED
        BY <4>1, <4>2 DEF CarriesBelow
    <3>3. CASE i # Len(chain)
      <4>1. Carries(i, f[i], f[i + 1], Expected(i + 1, f[i + 1]))
        BY <3>1, <3>3 DEF PolicyPaths
      <4>2. Over(f, i) = f[i + 1]
        BY <3>3 DEF Over
      <4>3. ~(i + 1 > Len(chain))
        BY <3>1, <3>3, PositionAbove
      <4>4. ExpectedAt(i + 1, f[i + 1]) = Expected(i + 1, f[i + 1])
        BY <4>3, Zenon DEF ExpectedAt
      <4> QED
        BY <4>1, <4>2, <4>4 DEF CarriesBelow
    <3> QED
      BY <3>2, <3>3
  <2> QED
    BY <2>1 DEF PolicyPaths, Leads
<1> QED
  BY <1>1, <1>2, <1>3 DEF AcceptablePaths

-----------------------------------------------------------------------------
(* What growing and mapping make of the tree. *)

\* Depths and positions count in opposite directions.
LEMMA Depths ==
  ASSUME InputsOK, NEW m \in DOMAIN chain
  PROVE  /\ Depth(m) \in Nat \ {0} /\ Depth(m + 1) = Depth(m) - 1
         /\ \A i \in m + 1 .. Len(chain) : Depth(i) \in 1 .. Depth(m) - 1 /\ i \in DOMAIN chain /\ i > m
         /\ \A e \in 1 .. Depth(m) : /\ Len(chain) - e + 1 \in m .. Len(chain)
                                     /\ Depth(Len(chain) - e + 1) = e
                                     /\ e = Depth(m) <=> Len(chain) - e + 1 = m
<1>1. PICK n \in Nat : n = Len(chain) /\ DOMAIN chain = 1 .. n
  BY Positions, Zenon
<1>2. m \in 1 .. n
  BY <1>1
<1>3. \A i : Depth(i) = n - i + 1
  BY <1>1 DEF Depth
<1>4. n - m + 1 \in Nat \ {0} /\ n - (m + 1) + 1 = (n - m + 1) - 1
  BY <1>2
<1>5. ASSUME NEW i \in m + 1 .. n PROVE n - i + 1 \in 1 .. (n - m + 1) - 1 /\ i \in 1 .. n /\ i > m
  BY <1>2
<1>6. ASSUME NEW e \in 1 .. n - m + 1
      PROVE  n - e + 1 \in m .. n /\ n - (n - e + 1) + 1 = e /\ (e = n - m + 1 <=> n - e + 1 = m)
  BY <1>2
<1> QED
  BY <1>1, <1>3, <1>4, <1>5, <1>6

\* The fields of a node.
LEMMA NodeFields ==
  /\ \A d, p, e : /\ PolicyNode(d, p, e).depth = d /\ PolicyNode(d, p, e).valid_policy = p
                  /\ PolicyNode(d, p, e).expected_policy_set = e
  /\ \A m, p : /\ Node(m, p).depth = Depth(m) /\ Node(m, p).valid_policy = p
               /\ Node(m, p).expected_policy_set = ExpectedAt(m, p)
BY DEF PolicyNode, Node

\* What ends at a position is a policy of the chain, and so is what it expects below.
LEMMA EndsAreOids ==
  ASSUME InputsOK, NEW m \in DOMAIN chain
  PROVE  /\ Ends(m + 1) \subseteq PolicyOids
         /\ \A q \in Ends(m + 1) : ExpectedAt(m + 1, q) \subseteq PolicyOids
<1>1. CASE m = Len(chain)
  <2>1. m + 1 > Len(chain)
    BY <1>1, PositionAbove
  <2>2. Ends(m + 1) = {AnyPolicy} /\ ExpectedAt(m + 1, AnyPolicy) = {AnyPolicy}
    BY <2>1 DEF Ends, ExpectedAt
  <2> QED
    BY <2>2, Oids
<1>2. CASE m # Len(chain)
  <2>1. m + 1 \in DOMAIN chain /\ ~(m + 1 > Len(chain))
    BY <1>2, PositionAbove
  <2>2. Ends(m + 1) \subseteq PolicyOids
    BY <2>1, EndsStep
  <2>3. \A q : ExpectedAt(m + 1, q) = Expected(m + 1, q)
    BY <2>1 DEF ExpectedAt
  <2> QED
    BY <2>1, <2>2, <2>3, Oids
<1> QED
  BY <1>1, <1>2

\* Only an anyPolicy node expects anyPolicy.
LEMMA AnyExpected ==
  ASSUME InputsOK, NEW m \in DOMAIN chain, m + 1 \in DOMAIN chain => MapsNoAny(m + 1)
  PROVE  \A q \in Ends(m + 1) : AnyPolicy \in ExpectedAt(m + 1, q) <=> q = AnyPolicy
<1>1. CASE m = Len(chain)
  <2>1. m + 1 > Len(chain)
    BY <1>1, PositionAbove
  <2> QED
    BY <2>1 DEF Ends, ExpectedAt
<1>2. CASE m # Len(chain)
  <2>1. m + 1 \in DOMAIN chain /\ ~(m + 1 > Len(chain))
    BY <1>2, PositionAbove
  <2>2. \A q : ExpectedAt(m + 1, q) = Expected(m + 1, q)
    BY <2>1 DEF ExpectedAt
  <2>3. \A q : AnyPolicy \in Expected(m + 1, q) <=> q = AnyPolicy
    BY <2>1 DEF Expected, MapsNoAny, MappedFrom
  <2> QED
    BY <2>2, <2>3
<1> QED
  BY <1>1, <1>2

\* 6.1.3 (d): the policies of the new level are those that have grown.
LEMMA LevelGrown ==
  ASSUME InputsOK, NEW m \in DOMAIN chain, m + 1 \in DOMAIN chain => MapsNoAny(m + 1),
         Present(chain[m].cp), NEW may, may <=> AnyUsable(m),
         NEW parents, parents = {Node(m + 1, q) : q \in Ends(m + 1)}
  PROVE  LET cp == chain[m].cp
             specific == {p \in cp \ {AnyPolicy} : Admitted(parents, p)}
         IN  Grown(m) = specific \cup (IF AnyPolicy \in cp /\ may
                                       THEN (UNION {n.expected_policy_set : n \in parents}) \ specific
                                       ELSE {})
<1> DEFINE cp == chain[m].cp
           all == UNION {n.expected_policy_set : n \in parents}
           specific == {p \in cp \ {AnyPolicy} : Admitted(parents, p)}
<1>1. \A p : Asserts(m, p) <=> p \in cp
  BY DEF Asserts
<1>2. AnyNode(m) <=> AnyPolicy \in cp /\ may
  BY <1>1 DEF AnyNode
<1>3. \A p : p \in all <=> \E q \in Ends(m + 1) : p \in ExpectedAt(m + 1, q)
  BY NodeFields
<1>4. \A p : Admitted(parents, p) <=> p \in all \/ AnyPolicy \in Ends(m + 1)
  BY <1>3, NodeFields DEF Admitted
<1>5. cp \subseteq PolicyOids /\ all \subseteq PolicyOids /\ Ends(m + 1) \subseteq PolicyOids
  BY <1>1, <1>3, Oids, EndsAreOids
<1>6. AnyPolicy \in all <=> AnyPolicy \in Ends(m + 1)
  BY <1>3, AnyExpected
<1> HIDE DEF all, cp
<1>7. \A p : p \in specific <=> p \in cp /\ p # AnyPolicy /\ (p \in all \/ AnyPolicy \in Ends(m + 1))
  BY <1>4
<1> HIDE DEF specific
<1>8. \A p : (\E q \in Ends(m + 1) : Admits(m, p, q)) <=>
               IF p = AnyPolicy THEN AnyPolicy \in Ends(m + 1) /\ AnyNode(m)
               ELSE \/ (Asserts(m, p) \/ AnyNode(m)) /\ p \in all
                    \/ Asserts(m, p) /\ AnyPolicy \in Ends(m + 1)
  BY <1>3 DEF Admits
<1>9. \A p : p \in Grown(m) <=>
               p \in specific \/ (AnyPolicy \in cp /\ may /\ p \in all)
  BY <1>1, <1>2, <1>5, <1>6, <1>7, <1>8 DEF Grown
<1>10. Grown(m) = specific \cup (IF AnyPolicy \in cp /\ may THEN all \ specific ELSE {})
  BY <1>9
<1> QED
  BY <1>10 DEF all, specific, cp

\* If no CA asserts anyPolicy, no path carries it above the leaf, and every node of a path expects the next.
LEMMA Unbroken ==
  ASSUME InputsOK, Unexpanded, NEW m \in DOMAIN chain, m # Len(chain), NEW f \in Leads(m + 1)
  PROVE  /\ f[m + 1] # AnyPolicy /\ Over(f, m) = f[m + 1]
         /\ \A p : Admits(m, p, f[m + 1]) \/ CarriesBelow(m, p, f[m + 1])
                     => p # AnyPolicy /\ p \in ExpectedAt(m + 1, f[m + 1])
<1>1. m + 1 \in DOMAIN chain /\ m + 1 > 1
  BY PositionAbove
<1>2. CarriesBelow(m + 1, f[m + 1], Over(f, m + 1))
  BY <1>1, LeadsUp
<1>3. m + 1 \in Above(1)
  <2>1. PICK n \in Nat : n = Len(chain) /\ DOMAIN chain = 1 .. n
    BY Positions, Zenon
  <2> QED
    BY <1>1, <2>1 DEF Above
<1>4. ~AnyNode(m + 1)
  BY <1>3 DEF Unexpanded, AnyNode
<1>5. f[m + 1] # AnyPolicy
  BY <1>2, <1>4 DEF CarriesBelow, Carries
<1>6. Over(f, m) = f[m + 1]
  BY DEF Over
<1>7. ASSUME NEW p, Admits(m, p, f[m + 1]) \/ CarriesBelow(m, p, f[m + 1])
      PROVE  p # AnyPolicy /\ p \in ExpectedAt(m + 1, f[m + 1])
  BY <1>5, <1>7 DEF Admits, CarriesBelow, Carries
<1> QED
  BY <1>5, <1>6, <1>7

\* So pruning from the level of m leaves the paths that still have a node there.
LEMMA PathsSurvive ==
  ASSUME InputsOK, Unexpanded, NEW m \in DOMAIN chain, NEW f \in Leads(m + 1),
         NEW tree, \A n \in tree : n.depth \in 0 .. Depth(m),
         \A i \in m + 1 .. Len(chain) : Node(i, f[i]) \in tree,
         NEW leaf \in AtDepth(tree, Depth(m)), leaf.valid_policy = f[m],
         m # Len(chain) => f[m] \in ExpectedAt(m + 1, f[m + 1])
  PROVE  \A i \in m + 1 .. Len(chain) : Node(i, f[i]) \in PostOpPrune(tree, Depth(m))
<1>1. PICK n \in Nat : n = Len(chain) /\ DOMAIN chain = 1 .. n
  BY Positions, Zenon
<1>2. PICK N \in Nat \ {0} : N = Depth(m)
  BY Depths
<1>3. /\ N = n - m + 1 /\ m \in 1 .. n
      /\ \A e \in 1 .. N : n - e + 1 \in m .. n /\ Depth(n - e + 1) = e /\ (e = N <=> n - e + 1 = m)
  BY <1>1, <1>2, Depths DEF Depth
<1> DEFINE Pos(e) == n - e + 1
           g == [e \in 1 .. N |-> IF e = N THEN leaf ELSE Node(Pos(e), f[Pos(e)])]
<1>4. ASSUME NEW e \in 1 .. N PROVE g[e] \in AtDepth(tree, e) /\ g[e].valid_policy = f[Pos(e)]
  <2>1. CASE e = N
    BY <1>2, <1>3, <2>1
  <2>2. CASE e # N
    <3>1. Pos(e) \in m + 1 .. n /\ Depth(Pos(e)) = e
      BY <1>3, <2>2
    <3>2. g[e] = Node(Pos(e), f[Pos(e)])
      BY <2>2
    <3> HIDE DEF Pos, g
    <3>3. g[e] \in tree
      BY <1>1, <3>1, <3>2
    <3> QED
      BY <3>1, <3>2, <3>3, NodeFields DEF AtDepth
  <2> QED
    BY <2>1, <2>2
<1>5. ASSUME NEW e \in 1 .. N - 1 PROVE g[e + 1].valid_policy \in g[e].expected_policy_set
  <2>1. /\ e \in 1 .. N /\ e + 1 \in 1 .. N /\ e # N
        /\ Pos(e) \in m + 1 .. n /\ Pos(e + 1) \in m .. n /\ Pos(e) = Pos(e + 1) + 1
    BY <1>3
  <2>2. g[e + 1].valid_policy = f[Pos(e + 1)] /\ g[e] = Node(Pos(e), f[Pos(e)])
    BY <1>4, <2>1
  <2>3. PICK i : i = Pos(e + 1) /\ i \in m .. n /\ i + 1 = Pos(e) /\ i \in DOMAIN chain /\ i # n
    <3>1. PICK i : i = Pos(e + 1)
      OBVIOUS
    <3>2. i \in m .. n /\ i + 1 = Pos(e)
      BY <2>1, <3>1
    <3> HIDE DEF Pos
    <3>3. i \in 1 .. n /\ i # n
      BY <1>3, <2>1, <3>2
    <3> QED
      BY <1>1, <3>1, <3>2, <3>3
  <2>4. f[i] \in ExpectedAt(i + 1, f[i + 1])
    <3>1. CASE i = m
      BY <1>1, <2>3, <3>1
    <3>2. CASE i # m
      <4>1. i \in m + 1 .. n
        BY <1>3, <2>3, <3>2
      <4>2. CarriesBelow(i, f[i], Over(f, i))
        BY <1>1, <4>1 DEF Leads
      <4>3. m + 1 \in Nat /\ i + 1 \in Nat /\ m + 1 <= i + 1
        BY <1>3, <4>1
      <4>4. f \in Leads(i + 1)
        BY <4>3, LeadsFurtherUp
      <4> QED
        BY <1>1, <2>3, <4>2, <4>4, Unbroken
    <3> QED
      BY <3>1, <3>2
  <2> HIDE DEF g, Pos
  <2> QED
    BY <2>2, <2>3, <2>4, NodeFields
<1>6. \A e \in 1 .. N : g[e] \in PostOpPrune(tree, N)
  <2> HIDE DEF g
  <2> QED
    BY <1>2, <1>4, <1>5, PostPrunedPath
<1>7. ASSUME NEW i \in m + 1 .. n PROVE Node(i, f[i]) \in PostOpPrune(tree, N)
  <2>1. n - i + 1 \in 1 .. N /\ n - i + 1 # N /\ Pos(n - i + 1) = i
    BY <1>3
  <2>2. g[n - i + 1] = Node(i, f[i])
    BY <2>1
  <2> QED
    BY <1>6, <2>1, <2>2
<1> QED
  BY <1>1, <1>2, <1>7

\* Where nothing grows, the NULL tree is right.
LEMMA NullIsGrown ==
  ASSUME InputsOK, NEW m \in DOMAIN chain, Grown(m) = {}
  PROVE  GrownIs({}, m) /\ LevelsAre({}, m, GrownPaths(m))
<1>1. GrownPaths(m) = {} /\ \A d : AtDepth({}, d) = {}
  BY NoneGrown DEF AtDepth
<1>2. {PolicyNode(Depth(m), p, {p}) : p \in Grown(m)} = {}
  OBVIOUS
<1>3. GrownIs({}, m)
  BY <1>1, <1>2 DEF GrownIs, Rooted
<1>4. LevelsAre({}, m, GrownPaths(m))
  BY <1>1 DEF LevelsAre
<1> QED
  BY <1>3, <1>4

\* GrowTree is pruning after adding the level that has grown.
LEMMA GrowthPrunes ==
  ASSUME InputsOK, NEW m \in DOMAIN chain, m + 1 \in DOMAIN chain => MapsNoAny(m + 1),
         Present(chain[m].cp), NEW may, may <=> AnyUsable(m), NEW tree, TreeIs(tree, m + 1)
  PROVE  GrowTree(tree, chain[m].cp, Depth(m), may) =
           PostOpPrune(tree \cup {PolicyNode(Depth(m), p, {p}) : p \in Grown(m)}, Depth(m))
<1> DEFINE cp == chain[m].cp
           parents == AtDepth(tree, Depth(m) - 1)
           specific == {p \in cp \ {AnyPolicy} : Admitted(parents, p)}
           expanded == IF AnyPolicy \in cp /\ may
                       THEN (UNION {n.expected_policy_set : n \in parents}) \ specific ELSE {}
<1>1. parents = {Node(m + 1, q) : q \in Ends(m + 1)}
  BY Depths DEF TreeIs
<1>2. Grown(m) = specific \cup expanded
  <2> HIDE DEF parents
  <2> QED
    BY <1>1, LevelGrown
<1>3. GrowTree(tree, cp, Depth(m), may) =
        PostOpPrune(tree \cup {PolicyNode(Depth(m), p, {p}) : p \in specific \cup expanded}, Depth(m))
  BY Zenon DEF GrowTree
<1> HIDE DEF specific, expanded, cp
<1> QED
  BY <1>2, <1>3 DEF cp

\* 6.1.3 (d): the tree after the certificate at m has had its say.
LEMMA TreeGrows ==
  ASSUME InputsOK, NEW m \in DOMAIN chain, m + 1 \in DOMAIN chain => MapsNoAny(m + 1),
         chain[m].cp # Malformed, NEW may, may <=> AnyUsable(m), NEW tree, TreeIs(tree, m + 1), NEW result_tree,
         result_tree = IF tree = NullTree \/ chain[m].cp = Absent THEN NullTree
                       ELSE GrowTree(tree, chain[m].cp, Depth(m), may)
  PROVE  /\ GrownIs(result_tree, m)
         /\ Unexpanded /\ LevelsAre(tree, m + 1, Leads(m + 1)) => LevelsAre(result_tree, m, GrownPaths(m))
<1>1. CASE tree = NullTree \/ chain[m].cp = Absent
  <2>3. Grown(m) = {}
    <3>1. CASE tree = NullTree
      BY <3>1 DEF TreeIs, Grown, NullTree
    <3>2. CASE chain[m].cp = Absent
      BY <3>2 DEF Grown, Admits, AnyNode, Asserts, Present
    <3> QED
      BY <1>1, <3>1, <3>2
  <2>4. result_tree = {}
    BY <1>1 DEF NullTree
  <2> QED
    BY <2>3, <2>4, NullIsGrown
<1>2. CASE ~(tree = NullTree \/ chain[m].cp = Absent)
  <2> DEFINE level == {PolicyNode(Depth(m), p, {p}) : p \in Grown(m)}
             grown == tree \cup level
  <2>1. result_tree = PostOpPrune(grown, Depth(m))
    BY <1>2, GrowthPrunes DEF Present
  <2>2. tree # {}
    BY <1>2 DEF NullTree
  <2>a. \A n \in level : n.depth = Depth(m)
    BY DEF PolicyNode
  <2>b. grown = tree \cup level
    OBVIOUS
  <2> HIDE DEF level, grown
  <2>3. /\ \A n \in grown : n.depth \in 0 .. Depth(m)
        /\ AtDepth(grown, Depth(m)) = level
        /\ \A d \in 0 .. Depth(m) - 1 : AtDepth(grown, d) = AtDepth(tree, d)
    <3>1. PICK N \in Nat \ {0} : N = Depth(m) /\ Depth(m + 1) = N - 1
      BY Depths
    <3>2. \A n \in tree : n.depth \in 0 .. N - 1
      BY <3>1 DEF TreeIs, Rooted
    <3>3. \A n \in level : n.depth = N
      BY <2>a, <3>1
    <3>4. \A n \in grown : n.depth \in 0 .. N
      BY <2>b, <3>2, <3>3
    <3>5. AtDepth(grown, N) = level
      BY <2>b, <3>2, <3>3 DEF AtDepth
    <3>6. ASSUME NEW d \in 0 .. N - 1 PROVE AtDepth(grown, d) = AtDepth(tree, d)
      BY <2>b, <3>3 DEF AtDepth
    <3> QED
      BY <3>1, <3>4, <3>5, <3>6
  <2>4. Depth(m) \in Nat \ {0} /\ Depth(m + 1) = Depth(m) - 1
    BY Depths
  <2>5. /\ result_tree \subseteq grown /\ AtDepth(result_tree, Depth(m)) = level
        /\ result_tree = {} <=> level = {}
        /\ result_tree # {} => AtDepth(result_tree, 0) = AtDepth(grown, 0)
    BY <2>1, <2>3, <2>4, PostPruned
  <2>6. 0 \in 0 .. Depth(m) - 1
    BY <2>4
  <2>7. AtDepth(grown, 0) = InitPolicyTree
    BY <2>2, <2>3, <2>6 DEF TreeIs, Rooted
  <2>8. GrownIs(result_tree, m)
    <3>1. level = {} <=> Grown(m) = {}
      BY DEF level
    <3> QED
      BY <2>3, <2>5, <2>7, <3>1 DEF GrownIs, Rooted, level
  <2>9. ASSUME Unexpanded, LevelsAre(tree, m + 1, Leads(m + 1)), NEW i \in m + 1 .. Len(chain)
        PROVE  /\ \A f \in GrownPaths(m) : Node(i, f[i]) \in result_tree
               /\ AtDepth(result_tree, Depth(i)) \subseteq {Node(i, p) : p \in Ends(i)}
    <3>0. PICK n \in Nat : n = Len(chain) /\ DOMAIN chain = 1 .. n
      BY Positions, Zenon
    <3>1. \A j \in m + 1 .. n : j = m + 1 \/ j \in m + 1 + 1 .. n
      BY <3>0
    <3>2. \A j \in m + 1 .. n : AtDepth(tree, Depth(j)) \subseteq {Node(j, p) : p \in Ends(j)}
      BY <2>9, <3>0, <3>1 DEF LevelsAre, TreeIs
    <3>3. AtDepth(result_tree, Depth(i)) \subseteq {Node(i, p) : p \in Ends(i)}
      <4>1. Depth(i) \in 0 .. Depth(m) - 1
        BY <2>4, Depths
      <4>2. AtDepth(result_tree, Depth(i)) \subseteq AtDepth(tree, Depth(i))
        BY <2>3, <2>5, <4>1 DEF AtDepth
      <4> QED
        BY <3>0, <3>2, <4>2
    <3>4. ASSUME NEW f \in GrownPaths(m) PROVE Node(i, f[i]) \in result_tree
      <4>1. f \in Leads(m + 1) /\ Admits(m, f[m], Over(f, m))
        BY <3>4 DEF GrownPaths
      <4>2. \A j \in m + 1 .. n : Node(j, f[j]) \in tree
        <5>1. ASSUME NEW j \in m + 1 .. n, j = m + 1 PROVE Node(j, f[j]) \in tree
          <6>1. m # Len(chain) /\ ~(m + 1 > Len(chain))
            BY <3>0, <5>1
          <6>2. f[m + 1] \in Ends(m + 1)
            BY <4>1, <6>1, Zenon DEF Ends
          <6> QED
            BY <5>1, <6>2 DEF TreeIs, AtDepth
        <5>2. ASSUME NEW j \in m + 1 + 1 .. n PROVE Node(j, f[j]) \in tree
          BY <2>9, <3>0, <4>1 DEF LevelsAre
        <5> QED
          BY <3>1, <5>1, <5>2
      <4>3. \A j \in m + 1 .. Len(chain) : Node(j, f[j]) \in grown
        BY <3>0, <4>2 DEF grown
      <4>4. f[m] \in Grown(m)
        <5>1. f[m] \in PolicyOids
          BY <4>1 DEF Leads
        <5>2. Over(f, m) \in Ends(m + 1)
          BY <4>1, PositionAbove DEF Over, Ends
        <5> QED
          BY <4>1, <5>1, <5>2 DEF Grown
      <4> DEFINE leaf == PolicyNode(Depth(m), f[m], {f[m]})
      <4>5. leaf \in AtDepth(grown, Depth(m)) /\ leaf.valid_policy = f[m]
        <5>1. leaf \in level
          BY <4>4 DEF level
        <5>2. leaf.valid_policy = f[m]
          BY NodeFields
        <5> HIDE DEF leaf
        <5> QED
          BY <2>3, <5>1, <5>2
      <4>6. m # Len(chain) => f[m] \in ExpectedAt(m + 1, f[m + 1])
        BY <2>9, <4>1, Unbroken
      <4> HIDE DEF leaf
      <4>7. Node(i, f[i]) \in PostOpPrune(grown, Depth(m))
        BY <2>3, <2>9, <4>1, <4>3, <4>5, <4>6, PathsSurvive
      <4> QED
        BY <2>1, <4>7
    <3> QED
      BY <3>3, <3>4
  <2> QED
    BY <2>8, <2>9 DEF LevelsAre
<1> QED
  BY <1>1, <1>2

-----------------------------------------------------------------------------
(* Mappings: what the first i of them make of a level that holds the policies of grown. *)

MapsFrom(pm, i) == {pm[j][1] : j \in 1 .. i}

MapsTo(pm, i, p) == IF p \in MapsFrom(pm, i) THEN {pm[l][2] : l \in {j \in 1 .. i : pm[j][1] = p}} ELSE {p}

MapsHave(pm, i, grown) == grown \cup (IF AnyPolicy \in grown THEN MapsFrom(pm, i) ELSE {})

MapsLevel(pm, i, d, grown) == {PolicyNode(d, p, MapsTo(pm, i, p)) : p \in MapsHave(pm, i, grown)}

\* A list of mappings none of which involves anyPolicy or takes back an identity.
MapsCleanly(pm) ==
  /\ Len(pm) \in Nat
  /\ \A i \in 1 .. Len(pm) : AnyPolicy \notin {pm[i][1], pm[i][2]}
  /\ \A i, j \in 1 .. Len(pm) : (i < j /\ pm[i][2] = pm[i][1] /\ pm[j][1] = pm[i][1]) => pm[j][2] = pm[i][2]

\* One mapping more.
LEMMA MapsOneMore ==
  ASSUME NEW pm, MapsCleanly(pm), NEW i \in 1 .. Len(pm), NEW grown
  PROVE  LET a == pm[i][1]
             b == pm[i][2]
         IN  /\ MapsTo(pm, i, a) = (MapsTo(pm, i - 1, a) \ {a}) \cup {b}
             /\ \A p : p # a => MapsTo(pm, i, p) = MapsTo(pm, i - 1, p)
             /\ MapsHave(pm, i, grown) = MapsHave(pm, i - 1, grown) \cup (IF AnyPolicy \in grown THEN {a} ELSE {})
             /\ AnyPolicy \in MapsHave(pm, i - 1, grown) <=> AnyPolicy \in grown
             /\ a \notin MapsHave(pm, i - 1, grown) /\ AnyPolicy \in grown => MapsTo(pm, i, a) = {b}
<1> DEFINE a == pm[i][1]
           b == pm[i][2]
<1>0. Len(pm) \in Nat
  BY DEF MapsCleanly
<1>1. \A j : j \in 1 .. i <=> j \in 1 .. i - 1 \/ j = i
  BY <1>0
<1>2. MapsFrom(pm, i) = MapsFrom(pm, i - 1) \cup {a}
  BY <1>1 DEF MapsFrom
<1>3. \A p : p # a => MapsTo(pm, i, p) = MapsTo(pm, i - 1, p)
  <2> SUFFICES ASSUME NEW p, p # a PROVE MapsTo(pm, i, p) = MapsTo(pm, i - 1, p)
    OBVIOUS
  <2>1. p \in MapsFrom(pm, i) <=> p \in MapsFrom(pm, i - 1)
    BY <1>2
  <2>2. {j \in 1 .. i : pm[j][1] = p} = {j \in 1 .. i - 1 : pm[j][1] = p}
    BY <1>1
  <2> QED
    BY <2>1, <2>2 DEF MapsTo
<1> DEFINE old == {j \in 1 .. i - 1 : pm[j][1] = a}
<1>4. {j \in 1 .. i : pm[j][1] = a} = old \cup {i}
  BY <1>1
<1>5. MapsTo(pm, i, a) = {pm[l][2] : l \in old} \cup {b}
  <2>1. MapsTo(pm, i, a) = {pm[l][2] : l \in {j \in 1 .. i : pm[j][1] = a}}
    BY <1>2 DEF MapsTo
  <2> QED
    BY <1>4, <2>1
<1>8. MapsTo(pm, i, a) = (MapsTo(pm, i - 1, a) \ {a}) \cup {b}
  <2>1. CASE a \in MapsFrom(pm, i - 1)
    <3>1. MapsTo(pm, i - 1, a) = {pm[l][2] : l \in old}
      BY <2>1 DEF MapsTo
    <3>2. ASSUME NEW l \in old, pm[l][2] = a PROVE b = a
      <4>1. l \in 1 .. Len(pm) /\ l < i /\ pm[l][1] = a
        BY <1>0
      <4> QED
        BY <3>2, <4>1 DEF MapsCleanly
    <3> QED
      BY <1>5, <3>1, <3>2
  <2>2. CASE a \notin MapsFrom(pm, i - 1)
    <3>1. MapsTo(pm, i - 1, a) = {a} /\ old = {}
      BY <2>2 DEF MapsTo, MapsFrom
    <3> QED
      BY <1>5, <3>1
  <2> QED
    BY <2>1, <2>2
<1>9. MapsHave(pm, i, grown) = MapsHave(pm, i - 1, grown) \cup (IF AnyPolicy \in grown THEN {a} ELSE {})
  BY <1>2 DEF MapsHave
<1>10. AnyPolicy \in MapsHave(pm, i - 1, grown) <=> AnyPolicy \in grown
  <2>1. \A j \in 1 .. i - 1 : j \in 1 .. Len(pm)
    BY <1>0
  <2> QED
    BY <2>1 DEF MapsHave, MapsFrom, MapsCleanly
<1>11. a \notin MapsHave(pm, i - 1, grown) /\ AnyPolicy \in grown => MapsTo(pm, i, a) = {b}
  BY <1>8 DEF MapsHave, MapsTo
<1> QED
  BY <1>3, <1>8, <1>9, <1>10, <1>11

\* 6.1.4 (b)(1), one mapping.
LEMMA MappingApplied ==
  ASSUME NEW pm, MapsCleanly(pm), NEW i \in 1 .. Len(pm), NEW grown, NEW d, NEW upper, \A n \in upper : n.depth # d
  PROVE  ApplyMapping(upper \cup MapsLevel(pm, i - 1, d, grown), d, pm[i]) = upper \cup MapsLevel(pm, i, d, grown)
<1> DEFINE a == pm[i][1]
           b == pm[i][2]
           old == MapsLevel(pm, i - 1, d, grown)
           new == MapsLevel(pm, i, d, grown)
           tree == upper \cup old
           mapped == {n \in AtDepth(tree, d) : n.valid_policy = a}
           remap(n) == [n EXCEPT !.expected_policy_set = (@ \ {a}) \cup {b}]
           was == PolicyNode(d, a, MapsTo(pm, i - 1, a))
           is == PolicyNode(d, a, MapsTo(pm, i, a))
<1> SUFFICES ApplyMapping(tree, d, pm[i]) = upper \cup new
  OBVIOUS
<1>1. /\ MapsTo(pm, i, a) = (MapsTo(pm, i - 1, a) \ {a}) \cup {b}
      /\ \A p : p # a => MapsTo(pm, i, p) = MapsTo(pm, i - 1, p)
      /\ MapsHave(pm, i, grown) = MapsHave(pm, i - 1, grown) \cup (IF AnyPolicy \in grown THEN {a} ELSE {})
      /\ AnyPolicy \in MapsHave(pm, i - 1, grown) <=> AnyPolicy \in grown
      /\ a \notin MapsHave(pm, i - 1, grown) /\ AnyPolicy \in grown => MapsTo(pm, i, a) = {b}
  BY MapsOneMore
<1>2. ApplyMapping(tree, d, pm[i]) =
        IF mapped # {} THEN (tree \ mapped) \cup {remap(n) : n \in mapped}
        ELSE IF AnyPolicy \in PoliciesAt(tree, d) THEN tree \cup {PolicyNode(d, a, {b})} ELSE tree
  BY Zenon DEF ApplyMapping
<1>3. /\ \A n : n \in old <=> \E p \in MapsHave(pm, i - 1, grown) : n = PolicyNode(d, p, MapsTo(pm, i - 1, p))
      /\ \A n : n \in new <=> \E p \in MapsHave(pm, i, grown) : n = PolicyNode(d, p, MapsTo(pm, i, p))
  BY DEF MapsLevel
<1>4. remap(was) = is
  <2>1. \A e, x : [PolicyNode(d, a, e) EXCEPT !.expected_policy_set = x] = PolicyNode(d, a, x)
    BY DEF PolicyNode
  <2>2. remap(was) = [was EXCEPT !.expected_policy_set = (was.expected_policy_set \ {a}) \cup {b}]
    BY Zenon
  <2>3. was.expected_policy_set = MapsTo(pm, i - 1, a)
    BY NodeFields
  <2> HIDE DEF remap
  <2> QED
    BY <1>1, <2>1, <2>2, <2>3
<1>5. \A n \in old : n.depth = d
  BY <1>3, NodeFields
<1> HIDE DEF old, new
<1>6. AtDepth(tree, d) = old
  BY <1>5 DEF AtDepth
<1>7. \A n \in old : n.valid_policy = a <=> (n = was /\ a \in MapsHave(pm, i - 1, grown))
  BY <1>3, NodeFields
<1>8. a \in MapsHave(pm, i - 1, grown) => was \in old
  BY <1>3
<1>9. was.valid_policy = a /\ is.valid_policy = a /\ was.depth = d
  BY NodeFields
<1>10. \A n : n.valid_policy # a => (n \in old <=> n \in new)
  BY <1>1, <1>3, NodeFields
<1>11. \A n : n.valid_policy = a => (n \in new <=> n = is /\ a \in MapsHave(pm, i, grown))
  BY <1>3, NodeFields
<1>12. CASE a \in MapsHave(pm, i - 1, grown)
  <2>1. mapped = {was}
    BY <1>6, <1>7, <1>8, <1>9, <1>12
  <2> HIDE DEF mapped, was, is
  <2>2. {remap(n) : n \in mapped} = {is}
    BY <1>4, <2>1
  <2> HIDE DEF remap
  <2>3. ApplyMapping(tree, d, pm[i]) = (tree \ {was}) \cup {is}
    BY <1>2, <2>1, <2>2
  <2>4. was \notin upper
    BY <1>9
  <2>5. a \in MapsHave(pm, i, grown)
    BY <1>1, <1>12
  <2>6. ASSUME NEW n PROVE n \in new <=> (n \in old /\ n # was) \/ n = is
    <3>1. CASE n.valid_policy = a
      BY <1>7, <1>11, <1>12, <2>5, <3>1
    <3>2. CASE n.valid_policy # a
      BY <1>9, <1>10, <3>2
    <3> QED
      BY <3>1, <3>2
  <2> QED
    BY <2>3, <2>4, <2>6
<1>13. CASE a \notin MapsHave(pm, i - 1, grown)
  <2>1. mapped = {}
    BY <1>6, <1>7, <1>13
  <2>2. AnyPolicy \in PoliciesAt(tree, d) <=> AnyPolicy \in grown
    BY <1>1, <1>3, <1>6, NodeFields DEF PoliciesAt
  <2> HIDE DEF mapped
  <2>3. CASE AnyPolicy \in grown
    <3>1. ApplyMapping(tree, d, pm[i]) = tree \cup {is}
      BY <1>1, <1>2, <1>13, <2>1, <2>2, <2>3
    <3>2. a \in MapsHave(pm, i, grown)
      BY <1>1, <2>3
    <3> HIDE DEF is
    <3>3. ASSUME NEW n PROVE n \in new <=> n \in old \/ n = is
      <4>1. CASE n.valid_policy = a
        BY <1>7, <1>11, <1>13, <3>2, <4>1
      <4>2. CASE n.valid_policy # a
        BY <1>9, <1>10, <4>2
      <4> QED
        BY <4>1, <4>2
    <3> QED
      BY <3>1, <3>3
  <2>4. CASE AnyPolicy \notin grown
    <3>1. ApplyMapping(tree, d, pm[i]) = tree
      BY <1>2, <2>1, <2>2, <2>4
    <3>2. a \notin MapsHave(pm, i, grown)
      BY <1>1, <1>13, <2>4
    <3>3. ASSUME NEW n PROVE n \in new <=> n \in old
      <4>1. CASE n.valid_policy = a
        BY <1>7, <1>11, <1>13, <3>2, <4>1
      <4>2. CASE n.valid_policy # a
        BY <1>10, <4>2
      <4> QED
        BY <4>1, <4>2
    <3> QED
      BY <3>1, <3>3
  <2> QED
    BY <2>3, <2>4
<1> QED
  BY <1>12, <1>13

\* 6.1.4 (b)(1), one mapping after the other.
LEMMA MappingsApplied ==
  ASSUME NEW pm, MapsCleanly(pm), NEW grown, NEW d, NEW upper, \A n \in upper : n.depth # d
  PROVE  ApplyMappings(upper \cup MapsLevel(pm, 0, d, grown), d, pm) = upper \cup MapsLevel(pm, Len(pm), d, grown)
<1> DEFINE T(i) == upper \cup MapsLevel(pm, i, d, grown)
           Step1(f, i) == IF i = 0 THEN T(0) ELSE ApplyMapping(f[i - 1], d, pm[i])
           applied == CHOOSE f : f = [i \in 0 .. Len(pm) |-> Step1(f, i)]
<1>1. Len(pm) \in Nat
  BY DEF MapsCleanly
<1>2. \A i \in 1 .. Len(pm) : ApplyMapping(T(i - 1), d, pm[i]) = T(i)
  BY MappingApplied
<1>3. ApplyMappings(T(0), d, pm) = applied[Len(pm)]
  BY Zenon DEF ApplyMappings
<1> HIDE DEF T
<1>4. \E f : f = [i \in 0 .. Len(pm) |-> Step1(f, i)]
  <2> DEFINE g == [i \in 0 .. Len(pm) |-> T(i)]
  <2>1. \A i \in 0 .. Len(pm) : i # 0 => i \in 1 .. Len(pm) /\ i - 1 \in 0 .. Len(pm)
    BY <1>1
  <2>2. \A i \in 0 .. Len(pm) : g[i] = Step1(g, i)
    BY <1>2, <2>1
  <2> HIDE DEF Step1
  <2>3. g = [i \in 0 .. Len(pm) |-> Step1(g, i)]
    BY <2>2
  <2> HIDE DEF g
  <2> QED
    BY <2>3
<1>5. applied = [i \in 0 .. Len(pm) |-> Step1(applied, i)]
  BY <1>4, Zenon
<1> HIDE DEF applied
<1>6. \A i \in 0 .. Len(pm) : applied[i] = Step1(applied, i)
  <2> HIDE DEF Step1
  <2> QED
    BY <1>5
<1> DEFINE Wrong == {i \in 0 .. Len(pm) : applied[i] # T(i)}
<1>7. Wrong = {}
  <2> SUFFICES ASSUME Wrong # {} PROVE FALSE
    OBVIOUS
  <2>1. PICK i \in Wrong : \A j \in Wrong : i <= j
    <3>1. Wrong \in SUBSET Nat
      BY <1>1
    <3> HIDE DEF Wrong
    <3> QED
      BY <3>1, LeastNumber
  <2>2. i # 0
    BY <1>1, <1>6
  <2>3. i \in 1 .. Len(pm) /\ i - 1 \in 0 .. Len(pm) /\ i - 1 \notin Wrong
    BY <1>1, <2>1, <2>2
  <2>4. applied[i - 1] = T(i - 1) /\ applied[i] = ApplyMapping(applied[i - 1], d, pm[i])
    BY <1>6, <2>2, <2>3
  <2> QED
    BY <1>2, <2>1, <2>3, <2>4
<1>8. applied[Len(pm)] = T(Len(pm))
  BY <1>1, <1>7
<1> QED
  BY <1>3, <1>8 DEF T

\* The mappings of a certificate, if there are any.
LEMMA MappingsOf ==
  ASSUME InputsOK, NEW m \in DOMAIN chain, m > 1, Present(chain[m].pm)
  PROVE  LET pm == chain[m].pm
         IN  /\ MapsNoAny(m) /\ IdentitiesLast => MapsCleanly(pm)
             /\ {x[1] : x \in Range(pm)} = MappedFrom(m)
             /\ Len(pm) \in Nat
             /\ MapsFrom(pm, Len(pm)) = MappedFrom(m)
             /\ \A p : MapsTo(pm, Len(pm), p) = Expected(m, p)
<1> DEFINE pm == chain[m].pm
<1>1. Len(pm) \in Nat /\ DOMAIN pm = 1 .. Len(pm)
  BY MappingsAssumption DEF InputsOK
<1>2. Mappings(m) = Range(pm) /\ \A x : x \in Mappings(m) <=> \E i \in 1 .. Len(pm) : x = pm[i]
  BY <1>1 DEF Mappings, Range
<1>3. MapsFrom(pm, Len(pm)) = MappedFrom(m) /\ {x[1] : x \in Range(pm)} = MappedFrom(m)
  BY <1>2 DEF MapsFrom, MappedFrom
<1>4. ASSUME NEW p PROVE MapsTo(pm, Len(pm), p) = Expected(m, p)
  <2>1. {pm[l][2] : l \in {j \in 1 .. Len(pm) : pm[j][1] = p}} = {x[2] : x \in {y \in Mappings(m) : y[1] = p}}
    BY <1>2
  <2> QED
    BY <1>3, <2>1 DEF MapsTo, Expected
<1>5. ASSUME MapsNoAny(m), IdentitiesLast PROVE MapsCleanly(pm)
  <2>1. m \in Above(1)
    <3>1. PICK n \in Nat : n = Len(chain) /\ DOMAIN chain = 1 .. n
      BY Positions, Zenon
    <3> QED
      BY <3>1 DEF Above
  <2>2. \A i \in 1 .. Len(pm) : AnyPolicy \notin {pm[i][1], pm[i][2]}
    BY <1>2, <1>5 DEF MapsNoAny
  <2>3. \A i, j \in 1 .. Len(pm) : (i < j /\ pm[i][2] = pm[i][1] /\ pm[j][1] = pm[i][1]) => pm[j][2] = pm[i][2]
    BY <1>1, <1>5, <2>1 DEF IdentitiesLast
  <2> QED
    BY <1>1, <2>2, <2>3 DEF MapsCleanly
<1> QED
  BY <1>1, <1>3, <1>4, <1>5

\* A tree whose lowest level has grown is not collapsed.
LEMMA GrownStays ==
  ASSUME InputsOK, NEW m \in DOMAIN chain, NEW tree, GrownIs(tree, m)
  PROVE  PostOpPrune(tree, 0) = tree
<1>1. PostOpPrune(tree, 0) = Collapse(tree)
  BY DEF PostOpPrune
<1>2. CASE tree = {}
  BY <1>1, <1>2 DEF Collapse, NullTree
<1>3. CASE tree # {}
  <2>1. PICK p \in Grown(m) : PolicyNode(Depth(m), p, {p}) \in tree
    BY <1>3 DEF GrownIs, AtDepth
  <2>2. PolicyNode(Depth(m), p, {p}).depth >= 1
    BY Depths DEF PolicyNode
  <2> QED
    BY <1>1, <2>1, <2>2 DEF Collapse
<1> QED
  BY <1>2, <1>3

\* A path that is led on to m has grown there, if it carries nothing a mapping made.
LEMMA LeadsGrown ==
  ASSUME InputsOK, NEW m \in DOMAIN chain, MapsNoAny(m), MappedFrom(m) = {} \/ (Unexpanded /\ m > 1)
  PROVE  Leads(m) \subseteq GrownPaths(m) /\ \A f \in Leads(m) : f[m] \in Ends(m)
<1>1. \A p, q : CarriesBelow(m, p, q) => Admits(m, p, q)
  <2>1. CASE MappedFrom(m) = {}
    BY <2>1, CarriesSplit
  <2>2. CASE Unexpanded /\ m > 1
    <3>1. m \in Above(1)
      <4>1. PICK n \in Nat : n = Len(chain) /\ DOMAIN chain = 1 .. n
        BY Positions, Zenon
      <4> QED
        BY <2>2, <4>1 DEF Above
    <3>2. ~AnyNode(m)
      BY <2>2, <3>1 DEF Unexpanded, AnyNode
    <3>3. \A q : ~Admits(m, AnyPolicy, q)
      BY <3>2 DEF Admits
    <3> QED
      BY <3>3, CarriesSplit
  <2> QED
    BY <2>1, <2>2
<1> QED
  BY <1>1, LeadsUp DEF GrownPaths

\* The levels above m are those of the certificates above it.
LEMMA LevelsStay ==
  ASSUME InputsOK, NEW m \in DOMAIN chain, NEW tree, NEW paths, LevelsAre(tree, m, paths),
         NEW other, \A d \in 0 .. Depth(m) - 1 : AtDepth(other, d) = AtDepth(tree, d),
         NEW fewer, fewer \subseteq paths
  PROVE  LevelsAre(other, m, fewer)
<1> SUFFICES ASSUME NEW i \in m + 1 .. Len(chain)
             PROVE  /\ \A f \in fewer : Node(i, f[i]) \in other
                    /\ AtDepth(other, Depth(i)) \subseteq {Node(i, p) : p \in Ends(i)}
  BY DEF LevelsAre
<1>1. Depth(i) \in 0 .. Depth(m) - 1
  BY Depths
<1>2. AtDepth(other, Depth(i)) = AtDepth(tree, Depth(i))
  BY <1>1
<1>3. ASSUME NEW f \in fewer PROVE Node(i, f[i]) \in other
  <2>1. Node(i, f[i]) \in tree
    BY DEF LevelsAre
  <2>2. Node(i, f[i]) \in AtDepth(tree, Depth(i))
    BY <2>1, NodeFields DEF AtDepth
  <2> QED
    BY <1>2, <2>2 DEF AtDepth
<1> QED
  BY <1>2, <1>3 DEF LevelsAre

\* Where nothing is mapped, the tree that has grown is the tree.
LEMMA NothingMapped ==
  ASSUME InputsOK, NEW m \in DOMAIN chain, Mappings(m) = {}, NEW tree, GrownIs(tree, m)
  PROVE  /\ TreeIs(tree, m)
         /\ LevelsAre(tree, m, GrownPaths(m)) => LevelsAre(tree, m, Leads(m))
<1>1. MappedFrom(m) = {} /\ MapsNoAny(m)
  BY DEF MappedFrom, MapsNoAny
<1>2. Ends(m) = Grown(m)
  BY <1>1, EndsMapped
<1>3. \A p : Node(m, p) = PolicyNode(Depth(m), p, {p})
  BY <1>1, PositionAbove DEF Node, ExpectedAt, Expected
<1>4. TreeIs(tree, m)
  BY <1>2, <1>3 DEF GrownIs, TreeIs
<1>5. Leads(m) \subseteq GrownPaths(m)
  BY <1>1, LeadsGrown
<1> QED
  BY <1>4, <1>5 DEF LevelsAre

\* 6.1.4 (b)(1): the mappings are in the tree.
LEMMA TreeMaps ==
  ASSUME InputsOK, NEW m \in DOMAIN chain, m > 1, MapsNoAny(m), IdentitiesLast, Present(chain[m].pm),
         MappingActive(m), NEW tree, GrownIs(tree, m), NEW mapped,
         mapped = PostOpPrune(ApplyMappings(tree, Depth(m), chain[m].pm), 0)
  PROVE  /\ TreeIs(mapped, m)
         /\ Unexpanded /\ LevelsAre(tree, m, GrownPaths(m)) => LevelsAre(mapped, m, Leads(m))
<1> DEFINE pm == chain[m].pm
           d == Depth(m)
           grown == Grown(m)
           upper == {n \in tree : n.depth # d}
           level == MapsLevel(pm, Len(pm), d, grown)
<1>1. /\ MapsCleanly(pm) /\ Len(pm) \in Nat /\ MapsFrom(pm, Len(pm)) = MappedFrom(m)
      /\ \A p : MapsTo(pm, Len(pm), p) = Expected(m, p)
  BY MappingsOf
<1>2. MapsLevel(pm, 0, d, grown) = {PolicyNode(d, p, {p}) : p \in grown}
  <2>1. MapsFrom(pm, 0) = {}
    BY DEF MapsFrom
  <2>2. MapsHave(pm, 0, grown) = grown /\ \A p : MapsTo(pm, 0, p) = {p}
    BY <2>1 DEF MapsHave, MapsTo
  <2> QED
    BY <2>2 DEF MapsLevel
<1>3. tree = upper \cup MapsLevel(pm, 0, d, grown)
  <2>1. MapsLevel(pm, 0, d, grown) = AtDepth(tree, d)
    BY <1>2 DEF GrownIs
  <2> QED
    BY <2>1 DEF AtDepth
<1>4. MapsHave(pm, Len(pm), grown) = Ends(m)
  BY <1>1, EndsMapped DEF MapsHave
<1>5. level = {Node(m, p) : p \in Ends(m)}
  <2>1. \A p : PolicyNode(d, p, MapsTo(pm, Len(pm), p)) = Node(m, p)
    BY <1>1, PositionAbove DEF Node, ExpectedAt
  <2> QED
    BY <1>4, <2>1 DEF MapsLevel
<1>6. \A n \in upper : n.depth # d
  OBVIOUS
<1>7. ApplyMappings(tree, d, pm) = upper \cup level
  <2> HIDE DEF upper, d, pm, grown
  <2>1. ApplyMappings(upper \cup MapsLevel(pm, 0, d, grown), d, pm) = upper \cup level
    BY <1>1, <1>6, MappingsApplied
  <2> QED
    BY <1>3, <2>1
<1>8. PICK N \in Nat \ {0} : N = d
  BY Depths
<1>9. \A n \in level : n.depth = N
  BY <1>5, <1>8, NodeFields
<1>10. Ends(m) = {} <=> grown = {}
  BY <1>4 DEF MapsHave
<1>11. \A n \in tree : n.depth \in 0 .. N
  BY <1>8 DEF GrownIs, Rooted
<1>12. level = {} <=> Ends(m) = {}
  BY <1>5
<1> HIDE DEF level
<1>13. mapped = upper \cup level
  <2>1. mapped = Collapse(upper \cup level)
    BY <1>7 DEF PostOpPrune
  <2>2. CASE level = {}
    <3>1. tree = {}
      BY <1>10, <1>12, <2>2 DEF GrownIs
    <3> QED
      BY <2>1, <2>2, <3>1 DEF Collapse, NullTree
  <2>3. CASE level # {}
    <3>1. \E n \in upper \cup level : n.depth >= 1
      BY <1>9, <2>3
    <3> HIDE DEF upper
    <3> QED
      BY <2>1, <3>1 DEF Collapse
  <2> QED
    BY <2>2, <2>3
<1>14. /\ AtDepth(mapped, d) = level /\ \A n \in mapped : n.depth \in 0 .. N
       /\ \A e \in 0 .. N - 1 : AtDepth(mapped, e) = AtDepth(tree, e)
  <2>1. AtDepth(mapped, d) = level
    BY <1>8, <1>9, <1>13 DEF AtDepth
  <2>2. \A n \in mapped : n.depth \in 0 .. N
    BY <1>9, <1>11, <1>13
  <2>3. ASSUME NEW e \in 0 .. N - 1 PROVE AtDepth(mapped, e) = AtDepth(tree, e)
    BY <1>8, <1>9, <1>13 DEF AtDepth
  <2> QED
    BY <2>1, <2>2, <2>3
<1>15. mapped = {} <=> Ends(m) = {}
  <2>1. level = {} => tree = {}
    BY <1>10, <1>12 DEF GrownIs
  <2> QED
    BY <1>12, <1>13, <2>1
<1>16. mapped # {} => AtDepth(mapped, 0) = InitPolicyTree
  <2>1. mapped # {} => tree # {}
    BY <1>10, <1>15 DEF GrownIs
  <2>2. 0 \in 0 .. N - 1
    OBVIOUS
  <2> QED
    BY <1>14, <2>1, <2>2 DEF GrownIs, Rooted
<1>17. TreeIs(mapped, m)
  BY <1>5, <1>8, <1>14, <1>15, <1>16 DEF TreeIs, Rooted
<1>18. ASSUME Unexpanded, LevelsAre(tree, m, GrownPaths(m)) PROVE LevelsAre(mapped, m, Leads(m))
  <2>1. Leads(m) \subseteq GrownPaths(m)
    BY <1>18, LeadsGrown
  <2>2. \A e \in 0 .. Depth(m) - 1 : AtDepth(mapped, e) = AtDepth(tree, e)
    BY <1>8, <1>14
  <2> QED
    BY <1>18, <2>1, <2>2, LevelsStay
<1> QED
  BY <1>17, <1>18

\* 6.1.4 (b)(2): mapping is inhibited, and the mapped policies are gone.
LEMMA TreeUnmaps ==
  ASSUME InputsOK, NEW m \in DOMAIN chain, m > 1, MapsNoAny(m), Present(chain[m].pm),
         ~MappingActive(m), NEW tree, GrownIs(tree, m), NEW mapped,
         mapped = PostOpPrune(DeleteMapped(tree, Depth(m), chain[m].pm), 0)
  PROVE  /\ TreeIs(mapped, m)
         /\ Unexpanded /\ LevelsAre(tree, m, GrownPaths(m)) => LevelsAre(mapped, m, Leads(m))
<1> DEFINE d == Depth(m)
           dead == MappedFrom(m)
           left == {n \in tree : ~(n.depth = d /\ n.valid_policy \in dead)}
           level == {PolicyNode(d, p, {p}) : p \in Ends(m)}
<1>1. PICK N \in Nat \ {0} : N = d
  BY Depths
<1>2. \A n \in tree : n.depth \in 0 .. N
  BY <1>1 DEF GrownIs, Rooted
<1>3. \A n \in left : n.depth \in 0 .. N
  BY <1>2
<1>4. mapped = PostOpPrune(left, N)
  <2>1. DeleteMapped(tree, d, chain[m].pm) = PrunePolicyTree(left, d)
    <3>1. {x[1] : x \in Range(chain[m].pm)} = dead
      BY MappingsOf
    <3> HIDE DEF dead, d
    <3> QED
      BY <3>1, Zenon DEF DeleteMapped
  <2> HIDE DEF left
  <2>2. mapped = Collapse(PrunePolicyTree(left, N))
    BY <1>1, <2>1 DEF PostOpPrune
  <2> QED
    BY <1>3, <2>2, PostPruned
<1>5. Ends(m) = Grown(m) \ dead
  BY EndsMapped
<1>6. AtDepth(tree, d) = {PolicyNode(d, p, {p}) : p \in Grown(m)}
  BY DEF GrownIs
<1>7. AtDepth(left, d) = level
  <2>1. \A n : n \in AtDepth(left, d) <=> n \in AtDepth(tree, d) /\ n.valid_policy \notin dead
    BY DEF AtDepth
  <2>2. \A n : n \in AtDepth(tree, d) <=> \E p \in Grown(m) : n = PolicyNode(d, p, {p})
    BY <1>6
  <2>3. \A n : n \in level <=> \E p \in Ends(m) : n = PolicyNode(d, p, {p})
    OBVIOUS
  <2> HIDE DEF left, level
  <2>4. ASSUME NEW n PROVE n \in AtDepth(left, d) <=> n \in level
    <3>1. \A p : PolicyNode(d, p, {p}).valid_policy = p
      BY NodeFields
    <3>2. \A p : p \in Ends(m) <=> p \in Grown(m) /\ p \notin dead
      BY <1>5
    <3> HIDE DEF d, dead
    <3>3. ASSUME n \in AtDepth(left, d) PROVE n \in level
      <4>1. PICK p \in Grown(m) : n = PolicyNode(d, p, {p})
        BY <2>1, <2>2, <3>3
      <4>2. n.valid_policy = p
        BY <3>1, <4>1
      <4>3. p \in Ends(m)
        BY <2>1, <3>2, <3>3, <4>2
      <4> QED
        BY <2>3, <4>1, <4>3
    <3>4. ASSUME n \in level PROVE n \in AtDepth(left, d)
      <4>1. PICK p \in Ends(m) : n = PolicyNode(d, p, {p})
        BY <2>3, <3>4
      <4>2. n.valid_policy = p
        BY <3>1, <4>1
      <4> QED
        BY <2>1, <2>2, <3>2, <4>1, <4>2
    <3> QED
      BY <3>3, <3>4
  <2>5. AtDepth(left, d) \subseteq level /\ level \subseteq AtDepth(left, d)
    BY <2>4
  <2> QED
    BY <2>5
<1>8. level = {Node(m, p) : p \in Ends(m)}
  <2>1. \A p \in Ends(m) : ExpectedAt(m, p) = {p}
    BY <1>5, PositionAbove DEF ExpectedAt, Expected
  <2>2. \A p \in Ends(m) : PolicyNode(d, p, {p}) = Node(m, p)
    BY <2>1 DEF Node
  <2> QED
    BY <2>2
<1>9. level = {} <=> Ends(m) = {}
  OBVIOUS
<1>10. ASSUME NEW e \in 0 .. N - 1 PROVE AtDepth(left, e) = AtDepth(tree, e)
  <2>1. e # d
    BY <1>1
  <2> QED
    BY <2>1 DEF AtDepth
<1> HIDE DEF level
<1>11. left \subseteq tree
  OBVIOUS
<1> HIDE DEF left
<1>12. /\ mapped \subseteq left /\ AtDepth(mapped, N) = AtDepth(left, N)
       /\ mapped = {} <=> AtDepth(left, N) = {}
       /\ mapped # {} => AtDepth(mapped, 0) = AtDepth(left, 0)
  BY <1>3, <1>4, PostPruned
<1>13. TreeIs(mapped, m)
  <2>1. mapped # {} => AtDepth(mapped, 0) = InitPolicyTree
    <3>1. 0 \in 0 .. N - 1
      OBVIOUS
    <3>2. mapped # {} => tree # {}
      BY <1>11, <1>12
    <3> QED
      BY <1>10, <1>12, <3>1, <3>2 DEF GrownIs, Rooted
  <2>2. \A n \in mapped : n.depth \in 0 .. Depth(m)
    BY <1>1, <1>3, <1>12
  <2>3. AtDepth(mapped, Depth(m)) = level
    BY <1>1, <1>7, <1>12
  <2>4. mapped = {} <=> Ends(m) = {}
    BY <1>1, <1>7, <1>9, <1>12
  <2> QED
    BY <1>8, <2>1, <2>2, <2>3, <2>4 DEF TreeIs, Rooted
<1>14. ASSUME Unexpanded, LevelsAre(tree, m, GrownPaths(m)) PROVE LevelsAre(mapped, m, Leads(m))
  <2>1. Leads(m) \subseteq GrownPaths(m) /\ \A f \in Leads(m) : f[m] \in Ends(m)
    BY <1>14, LeadsGrown
  <2>2. \A e \in 0 .. Depth(m) - 1 : AtDepth(left, e) = AtDepth(tree, e)
    BY <1>1, <1>10
  <2>3. LevelsAre(left, m, Leads(m))
    BY <1>14, <2>1, <2>2, LevelsStay
  <2>4. ASSUME NEW f \in Leads(m), NEW i \in m + 1 .. Len(chain) PROVE Node(i, f[i]) \in mapped
    <3>1. f \in Leads(m + 1) /\ CarriesBelow(m, f[m], Over(f, m))
      BY LeadsUp
    <3>2. \A j \in m + 1 .. Len(chain) : Node(j, f[j]) \in left
      BY <2>3 DEF LevelsAre
    <3> DEFINE leaf == PolicyNode(d, f[m], {f[m]})
    <3>3. leaf \in AtDepth(left, Depth(m))
      BY <1>7, <2>1 DEF level
    <3>4. leaf.valid_policy = f[m]
      BY NodeFields
    <3>5. m # Len(chain) => f[m] \in ExpectedAt(m + 1, f[m + 1])
      BY <1>14, <3>1, Unbroken
    <3> HIDE DEF leaf
    <3>6. \A n \in left : n.depth \in 0 .. Depth(m)
      BY <1>1, <1>3
    <3>7. Node(i, f[i]) \in PostOpPrune(left, Depth(m))
      BY <1>14, <3>1, <3>2, <3>3, <3>4, <3>5, <3>6, PathsSurvive
    <3> QED
      BY <1>1, <1>4, <3>7
  <2>5. ASSUME NEW i \in m + 1 .. Len(chain)
        PROVE  AtDepth(mapped, Depth(i)) \subseteq {Node(i, p) : p \in Ends(i)}
    BY <1>12, <2>3 DEF LevelsAre, AtDepth
  <2> QED
    BY <2>4, <2>5 DEF LevelsAre
<1> QED
  BY <1>13, <1>14

-----------------------------------------------------------------------------
(* The end of the chain: what the tree surfaces is what the paths carry at the leaf. *)

\* A policy path is a path down to the leaf.
LEMMA PathsLead ==
  ASSUME InputsOK
  PROVE  PolicyPaths = Leads(1)
<1>0. PICK n \in Nat : n = Len(chain) /\ DOMAIN chain = 1 .. n
  BY Positions, Zenon
<1>1. ASSUME NEW f, NEW m \in DOMAIN chain
      PROVE  CarriesBelow(m, f[m], Over(f, m)) <=>
               IF m = Len(chain) THEN Carries(m, f[m], AnyPolicy, {AnyPolicy})
                                 ELSE Carries(m, f[m], f[m + 1], Expected(m + 1, f[m + 1]))
  <2>1. CASE m = Len(chain)
    <3>1. Over(f, m) = AnyPolicy /\ ExpectedAt(m + 1, AnyPolicy) = {AnyPolicy}
      BY <2>1, PositionAbove DEF Over, ExpectedAt
    <3> QED
      BY <2>1, <3>1 DEF CarriesBelow
  <2>2. CASE m # Len(chain)
    <3>1. Over(f, m) = f[m + 1] /\ ~(m + 1 > Len(chain))
      BY <2>2, PositionAbove DEF Over
    <3>2. ExpectedAt(m + 1, f[m + 1]) = Expected(m + 1, f[m + 1])
      BY <3>1, Zenon DEF ExpectedAt
    <3> QED
      BY <2>2, <3>1, <3>2 DEF CarriesBelow
  <2> QED
    BY <2>1, <2>2
<1>2. 1 .. Len(chain) = DOMAIN chain
  BY <1>0
<1>3. ASSUME NEW f \in [DOMAIN chain -> PolicyOids] PROVE f \in PolicyPaths <=> f \in Leads(1)
  BY <1>1, <1>2, Zenon DEF PolicyPaths, Leads
<1>4. PolicyPaths \subseteq [DOMAIN chain -> PolicyOids] /\ Leads(1) \subseteq [DOMAIN chain -> PolicyOids]
  BY DEF PolicyPaths, Leads
<1> QED
  BY <1>3, <1>4

\* The depths of a chain that is not empty.
LEMMA LeafDepth ==
  ASSUME InputsOK, chain # <<>>
  PROVE  \E n \in Nat \ {0} :
           /\ n = Len(chain) /\ DOMAIN chain = 1 .. n /\ \A m \in 1 .. n : Depth(m) = n - m + 1
<1>1. PICK n \in Nat : n = Len(chain) /\ DOMAIN chain = 1 .. n
  BY Positions, Zenon
<1>2. n # 0
  BY <1>1 DEF InputsOK
<1> QED
  BY <1>1, <1>2 DEF Depth

\* Every level of the finished tree, without an initial set or where no CA asserts anyPolicy.
LEMMA FinishedLevels ==
  ASSUME InputsOK, chain # <<>>, NEW tree, TreeIs(tree, 1), LevelsAre(tree, 1, Leads(1)), NEW m \in DOMAIN chain
  PROVE  /\ AtDepth(tree, Depth(m)) \subseteq {Node(m, p) : p \in Ends(m)}
         /\ \A f \in Leads(1) : Node(m, f[m]) \in tree
<1>1. PICK n \in Nat \ {0} : n = Len(chain) /\ DOMAIN chain = 1 .. n
  BY LeafDepth
<1>2. CASE m = 1
  <2>1. \A f \in Leads(1) : f[1] \in Ends(1)
    BY <1>1, LeadsUp
  <2> QED
    BY <1>2, <2>1 DEF TreeIs, AtDepth
<1>3. CASE m # 1
  <2>1. m \in 1 + 1 .. Len(chain)
    BY <1>1, <1>3
  <2> QED
    BY <2>1 DEF LevelsAre
<1> QED
  BY <1>2, <1>3

\* Where no CA asserts anyPolicy, only a leaf right below the anchor can carry it.
LEMMA AnyOnTop ==
  ASSUME InputsOK, Unexpanded, NEW m \in DOMAIN chain, m > 1 \/ m # Len(chain)
  PROVE  AnyPolicy \notin Ends(m)
<1>1. PICK n \in Nat : n = Len(chain) /\ DOMAIN chain = 1 .. n
  BY Positions, Zenon
<1>2. ASSUME NEW i \in DOMAIN chain, i > 1 PROVE AnyPolicy \notin Ends(i)
  <2>1. i \in Above(1)
    BY <1>1, <1>2 DEF Above
  <2>2. \A q : ~CarriesBelow(i, AnyPolicy, q)
    BY <2>1 DEF Unexpanded, CarriesBelow, Carries, AnyNode
  <2> QED
    BY <2>2, EndsStep
<1>3. ASSUME m # Len(chain) PROVE AnyPolicy \notin Ends(m)
  <2>1. m + 1 \in DOMAIN chain /\ m + 1 > 1
    BY <1>3, PositionAbove
  <2>2. AnyPolicy \notin Ends(m + 1)
    BY <1>2, <2>1
  <2>3. \A q : CarriesBelow(m, AnyPolicy, q) => q = AnyPolicy
    BY DEF CarriesBelow, Carries
  <2> QED
    BY <2>2, <2>3, EndsStep
<1> QED
  BY <1>2, <1>3

\* So the relying party's set is about the policy of the certificate below the anchor.
LEMMA InSetAtTop ==
  ASSUME InputsOK, chain # <<>>, Unexpanded, policy.initial_policy_set # {}, NEW f \in Leads(1)
  PROVE  InInitialSet(f) <=> f[Len(chain)] \in policy.initial_policy_set \cup {AnyPolicy}
<1>1. PICK n \in Nat \ {0} : n = Len(chain) /\ DOMAIN chain = 1 .. n
  BY LeafDepth
<1>2. \A m \in DOMAIN chain : f[m] \in Ends(m)
  <2> SUFFICES ASSUME NEW m \in DOMAIN chain PROVE f[m] \in Ends(m)
    OBVIOUS
  <2>1. f \in Leads(m)
    BY <1>1, LeadsFurtherUp
  <2> QED
    BY <2>1, LeadsUp
<1>3. ASSUME NEW m \in DOMAIN chain, m # Len(chain) PROVE \E j \in Above(m) : f[j] # AnyPolicy
  <2>1. n \in Above(m) /\ n \in DOMAIN chain /\ n > 1
    BY <1>1, <1>3 DEF Above
  <2> QED
    BY <1>2, <2>1, AnyOnTop
<1>4. Above(Len(chain)) = {} /\ Len(chain) \in DOMAIN chain
  BY <1>1 DEF Above
<1> QED
  BY <1>3, <1>4 DEF InInitialSet

\* What the top-down cascade keeps of level d, if it keeps this of the level above.
Reached(tree, d, above) ==
  IF d <= 1
  THEN AtDepth(tree, d)
  ELSE {n \in AtDepth(tree, d) :
          \E p \in above : n.valid_policy \in p.expected_policy_set \/ p.valid_policy = AnyPolicy}

\* That recursion has a solution, too.
LEMMA ReachedExists ==
  ASSUME NEW tree, NEW N \in Nat
  PROVE  \E kept : kept = [d \in 0 .. N |-> Reached(tree, d, kept[d - 1])]
<1> DEFINE Solves(f, j) == DOMAIN f = 0 .. j /\ \A d \in 0 .. j : f[d] = Reached(tree, d, f[d - 1])
           Unsolved == {j \in 0 .. N : ~\E f : Solves(f, j)}
<1>1. Unsolved = {}
  <2> SUFFICES ASSUME Unsolved # {} PROVE FALSE
    OBVIOUS
  <2>1. PICK j \in Unsolved : \A i \in Unsolved : j <= i
    <3>1. Unsolved \in SUBSET Nat
      OBVIOUS
    <3> HIDE DEF Unsolved
    <3> QED
      BY <3>1, LeastNumber
  <2>2. j # 0
    <3> DEFINE f == [d \in 0 .. 0 |-> AtDepth(tree, d)]
    <3>1. Solves(f, 0)
      BY DEF Reached
    <3> QED
      BY <3>1
  <2>3. PICK f : Solves(f, j - 1)
    BY <2>1, <2>2
  <2> DEFINE g == [d \in 0 .. j |-> IF d = j THEN Reached(tree, j, f[j - 1]) ELSE f[d]]
  <2>4. /\ j \in 0 .. j /\ j # j - 1 /\ j - 1 \in 0 .. j
        /\ \A d \in 0 .. j : d # j => d \in 0 .. j - 1 /\ d - 1 # j /\ (d <= 1 \/ d - 1 \in 0 .. j)
    BY <2>1, <2>2
  <2>5. \A d \in 0 .. j : g[d] = Reached(tree, d, g[d - 1])
    <3> SUFFICES ASSUME NEW d \in 0 .. j PROVE g[d] = Reached(tree, d, g[d - 1])
      OBVIOUS
    <3>1. CASE d = j
      <4>1. g[j - 1] = f[j - 1] /\ g[j] = Reached(tree, j, f[j - 1])
        BY <2>4
      <4> QED
        BY <3>1, <4>1
    <3>2. CASE d # j /\ d <= 1
      <4>1. g[d] = f[d] /\ f[d] = AtDepth(tree, d)
        BY <2>3, <2>4, <3>2 DEF Reached
      <4> QED
        BY <3>2, <4>1 DEF Reached
    <3>3. CASE d # j /\ ~(d <= 1)
      <4>1. g[d] = f[d] /\ g[d - 1] = f[d - 1] /\ d \in 0 .. j - 1
        BY <2>4, <3>3
      <4> QED
        BY <2>3, <4>1
    <3> QED
      BY <3>1, <3>2, <3>3
  <2>6. Solves(g, j)
    BY <2>5
  <2> QED
    BY <2>1, <2>6
<1>2. PICK f : Solves(f, N)
  <2>1. N \in 0 .. N /\ N \notin Unsolved
    BY <1>1
  <2> HIDE DEF Solves
  <2> QED
    BY <2>1
<1> DEFINE g == [d \in 0 .. N |-> f[d]]
<1>3. \A d \in 0 .. N : d <= 1 \/ d - 1 \in 0 .. N
  OBVIOUS
<1>4. \A d \in 0 .. N : g[d] = Reached(tree, d, g[d - 1])
  BY <1>2, <1>3 DEF Reached
<1>5. g = [d \in 0 .. N |-> Reached(tree, d, g[d - 1])]
  <2> HIDE DEF g
  <2>1. DOMAIN g = 0 .. N /\ g = [d \in DOMAIN g |-> g[d]]
    BY DEF g
  <2> QED
    BY <1>4, <2>1
<1> QED
  BY <1>5

\* A cascaded tree, level by level.
LEMMA CascadedLevels ==
  ASSUME NEW tree, NEW N \in Nat
  PROVE  \E kept : /\ \A d \in 0 .. N : kept[d] = Reached(tree, d, kept[d - 1])
                   /\ CascadeDown(tree, N) = UNION {kept[d] : d \in 0 .. N}
<1> DEFINE kept == CHOOSE f : f = [d \in 0 .. N |->
                     IF d <= 1
                     THEN AtDepth(tree, d)
                     ELSE {n \in AtDepth(tree, d) :
                             \E p \in f[d - 1] : \/ n.valid_policy \in p.expected_policy_set
                                                 \/ p.valid_policy = AnyPolicy}]
<1>1. CascadeDown(tree, N) = UNION {kept[d] : d \in 0 .. N}
  BY DEF CascadeDown
<1>2. PICK f : f = [d \in 0 .. N |-> Reached(tree, d, f[d - 1])]
  BY ReachedExists
<1>3. f = [d \in 0 .. N |->
             IF d <= 1
             THEN AtDepth(tree, d)
             ELSE {n \in AtDepth(tree, d) :
                     \E p \in f[d - 1] : \/ n.valid_policy \in p.expected_policy_set
                                         \/ p.valid_policy = AnyPolicy}]
  BY <1>2, Zenon DEF Reached
<1>4. kept = [d \in 0 .. N |->
                IF d <= 1
                THEN AtDepth(tree, d)
                ELSE {n \in AtDepth(tree, d) :
                        \E p \in kept[d - 1] : \/ n.valid_policy \in p.expected_policy_set
                                               \/ p.valid_policy = AnyPolicy}]
  BY <1>3
<1> HIDE DEF kept
<1>5. \A d \in 0 .. N : kept[d] = Reached(tree, d, kept[d - 1])
  BY <1>4 DEF Reached
<1> QED
  BY <1>1, <1>5

\* A finished tree that the relying party's set has a say in.
Finished(tree) ==
  /\ InputsOK /\ chain # <<>> /\ Unexpanded /\ policy.initial_policy_set # {}
  /\ TreeIs(tree, 1) /\ LevelsAre(tree, 1, Leads(1)) /\ tree # {}

\* The path begins, below the anchor, with a policy the relying party wants.
Wanted(f) == f[Len(chain)] \in policy.initial_policy_set \cup {AnyPolicy}

\* The levels of the cascade, once what nobody asked for is out.
Cascade(tree, kept) ==
  \A d \in 0 .. Len(chain) :
    kept[d] = Reached(tree \ OutOfSet(tree, policy.initial_policy_set), d, kept[d - 1])

\* Nobody asked for these: the certificate below the anchor is the only one below an anyPolicy node.
LEMMA OutIsOnTop ==
  ASSUME NEW tree, Finished(tree)
  PROVE  OutOfSet(tree, policy.initial_policy_set) =
           {n \in AtDepth(tree, 1) : n.valid_policy \notin policy.initial_policy_set \cup {AnyPolicy}}
<1> DEFINE W == policy.initial_policy_set
<1>1. PICK n \in Nat \ {0} : n = Len(chain) /\ DOMAIN chain = 1 .. n /\ \A m \in 1 .. n : Depth(m) = n - m + 1
  BY LeafDepth DEF Finished
<1>2. AnyPolicy \in PoliciesAt(tree, 0)
  BY DEF Finished, TreeIs, Rooted, InitPolicyTree, PoliciesAt, PolicyNode
<1>3. ASSUME NEW x \in tree, x.depth >= 1, AnyPolicy \in PoliciesAt(tree, x.depth - 1) PROVE x.depth = 1
  <2>1. x.depth \in 0 .. n
    <3>1. Depth(1) = n
      BY <1>1
    <3> QED
      BY <3>1 DEF Finished, TreeIs, Rooted
  <2> SUFFICES ASSUME x.depth # 1 PROVE FALSE
    OBVIOUS
  <2>2. PICK m \in 1 .. n : Depth(m) = x.depth - 1 /\ m # 1
    <3>1. n - (x.depth - 1) + 1 \in 1 .. n /\ n - (x.depth - 1) + 1 # 1
      BY <1>3, <2>1
    <3>2. n - (n - (x.depth - 1) + 1) + 1 = x.depth - 1
      BY <1>3, <2>1
    <3> QED
      BY <1>1, <3>1, <3>2
  <2>3. PICK y \in AtDepth(tree, Depth(m)) : y.valid_policy = AnyPolicy
    BY <1>3, <2>2 DEF PoliciesAt
  <2>4. AnyPolicy \in Ends(m)
    BY <1>1, <2>3, FinishedLevels, NodeFields DEF Finished
  <2>5. AnyPolicy \notin Ends(m)
    BY <1>1, <2>2, AnyOnTop DEF Finished
  <2> QED
    BY <2>4, <2>5
<1>4. \A x : x \in AtDepth(tree, 1) <=> x \in tree /\ x.depth >= 1 /\ AnyPolicy \in PoliciesAt(tree, x.depth - 1)
  BY <1>2, <1>3 DEF AtDepth
<1> QED
  BY <1>4 DEF OutOfSet

\* A path that begins with a wanted policy stays in the tree.
LEMMA WantedStay ==
  ASSUME NEW tree, Finished(tree), NEW kept, Cascade(tree, kept),
         NEW f \in Leads(1), Wanted(f)
  PROVE  \A m \in DOMAIN chain : Node(m, f[m]) \in kept[Depth(m)]
<1>0. PICK rest : /\ rest = tree \ OutOfSet(tree, policy.initial_policy_set)
                  /\ \A d \in 0 .. Len(chain) : kept[d] = Reached(rest, d, kept[d - 1])
  BY DEF Cascade
<1>1. PICK n \in Nat \ {0} : n = Len(chain) /\ DOMAIN chain = 1 .. n /\ \A m \in 1 .. n : Depth(m) = n - m + 1
  BY LeafDepth DEF Finished
<1>2. ASSUME NEW m \in 1 .. n PROVE Node(m, f[m]) \in AtDepth(rest, Depth(m))
  <2>1. Node(m, f[m]) \in tree
    BY <1>1, FinishedLevels DEF Finished
  <2>2. Node(m, f[m]) \notin OutOfSet(tree, policy.initial_policy_set)
    <3>1. CASE m = n
      BY <1>1, <3>1, OutIsOnTop, NodeFields DEF Wanted
    <3>2. CASE m # n
      <4>1. Depth(m) # 1
        BY <1>1, <3>2
      <4> QED
        BY <4>1, OutIsOnTop, NodeFields DEF AtDepth
    <3> QED
      BY <3>1, <3>2
  <2> QED
    BY <1>0, <2>1, <2>2, NodeFields DEF AtDepth
<1> DEFINE Lost == {d \in 1 .. n : Node(n - d + 1, f[n - d + 1]) \notin kept[d]}
<1>3. Lost = {}
  <2> SUFFICES ASSUME Lost # {} PROVE FALSE
    OBVIOUS
  <2>1. PICK d \in Lost : \A e \in Lost : d <= e
    <3>1. Lost \in SUBSET Nat
      OBVIOUS
    <3> HIDE DEF Lost
    <3> QED
      BY <3>1, LeastNumber
  <2>a. d \in 1 .. n /\ \A e \in 1 .. n : e < d => e \notin Lost
    BY <2>1
  <2>b. Node(n - d + 1, f[n - d + 1]) \notin kept[d]
    BY <2>1
  <2>c. \A e \in 1 .. n : e \notin Lost => Node(n - e + 1, f[n - e + 1]) \in kept[e]
    OBVIOUS
  <2> HIDE DEF Lost
  <2>2. PICK m \in 1 .. n : m = n - d + 1 /\ Depth(m) = d
    <3>1. n - d + 1 \in 1 .. n /\ n - (n - d + 1) + 1 = d
      BY <2>a
    <3> QED
      BY <1>1, <3>1
  <2>3. Node(m, f[m]) \in AtDepth(rest, d) /\ Node(m, f[m]) \notin kept[d] /\ d \in 0 .. n
    <3>1. d \in 0 .. n
      BY <2>a
    <3>2. Node(m, f[m]) \notin kept[d]
      BY <2>b, <2>2
    <3>3. Node(m, f[m]) \in AtDepth(rest, Depth(m))
      BY <1>2
    <3> QED
      BY <2>2, <3>1, <3>2, <3>3
  <2>4. d > 1 /\ ~(d <= 1) /\ d - 1 \in 1 .. n /\ d - 1 \notin Lost
    <3>1. kept[d] = Reached(rest, d, kept[d - 1])
      BY <1>0, <1>1, <2>3
    <3>2. ~(d <= 1)
      BY <2>3, <3>1 DEF Reached
    <3> QED
      BY <2>a, <3>2
  <2>5. m # n /\ n - (d - 1) + 1 = m + 1 /\ m + 1 \in 1 .. n
    BY <2>2, <2>4, <2>a
  <2>6. Node(m + 1, f[m + 1]) \in kept[d - 1]
    BY <2>4, <2>5, <2>c
  <2>7. f[m] \in ExpectedAt(m + 1, f[m + 1])
    <3>1. f \in Leads(m + 1) /\ f \in Leads(m)
      BY <1>1, LeadsFurtherUp DEF Finished
    <3>2. CarriesBelow(m, f[m], Over(f, m))
      BY <1>1, <3>1, LeadsUp DEF Finished
    <3> QED
      BY <1>1, <2>5, <3>1, <3>2, Unbroken DEF Finished
  <2>8. Node(m, f[m]) \in Reached(rest, d, kept[d - 1])
    <3>1. /\ Node(m, f[m]).valid_policy = f[m]
          /\ Node(m + 1, f[m + 1]).expected_policy_set = ExpectedAt(m + 1, f[m + 1])
      BY NodeFields
    <3>2. PICK x, y : x = Node(m, f[m]) /\ y = Node(m + 1, f[m + 1])
      OBVIOUS
    <3>3. x \in AtDepth(rest, d) /\ y \in kept[d - 1] /\ x.valid_policy \in y.expected_policy_set
      BY <2>3, <2>6, <2>7, <3>1, <3>2
    <3> QED
      BY <2>4, <3>2, <3>3 DEF Reached
  <2> QED
    BY <1>0, <1>1, <2>3, <2>8
<1>4. ASSUME NEW m \in 1 .. n PROVE Node(m, f[m]) \in kept[Depth(m)]
  <2>1. Depth(m) \in 1 .. n /\ n - Depth(m) + 1 = m
    <3>1. n - m + 1 \in 1 .. n /\ n - (n - m + 1) + 1 = m
      OBVIOUS
    <3> QED
      BY <1>1, <3>1
  <2> QED
    BY <1>3, <2>1
<1> QED
  BY <1>1, <1>4

\* And nothing else does.
LEMMA OnlyWantedStay ==
  ASSUME NEW tree, Finished(tree), NEW kept, Cascade(tree, kept)
  PROVE  \A m \in DOMAIN chain : \A x \in kept[Depth(m)] : \E f \in Leads(m) : Wanted(f) /\ x = Node(m, f[m])
<1> SUFFICES ASSUME NEW m \in DOMAIN chain, NEW x \in kept[Depth(m)]
             PROVE  \E f \in Leads(m) : Wanted(f) /\ x = Node(m, f[m])
  OBVIOUS
<1>0. PICK rest : /\ rest = tree \ OutOfSet(tree, policy.initial_policy_set)
                  /\ \A d \in 0 .. Len(chain) : kept[d] = Reached(rest, d, kept[d - 1])
  BY DEF Cascade
<1>1. PICK n \in Nat \ {0} : n = Len(chain) /\ DOMAIN chain = 1 .. n /\ \A i \in 1 .. n : Depth(i) = n - i + 1
  BY LeafDepth DEF Finished
<1> DEFINE Led(i, y) == \E f \in Leads(i) : Wanted(f) /\ y = Node(i, f[i])
           Odd == {d \in 1 .. n : ~\A y \in kept[d] : Led(n - d + 1, y)}
<1>2. Odd = {}
  <2> SUFFICES ASSUME Odd # {} PROVE FALSE
    OBVIOUS
  <2>1. PICK d \in Odd : \A e \in Odd : d <= e
    <3>1. Odd \in SUBSET Nat
      OBVIOUS
    <3> HIDE DEF Odd
    <3> QED
      BY <3>1, LeastNumber
  <2>a. d \in 1 .. n /\ \A e \in 1 .. n : e < d => e \notin Odd
    BY <2>1
  <2>b. ~\A y \in kept[d] : Led(n - d + 1, y)
    BY <2>1
  <2>c. \A e \in 1 .. n : e \notin Odd => \A y \in kept[e] : Led(n - e + 1, y)
    OBVIOUS
  <2> HIDE DEF Led, Odd
  <2>2. PICK i \in 1 .. n : i = n - d + 1 /\ Depth(i) = d
    <3>1. n - d + 1 \in 1 .. n /\ n - (n - d + 1) + 1 = d
      BY <2>a
    <3> QED
      BY <1>1, <3>1
  <2>3. PICK y \in kept[d] : ~Led(i, y)
    BY <2>b, <2>2
  <2>4. kept[d] = Reached(rest, d, kept[d - 1])
    <3>1. d \in 0 .. n
      BY <2>a
    <3> QED
      BY <1>0, <1>1, <3>1
  <2>5. y \in rest /\ y \in AtDepth(tree, Depth(i))
    BY <1>0, <2>2, <2>3, <2>4 DEF Reached, AtDepth
  <2>6. PICK p \in Ends(i) : y = Node(i, p)
    BY <1>1, <2>5, FinishedLevels DEF Finished
  <2>7. Len(chain) \in DOMAIN chain
    BY <1>1
  <2>8. CASE i = n
    <3>1. PICK f \in Leads(i) : f[i] = p
      BY <1>1, <2>6 DEF Ends
    <3>2. Wanted(f)
      <4>1. y \notin OutOfSet(tree, policy.initial_policy_set) /\ Depth(i) = 1
        BY <1>0, <1>1, <2>5, <2>8
      <4>2. y.valid_policy = p
        BY <2>6, NodeFields
      <4>3. p \in policy.initial_policy_set \cup {AnyPolicy}
        BY <2>5, <4>1, <4>2, OutIsOnTop
      <4> QED
        BY <1>1, <2>8, <3>1, <4>3 DEF Wanted
    <3> QED
      BY <2>3, <2>6, <3>1, <3>2 DEF Led
  <2>9. CASE i # n
    <3>1. /\ i + 1 \in 1 .. n /\ n - (d - 1) + 1 = i + 1 /\ d - 1 \in 1 .. n /\ ~(d <= 1) /\ d - 1 < d
          /\ i + 1 > 1
      BY <2>a, <2>2, <2>9
    <3>2. d - 1 \notin Odd
      BY <2>a, <3>1
    <3>3. PICK z \in kept[d - 1] : y.valid_policy \in z.expected_policy_set \/ z.valid_policy = AnyPolicy
      BY <2>3, <2>4, <3>1 DEF Reached
    <3>4. PICK g \in Leads(i + 1) : Wanted(g) /\ z = Node(i + 1, g[i + 1])
      <4>1. Led(n - (d - 1) + 1, z)
        BY <3>1, <3>2, <3>3, <2>c
      <4>2. Led(i + 1, z)
        BY <3>1, <4>1
      <4> QED
        BY <4>2 DEF Led
    <3>5. g[i + 1] # AnyPolicy /\ Over(g, i) = g[i + 1]
      BY <1>1, <2>9, <3>4, Unbroken DEF Finished
    <3>6. p \in ExpectedAt(i + 1, g[i + 1])
      BY <2>6, <3>3, <3>4, <3>5, NodeFields
    <3>7. PICK h \in Leads(i) : h[i] = p
      BY <1>1, <2>6 DEF Ends
    <3>8. CarriesBelow(i, p, Over(h, i)) /\ h \in Leads(i + 1)
      BY <1>1, <3>7, LeadsUp DEF Finished
    <3>9. Over(h, i) # AnyPolicy /\ p # AnyPolicy
      BY <1>1, <2>9, <3>8, Unbroken DEF Finished
    <3>10. CarriesBelow(i, p, g[i + 1])
      BY <3>6, <3>8, <3>9 DEF CarriesBelow, Carries
    <3>11. p \in PolicyOids
      BY <1>1, <2>6, EndsStep DEF Finished
    <3> DEFINE f == [g EXCEPT ![i] = p]
    <3>12. f \in Leads(i) /\ f[i] = p /\ \A j \in i + 1 .. Len(chain) : f[j] = g[j]
      BY <1>1, <3>4, <3>5, <3>10, <3>11, LeadsDown DEF Finished
    <3> HIDE DEF f
    <3>13. f[Len(chain)] = g[Len(chain)]
      BY <1>1, <2>9, <3>1, <3>12
    <3>14. Wanted(f)
      BY <3>4, <3>13 DEF Wanted
    <3> QED
      BY <2>3, <2>6, <3>12, <3>14 DEF Led
  <2> QED
    BY <2>8, <2>9
<1>3. Depth(m) \in 1 .. n /\ n - Depth(m) + 1 = m
  <2>1. m \in 1 .. n /\ n - m + 1 \in 1 .. n /\ n - (n - m + 1) + 1 = m
    BY <1>1
  <2> QED
    BY <1>1, <2>1
<1>4. Led(m, x)
  BY <1>2, <1>3
<1> QED
  BY <1>4

\* The intersection with the relying party's set leaves, at the leaf, what acceptable paths carry there.
LEMMA OutOfSetDeleted ==
  ASSUME NEW tree, Finished(tree), NEW mid, mid = DeleteOutOfSet(tree, policy.initial_policy_set, Len(chain))
  PROVE  /\ PoliciesAt(mid, Len(chain)) = {f[1] : f \in AcceptablePaths}
         /\ \A x \in mid : x.depth \in 0 .. Len(chain)
<1> DEFINE out == OutOfSet(tree, policy.initial_policy_set)
<1>1. PICK n \in Nat \ {0} : n = Len(chain) /\ DOMAIN chain = 1 .. n /\ \A i \in 1 .. n : Depth(i) = n - i + 1
  BY LeafDepth DEF Finished
<1>2. Depth(1) = n /\ 1 \in DOMAIN chain /\ Depth(n) = 1 /\ n \in DOMAIN chain
  BY <1>1
<1>3. AcceptablePaths = {f \in Leads(1) : Wanted(f)}
  <2>1. \A f \in Leads(1) : InInitialSet(f) <=> Wanted(f)
    BY InSetAtTop DEF Finished, Wanted
  <2>2. PolicyPaths = Leads(1)
    BY PathsLead DEF Finished
  <2> QED
    BY <2>1, <2>2, Zenon DEF AcceptablePaths
<1>4. \A x \in tree : x.depth \in 0 .. n
  BY <1>2 DEF Finished, TreeIs, Rooted
<1>5. CASE out = {}
  <2>1. mid = tree
    BY <1>5 DEF DeleteOutOfSet
  <2>2. ASSUME NEW f \in Leads(1) PROVE Wanted(f)
    <3>1. Node(n, f[n]) \in tree
      BY <1>2, FinishedLevels DEF Finished
    <3>2. PICK x : x = Node(n, f[n]) /\ x \in AtDepth(tree, 1) /\ x.valid_policy = f[n]
      BY <1>2, <3>1, NodeFields DEF AtDepth
    <3>3. x.valid_policy \in policy.initial_policy_set \cup {AnyPolicy}
      BY <1>5, <3>2, OutIsOnTop
    <3> QED
      BY <1>1, <3>2, <3>3 DEF Wanted
  <2>3. PoliciesAt(tree, n) = Ends(1)
    BY <1>2, NodeFields DEF Finished, TreeIs, PoliciesAt
  <2>4. Ends(1) = {f[1] : f \in Leads(1)}
    BY <1>1 DEF Ends
  <2>5. AcceptablePaths = Leads(1)
    BY <1>3, <2>2
  <2> QED
    BY <1>1, <1>4, <2>1, <2>3, <2>4, <2>5
<1>6. CASE out # {}
  <2>1. PICK rest : rest = tree \ out
    OBVIOUS
  <2>2. mid = CascadeDown(rest, n)
    BY <1>1, <1>6, <2>1 DEF DeleteOutOfSet
  <2>3. PICK kept : /\ \A d \in 0 .. n : kept[d] = Reached(rest, d, kept[d - 1])
                    /\ CascadeDown(rest, n) = UNION {kept[d] : d \in 0 .. n}
    BY CascadedLevels
  <2>4. \A d \in 0 .. n : kept[d] \subseteq AtDepth(rest, d)
    BY <2>3 DEF Reached
  <2>5. \A d \in 0 .. n : \A x \in kept[d] : x \in rest /\ x.depth = d
    BY <2>4 DEF AtDepth
  <2>6. AtDepth(mid, n) = kept[n]
    <3>1. \A x : x \in mid <=> \E d \in 0 .. n : x \in kept[d]
      BY <2>2, <2>3
    <3>2. n \in 0 .. n
      OBVIOUS
    <3> QED
      BY <2>5, <3>1, <3>2 DEF AtDepth
  <2>7. \A x \in mid : x.depth \in 0 .. n
    BY <2>2, <2>3, <2>5
  <2>a. Cascade(tree, kept) /\ kept[Depth(1)] = kept[n]
    BY <1>1, <1>2, <2>1, <2>3 DEF Cascade
  <2>8. ASSUME NEW x \in kept[n] PROVE \E f \in AcceptablePaths : x.valid_policy = f[1]
    <3>1. x \in kept[Depth(1)]
      BY <2>a
    <3>2. PICK f \in Leads(1) : Wanted(f) /\ x = Node(1, f[1])
      BY <1>2, <2>a, <3>1, OnlyWantedStay
    <3> QED
      BY <1>3, <3>2, NodeFields
  <2>9. ASSUME NEW f \in AcceptablePaths PROVE \E x \in kept[n] : x.valid_policy = f[1]
    <3>1. f \in Leads(1) /\ Wanted(f)
      BY <1>3
    <3>2. Node(1, f[1]) \in kept[n]
      BY <1>2, <2>a, <3>1, WantedStay
    <3> QED
      BY <3>2, NodeFields
  <2>10. PoliciesAt(mid, n) = {f[1] : f \in AcceptablePaths}
    BY <2>6, <2>8, <2>9 DEF PoliciesAt
  <2> QED
    BY <1>1, <2>7, <2>10
<1> QED
  BY <1>5, <1>6

\* An anyPolicy leaf becomes what the relying party asked for; the rest is pruning.
LEMMA Intersected ==
  ASSUME NEW tree, Finished(tree), AnyPolicy \notin policy.initial_policy_set, NEW final,
         final = IntersectInitialSet(tree, policy.initial_policy_set, Len(chain))
  PROVE  /\ PoliciesAt(final, Len(chain)) = AuthorisedPolicies
         /\ final = {} <=> AcceptablePaths = {}
<1>1. PICK n \in Nat \ {0} : n = Len(chain)
  BY LeafDepth DEF Finished
<1>2. PICK W : W = policy.initial_policy_set /\ W # {} /\ AnyPolicy \notin W
  BY DEF Finished
<1>3. PICK mid, leaves : /\ mid = DeleteOutOfSet(tree, W, n) /\ leaves = {f[1] : f \in AcceptablePaths}
                         /\ PoliciesAt(mid, n) = leaves /\ \A x \in mid : x.depth \in 0 .. n
  BY <1>1, <1>2, OutOfSetDeleted
<1>4. PICK full : full = MaterialiseWanted(mid, W, n)
  OBVIOUS
<1>5. final = PostOpPrune(full, n)
  BY <1>1, <1>2, <1>3, <1>4 DEF IntersectInitialSet
<1>6. AuthorisedPolicies = IF AnyPolicy \in leaves THEN (leaves \ {AnyPolicy}) \cup W ELSE leaves
  BY <1>2, <1>3, Zenon DEF AuthorisedPolicies
<1>7. leaves = {} <=> AcceptablePaths = {}
  BY <1>3
<1>8. /\ PoliciesAt(full, n) = AuthorisedPolicies
      /\ \A x \in full : x.depth \in 0 .. n
      /\ AtDepth(full, n) = {} <=> AcceptablePaths = {}
  <2> DEFINE any == {x \in AtDepth(mid, n) : x.valid_policy = AnyPolicy}
             more == {PolicyNode(n, p, {p}) : p \in W \ leaves}
  <2>1. any = {} <=> AnyPolicy \notin leaves
    BY <1>3 DEF PoliciesAt
  <2>2. CASE any = {}
    <3>1. full = mid
      BY <1>4, <2>2 DEF MaterialiseWanted
    <3>2. AtDepth(full, n) = {} <=> leaves = {}
      BY <1>3, <3>1 DEF PoliciesAt
    <3> QED
      BY <1>3, <1>6, <1>7, <2>1, <2>2, <3>1, <3>2
  <2>3. CASE any # {}
    <3>1. full = (mid \ any) \cup more
      BY <1>3, <1>4, <2>3 DEF MaterialiseWanted
    <3>2. /\ \A x \in more : x.depth = n /\ x.valid_policy \in W \ leaves
          /\ \A p \in W \ leaves : \E x \in more : x.depth = n /\ x.valid_policy = p
      <4>1. \A p : PolicyNode(n, p, {p}).depth = n /\ PolicyNode(n, p, {p}).valid_policy = p
        BY NodeFields
      <4>2. ASSUME NEW x \in more PROVE x.depth = n /\ x.valid_policy \in W \ leaves
        <5>1. PICK p \in W \ leaves : x = PolicyNode(n, p, {p})
          OBVIOUS
        <5> QED
          BY <4>1, <5>1
      <4>3. ASSUME NEW p \in W \ leaves PROVE \E x \in more : x.depth = n /\ x.valid_policy = p
        <5>1. PolicyNode(n, p, {p}) \in more
          OBVIOUS
        <5> QED
          BY <4>1, <5>1
      <4> QED
        BY <4>2, <4>3
    <3>3. \A x \in any : x \in mid /\ x.depth = n /\ x.valid_policy = AnyPolicy
      BY DEF AtDepth
    <3>4. \A p : p \in leaves <=> \E x \in mid : x.depth = n /\ x.valid_policy = p
      BY <1>3 DEF PoliciesAt, AtDepth
    <3>5. \A x \in mid : x.depth = n /\ x.valid_policy = AnyPolicy => x \in any
      BY DEF AtDepth
    <3> HIDE DEF any, more
    <3>6. ASSUME NEW p PROVE p \in PoliciesAt(full, n) <=> p \in (leaves \ {AnyPolicy}) \cup (W \ leaves)
      <4>1. p \in PoliciesAt(full, n) <=> \E x \in full : x.depth = n /\ x.valid_policy = p
        BY DEF PoliciesAt, AtDepth
      <4>2. CASE p = AnyPolicy
        BY <1>2, <3>1, <3>2, <3>5, <4>1, <4>2
      <4>3. CASE p # AnyPolicy
        BY <3>1, <3>2, <3>3, <3>4, <4>1, <4>3
      <4> QED
        BY <4>2, <4>3
    <3>7. PoliciesAt(full, n) = AuthorisedPolicies
      BY <1>2, <1>6, <2>1, <2>3, <3>6
    <3>8. \A x \in full : x.depth \in 0 .. n
      BY <1>3, <3>1, <3>2
    <3>9. AtDepth(full, n) # {}
      <4>1. PoliciesAt(full, n) # {}
        BY <1>2, <3>6
      <4> QED
        BY <4>1 DEF PoliciesAt
    <3>10. AcceptablePaths # {}
      BY <1>7, <2>1, <2>3
    <3> QED
      BY <3>7, <3>8, <3>9, <3>10
  <2> QED
    BY <2>2, <2>3
<1>9. AtDepth(final, n) = AtDepth(full, n) /\ (final = {} <=> AtDepth(full, n) = {})
  BY <1>5, <1>8, PostPruned
<1> QED
  BY <1>1, <1>8, <1>9 DEF PoliciesAt

\* 6.1.5 (g): so the final tree is what the acceptable paths say.
LEMMA FinalTreeIs ==
  ASSUME InputsOK, chain # <<>>, SetIsExact, TreeIs(policy_tree, 1),
         Unexpanded => LevelsAre(policy_tree, 1, Leads(1))
  PROVE  /\ PoliciesAt(FinalTree, Len(chain)) = AuthorisedPolicies
         /\ FinalTree = {} <=> AcceptablePaths = {}
<1>1. PICK n \in Nat \ {0} : n = Len(chain) /\ DOMAIN chain = 1 .. n /\ \A i \in 1 .. n : Depth(i) = n - i + 1
  BY LeafDepth
<1>2. Depth(1) = n /\ 1 \in DOMAIN chain
  BY <1>1
<1>3. PoliciesAt(policy_tree, n) = Ends(1) /\ (policy_tree = {} <=> Ends(1) = {})
  BY <1>2, NodeFields DEF TreeIs, PoliciesAt
<1>4. Ends(1) = {f[1] : f \in PolicyPaths}
  BY <1>1, PathsLead DEF Ends
<1>5. CASE policy.initial_policy_set = {}
  <2>1. FinalTree = policy_tree
    BY <1>5 DEF FinalTree
  <2>2. AcceptablePaths = PolicyPaths
    BY <1>5 DEF AcceptablePaths, InInitialSet
  <2>3. AuthorisedPolicies = {f[1] : f \in AcceptablePaths}
    BY <1>5 DEF AuthorisedPolicies
  <2>4. Ends(1) = {} <=> PolicyPaths = {}
    BY <1>4
  <2> QED
    BY <1>1, <1>3, <1>4, <2>1, <2>2, <2>3, <2>4
<1>6. CASE policy.initial_policy_set # {} /\ policy_tree = {}
  <2>1. FinalTree = {}
    BY <1>6 DEF FinalTree, NullTree
  <2>2. AcceptablePaths = {}
    BY <1>2, <1>3, <1>6, NoneEnds
  <2>3. AuthorisedPolicies = {}
    BY <2>2 DEF AuthorisedPolicies
  <2>4. PoliciesAt({}, n) = {}
    BY DEF PoliciesAt, AtDepth
  <2> QED
    BY <1>1, <2>1, <2>2, <2>3, <2>4
<1>7. CASE policy.initial_policy_set # {} /\ policy_tree # {}
  <2>1. AnyPolicy \notin policy.initial_policy_set /\ Unexpanded
    BY <1>7 DEF SetIsExact, Unexpanded
  <2>2. Finished(policy_tree)
    BY <1>7, <2>1 DEF Finished
  <2>3. FinalTree = IntersectInitialSet(policy_tree, policy.initial_policy_set, Len(chain))
    BY <1>7 DEF FinalTree, NullTree
  <2> QED
    BY <2>1, <2>2, <2>3, Intersected
<1> QED
  BY <1>5, <1>6, <1>7

-----------------------------------------------------------------------------
(* Counters: how far the constraints above still are. *)

\* The certificates that count, one position at a time.
LEMMA CountStep ==
  ASSUME NEW a \in Nat, NEW b \in Nat
  PROVE  /\ NonSelfIssued(a, b) \in Nat
         /\ a > b => NonSelfIssued(a, b) = 0
         /\ a <= b => NonSelfIssued(a, b) = NonSelfIssued(a + 1, b) + (IF IsSelfIssued(chain[a]) THEN 0 ELSE 1)
<1> DEFINE S(i) == {j \in i .. b : ~IsSelfIssued(chain[j])}
<1>1. \A i \in Nat : IsFiniteSet(S(i)) /\ Cardinality(S(i)) \in Nat
  <2> SUFFICES ASSUME NEW i \in Nat PROVE IsFiniteSet(S(i))
    BY FS_CardinalityType
  <2>1. IsFiniteSet(i .. b)
    BY FS_Interval
  <2> QED
    BY <2>1, FS_Subset
<1>2. \A i : NonSelfIssued(i, b) = Cardinality(S(i))
  BY DEF NonSelfIssued
<1>3. ASSUME a > b PROVE NonSelfIssued(a, b) = 0
  <2>1. S(a) = {}
    BY <1>3
  <2> QED
    BY <1>2, <2>1, FS_EmptySet
<1>4. ASSUME a <= b PROVE NonSelfIssued(a, b) = NonSelfIssued(a + 1, b) + (IF IsSelfIssued(chain[a]) THEN 0 ELSE 1)
  <2>1. a .. b = {a} \cup (a + 1 .. b) /\ a \notin a + 1 .. b
    BY <1>4
  <2>2. CASE IsSelfIssued(chain[a])
    <3>1. S(a) = S(a + 1)
      BY <2>1, <2>2
    <3>2. Cardinality(S(a + 1)) \in Nat
      BY <1>1
    <3> QED
      BY <1>2, <2>2, <3>1, <3>2
  <2>3. CASE ~IsSelfIssued(chain[a])
    <3>1. S(a) = S(a + 1) \cup {a} /\ a \notin S(a + 1)
      BY <2>1, <2>3
    <3>2. IsFiniteSet(S(a + 1))
      BY <1>1
    <3> HIDE DEF S
    <3>3. Cardinality(S(a + 1) \cup {a}) = Cardinality(S(a + 1)) + 1
      BY <3>1, <3>2, FS_AddElement
    <3> QED
      BY <1>2, <2>3, <3>1, <3>3
  <2> QED
    BY <2>2, <2>3
<1> QED
  BY <1>1, <1>2, <1>3, <1>4

\* There are no more of them than positions, and most from the leaf up.
LEMMA CountBounds ==
  ASSUME NEW a \in Nat \ {0}, NEW b \in Nat
  PROVE  /\ NonSelfIssued(a, b) \in Nat /\ NonSelfIssued(1, b) \in Nat
         /\ NonSelfIssued(a, b) <= b /\ NonSelfIssued(a, b) <= NonSelfIssued(1, b)
<1> DEFINE S(i) == {j \in i .. b : ~IsSelfIssued(chain[j])}
<1>1. IsFiniteSet(1 .. b) /\ Cardinality(1 .. b) = b
  BY FS_Interval
<1>2. S(a) \subseteq 1 .. b /\ S(a) \subseteq S(1) /\ S(1) \subseteq 1 .. b
  OBVIOUS
<1>3. IsFiniteSet(S(1))
  BY <1>1, <1>2, FS_Subset
<1>4. NonSelfIssued(a, b) = Cardinality(S(a)) /\ NonSelfIssued(1, b) = Cardinality(S(1))
  BY DEF NonSelfIssued
<1>5. NonSelfIssued(a, b) \in Nat /\ NonSelfIssued(1, b) \in Nat
  BY CountStep
<1> HIDE DEF S
<1>6. Cardinality(S(a)) <= Cardinality(1 .. b) /\ Cardinality(S(a)) <= Cardinality(S(1))
  BY <1>1, <1>2, <1>3, FS_Subset
<1> QED
  BY <1>1, <1>4, <1>5, <1>6

\* The skips a chain asks for are numbers.
LEMMA SkipsAreNumbers ==
  ASSUME InputsOK, NEW skips \in {ExplicitSkips, MappingSkips, AnySkips}
  PROVE  \A j \in DOMAIN chain : skips[j] \in Nat \cup {Absent}
<1>1. \A j \in DOMAIN chain :
        {RequireExplicit(chain[j]), InhibitMapping(chain[j]), InhibitAnyPolicy(chain[j])} \subseteq Nat \cup {Absent}
  BY SkipCertsAssumption DEF InputsOK
<1> QED
  BY <1>1 DEF ExplicitSkips, MappingSkips, AnySkips

\* A walk starts with nothing above it.
LEMMA CounterStarts ==
  ASSUME InputsOK, NEW initial, NEW skips
  PROVE  CounterIs(IF initial THEN 0 ELSE Len(chain) + 1, initial, skips, Len(chain))
<1>1. PICK n \in Nat : n = Len(chain)
  BY Positions, Zenon
<1>2. NonSelfIssued(n + 1, n) = 0
  BY CountStep
<1>3. Above(n) = {}
  BY <1>1 DEF Above
<1>4. ASSUME NEW v \in Nat
      PROVE  (IF initial THEN 0 ELSE n + 1) <= v <=>
               \/ initial
               \/ n + 1 <= v + NonSelfIssued(n + 1, n)
               \/ \E j \in Above(n) : skips[j] # Absent /\ skips[j] <= v + NonSelfIssued(n + 1, j - 1)
  BY <1>2, <1>3
<1> QED
  BY <1>1, <1>4 DEF CounterIs

\* 6.1.4 (h) to (j): decrementing and clamping is going down by one position.
LEMMA CounterGoesDown ==
  ASSUME InputsOK, NEW m \in DOMAIN chain, NEW initial, NEW skips, NEW counter \in Nat,
         \A j \in DOMAIN chain : skips[j] \in Nat \cup {Absent},
         CounterIs(counter, initial, skips, m)
  PROVE  CounterIs(CounterAfter(chain[m], counter, skips[m]), initial, skips, m - 1)
<1>1. PICK n \in Nat : n = Len(chain) /\ DOMAIN chain = 1 .. n
  BY Positions, Zenon
<1>2. m \in 1 .. n /\ m \in Nat /\ m - 1 \in Nat /\ m - 1 + 1 = m
  BY <1>1
<1> DEFINE ns == IF IsSelfIssued(chain[m]) THEN 0 ELSE 1
           dec == Decremented(chain[m], counter)
           new == CounterAfter(chain[m], counter, skips[m])
<1> SUFFICES ASSUME NEW v \in Nat
             PROVE  new <= v <=>
                      \/ initial
                      \/ n + 1 <= v + NonSelfIssued(m, n)
                      \/ \E j \in Above(m - 1) : skips[j] # Absent /\ skips[j] <= v + NonSelfIssued(m, j - 1)
  BY <1>1, <1>2 DEF CounterIs
<1>3. ns \in Nat /\ dec \in Nat /\ (dec <= v <=> counter <= v + ns)
  BY DEF Decremented
<1>4. new <= v <=> dec <= v \/ (skips[m] # Absent /\ skips[m] <= v)
  <2>1. new = ClampTo(dec, skips[m]) /\ skips[m] \in Nat \cup {Absent}
    BY DEF CounterAfter
  <2> HIDE DEF new, dec
  <2> QED
    BY <1>3, <2>1 DEF ClampTo
<1>5. counter <= v + ns <=>
        \/ initial
        \/ n + 1 <= v + ns + NonSelfIssued(m + 1, n)
        \/ \E j \in Above(m) : skips[j] # Absent /\ skips[j] <= v + ns + NonSelfIssued(m + 1, j - 1)
  <2>1. v + ns \in Nat
    BY <1>3
  <2> HIDE DEF ns
  <2> QED
    BY <1>1, <2>1 DEF CounterIs
<1>6. NonSelfIssued(m, n) = NonSelfIssued(m + 1, n) + ns /\ NonSelfIssued(m + 1, n) \in Nat
  <2>1. m <= n /\ m + 1 \in Nat
    BY <1>2
  <2> QED
    BY <1>2, <2>1, CountStep
<1>7. \A j \in Above(m) : /\ NonSelfIssued(m, j - 1) = NonSelfIssued(m + 1, j - 1) + ns
                          /\ NonSelfIssued(m + 1, j - 1) \in Nat /\ skips[j] \in Nat \cup {Absent}
  <2> SUFFICES ASSUME NEW j \in m + 1 .. n
               PROVE  /\ NonSelfIssued(m, j - 1) = NonSelfIssued(m + 1, j - 1) + ns
                      /\ NonSelfIssued(m + 1, j - 1) \in Nat /\ skips[j] \in Nat \cup {Absent}
    BY <1>1 DEF Above
  <2>1. j - 1 \in Nat /\ m <= j - 1 /\ m + 1 \in Nat /\ j \in 1 .. n
    BY <1>2
  <2> QED
    BY <1>1, <1>2, <2>1, CountStep
<1>8. NonSelfIssued(m, m - 1) = 0
  BY <1>2, CountStep
<1>9. Above(m - 1) = {m} \cup Above(m)
  <2>1. m .. n = {m} \cup (m + 1 .. n)
    BY <1>2
  <2> QED
    BY <1>1, <1>2, <2>1 DEF Above
<1>10. skips[m] \in Nat \cup {Absent}
  OBVIOUS
<1> HIDE DEF ns, dec, new
<1>11. ASSUME NEW j \in Above(m)
       PROVE  skips[j] # Absent => (skips[j] <= v + NonSelfIssued(m, j - 1) <=>
                                      skips[j] <= v + ns + NonSelfIssued(m + 1, j - 1))
  BY <1>3, <1>7
<1>12. n + 1 <= v + NonSelfIssued(m, n) <=> n + 1 <= v + ns + NonSelfIssued(m + 1, n)
  BY <1>3, <1>6
<1>13. (\E j \in Above(m - 1) : skips[j] # Absent /\ skips[j] <= v + NonSelfIssued(m, j - 1)) <=>
         \/ skips[m] # Absent /\ skips[m] <= v
         \/ \E j \in Above(m) : skips[j] # Absent /\ skips[j] <= v + ns + NonSelfIssued(m + 1, j - 1)
  BY <1>8, <1>9, <1>11
<1> QED
  BY <1>3, <1>4, <1>5, <1>12, <1>13

\* What the walk reads off its counters at position m, before they are updated.
LEMMA CountersRead ==
  ASSUME InputsOK, NEW m \in DOMAIN chain, CountersAre(explicit_policy, policy_mapping, inhibit_any, m),
         explicit_policy \in Nat, inhibit_any \in Nat, policy_mapping \in Nat
  PROVE  /\ inhibit_any > 0 \/ (m > 1 /\ IsSelfIssued(chain[m])) <=> AnyUsable(m)
         /\ policy_mapping > 0 <=> MappingActive(m)
         /\ explicit_policy = 0 => ExplicitRequired
<1>1. PICK n \in Nat : n = Len(chain) /\ DOMAIN chain = 1 .. n
  BY Positions, Zenon
<1>2. m \in 1 .. n /\ m + 1 \in Nat \ {0}
  BY <1>1
<1>3. ~(n + 1 <= 0 + NonSelfIssued(m + 1, n))
  <2>1. NonSelfIssued(m + 1, n) \in Nat /\ NonSelfIssued(m + 1, n) <= n
    BY <1>2, CountBounds
  <2> QED
    BY <2>1
<1>4. ASSUME NEW j \in Above(m)
      PROVE  /\ NonSelfIssued(m + 1, j - 1) \in Nat
             /\ NonSelfIssued(m + 1, j - 1) <= NonSelfIssued(1, j - 1) /\ NonSelfIssued(1, j - 1) \in Nat
             /\ j \in DOMAIN chain
  <2>1. j - 1 \in Nat /\ j \in 1 .. n
    BY <1>1, <1>2 DEF Above
  <2>2. /\ NonSelfIssued(m + 1, j - 1) \in Nat /\ NonSelfIssued(1, j - 1) \in Nat
        /\ NonSelfIssued(m + 1, j - 1) <= NonSelfIssued(1, j - 1)
    BY <1>2, <2>1, CountBounds
  <2> QED
    BY <1>1, <2>1, <2>2
<1>5. ASSUME NEW counter \in Nat, NEW initial, NEW skips, CounterIs(counter, initial, skips, m)
      PROVE  counter = 0 <=> initial \/ \E j \in Above(m) : Reaches(skips[j], j, m)
  <2>1. counter <= 0 <=> \/ initial
                         \/ n + 1 <= 0 + NonSelfIssued(m + 1, n)
                         \/ \E j \in Above(m) : skips[j] # Absent /\ skips[j] <= 0 + NonSelfIssued(m + 1, j - 1)
    BY <1>1, <1>5 DEF CounterIs
  <2>2. \A j \in Above(m) : 0 + NonSelfIssued(m + 1, j - 1) = NonSelfIssued(m + 1, j - 1)
    BY <1>4
  <2> QED
    BY <1>3, <2>1, <2>2 DEF Reaches
<1>6. \A j \in Above(m) : /\ ExplicitSkips[j] = RequireExplicit(chain[j])
                          /\ MappingSkips[j] = InhibitMapping(chain[j])
                          /\ AnySkips[j] = InhibitAnyPolicy(chain[j])
  BY <1>4 DEF ExplicitSkips, MappingSkips, AnySkips
<1>7. inhibit_any > 0 \/ (m > 1 /\ IsSelfIssued(chain[m])) <=> AnyUsable(m)
  <2>1. inhibit_any = 0 <=> \/ policy.initial_any_policy_inhibit
                            \/ \E j \in Above(m) : Reaches(AnySkips[j], j, m)
    BY <1>5 DEF CountersAre
  <2>2. inhibit_any > 0 <=> inhibit_any # 0
    OBVIOUS
  <2> QED
    BY <1>6, <2>1, <2>2 DEF AnyUsable
<1>8. policy_mapping > 0 <=> MappingActive(m)
  <2>1. policy_mapping = 0 <=> \/ policy.initial_policy_mapping_inhibit
                               \/ \E j \in Above(m) : Reaches(MappingSkips[j], j, m)
    BY <1>5 DEF CountersAre
  <2>2. policy_mapping > 0 <=> policy_mapping # 0
    OBVIOUS
  <2> QED
    BY <1>6, <2>1, <2>2 DEF MappingActive
<1>9. ASSUME explicit_policy = 0 PROVE ExplicitRequired
  <2>1. \/ policy.initial_explicit_policy
        \/ \E j \in Above(m) : Reaches(ExplicitSkips[j], j, m)
    BY <1>5, <1>9 DEF CountersAre
  <2>2. ASSUME NEW j \in Above(m), Reaches(ExplicitSkips[j], j, m)
        PROVE  Reaches(RequireExplicit(chain[j]), j, 0) /\ j \in DOMAIN chain
    <3>1. RequireExplicit(chain[j]) \in Nat \cup {Absent}
      BY <1>4, SkipCertsAssumption DEF InputsOK
    <3>2. 0 + 1 = 1
      OBVIOUS
    <3> QED
      BY <1>4, <1>6, <2>2, <3>1, <3>2 DEF Reaches
  <2> QED
    BY <2>1, <2>2 DEF ExplicitRequired
<1> QED
  BY <1>7, <1>8, <1>9

\* 6.1.5 (a) and (b): and what it reads at the end, when the leaf has had its say.
LEMMA ExplicitRead ==
  ASSUME InputsOK, chain # <<>>, NEW counter \in Nat,
         CounterIs(counter, policy.initial_explicit_policy, ExplicitSkips, 1)
  PROVE  CounterAfter(chain[1], counter, RequireExplicit(chain[1])) = 0 <=> ExplicitRequired
<1>1. PICK n \in Nat \ {0} : n = Len(chain) /\ DOMAIN chain = 1 .. n
  BY LeafDepth
<1>2. 1 \in DOMAIN chain /\ 1 - 1 = 0 /\ ExplicitSkips[1] = RequireExplicit(chain[1])
  BY <1>1 DEF ExplicitSkips
<1>3. PICK new : new = CounterAfter(chain[1], counter, ExplicitSkips[1])
  OBVIOUS
<1>4. \A j \in DOMAIN chain : ExplicitSkips[j] \in Nat \cup {Absent}
  BY SkipsAreNumbers
<1>5. CounterIs(new, policy.initial_explicit_policy, ExplicitSkips, 0)
  <2>1. CounterIs(new, policy.initial_explicit_policy, ExplicitSkips, 1 - 1)
    BY <1>2, <1>3, <1>4, CounterGoesDown
  <2> QED
    BY <1>2, <2>1
<1>6. new \in Nat
  BY <1>2, <1>3, <1>4 DEF CounterAfter, ClampTo, Decremented
<1>7. Above(0) = DOMAIN chain /\ 0 + 1 = 1
  BY <1>1 DEF Above
<1>8. ~(n + 1 <= 0 + NonSelfIssued(1, n))
  <2>1. NonSelfIssued(1, n) \in Nat /\ NonSelfIssued(1, n) <= n
    BY CountBounds
  <2> QED
    BY <2>1
<1>9. \A j \in DOMAIN chain : /\ 0 + NonSelfIssued(1, j - 1) = NonSelfIssued(1, j - 1)
                              /\ ExplicitSkips[j] = RequireExplicit(chain[j])
  <2> SUFFICES ASSUME NEW j \in DOMAIN chain PROVE NonSelfIssued(1, j - 1) \in Nat
    BY DEF ExplicitSkips
  <2>1. j - 1 \in Nat
    BY <1>1
  <2> QED
    BY <2>1, CountStep
<1>10. new <= 0 <=> \/ policy.initial_explicit_policy
                    \/ \E j \in DOMAIN chain : RequireExplicit(chain[j]) # Absent
                                               /\ RequireExplicit(chain[j]) <= NonSelfIssued(1, j - 1)
  <2>1. new <= 0 <=> \/ policy.initial_explicit_policy
                     \/ n + 1 <= 0 + NonSelfIssued(0 + 1, n)
                     \/ \E j \in Above(0) : ExplicitSkips[j] # Absent
                                            /\ ExplicitSkips[j] <= 0 + NonSelfIssued(0 + 1, j - 1)
    BY <1>1, <1>5 DEF CounterIs
  <2> QED
    BY <1>7, <1>8, <1>9, <2>1
<1>11. new = 0 <=> ExplicitRequired
  BY <1>6, <1>7, <1>10 DEF ExplicitRequired, Reaches
<1> QED
  BY <1>2, <1>3, <1>11

-----------------------------------------------------------------------------
(* The walk. *)

\* What the policies of a chain say is up to the chain and the caller's policy.
LEMMA PolicyKept ==
  ASSUME UNCHANGED inputs
  PROVE  /\ \A t, m : TreeMapped(t, m)' <=> TreeMapped(t, m)
         /\ \A t, m : TreeGrown(t, m)' <=> TreeGrown(t, m)
         /\ \A m : MapsNoAny(m)' <=> MapsNoAny(m)
         /\ \A e, p, a, m : CountersAre(e, p, a, m)' <=> CountersAre(e, p, a, m)
         /\ \A err : Blamed(err)' <=> Blamed(err)
         /\ SetIsExact' <=> SetIsExact
         /\ IdentitiesLast' <=> IdentitiesLast
         /\ Violated' <=> Violated
<1>1. chain' = chain /\ policy' = policy
  BY DEF inputs
<1>2. /\ \A m : Above(m)' = Above(m)
      /\ \A m : Mappings(m)' = Mappings(m)
      /\ \A m, p : Asserts(m, p)' <=> Asserts(m, p)
      /\ \A a, b : NonSelfIssued(a, b)' = NonSelfIssued(a, b)
      /\ \A m : Depth(m)' = Depth(m)
  <2>1. \A m : Above(m)' = Above(m)
    BY <1>1, Zenon DEF Above
  <2>2. \A m : Mappings(m)' = Mappings(m)
    BY <1>1, Zenon DEF Mappings, Present
  <2>3. \A m, p : Asserts(m, p)' <=> Asserts(m, p)
    BY <1>1, Zenon DEF Asserts, Present
  <2>4. \A a, b : NonSelfIssued(a, b)' = NonSelfIssued(a, b)
    BY <1>1, Zenon DEF NonSelfIssued, IsSelfIssued
  <2>5. \A m : Depth(m)' = Depth(m)
    BY <1>1, Zenon DEF Depth
  <2> QED
    BY <2>1, <2>2, <2>3, <2>4, <2>5
<1>3. /\ \A m : MappedFrom(m)' = MappedFrom(m)
      /\ \A m, p : Expected(m, p)' = Expected(m, p)
      /\ \A m, p : ExpectedAt(m, p)' = ExpectedAt(m, p)
      /\ \A m, p : Node(m, p)' = Node(m, p)
      /\ \A m : MapsNoAny(m)' <=> MapsNoAny(m)
  <2>1. \A m : MappedFrom(m)' = MappedFrom(m)
    BY <1>2, Zenon DEF MappedFrom
  <2>2. \A m, p : Expected(m, p)' = Expected(m, p)
    BY <1>2, <2>1, Zenon DEF Expected
  <2>3. \A m, p : ExpectedAt(m, p)' = ExpectedAt(m, p)
    BY <1>1, <2>2, Zenon DEF ExpectedAt
  <2>4. \A m, p : Node(m, p)' = Node(m, p)
    BY <1>2, <2>3, Zenon DEF Node, PolicyNode
  <2>5. \A m : MapsNoAny(m)' <=> MapsNoAny(m)
    BY <1>2, Zenon DEF MapsNoAny
  <2> QED
    BY <2>1, <2>2, <2>3, <2>4, <2>5
<1>4. \A s, j, m : Reaches(s, j, m)' <=> Reaches(s, j, m)
  BY <1>2, Zenon DEF Reaches
<1>5. /\ \A m : AnyUsable(m)' <=> AnyUsable(m)
      /\ \A m : MappingActive(m)' <=> MappingActive(m)
      /\ \A m : AnyNode(m)' <=> AnyNode(m)
      /\ ExplicitRequired' <=> ExplicitRequired
  <2>1. \A m : AnyUsable(m)' <=> AnyUsable(m)
    BY <1>1, <1>2, <1>4, Zenon DEF AnyUsable, IsSelfIssued, InhibitAnyPolicy, Present
  <2>2. \A m : MappingActive(m)' <=> MappingActive(m)
    BY <1>1, <1>2, <1>4, Zenon DEF MappingActive, InhibitMapping, Present
  <2>3. \A m : AnyNode(m)' <=> AnyNode(m)
    BY <1>2, <2>1, Zenon DEF AnyNode
  <2>4. ExplicitRequired' <=> ExplicitRequired
    BY <1>1, <1>4, Zenon DEF ExplicitRequired, RequireExplicit, Present
  <2> QED
    BY <2>1, <2>2, <2>3, <2>4
<1>6. /\ PolicyOids' = PolicyOids
      /\ \A m, p, q, e : Carries(m, p, q, e)' <=> Carries(m, p, q, e)
      /\ \A m, p, q : CarriesBelow(m, p, q)' <=> CarriesBelow(m, p, q)
      /\ \A m, p, q : Admits(m, p, q)' <=> Admits(m, p, q)
      /\ \A f, m : Over(f, m)' = Over(f, m)
  <2>1. PolicyOids' = PolicyOids
    <3>1. {i \in DOMAIN chain : Present(chain[i].cp)}' = {i \in DOMAIN chain : Present(chain[i].cp)}
      BY <1>1, Zenon DEF Present
    <3>2. {Mappings(m) : m \in DOMAIN chain}' = {Mappings(m) : m \in DOMAIN chain}
      BY <1>1, <1>2, Zenon
    <3> QED
      BY <1>1, <3>1, <3>2, Zenon DEF PolicyOids
  <2>2. \A m, p, q, e : Carries(m, p, q, e)' <=> Carries(m, p, q, e)
    BY <1>2, <1>3, <1>5 DEF Carries
  <2>3. \A m, p, q : CarriesBelow(m, p, q)' <=> CarriesBelow(m, p, q)
    BY <1>3, <2>2, Zenon DEF CarriesBelow
  <2>4. \A m, p, q : Admits(m, p, q)' <=> Admits(m, p, q)
    BY <1>2, <1>3, <1>5, Zenon DEF Admits
  <2>5. \A f, m : Over(f, m)' = Over(f, m)
    BY <1>1, Zenon DEF Over
  <2> QED
    BY <2>1, <2>2, <2>3, <2>4, <2>5
<1>7. /\ \A m : Leads(m)' = Leads(m)
      /\ \A m : Ends(m)' = Ends(m)
      /\ \A m : Grown(m)' = Grown(m)
      /\ \A m : GrownPaths(m)' = GrownPaths(m)
      /\ PolicyPaths' = PolicyPaths
  <2>1. \A m : Leads(m)' = Leads(m)
    BY <1>1, <1>6, Zenon DEF Leads
  <2>2. \A m : Ends(m)' = Ends(m)
    BY <1>1, <2>1, Zenon DEF Ends
  <2>3. \A m : Grown(m)' = Grown(m)
    BY <1>6, <2>2, Zenon DEF Grown
  <2>4. \A m : GrownPaths(m)' = GrownPaths(m)
    BY <1>6, <2>1, Zenon DEF GrownPaths
  <2>5. PolicyPaths' = PolicyPaths
    BY <1>1, <1>3, <1>6, Zenon DEF PolicyPaths
  <2> QED
    BY <2>1, <2>2, <2>3, <2>4, <2>5
<1>8. /\ SetIsExact' <=> SetIsExact
      /\ IdentitiesLast' <=> IdentitiesLast
      /\ Unexpanded' <=> Unexpanded
      /\ Violated' <=> Violated
  <2>1. SetIsExact' <=> SetIsExact
    BY <1>1, <1>2, Zenon DEF SetIsExact
  <2>2. IdentitiesLast' <=> IdentitiesLast
    BY <1>1, <1>2 DEF IdentitiesLast, Present
  <2>3. Unexpanded' <=> Unexpanded
    BY <1>2, Zenon DEF Unexpanded
  <2>4. \A f : InInitialSet(f)' <=> InInitialSet(f)
    BY <1>1, <1>2, Zenon DEF InInitialSet
  <2>5. AcceptablePaths' = AcceptablePaths
    BY <1>7, <2>4, Zenon DEF AcceptablePaths
  <2>6. MapsAny' <=> MapsAny
    BY <1>1, <1>2, Zenon DEF MapsAny
  <2>7. Violated' <=> Violated
    BY <1>5, <2>5, <2>6, Zenon DEF Violated
  <2> QED
    BY <2>1, <2>2, <2>3, <2>7
<1>9. /\ \A t, m : TreeMapped(t, m)' <=> TreeMapped(t, m)
      /\ \A t, m : TreeGrown(t, m)' <=> TreeGrown(t, m)
  <2>1. \A t, m : Rooted(t, m)' <=> Rooted(t, m)
    BY <1>2, Zenon DEF Rooted
  <2>2. \A t, m : TreeIs(t, m)' <=> TreeIs(t, m)
    BY <1>2, <1>3, <1>7, <2>1, Zenon DEF TreeIs
  <2>3. \A t, m : GrownIs(t, m)' <=> GrownIs(t, m)
    BY <1>2, <1>7, <2>1, Zenon DEF GrownIs
  <2>4. \A t, m, paths : LevelsAre(t, m, paths)' <=> LevelsAre(t, m, paths)
    <3>1. \A i : {Node(i, p) : p \in Ends(i)}' = {Node(i, p) : p \in Ends(i)}
      BY <1>3, <1>7, Zenon
    <3>2. \A i, f : Node(i, f[i])' = Node(i, f[i])
      BY <1>3, Zenon
    <3>3. \A m : (m + 1 .. Len(chain))' = m + 1 .. Len(chain)
      BY <1>1, Zenon
    <3> QED
      BY <1>2, <3>1, <3>2, <3>3, Zenon DEF LevelsAre
  <2>5. \A t, m : TreeMapped(t, m)' <=> TreeMapped(t, m)
    BY <1>7, <1>8, <2>2, <2>4, Zenon DEF TreeMapped
  <2>6. \A t, m : TreeGrown(t, m)' <=> TreeGrown(t, m)
    BY <1>7, <1>8, <2>3, <2>4, Zenon DEF TreeGrown
  <2> QED
    BY <2>5, <2>6
<1>10. \A e, p, a, m : CountersAre(e, p, a, m)' <=> CountersAre(e, p, a, m)
  <2>1. \A c, i, s, m : CounterIs(c, i, s, m)' <=> CounterIs(c, i, s, m)
    BY <1>1, <1>2, Zenon DEF CounterIs
  <2>2. ExplicitSkips' = ExplicitSkips /\ MappingSkips' = MappingSkips /\ AnySkips' = AnySkips
    BY <1>1, Zenon
    DEF ExplicitSkips, MappingSkips, AnySkips, RequireExplicit, InhibitMapping, InhibitAnyPolicy, Present
  <2> QED
    BY <1>1, <2>1, <2>2, Zenon DEF CountersAre
<1>11. \A err : Blamed(err)' <=> Blamed(err)
  BY <1>8, Zenon DEF Blamed
<1> QED
  BY <1>3, <1>8, <1>9, <1>10, <1>11

\* A walk that fails leaves an error; one about policies is justified.
LEMMA FailPolicies ==
  ASSUME pc \in WalkPhases \cup {"finish"}, NEW kind, NEW index, Fail(kind, index), Blamed(Error(kind, index))
  PROVE  PInv'
<1>1. pc' = "anchors" /\ last_err' = Error(kind, index) /\ UNCHANGED inputs
  BY DEF Fail
<1>2. PICK err : err = Error(kind, index)
  OBVIOUS
<1>3. Blamed(err)'
  BY <1>1, <1>2, PolicyKept
<1>4. Blamed(last_err)'
  BY <1>1, <1>2, <1>3
<1> QED
  BY <1>1, <1>4 DEF PInv, TreeInv, MappingsInv, CountersInv, PolicyVerdict, WalkPhases

\* Errors of other kinds need no justification.
LEMMA OtherBlame ==
  ASSUME NEW kind, NEW index, kind # "PolicyViolation"
  PROVE  Blamed(Error(kind, index))
BY DEF Blamed, Error

\* Of the lists of checks, only that of the CAs has an error about policies: its last one.
LEMMA OnlyMappingsBlamePolicies ==
  ASSUME NEW c
  PROVE  /\ \A j \in DOMAIN CertChecks(c) : CertChecks(c)[j][2] # "PolicyViolation"
         /\ \A j \in DOMAIN NameChecks(c) : NameChecks(c)[j][2] # "PolicyViolation"
         /\ \A j \in DOMAIN LeafChecks(c) : LeafChecks(c)[j][2] # "PolicyViolation"
         /\ \A j \in DOMAIN CaChecks(c) : CaChecks(c)[j][2] = "PolicyViolation" => j = 9
         /\ \A j \in DOMAIN ConstraintChecks(c) : ConstraintChecks(c)[j][2] # "PolicyViolation"
<1>1. \A j \in DOMAIN CertChecks(c) : CertChecks(c)[j][2] # "PolicyViolation"
  BY DEF CertChecks
<1>2. \A j \in DOMAIN NameChecks(c) : NameChecks(c)[j][2] # "PolicyViolation"
  BY DEF NameChecks
<1>3. \A j \in DOMAIN LeafChecks(c) : LeafChecks(c)[j][2] # "PolicyViolation"
  BY DEF LeafChecks
<1>4. \A j \in DOMAIN CaChecks(c) : CaChecks(c)[j][2] = "PolicyViolation" => j = 9
  BY DEF CaChecks
<1>5. \A j \in DOMAIN ConstraintChecks(c) : ConstraintChecks(c)[j][2] # "PolicyViolation"
  BY DEF ConstraintChecks
<1> QED
  BY <1>1, <1>2, <1>3, <1>4, <1>5

\* A list of checks that fails ends the walk with one of its errors.
LEMMA ChecksFailPolicies ==
  ASSUME pc \in WalkPhases, NEW checks, FailsOneOf(checks, k),
         \A j \in DOMAIN checks : checks[j][2] # "PolicyViolation"
  PROVE  PInv'
<1>1. PICK j \in DOMAIN checks : Fail(checks[j][2], k)
  BY DEF FailsOneOf
<1> QED
  BY <1>1, OtherBlame, FailPolicies

\* A walk that goes on: what there is to show of the next state, in terms of the chain alone.
LEMMA WalkGoesOn ==
  ASSUME UNCHANGED inputs, NEW phase \in WalkPhases \cup {"finish"}, pc' = phase,
         NEW tree, tree = policy_tree', NEW i, i = k', NEW c, c = Counted',
         NEW explicit, explicit = explicit_policy', NEW mapping, mapping = policy_mapping',
         NEW any, any = inhibit_any',
         phase \in {"check", "policies", "finish"} => TreeMapped(tree, i + 1),
         phase \in {"names", "leaf", "ca", "mappings"} => TreeGrown(tree, i),
         phase \in {"counters", "constraints", "next"} => TreeMapped(tree, i),
         \A m \in DOMAIN chain : m > i => MapsNoAny(m),
         phase \in {"mappings", "counters", "constraints", "next"} => MapsNoAny(i),
         CountersAre(explicit, mapping, any, c)
  PROVE  PInv'
<1>1. /\ \A t, m : TreeMapped(t, m)' <=> TreeMapped(t, m)
      /\ \A t, m : TreeGrown(t, m)' <=> TreeGrown(t, m)
      /\ \A m : MapsNoAny(m)' <=> MapsNoAny(m)
      /\ \A e, p, a, m : CountersAre(e, p, a, m)' <=> CountersAre(e, p, a, m)
      /\ chain' = chain
  BY PolicyKept DEF inputs
<1>2. TreeInv'
  <2>1. phase \in {"check", "policies", "finish"} => TreeMapped(policy_tree, k + 1)'
    <3>1. PICK h : h = i + 1
      OBVIOUS
    <3>2. TreeMapped(tree, h) => TreeMapped(tree, h)'
      BY <1>1
    <3> QED
      BY <3>1, <3>2
  <2>2. phase \in {"names", "leaf", "ca", "mappings"} => TreeGrown(policy_tree, k)'
    <3>1. TreeGrown(tree, i) => TreeGrown(tree, i)'
      BY <1>1
    <3> QED
      BY <3>1
  <2>3. phase \in {"counters", "constraints", "next"} => TreeMapped(policy_tree, k)'
    <3>1. TreeMapped(tree, i) => TreeMapped(tree, i)'
      BY <1>1
    <3> QED
      BY <3>1
  <2> QED
    BY <2>1, <2>2, <2>3 DEF TreeInv
<1>3. MappingsInv'
  <2>1. \A m \in DOMAIN chain' : m > k' => MapsNoAny(m)'
    BY <1>1
  <2>2. phase \in {"mappings", "counters", "constraints", "next"} => MapsNoAny(k)'
    <3>1. MapsNoAny(i) => MapsNoAny(i)'
      BY <1>1
    <3> QED
      BY <3>1
  <2> QED
    BY <2>1, <2>2 DEF MappingsInv
<1>4. CountersInv'
  <2>1. CountersAre(explicit, mapping, any, c)'
    BY <1>1
  <2>2. CountersAre(explicit_policy, policy_mapping, inhibit_any, Counted)'
    BY <2>1
  <2> QED
    BY <2>2 DEF CountersInv
<1>5. phase \notin {"start", "anchors", "returned"}
  BY DEF WalkPhases
<1> QED
  BY <1>2, <1>3, <1>4, <1>5 DEF PInv, PolicyVerdict

\* Where the walk is, and what it knows there.
LEMMA InThePolicyWalk ==
  ASSUME IInv, PInv, pc \in WalkPhases
  PROVE  /\ InputsOK /\ k \in DOMAIN chain /\ k \in Nat /\ k > 0 /\ chain # <<>>
         /\ explicit_policy \in Nat /\ inhibit_any \in Nat /\ policy_mapping \in Nat
         /\ \A m \in DOMAIN chain : m > k => MapsNoAny(m)
         /\ pc \in {"mappings", "counters", "constraints", "next"} => MapsNoAny(k)
         /\ pc = "leaf" => k = 1
         /\ pc \in CaPhases => k > 1
         /\ CountersAre(explicit_policy, policy_mapping, inhibit_any, Counted)
<1>1. InputsOK /\ k \in DOMAIN chain /\ chain # <<>>
  BY DEF IInv, TypeOK, InputsOK, WalkPhases
<1>2. k \in Nat /\ k > 0
  BY <1>1, PositionAbove
<1>3. explicit_policy \in Nat /\ inhibit_any \in Nat /\ policy_mapping \in Nat
  BY DEF IInv, TypeOK
<1>4. (pc = "leaf" => k = 1) /\ (pc \in CaPhases => k > 1)
  BY DEF IInv, WalkInv, PhaseInv, Progress
<1> QED
  BY <1>1, <1>2, <1>3, <1>4 DEF PInv, MappingsInv, CountersInv

\* A step to another phase of the same certificate, which leaves the counters alone.
LEMMA PhasePolicies ==
  ASSUME IInv, PInv, pc \in WalkPhases \ {"next"}, NEW phase \in WalkPhases \ {"check"}, pc' = phase,
         UNCHANGED <<inputs, k, counters>>, NEW tree, tree = policy_tree',
         (phase \in {"constraints", "next"} /\ k > 1) => pc = "constraints",
         pc = "constraints" => phase = "next",
         phase = "policies" => TreeMapped(tree, k + 1),
         phase \in {"names", "leaf", "ca", "mappings"} => TreeGrown(tree, k),
         phase \in {"counters", "constraints", "next"} => TreeMapped(tree, k),
         phase \in {"mappings", "counters", "constraints", "next"} => MapsNoAny(k)
  PROVE  PInv'
<1>1. /\ k \in Nat /\ \A m \in DOMAIN chain : m > k => MapsNoAny(m)
      /\ pc = "constraints" => k > 1
      /\ CountersAre(explicit_policy, policy_mapping, inhibit_any, Counted)
  BY InThePolicyWalk DEF CaPhases
<1>2. /\ k' = k /\ explicit_policy' = explicit_policy /\ policy_mapping' = policy_mapping
      /\ inhibit_any' = inhibit_any /\ UNCHANGED inputs
  BY DEF counters
<1>3. Counted' = Counted
  <2>1. pc' # "finish" /\ pc # "finish" /\ pc # "next"
    BY DEF WalkPhases
  <2>2. pc' \in {"constraints", "next"} /\ k' > 1 <=> pc \in {"constraints", "next"} /\ k > 1
    BY <1>1, <1>2, <2>1
  <2> QED
    BY <1>2, <2>1, <2>2 DEF Counted
<1>4. PICK i, c, explicit, mapping, any :
        /\ i = k /\ c = Counted /\ explicit = explicit_policy /\ mapping = policy_mapping
        /\ any = inhibit_any
  OBVIOUS
<1>5. CountersAre(explicit, mapping, any, c) /\ c = Counted'
  BY <1>1, <1>3, <1>4
<1>6. phase \in WalkPhases \cup {"finish"} /\ phase # "check" /\ phase # "finish"
  BY DEF WalkPhases
<1>7. /\ phase \in {"check", "policies", "finish"} => TreeMapped(tree, i + 1)
      /\ phase \in {"names", "leaf", "ca", "mappings"} => TreeGrown(tree, i)
      /\ phase \in {"counters", "constraints", "next"} => TreeMapped(tree, i)
      /\ \A m \in DOMAIN chain : m > i => MapsNoAny(m)
      /\ phase \in {"mappings", "counters", "constraints", "next"} => MapsNoAny(i)
  BY <1>1, <1>4, <1>6
<1>8. i = k' /\ explicit = explicit_policy' /\ mapping = policy_mapping' /\ any = inhibit_any'
  BY <1>2, <1>4
<1> QED
  BY <1>2, <1>5, <1>6, <1>7, <1>8, WalkGoesOn

\* The checks every certificate gets leave policies alone.
LEMMA CheckCertPolicies ==
  ASSUME IInv, PInv, CheckCert
  PROVE  PInv'
<1>1. pc = "check" /\ pc \in WalkPhases \ {"next"}
  BY DEF CheckCert, WalkPhases
<1>2. CASE FailsOneOf(CertChecks(chain[k]), k)
  BY <1>1, <1>2, OnlyMappingsBlamePolicies, ChecksFailPolicies
<1>3. CASE GoTo("policies") /\ UNCHANGED walk
  <2>1. pc' = "policies" /\ policy_tree' = policy_tree /\ UNCHANGED <<inputs, k, counters>>
    BY <1>3 DEF GoTo, walk
  <2>2. TreeMapped(policy_tree, k + 1)
    BY <1>1 DEF PInv, TreeInv
  <2>3. PICK tree : tree = policy_tree
    OBVIOUS
  <2> QED
    BY <1>1, <2>1, <2>2, <2>3, PhasePolicies DEF WalkPhases
<1> QED
  BY <1>2, <1>3 DEF CheckCert

\* Nor do its names have a say.
LEMMA CheckNamesPolicies ==
  ASSUME IInv, PInv, CheckNames
  PROVE  PInv'
<1>1. pc = "names" /\ pc \in WalkPhases \ {"next"}
  BY DEF CheckNames, WalkPhases
<1>2. CASE FailsOneOf(NameChecks(chain[k]), k)
  BY <1>1, <1>2, OnlyMappingsBlamePolicies, ChecksFailPolicies
<1>3. CASE GoTo(IF k = 1 THEN "leaf" ELSE "ca") /\ UNCHANGED walk
  <2>1. PICK phase \in {"leaf", "ca"} : pc' = phase
    BY <1>3 DEF GoTo
  <2>2. policy_tree' = policy_tree /\ UNCHANGED <<inputs, k, counters>>
    BY <1>3 DEF GoTo, walk
  <2>3. TreeGrown(policy_tree, k)
    BY <1>1 DEF PInv, TreeInv
  <2>4. PICK tree : tree = policy_tree
    OBVIOUS
  <2> QED
    BY <1>1, <2>1, <2>2, <2>3, <2>4, PhasePolicies DEF WalkPhases
<1> QED
  BY <1>2, <1>3 DEF CheckNames

\* A leaf maps nothing: its mappings are not read.
LEMMA CheckLeafPolicies ==
  ASSUME IInv, PInv, CheckLeaf
  PROVE  PInv'
<1>1. pc = "leaf" /\ pc \in WalkPhases \ {"next"}
  BY DEF CheckLeaf, WalkPhases
<1>2. CASE FailsOneOf(LeafChecks(chain[k]), k)
  BY <1>1, <1>2, OnlyMappingsBlamePolicies, ChecksFailPolicies
<1>3. CASE GoTo("next") /\ UNCHANGED walk
  <2>1. pc' = "next" /\ policy_tree' = policy_tree /\ UNCHANGED <<inputs, k, counters>>
    BY <1>3 DEF GoTo, walk
  <2>2. InputsOK /\ k \in DOMAIN chain /\ k = 1
    BY <1>1, InThePolicyWalk
  <2>3. Mappings(k) = {}
    BY <2>2 DEF Mappings
  <2>4. MapsNoAny(k)
    BY <2>3 DEF MapsNoAny
  <2>5. PICK tree : tree = policy_tree
    OBVIOUS
  <2>6. TreeMapped(tree, k)
    <3>1. TreeGrown(tree, k)
      BY <1>1, <2>5 DEF PInv, TreeInv
    <3> QED
      BY <2>2, <2>3, <3>1, NothingMapped DEF TreeGrown, TreeMapped
  <2>7. ~(k > 1)
    BY <2>2
  <2> QED
    BY <1>1, <2>1, <2>4, <2>5, <2>6, <2>7, PhasePolicies DEF WalkPhases
<1> QED
  BY <1>2, <1>3 DEF CheckLeaf

\* The last check of a CA: anyPolicy is no side of a mapping.
LEMMA CheckCaPolicies ==
  ASSUME IInv, PInv, CheckCa
  PROVE  PInv'
<1> DEFINE c == chain[k]
<1>1. pc = "ca" /\ pc \in WalkPhases \ {"next"}
  BY DEF CheckCa, WalkPhases
<1>2. k \in DOMAIN chain /\ k > 1
  BY <1>1, InThePolicyWalk DEF CaPhases
<1>3. DOMAIN CaChecks(c) = 1 .. 9
  BY DEF CaChecks
<1>4. CaChecks(c)[9][1] <=> Present(c.pm) /\ \E m \in Range(c.pm) : AnyPolicy \in {m[1], m[2]}
  <2> HIDE DEF c
  <2> QED
    BY Zenon DEF CaChecks
<1>5. CaChecks(c)[9][1] <=> ~MapsNoAny(k)
  BY <1>2, <1>4 DEF MapsNoAny, Mappings
<1>6. CASE FailsOneOf(CaChecks(c), k)
  <2>1. PICK j \in DOMAIN CaChecks(c) : CaChecks(c)[j][1] /\ Fail(CaChecks(c)[j][2], k)
    BY <1>6 DEF FailsOneOf, FirstFailing
  <2>2. CaChecks(c)[j][2] = "PolicyViolation" => MapsAny
    BY <1>2, <1>5, <2>1, OnlyMappingsBlamePolicies DEF MapsNoAny, MapsAny
  <2>3. Blamed(Error(CaChecks(c)[j][2], k))
    BY <2>2 DEF Blamed, Error, Violated
  <2> QED
    BY <1>1, <2>1, <2>3, FailPolicies
<1>7. CASE Passes(CaChecks(c)) /\ GoTo("mappings") /\ UNCHANGED walk
  <2>1. pc' = "mappings" /\ policy_tree' = policy_tree /\ UNCHANGED <<inputs, k, counters>>
    BY <1>7 DEF GoTo, walk
  <2>2. MapsNoAny(k)
    BY <1>3, <1>5, <1>7 DEF Passes
  <2>3. PICK tree : tree = policy_tree
    OBVIOUS
  <2>4. TreeGrown(tree, k)
    BY <1>1, <2>3 DEF PInv, TreeInv
  <2> QED
    BY <1>1, <2>1, <2>2, <2>3, <2>4, PhasePolicies DEF WalkPhases
<1> QED
  BY <1>6, <1>7 DEF CheckCa

\* The mappings of position k are applied, or the mapped policies die.
LEMMA MapPoliciesPolicies ==
  ASSUME IInv, PInv, MapPolicies
  PROVE  PInv'
<1> DEFINE c == chain[k]
<1>1. pc = "mappings" /\ pc \in WalkPhases \ {"next"}
  BY DEF MapPolicies, WalkPhases
<1>2. /\ InputsOK /\ k \in DOMAIN chain /\ k \in Nat /\ k > 1 /\ MapsNoAny(k)
      /\ explicit_policy \in Nat /\ inhibit_any \in Nat /\ policy_mapping \in Nat
      /\ CountersAre(explicit_policy, policy_mapping, inhibit_any, Counted)
  BY <1>1, InThePolicyWalk DEF CaPhases
<1>3. Counted = k
  BY <1>1 DEF Counted
<1>4. policy_mapping > 0 <=> MappingActive(k)
  BY <1>2, <1>3, CountersRead
<1>5. PICK tree, mapped : tree = policy_tree /\ mapped = PostOpPrune(TreeAfterMappings(c), 0)
  OBVIOUS
<1>6. pc' = "counters" /\ policy_tree' = mapped /\ UNCHANGED <<inputs, k, counters>>
  BY <1>5 DEF MapPolicies, GoTo
<1>7. TreeGrown(tree, k)
  BY <1>1, <1>5 DEF PInv, TreeInv
<1>8. TreeMapped(mapped, k)
  <2>1. CASE ~Present(c.pm)
    <3>1. Mappings(k) = {}
      BY <2>1 DEF Mappings
    <3>2. mapped = PostOpPrune(tree, 0)
      BY <1>5, <2>1 DEF TreeAfterMappings
    <3>3. GrownIs(tree, k) => mapped = tree
      BY <1>2, <3>2, GrownStays
    <3> QED
      BY <1>2, <1>7, <3>1, <3>3, NothingMapped DEF TreeGrown, TreeMapped
  <2>2. CASE Present(c.pm) /\ MappingActive(k)
    <3>1. mapped = PostOpPrune(ApplyMappings(tree, Depth(k), c.pm), 0)
      BY <1>4, <1>5, <2>2 DEF TreeAfterMappings, CertDepth, Depth
    <3> QED
      BY <1>2, <1>7, <2>2, <3>1, TreeMaps DEF TreeGrown, TreeMapped
  <2>3. CASE Present(c.pm) /\ ~MappingActive(k)
    <3>1. mapped = PostOpPrune(DeleteMapped(tree, Depth(k), c.pm), 0)
      BY <1>4, <1>5, <2>3 DEF TreeAfterMappings, CertDepth, Depth
    <3> QED
      BY <1>2, <1>7, <2>3, <3>1, TreeUnmaps DEF TreeGrown, TreeMapped
  <2> QED
    BY <2>1, <2>2, <2>3
<1> QED
  BY <1>1, <1>2, <1>6, <1>8, PhasePolicies DEF WalkPhases

\* Name constraints leave policies alone.
LEMMA ConstrainNamesPolicies ==
  ASSUME IInv, PInv, ConstrainNames
  PROVE  PInv'
<1>1. pc = "constraints" /\ pc \in WalkPhases \ {"next"}
  BY DEF ConstrainNames, WalkPhases
<1>2. CASE Fail("MalformedCertificate", k)
  BY <1>1, <1>2, OtherBlame, FailPolicies
<1>3. CASE GoTo("next") /\ UNCHANGED <<k, counters, policy_tree>>
  <2>1. pc' = "next" /\ policy_tree' = policy_tree /\ UNCHANGED <<inputs, k, counters>>
    BY <1>3 DEF GoTo
  <2>2. MapsNoAny(k)
    BY <1>1, InThePolicyWalk
  <2>3. PICK tree : tree = policy_tree
    OBVIOUS
  <2>4. TreeMapped(tree, k)
    BY <1>1, <2>3 DEF PInv, TreeInv
  <2> QED
    BY <1>1, <2>1, <2>2, <2>3, <2>4, PhasePolicies DEF WalkPhases
<1> QED
  BY <1>2, <1>3 DEF ConstrainNames, walk

\* The policies of position k grow the tree by a level, and one that withers is blamed rightly.
LEMMA UpdatePoliciesPolicies ==
  ASSUME IInv, PInv, UpdatePolicies
  PROVE  PInv'
<1> DEFINE c == chain[k]
<1>1. pc = "policies" /\ pc \in WalkPhases \ {"next"}
  BY DEF UpdatePolicies, WalkPhases
<1>2. /\ InputsOK /\ k \in DOMAIN chain /\ k \in Nat /\ \A m \in DOMAIN chain : m > k => MapsNoAny(m)
      /\ explicit_policy \in Nat /\ inhibit_any \in Nat /\ policy_mapping \in Nat
      /\ CountersAre(explicit_policy, policy_mapping, inhibit_any, Counted)
  BY <1>1, InThePolicyWalk
<1>3. Counted = k
  BY <1>1 DEF Counted
<1>4. (MayExpandAny(c) <=> AnyUsable(k)) /\ (explicit_policy = 0 => ExplicitRequired)
  BY <1>2, <1>3, CountersRead DEF MayExpandAny
<1>5. c.cp # Malformed /\ (k + 1 \in DOMAIN chain => MapsNoAny(k + 1))
  BY <1>1, <1>2 DEF IInv, WalkInv, PhaseInv, Progress, Checked
<1>6. PICK tree, grown, may : tree = policy_tree /\ grown = TreeAfterPolicies(c) /\ may = MayExpandAny(c)
  OBVIOUS
<1>7. grown = IF tree = NullTree \/ c.cp = Absent THEN NullTree ELSE GrowTree(tree, c.cp, Depth(k), may)
  BY <1>6 DEF TreeAfterPolicies, CertDepth, Depth
<1>8. TreeMapped(tree, k + 1)
  BY <1>1, <1>6 DEF PInv, TreeInv
<1>9. TreeGrown(grown, k)
  BY <1>2, <1>4, <1>5, <1>6, <1>7, <1>8, TreeGrows DEF TreeMapped, TreeGrown
<1>10. CASE explicit_policy = 0 /\ grown = NullTree /\ Fail("PolicyViolation", k)
  <2>1. ASSUME IdentitiesLast PROVE AcceptablePaths = {}
    <3>1. Grown(k) = {}
      BY <1>9, <1>10, <2>1 DEF TreeGrown, GrownIs, NullTree
    <3> QED
      BY <1>2, <3>1, NoneGrown, NoneEnds
  <2>2. Blamed(Error("PolicyViolation", k))
    BY <1>4, <1>10, <2>1 DEF Blamed, Violated
  <2> QED
    BY <1>1, <1>10, <2>2, FailPolicies
<1>11. CASE policy_tree' = grown /\ GoTo("names") /\ UNCHANGED <<k, working, names, counters>>
  <2>1. pc' = "names" /\ UNCHANGED <<inputs, k, counters>>
    BY <1>11 DEF GoTo
  <2> QED
    BY <1>1, <1>9, <1>11, <2>1, PhasePolicies DEF WalkPhases
<1> QED
  BY <1>6, <1>10, <1>11 DEF UpdatePolicies

\* The constraints of position k join the counters, which now speak of the position below.
LEMMA UpdateCountersPolicies ==
  ASSUME IInv, PInv, UpdateCounters
  PROVE  PInv'
<1> DEFINE c == chain[k]
<1>1. pc = "counters" /\ pc \in WalkPhases
  BY DEF UpdateCounters, WalkPhases
<1>2. /\ InputsOK /\ k \in DOMAIN chain /\ k \in Nat /\ k > 1 /\ MapsNoAny(k)
      /\ \A m \in DOMAIN chain : m > k => MapsNoAny(m)
      /\ explicit_policy \in Nat /\ inhibit_any \in Nat /\ policy_mapping \in Nat
      /\ CountersAre(explicit_policy, policy_mapping, inhibit_any, Counted)
  BY <1>1, InThePolicyWalk DEF CaPhases
<1>3. Counted = k
  BY <1>1 DEF Counted
<1>4. CASE FailsOneOf(ConstraintChecks(c), k)
  BY <1>1, <1>4, OnlyMappingsBlamePolicies, ChecksFailPolicies
<1>5. CASE /\ explicit_policy' = CounterAfter(c, explicit_policy, RequireExplicit(c))
           /\ policy_mapping' = CounterAfter(c, policy_mapping, InhibitMapping(c))
           /\ inhibit_any' = CounterAfter(c, inhibit_any, InhibitAnyPolicy(c))
           /\ GoTo("constraints")
           /\ UNCHANGED <<k, working, names, policy_tree>>
  <2>1. pc' = "constraints" /\ k' = k /\ policy_tree' = policy_tree /\ UNCHANGED inputs
    BY <1>5 DEF GoTo
  <2>2. Counted' = k - 1
    BY <1>2, <2>1 DEF Counted
  <2>3. /\ ExplicitSkips[k] = RequireExplicit(c) /\ MappingSkips[k] = InhibitMapping(c)
        /\ AnySkips[k] = InhibitAnyPolicy(c)
    BY <1>2 DEF ExplicitSkips, MappingSkips, AnySkips
  <2>4. CountersAre(explicit_policy', policy_mapping', inhibit_any', k - 1)
    <3>1. CounterIs(explicit_policy', policy.initial_explicit_policy, ExplicitSkips, k - 1)
      <4>1. PICK initial, skips : initial = policy.initial_explicit_policy /\ skips = ExplicitSkips
        OBVIOUS
      <4>2. \A j \in DOMAIN chain : skips[j] \in Nat \cup {Absent}
        BY <1>2, <4>1, SkipsAreNumbers
      <4>3. CounterIs(explicit_policy, initial, skips, k)
        BY <1>2, <1>3, <4>1 DEF CountersAre
      <4>4. CounterIs(CounterAfter(chain[k], explicit_policy, skips[k]), initial, skips, k - 1)
        BY <1>2, <4>2, <4>3, CounterGoesDown
      <4> QED
        BY <1>5, <2>3, <4>1, <4>4
    <3>2. CounterIs(policy_mapping', policy.initial_policy_mapping_inhibit, MappingSkips, k - 1)
      <4>1. PICK initial, skips : initial = policy.initial_policy_mapping_inhibit /\ skips = MappingSkips
        OBVIOUS
      <4>2. \A j \in DOMAIN chain : skips[j] \in Nat \cup {Absent}
        BY <1>2, <4>1, SkipsAreNumbers
      <4>3. CounterIs(policy_mapping, initial, skips, k)
        BY <1>2, <1>3, <4>1 DEF CountersAre
      <4>4. CounterIs(CounterAfter(chain[k], policy_mapping, skips[k]), initial, skips, k - 1)
        BY <1>2, <4>2, <4>3, CounterGoesDown
      <4> QED
        BY <1>5, <2>3, <4>1, <4>4
    <3>3. CounterIs(inhibit_any', policy.initial_any_policy_inhibit, AnySkips, k - 1)
      <4>1. PICK initial, skips : initial = policy.initial_any_policy_inhibit /\ skips = AnySkips
        OBVIOUS
      <4>2. \A j \in DOMAIN chain : skips[j] \in Nat \cup {Absent}
        BY <1>2, <4>1, SkipsAreNumbers
      <4>3. CounterIs(inhibit_any, initial, skips, k)
        BY <1>2, <1>3, <4>1 DEF CountersAre
      <4>4. CounterIs(CounterAfter(chain[k], inhibit_any, skips[k]), initial, skips, k - 1)
        BY <1>2, <4>2, <4>3, CounterGoesDown
      <4> QED
        BY <1>5, <2>3, <4>1, <4>4
    <3> QED
      BY <3>1, <3>2, <3>3 DEF CountersAre
  <2>5. PICK tree, i, d, explicit, mapping, any :
          /\ tree = policy_tree /\ i = k /\ d = k - 1 /\ explicit = explicit_policy'
          /\ mapping = policy_mapping' /\ any = inhibit_any'
    OBVIOUS
  <2>6. TreeMapped(tree, i)
    BY <1>1, <2>5 DEF PInv, TreeInv
  <2>7. CountersAre(explicit, mapping, any, d)
    BY <2>4, <2>5
  <2> QED
    BY <1>2, <2>1, <2>2, <2>5, <2>6, <2>7, WalkGoesOn DEF WalkPhases
<1> QED
  BY <1>4, <1>5 DEF UpdateCounters

\* On to the next certificate down, or to the end.
LEMMA NextCertPolicies ==
  ASSUME IInv, PInv, NextCert
  PROVE  PInv'
<1>1. pc = "next" /\ pc \in WalkPhases
  BY DEF NextCert, WalkPhases
<1>2. /\ k \in DOMAIN chain /\ k \in Nat /\ k > 0 /\ MapsNoAny(k)
      /\ \A m \in DOMAIN chain : m > k => MapsNoAny(m)
      /\ CountersAre(explicit_policy, policy_mapping, inhibit_any, Counted)
  BY <1>1, InThePolicyWalk
<1>3. InputsOK
  BY DEF IInv
<1>4. PICK phase \in {"check", "finish"} : pc' = phase /\ (phase = "finish" <=> k = 1)
  BY DEF NextCert, GoTo
<1>5. k' = k - 1 /\ UNCHANGED <<inputs, counters, policy_tree>>
  BY DEF NextCert, GoTo
<1>6. Counted' = Counted
  BY <1>1, <1>2, <1>4, <1>5 DEF Counted
<1>7. PICK tree, i, h, c, explicit, mapping, any :
        /\ tree = policy_tree /\ i = k - 1 /\ h = k /\ c = Counted /\ explicit = explicit_policy
        /\ mapping = policy_mapping /\ any = inhibit_any
  OBVIOUS
<1>8. TreeMapped(tree, i + 1)
  <2>1. TreeMapped(tree, h)
    BY <1>1, <1>7 DEF PInv, TreeInv
  <2>2. i + 1 = h
    BY <1>2, <1>7
  <2> QED
    BY <2>1, <2>2
<1>9. \A m \in DOMAIN chain : m > i => MapsNoAny(m)
  <2>1. \A m \in DOMAIN chain : m \in Nat
    BY <1>3, Positions
  <2>2. \A m \in DOMAIN chain : m > i => m > k \/ m = k
    BY <1>2, <1>7, <2>1
  <2> QED
    BY <1>2, <2>2
<1>10. CountersAre(explicit, mapping, any, c)
  BY <1>2, <1>7
<1>11. /\ explicit = explicit_policy' /\ mapping = policy_mapping' /\ any = inhibit_any'
       /\ tree = policy_tree' /\ i = k' /\ c = Counted' /\ UNCHANGED inputs
  BY <1>5, <1>6, <1>7 DEF counters
<1>12. phase \in WalkPhases \cup {"finish"}
  BY DEF WalkPhases
<1>13. phase \notin {"names", "leaf", "ca", "mappings", "counters", "constraints", "next"}
  OBVIOUS
<1> QED
  BY <1>4, <1>8, <1>9, <1>10, <1>11, <1>12, <1>13, WalkGoesOn

\* A walk starts with the root of the tree and nothing above its first certificate.
LEMMA BeginWalkPolicies ==
  ASSUME IInv, PInv, BeginWalk
  PROVE  PInv'
<1>1. InputsOK
  BY DEF IInv
<1>2. PICK n \in Nat : n = Len(chain) /\ DOMAIN chain = 1 .. n
  BY <1>1, Positions, Zenon
<1>3. PICK explicit, mapping, any :
        /\ explicit = IF policy.initial_explicit_policy THEN 0 ELSE n + 1
        /\ mapping = IF policy.initial_policy_mapping_inhibit THEN 0 ELSE n + 1
        /\ any = IF policy.initial_any_policy_inhibit THEN 0 ELSE n + 1
  OBVIOUS
<1>4. /\ pc' = "check" /\ k' = n /\ policy_tree' = InitPolicyTree /\ UNCHANGED inputs
      /\ explicit_policy' = explicit /\ policy_mapping' = mapping /\ inhibit_any' = any
  BY <1>2, <1>3 DEF BeginWalk
<1>5. Counted' = n
  BY <1>4 DEF Counted
<1>6. CountersAre(explicit, mapping, any, n)
  <2>1. CounterIs(explicit, policy.initial_explicit_policy, ExplicitSkips, n)
    BY <1>1, <1>2, <1>3, CounterStarts
  <2>2. CounterIs(mapping, policy.initial_policy_mapping_inhibit, MappingSkips, n)
    BY <1>1, <1>2, <1>3, CounterStarts
  <2>3. CounterIs(any, policy.initial_any_policy_inhibit, AnySkips, n)
    BY <1>1, <1>2, <1>3, CounterStarts
  <2> QED
    BY <2>1, <2>2, <2>3 DEF CountersAre
<1>7. TreeMapped(InitPolicyTree, n + 1)
  <2>1. Depth(n + 1) = 0 /\ Ends(n + 1) = {AnyPolicy}
    BY <1>2 DEF Depth, Ends
  <2>2. Node(n + 1, AnyPolicy) = PolicyNode(0, AnyPolicy, {AnyPolicy})
    BY <1>2, <2>1 DEF Node, ExpectedAt
  <2>3. AtDepth(InitPolicyTree, 0) = InitPolicyTree
    BY NodeFields DEF AtDepth, InitPolicyTree
  <2>4. TreeIs(InitPolicyTree, n + 1)
    <3>1. {Node(n + 1, p) : p \in Ends(n + 1)} = InitPolicyTree
      BY <2>1, <2>2 DEF InitPolicyTree
    <3>2. Rooted(InitPolicyTree, n + 1)
      <4>1. \A x \in InitPolicyTree : x.depth = 0
        BY NodeFields DEF InitPolicyTree
      <4>2. \A x \in InitPolicyTree : x.depth \in 0 .. 0
        BY <4>1
      <4> QED
        BY <2>1, <2>3, <4>2, Zenon DEF Rooted
    <3>3. InitPolicyTree # {}
      BY DEF InitPolicyTree
    <3> QED
      BY <2>1, <2>3, <3>1, <3>2, <3>3 DEF TreeIs
  <2>5. LevelsAre(InitPolicyTree, n + 1, Leads(n + 1))
    BY <1>2 DEF LevelsAre
  <2> QED
    BY <2>4, <2>5 DEF TreeMapped
<1>8. PICK tree, phase : tree = InitPolicyTree /\ phase = "check"
  OBVIOUS
<1>9. \A m \in DOMAIN chain : ~(m > n)
  BY <1>2
<1>10. phase \in WalkPhases \cup {"finish"}
       /\ phase \notin {"names", "leaf", "ca", "mappings", "counters", "constraints", "next"}
  BY <1>8 DEF WalkPhases
<1> QED
  BY <1>4, <1>5, <1>6, <1>7, <1>8, <1>9, <1>10, WalkGoesOn

\* What is reported at the end of a walk, and what is known when it is.
LEMMA FinishPolicies ==
  ASSUME IInv, PInv, Finish
  PROVE  PInv'
<1>1. pc = "finish"
  BY DEF Finish
<1>2. /\ InputsOK /\ chain # <<>> /\ k = 0 /\ explicit_policy \in Nat
  BY <1>1 DEF IInv, InputsOK, WalkInv, TypeOK
<1>3. PICK n \in Nat \ {0} : n = Len(chain) /\ DOMAIN chain = 1 .. n
  BY <1>2, LeafDepth
<1>4. ~MapsAny
  <2>1. \A m \in DOMAIN chain : MapsNoAny(m)
    BY <1>1, <1>2, <1>3 DEF PInv, MappingsInv
  <2> QED
    BY <2>1 DEF MapsAny, MapsNoAny
<1>5. CounterAfter(chain[1], explicit_policy, RequireExplicit(chain[1])) = 0 <=> ExplicitRequired
  <2>1. CounterIs(explicit_policy, policy.initial_explicit_policy, ExplicitSkips, 1)
    BY <1>1 DEF PInv, CountersInv, Counted, CountersAre
  <2> QED
    BY <1>2, <2>1, ExplicitRead
<1>6. ASSUME SetIsExact, IdentitiesLast
      PROVE  FinalTree = NullTree <=> AcceptablePaths = {}
  <2>1. TreeMapped(policy_tree, 1)
    <3>1. PICK h : h = k + 1
      OBVIOUS
    <3>2. TreeMapped(policy_tree, h) /\ h = 1
      BY <1>1, <1>2, <3>1 DEF PInv, TreeInv
    <3> QED
      BY <3>2
  <2> QED
    BY <1>2, <1>6, <2>1, FinalTreeIs DEF TreeMapped, NullTree
<1>7. ASSUME SetIsExact, IdentitiesLast
      PROVE  Violated <=> /\ CounterAfter(chain[1], explicit_policy, RequireExplicit(chain[1])) = 0
                          /\ FinalTree = NullTree
  BY <1>4, <1>5, <1>6, <1>7 DEF Violated
<1>8. CASE Fail("MalformedCertificate", 1)
  BY <1>1, <1>8, OtherBlame, FailPolicies
<1>9. CASE /\ CounterAfter(chain[1], explicit_policy, RequireExplicit(chain[1])) = 0
           /\ FinalTree = NullTree /\ Fail("PolicyViolation", 1)
  <2>1. Blamed(Error("PolicyViolation", 1))
    BY <1>7, <1>9 DEF Blamed
  <2> QED
    BY <1>1, <1>9, <2>1, FailPolicies
<1>10. CASE /\ ~(CounterAfter(chain[1], explicit_policy, RequireExplicit(chain[1])) = 0 /\ FinalTree = NullTree)
            /\ Return(Error("Ok", NoIndex))
  <2>1. pc' = "returned" /\ result'.kind = "Ok" /\ UNCHANGED inputs
    BY <1>10 DEF Return, Error
  <2>2. SetIsExact' /\ IdentitiesLast' => ~Violated'
    BY <1>7, <1>10, <2>1, PolicyKept
  <2>3. PolicyVerdict'
    BY <2>1, <2>2 DEF PolicyVerdict, Violated
  <2> QED
    BY <2>1, <2>3 DEF PInv, TreeInv, MappingsInv, CountersInv, WalkPhases
<1> QED
  BY <1>8, <1>9, <1>10 DEF Finish

\* An error is returned as it is; outside a walk there is only the last one.
LEMMA ReturnPolicies ==
  ASSUME NEW r, Return(r), r.kind # "Ok", Blamed(r)
  PROVE  PInv'
<1>1. pc' = "returned" /\ result' = r /\ UNCHANGED inputs
  BY DEF Return
<1>2. Blamed(r)'
  BY <1>1, PolicyKept
<1>3. PolicyVerdict'
  BY <1>1, <1>2 DEF PolicyVerdict, Blamed, Violated
<1> QED
  BY <1>1, <1>3 DEF PInv, TreeInv, MappingsInv, CountersInv, WalkPhases

\* Outside a walk only the last error matters.
LEMMA OutsidePolicies ==
  ASSUME IInv, PInv, CheckInputs \/ SkipAnchor \/ OutOfAnchors
  PROVE  PInv'
<1>1. CASE OutOfAnchors
  BY <1>1, ReturnPolicies DEF OutOfAnchors, PInv, IInv, InputsOK
<1>2. CASE pc \in {"start", "anchors"} /\ pc' = "anchors" /\ UNCHANGED <<inputs, last_err>>
  <2>1. PICK err : err = last_err
    OBVIOUS
  <2>2. Blamed(err)'
    BY <1>2, <2>1, PolicyKept DEF PInv
  <2>3. Blamed(last_err)'
    BY <1>2, <2>1, <2>2
  <2> QED
    BY <1>2, <2>3 DEF PInv, TreeInv, MappingsInv, CountersInv, PolicyVerdict, WalkPhases
<1>3. CASE SkipAnchor
  BY <1>2, <1>3 DEF SkipAnchor
<1>4. CASE CheckInputs
  <2>1. CASE GoTo("anchors")
    BY <1>2, <1>4, <2>1 DEF GoTo, CheckInputs
  <2>2. CASE \E kind, index : kind \notin {"Ok", "PolicyViolation"} /\ Return(Error(kind, index))
    BY <2>2, OtherBlame, ReturnPolicies DEF Error
  <2> QED
    BY <1>4, <2>1, <2>2 DEF CheckInputs
<1> QED
  BY <1>1, <1>3, <1>4

\* A step that changes nothing keeps it.
LEMMA StutterPolicies ==
  ASSUME PInv, UNCHANGED vars
  PROVE  PInv'
<1>1. /\ UNCHANGED <<inputs, chain, policy, pc, last_err, result, k, policy_tree, walked>>
      /\ UNCHANGED <<explicit_policy, policy_mapping, inhibit_any>>
  BY DEF vars, walk, counters, inputs
<1>2. PICK tree, i, h, c, explicit, mapping, any, err :
        /\ tree = policy_tree /\ i = k /\ h = k + 1 /\ c = Counted /\ explicit = explicit_policy
        /\ mapping = policy_mapping /\ any = inhibit_any /\ err = last_err
  OBVIOUS
<1>3. /\ tree = policy_tree' /\ i = k' /\ h = k' + 1 /\ c = Counted' /\ explicit = explicit_policy'
      /\ mapping = policy_mapping' /\ any = inhibit_any' /\ err = last_err'
  BY <1>1, <1>2 DEF Counted
<1>4. /\ TreeMapped(tree, h)' <=> TreeMapped(tree, h)
      /\ TreeMapped(tree, i)' <=> TreeMapped(tree, i)
      /\ TreeGrown(tree, i)' <=> TreeGrown(tree, i)
      /\ \A m : MapsNoAny(m)' <=> MapsNoAny(m)
      /\ CountersAre(explicit, mapping, any, c)' <=> CountersAre(explicit, mapping, any, c)
      /\ Blamed(err)' <=> Blamed(err)
      /\ SetIsExact' <=> SetIsExact
      /\ IdentitiesLast' <=> IdentitiesLast
      /\ Violated' <=> Violated
  BY <1>1, PolicyKept
<1>5. TreeInv'
  <2>1. TreeMapped(policy_tree, k + 1)' <=> TreeMapped(policy_tree, k + 1)
    BY <1>2, <1>3, <1>4
  <2>2. TreeMapped(policy_tree, k)' <=> TreeMapped(policy_tree, k)
    BY <1>2, <1>3, <1>4
  <2>3. TreeGrown(policy_tree, k)' <=> TreeGrown(policy_tree, k)
    BY <1>2, <1>3, <1>4
  <2> QED
    BY <1>1, <2>1, <2>2, <2>3 DEF TreeInv, PInv
<1>6. MappingsInv'
  <2>1. MapsNoAny(k)' <=> MapsNoAny(k)
    <3>1. MapsNoAny(i)' <=> MapsNoAny(i)
      BY <1>4
    <3> QED
      BY <1>2, <1>3, <3>1
  <2> QED
    BY <1>1, <1>4, <2>1 DEF MappingsInv, PInv
<1>7. CountersInv'
  <2>1. CountersAre(explicit_policy, policy_mapping, inhibit_any, Counted)'
          <=> CountersAre(explicit_policy, policy_mapping, inhibit_any, Counted)
    BY <1>2, <1>3, <1>4
  <2> QED
    BY <1>1, <2>1 DEF CountersInv, PInv
<1>8. Blamed(last_err)' <=> Blamed(last_err)
  BY <1>2, <1>3, <1>4
<1>9. PolicyVerdict'
  BY <1>1, <1>4 DEF PInv, PolicyVerdict, Violated
<1> QED
  BY <1>1, <1>5, <1>6, <1>7, <1>8, <1>9 DEF PInv

\* Every step keeps it.
LEMMA StepPolicies ==
  ASSUME IInv, PInv, [Next]_vars
  PROVE  PInv'
BY OutsidePolicies, BeginWalkPolicies, CheckCertPolicies, UpdatePoliciesPolicies, CheckNamesPolicies,
   CheckLeafPolicies, CheckCaPolicies, MapPoliciesPolicies, UpdateCountersPolicies, ConstrainNamesPolicies,
   NextCertPolicies, FinishPolicies, StutterPolicies
DEF Next, Step, Done

\* What the tree and the counters stand for, in every state of a validation.
LEMMA PoliciesInductive == Spec => []PInv
<1>1. Init => PInv
  BY OtherBlame DEF Init, PInv, TreeInv, MappingsInv, CountersInv, PolicyVerdict, WalkPhases
<1>2. IInv /\ PInv /\ [Next]_vars => PInv'
  BY StepPolicies
<1> QED
  BY <1>1, <1>2, Inductive, PTL DEF Spec

\* At the end the tree is that of the leaf, and the intersection makes of it what is surfaced.
LEMMA Surfaces ==
  ASSUME IInv, PInv
  PROVE  SurfacedPoliciesAreExact
<1> SUFFICES ASSUME pc = "finish", SetIsExact, IdentitiesLast
             PROVE  PoliciesAt(FinalTree, Len(chain)) = AuthorisedPolicies
  BY DEF SurfacedPoliciesAreExact
<1>1. InputsOK /\ chain # <<>> /\ k = 0
  BY DEF IInv, InputsOK, WalkInv
<1>2. PICK h : h = k + 1
  OBVIOUS
<1>3. TreeMapped(policy_tree, h) /\ h = 1
  BY <1>1, <1>2 DEF PInv, TreeInv
<1> QED
  BY <1>1, <1>3, FinalTreeIs DEF TreeMapped

(* Policy processing is exact, for chains of any length with any policies, *)
(* mappings and SkipCerts values: validate_path reports PolicyViolation    *)
(* only where RFC 5280 does and accepts no chain where RFC 5280 does not,  *)
(* and the policies it surfaces are those the leaf is authorised for.  The *)
(* flat tree needs no parent links, and the counters forget no constraint. *)
THEOREM PoliciesExact == Spec => []PoliciesAreExact
<1>1. IInv /\ PInv => PoliciesAreExact
  BY Surfaces DEF PInv, PoliciesAreExact
<1> QED
  BY <1>1, Inductive, PoliciesInductive, PTL

=============================================================================
