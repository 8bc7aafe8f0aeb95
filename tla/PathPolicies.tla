----------------------------- MODULE PathPolicies -----------------------------
(***************************************************************************)
(* What the policy processing of PathValidation promises, stated over the  *)
(* whole chain at once.  The code keeps three counters and a flat tree     *)
(* without parent links and updates them certificate by certificate; here  *)
(* a counter is the question "does a constraint above reach this far?" and *)
(* a tree is the set of policy paths from the anchor down to the leaf.     *)
(***************************************************************************)
EXTENDS PathValidation

(* A SkipCerts value in the certificate at j reaches position m: at most   *)
(* that many certificates between them count.                              *)
Reaches(skip, j, m) == skip # Absent /\ skip <= NonSelfIssued(m + 1, j - 1)

Above(m) == m + 1 .. Len(chain)

(* 6.1.2 (d), 6.1.4 (i), 6.1.5 (a) and (b). *)
ExplicitRequired ==
  \/ policy.initial_explicit_policy
  \/ \E j \in DOMAIN chain : Reaches(RequireExplicit(chain[j]), j, 0)

AnyUsable(m) ==
  \/ m > 1 /\ IsSelfIssued(chain[m])
  \/ /\ ~policy.initial_any_policy_inhibit
     /\ \A j \in Above(m) : ~Reaches(InhibitAnyPolicy(chain[j]), j, m)

MappingActive(m) ==
  /\ ~policy.initial_policy_mapping_inhibit
  /\ \A j \in Above(m) : ~Reaches(InhibitMapping(chain[j]), j, m)

Asserts(m, p) == Present(chain[m].cp) /\ p \in chain[m].cp

Mappings(m) == IF m > 1 /\ Present(chain[m].pm) THEN Range(chain[m].pm) ELSE {}

MappedFrom(m) == {x[1] : x \in Mappings(m)}

(* What a node for p at position m lets the certificate below assert. *)
Expected(m, p) ==
  IF p \in MappedFrom(m) THEN {x[2] : x \in {y \in Mappings(m) : y[1] = p}} ELSE {p}

AnyNode(m) == Asserts(m, AnyPolicy) /\ AnyUsable(m)

(* Position m carries p below a parent node that carries q. *)
Carries(m, p, q, expected) ==
  IF p = AnyPolicy
  THEN q = AnyPolicy /\ AnyNode(m)
  ELSE /\ \/ Asserts(m, p) /\ (p \in expected \/ q = AnyPolicy)
          \/ AnyNode(m) /\ p \in expected
          \/ AnyNode(m) /\ q = AnyPolicy /\ MappingActive(m) /\ p \in MappedFrom(m)
       /\ p \in MappedFrom(m) => MappingActive(m)

PolicyOids == (UNION {chain[m].cp : m \in {i \in DOMAIN chain : Present(chain[i].cp)}})
              \cup (UNION {{x[1], x[2]} : x \in UNION {Mappings(m) : m \in DOMAIN chain}})
              \cup {AnyPolicy}

PolicyPaths ==
  {f \in [DOMAIN chain -> PolicyOids] :
     \A m \in DOMAIN chain :
       IF m = Len(chain)
       THEN Carries(m, f[m], AnyPolicy, {AnyPolicy})
       ELSE Carries(m, f[m], f[m + 1], Expected(m + 1, f[m + 1]))}

(* The relying party's set is about the policy nearest the anchor: below   *)
(* it, mappings may have renamed it.                                       *)
InInitialSet(f) ==
  \/ policy.initial_policy_set = {}
  \/ \A m \in DOMAIN chain :
       (f[m] # AnyPolicy /\ \A j \in Above(m) : f[j] = AnyPolicy)
         => f[m] \in policy.initial_policy_set

AcceptablePaths == {f \in PolicyPaths : InInitialSet(f)}

(* An anyPolicy leaf stands for whatever the relying party asked for. *)
AuthorisedPolicies ==
  LET leaves == {f[1] : f \in AcceptablePaths}
  IN  IF AnyPolicy \in leaves /\ policy.initial_policy_set # {}
      THEN (leaves \ {AnyPolicy}) \cup policy.initial_policy_set
      ELSE leaves

(* An empty set is how a caller accepts any policy: anyPolicy as a member  *)
(* is never looked up.  Pruning drops an anyPolicy node whose only child   *)
(* carries a policy of its own, and the intersection then no longer sees   *)
(* whose child that was.  So with an initial set, the promise is made for  *)
(* sets and chains without such entries.                                   *)
SetIsExact ==
  \/ policy.initial_policy_set = {}
  \/ /\ AnyPolicy \notin policy.initial_policy_set
     /\ \A m \in Above(1) : ~Asserts(m, AnyPolicy)

(* Every mapping takes the mapped policy itself out of what its node lets  *)
(* the certificate below assert.  So a mapping of a policy to itself, which *)
(* says that the old name stays in use, is lost when another mapping of    *)
(* that policy follows in the certificate.                                 *)
IdentitiesLast ==
  \A m \in Above(1) : Present(chain[m].pm) =>
    \A i, j \in DOMAIN chain[m].pm :
      (i < j /\ chain[m].pm[i][2] = chain[m].pm[i][1] /\ chain[m].pm[j][1] = chain[m].pm[i][1])
        => chain[m].pm[j][2] = chain[m].pm[i][2]

(* 6.1.4 (a): anyPolicy is no side of a mapping. *)
MapsAny == \E m \in DOMAIN chain : \E x \in Mappings(m) : AnyPolicy \in {x[1], x[2]}

-----------------------------------------------------------------------------
(* The three SkipCerts counters, the mappings and the flat tree together   *)
(* decide as RFC 5280 does: PolicyViolation is reported only if a mapping  *)
(* involves anyPolicy, or some constraint demands an explicit policy and   *)
(* no acceptable policy path leads from the anchor to the leaf, and no     *)
(* chain of which this is so is accepted.                                  *)
PolicyVerdict ==
  (pc = "returned" /\ walked > 0 /\ SetIsExact /\ IdentitiesLast) =>
    LET violated == MapsAny \/ (ExplicitRequired /\ AcceptablePaths = {})
    IN  /\ result.kind = "PolicyViolation" => violated
        /\ result.kind = "Ok" => ~violated

(* valid_policy_tree, which ValidatedPath surfaces, names exactly the       *)
(* policies the leaf is authorised for: pruning without parent links loses *)
(* none and keeps none alive.                                              *)
SurfacedPoliciesAreExact ==
  (pc = "finish" /\ SetIsExact /\ IdentitiesLast) =>
    PoliciesAt(FinalTree, Len(chain)) = AuthorisedPolicies

(* Policy processing is exact: its verdict and what it surfaces.           *)
PoliciesAreExact == PolicyVerdict /\ SurfacedPoliciesAreExact

=============================================================================
