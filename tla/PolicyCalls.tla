------------------------------ MODULE PolicyCalls ------------------------------
(***************************************************************************)
(* Calls about certificate policies: every link is sound, so the verdict   *)
(* depends on policies, mappings and policy constraints.                   *)
(***************************************************************************)
EXTENDS SampleCalls

CONSTANTS AnyPolicy, p1, p2

Names == <<<<"l">>, <<"a">>, <<"b">>, <<"r">>>>

(* The certificate at position m: issued by the one above it. *)
CertAt(m) ==
  IF m = 1 THEN PlainCert(Names[m], Names[m + 1], m) ELSE PlainCa(Names[m], Names[m + 1], m)

Constraints(explicit, mapping) ==
  [require_explicit_policy |-> explicit, inhibit_policy_mapping |-> mapping]

AssertedSets == {Absent, {p1}, {AnyPolicy}, {p1, p2}}

Leaves == {[CertAt(1) EXCEPT !.cp = s] : s \in AssertedSets \cup {{p2}}}
  \cup {[CertAt(1) EXCEPT !.cp = s, !.pcons = Constraints(0, Absent)] : s \in {Absent, {p2}}}

Variants(c) ==
  {c,
   [c EXCEPT !.pm = << <<p1, p2>> >>],
   [c EXCEPT !.pm = << <<p1, p2>>, <<p2, p1>> >>],
   [c EXCEPT !.pm = << <<p1, p2>>, <<p1, p1>> >>],
   [c EXCEPT !.pm = << <<p2, AnyPolicy>> >>],
   [c EXCEPT !.pcons = Constraints(1, Absent)],
   [c EXCEPT !.pcons = Constraints(Absent, 0)],
   [c EXCEPT !.iap = 0],
   [c EXCEPT !.iap = 1]}

CasAt(m) == UNION {Variants([CertAt(m) EXCEPT !.cp = s]) : s \in AssertedSets}

(* The middle CA may be self-issued: a second certificate for b. *)
Rollovers == {[c EXCEPT !.subject = Names[3], !.issuer = Names[3]] :
                c \in {[CertAt(2) EXCEPT !.cp = s] : s \in AssertedSets}}

Leaf2(l, c) == [l EXCEPT !.issuer = c.subject]

Chains ==
  {<<[l EXCEPT !.issuer = Names[4], !.signer = 4]>> : l \in Leaves}
  \cup {<<l, c>> : l \in Leaves, c \in {[d EXCEPT !.issuer = Names[4], !.signer = 4] : d \in CasAt(2)}}
  \cup {<<Leaf2(l, c), c, d>> : l \in Leaves, c \in CasAt(2) \cup Rollovers, d \in CasAt(3)}

Explicit == [Lenient EXCEPT !.initial_explicit_policy = TRUE]

Calls ==
  [chains |-> Chains,
   anchor_lists |-> {<<Anchor(Names[4], 4, Absent)>>},
   policies |-> {[Lenient EXCEPT !.initial_policy_set = {p2}],
                 Explicit,
                 [Explicit EXCEPT !.initial_policy_set = {p1}],
                 [Explicit EXCEPT !.initial_any_policy_inhibit = TRUE],
                 [Explicit EXCEPT !.initial_policy_mapping_inhibit = TRUE]}]
=============================================================================
