------------------------------ MODULE PolicyTree ------------------------------
(***************************************************************************)
(* pkix-path: the valid_policy_tree of RFC 5280 section 6.1, as the code   *)
(* keeps it: a flat collection of nodes without parent links, where "child *)
(* of" is recomputed from depths and policies whenever it is needed.       *)
(*                                                                         *)
(* The Vec<PolicyNode> is a set here: the code never looks at the order or *)
(* the multiplicity of nodes, and qualifiers are carried, never inspected. *)
(* The NULL tree (None) is the empty set.                                  *)
(***************************************************************************)
EXTENDS Naturals, Sequences, SequencesExt

CONSTANT AnyPolicy   \* the anyPolicy OID

PolicyNode(d, p, expected) ==
  [depth |-> d, valid_policy |-> p, expected_policy_set |-> expected]

NullTree == {}

InitPolicyTree == {PolicyNode(0, AnyPolicy, {AnyPolicy})}

AtDepth(tree, d) == {n \in tree : n.depth = d}

PoliciesAt(tree, d) == {n.valid_policy : n \in AtDepth(tree, d)}

(* How every caller but the final intersection decides who has a child.    *)
HasChildIn(n, children) ==
  \E c \in children : c.valid_policy \in n.expected_policy_set

(* Bottom-up from cert_depth - 1 to 1; the root sentinel always stays. *)
PrunePolicyTree(tree, cert_depth) ==
  LET kept[d \in 1 .. cert_depth] ==
        IF d = cert_depth
        THEN AtDepth(tree, d)
        ELSE {n \in AtDepth(tree, d) : HasChildIn(n, kept[d + 1])}
  IN  AtDepth(tree, 0) \cup UNION {kept[d] : d \in 1 .. cert_depth}

(* Only the root is left: the caller stores None. *)
Collapse(tree) == IF \E n \in tree : n.depth >= 1 THEN tree ELSE NullTree

(* Pruning with depth 0 is the bare NULL check. *)
PostOpPrune(tree, prune_depth) ==
  Collapse(IF prune_depth > 0 THEN PrunePolicyTree(tree, prune_depth) ELSE tree)

(* 6.1.3 (d)(1): a specific policy needs a parent that expects it or an    *)
(* anyPolicy parent.                                                       *)
Admitted(parents, p) ==
  \/ \E n \in parents : p \in n.expected_policy_set
  \/ \E n \in parents : n.valid_policy = AnyPolicy

(* 6.1.3 (d): grow one level from the CertificatePolicies of a certificate. *)
GrowTree(tree, policies, d, may_expand) ==
  LET parents  == AtDepth(tree, d - 1)
      specific == {p \in policies \ {AnyPolicy} : Admitted(parents, p)}
      expanded == IF AnyPolicy \in policies /\ may_expand
                  THEN (UNION {n.expected_policy_set : n \in parents}) \ specific
                  ELSE {}
      grown    == tree \cup {PolicyNode(d, p, {p}) : p \in specific \cup expanded}
  IN  PostOpPrune(grown, d)

-----------------------------------------------------------------------------
(* 6.1.4 (b)(1), one mapping <<issuer domain, subject domain>>. *)
ApplyMapping(tree, d, m) ==
  LET mapped == {n \in AtDepth(tree, d) : n.valid_policy = m[1]}
      remap(n) == [n EXCEPT !.expected_policy_set = (@ \ {m[1]}) \cup {m[2]}]
  IN  IF mapped # {}
      THEN (tree \ mapped) \cup {remap(n) : n \in mapped}
      ELSE IF AnyPolicy \in PoliciesAt(tree, d)
           THEN tree \cup {PolicyNode(d, m[1], {m[2]})}
           ELSE tree

(* The mappings of a certificate are applied one after the other. *)
ApplyMappings(tree, d, mappings) ==
  LET applied[i \in 0 .. Len(mappings)] ==
        IF i = 0 THEN tree ELSE ApplyMapping(applied[i - 1], d, mappings[i])
  IN  applied[Len(mappings)]

(* 6.1.4 (b)(2): mapping is inhibited, mapped policies die. *)
DeleteMapped(tree, d, mappings) ==
  LET dead == {m[1] : m \in Range(mappings)}
  IN  PrunePolicyTree({n \in tree : ~(n.depth = d /\ n.valid_policy \in dead)}, d)

-----------------------------------------------------------------------------
(* 6.1.5 (g)(iii): intersection with the user-initial-policy-set.          *)

(* (1) and (2): the valid_policy_node_set members nobody asked for.        *)
OutOfSet(tree, wanted) ==
  {n \in tree : /\ n.depth >= 1
                /\ AnyPolicy \in PoliciesAt(tree, n.depth - 1)
                /\ n.valid_policy \notin wanted \cup {AnyPolicy}}

(* Top-down: a node stays while something above still leads to it. *)
CascadeDown(tree, leaf_depth) ==
  LET kept[d \in 0 .. leaf_depth] ==
        IF d <= 1
        THEN AtDepth(tree, d)
        ELSE {n \in AtDepth(tree, d) :
                \E p \in kept[d - 1] : \/ n.valid_policy \in p.expected_policy_set
                                       \/ p.valid_policy = AnyPolicy}
  IN  UNION {kept[d] : d \in 0 .. leaf_depth}

DeleteOutOfSet(tree, wanted, leaf_depth) ==
  LET out == OutOfSet(tree, wanted)
  IN  IF out = {} THEN tree ELSE CascadeDown(tree \ out, leaf_depth)

(* (3): an anyPolicy leaf stands for every wanted policy not yet there.    *)
MaterialiseWanted(tree, wanted, leaf_depth) ==
  LET any == {n \in AtDepth(tree, leaf_depth) : n.valid_policy = AnyPolicy}
  IN  IF any = {}
      THEN tree
      ELSE (tree \ any) \cup {PolicyNode(leaf_depth, p, {p}) :
                                p \in wanted \ PoliciesAt(tree, leaf_depth)}

IntersectInitialSet(tree, wanted, leaf_depth) ==
  PostOpPrune(MaterialiseWanted(DeleteOutOfSet(tree, wanted, leaf_depth),
                                wanted, leaf_depth),
              leaf_depth)
=============================================================================
