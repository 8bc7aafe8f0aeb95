------------------------------- MODULE PathNames -------------------------------
(***************************************************************************)
(* What the name constraint processing of PathValidation promises, stated  *)
(* source by source: the anchor and every CA above a certificate constrain *)
(* its names.  The code keeps one accumulated pair of subtree lists        *)
(* instead, intersected and united on the way down.                        *)
(***************************************************************************)
EXTENDS PathValidation

(* Position Len(chain) + 1 is the anchor the walk started from. *)
NcAt(m) == IF m > Len(chain) THEN anchors[walked].nc ELSE chain[m].nc

Sources(j) == {m \in j + 1 .. Len(chain) + 1 : Present(NcAt(m))}

(* The names of the certificate at j that constraints apply to. *)
ConstrainedNames(j) ==
  IF j > 1 /\ IsSelfIssued(chain[j])
  THEN {}
  ELSE NamesOf(chain[j])

PermittedBy(m, type) == {s \in NcAt(m).permitted : s.type = type}

Permitting(j, type) == {m \in Sources(j) : PermittedBy(m, type) # {}}

ExcludedFor(j, n) == \E m \in Sources(j) : MatchesAny(n, NcAt(m).excluded)

OutsidePermitted(j, n) ==
  \E m \in Permitting(j, n.type) : ~MatchesAny(n, PermittedBy(m, n.type))

(* Subtrees of these forms nest or are disjoint, whichever of two is read  *)
(* as the name and whichever as the constraint.                            *)
Nests(s) == s.type = "directory" \/ (s.type = "dns" /\ s.form = "name")

-----------------------------------------------------------------------------
(* No name in an accepted chain is excluded by any CA or anchor above it,  *)
(* however long ago the walk united that subtree, and each is inside the   *)
(* permitted subtrees of every CA and anchor above it that permits its     *)
(* type, as long as no more than two of them do (see PermittedOnlyNarrows):*)
(* intersecting one list with the next lets no name through that either    *)
(* rules out.                                                              *)
NamesHonoured ==
  Accepted =>
    \A j \in DOMAIN chain : \A n \in ConstrainedNames(j) :
      /\ ~ExcludedFor(j, n)
      /\ (n.type \in NcTypes /\ Cardinality(Permitting(j, n.type)) <= 2)
           => ~OutsidePermitted(j, n)

(* NameConstraintViolation blames a certificate that has a name some       *)
(* source above it rules out.  For subtrees that nest (see Nests): the     *)
(* intersection then loses no name that every source permits.              *)
NameRejectionJustified ==
  (/\ pc = "returned"
   /\ result.kind = "NameConstraintViolation"
   /\ \A m \in Sources(0) : \A s \in NcAt(m).permitted : Nests(s)) =>
    LET j == result.index
    IN  \E n \in ConstrainedNames(j) : ExcludedFor(j, n) \/ OutsidePermitted(j, n)

(* WorkingState::nc_permitted "becomes `Some(...)` and only narrows"        *)
(* (intersection per 6.1.4 (g)), however many CAs permit a type.           *)
PermittedOnlyNarrows ==
  Accepted =>
    \A j \in DOMAIN chain : \A n \in ConstrainedNames(j) :
      n.type \in NcTypes => ~OutsidePermitted(j, n)
=============================================================================
