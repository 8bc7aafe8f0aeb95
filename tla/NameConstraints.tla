---------------------------- MODULE NameConstraints ----------------------------
(***************************************************************************)
(* pkix-path: GeneralName matching and the accumulation of permitted and   *)
(* excluded subtrees.                                                      *)
(*                                                                         *)
(* A general name is [type, form, path, user].  path is the list of labels *)
(* read from the general end: the labels of a domain from the right, the   *)
(* leading address bits, the RDNs of a DN.  form tells how the text reads: *)
(*   "name"    a name proper: a host, a mailbox, a URI with a scheme, an   *)
(*             address, a DN (and a DNS constraint without leading dot)    *)
(*   "domain"  a bare domain as rfc822 or URI constraint, a CIDR block     *)
(*   "below"   a constraint with a leading dot                             *)
(* user is the local part of a mailbox.  The same syntax serves names and  *)
(* constraint bases, as in the code, which matches one base against        *)
(* another when it intersects.                                             *)
(***************************************************************************)
EXTENDS Naturals, Sequences, SequencesExt

(* The types name_type_bit knows; any other GeneralName has no bit. *)
NcTypes == {"rfc822", "dns", "directory", "uri", "ip"}

TypeBits(subtrees) == {s.type : s \in subtrees} \cap NcTypes

SameNcVariant(a, b) == a.type \in NcTypes /\ a.type = b.type

-----------------------------------------------------------------------------
Below(name, constr) == IsStrictPrefix(constr.path, name.path)

MatchesDnsName(name, constr) ==
  /\ constr.path # <<>>
  /\ IF constr.form = "below"
     THEN Below(name, constr)
     ELSE \/ name.form = "name" /\ name.path = constr.path
          \/ Below(name, constr)

MatchesRfc822Name(name, constr) ==
  CASE constr.form = "name"  -> name = constr
    [] constr.form = "below" -> name.form = "name" /\ Below(name, constr)
    [] OTHER                 -> name.form = "name" /\ name.path = constr.path

(* A subject without "://" never matches, and a constraint has none. *)
MatchesUri(name, constr) ==
  /\ name.form = "name"
  /\ constr.path # <<>>
  /\ IF constr.form = "below" THEN Below(name, constr)
     ELSE constr.form = "domain" /\ name.path = constr.path

(* The subject has the length of an address, the constraint of two. *)
MatchesIpAddress(name, constr) ==
  name.form = "name" /\ constr.form = "domain" /\ IsPrefix(constr.path, name.path)

DnWithinSubtree(name, constr) == IsPrefix(constr.path, name.path)

NameMatchesSubtree(name, constr) ==
  /\ name.type = constr.type
  /\ CASE name.type = "dns"       -> MatchesDnsName(name, constr)
       [] name.type = "directory" -> DnWithinSubtree(name, constr)
       [] name.type = "rfc822"    -> MatchesRfc822Name(name, constr)
       [] name.type = "uri"       -> MatchesUri(name, constr)
       [] name.type = "ip"        -> MatchesIpAddress(name, constr)
       [] OTHER                   -> FALSE

MatchesAny(name, subtrees) == \E s \in subtrees : NameMatchesSubtree(name, s)

-----------------------------------------------------------------------------
(* The entries of mine the type-aware intersection keeps against theirs. *)
KeptAgainst(mine, theirs) ==
  {m \in mine :
     LET rivals == {t \in theirs : SameNcVariant(t, m)}
     IN  rivals = {} \/ MatchesAny(m, rivals)}

Mut_KeepNewOnly(current, new) == KeptAgainst(new, current) \cup current

(* permittedSubtrees of one more CA.  The code drops an entry of current   *)
(* that is equivalent to one already kept; equivalent entries match the    *)
(* same names, so the set keeps both.                                      *)
IntersectPermitted(current, new) == KeptAgainst(new, current) \cup KeptAgainst(current, new)

(* excludedSubtrees of one more CA, again up to equivalent entries. *)
UnionExcluded(current, new) == current \cup new

-----------------------------------------------------------------------------
(* check_name_constraints.  nc_permitted = None ("no CA has a permitted    *)
(* field yet") is the empty set: no type bit is set then, and intersecting *)
(* with either adopts the new entries, so the code cannot tell them apart. *)

DnName(rdns) == [type |-> "directory", form |-> "name", path |-> rdns, user |-> ""]

SubjectNames(subject) == IF subject = <<>> THEN {} ELSE {DnName(subject)}

Excludes(excluded, names) == \E n \in names : MatchesAny(n, excluded)

(* A constrained type with no entry left forbids every name of that type.  *)
Forbids(permitted, types, names) ==
  \E n \in names : n.type \in types /\ ~MatchesAny(n, permitted)

(* emails: the emailAddress attributes of the subject, read as mailboxes.  *)
NameConstraintsViolated(subject, emails, san, permitted, excluded, types) ==
  LET names == SubjectNames(subject) \cup san \cup emails
  IN  Excludes(excluded, names) \/ Forbids(permitted, types, names)
=============================================================================
