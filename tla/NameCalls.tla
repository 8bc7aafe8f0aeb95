------------------------------ MODULE NameCalls ------------------------------
(***************************************************************************)
(* Calls about names: every link is sound, so the verdict depends on       *)
(* names, name constraints and the leaf requirements.                      *)
(***************************************************************************)
EXTENDS SampleCalls

Name(type, form, path) == [type |-> type, form |-> form, path |-> path, user |-> ""]
Mailbox(path) == [type |-> "rfc822", form |-> "name", path |-> path, user |-> "u"]

X  == <<"x">>          \* the domain x, and in it the host a.x
AX == <<"x", "a">>
Y  == <<"y">>

O  == <<"o">>          \* DNs: everything but the leaf called <<"z">> is below o
OL == <<"o", "l">>
Z  == <<"z">>

NoSubtrees == [permitted |-> {}, excluded |-> {}]
Permit(s) == [NoSubtrees EXCEPT !.permitted = s]
Exclude(s) == [NoSubtrees EXCEPT !.excluded = s]

Permits ==
  {{Name("dns", "name", X)}, {Name("dns", "name", AX), Name("dns", "name", Y)},
   {Name("dns", "below", X)}, {Name("rfc822", "domain", X)}, {Mailbox(X)},
   {Name("rfc822", "below", X)}, {Name("uri", "domain", AX)}, {Name("uri", "below", X)},
   {Name("ip", "domain", <<0>>)}, {Name("ip", "domain", <<>>), Name("dns", "name", Y)},
   {Name("directory", "name", O)}, {Name("directory", "name", OL)}}

Excludes5 ==
  {{Name("dns", "name", AX)}, {Name("rfc822", "domain", X), Mailbox(AX)},
   {Name("uri", "below", X)}, {Name("ip", "domain", <<0>>)}, {Name("directory", "name", OL)}}

Ncs == {Absent} \cup {Permit(s) : s \in Permits} \cup {Exclude(s) : s \in Excludes5}

Sans == {Absent, Malformed,
         {Name("dns", "name", X)}, {Name("dns", "name", AX)}, {Name("dns", "name", Y)},
         {Mailbox(X)}, {Mailbox(AX)}, {Name("uri", "name", AX)},
         {Name("ip", "name", <<0, 1>>)}, {Name("ip", "name", <<1, 1>>)},
         {Name("other", "name", X)}}

Plain == PlainCert(OL, O, 1)

Leaves == {[Plain EXCEPT !.san = s] : s \in Sans}
  \cup {[Plain EXCEPT !.subject = Z], [Plain EXCEPT !.emails = {Mailbox(X)}]}

Mid == PlainCa(O, <<"t">>, 2)

(* A CA below the top one: plain, self-issued, or with names of its own. *)
Mids == {[m EXCEPT !.nc = nc] : nc \in Ncs,
          m \in {Mid, [Mid EXCEPT !.san = {Name("dns", "name", X)}]}}
  \cup {[Mid EXCEPT !.issuer = O, !.nc = nc] : nc \in {Absent, Permit({Name("dns", "name", X)})}}
  \cup {[Mid EXCEPT !.nc = Malformed]}

Top(m, nc) == [PlainCa(m.issuer, <<"r">>, 3) EXCEPT !.nc = nc]

Chains ==
  {<<l>> : l \in {[k0 EXCEPT !.issuer = <<"r">>, !.signer = 4] : k0 \in Leaves}}
  \cup {<<l, m, Top(m, nc)>> : l \in Leaves, m \in Mids, nc \in Ncs}

OwnDn == [Lenient EXCEPT !.dn_rule = {OL, Z}]

(* The second policy has a profile's leaf requirements, too. *)
Calls ==
  [chains |-> Chains,
   anchor_lists |-> {<<Anchor(<<"r">>, 4, nc)>> :
     nc \in {Absent, Permit({Name("dns", "name", X), Name("directory", "name", O)})}},
   policies |-> {OwnDn,
                 [OwnDn EXCEPT !.require_subject_alt_name = TRUE, !.require_rfc822_san = TRUE,
                               !.required_leaf_eku = {}, !.dn_rule = {OL}]}]
=============================================================================
