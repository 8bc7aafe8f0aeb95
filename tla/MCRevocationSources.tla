------------------------- MODULE MCRevocationSources -------------------------
(***************************************************************************)
(* RevocationSources for TLC.                                              *)
(*                                                                         *)
(* CAs A and B each have a certificate of serial number 1; I issues        *)
(* indirect CRLs and answers OCSP for A.  A has rolled over from key a1 to *)
(* a2, so that two certificates have its name.  Three instants are what a  *)
(* hold, its release and a revocation after it need, and a CRL, one of its *)
(* successors and a delta between them.                                    *)
(***************************************************************************)
EXTENDS RevocationSources

MCSubjects == {<<"A", 1>>, <<"A", 2>>, <<"B", 1>>}

Absent == [form |-> "absent"]
Full(n) == [form |-> "full", names |-> {n}]
Relative(rdn) == [form |-> "relative", rdn |-> rdn]
NoIdp == [form |-> "absent"]
Idp(indirect, only, dp) ==
  [form |-> "present", indirect |-> indirect, only |-> only, dp |-> dp]

\* A plain CRL of A.
PlainCrl == [issuer |-> "A", key |-> "a1", aki |-> None, idp |-> NoIdp, numbered |-> TRUE,
             life |-> 1, damaged |-> FALSE, covers |-> {<<"A", 1>>}]
IndirectCrl == [PlainCrl EXCEPT !.issuer = "I", !.key = "i", !.idp = Idp(TRUE, "all", Absent),
                                !.covers = {<<"A", 1>>, <<"A", 2>>, <<"B", 1>>}]

MCCrlProfiles ==
  {PlainCrl, IndirectCrl,
   [PlainCrl EXCEPT !.life = None],
   [PlainCrl EXCEPT !.key = "x"],
   [PlainCrl EXCEPT !.numbered = FALSE],
   [PlainCrl EXCEPT !.issuer = "B", !.key = "b", !.covers = {<<"B", 1>>}],
   [PlainCrl EXCEPT !.key = "a2", !.aki = 2],
   [PlainCrl EXCEPT !.idp = [form |-> "malformed"]],
   [PlainCrl EXCEPT !.idp = Idp(FALSE, "user", Full("u1"))],
   [PlainCrl EXCEPT !.idp = Idp(FALSE, "ca", Absent)],
   [PlainCrl EXCEPT !.idp = Idp(FALSE, "attribute", Absent)],
   [PlainCrl EXCEPT !.idp = Idp(FALSE, "all", Relative("cn"))],
   [IndirectCrl EXCEPT !.damaged = TRUE]}

MCDeltaProfiles ==
  {PlainCrl, IndirectCrl, [PlainCrl EXCEPT !.key = "x"], [PlainCrl EXCEPT !.numbered = FALSE]}

\* Certificates; the plain one is A's own, self-signed.
CertA == [subject |-> "A", issuer |-> "A", serial |-> 9, key |-> "a1", ski |-> 1, aki |-> 1,
          ku |-> "crlSign", ca |-> "yes", cdp |-> [form |-> "absent", points |-> {}]]
CertA2 == [CertA EXCEPT !.key = "a2", !.ski = 2]
CertB == [CertA EXCEPT !.subject = "B", !.issuer = "B", !.key = "b", !.ski = 3, !.aki = None,
                       !.ku = "absent"]
CertI == [CertA EXCEPT !.subject = "I", !.key = "i", !.ski = 4, !.aki = 1]
Orphan == [CertA EXCEPT !.issuer = "C", !.aki = None]

Leaf(ca, points) == [CertA EXCEPT !.subject = "leaf", !.serial = 1, !.ca = ca,
                                  !.cdp = [form |-> "present", points |-> points]]

MCCerts ==
  {Leaf("no", {Absent, Relative("cn")}), Leaf("no", {Full("u1")}), Leaf("yes", {}),
   Leaf("malformed", {}), [Leaf("no", {}) EXCEPT !.issuer = "B"],
   [Leaf("no", {}) EXCEPT !.cdp = [form |-> "malformed", points |-> {}]]}
MCIssuers == {CertA, CertB, [CertA EXCEPT !.ku = "noCrlSign"]}
MCCrlIssuers == {CertI, [CertI EXCEPT !.ku = "malformed"]}
MCBundles == {<<CertA, CertA2, CertB>>, <<CertI, Orphan>>, <<CertI, CertA>>, <<CertB>>}

\* An OCSP response of A itself, and responders A delegates to.
Delegated == [subject |-> "R", issuer |-> "A", key |-> "r", signedBy |-> "a1",
              eku |-> "ocspSigning", from |-> 1, to |-> 2]
DirectOcsp ==
  [form |-> "ok", status |-> "successful", type |-> "basic", basic |-> "ok",
   responder |-> [by |-> "name", name |-> "A"], key |-> "a1", certs |-> <<>>,
   hash |-> "sha256", issuerKey |-> [A |-> "a1", B |-> "b"], life |-> 1, knows |-> "all",
   covers |-> << <<"A", 1>> >>]
DelegatedOcsp == [DirectOcsp EXCEPT !.responder = [by |-> "key", keyId |-> "r"], !.key = "r",
                                    !.certs = <<Delegated>>]

MCOcspProfiles ==
  {DirectOcsp, DelegatedOcsp,
   [DirectOcsp EXCEPT !.covers = << <<"B", 1>>, <<"A", 1>> >>],
   [DirectOcsp EXCEPT !.covers = << <<"B", 1>> >>],
   [DirectOcsp EXCEPT !.covers = <<>>],
   [DirectOcsp EXCEPT !.life = None],
   [DirectOcsp EXCEPT !.hash = "md5"],
   [DirectOcsp EXCEPT !.knows = "nothing"],
   [DirectOcsp EXCEPT !.key = "x"],
   [DirectOcsp EXCEPT !.responder = [by |-> "key", keyId |-> "a1"]],
   [DirectOcsp EXCEPT !.form = "malformed"], [DirectOcsp EXCEPT !.status = "tryLater"],
   [DirectOcsp EXCEPT !.type = "other"], [DirectOcsp EXCEPT !.basic = "malformed"],
   [DelegatedOcsp EXCEPT !.certs = <<>>],
   [DelegatedOcsp EXCEPT !.key = "x"],
   [DelegatedOcsp EXCEPT !.certs = << [Delegated EXCEPT !.subject = "S", !.key = "s"], Delegated>>],
   [DelegatedOcsp EXCEPT !.certs = << [Delegated EXCEPT !.issuer = "B"] >>],
   [DelegatedOcsp EXCEPT !.certs = << [Delegated EXCEPT !.eku = "absent"] >>],
   [DelegatedOcsp EXCEPT !.certs = << [Delegated EXCEPT !.eku = "malformed"] >>],
   [DelegatedOcsp EXCEPT !.certs = << [Delegated EXCEPT !.signedBy = "x"] >>]}

MCAuthority ==
  [a1 |-> {"A"}, a2 |-> {"A"}, b |-> {"B"}, i |-> {"A", "B", "I"}, r |-> {"A"}, s |-> {"A"},
   x |-> {}]

=============================================================================
