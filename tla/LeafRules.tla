------------------------------ MODULE LeafRules -------------------------------
(***************************************************************************)
(* The lint rules of pkix-lint and pkix-lint-cabf, and the profiles of     *)
(* pkix-profiles and pkix-profiles-cabf: for each a ValidationPolicy that  *)
(* pkix-path enforces and a list of lints.                                 *)
(*                                                                         *)
(* A certificate is a record of what they read:                            *)
(*   not_before, not_after   days since 1970                               *)
(*   alg, tbs_alg            the two signature algorithms                  *)
(*   key                     [alg, form, modulus]: the modulus as encoded, *)
(*                           octet by octet; form is "ok" or "broken"      *)
(*   subject                 the attributes of its DN                      *)
(*   san                     [form, critical, names]                       *)
(*   eku, cp, bc             [form, has]                                   *)
(*   serial                  the number of octets of its serial            *)
(* The form of an extension is "ok", "absent" or "malformed".              *)
(***************************************************************************)
EXTENDS Identity, Integers

CONSTANTS
  MinBits    \* the size of RSA key asked for: 2048 in the code, scaled

ASSUME MinBitsAssumption == MinBits \in Nat /\ MinBits > 8

Holds(ext, value) == ext.form = "ok" /\ value \in ext.has

-----------------------------------------------------------------------------
(***************************************************************************)
(* RSA key sizes, measured twice.                                          *)
(***************************************************************************)
\* Octets of an INTEGER that der::asn1::UintRef takes: minimal, not negative.
CanonicalUint(octets) ==
  /\ octets # <<>>
  /\ octets[1] < 128
  /\ Len(octets) > 1 /\ octets[1] = 0 => octets[2] >= 128

\* rsa_public_key_bits of pkix-path: whole octets, None if the key is not read.
RsaPublicKeyBits(key) ==
  IF key.alg # "rsa" \/ key.form # "ok" \/ ~CanonicalUint(key.modulus) THEN None
  ELSE 8 * (IF Len(key.modulus) > 1 /\ key.modulus[1] = 0 THEN Len(key.modulus) - 1 ELSE Len(key.modulus))

PowersOfTwo == <<1, 2, 4, 8, 16, 32, 64, 128, 256>>

BitLength(octet) ==
  CHOOSE n \in 0..8 : octet < PowersOfTwo[n + 1] /\ (n > 0 => octet >= PowersOfTwo[n])

\* rsa_modulus_bit_len of pkix-lint-cabf: from the first octet that is not zero.
RsaModulusBitLen(key) ==
  LET nonzero == {i \in DOMAIN key.modulus : key.modulus[i] # 0}
      first == CHOOSE i \in nonzero : \A j \in nonzero : i <= j
  IN  IF key.form # "ok" \/ nonzero = {} THEN None
      ELSE 8 * (Len(key.modulus) - first) + BitLength(key.modulus[first])

-----------------------------------------------------------------------------
(***************************************************************************)
(* The cap of ballot SC-081, as the lint has it.                           *)
(***************************************************************************)
LintValidityCap(not_before) ==
  CASE not_before >= 21623 -> 47 [] not_before >= 20892 -> 100
    [] not_before >= 20527 -> 200 [] OTHER -> 398

-----------------------------------------------------------------------------
(***************************************************************************)
(* The lints: "Pass", "Error" or "NotApplicable".                          *)
(***************************************************************************)
ErrorIf(fails) == IF fails THEN "Error" ELSE "Pass"

NoSan(cert) == cert.san.form # "ok" \/ cert.san.names = <<>>
HasName(cert, types) ==
  cert.san.form = "ok" /\ \E i \in DOMAIN cert.san.names : cert.san.names[i].type \in types

\* cabf_tls_br
ValidityMax(cert) ==
  ErrorIf(\/ cert.not_after < cert.not_before
          \/ cert.not_after - cert.not_before > LintValidityCap(cert.not_before))
Sha1Prohibited(cert) == ErrorIf(cert.alg \in {"sha1Rsa", "sha1Ecdsa"})
RsaMinKeySize(cert) ==
  IF cert.key.alg # "rsa" THEN "NotApplicable"
  ELSE ErrorIf(RsaModulusBitLen(cert.key) < MinBits)
SanRequired(cert) == ErrorIf(NoSan(cert))
CabfEkuServerAuth(cert) == ErrorIf(~Holds(cert.eku, "serverAuth"))
BcCaFlag(cert) == ErrorIf(~Holds(cert.bc, "ca"))

\* rfc5280, rfc6125, rfc8551, rfc8398
MaxSerialLength(cert, max_octets) == ErrorIf(cert.serial > max_octets)
BasicConstraintsCaLeaf(cert) == ErrorIf(cert.bc.form = "malformed" \/ Holds(cert.bc, "ca"))
SanRequiredWhenSubjectEmpty(cert) ==
  ErrorIf(cert.subject = {} /\ (cert.san.form = "absent" \/ ~cert.san.critical))
SignatureAlgorithmMatch(cert) == ErrorIf(cert.alg # cert.tbs_alg)
EkuServerAuth(cert) == ErrorIf(~Holds(cert.eku, "serverAuth"))
TlsServerSan(cert) == ErrorIf(~HasName(cert, {"dns", "ip"}))
EkuEmailProtection(cert) == ErrorIf(~Holds(cert.eku, "emailProtection"))
SmimeSan(cert) == ErrorIf(~HasName(cert, {"rfc822", "smtp"}))

ValidateMailbox(entry) ==
  /\ entry.ats > 0 /\ entry.local # "" /\ entry.domain # Empty
  /\ DomainToAscii(entry.domain) # Bad

MailboxEquivalent(rfc822, smtputf8) ==
  /\ rfc822.local = smtputf8.local
  /\ EqIgnoreAsciiCase(DomainToAscii(smtputf8.domain), rfc822.domain)

\* Only one of the two loops.
Mut_OneDirection(rs, us) == \A r \in rs : \E u \in us : MailboxEquivalent(r, u)

Equivalent(rs, us) ==
  /\ \A r \in rs : \E u \in us : MailboxEquivalent(r, u)
  /\ \A u \in us : \E r \in rs : MailboxEquivalent(r, u)

MailboxEquivalence(cert) ==
  LET names == {cert.san.names[i] : i \in DOMAIN cert.san.names}
      rs == {n \in names : n.type = "rfc822"}
      us == {n \in names : n.type = "smtp"}
  IN  IF cert.san.form = "absent" THEN "Pass"
      ELSE ErrorIf(\/ cert.san.form = "malformed"
                   \/ \E u \in us : ~u.utf8
                   \/ /\ rs # {} /\ us # {}
                      /\ \/ \E n \in rs \cup us : ~ValidateMailbox(n)
                         \/ ~Equivalent(rs, us))

\* Lint::applies_to; the lints not named apply to any certificate.
LeafLints == {"ValidityMax", "SanRequired", "CabfEkuServerAuth", "EkuServerAuth", "BasicConstraintsCaLeaf",
              "TlsServerSan", "EkuEmailProtection", "SmimeSan", "MailboxEquivalence"}
AppliesTo(lint, kind) ==
  CASE lint \in LeafLints -> kind = "Leaf" [] lint = "BcCaFlag" -> kind = "IntermediateCa" [] OTHER -> TRUE

\* Lint::check_cert, by the lint's name.
CheckCert(lint, cert, max_octets) ==
  CASE lint = "ValidityMax" -> ValidityMax(cert)
    [] lint = "Sha1Prohibited" -> Sha1Prohibited(cert)
    [] lint = "RsaMinKeySize" -> RsaMinKeySize(cert)
    [] lint = "SanRequired" -> SanRequired(cert)
    [] lint = "CabfEkuServerAuth" -> CabfEkuServerAuth(cert)
    [] lint = "EkuServerAuth" -> EkuServerAuth(cert)
    [] lint = "BcCaFlag" -> BcCaFlag(cert)
    [] lint = "MaxSerialLength" -> MaxSerialLength(cert, max_octets)
    [] lint = "BasicConstraintsCaLeaf" -> BasicConstraintsCaLeaf(cert)
    [] lint = "SanRequiredWhenSubjectEmpty" -> SanRequiredWhenSubjectEmpty(cert)
    [] lint = "SignatureAlgorithmMatch" -> SignatureAlgorithmMatch(cert)
    [] lint = "TlsServerSan" -> TlsServerSan(cert)
    [] lint = "EkuEmailProtection" -> EkuEmailProtection(cert)
    [] lint = "SmimeSan" -> SmimeSan(cert)
    [] lint = "MailboxEquivalence" -> MailboxEquivalence(cert)

-----------------------------------------------------------------------------
(***************************************************************************)
(* DnAttrRule, and the part of ValidationPolicy that profiles set.         *)
(***************************************************************************)
Field(attr) == [op |-> "Field", attr |-> attr, rules |-> <<>>]
AllOf(rules) == [op |-> "AllOf", attr |-> "", rules |-> rules]
AnyOf(rules) == [op |-> "AnyOf", attr |-> "", rules |-> rules]

EvaluateBy(subject, rule, Inner(_)) ==
  CASE rule.op = "Field" -> rule.attr \in subject
    [] rule.op = "AllOf" -> \A i \in DOMAIN rule.rules : Inner(rule.rules[i])
    [] rule.op = "AnyOf" -> \E i \in DOMAIN rule.rules : Inner(rule.rules[i])

\* A bound: rules nest four deep, as deep as those of the profiles.
EvaluateDnAttrRule(subject, rule) ==
  LET Fourth(r) == r.attr \in subject
      Third(r) == EvaluateBy(subject, r, Fourth)
      Second(r) == EvaluateBy(subject, r, Third)
  IN  EvaluateBy(subject, rule, Second)

\* ValidationPolicy::new: no demand.  Demands of several values are sets; a size of 0 asks nothing.
NoDemand ==
  [max_validity |-> None, algs |-> {}, min_bits |-> 0, san |-> FALSE, rfc822 |-> FALSE,
   eku |-> {}, oids |-> {}, dn |-> AllOf(<<>>)]

\* What chain_walk asks of a leaf for these fields, in its order.
PolicyErrors(policy, cert, now) ==
  << <<policy.algs # {} /\ cert.alg \notin policy.algs, "AlgorithmNotAllowed">>,
     <<now < cert.not_before \/ now > cert.not_after, "ValidityPeriod">>,
     <<policy.max_validity # None /\ cert.not_after - cert.not_before > policy.max_validity,
       "ValidityPeriodExceedsMax">>,
     <<RsaPublicKeyBits(cert.key) # None /\ RsaPublicKeyBits(cert.key) < policy.min_bits, "KeyTooSmall">>,
     <<cert.cp.form = "malformed" \/ cert.san.form = "malformed", "MalformedCertificate">>,
     <<policy.san /\ NoSan(cert), "MissingSan">>,
     <<policy.eku # {} /\ cert.eku.form = "malformed", "MalformedCertificate">>,
     <<policy.eku # {} /\ ~(\A e \in policy.eku : Holds(cert.eku, e)), "MissingEku">>,
     <<\E o \in policy.oids : ~Holds(cert.cp, o), "MissingLeafPolicyOid">>,
     <<~EvaluateDnAttrRule(cert.subject, policy.dn), "SubjectDnAttrRuleUnmet">>,
     <<policy.san /\ policy.rfc822 /\ ~HasName(cert, {"rfc822"}), "MissingRfc822San">> >>

-----------------------------------------------------------------------------
(***************************************************************************)
(* The profiles.                                                           *)
(***************************************************************************)
AllowedAlgs == {"sha256Rsa", "sha384Rsa", "sha512Rsa", "ecdsaSha256", "ecdsaSha384", "ecdsaSha512"}
PersonName == AnyOf(<<Field("pseudonym"), AllOf(<<Field("givenName"), Field("surname")>>)>>)
SponsoredName == AllOf(<<Field("organizationName"), Field("organizationIdentifier"), PersonName>>)

WebPki == [NoDemand EXCEPT !.algs = AllowedAlgs, !.min_bits = MinBits, !.san = TRUE, !.eku = {"serverAuth"}]
Smime == [NoDemand EXCEPT !.max_validity = 825, !.algs = AllowedAlgs, !.min_bits = MinBits,
                          !.san = TRUE, !.rfc822 = TRUE, !.eku = {"emailProtection"}]
SmimeIndividual == [Smime EXCEPT !.oids = {"individualStrict"}, !.dn = PersonName]
SmimeIndividualMultipurpose == [Smime EXCEPT !.oids = {"individualMultipurpose"}, !.dn = PersonName]
SmimeSponsor == [Smime EXCEPT !.oids = {"sponsorStrict"}, !.dn = SponsoredName]

SmimeSponsorMultipurpose == [Smime EXCEPT !.oids = {"sponsorMultipurpose"}, !.dn = SponsoredName]
CodeSigning == [NoDemand EXCEPT !.max_validity = 460, !.algs = AllowedAlgs,
                                !.min_bits = MinBits + (MinBits \div 2), !.eku = {"codeSigning"}]

\* The key purpose left to the lints.
Mut_TlsWithoutEku == [NoDemand EXCEPT !.san = TRUE]

BasicTls == [NoDemand EXCEPT !.san = TRUE, !.eku = {"serverAuth"}]
BasicSmime == [NoDemand EXCEPT !.san = TRUE, !.rfc822 = TRUE, !.eku = {"emailProtection"}]
BasicPurpose(purpose) == [NoDemand EXCEPT !.eku = {purpose}]

\* Profile::policy, by the profile's name.
Policy ==
  [Rfc5280 |-> NoDemand, WebPki |-> WebPki, Smime |-> Smime, SmimeIndividual |-> SmimeIndividual,
   SmimeIndividualMultipurpose |-> SmimeIndividualMultipurpose, SmimeSponsor |-> SmimeSponsor,
   SmimeSponsorMultipurpose |-> SmimeSponsorMultipurpose, CodeSigning |-> CodeSigning,
   BasicTls |-> BasicTls, BasicSmime |-> BasicSmime,
   BasicTlsClient |-> BasicPurpose("clientAuth"), BasicCodeSigning |-> BasicPurpose("codeSigning"),
   BasicTimeStamping |-> BasicPurpose("timeStamping"), BasicOcspResponder |-> BasicPurpose("ocspSigning")]

WebPkiLints == {"ValidityMax", "Sha1Prohibited", "RsaMinKeySize", "SanRequired", "CabfEkuServerAuth", "BcCaFlag"}
BasicTlsLints == {"TlsServerSan", "EkuServerAuth", "BasicConstraintsCaLeaf",
                  "SanRequiredWhenSubjectEmpty", "SignatureAlgorithmMatch", "MaxSerialLength"}
BasicSmimeLints == {"SmimeSan", "EkuEmailProtection", "MailboxEquivalence",
                    "SignatureAlgorithmMatch", "MaxSerialLength"}

\* LintProfile::lints: the other profiles have none.
Lints(profile) ==
  CASE profile = "WebPki" -> WebPkiLints [] profile = "BasicTls" -> BasicTlsLints
    [] profile = "BasicSmime" -> BasicSmimeLints [] OTHER -> {}

=============================================================================
