------------------------------ MODULE CrlChecker ------------------------------
(***************************************************************************)
(* pkix-revocation/src/crl.rs and signer_discovery.rs: what a CrlChecker   *)
(* answers for one certificate, given the CRLs and certificates it was     *)
(* built from.                                                             *)
(*                                                                         *)
(* A certificate is [subject, issuer, serial, key, ski, aki, ku, ca, cdp]; *)
(* a CRL is [issuer, key, aki, number, base, this, next, idp, entries] of  *)
(* which "key" made the signature.  Option::None and what does not decode  *)
(* are None and Malformed, or a "form" of its own.                         *)
(***************************************************************************)
EXTENDS Checks, SequencesExt

\* Option::None of a certificate and of a CRL.
NoCert == [subject |-> "absent"]
NoCrl == [issuer |-> "absent"]

-----------------------------------------------------------------------------
(***************************************************************************)
(* signer_discovery.rs                                                     *)
(***************************************************************************)
\* discover_crl_signer: the key identifier if the CRL has one, else the name.
DiscoverCrlSigner(bundle, crl) ==
  LET ByKeyId(c) == c.ski # None /\ c.ski = crl.aki
      ByName(c)  == c.subject = crl.issuer
      i == IF crl.aki # None THEN SelectInSeq(bundle, ByKeyId)
           ELSE SelectInSeq(bundle, ByName)
  IN  IF i = 0 THEN NoCert ELSE bundle[i]

\* find_parent: by key identifier, then by name; never the certificate itself.
\* A bundle is a sequence of references, so its elements are told apart by
\* their positions.
FindParent(bundle, i) ==
  LET c == bundle[i]
      ByKeyId == {j \in DOMAIN bundle \ {i} : bundle[j].ski # None /\ bundle[j].ski = c.aki}
      ByName  == {j \in DOMAIN bundle \ {i} : bundle[j].subject = c.issuer}
      First(S) == CHOOSE j \in S : \A k \in S : j <= k
  IN  IF ByKeyId # {} THEN First(ByKeyId)
      ELSE IF ByName # {} THEN First(ByName) ELSE 0

\* reaches_self_signed: at most one step per certificate of the bundle and one
\* more; walk[n] is the position after n steps, 0 once there is no parent.
ReachesSelfSigned(bundle, signer) ==
  LET start == CHOOSE i \in DOMAIN bundle : bundle[i] = signer
      walk[n \in 0..(Len(bundle) + 1)] ==
        IF n = 0 THEN start
        ELSE IF walk[n - 1] = 0 THEN 0 ELSE FindParent(bundle, walk[n - 1])
  IN  \E n \in DOMAIN walk :
        walk[n] # 0 /\ bundle[walk[n]].subject = bundle[walk[n]].issuer

-----------------------------------------------------------------------------
(***************************************************************************)
(* Helpers of crl.rs.                                                      *)
(***************************************************************************)
\* check_crl_sign: a certificate without key usage may sign CRLs.
CrlSignChecks(c) ==
  << <<c.ku = "malformed", "CrlParseError">>,
     <<c.ku = "noCrlSign", "CrlSignMissing">> >>

\* The validity window of a CRL; without nextUpdate it has expired.
Outside(crl, now) == now < crl.this \/ crl.next = None \/ now > crl.next

\* parse_issuing_dp
HasIdp(crl) == crl.idp.form = "present"
Indirect(crl) == HasIdp(crl) /\ crl.idp.indirect

\* dpn_to_general_names and general_names_intersect: a distribution point
\* name is a set of full names, or one relative to the issuer of the CRL.
GeneralNames(dpn, baseDn) ==
  IF dpn.form = "full" THEN dpn.names ELSE {<<baseDn, dpn.rdn>>}

\* check_idp_dp_scope.  A certificate's distribution point may have no name.
DpInScope(cert, crl, signer) ==
  \/ crl.idp.dp.form = "absent"
  \/ /\ \E dp \in cert.cdp.points :
          /\ dp.form # "absent"
          /\ GeneralNames(dp, cert.issuer)
               \cap GeneralNames(crl.idp.dp, signer.subject) # {}

\* Entries that do not inherit the issuer of the entry before them.
Mut_NoInheritance(entries, i, default) ==
  IF entries[i].issuer = "absent" THEN default ELSE entries[i].issuer

\* The issuer an entry is about: the certificateIssuer of the last entry at
\* or before it that has one, else the issuer of the CRL.
EffectiveIssuer(entries, i, default) ==
  LET named == {j \in 1..i : entries[j].issuer # "absent"}
  IN  IF named = {} THEN default
      ELSE entries[CHOOSE j \in named : \A k \in named : k <= j].issuer

\* find_matching_entry: the index of the first entry about (issuer, serial),
\* 0 if there is none, and Malformed if a certificateIssuer met on the way
\* does not decode.  A direct CRL's entries are all about its issuer.
FindMatchingEntry(entries, issuer, serial, default, isIndirect) ==
  LET About(i) == IF isIndirect THEN EffectiveIssuer(entries, i, default) ELSE default
      matching == {i \in DOMAIN entries :
                     entries[i].serial = serial /\ About(i) = issuer}
      first == IF matching = {} THEN 0 ELSE CHOOSE i \in matching : \A j \in matching : i <= j
      last  == IF first = 0 THEN Len(entries) ELSE first
  IN  IF isIndirect /\ \E i \in 1..last : entries[i].issuer = "malformed"
      THEN Malformed ELSE first

\* check_revocation_status_indirect: the delta first, then the base.
RevocationStatus(base, delta, issuer, serial, isIndirect) ==
  LET In(entries) == FindMatchingEntry(entries, issuer, serial, base.issuer, isIndirect)
      inDelta == IF delta = NoCrl THEN 0 ELSE In(delta.entries)
      inBase  == In(base.entries)
  IN  FirstError(<<
        <<inDelta = Malformed, "CrlParseError">>,
        <<inDelta > 0 /\ delta.entries[inDelta].reason # "removeFromCRL", "Revoked">>,
        <<inDelta = 0 /\ inBase = Malformed, "CrlParseError">>,
        <<inDelta = 0 /\ inBase > 0, "Revoked">> >>)

\* verify_delta_crl_and_collect, with the comparison of issuers before it.
DeltaChecks(ck, signer) ==
  LET d == ck.delta
  IN  IF d = NoCrl THEN <<>>
      ELSE << <<d.issuer # ck.crl.issuer \/ d.issuer # signer.subject, "CrlIssuerMismatch">>,
              <<Outside(d, ck.now), "CrlExpired">>,
              <<d.key # signer.key, "CrlSignatureInvalid">> >>

\* The scope the CRL declares for itself, against the certificate.
ScopeChecks(ck, cert, signer) ==
  IF ~HasIdp(ck.crl) THEN <<>>
  ELSE << <<ck.crl.idp.only = "attribute", "OutOfScope">>,
          <<cert.ca = "malformed", "MalformedCertificate">>,
          <<ck.crl.idp.only = "user" /\ cert.ca = "yes", "OutOfScope">>,
          <<ck.crl.idp.only = "ca" /\ cert.ca = "no", "OutOfScope">>,
          <<cert.cdp.form = "malformed", "CrlParseError">>,
          <<~DpInScope(cert, ck.crl, signer), "OutOfScope">> >>

-----------------------------------------------------------------------------
(***************************************************************************)
(* The constructors: a checker is [crl, delta, crlIssuer, discovered, now]. *)
(***************************************************************************)
\* with_delta: the conditions on a pair of CRLs.  A base without a number is
\* paired with any delta of its issuer.
DeltaPairChecks(base, delta) ==
  << <<base.base # None, "DeltaCrlBaseMismatch">>,
     <<delta.base = None, "DeltaCrlBaseMismatch">>,
     <<delta.base = Malformed, "CrlParseError">>,
     <<base.issuer # delta.issuer, "DeltaCrlBaseMismatch">>,
     <<base.number = Malformed, "CrlParseError">>,
     <<base.number # None /\ delta.base > base.number, "CrlNumberMismatch">> >>

\* new_with_signer_discovery: what is asked of the bundle.
DiscoveryChecks(bundle, crl) ==
  LET signer == DiscoverCrlSigner(bundle, crl)
  IN  IF signer = NoCert THEN << <<TRUE, "CrlSignerNotFound">> >>
      ELSE CrlSignChecks(signer)
             \o << <<~ReachesSelfSigned(bundle, signer), "CrlSignerNotTrusted">> >>

-----------------------------------------------------------------------------
(***************************************************************************)
(* check_revocation, and check_revocation_against_anchor, whose issuer is  *)
(* the name and key of an anchor ("anchored"): no key usage to look at.    *)
(***************************************************************************)
\* The certificate, or the anchor, whose key must have signed the CRL.
SignerOf(ck, issuer) == IF ck.crlIssuer # NoCert THEN ck.crlIssuer ELSE issuer

SignerChecks(ck) ==
  << <<ck.crl.idp.form = "malformed", "CrlParseError">>,
     <<ck.crlIssuer # NoCert /\ ~Indirect(ck.crl) /\ ~ck.discovered,
       "IndirectCrlIssuerUnexpected">>,
     <<ck.crlIssuer = NoCert /\ Indirect(ck.crl), "IndirectCrlIssuerMissing">> >>

IdentityChecks(ck, cert, issuer, anchored) ==
  LET signer == SignerOf(ck, issuer)
  IN  << <<ck.crl.issuer # signer.subject, "CrlIssuerMismatch">>,
         <<issuer.subject # cert.issuer, "CrlIssuerMismatch">>,
         <<~anchored /\ ck.crlIssuer = NoCert /\ cert.issuer # ck.crl.issuer,
           "CrlIssuerMismatch">> >>
      \o (IF anchored /\ ck.crlIssuer = NoCert THEN <<>> ELSE CrlSignChecks(signer))

\* A checker that never looks at the signature of the CRL.
Mut_Unsigned(ck, signer) == << <<Outside(ck.crl, ck.now), "CrlExpired">> >>

BaseChecks(ck, signer) ==
  << <<Outside(ck.crl, ck.now), "CrlExpired">>,
     <<ck.crl.key # signer.key, "CrlSignatureInvalid">> >>

CrlCheckRevocation(ck, cert, issuer, anchored) ==
  LET signer == SignerOf(ck, issuer)
      verdict == FirstError(SignerChecks(ck)
                            \o IdentityChecks(ck, cert, issuer, anchored)
                            \o BaseChecks(ck, signer)
                            \o ScopeChecks(ck, cert, signer)
                            \o DeltaChecks(ck, signer))
  IN  IF verdict # "Ok" THEN verdict
      ELSE RevocationStatus(ck.crl, ck.delta, cert.issuer, cert.serial,
                            ck.crlIssuer # NoCert)

=============================================================================
