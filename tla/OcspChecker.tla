------------------------------ MODULE OcspChecker -----------------------------
(***************************************************************************)
(* pkix-revocation/src/ocsp.rs: what an OcspChecker answers for one        *)
(* certificate, given the OCSP response it was built from.                 *)
(*                                                                         *)
(* A response is [form, status, type, basic, responder, key, certs,        *)
(* produced, singles].  "responder" is [by, name] or [by, keyId]; "certs"  *)
(* are the embedded certificates [subject, issuer, key, signedBy, eku,     *)
(* from, to]; a single response is [serial, hash, issuer, issuerKey,       *)
(* this, next, status].  The hash of a name or a key stands for the value  *)
(* hashed, an algorithm the code does not know for itself.                 *)
(***************************************************************************)
EXTENDS Checks, SequencesExt

Hashes == {"sha1", "sha256", "sha384", "sha512"}

\* parse_basic_response, in OcspChecker::new.
BasicResponseChecks(r) ==
  << <<r.form = "malformed", "OcspParseError">>,
     <<r.status # "successful", "OcspMalformed">>,
     <<r.type # "basic", "OcspMalformed">>,
     <<r.basic = "malformed", "OcspParseError">> >>

\* responder_id_matches: by name, or by the hash of the key.
ResponderIdMatches(id, subject, key) ==
  IF id.by = "name" THEN id.name = subject ELSE id.keyId = key

\* Responders accepted at any time.
Mut_DelegateAnyTime(d, subject, key, produced) ==
  << <<d.issuer # subject, "OcspResponderCertNotIssuedByCa">>,
     <<d.eku = "malformed", "OcspResponderEkuMalformed">>,
     <<d.eku # "ocspSigning", "OcspResponderEkuMissing">>,
     <<d.signedBy # key, "OcspResponderCertSigInvalid">> >>

\* validate_delegate_responder_cert and cert_has_ocsp_signing_eku
DelegateChecks(d, subject, key, produced) ==
  << <<d.issuer # subject, "OcspResponderCertNotIssuedByCa">>,
     <<d.eku = "malformed", "OcspResponderEkuMalformed">>,
     <<d.eku # "ocspSigning", "OcspResponderEkuMissing">>,
     <<produced < d.from \/ produced > d.to, "OcspResponderCertExpired">>,
     <<d.signedBy # key, "OcspResponderCertSigInvalid">> >>

\* The embedded certificate the ResponderId names: 0 if there is none.
Delegate(r) ==
  SelectInSeq(r.certs, LAMBDA c : ResponderIdMatches(r.responder, c.subject, c.key))

\* resolve_signing_key_for_response, and the signature with the key it yields.
SignatureChecks(r, issuer) ==
  LET d == Delegate(r)
  IN  IF ResponderIdMatches(r.responder, issuer.subject, issuer.key)
        THEN << <<r.key # issuer.key, "OcspSignatureInvalid">> >>
      ELSE IF d = 0 THEN << <<TRUE, "OcspResponderIdMismatch">> >>
      ELSE DelegateChecks(r.certs[d], issuer.subject, issuer.key, r.produced)
             \o << <<r.key # r.certs[d].key, "OcspSignatureInvalid">> >>

\* hash_certid_input and the comparison of both hashes.
CertIdChecks(single, issuer) ==
  << <<single.hash \notin Hashes, "OcspMalformed">>,
     <<single.issuer # issuer.subject \/ single.issuerKey # issuer.key,
       "OcspCertIdMismatch">> >>

\* The validity windows and then the status.
SingleChecks(r, single, now) ==
  << <<now < r.produced, "OcspMalformed">>,
     <<now < single.this \/ single.next = None \/ now > single.next, "OcspExpired">>,
     <<single.status = "revoked", "Revoked">>,
     <<single.status = "unknown", "OcspStatusUnknown">> >>

\* check_revocation and check_revocation_against_anchor: the issuer is a
\* certificate or an anchor, of which only the name and the key are used.
\* The first single response with the serial number is the one looked at.
OcspCheckRevocation(ck, cert, issuer) ==
  LET r == ck.basic
      s == SelectInSeq(r.singles, LAMBDA x : x.serial = cert.serial)
  IN  FirstError(
        << <<issuer.subject # cert.issuer, "OcspIssuerCertMismatch">> >>
        \o SignatureChecks(r, issuer)
        \o (IF s = 0 THEN << <<TRUE, "OcspStatusUnknown">> >>
            ELSE CertIdChecks(r.singles[s], issuer) \o SingleChecks(r, r.singles[s], ck.now)))

=============================================================================
