--------------------------- MODULE RevocationSources ---------------------------
(***************************************************************************)
(* pkix-revocation: CAs that hold, release and revoke certificates and     *)
(* publish CRLs, delta CRLs and OCSP responses about them, and a caller    *)
(* that builds a checker from any of the documents published so far and    *)
(* asks it about a certificate.                                            *)
(*                                                                         *)
(* The CAs are the environment and publish what RFC 5280 and RFC 6960 ask  *)
(* for; the caller may combine documents of different times, of different  *)
(* CAs and of different kinds.  Time is the length of the ledger.          *)
(***************************************************************************)
EXTENDS CrlChecker, OcspChecker, FiniteSets

CONSTANTS
  Subjects,       \* the certificates CAs keep the status of: <<issuer, serial>>
  CrlProfiles,    \* how CRLs may be issued
  DeltaProfiles,  \* the ones a caller looks for a delta CRL among
  OcspProfiles,   \* how OCSP responses may be issued
  Certs,          \* certificates a caller asks about
  Issuers,        \* certificates and anchors a caller takes for the issuer
  CrlIssuers,     \* certificates a caller takes for the issuer of a CRL
  Bundles,        \* bundles a caller has a signer looked for in
  Authority,      \* key -> names on whose behalf the key may sign statuses
  MaxLag,         \* how much the clock of the caller may be behind
  MaxTime         \* bound on time

(***************************************************************************)
(* The world a caller works in.  A CRL that is not indirect is about       *)
(* certificates of its issuer; what a caller takes for an issuer may speak *)
(* for its name, and so may a responder it has certified; one key          *)
(* identifier belongs to one key.                                          *)
(***************************************************************************)
ASSUME SourcesAssumption ==
  /\ \A s \in Subjects : s = <<s[1], s[2]>>
  /\ \A p \in CrlProfiles \cup DeltaProfiles :
       /\ IsFiniteSet(p.covers) /\ p.covers \subseteq Subjects
       /\ p.numbered \in BOOLEAN /\ p.damaged \in BOOLEAN
       /\ \A s \in p.covers :
            /\ s[1] \notin {"absent", "malformed"}
            /\ ~Indirect(p) => s[1] = p.issuer
  /\ \A p \in OcspProfiles :
       /\ p.covers \in Seq(Subjects) /\ p.certs \in Seq(ToSet(p.certs))
       /\ \A d \in ToSet(p.certs) :
            /\ d.from \in Int /\ d.to \in Int
            /\ \A i \in Issuers :
                 d.issuer = i.subject /\ d.signedBy = i.key /\ d.eku = "ocspSigning"
                   => i.subject \in Authority[d.key]
  /\ \A i \in Issuers : i.subject \in Authority[i.key]
  /\ \A b \in Bundles :
       /\ b \in Seq(ToSet(b))
       /\ \A i, j \in DOMAIN b : b[i].ski # None /\ b[i].ski = b[j].ski => b[i].key = b[j].key

VARIABLES
  ledger,   \* the status of every certificate at every time so far
  checker,  \* the checker last built, [kind |-> "none"] if there is none
  answer    \* what the last call returned

vars == <<ledger, checker, answer>>

Statuses == {"good", "hold", "revoked"}
Now == Len(ledger)

NoChecker == [kind |-> "none"]
NoAnswer == [result |-> "none"]

-----------------------------------------------------------------------------
(***************************************************************************)
(* The documents.  "covers" of a document is not in it: it records what    *)
(* its issuer keeps the status of there.                                   *)
(***************************************************************************)
\* The entries of a CRL: certificateIssuer is given where the issuer changes.
Entries(p, listed, n) ==
  [i \in DOMAIN listed |->
     [serial |-> listed[i][2],
      issuer |-> IF listed[i][1] = (IF i = 1 THEN p.issuer ELSE listed[i - 1][1])
                   THEN "absent" ELSE IF p.damaged THEN "malformed" ELSE listed[i][1],
      reason |-> CASE ledger[n][listed[i]] = "good" -> "removeFromCRL"
                   [] ledger[n][listed[i]] = "hold" -> "certificateHold"
                   [] OTHER -> "keyCompromise"]]

Document(p, n, base, listed) ==
  [issuer |-> p.issuer, key |-> p.key, aki |-> p.aki, idp |-> p.idp,
   number |-> IF p.numbered THEN n ELSE None, base |-> base,
   this |-> n, next |-> IF p.life = None THEN None ELSE n + p.life,
   entries |-> Entries(p, listed, n), covers |-> p.covers]

\* The orders in which a CA may list what it lists.
Listings(S) == {q \in [1..Cardinality(S) -> S] : \A s \in S : \E i \in DOMAIN q : q[i] = s}

\* The complete CRLs of time n.
BaseCrls(p, n) ==
  {Document(p, n, None, q) : q \in Listings({s \in p.covers : ledger[n][s] # "good"})}

\* The delta CRLs of time n to the complete CRL of time b: whatever had another
\* status since.
DeltaCrls(p, b, n) ==
  {Document(p, n, b, q) :
     q \in Listings({s \in p.covers : \E t \in b..n : ledger[t][s] # ledger[b][s]})}

\* An OCSP response of time n.
Response(p, n) ==
  [form |-> p.form, status |-> p.status, type |-> p.type, basic |-> p.basic,
   responder |-> p.responder, key |-> p.key, certs |-> p.certs, produced |-> n,
   singles |-> [i \in DOMAIN p.covers |->
      [serial |-> p.covers[i][2], hash |-> p.hash,
       issuer |-> p.covers[i][1], issuerKey |-> p.issuerKey[p.covers[i][1]],
       this |-> n, next |-> IF p.life = None THEN None ELSE n + p.life,
       status |-> IF p.knows = "nothing" THEN "unknown"
                  ELSE IF ledger[n][p.covers[i]] = "good" THEN "good" ELSE "revoked"]]]

BasesOf(P) == UNION {BaseCrls(p, n) : p \in P, n \in 1..Now}
DeltasOf(P) == UNION {DeltaCrls(p, bn[1], bn[2]) : p \in P,
                        bn \in {x \in (1..Now) \X (1..Now) : x[1] < x[2]}}
AllBases == BasesOf(CrlProfiles)
AllCrls == AllBases \cup DeltasOf(CrlProfiles)
\* What a caller may take for the delta CRL.
DeltaCandidates == DeltasOf(DeltaProfiles) \cup BasesOf(DeltaProfiles)

-----------------------------------------------------------------------------
Init ==
  /\ ledger = << [s \in Subjects |-> "good"] >>
  /\ checker = NoChecker
  /\ answer = NoAnswer

\* The CAs: time passes, and at most one certificate changes its status.
ChangeStatus ==
  /\ Now < MaxTime
  /\ checker = NoChecker /\ answer = NoAnswer
  /\ \E s \in Subjects, st \in Statuses :
       /\ ledger[Now][s] # "revoked"
       /\ ledger' = Append(ledger, [ledger[Now] EXCEPT ![s] = st])
  /\ UNCHANGED <<checker, answer>>

\* A constructor returns a checker or an error.  A checker owns what it was
\* built from and no call changes it, so a behaviour builds one checker, from
\* the documents there are by then, and asks it once.
Construct(checks, ck) ==
  LET result == FirstError(checks)
  IN  /\ checker' = IF result = "Ok" THEN ck ELSE NoChecker
      /\ answer' = IF result = "Ok" THEN NoAnswer ELSE [result |-> result]
      /\ UNCHANGED ledger

\* A checker [kind, crl, delta, crlIssuer, discovered, now, bundle]; the bundle
\* is not kept by the code.
CrlCk(crl, delta, crlIssuer, discovered, now, bundle) ==
  [kind |-> "crl", crl |-> crl, delta |-> delta, crlIssuer |-> crlIssuer,
   discovered |-> discovered, now |-> now, bundle |-> bundle]

Clocks == (Now - MaxLag) .. Now

\* CrlChecker::new: any CRL, a delta CRL too.
New(crl, now) == Construct(<<>>, CrlCk(crl, NoCrl, NoCert, FALSE, now, <<>>))

\* new_with_crl_issuer
NewWithCrlIssuer(crl, ci, now) == Construct(<<>>, CrlCk(crl, NoCrl, ci, FALSE, now, <<>>))

\* new_with_signer_discovery
NewWithSignerDiscovery(crl, bundle, now) ==
  Construct(DiscoveryChecks(bundle, crl),
            CrlCk(crl, NoCrl, DiscoverCrlSigner(bundle, crl), TRUE, now, bundle))

\* with_delta
WithDelta(base, delta, now) ==
  Construct(DeltaPairChecks(base, delta), CrlCk(base, delta, NoCert, FALSE, now, <<>>))

\* with_delta_and_crl_issuer
WithDeltaAndCrlIssuer(base, delta, ci, now) ==
  Construct(DeltaPairChecks(base, delta), CrlCk(base, delta, ci, FALSE, now, <<>>))

\* OcspChecker::new
NewOcsp(r, now) ==
  Construct(BasicResponseChecks(r), [kind |-> "ocsp", basic |-> r, now |-> now])

\* check_revocation and check_revocation_against_anchor of the checker built.
CheckRevocation(cert, issuer, anchored) ==
  /\ checker # NoChecker /\ answer = NoAnswer
  /\ answer' = [cert |-> cert, issuer |-> issuer, anchored |-> anchored,
                result |-> IF checker.kind = "crl"
                             THEN CrlCheckRevocation(checker, cert, issuer, anchored)
                             ELSE OcspCheckRevocation(checker, cert, issuer)]
  /\ UNCHANGED <<ledger, checker>>

Build ==
  /\ checker = NoChecker /\ answer = NoAnswer
  /\ \E now \in Clocks :
       \/ \E crl \in AllCrls : New(crl, now)
       \/ \E crl \in AllBases, ci \in CrlIssuers : NewWithCrlIssuer(crl, ci, now)
       \/ \E crl \in AllBases, b \in Bundles : NewWithSignerDiscovery(crl, b, now)
       \/ \E base \in DeltaCandidates, delta \in DeltaCandidates : WithDelta(base, delta, now)
       \/ \E base \in BasesOf(DeltaProfiles), delta \in DeltaCandidates, ci \in CrlIssuers :
            WithDeltaAndCrlIssuer(base, delta, ci, now)
       \/ \E p \in OcspProfiles, n \in 1..Now : NewOcsp(Response(p, n), now)

Ask == \E cert \in Certs, issuer \in Issuers, anchored \in BOOLEAN :
         CheckRevocation(cert, issuer, anchored)

Next == ChangeStatus \/ Build \/ Ask

Spec == Init /\ [][Next]_vars

-----------------------------------------------------------------------------
\* An answer that decides whether the certificate is revoked.
Decisive == answer.result \in {"Ok", "Revoked"} /\ checker # NoChecker

Asked == <<answer.cert.issuer, answer.cert.serial>>

\* The time the CRLs of the checker speak of.
AsOf(ck) == IF ck.delta = NoCrl THEN ck.crl.this ELSE ck.delta.this

\* A complete CRL, alone or with a delta of the same scope that continues it:
\* what RFC 5280 section 5.2.4 asks of a caller.  The code asks less: it takes
\* a delta for a complete CRL, a delta older than the CRL it is applied to, a
\* complete CRL without a number, and never compares scopes.
WellPaired(ck) ==
  /\ ck.crl.base = None
  /\ ck.delta # NoCrl =>
       /\ ck.crl.number # None /\ ck.crl.this <= ck.delta.this
       /\ ck.delta.covers = ck.crl.covers

(***************************************************************************)
(* CrlChecker answers what the CA decided: from a CRL that covers the      *)
(* certificate, alone or continued by a delta, Ok is answered exactly when *)
(* the certificate was neither revoked nor on hold at the time the newest  *)
(* of the two was issued.  About crl.rs: pairing by number, delta before   *)
(* base, removeFromCRL, and the issuer entries of an indirect CRL inherit. *)
(***************************************************************************)
CrlAnswersTheLedger ==
  (Decisive /\ checker.kind = "crl" /\ WellPaired(checker) /\ Asked \in checker.crl.covers)
    => (answer.result = "Ok" <=> ledger[AsOf(checker)][Asked] = "good")

(***************************************************************************)
(* Every document a decisive answer rests on is signed with a key that may *)
(* speak for the certificate's CA.  About the selection of the signer, the *)
(* checks on names and both signatures; with discovery the bundle is the   *)
(* caller's word for the signer, and with a CRL issuer its certificate is. *)
(***************************************************************************)
AnswersAreAuthentic ==
  Decisive =>
    \/ /\ checker.kind = "crl"
       /\ \/ checker.crlIssuer # NoCert
          \/ answer.cert.issuer \in Authority[checker.crl.key]
       /\ checker.delta = NoCrl \/ checker.delta.key = checker.crl.key
       /\ checker.crl.key = SignerOf(checker, answer.issuer).key
    \/ /\ checker.kind = "ocsp"
       /\ answer.cert.issuer \in Authority[checker.basic.key]

(***************************************************************************)
(* Discovery finds the key that signed: when the CRL names its key and a   *)
(* certificate of that key is in the bundle, no call fails for the         *)
(* signature.  About discover_crl_signer with two certificates of one      *)
(* name, as after a key rollover.                                          *)
(***************************************************************************)
DiscoveryFindsTheSigner ==
  (/\ answer.result = "CrlSignatureInvalid"
   /\ checker.kind = "crl" /\ checker.discovered /\ checker.crl.aki # None)
    => ~ \E i \in DOMAIN checker.bundle :
           checker.bundle[i].key = checker.crl.key /\ checker.bundle[i].ski = checker.crl.aki

(***************************************************************************)
(* OcspChecker answers what the CA decided about this certificate, not     *)
(* about the one of another CA with the same serial number, and a response *)
(* of a delegated responder counts only if it was made while the           *)
(* responder's certificate was valid.  About ocsp.rs: the CertID and the   *)
(* delegate checks.                                                        *)
(***************************************************************************)
OcspAnswersTheLedger ==
  (Decisive /\ checker.kind = "ocsp") =>
    /\ \A i \in DOMAIN checker.basic.singles :
         LET s == checker.basic.singles[i]
         IN  <<s.issuer, s.serial>> = Asked =>
               (answer.result = "Ok" <=> ledger[s.this][Asked] = "good")
    /\ \/ checker.basic.key = answer.issuer.key
       \/ \E i \in DOMAIN checker.basic.certs :
            LET d == checker.basic.certs[i]
            IN  /\ d.key = checker.basic.key /\ d.signedBy = answer.issuer.key
                /\ checker.basic.produced \in d.from .. d.to

(***************************************************************************)
(* The signature of a document is checked against the right key: an answer *)
(* is authentic, and discovery refuses none that the bundle can verify.    *)
(***************************************************************************)
SignersAreRight == AnswersAreAuthentic /\ DiscoveryFindsTheSigner

=============================================================================
