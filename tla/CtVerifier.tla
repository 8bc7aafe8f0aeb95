------------------------------ MODULE CtVerifier ------------------------------
(***************************************************************************)
(* pkix-ct: the list of logs, the parsing of SCT lists, and SctVerifier.   *)
(*                                                                         *)
(* An SCT is [form, version, log, time, alg, sig]; "sig" is [key, alg,     *)
(* input]: the key and algorithm that signed and the input they signed.  A *)
(* certificate is [form, body, issuerKey, exts, scts, long]: "body" stands *)
(* for all of the TBSCertificate except its SCT list, "exts" for the form  *)
(* of that extension.  A hash is the term that was hashed.                 *)
(***************************************************************************)
EXTENDS Checks, SequencesExt

-----------------------------------------------------------------------------
(***************************************************************************)
(* log_list.rs.  A log in the JSON is [id, key, idForm, keyForm, state, at, *)
(* atForm]; the key of a log is [name, form].                              *)
(***************************************************************************)
LogStates == {"absent", "pending", "qualified", "usable", "readonly", "retired", "rejected"}

\* is_excluded
IsExcluded(log) == log.state \in {"rejected", "pending"}

\* A log entry as CtLogList keeps it: a state has one time, that of itself.
CtLog(log) ==
  [id |-> log.id, key |-> log.key,
   usable_from |-> IF log.state = "usable" THEN log.at ELSE None,
   retired_at |-> IF log.state \in {"retired", "readonly"} THEN log.at ELSE None]

\* from_google_log_list_json and insert, log by log.
LogChecks(log) ==
  IF IsExcluded(log) THEN <<>>
  ELSE << <<log.idForm # "base64", "ParseError">>,
          <<log.keyForm # "base64", "ParseError">>,
          <<log.state \in {"usable", "retired", "readonly"} /\ log.atForm # "rfc3339", "ParseError">>,
          <<log.id # log.key.name, "ParseError">> >>

LogError(log) == FirstError(LogChecks(log))

ListChecks(json) ==
  IF json.form # "object" THEN << <<TRUE, "ParseError">> >>
  ELSE [i \in DOMAIN json.logs |-> <<LogError(json.logs[i]) # "Ok", LogError(json.logs[i])>>]

\* insert replaces an entry of the same id: the last one counts.
FromGoogleLogList(json) ==
  LET kept == {i \in DOMAIN json.logs : ~IsExcluded(json.logs[i])}
      Latest(id) == CHOOSE i \in kept :
                    json.logs[i].id = id /\ \A j \in kept : json.logs[j].id = id => j <= i
  IN  [id \in {json.logs[i].id : i \in kept} |-> CtLog(json.logs[Latest(id)])]

\* days_from_civil, for years after Christ
DaysFromCivil(y0, m, d) ==
  LET y == IF m <= 2 THEN y0 - 1 ELSE y0
      era == y \div 400
      yoe == y - era * 400
      doy == (153 * (IF m > 2 THEN m - 3 ELSE m + 9) + 2) \div 5 + d - 1
      doe == yoe * 365 + yoe \div 4 - yoe \div 100 + doy
  IN  era * 146097 + doe - 719468

\* The range checks before it: every month is let have 31 days.
CivilAccepted(m, d) == m \in 1..12 /\ d \in 1..31

-----------------------------------------------------------------------------
(***************************************************************************)
(* sct.rs and delivery.rs: an SCT list is [form, scts].                    *)
(***************************************************************************)
\* SignedCertificateTimestamp::read: the version decides before the rest.
SctChecks(sct) ==
  << <<sct.form = "empty", "TruncatedOrTrailing">>,
     <<sct.version # 0, "UnsupportedVersion">>,
     <<sct.form # "ok", "TruncatedOrTrailing">> >>

\* from_serialized_list: one SCT that does not parse fails the list.
SerializedListChecks(list) ==
  << <<list.form \in {"truncated", "trailing"}, "TruncatedOrTrailing">>,
     <<list.scts = <<>>, "ParseError">> >>
  \o FlattenSeq([i \in DOMAIN list.scts |-> SctChecks(list.scts[i])])

\* from_extension_value
ExtensionValueChecks(list) ==
  << <<list.form = "notOctets", "ParseError">> >> \o SerializedListChecks(list)

\* sct_list_from_ocsp_response: the first extension found, single responses
\* first.  A response is [form, status, singles, exts] of SCT lists, each of
\* the form "absent" where there is no extension.
NoList == [form |-> "absent", scts |-> <<>>]

OcspList(r) ==
  LET lists == Append(r.singles, r.exts)
      found == {i \in DOMAIN lists : lists[i].form # "absent"}
  IN  IF r.status # "successful" \/ found = {} THEN NoList
      ELSE lists[CHOOSE i \in found : \A j \in found : i <= j]

OcspListChecks(r) ==
  << <<r.form = "malformed", "ParseError">>,
     <<r.form = "noBasic" /\ r.status = "successful", "ParseError">> >>
  \o (IF r.form = "ok" /\ OcspList(r) # NoList THEN ExtensionValueChecks(OcspList(r)) ELSE <<>>)

-----------------------------------------------------------------------------
(***************************************************************************)
(* verify.rs                                                               *)
(***************************************************************************)
\* tls_alg_to_x509_oid
KnownAlgorithms == {"ecdsaSha256", "ecdsaSha384", "rsaSha256", "rsaSha384", "rsaSha512"}

\* A window that is closed at its end.
Mut_WindowClosed(log, time) ==
  log.usable_from # None /\ time >= log.usable_from /\ (log.retired_at = None \/ time <= log.retired_at)

\* log_window_contains
LogWindowContains(log, time) ==
  log.usable_from # None /\ time >= log.usable_from /\ (log.retired_at = None \/ time < log.retired_at)

\* The inputs of the signatures: build_signed_input_x509_entry,
\* build_signed_input_precert_entry and build_signed_input_tree_head.
X509Input(time, cert) == [kind |-> "x509", time |-> time, entry |-> <<cert.body, cert.issuerKey, cert.scts>>]

PrecertInput(time, body, issuerKey) == [kind |-> "precert", time |-> time, entry |-> <<body, issuerKey>>]

TreeHeadInput(time, size, root) == [kind |-> "tree", time |-> time, entry |-> <<size, root>>]

\* What both kinds of SCT are asked first.
CommonChecks(logs, sct) ==
  << <<sct.version # 0, "UnsupportedVersion">>,
     <<sct.log \notin DOMAIN logs, "UnknownLog">>,
     <<sct.log \in DOMAIN logs /\ ~LogWindowContains(logs[sct.log], sct.time), "SctTimestampOutsideLogWindow">>,
     <<sct.alg \notin KnownAlgorithms, "UnsupportedSignatureAlgorithm">> >>

\* The key of the log decodes and made the signature, with its algorithm.
SignatureChecks(logs, id, alg, sig, input) ==
  IF id \notin DOMAIN logs THEN <<>>
  ELSE << <<logs[id].key.form # "ok", "LogKeyMalformed">>,
          <<sig # [key |-> logs[id].key.name, alg |-> alg, input |-> input], "InvalidSignature">> >>

\* verify_sct_for_cert
VerifySctForCert(logs, sct, cert) ==
  FirstError(CommonChecks(logs, sct)
             \o << <<cert.long, "CertDerTooLong">> >>
             \o SignatureChecks(logs, sct.log, sct.alg, sct.sig, X509Input(sct.time, cert)))

\* tbs_without_sct_list
TbsChecks(leaf) ==
  << <<leaf.form # "ok", "ParseError">>,
     <<leaf.exts = "absent", "LeafMissingSctList">>,
     <<leaf.long, "CertDerTooLong">> >>

\* verify_sct_for_precert; issuer_key_hash_from_cert
VerifySctForPrecert(logs, sct, leaf, issuer) ==
  FirstError(CommonChecks(logs, sct)
             \o TbsChecks(leaf)
             \o << <<issuer.form # "ok", "ParseError">> >>
             \o SignatureChecks(logs, sct.log, sct.alg, sct.sig,
                                PrecertInput(sct.time, leaf.body, issuer.key)))

\* verify_embedded_scts: the SCTs that verify are counted.
EmbeddedList(leaf) == [form |-> leaf.exts, scts |-> leaf.scts]

EmbeddedChecks(leaf) ==
  << <<leaf.exts = "absent", "NoScts">> >> \o ExtensionValueChecks(EmbeddedList(leaf))

VerifyEmbeddedScts(logs, leaf, issuer) ==
  LET valid == {i \in DOMAIN leaf.scts : VerifySctForPrecert(logs, leaf.scts[i], leaf, issuer) = "Ok"}
  IN  [result |-> FirstError(EmbeddedChecks(leaf)), valid |-> valid]

\* verify_sth: the signature alone; neither the window nor the time count.
VerifySth(logs, id, sth) ==
  FirstError(<< <<id \notin DOMAIN logs, "UnknownLog">>,
                <<sth.alg \notin KnownAlgorithms, "UnsupportedSignatureAlgorithm">> >>
             \o SignatureChecks(logs, id, sth.alg, sth.sig, TreeHeadInput(sth.time, sth.size, sth.root)))

-----------------------------------------------------------------------------
(***************************************************************************)
(* Merkle trees: leaves and inner nodes are hashed with different prefixes. *)
(***************************************************************************)
\* inner_hash and merkle_leaf_hash
InnerHash(left, right) == <<"inner", <<left, right>>>>
MerkleLeafHash(entry) == <<"leaf", entry>>

\* merkle_tree_leaf_for_cert and merkle_tree_leaf_for_precert: a leaf, or the error alone.
LeafForCert(sct, cert) ==
  IF cert.long THEN <<"CertDerTooLong">> ELSE <<"x509", sct.time, cert.body, cert.issuerKey>>

LeafForPrecert(sct, leaf, issuer) ==
  LET error == FirstError(TbsChecks(leaf) \o << <<issuer.form # "ok", "ParseError">> >>)
  IN  IF error # "Ok" THEN <<error>> ELSE <<"precert", sct.time, leaf.body, issuer.key>>

\* 64 - leading_zeros
BitLength[n \in Nat] == IF n = 0 THEN 0 ELSE BitLength[n \div 2] + 1

MaxPathLen(size) == IF size <= 1 THEN 0 ELSE BitLength[size - 1]

\* The inner loop: up from the levels at which the node is a left one without sibling.
Bubble[fn \in Nat] ==
  [sn \in Nat |-> IF fn = 0 \/ fn % 2 = 1 THEN <<fn, sn>> ELSE Bubble[fn \div 2][sn \div 2]]

\* A walk that takes the last leaf of a level for a left one.
Mut_ClimbLeft(s, p) ==
  LET right == s.fn % 2 = 1
      up == IF right THEN Bubble[s.fn][s.sn] ELSE <<s.fn, s.sn>>
  IN  IF s.sn = 0 THEN [s EXCEPT !.bad = TRUE]
      ELSE [fn |-> up[1] \div 2, sn |-> up[2] \div 2, bad |-> FALSE,
            r |-> IF right THEN InnerHash(p, s.r) ELSE InnerHash(s.r, p)]

\* One round of verify_inclusion_inner.
Climb(s, p) ==
  LET right == s.fn % 2 = 1 \/ s.fn = s.sn
      up == IF right THEN Bubble[s.fn][s.sn] ELSE <<s.fn, s.sn>>
  IN  IF s.sn = 0 THEN [s EXCEPT !.bad = TRUE]
      ELSE [fn |-> up[1] \div 2, sn |-> up[2] \div 2, bad |-> FALSE,
            r |-> IF right THEN InnerHash(p, s.r) ELSE InnerHash(s.r, p)]

VerifyInclusion(leafHash, proof, root) ==
  LET walk[n \in 0..Len(proof.path)] ==
        IF n = 0 THEN [fn |-> proof.index, sn |-> proof.size - 1, r |-> leafHash, bad |-> FALSE]
        ELSE IF walk[n - 1].bad THEN walk[n - 1] ELSE Climb(walk[n - 1], proof.path[n])
      end == walk[Len(proof.path)]
      shape == FirstError(<< <<proof.size = 0, "MerkleProofMalformed">>,
                             <<proof.index >= proof.size, "MerkleProofInvalid">>,
                             <<Len(proof.path) > MaxPathLen(proof.size), "MerkleProofMalformed">> >>)
  IN  IF shape # "Ok" THEN shape
      ELSE FirstError(<< <<end.bad \/ end.sn # 0, "MerkleProofMalformed">>,
                         <<end.r # root, "MerkleProofInvalid">> >>)

=============================================================================
