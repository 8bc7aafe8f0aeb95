------------------------------ MODULE SampleCalls ------------------------------
(***************************************************************************)
(* What the sample calls of TrustCalls, PolicyCalls and NameCalls start    *)
(* from: a certificate without extensions and a policy without demands.    *)
(***************************************************************************)
EXTENDS Naturals, Sequences

CONSTANTS Absent, Malformed

PlainCert(subject, issuer, n) ==
  [subject |-> subject, issuer |-> issuer, serial |-> n, key |-> n, signer |-> n + 1,
   alg |-> "sha256", tbs_alg |-> "sha256", not_before |-> 1, not_after |-> 3,
   rsa_bits |-> Absent, unhandled_critical |-> FALSE,
   san |-> Absent, san_critical |-> FALSE, emails |-> {},
   bc |-> Absent, ku |-> Absent, eku |-> Absent, cp |-> Absent, pm |-> Absent,
   pcons |-> Absent, iap |-> Absent, nc |-> Absent]

Bc(ca, len) == [ca |-> ca, path_len |-> len]

PlainCa(subject, issuer, n) ==
  [PlainCert(subject, issuer, n) EXCEPT !.bc = Bc(TRUE, Absent)]

Anchor(n, key, nc) == [subject |-> n, key |-> key, nc |-> nc]

Lenient ==
  [max_path_len |-> 2, now |-> 2, enforce_key_usage |-> FALSE,
   require_crl_sign_on_cas |-> FALSE, initial_explicit_policy |-> FALSE,
   initial_any_policy_inhibit |-> FALSE, initial_policy_mapping_inhibit |-> FALSE,
   initial_policy_set |-> {}, allowed_signature_algs |-> Absent,
   max_validity_secs |-> Absent, min_rsa_key_bits |-> Absent,
   require_subject_alt_name |-> FALSE, require_rfc822_san |-> FALSE,
   required_leaf_eku |-> Absent, required_leaf_policy_oids |-> Absent,
   dn_rule |-> Absent]
=============================================================================
