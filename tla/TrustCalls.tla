------------------------------ MODULE TrustCalls ------------------------------
(***************************************************************************)
(* Calls about trust alone: signatures, names, validity, basic             *)
(* constraints, key usage and several anchors.                             *)
(***************************************************************************)
EXTENDS SampleCalls

(* Keys: the leaf's, two of CA a, two of the root. *)
kl == 1
ka == 2
kb == 3
kr == 4
kr2 == 5

L == <<"o", "l">>
A == <<"o", "a">>
R == <<"r">>

Plain == PlainCert(L, A, 1)

Leaves == {[Plain EXCEPT !.issuer = n, !.signer = g] : n \in {A, <<>>}, g \in {ka, kb}}
  \cup {[Plain EXCEPT !.not_after = 1], [Plain EXCEPT !.tbs_alg = "md5"],
        [Plain EXCEPT !.alg = "md5", !.tbs_alg = "md5"],
        [Plain EXCEPT !.cp = Malformed], [Plain EXCEPT !.not_after = 9]}

(* A CA: by name or by SAN identity, issued by the root or by itself. *)
Ca == [PlainCa(A, R, 2) EXCEPT !.signer = kr]

Cas == {Ca,
        [Ca EXCEPT !.signer = kr2],
        [Ca EXCEPT !.bc = Bc(TRUE, 0)],
        [Ca EXCEPT !.bc = Bc(FALSE, Absent)],
        [Ca EXCEPT !.bc = Malformed],
        [Ca EXCEPT !.ku = {"cRLSign"}],
        [Ca EXCEPT !.ku = {"keyCertSign"}],
        [Ca EXCEPT !.ku = Malformed],
        [Ca EXCEPT !.unhandled_critical = TRUE],
        [Ca EXCEPT !.rsa_bits = 1024],
        [Ca EXCEPT !.subject = <<>>],
        [Ca EXCEPT !.subject = <<>>, !.san = {}, !.san_critical = TRUE],
        [Ca EXCEPT !.key = kb],
        [Ca EXCEPT !.nc = Malformed],
        [Ca EXCEPT !.pcons = Malformed],
        \* a key rollover: self-issued, the new key signed by the old one
        [Ca EXCEPT !.issuer = A, !.serial = 3, !.signer = kb]}

(* What may stand on top: another CA named A under R, or R itself. *)
Tops == {[Ca EXCEPT !.serial = 4, !.key = kb],
         [Ca EXCEPT !.serial = 4, !.key = kb, !.bc = Bc(TRUE, 0)],
         [Ca EXCEPT !.serial = 2],
         [Ca EXCEPT !.subject = R, !.serial = 5, !.key = kr],
         [Ca EXCEPT !.subject = R, !.serial = 5, !.key = kr2, !.bc = Bc(TRUE, 1)]}

Chains ==
  {<<>>}
  \cup {<<l>> : l \in Leaves}
  \cup {<<l, c>> : l \in Leaves, c \in Cas}
  \cup {<<l, c, t>> : l \in Leaves, c \in Cas, t \in Tops}

Root(key) == Anchor(R, key, Absent)

Calls ==
  [chains |-> Chains,
   anchor_lists |-> {<<>>, <<Root(kr)>>, <<Root(kr2), Root(kr)>>,
                     <<Root(kr), Anchor(A, ka, Absent), Root(kr2)>>},
   policies |-> {[Lenient EXCEPT !.enforce_key_usage = TRUE],
                 [Lenient EXCEPT !.max_path_len = 1, !.allowed_signature_algs = {"sha256"},
                               !.require_crl_sign_on_cas = TRUE]}]
=============================================================================
