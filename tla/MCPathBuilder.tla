---------------------------- MODULE MCPathBuilder ----------------------------
(***************************************************************************)
(* A small PKI for PathBuilder: a rolled key and a cross-certificate for   *)
(* CA A, a loop between A and B, a B under the root, a root that is itself *)
(* certified by an older root S, and pool entries that are no CAs.         *)
(***************************************************************************)
EXTENDS PathBuilder

CONSTANTS L, A, B, R, S,                 \* names
          kl, ka, ka2, kb, kn, kr, ks,   \* keys
          MaxPool,                       \* certificates in a pool
          Depth, Budget                  \* bounds of the configuration

MCName == {L, A, B, R, S}
MCKey == {kl, ka, ka2, kb, kn, kr, ks}

C(s, i, k, by, aki, ski, bc) ==
  [subject |-> s, issuer |-> i, key |-> k, signer |-> by,
   aki |-> aki, ski |-> ski, bc |-> bc]

Leaf     == C(L, A, kl, ka, ka, NoKeyId, "not_ca")
AUnderB  == C(A, B, ka, kb, kb, ka, "ca")
ARolled  == C(A, R, ka2, kr, NoKeyId, ka2, "ca")
ACross   == C(A, R, ka, kr, NoKeyId, ka, "ca")
BUnderA  == C(B, A, kb, ka, ka, kb, "ca")
BUnderR  == C(B, R, kb, kr, kr, NoKeyId, "ca")
ANotCa   == C(A, R, kn, kr, NoKeyId, ka, "not_ca")
AMangled == C(A, R, kn, kr, NoKeyId, NoKeyId, "malformed")
RUnderS  == C(R, S, kr, ks, NoKeyId, kr, "ca")

MCTargets == {Leaf}

MCCerts == {AUnderB, ARolled, ACross, BUnderA, BUnderR, ANotCa, AMangled, RUnderS}

(* A certificate may be in a pool twice. *)
MCPools == UNION {[1 .. n -> MCCerts] : n \in 0 .. MaxPool}

AnchorR == [subject |-> R, key |-> kr]
AnchorRRekeyed == [subject |-> R, key |-> ks]
AnchorS == [subject |-> S, key |-> ks]

MCAnchorSets == {{}, {AnchorR}, {AnchorS}, {AnchorRRekeyed, AnchorS}}

MCMaxDepths == 0 .. Depth
MCBudgets == {Budget - 3, Budget}

(* Signatures alone decide: the part of validate_path that tells apart two *)
(* chains the search cannot tell apart.                                    *)
MCValidatePath(chain, trusted) ==
  /\ \A k \in 1 .. Len(chain) - 1 : chain[k].signer = chain[k + 1].key
  /\ \E a \in trusted : /\ a.subject = Last(chain).issuer
                        /\ a.key = Last(chain).signer
=============================================================================
