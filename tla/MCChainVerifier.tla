--------------------------- MODULE MCChainVerifier ---------------------------
(***************************************************************************)
(* A small PKI for ChainVerifier.  The leaf is issued by CA A, A by B, B   *)
(* by the root R; each names the URI of its issuer.  There is a twin of A  *)
(* with another key under R, an expired A, an A issued by an unknown CA,   *)
(* and a CA that carries the leaf's issuer and serial number.              *)
(***************************************************************************)
EXTENDS ChainVerifier

CONSTANTS kl, ka, kt, kb, kr, kx,    \* keys
          uA, uB, uR                 \* URIs of the certificates of A, B and above

C(s, i, n, k, by, ca, uris) ==
  [subject |-> s, issuer |-> i, serial |-> n, key |-> k, signer |-> by, ca |-> ca,
   expired |-> FALSE, nocheck |-> FALSE, uris |-> uris, fits |-> {}]

Leaf      == [C("L", "A", 1, kl, ka, FALSE, {uA}) EXCEPT !.fits = {"server", "mailbox"}]
Stamper   == [Leaf EXCEPT !.fits = {"time_stamper"}]
Expired   == [Leaf EXCEPT !.expired = TRUE]
Responder == [Leaf EXCEPT !.nocheck = TRUE]
A1        == C("A", "B", 2, ka, kb, TRUE, {uB})
ATwin     == C("A", "R", 3, kt, kr, TRUE, {})
AExpired  == [C("A", "R", 4, ka, kr, TRUE, {}) EXCEPT !.expired = TRUE]
AOrphan   == C("A", "X", 5, ka, kx, TRUE, {uR})
B1        == C("B", "R", 6, kb, kr, TRUE, {uR})
BByA      == C("B", "A", 1, kb, ka, TRUE, {uA})   \* the leaf's issuer and serial
R1        == C("R", "R", 7, kr, kr, TRUE, {})

MCCert == {Leaf, Stamper, Expired, Responder, A1, ATwin, AExpired, AOrphan, B1, BByA, R1}
MCUri == {uA, uB, uR}
MCServes == [u \in MCUri |->
  CASE u = uA -> {A1, ATwin, AOrphan}
    [] u = uB -> {B1, BByA}
    [] u = uR -> {R1}]

AnchorR == [subject |-> "R", key |-> kr]
AnchorA == [subject |-> "A", key |-> ka]
AnchorOldR == [subject |-> "R", key |-> kx]
AnchorZ == [subject |-> "Z", key |-> kx]   \* a root nobody leads to

Uppers == {<<>>, <<A1>>, <<B1>>, <<A1, B1>>, <<B1, A1>>, <<ATwin>>, <<ATwin, A1>>, <<AExpired>>,
           <<AOrphan>>, <<A1, BByA>>, <<A1, B1, R1>>, <<A1, A1>>}

MCCalls ==
  [chain : {<<>>} \cup {<<l>> \o up : l \in {Leaf, Stamper, Expired, Responder}, up \in Uppers},
   anchors : {<<>>, <<AnchorR>>, <<AnchorOldR, AnchorR>>, <<AnchorA>>, <<AnchorZ>>},
   purpose : Purposes, issuer : {A1, ATwin}, aia : {"http", "none"}]

=============================================================================
