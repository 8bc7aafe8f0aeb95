-------------------------- MODULE ChainVerifier_proofs --------------------------
(***************************************************************************)
(* Proofs about ChainVerifier: types, soundness of an accepted chain, at   *)
(* most one fetch per URI, and no chain overlooked, for every set of       *)
(* certificates, servers and calls.                                        *)
(***************************************************************************)
EXTENDS ChainVerifier, WellFoundedInduction, TLAPS

\* A chain of the builder: it starts at the caller's leaf.
FromLeaf(c) == c \in Seq(Cert) /\ c # <<>> /\ call.chain # <<>> /\ c[1] = call.chain[1]

\* Position j needs no further look from the revocation loop.
Cleared(j) == j \in checked \/ Bypassed(built[j])

\* The chain in hand has passed validate_path under the anchor that was noted.
PassedValidation ==
  /\ FromLeaf(built) /\ ~Duplicates(built)
  /\ anchor \in Accepting(built, call.anchors)

\* What holds at each stage of the call.
StageInv ==
  /\ pc # "returned" => result = "pending"
  /\ pc = "returned" => result # "pending"
  /\ pc \in {"build", "fetch"} => call.chain # <<>>
  /\ pc = "validate" => FromLeaf(built)
  /\ pc \in {"start", "build", "fetch", "validate"} => checked = {} /\ index = 0
  /\ pc \in {"revocation", "purpose"} \/ result = "Ok" => PassedValidation
  /\ pc = "revocation" =>
       /\ index \in 1 .. Len(built) + 1
       /\ \A j \in 1 .. Len(built) : j < index => Cleared(j)
  /\ pc = "purpose" \/ result = "Ok" => \A j \in 1 .. Len(built) : Cleared(j)

IInv == TypeOK /\ StageInv

\* The results that say that a certificate is missing.
GivenUp == {"NoPathFound", "Aia", "AiaDepthExceeded"}

\* The pool holds no chain that validates, unless the budget is too small to tell.
Barren == Candidates = {} \/ ~Exhausts(MaxDepth)

\* URIs are fetched only from a barren pool, and giving up leaves one.
MissingInv ==
  /\ pc = "fetch" => Barren
  /\ result \in GivenUp /\ call.chain # <<>> => Barren

\* URIs in the batch are new, and what was fetched was remembered.
FetchInv ==
  \A u \in Uri :
    /\ fetches[u] <= 1
    /\ fetches[u] > 0 => u \in tried_uris
    /\ pc = "fetch" /\ u \in batch => fetches[u] = 0 /\ u \in tried_uris

-----------------------------------------------------------------------------
\* A non-empty set of natural numbers has a smallest element.
LEMMA Smallest ==
  ASSUME NEW S \in SUBSET Nat, S # {}
  PROVE  \E x \in S : \A y \in S : x <= y
<1> DEFINE R == OpToRel(<, Nat)
<1>1. PICK x \in S : \A y \in S : ~(<<y, x>> \in R)
  <2>1. IsWellFoundedOn(R, Nat)
    BY NatLessThanWellFounded
  <2> HIDE DEF R
  <2> QED
    BY <2>1, WFMin
<1>2. ASSUME NEW y \in S, y < x PROVE FALSE
  <2>1. <<y, x>> \in R
    BY <1>2 DEF OpToRel
  <2> QED
    BY <1>1, <2>1
<1>3. \A y \in S : ~(y < x)
  BY <1>2
<1>4. \A y \in S : x <= y
  BY <1>3
<1> QED
  BY <1>4

\* A non-empty set of positions has a first one and a last one.
LEMMA Extremes ==
  ASSUME NEW n \in Nat, NEW S \in SUBSET (1 .. n), S # {}
  PROVE  Min(S) \in S /\ Max(S) \in S
<1>1. \E x \in S : \A y \in S : x <= y
  BY Smallest
<1>2. \E x \in S : \A y \in S : x >= y
  <2> DEFINE T == {n - x : x \in S}
  <2>1. T \in SUBSET Nat /\ T # {}
    <3>1. \A x \in S : n - x \in Nat
      OBVIOUS
    <3>2. PICK x \in S : TRUE
      OBVIOUS
    <3>3. n - x \in T
      BY <3>2
    <3> QED
      BY <3>1, <3>3
  <2>2. PICK t \in T : \A y \in T : t <= y
    <3> HIDE DEF T
    <3> QED
      BY <2>1, Smallest
  <2>3. PICK x \in S : t = n - x
    OBVIOUS
  <2>4. \A y \in S : n - x <= n - y
    BY <2>2, <2>3
  <2>5. \A y \in S : x >= y
    BY <2>4
  <2> QED
    BY <2>5
<1> QED
  BY <1>1, <1>2 DEF Min, Max

\* Every chain that the builder reaches starts at the leaf.
LEMMA ReachableFromLeaf ==
  ASSUME TypeOK, call.chain # <<>>, NEW d \in Nat, NEW c \in Reachable(d)
  PROVE  FromLeaf(c)
<1>1. c \in {<<call.chain[1]>> \o above : above \in UNION {[1 .. n -> pool] : n \in 0 .. d}}
  BY DEF Reachable, Explorable
<1>2. PICK n \in 0 .. d : \E above \in [1 .. n -> pool] : c = <<call.chain[1]>> \o above
  BY <1>1
<1>3. PICK above \in [1 .. n -> pool] : c = <<call.chain[1]>> \o above
  BY <1>2
<1>4. call.chain \in Seq(Cert) /\ call.chain[1] \in Cert
  BY InputsAssumption DEF TypeOK, CallFields
<1>5. above \in Seq(Cert)
  BY <1>3 DEF TypeOK
<1>6. c \in Seq(Cert) /\ c # <<>> /\ c[1] = call.chain[1]
  BY <1>3, <1>4, <1>5
<1> QED
  BY <1>6 DEF FromLeaf

\* The arguments of a call.
LEMMA CallTypes ==
  ASSUME TypeOK
  PROVE  /\ CallFields(call) /\ call.chain \in Seq(Cert)
         /\ Len(call.anchors) \in Nat
         /\ call.chain # <<>> => call.chain[1] \in Cert /\ Len(call.chain) >= 1
<1>1. CallFields(call)
  BY InputsAssumption DEF TypeOK
<1>2. call.chain \in Seq(Cert) /\ Len(call.anchors) \in Nat
  BY <1>1 DEF CallFields
<1> QED
  BY <1>1, <1>2

\* A chain that is turned down is turned down for one of the listed reasons.
LEMMA PathErrorKinds ==
  ASSUME TypeOK, NEW c \in Seq(Cert), c # <<>>, ~Validates(c, call.anchors)
  PROVE  PathError(c, call.anchors) \in Results \ ({"Ok", "pending"} \cup GivenUp)
<1> DEFINE as == call.anchors
<1>1. Len(as) \in Nat
  BY CallTypes
<1>2. CASE (Len(as) > 0 /\ Duplicates(c)) \/ Walkable(c, as) = {}
  BY <1>2 DEF PathError, Results, GivenUp
<1>3. CASE ~(Len(as) > 0 /\ Duplicates(c)) /\ Walkable(c, as) # {}
  <2> DEFINE m == Max(Walkable(c, as))
             k == Max(Faults(c, as[m]))
  <2>1. m \in Walkable(c, as)
    BY <1>1, <1>3, Extremes DEF Walkable
  <2>2. Faults(c, as[m]) # {}
    <3>1. Len(as) > 0
      BY <1>1, <2>1 DEF Walkable
    <3>2. Accepting(c, as) = {}
      BY <1>3, <3>1 DEF Validates
    <3> QED
      BY <2>1, <3>2 DEF Accepting
  <2>3. k \in Faults(c, as[m])
    <3>1. Len(c) \in Nat /\ Faults(c, as[m]) \in SUBSET (1 .. Len(c))
      BY DEF Faults
    <3> QED
      BY <2>2, <3>1, Extremes, SMTT(30)
  <2>4. Fault(c, as[m], k) \in {"SignatureInvalid", "ChainBroken", "ValidityPeriod", "NotCA"}
    BY <2>3, ZenonT(30) DEF Faults, Fault
  <2>5. PathError(c, as) = Fault(c, as[m], k)
    BY <1>3 DEF PathError, WalkError
  <2> QED
    BY <1>3, <2>4, <2>5 DEF Results, GivenUp
<1> QED
  BY <1>2, <1>3

\* The anchor that validate_path reports accepts the chain.
LEMMA AnchorIndexAccepts ==
  ASSUME TypeOK, NEW c, Validates(c, call.anchors)
  PROVE  /\ AnchorIndex(c, call.anchors) \in Accepting(c, call.anchors)
         /\ AnchorIndex(c, call.anchors) \in 1 .. Len(call.anchors)
<1>1. Len(call.anchors) \in Nat
  BY CallTypes
<1>2. Accepting(c, call.anchors) \in SUBSET (1 .. Len(call.anchors))
  BY DEF Accepting, Walkable
<1> QED
  BY <1>1, <1>2, Extremes DEF AnchorIndex, Validates

\* The shim never lets a CA above the leaf pass unchecked.
LEMMA BypassedIsLeaf ==
  ASSUME FromLeaf(built), ~Duplicates(built), NEW j \in 1 .. Len(built), Bypassed(built[j])
  PROVE  j = 1 /\ call.purpose = "ocsp_responder" /\ built[1].nocheck
<1>1. Len(built) \in Nat /\ built[1] = call.chain[1]
  BY DEF FromLeaf
<1>2. ASSUME j # 1 PROVE FALSE
  <2>1. 1 \in 1 .. Len(built) /\ 1 < j
    BY <1>1, <1>2
  <2>2. built[1].issuer = built[j].issuer /\ built[1].serial = built[j].serial
    BY <1>1 DEF Bypassed
  <2> QED
    BY <2>1, <2>2 DEF Duplicates
<1> QED
  BY <1>1, <1>2 DEF Bypassed

-----------------------------------------------------------------------------
\* The invariant holds when verify_one is entered.
LEMMA InitInv == Init => IInv
<1> SUFFICES ASSUME Init PROVE IInv
  OBVIOUS
<1>1. Len(call.anchors) \in Nat
  BY InputsAssumption DEF Init, CallFields
<1> QED
  BY <1>1, InputsAssumption DEF Init, IInv, TypeOK, StageInv, Results, AiaErrors, FromLeaf

\* A step that ends in Return keeps the rest of the state.
LEMMA ReturnInv ==
  ASSUME IInv, NEW r \in Results \ {"Ok", "pending"}, Return(r),
         UNCHANGED <<call, pool, built, anchor, index, checked, iteration, fetches>>,
         tried_uris' \subseteq Uri, batch' \subseteq Uri,
         last_aia_error' \in AiaErrors \cup {"none"}
  PROVE  IInv'
<1>1. TypeOK'
  BY DEF IInv, TypeOK, Return
<1>2. StageInv'
  BY DEF StageInv, Return
<1> QED
  BY <1>1, <1>2 DEF IInv

\* A step into the revocation loop.
LEMMA ValidatedInv ==
  ASSUME IInv, NEW c, FromLeaf(c), Validates(c, call.anchors), Validated(c),
         checked = {}, pc # "returned", UNCHANGED <<call, aia, checked>>
  PROVE  IInv'
<1>1. /\ AnchorIndex(c, call.anchors) \in Accepting(c, call.anchors)
      /\ AnchorIndex(c, call.anchors) \in 1 .. Len(call.anchors)
  BY AnchorIndexAccepts DEF IInv
<1>2. c \in Seq(Cert) /\ Len(c) \in Nat /\ Len(c) >= 1
  BY DEF FromLeaf
<1>3. TypeOK'
  BY <1>1, <1>2 DEF IInv, TypeOK, Validated, aia
<1>4. PassedValidation'
  BY <1>1 DEF PassedValidation, Validated, Validates, FromLeaf
<1>5. StageInv'
  BY <1>2, <1>4 DEF IInv, StageInv, Validated
<1> QED
  BY <1>3, <1>5 DEF IInv

\* Every step preserves the invariant.
LEMMA NextInv == IInv /\ [Next]_vars => IInv'
<1> SUFFICES ASSUME IInv, [Next]_vars PROVE IInv'
  OBVIOUS
<1> USE DEF IInv
<1>0. Len(call.anchors) \in Nat /\ Len(built) \in Nat /\ call.chain \in Seq(Cert)
  BY CallTypes DEF TypeOK
<1>1. CASE FastPath
  <2>1. CASE Validates(call.chain, call.anchors)
    <3>1. FromLeaf(call.chain)
      BY <1>0, <2>1 DEF FromLeaf, Validates
    <3> QED
      BY <1>1, <2>1, <3>1, ValidatedInv DEF FastPath, StageInv
  <2>2. CASE ~Validates(call.chain, call.anchors) /\ PathError(call.chain, call.anchors) \in Recoverable
    <3>1. call.chain # <<>>
      BY <1>1 DEF FastPath
    <3>2. Range(call.chain) \subseteq Cert
      BY <1>0 DEF Range
    <3>3. TypeOK'
      BY <1>1, <2>2, <3>2 DEF FastPath, TypeOK
    <3>4. StageInv'
      BY <1>1, <2>2, <3>1 DEF FastPath, StageInv
    <3> QED
      BY <3>3, <3>4
  <2>3. CASE ~Validates(call.chain, call.anchors) /\ PathError(call.chain, call.anchors) \notin Recoverable
    <3> DEFINE r == PathError(call.chain, call.anchors)
    <3>1. r \in Results \ {"Ok", "pending"}
      BY <1>0, <1>1, <2>3, PathErrorKinds DEF FastPath
    <3>2. Return(r) /\ UNCHANGED <<call, aia, built, anchor, index, checked>>
      BY <1>1, <2>3 DEF FastPath
    <3> HIDE DEF r
    <3> QED
      BY <3>1, <3>2, ReturnInv DEF aia, TypeOK
  <2> QED
    BY <2>1, <2>2, <2>3
<1>2. CASE Build
  <2>1. PICK c \in Reachable(MaxDepth) : BuiltChain(c)
    BY <1>2 DEF Build
  <2>2. FromLeaf(c)
    BY <1>2, InputsAssumption, ReachableFromLeaf DEF Build, StageInv
  <2>3. TypeOK'
    BY <1>0, <1>2, <2>1, <2>2 DEF Build, BuiltChain, TypeOK, StageInv, aia, FromLeaf
  <2>4. StageInv'
    BY <1>2, <2>1, <2>2 DEF Build, BuiltChain, StageInv, FromLeaf
  <2> QED
    BY <2>3, <2>4
<1>3. CASE BuildFails
  BY <1>3, ReturnInv DEF BuildFails, aia, TypeOK, Results
<1>4. CASE Collect
  <2>1. NewUris \subseteq Uri
    BY InputsAssumption DEF NewUris, TypeOK, CertFields
  <2>2. CASE NewUris = {}
    BY <1>4, <2>1, <2>2, ReturnInv DEF Collect, TypeOK, Results
  <2>3. CASE NewUris # {}
    <3>1. TypeOK'
      BY <1>4, <2>1, <2>3 DEF Collect, TypeOK, InLoop
    <3>2. StageInv'
      BY <1>4, <2>3 DEF Collect, StageInv
    <3> QED
      BY <3>1, <3>2
  <2> QED
    BY <2>2, <2>3
<1>5. CASE DepthExceeded
  BY <1>5, ReturnInv DEF DepthExceeded, aia, TypeOK, Results
<1>6. CASE BatchFetch
  <2>0. PICK some \in SUBSET batch : \E got \in [some -> UNION {Serves[u] : u \in some}] :
          (\A u \in some : got[u] \in Serves[u]) /\ Receive(got)
    BY <1>6 DEF BatchFetch
  <2>1. PICK got \in [some -> UNION {Serves[u] : u \in some}] :
          (\A u \in some : got[u] \in Serves[u]) /\ Receive(got)
    BY <2>0
  <2>2. Range(got) \subseteq Cert
    BY <2>1, InputsAssumption DEF Range, TypeOK
  <2>3. fetches' \in [Uri -> Nat]
    BY <1>6 DEF BatchFetch, TypeOK
  <2>4. last_aia_error' \in AiaErrors \cup {"none"}
    BY <2>1 DEF Receive, FetchErrors, AiaErrors, TypeOK
  <2>5. TypeOK'
    BY <1>6, <2>1, <2>2, <2>3, <2>4, InputsAssumption, SMTT(30)
       DEF BatchFetch, Receive, Return, TypeOK, Results
  <2>6. StageInv'
    BY <1>6, <2>1 DEF BatchFetch, Receive, Return, StageInv
  <2> QED
    BY <2>5, <2>6
<1>7. CASE ValidateBuilt
  <2>1. FromLeaf(built) /\ built \in Seq(Cert) /\ built # <<>>
    BY <1>7 DEF ValidateBuilt, StageInv, FromLeaf
  <2>2. CASE Validates(built, call.anchors)
    BY <1>7, <2>1, <2>2, ValidatedInv DEF ValidateBuilt, StageInv
  <2>3. CASE ~Validates(built, call.anchors)
    BY <1>7, <2>1, <2>3, PathErrorKinds, ReturnInv DEF ValidateBuilt, aia, TypeOK
  <2> QED
    BY <2>2, <2>3
<1>8. CASE SkipCheck
  <2>1. index \in 1 .. Len(built)
    BY <1>0, <1>8 DEF SkipCheck, LoopEnds, StageInv
  <2>2. TypeOK'
    BY <1>0, <1>8, <2>1 DEF SkipCheck, TypeOK, aia
  <2>3. StageInv'
    BY <1>0, <1>8, <2>1 DEF SkipCheck, StageInv, Cleared, PassedValidation, FromLeaf, Bypassed
  <2> QED
    BY <2>2, <2>3
<1>9. CASE CheckRevocation
  <2>1. index \in 1 .. Len(built)
    BY <1>0, <1>9 DEF CheckRevocation, LoopEnds, StageInv
  <2>2. CASE Return("Revocation") /\ UNCHANGED <<index, checked>>
    BY <1>9, <2>2, ReturnInv DEF CheckRevocation, aia, TypeOK, Results
  <2>3. CASE index' = index + 1 /\ checked' = checked \cup {index} /\ UNCHANGED <<pc, result>>
    <3>1. TypeOK'
      BY <1>0, <1>9, <2>1, <2>3 DEF CheckRevocation, TypeOK, aia
    <3>2. StageInv'
      BY <1>0, <1>9, <2>1, <2>3 DEF CheckRevocation, StageInv, Cleared, PassedValidation, FromLeaf, Bypassed
    <3> QED
      BY <3>1, <3>2
  <2> QED
    BY <1>9, <2>2, <2>3 DEF CheckRevocation
<1>10. CASE ChecksDone
  <2>1. TypeOK'
    BY <1>10 DEF ChecksDone, TypeOK, aia
  <2>2. StageInv'
    BY <1>0, <1>10 DEF ChecksDone, LoopEnds, StageInv, Cleared, PassedValidation, FromLeaf, Bypassed
  <2> QED
    BY <2>1, <2>2
<1>11. CASE CheckPurpose
  <2>1. PurposeError \in {"Ok", "Identity", "ProfileViolation", "OcspDelegation"}
    BY CallTypes DEF PurposeError, CallFields, Purposes
  <2>2. TypeOK'
    BY <1>11, <2>1 DEF CheckPurpose, Return, TypeOK, aia, Results
  <2>3. StageInv'
    BY <1>11, <2>1 DEF CheckPurpose, Return, StageInv, Cleared, PassedValidation, FromLeaf, Bypassed
  <2> QED
    BY <2>2, <2>3
<1>12. CASE EmptyChain
  BY <1>12, ReturnInv DEF EmptyChain, aia, TypeOK, Results
<1>13. CASE Done \/ UNCHANGED vars
  BY <1>13, ZenonT(30) DEF Done, vars, aia, TypeOK, StageInv, Cleared, PassedValidation, FromLeaf, Bypassed
<1> QED
  BY <1>1, <1>2, <1>3, <1>4, <1>5, <1>6, <1>7, <1>8, <1>9, <1>10, <1>11, <1>12, <1>13 DEF Next, Step

-----------------------------------------------------------------------------
\* The state of a verification is well typed and its two loops stay within their
\* bounds: build_with_aia iterates at most AIA_MAX_DEPTH times and
\* run_revocation_checks stays inside of the chain.
THEOREM TypeCorrect == Spec => []TypeOK
<1>1. IInv => TypeOK
  BY DEF IInv
<1> QED
  BY <1>1, InitInv, NextInv, PTL DEF Spec

\* Whatever a verify function accepts is a chain of trust from the caller's leaf
\* to one of the caller's anchors of which every certificate has been checked for
\* revocation; the nocheck shim exempts the responder itself and nothing else.
THEOREM Soundness == Spec => []AcceptedChainIsChecked
<1>1. IInv => AcceptedChainIsChecked
  <2> SUFFICES ASSUME IInv, result = "Ok" PROVE AcceptedChainIsChecked
    BY DEF AcceptedChainIsChecked
  <2>1. PassedValidation /\ \A j \in 1 .. Len(built) : Cleared(j)
    BY DEF IInv, StageInv
  <2>2. anchor \in 1 .. Len(call.anchors) /\ Faults(built, call.anchors[anchor]) = {}
    BY <2>1 DEF PassedValidation, Accepting, Walkable
  <2>3. FromLeaf(built) /\ ~Duplicates(built)
    BY <2>1 DEF PassedValidation
  <2>4. ASSUME NEW j \in 1 .. Len(built)
        PROVE  /\ built[j].signer = KeyAbove(built, call.anchors[anchor], j)
               /\ built[j].issuer = NameAbove(built, call.anchors[anchor], j)
               /\ ~built[j].expired
               /\ j > 1 => built[j].ca
    <3>1. Fault(built, call.anchors[anchor], j) = "none"
      BY <2>2 DEF Faults
    <3> QED
      BY <3>1 DEF Fault
  <2>5. ASSUME NEW j \in 1 .. Len(built)
        PROVE  j \in checked \/ (j = 1 /\ call.purpose = "ocsp_responder" /\ built[1].nocheck)
    BY <2>1, <2>3, BypassedIsLeaf DEF Cleared
  <2> QED
    BY <2>2, <2>3, <2>4, <2>5 DEF AcceptedChainIsChecked, FromLeaf
<1> QED
  BY <1>1, InitInv, NextInv, PTL DEF Spec

\* However the servers answer, build_with_aia fetches no URI twice.
THEOREM FetchedOnce == Spec => []UrisFetchedOnce
<1>1. Init => FetchInv
  BY DEF Init, FetchInv
<1>2. TypeOK /\ FetchInv /\ [Next]_vars => FetchInv'
  <2> SUFFICES ASSUME TypeOK, FetchInv, [Next]_vars, NEW u \in Uri
               PROVE  /\ fetches'[u] <= 1
                      /\ fetches'[u] > 0 => u \in tried_uris'
                      /\ pc' = "fetch" /\ u \in batch' => fetches'[u] = 0 /\ u \in tried_uris'
    BY DEF FetchInv
  <2>0. /\ fetches[u] \in Nat /\ fetches[u] <= 1
        /\ fetches[u] > 0 => u \in tried_uris
        /\ pc = "fetch" /\ u \in batch => fetches[u] = 0 /\ u \in tried_uris
    BY DEF FetchInv, TypeOK
  <2>1. CASE Collect
    <3>1. u \in NewUris => u \notin tried_uris
      BY DEF NewUris
    <3>2. batch' = NewUris /\ tried_uris' = tried_uris \cup NewUris /\ fetches' = fetches
      BY <2>1 DEF Collect
    <3> QED
      BY <2>0, <3>1, <3>2
  <2>2. CASE BatchFetch
    <3>1. pc' # "fetch"
      BY <2>2 DEF BatchFetch, Receive, Return
    <3>2. /\ tried_uris' = tried_uris
          /\ fetches'[u] = fetches[u] + (IF u \in batch THEN 1 ELSE 0)
          /\ pc = "fetch"
      BY <2>2 DEF BatchFetch
    <3> QED
      BY <2>0, <3>1, <3>2
  <2>3. CASE FastPath \/ EmptyChain
    BY <2>0, <2>3 DEF FastPath, EmptyChain, Validated, Return, aia
  <2>4. CASE Build \/ BuildFails \/ DepthExceeded \/ ValidateBuilt
    BY <2>0, <2>4 DEF Build, BuiltChain, BuildFails, DepthExceeded, ValidateBuilt, Validated, Return, aia
  <2>5. CASE SkipCheck \/ CheckRevocation \/ ChecksDone \/ CheckPurpose
    BY <2>0, <2>5 DEF SkipCheck, CheckRevocation, ChecksDone, CheckPurpose, Return, aia
  <2>6. CASE Done \/ UNCHANGED vars
    BY <2>0, <2>6 DEF Done, vars, aia
  <2> QED
    BY <2>1, <2>2, <2>3, <2>4, <2>5, <2>6 DEF Next, Step
<1>3. FetchInv => UrisFetchedOnce
  BY DEF FetchInv, UrisFetchedOnce
<1> QED
  BY <1>1, <1>2, <1>3, TypeCorrect, PTL DEF Spec

\* An accepted OCSP responder hangs below the very key and name of the CA that
\* verify_ocsp_responder was asked about.
THEOREM Delegation == Spec => []ResponderSpeaksForIssuer
<1> DEFINE Speaks == result = "Ok" /\ call.purpose = "ocsp_responder" =>
                       DelegatedBy(call.chain[1], call.issuer)
<1>1. Init => Speaks
  BY DEF Init
<1>2. IInv /\ Speaks /\ [Next]_vars => Speaks'
  <2> SUFFICES ASSUME IInv, Speaks, [Next]_vars PROVE Speaks'
    OBVIOUS
  <2>1. CASE CheckPurpose
    BY <2>1 DEF CheckPurpose, Return, PurposeError, DelegatedBy
  <2>2. CASE FastPath
    <3>1. result' # "Ok"
      <4>1. call.chain \in Seq(Cert) /\ call.chain # <<>> /\ result = "pending"
        BY <2>2, CallTypes DEF FastPath, IInv, StageInv
      <4>2. ~Validates(call.chain, call.anchors) => PathError(call.chain, call.anchors) # "Ok"
        BY <4>1, PathErrorKinds DEF IInv
      <4> QED
        BY <2>2, <4>1, <4>2 DEF FastPath, Validated, Return
    <3> QED
      BY <3>1
  <2>3. CASE ValidateBuilt
    BY <2>3, PathErrorKinds
       DEF ValidateBuilt, Validated, Return, IInv, StageInv, TypeOK, DelegatedBy, FromLeaf
  <2>4. CASE EmptyChain \/ Build \/ BuildFails \/ DepthExceeded
    BY <2>4 DEF EmptyChain, Build, BuiltChain, BuildFails, DepthExceeded, Return, DelegatedBy
  <2>5. CASE Collect \/ BatchFetch
    BY <2>5 DEF Collect, BatchFetch, Receive, Return, DelegatedBy
  <2>6. CASE SkipCheck \/ CheckRevocation \/ ChecksDone
    BY <2>6 DEF SkipCheck, CheckRevocation, ChecksDone, Return, DelegatedBy
  <2>7. CASE Done \/ UNCHANGED vars
    BY <2>7 DEF Done, vars, DelegatedBy
  <2> QED
    BY <2>1, <2>2, <2>3, <2>4, <2>5, <2>6, <2>7 DEF Next, Step
<1>3. AcceptedChainIsChecked /\ IInv /\ Speaks => ResponderSpeaksForIssuer
  <2> SUFFICES ASSUME AcceptedChainIsChecked, IInv, Speaks,
                      result = "Ok", call.purpose = "ocsp_responder"
               PROVE  ResponderSpeaksForIssuer
    BY DEF ResponderSpeaksForIssuer
  <2>1. 1 \in 1 .. Len(built)
    BY DEF AcceptedChainIsChecked, IInv, TypeOK
  <2> QED
    BY <2>1 DEF AcceptedChainIsChecked, DelegatedBy, ResponderSpeaksForIssuer
<1> QED
  BY <1>1, <1>2, <1>3, InitInv, NextInv, Soundness, PTL DEF Spec

\* The chains of a pool depend on the pool and the call only.
LEMMA ChainsStay ==
  ASSUME call' = call, pool' = pool
  PROVE  Barren' <=> Barren
<1>1. ASSUME NEW c PROVE Anchored(c)' <=> Anchored(c)
  BY DEF Anchored
<1>2. Explorable(MaxDepth)' = Explorable(MaxDepth)
  <2> DEFINE All == {<<call.chain[1]>> \o above : above \in UNION {[1 .. n -> pool] : n \in 0 .. MaxDepth}}
             Kept(c) == Topological(c) /\ \A j \in 1 .. Len(c) - 1 : ~Anchored(SubSeq(c, 1, j))
  <2>1. All' = All
    BY Zenon
  <2>2. ASSUME NEW c PROVE Kept(c)' <=> Kept(c)
    BY <1>1 DEF Topological
  <2>3. Explorable(MaxDepth) = {c \in All : Kept(c)}
    BY DEF Explorable
  <2>4. Explorable(MaxDepth)' = {c \in All' : Kept(c)'}
    BY DEF Explorable
  <2> HIDE DEF All, Kept
  <2> QED
    BY <2>1, <2>2, <2>3, <2>4
<1>3. Reachable(MaxDepth)' = Reachable(MaxDepth)
  BY <1>1, <1>2 DEF Reachable
<1>4. Candidates' = Candidates
  BY <1>3 DEF Candidates
<1>5. Exhausts(MaxDepth)' <=> Exhausts(MaxDepth)
  BY <1>2 DEF Exhausts
<1> QED
  BY <1>4, <1>5 DEF Barren

\* What can be reached with fewer certificates can be reached with more.
LEMMA DeeperReachesMore ==
  ASSUME NEW d \in Nat
  PROVE  Reachable(d) \subseteq Reachable(d + 1)
<1> DEFINE Above(n) == UNION {[1 .. i -> pool] : i \in 0 .. n}
<1>1. Above(d) \subseteq Above(d + 1)
  <2>1. ASSUME NEW f, NEW i \in 0 .. d, f \in [1 .. i -> pool] PROVE f \in Above(d + 1)
    <3>1. i \in 0 .. d + 1
      OBVIOUS
    <3> QED
      BY <2>1, <3>1
  <2> QED
    BY <2>1
<1>2. Explorable(d) \subseteq Explorable(d + 1)
  <2>1. ASSUME NEW n PROVE Explorable(n) = {c \in {<<call.chain[1]>> \o above : above \in Above(n)} :
          Topological(c) /\ \A j \in 1 .. Len(c) - 1 : ~Anchored(SubSeq(c, 1, j))}
    BY DEF Explorable
  <2> HIDE DEF Above
  <2> QED
    BY <1>1, <2>1
<1> QED
  BY <1>2 DEF Reachable

\* Whatever makes build_with_aia give up, the pool is barren.
LEMMA FailsBarren ==
  ASSUME NEW e \in {"NoPathFound", "DepthExceeded", "BudgetExceeded"}, MayFail(e)
  PROVE  Barren
<1>1. Reachable(MaxDepth) = {} => Candidates = {}
  BY DEF Candidates
<1>2. CASE e = "NoPathFound"
  <2>1. Reachable(MaxDepth + 1) = {}
    BY <1>2 DEF MayFail
  <2>2. Reachable(MaxDepth) \subseteq Reachable(MaxDepth + 1)
    BY DeeperReachesMore, InputsAssumption
  <2> QED
    BY <1>1, <2>1, <2>2 DEF Barren
<1>3. CASE e = "DepthExceeded"
  BY <1>1, <1>3 DEF MayFail, Barren
<1>4. CASE e = "BudgetExceeded"
  BY <1>1, <1>4 DEF MayFail, Barren
<1> QED
  BY <1>2, <1>3, <1>4

\* When a verification ends for want of certificates, no chain of what the caller
\* supplied and the servers delivered would have validated: what the last
\* iteration of build_with_aia fetched is looked at.
THEOREM Completeness == Spec => []NothingOverlooked
<1>1. Init => MissingInv
  BY DEF Init, MissingInv, GivenUp
<1>2. IInv /\ MissingInv /\ [Next]_vars => MissingInv'
  <2> SUFFICES ASSUME IInv, MissingInv, [Next]_vars PROVE MissingInv'
    OBVIOUS
  <2>0. pc # "returned" => result = "pending"
    BY DEF IInv, StageInv
  <2>1. CASE EmptyChain
    BY <2>1 DEF EmptyChain, Return, MissingInv
  <2>2. CASE FastPath
    <3>1. call.chain \in Seq(Cert) /\ call.chain # <<>> /\ result = "pending"
      BY <2>0, <2>2, CallTypes DEF FastPath, IInv
    <3>2. ~Validates(call.chain, call.anchors) => PathError(call.chain, call.anchors) \notin GivenUp
      BY <3>1, PathErrorKinds DEF IInv
    <3>3. pc' # "fetch" /\ result' \notin GivenUp
      BY <2>2, <3>1, <3>2 DEF FastPath, Validated, Return, GivenUp
    <3> QED
      BY <3>3 DEF MissingInv
  <2>3. CASE ValidateBuilt
    <3>1. built \in Seq(Cert) /\ built # <<>> /\ result = "pending"
      BY <2>0, <2>3 DEF ValidateBuilt, IInv, StageInv, FromLeaf
    <3>2. ~Validates(built, call.anchors) => PathError(built, call.anchors) \notin GivenUp
      BY <3>1, PathErrorKinds DEF IInv
    <3>3. pc' # "fetch" /\ result' \notin GivenUp
      BY <2>3, <3>1, <3>2 DEF ValidateBuilt, Validated, Return, GivenUp
    <3> QED
      BY <3>3 DEF MissingInv
  <2>4. CASE Build \/ BuildFails
    <3>1. pc' # "fetch" /\ result' \notin GivenUp
      BY <2>0, <2>4 DEF Build, BuiltChain, BuildFails, Return, GivenUp
    <3> QED
      BY <3>1 DEF MissingInv
  <2>5. CASE Collect
    <3>1. Barren
      BY <2>5, FailsBarren DEF Collect
    <3>2. call' = call /\ pool' = pool
      BY <2>5 DEF Collect
    <3> QED
      BY <3>1, <3>2, ChainsStay DEF MissingInv
  <2>6. CASE DepthExceeded
    <3>1. Barren
      BY <2>6, FailsBarren DEF DepthExceeded
    <3>2. call' = call /\ pool' = pool
      BY <2>6 DEF DepthExceeded, aia
    <3> QED
      BY <3>1, <3>2, ChainsStay DEF MissingInv
  <2>7. CASE BatchFetch
    <3>1. call' = call /\ pc = "fetch" /\ Barren
      BY <2>7 DEF BatchFetch, MissingInv
    <3>2. PICK got : Receive(got)
      BY <2>7 DEF BatchFetch
    <3>3. CASE DOMAIN got = {}
      <4>1. Range(got) = {}
        BY <3>3 DEF Range
      <4>2. pool' = pool
        BY <3>2, <4>1 DEF Receive
      <4> QED
        BY <3>1, <4>2, ChainsStay DEF MissingInv
    <3>4. CASE DOMAIN got # {}
      <4>1. pc' = "build" /\ result' = "pending"
        BY <2>0, <3>1, <3>2, <3>4 DEF Receive
      <4> QED
        BY <4>1 DEF MissingInv, GivenUp
    <3> QED
      BY <3>3, <3>4
  <2>8. CASE SkipCheck \/ CheckRevocation \/ ChecksDone
    <3>1. pc' # "fetch" /\ result' \notin GivenUp
      BY <2>0, <2>8 DEF SkipCheck, CheckRevocation, ChecksDone, Return, GivenUp
    <3> QED
      BY <3>1 DEF MissingInv
  <2>9. CASE CheckPurpose
    <3>1. PurposeError \in {"Ok", "Identity", "ProfileViolation", "OcspDelegation"}
      BY CallTypes DEF PurposeError, CallFields, Purposes, IInv
    <3>2. pc' # "fetch" /\ result' \notin GivenUp
      BY <2>9, <3>1 DEF CheckPurpose, Return, GivenUp
    <3> QED
      BY <3>2 DEF MissingInv
  <2>10. CASE Done \/ UNCHANGED vars
    <3>1. call' = call /\ pool' = pool /\ pc' = pc /\ result' = result
      BY <2>10 DEF Done, vars, aia
    <3> QED
      BY <3>1, ChainsStay DEF MissingInv
  <2> QED
    BY <2>1, <2>2, <2>3, <2>4, <2>5, <2>6, <2>7, <2>8, <2>9, <2>10 DEF Next, Step
<1>3. MissingInv => NothingOverlooked
  BY DEF MissingInv, NothingOverlooked, GivenUp, Barren
<1> QED
  BY <1>1, <1>2, <1>3, InitInv, NextInv, PTL DEF Spec

=============================================================================
