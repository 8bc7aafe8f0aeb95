-------------------------- MODULE PathBuilder_proofs --------------------------
(***************************************************************************)
(* For every pool, anchor list, configuration and validate_path verdict:   *)
(* the state of the search is well typed, only good chains leave it, and   *)
(* none is missed; for every pool without repetitions, none is found       *)
(* twice, the budget counts them and the key identifiers order them; the   *)
(* search implements ChainEnumeration.                                     *)
(***************************************************************************)
EXTENDS PathBuilder, SequenceTheorems, FiniteSetTheorems, TLAPS

(* The chain under construction is topological, and mirrors the frames.    *)
SearchInv ==
  /\ Len(frames) = Len(path)
  /\ path # <<>> => Topological(path)
  /\ Len(path) <= max_depth + 1
  /\ ~probing => max_depth = config.max_depth
  /\ pc = "yielded" => path # <<>> /\ AnchorMatches(Last(path))
  /\ result = "Ok" => pc = "returned"
  /\ probing => api # "candidates"

(* Each yield has cost a unit of the budget of the primary iterator.       *)
YieldsWithinBudget ==
  /\ Len(yields) <= config.dfs_budget
  /\ ~probing => Len(yields) + budget <= config.dfs_budget

IInv == TypeOK /\ SearchInv /\ YieldsAreGoodChains /\ YieldsWithinBudget

-----------------------------------------------------------------------------
(* What popping a non-empty stack leaves. *)
LEMMA FrontOfSeq ==
  ASSUME NEW S, NEW s \in Seq(S), s # <<>>
  PROVE  /\ Front(s) \in Seq(S)
         /\ Len(Front(s)) = Len(s) - 1
         /\ \A k \in 1 .. Len(s) - 1 : Front(s)[k] = s[k]
<1>1. Len(s) \in Nat \ {0}
  BY EmptySeq
<1>2. \A k \in 1 .. Len(s) - 1 : s[k] \in S
  BY <1>1, ElementOfSeq
<1> DEFINE n == Len(s) - 1
<1>3. n \in Int /\ 1 \in Int
  BY <1>1
<1>4. /\ SubSeq(s, 1, n) \in Seq(S)
      /\ Len(SubSeq(s, 1, n)) = IF 1 <= n THEN n - 1 + 1 ELSE 0
      /\ \A k \in 1 .. n - 1 + 1 : SubSeq(s, 1, n)[k] = s[1 + k - 1]
  <2> HIDE DEF n
  <2>1. \A k \in 1 .. n : s[k] \in S
    BY <1>2 DEF n
  <2> QED
    BY <1>3, <2>1, SubSeqProperties
<1>5. Front(s) = SubSeq(s, 1, n)
  BY DEF Front
<1>6. n \in Nat /\ Len(s) - 1 = n
  BY <1>1
<1> HIDE DEF n
<1>7. Len(Front(s)) = n /\ Front(s) \in Seq(S)
  BY <1>4, <1>5, <1>6
<1>8. ASSUME NEW k \in 1 .. n
      PROVE  Front(s)[k] = s[k]
  <2>1. k \in 1 .. n - 1 + 1 /\ 1 + k - 1 = k
    BY <1>6
  <2> QED
    BY <1>4, <1>5, <2>1, Zenon
<1> QED
  BY <1>6, <1>7, <1>8

(* Dropping the top certificate of a topological chain leaves one, or      *)
(* nothing: what Backtrack relies on.                                      *)
LEMMA FrontOfChain ==
  ASSUME NEW c \in Seq(Cert), c # <<>>, Topological(c)
  PROVE  Front(c) # <<>> => Topological(Front(c))
<1>1. Len(c) \in Nat \ {0}
  BY EmptySeq
<1>2. /\ Front(c) \in Seq(Cert)
      /\ Len(Front(c)) = Len(c) - 1
      /\ \A k \in 1 .. Len(c) - 1 : Front(c)[k] = c[k]
  BY FrontOfSeq
<1> SUFFICES ASSUME Front(c) # <<>>
             PROVE  Topological(Front(c))
  OBVIOUS
<1>3. Len(c) > 1
  BY <1>1, <1>2, EmptySeq
<1>4. Front(c)[1] = target
  BY <1>1, <1>2, <1>3 DEF Topological
<1>5. ASSUME NEW k \in 2 .. Len(Front(c))
      PROVE  /\ Front(c)[k] \in Pooled
             /\ CertIsCa(Front(c)[k])
             /\ Front(c)[k].subject = Front(c)[k - 1].issuer
             /\ \A j \in 1 .. k - 1 : Front(c)[j].key # Front(c)[k].key
  <2>1. /\ k \in 2 .. Len(c)
        /\ Front(c)[k] = c[k]
        /\ \A j \in 1 .. k - 1 : Front(c)[j] = c[j]
        /\ k - 1 \in 1 .. k - 1
    BY <1>1, <1>2
  <2> QED
    BY <2>1 DEF Topological
<1> QED
  BY <1>4, <1>5 DEF Topological

(* Pushing a CA of the pool that the name links and whose key is new keeps *)
(* the chain topological: what TryCandidate relies on.                     *)
LEMMA PushOnChain ==
  ASSUME NEW c \in Seq(Cert), c # <<>>, Topological(c),
         NEW x \in Cert, x \in Pooled, CertIsCa(x),
         x.subject = Last(c).issuer,
         ~SpkiAlreadyInPath(x, c)
  PROVE  /\ Append(c, x) \in Seq(Cert)
         /\ Len(Append(c, x)) = Len(c) + 1
         /\ Topological(Append(c, x))
<1>1. Len(c) \in Nat \ {0}
  BY EmptySeq
<1> DEFINE d == Append(c, x)
<1>2. /\ d \in Seq(Cert)
      /\ Len(d) = Len(c) + 1
      /\ \A k \in 1 .. Len(c) : d[k] = c[k]
      /\ d[Len(c) + 1] = x
      /\ d # <<>>
  BY <1>1, AppendProperties
<1>3. d[1] = target
  BY <1>1, <1>2 DEF Topological
<1>4. ASSUME NEW k \in 2 .. Len(d)
      PROVE  /\ d[k] \in Pooled
             /\ CertIsCa(d[k])
             /\ d[k].subject = d[k - 1].issuer
             /\ \A j \in 1 .. k - 1 : d[j].key # d[k].key
  <2>1. CASE k <= Len(c)
    <3>1. d[k] = c[k] /\ d[k - 1] = c[k - 1] /\ k \in 2 .. Len(c)
      BY <1>1, <1>2, <2>1
    <3>2. \A j \in 1 .. k - 1 : d[j] = c[j]
      BY <1>1, <1>2, <2>1
    <3> QED
      BY <3>1, <3>2 DEF Topological
  <2>2. CASE k = Len(c) + 1
    <3>1. d[k] = x /\ d[k - 1] = c[Len(c)]
      BY <1>1, <1>2, <2>2
    <3>2. \A j \in 1 .. k - 1 : d[j] = c[j] /\ j \in DOMAIN c
      BY <1>1, <1>2, <2>2
    <3> QED
      BY <3>1, <3>2 DEF Last, SpkiAlreadyInPath
  <2> QED
    BY <1>1, <1>2, <2>1, <2>2
<1> QED
  BY <1>2, <1>3, <1>4 DEF Topological

-----------------------------------------------------------------------------
(* The empty search, before the first call of next(). *)
LEMMA StartState ==
  ASSUME NEW t \in Cert
  PROVE  /\ <<t>> \in Seq(Cert)
         /\ <<t>> # <<>>
         /\ Len(<<t>>) = 1
         /\ <<t>>[1] = t
         /\ <<NewFrame>> \in Seq([passed : SUBSET Nat, anchor_checked : BOOLEAN,
                                  anchor_yielded : BOOLEAN])
         /\ Len(<<NewFrame>>) = 1
  BY DEF NewFrame

(* Init establishes the inductive invariant. *)
LEMMA InitIInv == Init => IInv
<1> SUFFICES ASSUME Init PROVE IInv
  OBVIOUS
<1>1. target \in Cert /\ config.max_depth \in Nat /\ config.dfs_budget \in Nat
  BY InputsAssumption DEF Init
<1>2. /\ path = <<target>> /\ frames = <<NewFrame>>
      /\ yields = <<>> /\ result = "pending" /\ pc = "search" /\ probing = FALSE
      /\ max_depth = config.max_depth /\ budget = config.dfs_budget
  BY DEF Init
<1>3. TypeOK
  <2>1. path \in Seq(Cert) /\ yields \in Seq(Seq(Cert)) /\ budget \in Nat /\ max_depth \in Nat
    BY <1>1, <1>2, StartState
  <2>2. frames \in Seq([passed : SUBSET Nat, anchor_checked : BOOLEAN,
                         anchor_yielded : BOOLEAN])
    BY <1>1, <1>2, StartState
  <2>3. probing \in BOOLEAN /\ tried \in Nat
    BY DEF Init
  <2> QED
    BY <1>2, <2>1, <2>2, <2>3 DEF Init, TypeOK
<1>4. Topological(path)
  BY <1>1, <1>2, StartState DEF Topological
<1>5. SearchInv
  BY <1>1, <1>2, <1>4, StartState DEF SearchInv
<1>6. YieldsAreGoodChains
  BY <1>2 DEF YieldsAreGoodChains
<1>7. YieldsWithinBudget
  BY <1>1, <1>2 DEF YieldsWithinBudget
<1> QED
  BY <1>3, <1>5, <1>6, <1>7 DEF IInv

(* The arguments of a call do not change, so neither does what a given     *)
(* chain is worth.                                                         *)
LEMMA ChainUnchanged ==
  ASSUME UNCHANGED inputs, NEW c, path' = c
  PROVE  /\ Topological(path)' <=> Topological(c)
         /\ AnchorMatches(Last(path))' <=> AnchorMatches(Last(c))
  BY DEF inputs, Topological, AnchorMatches, Pooled, CertIsCa, Last

(* A step that yields nothing and returns no chain keeps the yields good.  *)
LEMMA YieldsStable ==
  ASSUME YieldsAreGoodChains, UNCHANGED <<inputs, yields>>, result' # "Ok"
  PROVE  YieldsAreGoodChains'
  BY DEF YieldsAreGoodChains, GoodChain, Topological, AnchorMatches, Pooled,
         CertIsCa, Last, inputs

(* Popping a frame and its certificate. *)
LEMMA BacktrackIInv ==
  ASSUME IInv, pc = "search", frames # <<>>, Backtrack,
         UNCHANGED <<inputs, budget, max_depth, pc, probing, tried, result, yields>>
  PROVE  IInv'
<1> USE DEF IInv
<1>1. /\ path \in Seq(Cert) /\ path # <<>> /\ Topological(path)
      /\ Len(path) \in Nat \ {0} /\ max_depth \in Nat
  BY EmptySeq DEF TypeOK, SearchInv
<1>2. /\ path' = Front(path) /\ frames' = Front(frames)
      /\ path' \in Seq(Cert) /\ Len(path') = Len(path) - 1
  BY <1>1, FrontOfSeq DEF Backtrack
<1>3. /\ frames' \in Seq([passed : SUBSET Nat, anchor_checked : BOOLEAN,
                          anchor_yielded : BOOLEAN])
      /\ Len(frames') = Len(frames) - 1
  BY <1>2, FrontOfSeq DEF TypeOK
<1>4. TypeOK'
  BY <1>2, <1>3 DEF TypeOK, inputs
<1>5. path' # <<>> => Topological(path)'
  BY <1>1, <1>2, FrontOfChain, ChainUnchanged
<1>6. SearchInv'
  BY <1>1, <1>2, <1>3, <1>5 DEF SearchInv, inputs
<1>7. YieldsAreGoodChains'
  BY YieldsStable DEF SearchInv
<1>8. YieldsWithinBudget'
  BY DEF YieldsWithinBudget, inputs
<1> QED
  BY <1>4, <1>6, <1>7, <1>8

(* A step that touches only the control state and returns no chain, or the *)
(* chain that was just yielded.                                            *)
LEMMA ReturnIInv ==
  ASSUME IInv, UNCHANGED <<inputs, search, probing, yields>>,
         pc' \in {"search", "none", "returned"}, tried' \in Nat,
         \/ result' = "Ok" /\ pc = "yielded" /\ pc' = "returned" /\ ~probing
         \/ result' \in {"pending", "None"} \cup Errors
  PROVE  IInv'
<1> USE DEF IInv, search
<1>1. TypeOK'
  BY DEF TypeOK, inputs
<1>2. Topological(path)' <=> Topological(path)
  BY ChainUnchanged
<1>3. SearchInv'
  BY <1>2 DEF SearchInv, inputs, Errors
<1>4. YieldsAreGoodChains'
  <2>1. CASE result' # "Ok"
    BY <2>1, YieldsStable
  <2>2. CASE result' = "Ok" /\ pc = "yielded" /\ ~probing
    <3>1. GoodChain(path)
      BY <2>2 DEF SearchInv, GoodChain
    <3> QED
      BY <2>2, <3>1 DEF YieldsAreGoodChains, GoodChain, Topological, AnchorMatches,
                        Pooled, CertIsCa, Last, inputs
  <2> QED
    BY <2>1, <2>2 DEF Errors
<1>5. YieldsWithinBudget'
  BY DEF YieldsWithinBudget, inputs
<1> QED
  BY <1>1, <1>3, <1>4, <1>5

(* Entering a frame: the budget pays for the yield. *)
LEMMA AnchorCheckIInv == IInv /\ AnchorCheck => IInv'
<1> SUFFICES ASSUME IInv, AnchorCheck PROVE IInv'
  OBVIOUS
<1> USE DEF IInv
<1> DEFINE F == [passed : SUBSET Nat, anchor_checked : BOOLEAN, anchor_yielded : BOOLEAN]
<1>1. /\ path \in Seq(Cert) /\ path # <<>> /\ Topological(path) /\ path' = path
      /\ Len(path) \in Nat \ {0} /\ max_depth \in Nat /\ budget \in Nat /\ budget > 0
      /\ frames \in Seq(F) /\ Len(frames) = Len(path) /\ yields \in Seq(Seq(Cert))
      /\ config.dfs_budget \in Nat /\ pc = "search" /\ result # "Ok"
      /\ UNCHANGED <<inputs, path, max_depth, probing, tried, result>>
      /\ budget' = budget - 1
  BY EmptySeq, InputsAssumption DEF AnchorCheck, EnteringFrame, HasBudget, TypeOK, SearchInv
<1>2. frames' \in Seq(F) /\ Len(frames') = Len(frames)
  <2>1. Top \in 1 .. Len(frames)
    BY <1>1 DEF Top
  <2>2. frames[Top] \in F
    BY <1>1, <2>1, ElementOfSeq
  <2>3. CASE AnchorMatches(Last(path))
    <3>1. frames' = [frames EXCEPT ![Top] =
                       [frames[Top] EXCEPT !.anchor_checked = TRUE, !.anchor_yielded = TRUE]]
      BY <2>1, <2>2, <2>3, <1>1 DEF AnchorCheck
    <3>2. [frames[Top] EXCEPT !.anchor_checked = TRUE, !.anchor_yielded = TRUE] \in F
      BY <2>2
    <3> QED
      BY <1>1, <2>1, <3>1, <3>2, ExceptSeq
  <2>4. CASE ~AnchorMatches(Last(path))
    <3> DEFINE e == [frames[Top] EXCEPT !.anchor_checked = TRUE]
    <3>1. frames' = [frames EXCEPT ![Top] = e]
      BY <2>1, <2>2, <2>4, <1>1 DEF AnchorCheck
    <3>2. e \in F
      BY <2>2
    <3> HIDE DEF e, F
    <3> QED
      BY <1>1, <2>1, <3>1, <3>2, ExceptSeq
  <2> QED
    BY <2>3, <2>4
<1>3. \/ /\ AnchorMatches(Last(path)) /\ pc' = "yielded"
         /\ yields' = IF probing THEN yields ELSE Append(yields, path)
      \/ UNCHANGED <<pc, yields>>
  BY DEF AnchorCheck
<1>4. yields' \in Seq(Seq(Cert)) /\ Len(yields') <= Len(yields) + 1
  <2>1. /\ Append(yields, path) \in Seq(Seq(Cert))
        /\ Len(Append(yields, path)) = Len(yields) + 1
        /\ Len(yields) \in Nat
    BY <1>1, AppendProperties, LenProperties
  <2>2. yields' = yields \/ yields' = Append(yields, path)
    BY <1>3, Zenon
  <2>3. CASE yields' = yields
    BY <1>1, <2>1, <2>3
  <2>4. CASE yields' = Append(yields, path)
    BY <2>1, <2>4
  <2> QED
    BY <2>2, <2>3, <2>4
<1>5. TypeOK'
  BY <1>1, <1>2, <1>3, <1>4 DEF TypeOK, inputs
<1>6. Topological(path)' /\ (AnchorMatches(Last(path))' <=> AnchorMatches(Last(path)))
  BY <1>1, ChainUnchanged
<1>7. SearchInv'
  BY <1>1, <1>2, <1>3, <1>6 DEF SearchInv, inputs
<1>8. YieldsAreGoodChains'
  <2>1. CASE yields' = yields
    BY <1>1, <2>1, YieldsStable
  <2>2. CASE ~probing /\ AnchorMatches(Last(path)) /\ yields' = Append(yields, path)
    <3>1. GoodChain(path)
      BY <1>1, <2>2 DEF GoodChain, SearchInv
    <3>2. \A k \in DOMAIN yields' : GoodChain(yields'[k])
      BY <1>1, <2>2, <3>1, AppendProperties, LenProperties DEF YieldsAreGoodChains
    <3> QED
      BY <1>1, <3>2 DEF YieldsAreGoodChains, GoodChain, Topological, AnchorMatches,
                        Pooled, CertIsCa, Last, inputs
  <2> QED
    BY <1>3, <2>1, <2>2
<1>9. YieldsWithinBudget'
  <2>1. Len(yields') + budget' <= Len(yields) + budget /\ Len(yields') \in Nat
    BY <1>1, <1>4, LenProperties
  <2>2. probing => yields' = yields
    BY <1>3
  <2> QED
    BY <1>1, <2>1, <2>2, LenProperties DEF YieldsWithinBudget, inputs
<1> QED
  BY <1>5, <1>7, <1>8, <1>9

(* Looking at the next candidate: pushed when it extends the chain. *)
LEMMA TryCandidateIInv == IInv /\ TryCandidate => IInv'
<1> SUFFICES ASSUME IInv, TryCandidate PROVE IInv'
  OBVIOUS
<1> USE DEF IInv
<1> DEFINE F == [passed : SUBSET Nat, anchor_checked : BOOLEAN, anchor_yielded : BOOLEAN]
<1>1. /\ path \in Seq(Cert) /\ path # <<>> /\ Topological(path)
      /\ Len(path) \in Nat \ {0} /\ max_depth \in Nat
      /\ frames \in Seq(F) /\ Len(frames) = Len(path) /\ Len(path) <= max_depth
      /\ pc = "search" /\ result # "Ok"
      /\ UNCHANGED <<inputs, budget, max_depth, pc, probing, tried, result, yields>>
  BY EmptySeq DEF TryCandidate, InsideFrame, DepthGate, Top, TypeOK, SearchInv
<1>2. PICK i \in DOMAIN pool :
        /\ NextCandidate(i)
        /\ IF CertIsCa(pool[i]) /\ ~SpkiAlreadyInPath(pool[i], path)
           THEN /\ path' = Append(path, pool[i])
                /\ frames' = Append(CursorPast(i), NewFrame)
           ELSE /\ frames' = CursorPast(i)
                /\ UNCHANGED path
  BY DEF TryCandidate
<1>3. /\ pool[i] \in Cert /\ pool[i] \in Pooled /\ i \in Nat
      /\ pool[i].subject = Last(path).issuer
  <2>1. pool \in Seq(Cert)
    BY InputsAssumption DEF TypeOK
  <2> QED
    BY <1>2, <2>1, ElementOfSeq, LenProperties
    DEF Pooled, NextCandidate, Untried, Candidates
<1>4. CursorPast(i) \in Seq(F) /\ Len(CursorPast(i)) = Len(frames)
  <2>1. Top \in 1 .. Len(frames)
    BY <1>1 DEF Top
  <2>2. frames[Top] \in F
    BY <1>1, <2>1, ElementOfSeq
  <2>3. CursorPast(i) = [frames EXCEPT ![Top] =
                           [frames[Top] EXCEPT !.passed = frames[Top].passed \cup {i}]]
    BY <2>1, <2>2 DEF CursorPast
  <2>4. [frames[Top] EXCEPT !.passed = frames[Top].passed \cup {i}] \in F
    BY <1>3, <2>2
  <2> QED
    BY <1>1, <2>1, <2>3, <2>4, ExceptSeq, SMTT(30)
<1>5. NewFrame \in F
  BY DEF NewFrame
<1>6. /\ path' \in Seq(Cert) /\ Topological(path') /\ frames' \in Seq(F)
      /\ Len(frames') = Len(path') /\ Len(path') <= max_depth + 1 /\ path' # <<>>
  <2>1. CASE CertIsCa(pool[i]) /\ ~SpkiAlreadyInPath(pool[i], path)
    <3>1. path' = Append(path, pool[i]) /\ frames' = Append(CursorPast(i), NewFrame)
      BY <1>2, <2>1
    <3>2. /\ path' \in Seq(Cert) /\ Len(path') = Len(path) + 1 /\ Topological(path')
      BY <1>1, <1>3, <2>1, <3>1, PushOnChain
    <3>3. frames' \in Seq(F) /\ Len(frames') = Len(frames) + 1
      BY <1>4, <1>5, <3>1, AppendProperties
    <3> QED
      BY <1>1, <3>2, <3>3 DEF Topological
  <2>2. CASE ~(CertIsCa(pool[i]) /\ ~SpkiAlreadyInPath(pool[i], path))
    BY <1>1, <1>2, <1>4, <2>2
  <2> QED
    BY <2>1, <2>2
<1>7. TypeOK'
  BY <1>1, <1>6 DEF TypeOK, inputs
<1>8. Topological(path)'
  BY <1>1, <1>6, ChainUnchanged
<1>9. SearchInv'
  BY <1>1, <1>6, <1>8 DEF SearchInv, inputs
<1>10. YieldsAreGoodChains' /\ YieldsWithinBudget'
  BY <1>1, YieldsStable DEF YieldsWithinBudget, inputs
<1> QED
  BY <1>7, <1>9, <1>10

(* The probe starts from the target again, one level deeper. *)
LEMMA StartProbeIInv == IInv /\ StartProbe => IInv'
<1> SUFFICES ASSUME IInv, StartProbe PROVE IInv'
  OBVIOUS
<1> USE DEF IInv
<1>1. target \in Cert /\ config.max_depth \in Nat /\ config.dfs_budget \in Nat
  BY InputsAssumption DEF TypeOK
<1>2. /\ path' = <<target>> /\ frames' = <<NewFrame>> /\ budget' = config.dfs_budget
      /\ max_depth' = config.max_depth + 1 /\ pc' = "search" /\ probing' = TRUE
      /\ UNCHANGED <<inputs, tried, result, yields>> /\ pc = "none"
      /\ api # "candidates"
  BY DEF StartProbe, StartSearch, ProbeDepth
<1>3. TypeOK'
  <2>1. path' \in Seq(Cert) /\ budget' \in Nat /\ max_depth' \in Nat
    BY <1>1, <1>2, StartState
  <2>2. frames' \in Seq([passed : SUBSET Nat, anchor_checked : BOOLEAN,
                         anchor_yielded : BOOLEAN])
    BY <1>1, <1>2, StartState
  <2> QED
    BY <1>2, <2>1, <2>2 DEF TypeOK, inputs
<1>4. Topological(<<target>>)
  BY <1>1, StartState DEF Topological
<1>5. Topological(path)'
  BY <1>2, <1>4, ChainUnchanged
<1>6. SearchInv'
  BY <1>1, <1>2, <1>5, StartState DEF SearchInv, inputs
<1>7. YieldsAreGoodChains' /\ YieldsWithinBudget'
  BY <1>2, YieldsStable DEF SearchInv, YieldsWithinBudget, inputs
<1> QED
  BY <1>3, <1>6, <1>7

(* Every step, of the search or of a caller, preserves the invariant. *)
LEMMA NextIInv == IInv /\ [Next]_vars => IInv'
<1> SUFFICES ASSUME IInv, [Next]_vars PROVE IInv'
  OBVIOUS
<1>0. /\ tried \in Nat /\ result \in {"pending", "Ok", "None"} \cup Errors
      /\ result = "Ok" => pc = "returned"
  BY DEF IInv, TypeOK, SearchInv
<1>1. CASE Exhausted
  BY <1>0, <1>1, ReturnIInv DEF Exhausted
<1>2. CASE LeaveYieldedFrame
  BY <1>2, BacktrackIInv DEF LeaveYieldedFrame
<1>3. CASE OutOfBudget
  BY <1>0, <1>3, ReturnIInv DEF OutOfBudget, EnteringFrame, Errors
<1>4. CASE AnchorCheck
  BY <1>4, AnchorCheckIInv
<1>5. CASE LeaveFrame
  BY <1>5, BacktrackIInv DEF LeaveFrame, InsideFrame
<1>6. CASE TryCandidate
  BY <1>6, TryCandidateIInv
<1>7. CASE ResumeCandidates
  BY <1>0, <1>7, ReturnIInv DEF ResumeCandidates
<1>8. CASE StopCandidates
  <2>1. ~probing
    BY <1>8 DEF StopCandidates, IInv, SearchInv
  <2> QED
    BY <1>0, <1>8, <2>1, ReturnIInv DEF StopCandidates, Return
<1>9. CASE BuildPathYield
  BY <1>0, <1>9, ReturnIInv DEF BuildPathYield, Return
<1>10. CASE FirstValidYield
  BY <1>0, <1>10, ReturnIInv DEF FirstValidYield, Return
<1>11. CASE FirstValidRejectedAll
  BY <1>0, <1>11, ReturnIInv DEF FirstValidRejectedAll, Return, Errors
<1>12. CASE StartProbe
  BY <1>12, StartProbeIInv
<1>13. CASE FinishProbe
  BY <1>0, <1>13, ReturnIInv DEF FinishProbe, Return, Errors
<1>14. CASE Done \/ UNCHANGED vars
  <2>1. UNCHANGED vars
    BY <1>14 DEF Done
  <2> QED
    BY <2>1 DEF IInv, TypeOK, SearchInv, YieldsAreGoodChains, YieldsWithinBudget, GoodChain,
                Topological, AnchorMatches, Pooled, CertIsCa, Last, vars, inputs, search
<1> QED
  BY <1>1, <1>2, <1>3, <1>4, <1>5, <1>6, <1>7, <1>8, <1>9, <1>10, <1>11, <1>12, <1>13, <1>14
  DEF Next, SearchStep, CallerStep

-----------------------------------------------------------------------------
\* The strengthened invariant holds in every state of the search.
LEMMA Invariance == Spec => []IInv
<1> QED
  BY InitIInv, NextIInv, PTL DEF Spec

(* Type correctness of the search: the frame stack, the flags and the      *)
(* budget of PathCandidates keep their types (the budget never passes 0).  *)
THEOREM TypeCorrect == Spec => []TypeOK
<1>1. IInv => TypeOK
  BY DEF IInv
<1> QED
  BY <1>1, Invariance, PTL

(* Whatever the pool, the anchors and the configuration, every chain that  *)
(* PathCandidates yields, and every chain build_path or                    *)
(* build_first_valid_path returns, is a good chain.                        *)
THEOREM OnlyGoodChains == Spec => []YieldsAreGoodChains
<1>1. IInv => YieldsAreGoodChains
  BY DEF IInv
<1> QED
  BY <1>1, Invariance, PTL

(* Bounded enumeration: an iterator yields at most dfs_budget chains over  *)
(* its whole life, however many the pool holds.                            *)
THEOREM BoundedEnumeration == Spec => [](Len(yields) <= config.dfs_budget)
<1>1. IInv => Len(yields) <= config.dfs_budget
  BY DEF IInv, YieldsWithinBudget
<1> QED
  BY <1>1, Invariance, PTL

-----------------------------------------------------------------------------
(***************************************************************************)
(* The search misses nothing.  A chain of the pool is ahead of the search  *)
(* when the frame stack still leads to it; every step but the anchor check *)
(* keeps the chains that are ahead, and that one takes off the path.       *)
(***************************************************************************)

(* A chain the search may come to, whatever its length. *)
Chain(c) ==
  /\ c \in Seq(Cert) /\ Topological(c)
  /\ \A k \in 1 .. Len(c) - 1 : ~AnchorMatches(c[k])

Ends(c) == AnchorMatches(Last(c))

(* Frame k of the stack f over the path p leads to c: it is new, or the    *)
(* continuation of c is a candidate its cursor has not passed.             *)
At(p, f, c, k) ==
  /\ k <= Len(c) /\ \A j \in 1 .. k : c[j] = p[j]
  /\ \/ ~f[k].anchor_checked
     \/ /\ k < Len(c) /\ ~f[k].anchor_yielded
        /\ \E i \in DOMAIN pool :
             i \notin f[k].passed /\ pool[i].subject = p[k].issuer /\ pool[i] = c[k + 1]

Ahead(p, f, c) == \E k \in 1 .. Len(f) : At(p, f, c, k)

(* What leads to a chain is in one frame. *)
LEMMA AtLocal ==
  ASSUME NEW p, NEW f, NEW q, NEW g, NEW c, NEW k,
         \A j \in 1 .. k : q[j] = p[j], q[k] = p[k], g[k] = f[k]
  PROVE  At(q, g, c, k) <=> At(p, f, c, k)
  BY DEF At

(* Dropping a top frame that does not lead to a chain. *)
LEMMA AheadBelow ==
  ASSUME NEW n \in Nat \ {0}, NEW p, NEW f, NEW q, NEW g, NEW c,
         Len(f) = n, Len(g) = n - 1,
         \A j \in 1 .. n - 1 : q[j] = p[j] /\ g[j] = f[j],
         ~At(p, f, c, n)
  PROVE  Ahead(q, g, c) <=> Ahead(p, f, c)
<1>1. ASSUME NEW k \in 1 .. n - 1 PROVE At(q, g, c, k) <=> At(p, f, c, k)
  <2>1. /\ \A j \in 1 .. k : q[j] = p[j]
        /\ q[k] = p[k] /\ g[k] = f[k]
    OBVIOUS
  <2> QED
    BY <2>1, AtLocal
<1>2. \A k \in 1 .. n : k = n \/ k \in 1 .. n - 1
  OBVIOUS
<1>3. \A k \in 1 .. n - 1 : k \in 1 .. n
  OBVIOUS
<1> QED
  BY <1>1, <1>2, <1>3 DEF Ahead

(* A top frame that has yielded leads nowhere. *)
LEMMA YieldedLeadsNowhere ==
  ASSUME NEW p, NEW f, NEW c, NEW n, f[n].anchor_checked, f[n].anchor_yielded
  PROVE  ~At(p, f, c, n)
  BY DEF At

(* A top frame whose candidates are used up, or at the depth limit, leads  *)
(* to no chain within the limit.                                           *)
LEMMA FinishedLeadsNowhere ==
  ASSUME NEW p, NEW f, NEW c, NEW n \in Nat, NEW d \in Nat, f[n].anchor_checked,
         Len(c) \in Nat, Len(c) <= d + 1,
         n > d \/ {i \in DOMAIN pool : pool[i].subject = p[n].issuer} \ f[n].passed = {}
  PROVE  ~At(p, f, c, n)
  BY DEF At

(* A candidate that is taken, or passed over for a reason. *)
LEMMA AheadOnCandidate ==
  ASSUME NEW n \in Nat \ {0}, NEW p \in Seq(Cert), NEW f, NEW q, NEW g, NEW c,
         Len(p) = n, Len(f) = n, Chain(c),
         f[n].anchor_checked, ~f[n].anchor_yielded,
         NEW i \in DOMAIN pool, i \notin f[n].passed, pool[i].subject = p[n].issuer,
         \A j \in 1 .. n : q[j] = p[j], \A j \in 1 .. n - 1 : g[j] = f[j],
         g[n].anchor_checked, ~g[n].anchor_yielded, g[n].passed = f[n].passed \cup {i},
         \/ /\ CertIsCa(pool[i]) /\ ~SpkiAlreadyInPath(pool[i], p)
            /\ Len(g) = n + 1 /\ ~g[n + 1].anchor_checked /\ q[n + 1] = pool[i]
         \/ /\ ~(CertIsCa(pool[i]) /\ ~SpkiAlreadyInPath(pool[i], p))
            /\ Len(g) = n
  PROVE  Ahead(q, g, c) <=> Ahead(p, f, c)
<1>1. ASSUME NEW k \in 1 .. n - 1 PROVE At(q, g, c, k) <=> At(p, f, c, k)
  <2>1. g[k] = f[k]
    OBVIOUS
  <2>2. k \in 1 .. n /\ \A j \in 1 .. k : j \in 1 .. n
    OBVIOUS
  <2>3. q[k] = p[k] /\ \A j \in 1 .. k : q[j] = p[j]
    BY <2>2
  <2> QED
    BY <2>1, <2>3, AtLocal
<1>2. Len(c) \in Nat /\ n \in 1 .. n
  BY DEF Chain
<1> DEFINE Follows(j) == n < Len(c) /\ (\A m \in 1 .. n : c[m] = p[m]) /\ pool[j] = c[n + 1]
           Open(j) == j \in DOMAIN pool /\ j \notin f[n].passed /\ pool[j].subject = p[n].issuer
<1>3. At(p, f, c, n) <=> \E j : Open(j) /\ Follows(j)
  BY <1>2 DEF At
<1>4. At(q, g, c, n) <=> \E j : Open(j) /\ j # i /\ Follows(j)
  BY <1>2 DEF At
<1>5. CASE CertIsCa(pool[i]) /\ ~SpkiAlreadyInPath(pool[i], p)
  <2>1. Len(g) = n + 1 /\ ~g[n + 1].anchor_checked /\ q[n + 1] = pool[i]
    BY <1>5
  <2>2. At(q, g, c, n + 1) <=> Follows(i)
    <3>1. At(q, g, c, n + 1) <=> n + 1 <= Len(c) /\ \A j \in 1 .. n + 1 : c[j] = q[j]
      BY <2>1 DEF At
    <3>2. (\A j \in 1 .. n + 1 : c[j] = q[j]) <=> (\A j \in 1 .. n : c[j] = p[j]) /\ c[n + 1] = pool[i]
      BY <2>1
    <3> QED
      BY <1>2, <3>1, <3>2
  <2>3. At(p, f, c, n) <=> At(q, g, c, n) \/ At(q, g, c, n + 1)
    BY <1>3, <1>4, <2>2
  <2>4. /\ \A k \in 1 .. n + 1 : k \in 1 .. n - 1 \/ k = n \/ k = n + 1
        /\ \A k \in 1 .. n : k \in 1 .. n - 1 \/ k = n
        /\ n + 1 \in 1 .. n + 1 /\ n \in 1 .. n + 1 /\ n \in 1 .. n
        /\ \A k \in 1 .. n - 1 : k \in 1 .. n /\ k \in 1 .. n + 1
    OBVIOUS
  <2> QED
    BY <1>1, <2>1, <2>3, <2>4, Zenon DEF Ahead
<1>6. CASE ~(CertIsCa(pool[i]) /\ ~SpkiAlreadyInPath(pool[i], p))
  <2>1. ~Follows(i)
    <3> SUFFICES ASSUME Follows(i) PROVE FALSE
      OBVIOUS
    <3>1. n + 1 \in 2 .. Len(c) /\ c[n + 1] = pool[i]
      BY <1>2
    <3>2. CertIsCa(pool[i]) /\ \A j \in 1 .. (n + 1) - 1 : c[j].key # pool[i].key
      BY <3>1 DEF Chain, Topological
    <3>3. ASSUME NEW j \in DOMAIN p PROVE p[j].key # pool[i].key
      <4>1. j \in 1 .. n /\ j \in 1 .. (n + 1) - 1
        OBVIOUS
      <4> QED
        BY <3>2, <4>1
    <3> QED
      BY <1>6, <3>2, <3>3 DEF SpkiAlreadyInPath
  <2>2. At(p, f, c, n) <=> At(q, g, c, n)
    BY <1>3, <1>4, <2>1
  <2>3. Len(g) = n /\ \A k \in 1 .. n : k \in 1 .. n - 1 \/ k = n
    BY <1>6
  <2> QED
    BY <1>1, <2>2, <2>3 DEF Ahead
<1> QED
  BY <1>5, <1>6

(* The anchor check takes nothing off but the path itself. *)
LEMMA AheadOnCheck ==
  ASSUME TypeOK, NEW n \in Nat \ {0}, NEW p \in Seq(Cert), NEW f, NEW g, NEW c,
         Len(p) = n, Len(f) = n, Len(g) = n, Chain(c),
         ~f[n].anchor_checked, f[n].passed = {},
         \A j \in 1 .. n - 1 : g[j] = f[j],
         g[n].anchor_checked, g[n].passed = {}, g[n].anchor_yielded <=> AnchorMatches(p[n]),
         c # p
  PROVE  Ahead(p, g, c) <=> Ahead(p, f, c)
<1>1. ASSUME NEW k \in 1 .. n - 1 PROVE At(p, g, c, k) <=> At(p, f, c, k)
  BY AtLocal
<1>2. c \in Seq(Cert) /\ Len(c) \in Nat /\ Topological(c)
  BY DEF Chain
<1>3. At(p, f, c, n) <=> n <= Len(c) /\ \A j \in 1 .. n : c[j] = p[j]
  BY DEF At
<1>4. At(p, g, c, n) => At(p, f, c, n)
  BY <1>2, <1>3 DEF At
<1>5. ASSUME At(p, f, c, n) PROVE At(p, g, c, n)
  <2>1. n <= Len(c) /\ \A j \in 1 .. n : c[j] = p[j]
    BY <1>3, <1>5
  <2>2. n < Len(c)
    <3>1. CASE n = Len(c)
      <4>1. c = p
        BY <1>2, <2>1, <3>1, SeqEqual
      <4> QED
        BY <4>1
    <3> QED
      BY <1>2, <2>1, <3>1
  <2>3. ~AnchorMatches(p[n])
    <3>1. n \in 1 .. Len(c) - 1 /\ c[n] = p[n]
      BY <1>2, <2>1, <2>2
    <3> QED
      BY <3>1 DEF Chain
  <2>4. n + 1 \in 2 .. Len(c)
    BY <1>2, <2>2
  <2>5. c[n + 1] \in Pooled /\ c[n + 1].subject = c[(n + 1) - 1].issuer
    BY <1>2, <2>4 DEF Topological
  <2>6. PICK i \in DOMAIN pool : pool[i] = c[n + 1]
    BY <2>5 DEF Pooled
  <2>7. pool[i].subject = p[n].issuer
    BY <2>1, <2>5, <2>6
  <2> QED
    BY <2>1, <2>2, <2>3, <2>6, <2>7 DEF At
<1>6. \A k \in 1 .. n : k \in 1 .. n - 1 \/ k = n
  OBVIOUS
<1> QED
  BY <1>1, <1>4, <1>5, <1>6 DEF Ahead

(* The flags of the frames: only the topmost may be new or have yielded,   *)
(* and one yields exactly when an anchor names the issuer.                 *)
FramesOK(p, f) ==
  \A k \in 1 .. Len(f) :
    /\ k < Len(f) => f[k].anchor_checked /\ ~f[k].anchor_yielded
    /\ f[k].anchor_yielded => f[k].anchor_checked
    /\ ~f[k].anchor_checked => f[k].passed = {}
    /\ f[k].anchor_checked => (f[k].anchor_yielded <=> AnchorMatches(p[k]))

(* The arguments of a call do not change, so neither do the chains.        *)
LEMMA ChainsStay ==
  ASSUME UNCHANGED inputs
  PROVE  /\ \A c : (Chain(c)' <=> Chain(c)) /\ (Ends(c)' <=> Ends(c))
         /\ \A c : Ahead(path, frames, c)' <=> Ahead(path', frames', c)
         /\ FramesOK(path, frames)' <=> FramesOK(path', frames')
<1>1. ASSUME NEW c PROVE (Chain(c)' <=> Chain(c)) /\ (Ends(c)' <=> Ends(c))
  <2>1. \A x : AnchorMatches(x)' <=> AnchorMatches(x)
    BY DEF AnchorMatches, inputs
  <2>2. Topological(c)' <=> Topological(c)
    BY DEF Topological, Pooled, CertIsCa, inputs
  <2> QED
    BY <2>1, <2>2 DEF Chain, Ends
<1>2. ASSUME NEW c PROVE Ahead(path, frames, c)' <=> Ahead(path', frames', c)
  BY DEF Ahead, At, inputs
<1>3. FramesOK(path, frames)' <=> FramesOK(path', frames')
  BY DEF FramesOK, AnchorMatches, inputs
<1> QED
  BY <1>1, <1>2, <1>3

(* A move of the search that changes nothing in which chains are ahead.    *)
Moves ==
  /\ FramesOK(path', frames')
  /\ \A c : Chain(c) /\ Len(c) <= max_depth + 1 =>
              (Ahead(path', frames', c) <=> Ahead(path, frames, c))

(* The search's two stacks. *)
LEMMA Stacks ==
  ASSUME IInv, frames # <<>>
  PROVE  /\ path \in Seq(Cert) /\ path # <<>> /\ Len(path) = Len(frames) /\ Len(frames) \in Nat \ {0}
         /\ frames \in Seq([passed : SUBSET Nat, anchor_checked : BOOLEAN, anchor_yielded : BOOLEAN])
         /\ max_depth \in Nat /\ Last(path) = path[Len(frames)] /\ Topological(path)
         /\ Len(path) <= max_depth + 1
<1>1. /\ path \in Seq(Cert) /\ Len(path) = Len(frames) /\ max_depth \in Nat
      /\ frames \in Seq([passed : SUBSET Nat, anchor_checked : BOOLEAN, anchor_yielded : BOOLEAN])
      /\ path # <<>> => Topological(path)
      /\ Len(path) <= max_depth + 1
  BY DEF IInv, TypeOK, SearchInv
<1>2. Len(frames) \in Nat \ {0} /\ path # <<>>
  BY <1>1, EmptySeq
<1> QED
  BY <1>1, <1>2 DEF Last

(* What trying a candidate does to the two stacks. *)
LEMMA TryShape ==
  ASSUME IInv, TryCandidate
  PROVE  \E n \in Nat \ {0}, i \in DOMAIN pool :
           /\ Len(path) = n /\ Len(frames) = n /\ Last(path) = path[n]
           /\ frames[n].anchor_checked /\ ~frames[n].anchor_yielded
           /\ NextCandidate(i) /\ i \notin frames[n].passed /\ pool[i].subject = path[n].issuer
           /\ \A j \in 1 .. n : path'[j] = path[j]
           /\ \A j \in 1 .. n - 1 : frames'[j] = frames[j]
           /\ frames'[n].anchor_checked /\ ~frames'[n].anchor_yielded
           /\ frames'[n].passed = frames[n].passed \cup {i}
           /\ \/ /\ CertIsCa(pool[i]) /\ ~SpkiAlreadyInPath(pool[i], path)
                 /\ Len(frames') = n + 1 /\ frames'[n + 1] = NewFrame /\ path'[n + 1] = pool[i]
              \/ /\ ~(CertIsCa(pool[i]) /\ ~SpkiAlreadyInPath(pool[i], path))
                 /\ Len(frames') = n /\ path' = path
<1>1. frames # <<>> /\ frames[Top].anchor_checked /\ ~frames[Top].anchor_yielded
  BY DEF TryCandidate, InsideFrame
<1>2. PICK n : n = Len(frames)
  OBVIOUS
<1>3. /\ path \in Seq(Cert) /\ path # <<>> /\ Len(path) = n /\ Len(frames) = n /\ n \in Nat \ {0}
      /\ frames \in Seq([passed : SUBSET Nat, anchor_checked : BOOLEAN, anchor_yielded : BOOLEAN])
      /\ max_depth \in Nat /\ Last(path) = path[n]
  BY <1>1, <1>2, Stacks
<1>4. PICK i \in DOMAIN pool :
        /\ NextCandidate(i)
        /\ IF CertIsCa(pool[i]) /\ ~SpkiAlreadyInPath(pool[i], path)
           THEN /\ path' = Append(path, pool[i])
                /\ frames' = Append(CursorPast(i), NewFrame)
           ELSE /\ frames' = CursorPast(i)
                /\ UNCHANGED path
  BY DEF TryCandidate
<1>5. i \notin frames[n].passed /\ pool[i].subject = path[n].issuer
  BY <1>2, <1>3, <1>4 DEF NextCandidate, Untried, Candidates, Top
<1>6. PICK g : g = CursorPast(i)
  OBVIOUS
<1>7. i \in Nat /\ n \in 1 .. n
  BY <1>3, InputsAssumption DEF IInv, TypeOK
<1>8. /\ g \in Seq([passed : SUBSET Nat, anchor_checked : BOOLEAN, anchor_yielded : BOOLEAN])
      /\ Len(g) = n /\ \A j \in 1 .. n - 1 : g[j] = frames[j]
      /\ g[n].anchor_checked /\ ~g[n].anchor_yielded /\ g[n].passed = frames[n].passed \cup {i}
  <2>1. frames[n] \in [passed : SUBSET Nat, anchor_checked : BOOLEAN, anchor_yielded : BOOLEAN]
    BY <1>3, <1>7, ElementOfSeq
  <2>2. frames[n].anchor_checked /\ ~frames[n].anchor_yielded
    BY <1>1, <1>2 DEF Top
  <2>3. PICK x : x = [frames[n] EXCEPT !.passed = @ \cup {i}]
    OBVIOUS
  <2>4. /\ x \in [passed : SUBSET Nat, anchor_checked : BOOLEAN, anchor_yielded : BOOLEAN]
        /\ x.anchor_checked /\ ~x.anchor_yielded /\ x.passed = frames[n].passed \cup {i}
    BY <1>7, <2>1, <2>2, <2>3
  <2>5. g = [frames EXCEPT ![n] = x]
    BY <1>2, <1>3, <1>6, <2>3 DEF CursorPast, Top
  <2> QED
    BY <1>3, <1>7, <2>4, <2>5
<1>9. /\ \A j \in 1 .. n : path'[j] = path[j]
      /\ \A j \in 1 .. n : frames'[j] = g[j]
      /\ \/ /\ CertIsCa(pool[i]) /\ ~SpkiAlreadyInPath(pool[i], path)
            /\ Len(frames') = n + 1 /\ frames'[n + 1] = NewFrame /\ path'[n + 1] = pool[i]
         \/ /\ ~(CertIsCa(pool[i]) /\ ~SpkiAlreadyInPath(pool[i], path))
            /\ Len(frames') = n /\ path' = path
  <2>1. CASE CertIsCa(pool[i]) /\ ~SpkiAlreadyInPath(pool[i], path)
    <3>1. path' = Append(path, pool[i]) /\ frames' = Append(g, NewFrame)
      BY <1>4, <1>6, <2>1
    <3> QED
      BY <1>3, <1>8, <2>1, <3>1
  <2>2. CASE ~(CertIsCa(pool[i]) /\ ~SpkiAlreadyInPath(pool[i], path))
    <3>1. path' = path /\ frames' = g
      BY <1>4, <1>6, <2>2
    <3> QED
      BY <1>8, <2>2, <3>1
  <2> QED
    BY <2>1, <2>2
<1>10. /\ \A j \in 1 .. n - 1 : frames'[j] = frames[j]
       /\ frames'[n].anchor_checked /\ ~frames'[n].anchor_yielded
       /\ frames'[n].passed = frames[n].passed \cup {i}
  BY <1>3, <1>7, <1>8, <1>9
<1>11. frames[n].anchor_checked /\ ~frames[n].anchor_yielded
  BY <1>1, <1>2 DEF Top
<1> QED
  BY <1>3, <1>4, <1>5, <1>9, <1>10, <1>11

(* What the anchor check does to the two stacks. *)
LEMMA CheckShape ==
  ASSUME IInv, FramesOK(path, frames), AnchorCheck
  PROVE  \E n \in Nat \ {0} :
           /\ Len(path) = n /\ Len(frames) = n /\ Last(path) = path[n] /\ path' = path
           /\ ~frames[n].anchor_checked /\ frames[n].passed = {} /\ ~frames[n].anchor_yielded
           /\ Len(frames') = n /\ \A j \in 1 .. n - 1 : frames'[j] = frames[j]
           /\ frames'[n].anchor_checked /\ frames'[n].passed = {}
           /\ frames'[n].anchor_yielded <=> AnchorMatches(path[n])
<1>1. /\ frames # <<>> /\ ~frames[Top].anchor_checked /\ path' = path
  BY DEF AnchorCheck, EnteringFrame
<1>2. PICK n : n = Len(frames)
  OBVIOUS
<1>3. /\ path \in Seq(Cert) /\ path # <<>> /\ Len(path) = n /\ Len(frames) = n /\ n \in Nat \ {0}
      /\ frames \in Seq([passed : SUBSET Nat, anchor_checked : BOOLEAN, anchor_yielded : BOOLEAN])
      /\ max_depth \in Nat /\ Last(path) = path[n] /\ Topological(path) /\ Len(path) <= max_depth + 1
  BY <1>1, <1>2, Stacks
<1>4. ~frames[n].anchor_checked /\ frames[n].passed = {} /\ ~frames[n].anchor_yielded
  BY <1>1, <1>2, <1>3 DEF FramesOK, Top
<1>5. /\ Len(frames') = n /\ \A j \in 1 .. n - 1 : frames'[j] = frames[j]
      /\ frames'[n].anchor_checked /\ frames'[n].passed = {}
      /\ frames'[n].anchor_yielded <=> AnchorMatches(path[n])
  <2>1. CASE AnchorMatches(path[n])
    <3>1. frames' = [frames EXCEPT ![n].anchor_checked = TRUE, ![n].anchor_yielded = TRUE]
      BY <1>2, <1>3, <2>1 DEF AnchorCheck, Top
    <3> QED
      BY <1>3, <1>4, <2>1, <3>1
  <2>2. CASE ~AnchorMatches(path[n])
    <3>1. frames' = [frames EXCEPT ![n].anchor_checked = TRUE]
      BY <1>2, <1>3, <2>2 DEF AnchorCheck, Top
    <3> QED
      BY <1>3, <1>4, <2>2, <3>1
  <2> QED
    BY <2>1, <2>2
<1> QED
  BY <1>1, <1>3, <1>4, <1>5

(* What backtracking does to the two stacks. *)
LEMMA LeaveShape ==
  ASSUME IInv, LeaveYieldedFrame \/ LeaveFrame
  PROVE  \E n \in Nat \ {0} :
           /\ Len(path) = n /\ Len(frames) = n /\ Last(path) = path[n]
           /\ Len(path') = n - 1 /\ Len(frames') = n - 1
           /\ \A j \in 1 .. n - 1 : path'[j] = path[j] /\ frames'[j] = frames[j]
<1>1. frames # <<>> /\ Backtrack
  BY DEF LeaveYieldedFrame, LeaveFrame, InsideFrame
<1>2. PICK n : n = Len(frames)
  OBVIOUS
<1>3. /\ path \in Seq(Cert) /\ path # <<>> /\ Len(path) = n /\ Len(frames) = n /\ n \in Nat \ {0}
      /\ frames \in Seq([passed : SUBSET Nat, anchor_checked : BOOLEAN, anchor_yielded : BOOLEAN])
      /\ Last(path) = path[n]
  BY <1>1, <1>2, Stacks
<1>4. /\ Len(path') = n - 1 /\ Len(frames') = n - 1
      /\ \A j \in 1 .. n - 1 : path'[j] = path[j] /\ frames'[j] = frames[j]
  BY <1>1, <1>3, FrontOfSeq DEF Backtrack
<1> QED
  BY <1>3, <1>4

(* Backtracking loses no chain within the depth limit. *)
LEMMA LeaveMoves ==
  ASSUME IInv, FramesOK(path, frames), LeaveYieldedFrame \/ LeaveFrame
  PROVE  Moves
<1>1. PICK n \in Nat \ {0} :
        /\ Len(path) = n /\ Len(frames) = n /\ Last(path) = path[n]
        /\ Len(path') = n - 1 /\ Len(frames') = n - 1
        /\ \A j \in 1 .. n - 1 : path'[j] = path[j] /\ frames'[j] = frames[j]
  BY LeaveShape
<1>2. max_depth \in Nat
  BY DEF IInv, TypeOK
<1>3. ASSUME NEW c, Chain(c), Len(c) <= max_depth + 1 PROVE ~At(path, frames, c, n)
  <2>1. Len(c) \in Nat
    BY <1>3 DEF Chain
  <2>2. CASE LeaveYieldedFrame
    <3>1. frames[n].anchor_yielded /\ n \in 1 .. n
      BY <1>1, <2>2 DEF LeaveYieldedFrame, Top
    <3>2. frames[n].anchor_checked
      BY <1>1, <3>1 DEF FramesOK
    <3> QED
      BY <3>1, <3>2, YieldedLeadsNowhere
  <2>3. CASE LeaveFrame
    <3>1. frames[n].anchor_checked
      BY <1>1, <2>3 DEF LeaveFrame, InsideFrame, Top
    <3>2. n > max_depth \/ {i \in DOMAIN pool : pool[i].subject = path[n].issuer} \ frames[n].passed = {}
      BY <1>1, <2>3 DEF LeaveFrame, DepthGate, Untried, Candidates, Top
    <3> QED
      BY <1>2, <1>3, <2>1, <3>1, <3>2, FinishedLeadsNowhere
  <2> QED
    BY <2>2, <2>3
<1>4. ASSUME NEW c, Chain(c), Len(c) <= max_depth + 1
      PROVE  Ahead(path', frames', c) <=> Ahead(path, frames, c)
  <2>1. ~At(path, frames, c, n)
    BY <1>3, <1>4
  <2> QED
    BY <1>1, <2>1, AheadBelow
<1>5. FramesOK(path', frames')
  <2>1. ASSUME NEW k \in 1 .. n - 1
        PROVE  /\ frames'[k] = frames[k] /\ path'[k] = path[k]
               /\ frames[k].anchor_checked /\ ~frames[k].anchor_yielded
               /\ frames[k].anchor_yielded <=> AnchorMatches(path[k])
    <3>1. k \in 1 .. Len(frames) /\ k < Len(frames)
      BY <1>1
    <3> QED
      BY <1>1, <3>1 DEF FramesOK
  <2> QED
    BY <1>1, <2>1 DEF FramesOK
<1> QED
  BY <1>4, <1>5 DEF Moves

(* Trying a candidate loses no chain: one that goes through it is ahead    *)
(* from the new frame, and there is none if it is passed over.             *)
LEMMA TryMoves ==
  ASSUME IInv, FramesOK(path, frames), TryCandidate
  PROVE  Moves
<1>1. PICK n \in Nat \ {0}, i \in DOMAIN pool :
        /\ Len(path) = n /\ Len(frames) = n
        /\ frames[n].anchor_checked /\ ~frames[n].anchor_yielded
        /\ i \notin frames[n].passed /\ pool[i].subject = path[n].issuer
        /\ \A j \in 1 .. n : path'[j] = path[j]
        /\ \A j \in 1 .. n - 1 : frames'[j] = frames[j]
        /\ frames'[n].anchor_checked /\ ~frames'[n].anchor_yielded
        /\ frames'[n].passed = frames[n].passed \cup {i}
        /\ \/ /\ CertIsCa(pool[i]) /\ ~SpkiAlreadyInPath(pool[i], path)
              /\ Len(frames') = n + 1 /\ frames'[n + 1] = NewFrame /\ path'[n + 1] = pool[i]
           \/ /\ ~(CertIsCa(pool[i]) /\ ~SpkiAlreadyInPath(pool[i], path))
              /\ Len(frames') = n
  BY TryShape
<1>2. path \in Seq(Cert)
  BY DEF IInv, TypeOK
<1>3. NewFrame.passed = {} /\ ~NewFrame.anchor_checked /\ ~NewFrame.anchor_yielded
  BY DEF NewFrame
<1>4. ASSUME NEW c, Chain(c) PROVE Ahead(path', frames', c) <=> Ahead(path, frames, c)
  <2>1. \/ /\ CertIsCa(pool[i]) /\ ~SpkiAlreadyInPath(pool[i], path)
           /\ Len(frames') = n + 1 /\ ~frames'[n + 1].anchor_checked /\ path'[n + 1] = pool[i]
        \/ /\ ~(CertIsCa(pool[i]) /\ ~SpkiAlreadyInPath(pool[i], path))
           /\ Len(frames') = n
    BY <1>1, <1>3
  <2> QED
    BY <1>1, <1>2, <1>4, <2>1, AheadOnCandidate
<1>5. FramesOK(path', frames')
  <2>1. ASSUME NEW k \in 1 .. n
        PROVE  /\ frames'[k].anchor_checked /\ ~frames'[k].anchor_yielded
               /\ ~AnchorMatches(path'[k])
    <3>1. k \in 1 .. n - 1 \/ k = n
      OBVIOUS
    <3>2. frames[k].anchor_checked /\ ~frames[k].anchor_yielded
      BY <1>1, <3>1 DEF FramesOK
    <3>3. ~AnchorMatches(path[k])
      BY <1>1, <3>2 DEF FramesOK
    <3> QED
      BY <1>1, <3>1, <3>2, <3>3
  <2>2. CASE Len(frames') = n
    BY <2>1, <2>2 DEF FramesOK
  <2>3. CASE Len(frames') = n + 1 /\ frames'[n + 1] = NewFrame
    <3>1. \A k \in 1 .. n + 1 : k = n + 1 \/ (k \in 1 .. n /\ k < n + 1)
      OBVIOUS
    <3> QED
      BY <1>3, <2>1, <2>3, <3>1 DEF FramesOK
  <2> QED
    BY <1>1, <2>2, <2>3
<1> QED
  BY <1>4, <1>5 DEF Moves

(* The path is a chain. *)
LEMMA PathIsChain ==
  ASSUME IInv, FramesOK(path, frames), frames # <<>>
  PROVE  Chain(path) /\ Len(path) <= max_depth + 1
<1>1. PICK n : n = Len(frames)
  OBVIOUS
<1>2. /\ path \in Seq(Cert) /\ Len(path) = n /\ n \in Nat \ {0}
      /\ Topological(path) /\ Len(path) <= max_depth + 1
  BY <1>1, Stacks
<1>3. ASSUME NEW k \in 1 .. n - 1 PROVE ~AnchorMatches(path[k])
  <2>1. k \in 1 .. Len(frames) /\ k < Len(frames)
    BY <1>1, <1>2
  <2> QED
    BY <2>1 DEF FramesOK
<1> QED
  BY <1>2, <1>3 DEF Chain

(* Entering a frame, the search is at the path. *)
LEMMA PathAhead ==
  ASSUME IInv, FramesOK(path, frames), EnteringFrame
  PROVE  Chain(path) /\ Len(path) <= max_depth + 1 /\ Ahead(path, frames, path)
<1>1. frames # <<>> /\ ~frames[Top].anchor_checked
  BY DEF EnteringFrame
<1>2. PICK n : n = Len(frames)
  OBVIOUS
<1>3. Len(path) = n /\ n \in Nat \ {0}
  BY <1>1, <1>2, Stacks
<1>4. At(path, frames, path, n)
  BY <1>1, <1>2, <1>3 DEF At, Top
<1> QED
  BY <1>1, <1>2, <1>3, <1>4, PathIsChain DEF Ahead

(* The anchor check, in a frame that was new. *)
LEMMA CheckMoves ==
  ASSUME IInv, FramesOK(path, frames), AnchorCheck
  PROVE  /\ FramesOK(path', frames') /\ path' = path
         /\ Chain(path) /\ Len(path) <= max_depth + 1 /\ Ahead(path, frames, path)
         /\ \A c : Chain(c) /\ c # path => (Ahead(path', frames', c) <=> Ahead(path, frames, c))
<1>1. PICK n \in Nat \ {0} :
        /\ Len(path) = n /\ Len(frames) = n /\ path' = path
        /\ ~frames[n].anchor_checked /\ frames[n].passed = {} /\ ~frames[n].anchor_yielded
        /\ Len(frames') = n /\ \A j \in 1 .. n - 1 : frames'[j] = frames[j]
        /\ frames'[n].anchor_checked /\ frames'[n].passed = {}
        /\ frames'[n].anchor_yielded <=> AnchorMatches(path[n])
  BY CheckShape
<1>2. frames # <<>>
  BY DEF AnchorCheck, EnteringFrame
<1>3. path \in Seq(Cert) /\ Topological(path) /\ Len(path) <= max_depth + 1
  BY <1>2, Stacks
<1>4. ASSUME NEW k \in 1 .. n - 1
      PROVE  frames[k].anchor_checked /\ ~frames[k].anchor_yielded /\ ~AnchorMatches(path[k])
  <2>1. k \in 1 .. Len(frames) /\ k < Len(frames)
    BY <1>1
  <2> QED
    BY <2>1 DEF FramesOK
<1>5. Chain(path) /\ Ahead(path, frames, path)
  BY PathAhead DEF AnchorCheck
<1>6. ASSUME NEW c, Chain(c), c # path PROVE Ahead(path', frames', c) <=> Ahead(path, frames, c)
  <2>1. TypeOK
    BY DEF IInv
  <2> QED
    BY <1>1, <1>3, <1>6, <2>1, AheadOnCheck
<1>7. FramesOK(path', frames')
  <2>1. \A k \in 1 .. n : k = n \/ (k \in 1 .. n - 1 /\ k < n)
    OBVIOUS
  <2> QED
    BY <1>1, <1>4, <2>1 DEF FramesOK
<1> QED
  BY <1>1, <1>3, <1>5, <1>6, <1>7

(* No chain of the permitted length ends below an anchor. *)
Nothing == \A c : Chain(c) /\ Len(c) <= config.max_depth + 1 => ~Ends(c)

Handed(c) == \E m \in DOMAIN yields : yields[m] = c

(* Nothing is missed: a chain to an anchor is still ahead, or was handed   *)
(* out.                                                                    *)
AheadInv ==
  pc \in {"search", "none"} \/ (pc = "yielded" /\ ~probing) =>
    \A c : Chain(c) /\ Len(c) <= max_depth + 1 /\ Ends(c) =>
             Ahead(path, frames, c) \/ (~probing /\ Handed(c))

FrameInv == FramesOK(path, frames) /\ (pc = "none" => frames = <<>>)

YieldInv ==
  /\ \A c : Handed(c) => Chain(c)
  /\ pc = "yielded" /\ ~probing => yields # <<>> /\ yields[Len(yields)] = path

(* How the callers use the search. *)
CallInv ==
  /\ probing => yields = <<>> /\ max_depth = config.max_depth + 1 /\ Nothing
  /\ api = "build_path" /\ pc \in {"search", "none"} => yields = <<>>
  /\ api = "first_valid" /\ pc \in {"search", "none"} =>
       tried = Len(yields) /\ \A m \in DOMAIN yields : ~ValidatePath(yields[m], anchors)
  /\ api = "first_valid" /\ pc = "yielded" /\ ~probing =>
       tried + 1 = Len(yields) /\ \A m \in 1 .. Len(yields) - 1 : ~ValidatePath(yields[m], anchors)

Refused(c) == ~ValidatePath(c, anchors)

(* What a call that is over has found. *)
VerdictInv ==
  pc = "returned" =>
    /\ api = "first_valid" /\ result = "Ok" =>
         /\ ValidatePath(path, anchors)
         /\ \A m \in 1 .. Len(yields) - 1 : ~ValidatePath(yields[m], anchors)
    /\ result = "NoValidPath" =>
         /\ ~Nothing
         /\ \A c : Chain(c) /\ Len(c) <= config.max_depth + 1 /\ Ends(c) => Refused(c)
    /\ result \in {"NoPathFound", "DepthExceeded"} => Nothing

SInv == AheadInv /\ FrameInv /\ YieldInv /\ CallInv /\ VerdictInv

(* A search begins with everything ahead. *)
LEMMA StartAhead ==
  ASSUME target \in Cert
  PROVE  /\ FramesOK(<<target>>, <<NewFrame>>)
         /\ \A c : Chain(c) => Ahead(<<target>>, <<NewFrame>>, c)
<1>1. /\ <<target>>[1] = target /\ Len(<<NewFrame>>) = 1 /\ <<NewFrame>>[1] = NewFrame
      /\ \A k \in 1 .. 1 : k = 1
  OBVIOUS
<1>2. ~NewFrame.anchor_checked /\ ~NewFrame.anchor_yielded /\ NewFrame.passed = {}
  BY DEF NewFrame
<1>3. ASSUME NEW c, Chain(c) PROVE At(<<target>>, <<NewFrame>>, c, 1)
  <2>1. c \in Seq(Cert) /\ c # <<>> /\ c[1] = target
    BY <1>3 DEF Chain, Topological
  <2>2. Len(c) \in Nat /\ 1 <= Len(c)
    BY <2>1, EmptySeq
  <2>3. \A j \in 1 .. 1 : c[j] = <<target>>[j]
    BY <1>1, <2>1
  <2>4. ~(<<NewFrame>>[1]).anchor_checked
    BY <1>1, <1>2
  <2> QED
    BY <2>2, <2>3, <2>4 DEF At
<1>4. FramesOK(<<target>>, <<NewFrame>>)
  BY <1>1, <1>2 DEF FramesOK
<1> QED
  BY <1>1, <1>3, <1>4 DEF Ahead

(* An empty stack leads nowhere. *)
LEMMA EmptyLeadsNowhere ==
  ASSUME NEW p, NEW f, NEW c, f = <<>>
  PROVE  ~Ahead(p, f, c)
  BY DEF Ahead

(* The first search begins. *)
LEMMA InitSInv == Init => SInv
<1> SUFFICES ASSUME Init PROVE SInv
  OBVIOUS
<1>1. target \in Cert
  BY InputsAssumption DEF Init
<1>2. /\ path = <<target>> /\ frames = <<NewFrame>> /\ yields = <<>>
      /\ pc = "search" /\ probing = FALSE /\ tried = 0
  BY DEF Init
<1>3. AheadInv /\ FrameInv
  BY <1>1, <1>2, StartAhead DEF AheadInv, FrameInv
<1>4. YieldInv /\ CallInv /\ VerdictInv
  BY <1>2 DEF YieldInv, Handed, CallInv, VerdictInv
<1> QED
  BY <1>3, <1>4 DEF SInv

(* What the chains, the yields and the verdicts of validate_path are worth *)
(* does not change with the state of the search.                           *)
LEMMA WorthStays ==
  ASSUME UNCHANGED inputs
  PROVE  /\ Nothing' <=> Nothing
         /\ config' = config /\ api' = api /\ anchors' = anchors /\ target' = target /\ pool' = pool
         /\ \A c : Refused(c)' <=> Refused(c)
<1>1. config' = config /\ api' = api /\ anchors' = anchors /\ target' = target /\ pool' = pool
  BY DEF inputs
<1>2. Nothing' <=> Nothing
  BY <1>1, ChainsStay DEF Nothing
<1> QED
  BY <1>1, <1>2 DEF Refused

(* A step of the search that is no anchor check. *)
LEMMA MoveSInv ==
  ASSUME IInv, SInv, LeaveYieldedFrame \/ LeaveFrame \/ TryCandidate
  PROVE  SInv'
<1>1. UNCHANGED inputs /\ UNCHANGED <<max_depth, pc, probing, tried, result, yields>> /\ pc = "search"
  BY DEF LeaveYieldedFrame, LeaveFrame, TryCandidate, InsideFrame
<1>2. Moves
  BY LeaveMoves, TryMoves DEF SInv, FrameInv
<1>3. /\ Nothing' <=> Nothing
      /\ config' = config /\ api' = api /\ anchors' = anchors
  BY <1>1, WorthStays
<1>4. AheadInv'
  <2> SUFFICES ASSUME NEW c, Chain(c)', Len(c) <= max_depth' + 1, Ends(c)'
               PROVE  Ahead(path, frames, c)' \/ (~probing' /\ Handed(c)')
    BY DEF AheadInv
  <2>1. Chain(c) /\ Ends(c) /\ Len(c) <= max_depth + 1
    BY <1>1, ChainsStay
  <2>2. Ahead(path, frames, c) \/ (~probing /\ Handed(c))
    BY <1>1, <2>1 DEF SInv, AheadInv
  <2>3. Ahead(path', frames', c) <=> Ahead(path, frames, c)
    BY <1>2, <2>1 DEF Moves
  <2>4. Handed(c)' <=> Handed(c)
    BY <1>1 DEF Handed
  <2> QED
    BY <1>1, <2>2, <2>3, <2>4, ChainsStay
<1>5. FrameInv'
  BY <1>1, <1>2, ChainsStay DEF FrameInv, Moves
<1>6. YieldInv'
  BY <1>1, ChainsStay DEF SInv, YieldInv, Handed
<1>7. CallInv' /\ VerdictInv'
  BY <1>1, <1>3 DEF SInv, CallInv, VerdictInv
<1> QED
  BY <1>4, <1>5, <1>6, <1>7 DEF SInv

(* The anchor check hands out the path, if an anchor names its top issuer. *)
LEMMA CheckSInv ==
  ASSUME IInv, SInv, AnchorCheck
  PROVE  SInv'
<1>1. /\ UNCHANGED inputs /\ UNCHANGED <<path, max_depth, probing, tried, result>> /\ pc = "search"
  BY DEF AnchorCheck, EnteringFrame
<1>2. /\ FramesOK(path', frames') /\ path' = path
      /\ Chain(path) /\ Len(path) <= max_depth + 1
      /\ \A c : Chain(c) /\ c # path => (Ahead(path', frames', c) <=> Ahead(path, frames, c))
  BY CheckMoves DEF SInv, FrameInv
<1>3. /\ Nothing' <=> Nothing
      /\ config' = config /\ api' = api /\ anchors' = anchors
  BY <1>1, WorthStays
<1>4. yields \in Seq(Seq(Cert)) /\ path \in Seq(Cert) /\ Len(yields) \in Nat /\ tried \in Nat
  BY DEF IInv, TypeOK
<1>5. CASE Ends(path)
  <2>1. pc' = "yielded" /\ yields' = IF probing THEN yields ELSE Append(yields, path)
    BY <1>5 DEF AnchorCheck, Ends
  <2>2. ASSUME ~probing
        PROVE  /\ yields' = Append(yields, path) /\ Len(yields') = Len(yields) + 1
               /\ yields'[Len(yields')] = path /\ yields' # <<>>
               /\ DOMAIN yields' = 1 .. Len(yields) + 1
               /\ \A m \in 1 .. Len(yields) : yields'[m] = yields[m]
    BY <1>4, <2>1, <2>2
  <2>3. AheadInv'
    <3> SUFFICES ASSUME ~probing, NEW c, Chain(c)', Len(c) <= max_depth' + 1, Ends(c)'
                 PROVE  Ahead(path, frames, c)' \/ Handed(c)'
      BY <1>1, <2>1 DEF AheadInv
    <3>1. Chain(c) /\ Ends(c) /\ Len(c) <= max_depth + 1
      BY <1>1, ChainsStay
    <3>2. CASE c = path
      <4>1. Len(yields) + 1 \in DOMAIN yields' /\ yields'[Len(yields) + 1] = c
        BY <1>4, <2>2, <3>2
      <4> QED
        BY <4>1 DEF Handed
    <3>3. CASE c # path
      <4>1. Ahead(path, frames, c) \/ Handed(c)
        BY <1>1, <3>1 DEF SInv, AheadInv
      <4>2. Handed(c) => Handed(c)'
        <5> SUFFICES ASSUME NEW m \in DOMAIN yields, yields[m] = c PROVE Handed(c)'
          BY DEF Handed
        <5>1. m \in 1 .. Len(yields) /\ m \in 1 .. Len(yields) + 1
          BY <1>4
        <5>2. yields'[m] = c /\ m \in DOMAIN yields'
          BY <2>2, <5>1
        <5> QED
          BY <5>2 DEF Handed
      <4> QED
        BY <1>1, <1>2, <3>1, <3>3, <4>1, <4>2, ChainsStay
    <3> QED
      BY <3>2, <3>3
  <2>4. FrameInv'
    BY <1>1, <1>2, <2>1, ChainsStay DEF FrameInv
  <2>5. YieldInv'
    <3>1. ASSUME NEW c, Handed(c)' PROVE Chain(c)'
      <4>1. PICK m \in DOMAIN yields' : yields'[m] = c
        BY <3>1 DEF Handed
      <4>2. Chain(c)
        <5>1. CASE probing
          BY <2>1, <4>1, <5>1 DEF SInv, YieldInv, Handed
        <5>2. CASE ~probing
          <6>1. m \in 1 .. Len(yields) \/ m = Len(yields) + 1
            BY <1>4, <2>2, <5>2
          <6>2. CASE m \in 1 .. Len(yields)
            <7>1. m \in DOMAIN yields /\ yields[m] = c
              BY <1>4, <2>2, <4>1, <5>2, <6>2
            <7> QED
              BY <7>1 DEF SInv, YieldInv, Handed
          <6>3. CASE m = Len(yields) + 1
            BY <1>2, <2>2, <4>1, <5>2, <6>3
          <6> QED
            BY <6>1, <6>2, <6>3
        <5> QED
          BY <5>1, <5>2
      <4> QED
        BY <1>1, <4>2, ChainsStay
    <3>3. (pc' = "yielded" /\ ~probing') => yields' # <<>> /\ yields'[Len(yields')] = path'
      BY <1>1, <2>2
    <3> QED
      BY <3>1, <3>3 DEF YieldInv
  <2>6. CallInv'
    <3>1. CASE probing
      BY <1>1, <1>3, <2>1, <3>1 DEF SInv, CallInv
    <3>2. CASE ~probing
      <4>1. ASSUME api = "first_valid"
            PROVE  tried' + 1 = Len(yields') /\ \A m \in 1 .. Len(yields') - 1 : ~ValidatePath(yields'[m], anchors')
        <5>1. tried = Len(yields) /\ \A m \in DOMAIN yields : ~ValidatePath(yields[m], anchors)
          BY <1>1, <4>1 DEF SInv, CallInv
        <5>2. ASSUME NEW m \in 1 .. Len(yields') - 1 PROVE ~ValidatePath(yields'[m], anchors')
          <6>0. Len(yields') = Len(yields) + 1 /\ \A k \in 1 .. Len(yields) : yields'[k] = yields[k]
            BY <2>2, <3>2
          <6>1. m \in 1 .. Len(yields) /\ DOMAIN yields = 1 .. Len(yields)
            BY <1>4, <6>0
          <6>2. m \in DOMAIN yields /\ yields'[m] = yields[m]
            BY <6>0, <6>1
          <6> QED
            BY <1>3, <5>1, <6>2
        <5> QED
          BY <1>1, <1>4, <2>2, <3>2, <5>1, <5>2
      <4> QED
        BY <1>1, <1>3, <2>1, <3>2, <4>1 DEF CallInv
    <3> QED
      BY <3>1, <3>2
  <2>7. VerdictInv'
    BY <2>1 DEF VerdictInv
  <2> QED
    BY <2>3, <2>4, <2>5, <2>6, <2>7 DEF SInv
<1>6. CASE ~Ends(path)
  <2>1. pc' = pc /\ yields' = yields
    BY <1>6 DEF AnchorCheck, Ends
  <2>2. AheadInv'
    <3> SUFFICES ASSUME NEW c, Chain(c)', Len(c) <= max_depth' + 1, Ends(c)'
                 PROVE  Ahead(path, frames, c)' \/ (~probing' /\ Handed(c)')
      BY DEF AheadInv
    <3>1. Chain(c) /\ Ends(c) /\ Len(c) <= max_depth + 1
      BY <1>1, ChainsStay
    <3>2. Ahead(path, frames, c) \/ (~probing /\ Handed(c))
      BY <1>1, <3>1 DEF SInv, AheadInv
    <3>3. c # path
      BY <1>6, <3>1
    <3>4. Handed(c)' <=> Handed(c)
      BY <2>1 DEF Handed
    <3> QED
      BY <1>1, <1>2, <3>1, <3>2, <3>3, <3>4, ChainsStay
  <2>3. FrameInv'
    BY <1>1, <1>2, <2>1, ChainsStay DEF FrameInv
  <2>4. YieldInv'
    BY <1>1, <2>1, ChainsStay DEF SInv, YieldInv, Handed
  <2>5. CallInv' /\ VerdictInv'
    BY <1>1, <1>3, <2>1 DEF SInv, CallInv, VerdictInv
  <2> QED
    BY <2>2, <2>3, <2>4, <2>5 DEF SInv
<1> QED
  BY <1>5, <1>6

(* A step that neither moves the search nor hands out a chain. *)
LEMMA StandSInv ==
  ASSUME IInv, SInv, UNCHANGED <<inputs, search, probing, yields>>,
         AheadInv', CallInv', VerdictInv',
         pc' = "none" => frames = <<>>, pc' = "yielded" => pc = "yielded"
  PROVE  SInv'
<1>1. /\ UNCHANGED inputs /\ path' = path /\ frames' = frames /\ yields' = yields /\ probing' = probing
  BY DEF search
<1>2. FrameInv'
  BY <1>1, ChainsStay DEF SInv, FrameInv
<1>3. YieldInv'
  BY <1>1, ChainsStay DEF SInv, YieldInv, Handed
<1> QED
  BY <1>2, <1>3 DEF SInv

(* Everything that is ahead, or handed out, stays so.                      *)
LEMMA AheadStays ==
  ASSUME SInv, UNCHANGED <<inputs, search, probing, yields>>,
         pc \in {"search", "none"} \/ (pc = "yielded" /\ ~probing)
  PROVE  AheadInv'
<1>1. /\ UNCHANGED inputs /\ path' = path /\ frames' = frames /\ yields' = yields
      /\ probing' = probing /\ max_depth' = max_depth
  BY DEF search
<1> SUFFICES ASSUME NEW c, Chain(c)', Len(c) <= max_depth' + 1, Ends(c)'
             PROVE  Ahead(path, frames, c)' \/ (~probing' /\ Handed(c)')
  BY DEF AheadInv
<1>2. Chain(c) /\ Ends(c) /\ Len(c) <= max_depth + 1
  BY <1>1, ChainsStay
<1>3. Ahead(path, frames, c) \/ (~probing /\ Handed(c))
  BY <1>2 DEF SInv, AheadInv
<1> QED
  BY <1>1, <1>3, ChainsStay DEF Handed

(* The search is over with an empty stack. *)
LEMMA ExhaustedSInv == IInv /\ SInv /\ Exhausted => SInv'
<1> SUFFICES ASSUME IInv, SInv, Exhausted PROVE SInv'
  OBVIOUS
<1>1. /\ UNCHANGED <<inputs, search, probing, yields>> /\ UNCHANGED inputs
      /\ UNCHANGED <<tried, result, max_depth, probing, yields>>
      /\ pc = "search" /\ pc' = "none" /\ frames = <<>>
  BY DEF Exhausted, search
<1>2. (Nothing' <=> Nothing) /\ config' = config /\ api' = api /\ anchors' = anchors
  BY <1>1, WorthStays
<1>3. AheadInv'
  BY <1>1, AheadStays
<1>4. CallInv' /\ VerdictInv'
  BY <1>1, <1>2 DEF SInv, CallInv, VerdictInv
<1> QED
  BY <1>1, <1>3, <1>4, StandSInv

(* The budget runs out: no verdict on what there is. *)
LEMMA OutOfBudgetSInv == IInv /\ SInv /\ OutOfBudget => SInv'
<1> SUFFICES ASSUME IInv, SInv, OutOfBudget PROVE SInv'
  OBVIOUS
<1>1. /\ UNCHANGED <<inputs, search, probing, yields>> /\ UNCHANGED inputs
      /\ UNCHANGED <<tried, max_depth, probing, yields>>
      /\ pc' = "returned" /\ result' = "BudgetExceeded" /\ pc = "search"
  BY DEF OutOfBudget, EnteringFrame, search
<1>2. (Nothing' <=> Nothing) /\ config' = config /\ api' = api /\ anchors' = anchors
  BY <1>1, WorthStays
<1>3. AheadInv'
  BY <1>1, AheadStays
<1>4. CallInv' /\ VerdictInv'
  BY <1>1, <1>2 DEF SInv, CallInv, VerdictInv
<1> QED
  BY <1>1, <1>3, <1>4, StandSInv

(* A caller of the bare iterator resumes it or stops, and build_path takes *)
(* the first chain: no verdict on what else there is.                      *)
LEMMA CallerSInv ==
  ASSUME IInv, SInv, ResumeCandidates \/ StopCandidates \/ BuildPathYield
  PROVE  SInv'
<1>1. /\ UNCHANGED <<inputs, search, probing, yields>> /\ UNCHANGED inputs
      /\ UNCHANGED <<tried, max_depth, probing, yields>>
      /\ api # "first_valid" /\ ~probing
      /\ \/ pc' = "returned" /\ result' \in {"Ok", "None"}
         \/ pc' = "search" /\ api = "candidates"
      /\ pc \in {"yielded", "none"}
  BY DEF ResumeCandidates, StopCandidates, BuildPathYield, Return, search, IInv, SearchInv
<1>2. (Nothing' <=> Nothing) /\ config' = config /\ api' = api /\ anchors' = anchors
  BY <1>1, WorthStays
<1>3. AheadInv'
  BY <1>1, AheadStays
<1>4. CallInv' /\ VerdictInv'
  BY <1>1, <1>2 DEF SInv, CallInv, VerdictInv
<1> QED
  BY <1>1, <1>3, <1>4, StandSInv

(* build_first_valid_path looks at the chain it was given. *)
LEMMA FirstValidYieldSInv == IInv /\ SInv /\ FirstValidYield => SInv'
<1> SUFFICES ASSUME IInv, SInv, FirstValidYield PROVE SInv'
  OBVIOUS
<1>1. /\ UNCHANGED <<inputs, search, probing, yields>> /\ UNCHANGED inputs
      /\ UNCHANGED <<path, max_depth, probing, yields>>
      /\ api = "first_valid" /\ ~probing /\ pc = "yielded" /\ pc' \in {"search", "returned"}
  BY DEF FirstValidYield, Return, search
<1>2. (Nothing' <=> Nothing) /\ config' = config /\ api' = api /\ anchors' = anchors
  BY <1>1, WorthStays
<1>3. AheadInv'
  BY <1>1, AheadStays
<1>4. /\ yields \in Seq(Seq(Cert)) /\ Len(yields) \in Nat /\ tried \in Nat
      /\ yields # <<>> /\ yields[Len(yields)] = path
      /\ tried + 1 = Len(yields) /\ \A m \in 1 .. Len(yields) - 1 : ~ValidatePath(yields[m], anchors)
  BY <1>1 DEF SInv, YieldInv, CallInv, IInv, TypeOK
<1>5. CASE ValidatePath(path, anchors)
  <2>1. pc' = "returned" /\ result' = "Ok" /\ tried' = tried
    BY <1>5 DEF FirstValidYield, Return
  <2>2. CallInv' /\ VerdictInv'
    BY <1>1, <1>2, <1>4, <1>5, <2>1 DEF CallInv, VerdictInv
  <2> QED
    BY <1>1, <1>3, <2>2, StandSInv
<1>6. CASE ~ValidatePath(path, anchors)
  <2>1. pc' = "search" /\ tried' = tried + 1
    BY <1>6 DEF FirstValidYield
  <2>2. ASSUME NEW m \in DOMAIN yields PROVE ~ValidatePath(yields[m], anchors)
    <3>1. m \in 1 .. Len(yields) - 1 \/ m = Len(yields)
      BY <1>4
    <3> QED
      BY <1>4, <1>6, <3>1
  <2>3. CallInv' /\ VerdictInv'
    BY <1>1, <1>2, <1>4, <2>1, <2>2 DEF CallInv, VerdictInv
  <2> QED
    BY <1>1, <1>3, <2>1, <2>3, StandSInv
<1> QED
  BY <1>5, <1>6

(* With the stack empty, every chain to an anchor was handed out. *)
LEMMA AllHanded ==
  ASSUME SInv, pc = "none", NEW c, Chain(c), Len(c) <= max_depth + 1, Ends(c)
  PROVE  ~probing /\ Handed(c)
<1>1. ~Ahead(path, frames, c)
  BY EmptyLeadsNowhere DEF SInv, FrameInv
<1> QED
  BY <1>1 DEF SInv, AheadInv

(* Every chain was handed out, and refused. *)
LEMMA RejectedAllSInv == IInv /\ SInv /\ FirstValidRejectedAll => SInv'
<1> SUFFICES ASSUME IInv, SInv, FirstValidRejectedAll PROVE SInv'
  OBVIOUS
<1>1. /\ UNCHANGED <<inputs, search, probing, yields>> /\ UNCHANGED inputs
      /\ UNCHANGED <<path, max_depth, probing, yields>>
      /\ api = "first_valid" /\ ~probing /\ pc = "none" /\ pc' = "returned"
      /\ tried > 0 /\ tried' = tried /\ result' = "NoValidPath"
  BY DEF FirstValidRejectedAll, Return, search
<1>2. (Nothing' <=> Nothing) /\ config' = config /\ api' = api /\ anchors' = anchors
  BY <1>1, WorthStays
<1>3. AheadInv'
  BY <1>1, AheadStays
<1>4. /\ max_depth = config.max_depth /\ yields \in Seq(Seq(Cert)) /\ Len(yields) \in Nat
      /\ tried = Len(yields) /\ \A m \in DOMAIN yields : ~ValidatePath(yields[m], anchors)
  BY <1>1 DEF SInv, CallInv, IInv, TypeOK, SearchInv
<1>5. ~Nothing
  <2>1. 1 \in DOMAIN yields
    BY <1>1, <1>4
  <2>2. GoodChain(yields[1]) /\ Handed(yields[1])
    BY <2>1 DEF IInv, YieldsAreGoodChains, Handed
  <2>3. Chain(yields[1])
    BY <2>2 DEF SInv, YieldInv
  <2> QED
    BY <2>2, <2>3 DEF Nothing, GoodChain, Ends
<1>6. ASSUME NEW c, Chain(c), Len(c) <= config.max_depth + 1, Ends(c)
      PROVE  Refused(c)
  BY <1>1, <1>4, <1>6, AllHanded DEF Handed, Refused
<1>7. CallInv'
  BY <1>1, <1>2 DEF CallInv, SInv
<1>8. VerdictInv'
  <2>1. ASSUME NEW c, Chain(c)', Len(c) <= config'.max_depth + 1, Ends(c)'
        PROVE  Refused(c)'
    <3>1. Chain(c) /\ Ends(c)
      BY <1>1, <2>1, ChainsStay
    <3> QED
      BY <1>1, <1>2, <1>6, <2>1, <3>1, WorthStays
  <2> QED
    BY <1>1, <1>2, <1>5, <2>1 DEF VerdictInv
<1> QED
  BY <1>1, <1>3, <1>7, <1>8, StandSInv

(* The probe begins when the search found nothing. *)
LEMMA StartProbeSInv == IInv /\ SInv /\ StartProbe => SInv'
<1> SUFFICES ASSUME IInv, SInv, StartProbe PROVE SInv'
  OBVIOUS
<1>1. /\ UNCHANGED inputs /\ UNCHANGED <<tried, result, yields>>
      /\ pc = "none" /\ pc' = "search" /\ ~probing /\ probing' /\ tried = 0
      /\ api \in {"build_path", "first_valid"}
      /\ path' = <<target>> /\ frames' = <<NewFrame>> /\ max_depth' = config.max_depth + 1
  BY DEF StartProbe, StartSearch, ProbeDepth
<1>2. (Nothing' <=> Nothing) /\ config' = config /\ api' = api /\ anchors' = anchors
  BY <1>1, WorthStays
<1>3. /\ target \in Cert /\ max_depth = config.max_depth
      /\ yields \in Seq(Seq(Cert)) /\ Len(yields) \in Nat
  BY <1>1, InputsAssumption DEF IInv, TypeOK, SearchInv
<1>4. yields = <<>>
  <2>1. api = "first_valid" => Len(yields) = 0
    BY <1>1 DEF SInv, CallInv
  <2>2. api = "build_path" => yields = <<>>
    BY <1>1 DEF SInv, CallInv
  <2> QED
    BY <1>1, <1>3, <2>1, <2>2, EmptySeq
<1>5. Nothing
  <2> SUFFICES ASSUME NEW c, Chain(c), Len(c) <= config.max_depth + 1, Ends(c) PROVE FALSE
    BY DEF Nothing
  <2>1. Handed(c)
    BY <1>1, <1>3, AllHanded
  <2> QED
    BY <1>4, <2>1 DEF Handed
<1>6. /\ FramesOK(path', frames')
      /\ \A c : Chain(c) => Ahead(path', frames', c)
  BY <1>1, <1>3, StartAhead
<1>7. AheadInv' /\ FrameInv'
  BY <1>1, <1>6, ChainsStay DEF AheadInv, FrameInv
<1>8. YieldInv' /\ CallInv' /\ VerdictInv'
  BY <1>1, <1>2, <1>4, <1>5 DEF YieldInv, Handed, CallInv, VerdictInv
<1> QED
  BY <1>7, <1>8 DEF SInv

(* The probe's answer is about deeper chains; the shorter ones are known   *)
(* not to exist.                                                           *)
LEMMA FinishProbeSInv == IInv /\ SInv /\ FinishProbe => SInv'
<1> SUFFICES ASSUME IInv, SInv, FinishProbe PROVE SInv'
  OBVIOUS
<1>1. /\ UNCHANGED <<inputs, search, probing, yields>> /\ UNCHANGED inputs
      /\ UNCHANGED <<path, max_depth, probing, yields>>
      /\ probing /\ pc' = "returned" /\ tried' = tried
      /\ result' \in {"DepthExceeded", "NoPathFound"}
  BY DEF FinishProbe, Return, search
<1>2. (Nothing' <=> Nothing) /\ config' = config /\ api' = api /\ anchors' = anchors
  BY <1>1, WorthStays
<1>3. AheadInv'
  BY <1>1 DEF AheadInv
<1>4. CallInv' /\ VerdictInv'
  BY <1>1, <1>2 DEF SInv, CallInv, VerdictInv
<1> QED
  BY <1>1, <1>3, <1>4, StandSInv

LEMMA NextSInv == IInv /\ SInv /\ [Next]_vars => SInv'
<1> SUFFICES ASSUME IInv, SInv, [Next]_vars PROVE SInv'
  OBVIOUS
<1>1. CASE Exhausted
  BY <1>1, ExhaustedSInv
<1>2. CASE LeaveYieldedFrame \/ LeaveFrame \/ TryCandidate
  BY <1>2, MoveSInv
<1>3. CASE OutOfBudget
  BY <1>3, OutOfBudgetSInv
<1>4. CASE AnchorCheck
  BY <1>4, CheckSInv
<1>5. CASE ResumeCandidates \/ StopCandidates \/ BuildPathYield
  BY <1>5, CallerSInv
<1>6. CASE FirstValidYield
  BY <1>6, FirstValidYieldSInv
<1>7. CASE FirstValidRejectedAll
  BY <1>7, RejectedAllSInv
<1>8. CASE StartProbe
  BY <1>8, StartProbeSInv
<1>9. CASE FinishProbe
  BY <1>9, FinishProbeSInv
<1>10. CASE UNCHANGED vars
  <2>1. /\ UNCHANGED <<inputs, search, probing, yields>> /\ UNCHANGED inputs
        /\ UNCHANGED <<pc, path, frames, max_depth, probing, tried, result, yields>>
    BY <1>10 DEF vars, search
  <2>2. (Nothing' <=> Nothing) /\ config' = config /\ api' = api /\ anchors' = anchors
    BY <2>1, WorthStays
  <2>3. AheadInv'
    BY <2>1, AheadStays DEF AheadInv
  <2>4. CallInv'
    BY <2>1, <2>2 DEF SInv, CallInv
  <2>5. VerdictInv'
    <3>1. \A c : (Chain(c)' <=> Chain(c)) /\ (Ends(c)' <=> Ends(c)) /\ (Refused(c)' <=> Refused(c))
      BY <2>1, ChainsStay, WorthStays
    <3> QED
      BY <2>1, <2>2, <3>1 DEF SInv, VerdictInv
  <2>6. pc' = "none" => frames = <<>>
    BY <2>1 DEF SInv, FrameInv
  <2> QED
    BY <2>1, <2>3, <2>4, <2>5, <2>6, StandSInv
<1> QED
  BY <1>1, <1>2, <1>3, <1>4, <1>5, <1>6, <1>7, <1>8, <1>9, <1>10
     DEF Next, SearchStep, CallerStep, Done

(* The chains of the reference definitions are those of the argument. *)
LEMMA ChainsAre ==
  ASSUME TypeOK, NEW d \in Nat, NEW c
  PROVE  /\ c \in Explorable(d) <=> Chain(c) /\ Len(c) <= d + 1
         /\ c \in Reachable(d) <=> Chain(c) /\ Ends(c) /\ Len(c) <= d + 1
<1>1. target \in Cert /\ pool \in Seq(Cert) /\ Pooled \subseteq Cert
  BY InputsAssumption, ElementOfSeq DEF TypeOK, Pooled
<1>2. ASSUME NEW n \in 0 .. d, NEW above \in [1 .. n -> Pooled], c = <<target>> \o above
      PROVE  c \in Seq(Cert) /\ Len(c) <= d + 1
  <2>1. above \in Seq(Cert) /\ Len(above) = n
    BY <1>1
  <2> QED
    BY <1>1, <1>2, <2>1
<1>3. ASSUME c \in Seq(Cert), Topological(c), Len(c) <= d + 1
      PROVE  \E n \in 0 .. d : \E above \in [1 .. n -> Pooled] : c = <<target>> \o above
  <2>1. Len(c) \in Nat \ {0} /\ c[1] = target
    BY <1>3, EmptySeq DEF Topological
  <2>2. PICK n : n = Len(c) - 1
    OBVIOUS
  <2>3. n \in 0 .. d /\ Len(c) = n + 1
    BY <1>3, <2>1, <2>2
  <2>4. PICK above : above = [k \in 1 .. n |-> c[k + 1]]
    OBVIOUS
  <2>5. ASSUME NEW k \in 1 .. n PROVE c[k + 1] \in Pooled
    <3>1. k + 1 \in 2 .. Len(c)
      BY <2>3
    <3> QED
      BY <1>3, <3>1 DEF Topological
  <2>6. above \in [1 .. n -> Pooled] /\ above \in Seq(Cert) /\ Len(above) = n
    BY <1>1, <2>3, <2>4, <2>5
  <2>7. c = <<target>> \o above
    <3>1. <<target>> \in Seq(Cert) /\ Len(<<target>>) = 1 /\ <<target>>[1] = target
      BY <1>1
    <3>2. PICK e : e = <<target>> \o above
      OBVIOUS
    <3>3. e \in Seq(Cert) /\ Len(e) = n + 1
      BY <2>3, <2>6, <3>1, <3>2
    <3>4. ASSUME NEW k \in 1 .. n + 1 PROVE e[k] = c[k]
      <4>1. CASE k = 1
        BY <2>1, <2>6, <3>1, <3>2, <4>1
      <4>2. CASE k # 1
        <5>1. k - 1 \in 1 .. n /\ k > 1 /\ (k - 1) + 1 = k
          BY <2>3, <4>2
        <5>2. e[k] = above[k - 1]
          BY <2>3, <2>6, <3>1, <3>2, <5>1
        <5> QED
          BY <2>4, <5>1, <5>2
      <4> QED
        BY <4>1, <4>2
    <3> QED
      BY <1>3, <2>3, <3>2, <3>3, <3>4, SeqEqual
  <2> QED
    BY <2>3, <2>6, <2>7
<1>4. c \in TopologicalChains(d) <=> c \in Seq(Cert) /\ Topological(c) /\ Len(c) <= d + 1
  <2>1. c \in TopologicalChains(d) <=>
          (\E n \in 0 .. d : \E above \in [1 .. n -> Pooled] : c = <<target>> \o above) /\ Topological(c)
    BY DEF TopologicalChains
  <2> QED
    BY <1>2, <1>3, <2>1
<1> QED
  BY <1>4 DEF Reachable, Anchored, Explorable, Chain, Ends

LEMMA SearchInvariance == Spec => [](IInv /\ SInv)
<1>1. Init => IInv /\ SInv
  BY InitIInv, InitSInv
<1>2. (IInv /\ SInv) /\ [Next]_vars => (IInv /\ SInv)'
  BY NextIInv, NextSInv
<1> QED
  BY <1>1, <1>2, PTL DEF Spec

(* build_first_valid_path is right about every pool, anchor list, depth    *)
(* limit and budget, whatever validate_path says: it answers with the      *)
(* first chain that validates; NoValidPath means that there are chains to  *)
(* an anchor within the depth limit and that all of them were tried and    *)
(* refused; NoPathFound and DepthExceeded that there is none.              *)
THEOREM FirstValid == Spec => []FirstValidVerdict
<1>1. IInv /\ SInv => FirstValidVerdict
  <2> SUFFICES ASSUME IInv, SInv PROVE FirstValidVerdict
    OBVIOUS
  <2>1. TypeOK /\ config.max_depth \in Nat
    BY InputsAssumption DEF IInv, TypeOK
  <2>2. \A c : c \in Reachable(config.max_depth) <=> Chain(c) /\ Ends(c) /\ Len(c) <= config.max_depth + 1
    BY <2>1, ChainsAre
  <2>3. Reachable(config.max_depth) = {} <=> Nothing
    BY <2>2 DEF Nothing
  <2>4. VerdictInv
    BY DEF SInv
  <2> QED
    BY <2>2, <2>3, <2>4 DEF VerdictInv, Refused, FirstValidVerdict
<1> QED
  BY <1>1, SearchInvariance, PTL

-----------------------------------------------------------------------------
(***************************************************************************)
(* The search finds nothing twice, if the pool holds no certificate twice, *)
(* and what it finds first follows the key identifiers.  The cursors say   *)
(* so: each certificate of the path is one that the frame below it has     *)
(* passed, and what a frame has passed ranks before what it has not.       *)
(***************************************************************************)

Trail(p, f) ==
  \A k \in 1 .. Len(f) - 1 :
    \E i \in DOMAIN pool : i \in f[k].passed /\ pool[i] = p[k + 1]

Ranked(p, f) ==
  \A k \in 1 .. Len(f) : \A i, j \in DOMAIN pool :
    i \in f[k].passed /\ j \notin f[k].passed /\ pool[j].subject = p[k].issuer =>
      Tier(p[k], pool[i]) <= Tier(p[k], pool[j])

CursorInv == Trail(path, frames) /\ Ranked(path, frames)

(* The certificate at which c and d part ranks no worse in c. *)
Ordered(c, d) ==
  \A k \in 2 .. Len(c) :
    k <= Len(d) /\ (\A j \in 1 .. k - 1 : c[j] = d[j]) =>
      Tier(c[k - 1], c[k]) <= Tier(d[k - 1], d[k])

(* A new frame has passed nothing. *)
LEMMA NewFrameCursor ==
  ASSUME NEW p, NEW f, NEW n \in Nat, NEW q, NEW g, Trail(p, f), Ranked(p, f),
         Len(f) = n, Len(g) = n + 1, g[n + 1] = NewFrame,
         \A j \in 1 .. n : q[j] = p[j] /\ g[j] = f[j],
         n > 0 => \E i \in DOMAIN pool : i \in f[n].passed /\ pool[i] = q[n + 1]
  PROVE  Trail(q, g) /\ Ranked(q, g)
<1>1. NewFrame.passed = {}
  BY DEF NewFrame
<1>2. Trail(q, g)
  <2> SUFFICES ASSUME NEW k \in 1 .. n
               PROVE  \E i \in DOMAIN pool : i \in g[k].passed /\ pool[i] = q[k + 1]
    BY DEF Trail
  <2>1. CASE k = n
    BY <2>1
  <2>2. CASE k # n
    <3>1. k \in 1 .. n - 1 /\ k + 1 \in 1 .. n
      BY <2>2
    <3> QED
      BY <3>1 DEF Trail
  <2> QED
    BY <2>1, <2>2
<1>3. Ranked(q, g)
  <2> SUFFICES ASSUME NEW k \in 1 .. n + 1, NEW i \in DOMAIN pool, NEW j \in DOMAIN pool,
                      i \in g[k].passed, j \notin g[k].passed, pool[j].subject = q[k].issuer
               PROVE  Tier(q[k], pool[i]) <= Tier(q[k], pool[j])
    BY DEF Ranked
  <2>1. k # n + 1
    BY <1>1
  <2>2. k \in 1 .. n
    BY <2>1
  <2> QED
    BY <2>2 DEF Ranked
<1> QED
  BY <1>2, <1>3

(* A shorter stack over the same path. *)
LEMMA ShorterCursor ==
  ASSUME NEW p, NEW f, NEW n \in Nat \ {0}, NEW q, NEW g, Trail(p, f), Ranked(p, f),
         Len(f) = n, Len(g) = n - 1,
         \A j \in 1 .. n - 1 : q[j] = p[j] /\ g[j] = f[j]
  PROVE  Trail(q, g) /\ Ranked(q, g)
<1>1. Trail(q, g)
  <2> SUFFICES ASSUME NEW k \in 1 .. (n - 1) - 1
               PROVE  \E i \in DOMAIN pool : i \in g[k].passed /\ pool[i] = q[k + 1]
    BY DEF Trail
  <2>1. k \in 1 .. n - 1 /\ k + 1 \in 1 .. n - 1
    OBVIOUS
  <2> QED
    BY <2>1 DEF Trail
<1>2. Ranked(q, g)
  <2> SUFFICES ASSUME NEW k \in 1 .. n - 1, NEW i \in DOMAIN pool, NEW j \in DOMAIN pool,
                      i \in g[k].passed, j \notin g[k].passed, pool[j].subject = q[k].issuer
               PROVE  Tier(q[k], pool[i]) <= Tier(q[k], pool[j])
    BY DEF Ranked
  <2>1. k \in 1 .. n
    OBVIOUS
  <2> QED
    BY <2>1 DEF Ranked
<1> QED
  BY <1>1, <1>2

(* The top cursor moves past the next candidate. *)
LEMMA CursorMoves ==
  ASSUME NEW p, NEW f, NEW n \in Nat \ {0}, NEW g, NEW i \in DOMAIN pool, NEW s,
         Trail(p, f), Ranked(p, f), Len(f) = n, Len(g) = n,
         \A j \in 1 .. n - 1 : g[j] = f[j],
         g[n].passed = s, s = f[n].passed \cup {i},
         \A j \in DOMAIN pool :
           j \notin s /\ pool[j].subject = p[n].issuer => Tier(p[n], pool[i]) <= Tier(p[n], pool[j])
  PROVE  Trail(p, g) /\ Ranked(p, g)
<1>1. Trail(p, g)
  BY DEF Trail
<1>2. Ranked(p, g)
  <2> SUFFICES ASSUME NEW k \in 1 .. n, NEW a \in DOMAIN pool, NEW b \in DOMAIN pool,
                      a \in g[k].passed, b \notin g[k].passed, pool[b].subject = p[k].issuer
               PROVE  Tier(p[k], pool[a]) <= Tier(p[k], pool[b])
    BY DEF Ranked
  <2>1. CASE k = n
    <3>1. a = i \/ a \in f[n].passed
      BY <2>1
    <3>2. b \notin f[n].passed
      BY <2>1
    <3> QED
      BY <2>1, <3>1, <3>2 DEF Ranked
  <2>2. CASE k # n
    <3>1. k \in 1 .. n - 1
      BY <2>2
    <3> QED
      BY <3>1 DEF Ranked
  <2> QED
    BY <2>1, <2>2
<1> QED
  BY <1>1, <1>2

(* Only the flags of the top frame change. *)
LEMMA CursorSame ==
  ASSUME NEW p, NEW f, NEW n \in Nat, NEW g, Trail(p, f), Ranked(p, f),
         Len(f) = n, Len(g) = n, \A k \in 1 .. n : g[k].passed = f[k].passed
  PROVE  Trail(p, g) /\ Ranked(p, g)
<1>1. \A k \in 1 .. n - 1 : k \in 1 .. n
  OBVIOUS
<1> QED
  BY <1>1 DEF Trail, Ranked

LEMMA CursorStart == Trail(<<target>>, <<NewFrame>>) /\ Ranked(<<target>>, <<NewFrame>>)
<1>1. Len(<<NewFrame>>) = 1 /\ <<NewFrame>>[1] = NewFrame /\ NewFrame.passed = {}
      /\ \A k \in 1 .. 1 : k = 1
  BY DEF NewFrame
<1> QED
  BY <1>1 DEF Trail, Ranked

(* The pool does not change, so the cursors mean the same. *)
LEMMA CursorPool ==
  ASSUME UNCHANGED inputs
  PROVE  CursorInv' <=> Trail(path', frames') /\ Ranked(path', frames')
  BY DEF CursorInv, Trail, Ranked, Tier, inputs

LEMMA TryCursor ==
  ASSUME IInv, CursorInv, TryCandidate
  PROVE  Trail(path', frames') /\ Ranked(path', frames')
<1>1. PICK n \in Nat \ {0}, i \in DOMAIN pool :
        /\ Len(path) = n /\ Len(frames) = n /\ Last(path) = path[n]
        /\ frames[n].anchor_checked /\ ~frames[n].anchor_yielded
        /\ NextCandidate(i) /\ i \notin frames[n].passed /\ pool[i].subject = path[n].issuer
        /\ \A j \in 1 .. n : path'[j] = path[j]
        /\ \A j \in 1 .. n - 1 : frames'[j] = frames[j]
        /\ frames'[n].anchor_checked /\ ~frames'[n].anchor_yielded
        /\ frames'[n].passed = frames[n].passed \cup {i}
        /\ \/ /\ CertIsCa(pool[i]) /\ ~SpkiAlreadyInPath(pool[i], path)
              /\ Len(frames') = n + 1 /\ frames'[n + 1] = NewFrame /\ path'[n + 1] = pool[i]
           \/ /\ ~(CertIsCa(pool[i]) /\ ~SpkiAlreadyInPath(pool[i], path))
              /\ Len(frames') = n /\ path' = path
  BY TryShape
<1>2. ASSUME NEW j \in DOMAIN pool, j \notin frames'[n].passed, pool[j].subject = path[n].issuer
      PROVE  Tier(path[n], pool[i]) <= Tier(path[n], pool[j])
  <2>1. j \in Untried \ {i}
    BY <1>1, <1>2 DEF Untried, Candidates, Top
  <2>2. RankedBefore(path[n], i, j)
    BY <1>1, <2>1 DEF NextCandidate
  <2> QED
    BY <2>2 DEF RankedBefore, Tier
<1>3. PICK g : g = [k \in 1 .. n |-> frames'[k]]
  OBVIOUS
<1>4. Len(g) = n /\ \A k \in 1 .. n : g[k] = frames'[k]
  <2>1. g \in Seq({frames'[k] : k \in 1 .. n})
    BY <1>3
  <2> QED
    BY <1>3, <2>1
<1>5. \A j \in 1 .. n - 1 : g[j] = frames[j]
  BY <1>1, <1>4
<1>6. Trail(path, g) /\ Ranked(path, g)
  <2>1. g[n].passed = frames'[n].passed
    BY <1>4
  <2>2. Trail(path, frames) /\ Ranked(path, frames)
    BY DEF CursorInv
  <2> QED
    BY <1>1, <1>2, <1>4, <1>5, <2>1, <2>2, CursorMoves
<1>7. CASE Len(frames') = n + 1 /\ frames'[n + 1] = NewFrame /\ path'[n + 1] = pool[i]
  <2>1. \A j \in 1 .. n : path'[j] = path[j] /\ frames'[j] = g[j]
    BY <1>1, <1>4
  <2>2. i \in g[n].passed /\ pool[i] = path'[n + 1]
    BY <1>1, <1>4, <1>7
  <2> QED
    BY <1>4, <1>6, <1>7, <2>1, <2>2, NewFrameCursor
<1>8. CASE Len(frames') = n /\ path' = path
  <2>1. \A k \in 1 .. n : frames'[k].passed = g[k].passed
    BY <1>4
  <2> QED
    BY <1>4, <1>6, <1>8, <2>1, CursorSame
<1> QED
  BY <1>1, <1>7, <1>8

LEMMA CheckCursor ==
  ASSUME IInv, FramesOK(path, frames), CursorInv, AnchorCheck
  PROVE  Trail(path', frames') /\ Ranked(path', frames')
<1>1. PICK n \in Nat \ {0} :
        /\ Len(frames) = n /\ path' = path
        /\ frames[n].passed = {} /\ Len(frames') = n
        /\ \A j \in 1 .. n - 1 : frames'[j] = frames[j]
        /\ frames'[n].passed = {}
  BY CheckShape
<1>2. \A k \in 1 .. n : frames'[k].passed = frames[k].passed
  <2>1. \A k \in 1 .. n : k \in 1 .. n - 1 \/ k = n
    OBVIOUS
  <2> QED
    BY <1>1, <2>1
<1> QED
  BY <1>1, <1>2, CursorSame DEF CursorInv

LEMMA NextCursorInv ==
  ASSUME IInv, SInv, CursorInv, [Next]_vars
  PROVE  CursorInv'
<1>1. UNCHANGED inputs
  BY DEF Next, SearchStep, CallerStep, Done, vars, Exhausted, LeaveYieldedFrame, OutOfBudget,
         AnchorCheck, LeaveFrame, TryCandidate, ResumeCandidates, StopCandidates, BuildPathYield,
         FirstValidYield, FirstValidRejectedAll, StartProbe, FinishProbe, Return
<1> SUFFICES Trail(path', frames') /\ Ranked(path', frames')
  BY <1>1, CursorPool
<1>2. Trail(path, frames) /\ Ranked(path, frames) /\ FramesOK(path, frames)
  BY DEF CursorInv, SInv, FrameInv
<1>3. CASE LeaveYieldedFrame \/ LeaveFrame
  <2>1. PICK n \in Nat \ {0} :
          /\ Len(frames) = n /\ Len(frames') = n - 1
          /\ \A j \in 1 .. n - 1 : path'[j] = path[j] /\ frames'[j] = frames[j]
    BY <1>3, LeaveShape
  <2> QED
    BY <1>2, <2>1, ShorterCursor
<1>4. CASE TryCandidate
  BY <1>4, TryCursor
<1>5. CASE AnchorCheck
  BY <1>2, <1>5, CheckCursor
<1>6. CASE StartProbe
  <2>1. path' = <<target>> /\ frames' = <<NewFrame>>
    BY <1>6 DEF StartProbe, StartSearch
  <2> QED
    BY <2>1, CursorStart
<1>7. CASE UNCHANGED search
  BY <1>2, <1>7 DEF search
<1>8. \/ LeaveYieldedFrame \/ LeaveFrame \/ TryCandidate \/ AnchorCheck \/ StartProbe
      \/ UNCHANGED search
  BY DEF Next, SearchStep, CallerStep, Done, vars, Exhausted, OutOfBudget, ResumeCandidates,
         StopCandidates, BuildPathYield, FirstValidYield, FirstValidRejectedAll, FinishProbe, Return
<1> QED
  BY <1>3, <1>4, <1>5, <1>6, <1>7, <1>8

(* A path that has been checked is not ahead any more. *)
LEMMA PathDone ==
  ASSUME DistinctPool, NEW n \in Nat \ {0}, NEW p, NEW f, Len(p) = n, Len(f) = n,
         Trail(p, f), \A k \in 1 .. n : f[k].anchor_checked
  PROVE  ~Ahead(p, f, p)
<1> SUFFICES ASSUME NEW k \in 1 .. n, At(p, f, p, k) PROVE FALSE
  BY DEF Ahead
<1>1. k < n
  BY DEF At
<1>2. PICK i \in DOMAIN pool : i \notin f[k].passed /\ pool[i] = p[k + 1]
  BY DEF At
<1>3. PICK j \in DOMAIN pool : j \in f[k].passed /\ pool[j] = p[k + 1]
  BY <1>1 DEF Trail
<1> QED
  BY <1>2, <1>3 DEF DistinctPool, IsInjective

(* What is still ahead when a path is handed out ranks no better. *)
LEMMA PathRanks ==
  ASSUME DistinctPool, NEW n \in Nat \ {0}, NEW p, NEW f, Len(p) = n, Len(f) = n,
         Trail(p, f), Ranked(p, f), \A k \in 1 .. n : f[k].anchor_checked,
         f[n].anchor_yielded, NEW d, Ahead(p, f, d)
  PROVE  Ordered(p, d)
<1>1. PICK k \in 1 .. n : At(p, f, d, k)
  BY DEF Ahead
<1>2. k # n
  BY <1>1, YieldedLeadsNowhere
<1>3. k \in 1 .. n - 1 /\ k + 1 \in 1 .. n
  BY <1>2
<1>4. /\ \A j \in 1 .. k : d[j] = p[j]
      /\ \E i \in DOMAIN pool :
             i \notin f[k].passed /\ pool[i].subject = p[k].issuer /\ pool[i] = d[k + 1]
  BY <1>1 DEF At
<1>5. PICK i \in DOMAIN pool :
        i \notin f[k].passed /\ pool[i].subject = p[k].issuer /\ pool[i] = d[k + 1]
  BY <1>4
<1>6. PICK j \in DOMAIN pool : j \in f[k].passed /\ pool[j] = p[k + 1]
  BY <1>3 DEF Trail
<1>7. Tier(p[k], p[k + 1]) <= Tier(d[k], d[k + 1])
  <2>1. p[k] = d[k]
    BY <1>4
  <2> QED
    BY <1>5, <1>6, <2>1 DEF Ranked
<1>8. p[k + 1] # d[k + 1]
  BY <1>5, <1>6 DEF DistinctPool, IsInjective
<1> SUFFICES ASSUME NEW m \in 2 .. n, \A a \in 1 .. m - 1 : p[a] = d[a]
             PROVE  Tier(p[m - 1], p[m]) <= Tier(d[m - 1], d[m])
  BY DEF Ordered
<1>9. CASE m <= k
  <2>1. m \in 1 .. k /\ m - 1 \in 1 .. k
    BY <1>9
  <2>2. p[m] = d[m] /\ p[m - 1] = d[m - 1]
    BY <1>4, <2>1
  <2> QED
    BY <2>2 DEF Tier
<1>10. CASE m = k + 1
  BY <1>7, <1>10
<1>11. CASE m > k + 1
  <2>1. k + 1 \in 1 .. m - 1
    BY <1>11
  <2> QED
    BY <1>8, <2>1
<1> QED
  BY <1>9, <1>10, <1>11

(* A chain handed out is not ahead any more, and what is ranks no better. *)
Once ==
  DistinctPool =>
    /\ \A c : Handed(c) => ~Ahead(path, frames, c)
    /\ \A c, d : Handed(c) /\ Chain(d) /\ Len(d) <= max_depth + 1 /\ Ahead(path, frames, d) =>
                   Ordered(c, d)
    /\ \A m, n \in DOMAIN yields : m < n => Ordered(yields[m], yields[n])

LEMMA HandedFits ==
  ASSUME IInv, SInv, NEW c, Handed(c)
  PROVE  Chain(c) /\ Len(c) <= max_depth + 1
<1>1. Chain(c)
  BY DEF SInv, YieldInv
<1>2. PICK m \in DOMAIN yields : yields[m] = c
  BY DEF Handed
<1>3. ~probing
  BY <1>2 DEF SInv, CallInv
<1>4. GoodChain(c) /\ max_depth = config.max_depth
  BY <1>2, <1>3 DEF IInv, SearchInv, YieldsAreGoodChains
<1> QED
  BY <1>1, <1>4 DEF GoodChain

(* A step that keeps what is ahead. *)
LEMMA MoveOnce ==
  ASSUME IInv, SInv, Once, UNCHANGED <<inputs, max_depth, yields>>, Moves
  PROVE  Once'
<1>1. UNCHANGED inputs /\ max_depth' = max_depth /\ yields' = yields /\ pool' = pool
  BY DEF inputs
<1>2. \A c : Handed(c)' <=> Handed(c)
  BY <1>1 DEF Handed
<1> SUFFICES ASSUME DistinctPool
             PROVE  /\ \A c : Handed(c)' => ~Ahead(path, frames, c)'
                    /\ \A c, d : /\ Handed(c)' /\ Chain(d)' /\ Len(d) <= max_depth' + 1
                                 /\ Ahead(path, frames, d)'
                                 => Ordered(c, d)
                    /\ \A m, n \in DOMAIN yields' : m < n => Ordered(yields'[m], yields'[n])
  BY <1>1 DEF Once, DistinctPool, Ordered, Tier
<1>3. \A c : Handed(c)' => ~Ahead(path, frames, c)'
  <2> SUFFICES ASSUME NEW c, Handed(c) PROVE ~Ahead(path, frames, c)'
    BY <1>2
  <2>1. Chain(c) /\ Len(c) <= max_depth + 1
    BY HandedFits
  <2>2. ~Ahead(path, frames, c)
    BY DEF Once
  <2> QED
    BY <1>1, <2>1, <2>2, ChainsStay DEF Moves
<1>4. ASSUME NEW c, NEW d, Handed(c)', Chain(d)', Len(d) <= max_depth' + 1, Ahead(path, frames, d)'
      PROVE  Ordered(c, d)
  <2>1. Handed(c) /\ Chain(d) /\ Len(d) <= max_depth + 1 /\ Ahead(path', frames', d)
    BY <1>1, <1>2, <1>4, ChainsStay
  <2>2. Ahead(path, frames, d)
    BY <2>1 DEF Moves
  <2> QED
    BY <2>1, <2>2 DEF Once
<1>5. \A m, n \in DOMAIN yields' : m < n => Ordered(yields'[m], yields'[n])
  BY <1>1 DEF Once
<1> QED
  BY <1>3, <1>4, <1>5

(* The anchor check takes the path, and nothing else, off what is ahead. *)
LEMMA CheckTakesPath ==
  ASSUME IInv, SInv, CursorInv, DistinctPool, AnchorCheck
  PROVE  /\ Chain(path) /\ Len(path) <= max_depth + 1
         /\ Ahead(path, frames, path) /\ ~Ahead(path', frames', path)
         /\ \A c : Chain(c) /\ c # path => (Ahead(path', frames', c) <=> Ahead(path, frames, c))
         /\ AnchorMatches(Last(path)) =>
              \A d : Ahead(path', frames', d) => Ordered(path, d)
<1>1. FramesOK(path, frames)
  BY DEF SInv, FrameInv
<1>2. PICK n \in Nat \ {0} :
        /\ Len(path) = n /\ Len(frames) = n /\ Last(path) = path[n] /\ path' = path
        /\ Len(frames') = n /\ \A j \in 1 .. n - 1 : frames'[j] = frames[j]
        /\ frames'[n].anchor_checked
        /\ frames'[n].anchor_yielded <=> AnchorMatches(path[n])
  BY <1>1, CheckShape
<1>3. /\ FramesOK(path', frames')
      /\ Chain(path) /\ Len(path) <= max_depth + 1 /\ Ahead(path, frames, path)
      /\ \A c : Chain(c) /\ c # path => (Ahead(path', frames', c) <=> Ahead(path, frames, c))
  BY <1>1, CheckMoves
<1>4. \A k \in 1 .. n : frames'[k].anchor_checked
  <2>1. \A k \in 1 .. n : k = n \/ k < n
    OBVIOUS
  <2> QED
    BY <1>2, <1>3, <2>1 DEF FramesOK
<1>5. Trail(path', frames') /\ Ranked(path', frames')
  BY <1>1, CheckCursor
<1>6. ~Ahead(path', frames', path)
  BY <1>2, <1>4, <1>5, PathDone
<1>7. ASSUME AnchorMatches(Last(path)), NEW d, Ahead(path', frames', d) PROVE Ordered(path, d)
  BY <1>2, <1>4, <1>5, <1>7, PathRanks
<1> QED
  BY <1>3, <1>6, <1>7

LEMMA CheckOnce ==
  ASSUME IInv, SInv, CursorInv, Once, AnchorCheck
  PROVE  Once'
<1>1. /\ UNCHANGED inputs /\ max_depth' = max_depth /\ pool' = pool /\ path' = path
      /\ \/ yields' = yields
         \/ yields' = Append(yields, path) /\ AnchorMatches(Last(path))
  BY DEF AnchorCheck, inputs
<1> SUFFICES ASSUME DistinctPool
             PROVE  /\ \A c : Handed(c)' => ~Ahead(path, frames, c)'
                    /\ \A c, d : /\ Handed(c)' /\ Chain(d)' /\ Len(d) <= max_depth' + 1
                                 /\ Ahead(path, frames, d)'
                                 => Ordered(c, d)
                    /\ \A m, n \in DOMAIN yields' : m < n => Ordered(yields'[m], yields'[n])
  BY <1>1 DEF Once, DistinctPool, Ordered, Tier
<1>2. /\ Chain(path) /\ Len(path) <= max_depth + 1
      /\ Ahead(path, frames, path) /\ ~Ahead(path', frames', path)
      /\ \A c : Chain(c) /\ c # path => (Ahead(path', frames', c) <=> Ahead(path, frames, c))
      /\ AnchorMatches(Last(path)) =>
           \A d : Ahead(path', frames', d) => Ordered(path, d)
  BY CheckTakesPath
<1>3. yields \in Seq(Seq(Cert)) /\ path \in Seq(Cert) /\ Len(yields) \in Nat
  BY DEF IInv, TypeOK
<1>4. ASSUME NEW m \in DOMAIN yields'
      PROVE  \/ m \in DOMAIN yields /\ yields'[m] = yields[m]
             \/ m = Len(yields) + 1 /\ yields'[m] = path /\ AnchorMatches(Last(path))
  BY <1>1, <1>3
<1>5. ASSUME NEW c, Handed(c)'
      PROVE  Handed(c) \/ (c = path /\ AnchorMatches(Last(path)))
  <2>1. PICK m \in DOMAIN yields' : yields'[m] = c
    BY <1>5 DEF Handed
  <2> QED
    BY <1>4, <2>1 DEF Handed
<1>6. ASSUME NEW c, Handed(c)' PROVE ~Ahead(path, frames, c)'
  <2>1. CASE c = path
    BY <1>1, <1>2, <2>1, ChainsStay
  <2>2. CASE c # path
    <3>1. Handed(c)
      BY <1>5, <1>6, <2>2
    <3>2. Chain(c) /\ ~Ahead(path, frames, c)
      BY <3>1, HandedFits DEF Once
    <3> QED
      BY <1>1, <1>2, <2>2, <3>2, ChainsStay
  <2> QED
    BY <2>1, <2>2
<1>7. ASSUME NEW c, NEW d, Handed(c)', Chain(d)', Len(d) <= max_depth' + 1, Ahead(path, frames, d)'
      PROVE  Ordered(c, d)
  <2>1. Chain(d) /\ Len(d) <= max_depth + 1 /\ Ahead(path', frames', d)
    BY <1>1, <1>7, ChainsStay
  <2>2. Ahead(path, frames, d)
    BY <1>2, <2>1
  <2>3. CASE Handed(c)
    BY <2>1, <2>2, <2>3 DEF Once
  <2>4. CASE c = path /\ AnchorMatches(Last(path))
    BY <1>2, <2>1, <2>4
  <2> QED
    BY <1>5, <1>7, <2>3, <2>4
<1>8. ASSUME NEW m \in DOMAIN yields', NEW n \in DOMAIN yields', m < n
      PROVE  Ordered(yields'[m], yields'[n])
  <2>1. m \in DOMAIN yields /\ yields'[m] = yields[m]
    <3>1. n \in DOMAIN yields \/ n = Len(yields) + 1
      BY <1>4
    <3>2. m # Len(yields) + 1
      BY <1>3, <1>8, <3>1
    <3> QED
      BY <1>4, <3>2
  <2>2. CASE n \in DOMAIN yields /\ yields'[n] = yields[n]
    BY <1>8, <2>1, <2>2 DEF Once
  <2>3. CASE yields'[n] = path
    <3>1. Handed(yields[m])
      BY <2>1 DEF Handed
    <3> QED
      BY <1>2, <2>1, <2>3, <3>1 DEF Once
  <2> QED
    BY <1>4, <2>2, <2>3
<1> QED
  BY <1>6, <1>7, <1>8

(* The kinds of step: a move of the search, an anchor check, the probe's   *)
(* beginning, and a step that leaves the search where it is.               *)
LEMMA Steps ==
  ASSUME IInv, SInv, [Next]_vars
  PROVE  \/ AnchorCheck
         \/ StartProbe
         \/ Moves /\ UNCHANGED <<inputs, max_depth, budget, yields>>
<1>1. FramesOK(path, frames)
  BY DEF SInv, FrameInv
<1>2. CASE LeaveYieldedFrame \/ LeaveFrame
  BY <1>1, <1>2, LeaveMoves DEF LeaveYieldedFrame, LeaveFrame
<1>3. CASE TryCandidate
  BY <1>1, <1>3, TryMoves DEF TryCandidate
<1>4. CASE UNCHANGED <<inputs, search, yields>>
  BY <1>1, <1>4 DEF Moves, search
<1>5. \/ LeaveYieldedFrame \/ LeaveFrame \/ TryCandidate \/ AnchorCheck \/ StartProbe
      \/ UNCHANGED <<inputs, search, yields>>
  BY DEF Next, SearchStep, CallerStep, Done, vars, Exhausted, OutOfBudget, ResumeCandidates,
         StopCandidates, BuildPathYield, FirstValidYield, FirstValidRejectedAll, FinishProbe, Return
<1> QED
  BY <1>2, <1>3, <1>4, <1>5

LEMMA NextOnce ==
  ASSUME IInv, SInv, CursorInv, Once, [Next]_vars
  PROVE  Once'
<1>1. CASE AnchorCheck
  BY <1>1, CheckOnce
<1>2. CASE Moves /\ UNCHANGED <<inputs, max_depth, budget, yields>>
  BY <1>2, MoveOnce
<1>3. CASE StartProbe
  <2>1. probing' = TRUE
    BY <1>3 DEF StartProbe
  <2>2. yields' = <<>>
    BY <2>1, NextSInv DEF SInv, CallInv
  <2> QED
    BY <2>2 DEF Once, Handed
<1> QED
  BY <1>1, <1>2, <1>3, Steps

-----------------------------------------------------------------------------
(***************************************************************************)
(* What the budget counts.  The chains the search has been at are those    *)
(* that are not ahead of it; each anchor check adds one and costs a unit.  *)
(***************************************************************************)

Visited == {c \in Explorable(max_depth) : ~Ahead(path, frames, c)}

Spent ==
  DistinctPool =>
    IsFiniteSet(Visited) /\ Cardinality(Visited) = config.dfs_budget - budget

(* BudgetExceeded is reported at a chain that the search is at. *)
StopInv ==
  result = "BudgetExceeded" =>
    /\ pc = "returned" /\ budget = 0
    /\ Chain(path) /\ Len(path) <= max_depth + 1 /\ Ahead(path, frames, path)

BInv == CursorInv /\ Once /\ Spent /\ StopInv

LEMMA VisitedAre ==
  ASSUME IInv, NEW c
  PROVE  c \in Visited <=> Chain(c) /\ Len(c) <= max_depth + 1 /\ ~Ahead(path, frames, c)
<1>1. TypeOK /\ max_depth \in Nat
  BY DEF IInv, TypeOK
<1> QED
  BY <1>1, ChainsAre DEF Visited

(* The chains of a call are those of its arguments. *)
LEMMA ExplorableStays ==
  ASSUME UNCHANGED inputs
  PROVE  /\ Explorable(max_depth)' = Explorable(max_depth')
         /\ DistinctPool' <=> DistinctPool
<1>1. target' = target /\ Pooled' = Pooled
  BY DEF inputs, Pooled
<1>2. \A c : Topological(c)' <=> Topological(c)
  BY DEF Topological, Pooled, CertIsCa, inputs
<1>3. \A x : AnchorMatches(x)' <=> AnchorMatches(x)
  BY DEF AnchorMatches, inputs
<1>4. TopologicalChains(max_depth)' = TopologicalChains(max_depth')
  BY <1>1, <1>2 DEF TopologicalChains
<1> QED
  BY <1>3, <1>4 DEF Explorable, DistinctPool, inputs

LEMMA VisitedNext ==
  ASSUME IInv, IInv', UNCHANGED inputs, NEW c
  PROVE  c \in Visited' <=> Chain(c) /\ Len(c) <= max_depth' + 1 /\ ~Ahead(path', frames', c)
<1>1. TypeOK /\ max_depth' \in Nat
  BY DEF IInv, TypeOK
<1>2. c \in Explorable(max_depth') <=> Chain(c) /\ Len(c) <= max_depth' + 1
  BY <1>1, ChainsAre
<1> QED
  BY <1>2, ExplorableStays, ChainsStay DEF Visited

LEMMA NextSpent ==
  ASSUME IInv, SInv, CursorInv, Spent, [Next]_vars
  PROVE  Spent'
<1>1. UNCHANGED inputs
  BY DEF Next, SearchStep, CallerStep, Done, vars, Exhausted, LeaveYieldedFrame, OutOfBudget,
         AnchorCheck, LeaveFrame, TryCandidate, ResumeCandidates, StopCandidates, BuildPathYield,
         FirstValidYield, FirstValidRejectedAll, StartProbe, FinishProbe, Return
<1>2. IInv' /\ config' = config
  BY <1>1, NextIInv DEF inputs
<1>3. config.dfs_budget \in Nat /\ budget \in Nat
  BY InputsAssumption DEF IInv, TypeOK
<1> SUFFICES ASSUME DistinctPool
             PROVE  IsFiniteSet(Visited') /\ Cardinality(Visited') = config.dfs_budget - budget'
  BY <1>1, <1>2, ExplorableStays DEF Spent
<1>4. IsFiniteSet(Visited) /\ Cardinality(Visited) = config.dfs_budget - budget
  BY DEF Spent
<1>5. CASE Moves /\ UNCHANGED <<inputs, max_depth, budget, yields>>
  <2>1. ASSUME NEW c PROVE c \in Visited' <=> c \in Visited
    <3>1. Chain(c) /\ Len(c) <= max_depth + 1 => (Ahead(path', frames', c) <=> Ahead(path, frames, c))
      BY <1>5 DEF Moves
    <3> QED
      BY <1>1, <1>2, <1>5, <3>1, VisitedAre, VisitedNext
  <2>2. Visited' = Visited
    BY <2>1
  <2> QED
    BY <1>4, <1>5, <2>2
<1>6. CASE AnchorCheck
  <2>1. max_depth' = max_depth /\ path' = path /\ budget' = budget - 1
    BY <1>6 DEF AnchorCheck
  <2>2. /\ Chain(path) /\ Len(path) <= max_depth + 1
        /\ Ahead(path, frames, path) /\ ~Ahead(path', frames', path)
        /\ \A c : Chain(c) /\ c # path => (Ahead(path', frames', c) <=> Ahead(path, frames, c))
    BY <1>6, CheckTakesPath
  <2>3. ASSUME NEW c PROVE c \in Visited' <=> c \in Visited \cup {path}
    <3>1. c \in Visited' <=> Chain(c) /\ Len(c) <= max_depth + 1 /\ ~Ahead(path', frames', c)
      BY <1>1, <1>2, <2>1, VisitedNext
    <3>2. c \in Visited <=> Chain(c) /\ Len(c) <= max_depth + 1 /\ ~Ahead(path, frames, c)
      BY VisitedAre
    <3> QED
      BY <2>2, <3>1, <3>2
  <2>4. Visited' = Visited \cup {path} /\ path \notin Visited
    BY <2>2, <2>3, VisitedAre
  <2>5. IsFiniteSet(Visited \cup {path}) /\ Cardinality(Visited \cup {path}) = Cardinality(Visited) + 1
    BY <1>4, <2>4, FS_AddElement
  <2> QED
    BY <1>3, <1>4, <2>1, <2>4, <2>5
<1>7. CASE StartProbe
  <2>1. path' = <<target>> /\ frames' = <<NewFrame>> /\ budget' = config.dfs_budget
    BY <1>7 DEF StartProbe, StartSearch
  <2>2. target \in Cert
    BY InputsAssumption DEF IInv, TypeOK
  <2>3. \A c : Chain(c) => Ahead(path', frames', c)
    BY <2>1, <2>2, StartAhead
  <2>4. ASSUME NEW c PROVE c \notin Visited'
    BY <1>1, <1>2, <2>3, VisitedNext
  <2>5. Visited' = {}
    BY <2>4
  <2> QED
    BY <1>3, <2>1, <2>5, FS_EmptySet
<1> QED
  BY <1>5, <1>6, <1>7, Steps

LEMMA NextStopInv ==
  ASSUME IInv, SInv, StopInv, [Next]_vars
  PROVE  StopInv'
<1>1. CASE OutOfBudget
  <2>1. /\ UNCHANGED inputs /\ UNCHANGED <<path, frames, budget, max_depth>>
        /\ pc' = "returned" /\ EnteringFrame /\ ~(budget > 0)
    BY <1>1 DEF OutOfBudget, HasBudget, search
  <2>2. Chain(path) /\ Len(path) <= max_depth + 1 /\ Ahead(path, frames, path)
    BY <2>1, PathAhead DEF SInv, FrameInv
  <2>3. budget = 0
    BY <2>1 DEF IInv, TypeOK
  <2> QED
    BY <2>1, <2>2, <2>3, ChainsStay DEF StopInv
<1>2. CASE UNCHANGED vars
  <2>1. /\ UNCHANGED inputs /\ UNCHANGED <<path, frames, budget, max_depth, pc, result>>
    BY <1>2 DEF vars, search
  <2> QED
    BY <2>1, ChainsStay DEF StopInv
<1>3. CASE ~OutOfBudget /\ ~UNCHANGED vars
  <2>1. pc # "returned" /\ (result' = result \/ result' # "BudgetExceeded")
    BY <1>3 DEF Next, SearchStep, CallerStep, Done, Exhausted, LeaveYieldedFrame, EnteringFrame,
         AnchorCheck, LeaveFrame, TryCandidate, InsideFrame, ResumeCandidates, StopCandidates,
         BuildPathYield, FirstValidYield, FirstValidRejectedAll, StartProbe, FinishProbe, Return
  <2> QED
    BY <2>1 DEF StopInv
<1> QED
  BY <1>1, <1>2, <1>3

LEMMA InitBInv == Init => BInv
<1> SUFFICES ASSUME Init PROVE BInv
  OBVIOUS
<1>1. IInv
  BY InitIInv
<1>2. target \in Cert /\ config.dfs_budget \in Nat
  BY InputsAssumption DEF Init
<1>3. /\ path = <<target>> /\ frames = <<NewFrame>> /\ yields = <<>>
      /\ budget = config.dfs_budget /\ result = "pending"
  BY DEF Init
<1>4. CursorInv
  BY <1>3, CursorStart DEF CursorInv
<1>5. Once
  BY <1>3 DEF Once, Handed
<1>6. Spent
  <2>1. ASSUME NEW c PROVE c \notin Visited
    BY <1>1, <1>2, <1>3, StartAhead, VisitedAre
  <2>2. Visited = {}
    BY <2>1
  <2> QED
    BY <1>2, <1>3, <2>2, FS_EmptySet DEF Spent
<1>7. StopInv
  BY <1>3 DEF StopInv
<1> QED
  BY <1>4, <1>5, <1>6, <1>7 DEF BInv

LEMMA CountInvariance == Spec => [](IInv /\ SInv /\ BInv)
<1>1. Init => IInv /\ SInv /\ BInv
  BY InitIInv, InitSInv, InitBInv
<1>2. (IInv /\ SInv /\ BInv) /\ [Next]_vars => (IInv /\ SInv /\ BInv)'
  BY NextIInv, NextSInv, NextCursorInv, NextOnce, NextSpent, NextStopInv DEF BInv
<1> QED
  BY <1>1, <1>2, PTL DEF Spec

(* There are finitely many chains: they are sequences of bounded length of *)
(* certificates that are in the pool.                                      *)
LEMMA FiniteExplorable ==
  ASSUME TypeOK, NEW d \in Nat
  PROVE  IsFiniteSet(Explorable(d))
<1>1. pool \in Seq(Cert)
  BY InputsAssumption DEF TypeOK
<1>2. IsFiniteSet(Pooled)
  <2>1. IsFiniteSet(1 .. Len(pool)) /\ DOMAIN pool = 1 .. Len(pool)
    BY <1>1, FS_Interval
  <2>2. [k \in DOMAIN pool |-> pool[k]] \in Surjection(DOMAIN pool, Pooled)
    BY DEF Surjection, Pooled
  <2> QED
    BY <2>1, <2>2, FS_Surjection
<1> DEFINE E == Explorable(d)
           P == (1 .. d + 1) \X (Pooled \cup {target})
           Graph(c) == {<<k, c[k]>> : k \in 1 .. Len(c)}
<1>3. IsFiniteSet(SUBSET P)
  <2>1. 1 \in Int /\ d + 1 \in Int
    OBVIOUS
  <2>2. IsFiniteSet(1 .. d + 1)
    BY <2>1, FS_Interval, Zenon
  <2>3. IsFiniteSet(Pooled \cup {target})
    BY <1>2, FS_AddElement, Zenon
  <2>4. IsFiniteSet(P)
    BY <2>2, <2>3, FS_Product, Zenon
  <2> HIDE DEF P
  <2> QED
    BY <2>4, FS_SUBSET, Zenon
<1>4. ASSUME NEW c \in E
      PROVE  /\ c \in Seq(Cert) /\ Len(c) \in Nat /\ Len(c) <= d + 1
             /\ \A k \in 1 .. Len(c) : c[k] \in Pooled \cup {target}
  <2>1. Chain(c) /\ Len(c) <= d + 1
    BY ChainsAre
  <2>2. \A k \in 1 .. Len(c) : k = 1 \/ k \in 2 .. Len(c)
    BY <2>1 DEF Chain
  <2> QED
    BY <2>1, <2>2 DEF Chain, Topological
<1>5. ASSUME NEW c \in E PROVE Graph(c) \in SUBSET P
  BY <1>4
<1>6. ASSUME NEW c \in E, NEW e \in E, Graph(c) = Graph(e) PROVE c = e
  <2> HIDE DEF E
  <2>1. \A k \in 1 .. Len(c) : <<k, c[k]>> \in Graph(e)
    BY <1>6
  <2>2. \A k \in 1 .. Len(c) : k \in 1 .. Len(e) /\ c[k] = e[k]
    BY <2>1
  <2>3. \A k \in 1 .. Len(e) : <<k, e[k]>> \in Graph(c)
    BY <1>6
  <2>4. \A k \in 1 .. Len(e) : k \in 1 .. Len(c)
    BY <2>3
  <2>5. Len(c) = Len(e)
    <3>1. Len(c) > 0 => Len(c) \in 1 .. Len(c)
      BY <1>4
    <3>2. Len(e) > 0 => Len(e) \in 1 .. Len(e)
      BY <1>4
    <3> QED
      BY <1>4, <2>2, <2>4, <3>1, <3>2
  <2> QED
    BY <1>4, <2>2, <2>5, SeqEqual
<1>7. [c \in E |-> Graph(c)] \in Injection(E, SUBSET P)
  <2> HIDE DEF E, P, Graph
  <2> QED
    BY <1>5, <1>6 DEF Injection, IsInjective
<1> HIDE DEF E, P
<1>8. IsFiniteSet(E)
  BY <1>3, <1>7, FS_Injection
<1> QED
  BY <1>8 DEF E

(* dfs_budget counts chains: a search that is over has spent exactly one   *)
(* unit for each chain within the depth limit, and BudgetExceeded means    *)
(* that there are more of them than the budget allows (if no certificate   *)
(* is in the pool twice).                                                  *)
THEOREM BudgetIsExact == Spec => []BudgetCountsFrames
<1>1. IInv /\ SInv /\ BInv => BudgetCountsFrames
  <2> SUFFICES ASSUME IInv, SInv, BInv, DistinctPool PROVE BudgetCountsFrames
    BY DEF BudgetCountsFrames
  <2>1. TypeOK /\ max_depth \in Nat /\ budget \in Nat /\ config.dfs_budget \in Nat
    BY InputsAssumption DEF IInv, TypeOK
  <2>2. IsFiniteSet(Visited) /\ Cardinality(Visited) = config.dfs_budget - budget
    BY DEF BInv, Spent
  <2>3. ASSUME pc = "none"
        PROVE  config.dfs_budget - budget = Cardinality(Explorable(max_depth))
    <3>1. \A c : ~Ahead(path, frames, c)
      BY <2>3, EmptyLeadsNowhere DEF SInv, FrameInv
    <3>2. Visited = Explorable(max_depth)
      BY <3>1 DEF Visited
    <3> QED
      BY <2>2, <3>2
  <2>4. ASSUME result = "BudgetExceeded"
        PROVE  Cardinality(Explorable(max_depth)) > config.dfs_budget
    <3>1. budget = 0 /\ Chain(path) /\ Len(path) <= max_depth + 1 /\ Ahead(path, frames, path)
      BY <2>4 DEF BInv, StopInv
    <3>2. path \in Explorable(max_depth) /\ path \notin Visited
      BY <2>1, <3>1, ChainsAre DEF Visited
    <3>3. Visited \in SUBSET Explorable(max_depth) /\ IsFiniteSet(Explorable(max_depth))
      BY <2>1, FiniteExplorable DEF Visited
    <3>4. /\ Cardinality(Visited) <= Cardinality(Explorable(max_depth))
          /\ Cardinality(Visited) # Cardinality(Explorable(max_depth))
      BY <3>2, <3>3, FS_Subset
    <3>5. Cardinality(Explorable(max_depth)) \in Nat
      BY <3>3, FS_CardinalityType
    <3> QED
      BY <2>1, <2>2, <3>1, <3>4, <3>5
  <2> QED
    BY <2>3, <2>4 DEF BudgetCountsFrames
<1> QED
  BY <1>1, CountInvariance, PTL

(* Of two chains the one found first follows the key identifiers where     *)
(* they part: the order in which rank_candidates tries the issuers is the  *)
(* order of the answers, across all suspensions of the search.             *)
THEOREM TierOrder == Spec => []YieldsFollowTiers
<1>1. IInv /\ SInv /\ BInv => YieldsFollowTiers
  <2> SUFFICES ASSUME IInv, BInv, DistinctPool,
                      NEW m \in DOMAIN yields, NEW n \in DOMAIN yields, m < n,
                      NEW k \in 2 .. Len(yields[m]), k <= Len(yields[n]),
                      SubSeq(yields[m], 1, k - 1) = SubSeq(yields[n], 1, k - 1)
               PROVE  Tier(yields[m][k - 1], yields[m][k]) <= Tier(yields[n][k - 1], yields[n][k])
    BY DEF YieldsFollowTiers
  <2>1. yields[m] \in Seq(Cert) /\ yields[n] \in Seq(Cert)
    BY ElementOfSeq DEF IInv, TypeOK
  <2>2. PICK c, d : c = yields[m] /\ d = yields[n]
    OBVIOUS
  <2>3. \A j \in 1 .. k - 1 : c[j] = d[j]
    <3>1. ASSUME NEW s \in Seq(Cert), k <= Len(s)
          PROVE  \A j \in 1 .. k - 1 : SubSeq(s, 1, k - 1)[j] = s[j]
      <4>1. k - 1 \in 1 .. Len(s) /\ Len(s) \in Nat
        BY <2>1, <3>1
      <4> QED
        BY <3>1, <4>1
    <3>2. Len(yields[m]) \in Nat
      BY <2>1
    <3> QED
      BY <2>1, <2>2, <3>1, <3>2
  <2>4. Ordered(c, d)
    BY <2>2 DEF BInv, Once
  <2> QED
    BY <2>2, <2>3, <2>4 DEF Ordered
<1> QED
  BY <1>1, CountInvariance, PTL

-----------------------------------------------------------------------------
(***************************************************************************)
(* The search implements the enumeration of ChainEnumeration, step by step.*)
(***************************************************************************)

(* The chains of a call do not change. *)
LEMMA ReachableStays ==
  ASSUME UNCHANGED inputs
  PROVE  /\ Reachable(config.max_depth)' = Reachable(config.max_depth)
         /\ Reachable(config.max_depth + 1)' = Reachable(config.max_depth + 1)
         /\ DistinctPool' = DistinctPool
         /\ UNCHANGED Enumeration!inputs
<1>1. target' = target /\ Pooled' = Pooled /\ config' = config
  BY DEF inputs, Pooled
<1>2. \A c : Topological(c)' <=> Topological(c)
  BY DEF Topological, Pooled, CertIsCa, inputs
<1>3. \A x : AnchorMatches(x)' <=> AnchorMatches(x)
  BY DEF AnchorMatches, inputs
<1>4. /\ TopologicalChains(config.max_depth)' = TopologicalChains(config.max_depth)
      /\ TopologicalChains(config.max_depth + 1)' = TopologicalChains(config.max_depth + 1)
  BY <1>1, <1>2 DEF TopologicalChains
<1>5. /\ Reachable(config.max_depth)' = Reachable(config.max_depth)
      /\ Reachable(config.max_depth + 1)' = Reachable(config.max_depth + 1)
  BY <1>3, <1>4 DEF Reachable, Anchored, Explorable
<1>6. DistinctPool' = DistinctPool
  BY DEF DistinctPool, inputs
<1> QED
  BY <1>5, <1>6 DEF Enumeration!inputs

LEMMA RangeIsHanded == \A c : c \in Range(yields) <=> Handed(c)
  BY DEF Range, Handed

(* With the stack empty, what was handed out is what there is. *)
LEMMA EmptyIsComplete ==
  ASSUME IInv, SInv, pc = "none"
  PROVE  /\ ~probing => Range(yields) = Reachable(config.max_depth)
         /\ probing => Reachable(config.max_depth + 1) = {}
<1>0. TypeOK
  BY DEF IInv
<1>1. config.max_depth \in Nat
  BY <1>0, InputsAssumption DEF TypeOK
<1>2. ASSUME ~probing PROVE Range(yields) = Reachable(config.max_depth)
  <2>1. max_depth = config.max_depth
    BY <1>2 DEF IInv, SearchInv
  <2>2. ASSUME NEW c PROVE c \in Reachable(config.max_depth) <=> Handed(c)
    <3>1. c \in Reachable(config.max_depth) <=> Chain(c) /\ Ends(c) /\ Len(c) <= config.max_depth + 1
      BY <1>0, <1>1, ChainsAre
    <3>2. Handed(c) => Chain(c) /\ Ends(c) /\ Len(c) <= config.max_depth + 1
      <4> SUFFICES ASSUME NEW m \in DOMAIN yields, yields[m] = c
                   PROVE  Chain(c) /\ Ends(c) /\ Len(c) <= config.max_depth + 1
        BY DEF Handed
      <4>1. GoodChain(c) /\ Chain(c)
        BY HandedFits DEF IInv, YieldsAreGoodChains, Handed
      <4> QED
        BY <4>1 DEF GoodChain, Ends
    <3> QED
      BY <2>1, <3>1, <3>2, AllHanded
  <2> QED
    BY <2>2, RangeIsHanded
<1>3. ASSUME probing PROVE Reachable(config.max_depth + 1) = {}
  <2>1. max_depth = config.max_depth + 1
    BY <1>3 DEF SInv, CallInv
  <2> SUFFICES ASSUME NEW c \in Reachable(config.max_depth + 1) PROVE FALSE
    OBVIOUS
  <2>2. Chain(c) /\ Ends(c) /\ Len(c) <= (config.max_depth + 1) + 1
    BY <1>0, <1>1, ChainsAre
  <2> QED
    BY <1>3, <2>1, <2>2, AllHanded
<1> QED
  BY <1>2, <1>3

(* A running probe means that there is nothing within the limit. *)
LEMMA ProbeIsNothing ==
  ASSUME IInv, SInv, probing
  PROVE  Reachable(config.max_depth) = {}
<1>1. TypeOK /\ config.max_depth \in Nat
  BY InputsAssumption DEF IInv, TypeOK
<1>2. Nothing
  BY DEF SInv, CallInv
<1> QED
  BY <1>1, <1>2, ChainsAre DEF Nothing

LEMMA InitEnumerates == Init => Enumeration!Init
<1> SUFFICES ASSUME Init PROVE Enumeration!Init
  OBVIOUS
<1>1. yields = <<>> /\ result = "pending" /\ pc = "search"
  BY DEF Init
<1>2. Range(yields) = {}
  BY <1>1 DEF Range
<1> QED
  BY <1>1, <1>2 DEF Enumeration!Init

(* What the caller sees stays as it is. *)
LEMMA Unseen ==
  ASSUME UNCHANGED inputs, yields' = yields, result' = result, result # "Ok",
         (pc = "yielded" /\ ~probing) <=> (pc' = "yielded" /\ ~probing'),
         (pc = "yielded" /\ ~probing) => path' = path,
         pc # "returned", pc' # "returned"
  PROVE  UNCHANGED Enumeration!vars
<1>1. Range(yields)' = Range(yields)
  BY DEF Range
<1> QED
  BY <1>1, ReachableStays DEF Enumeration!vars

(* A move of the search, a frame without an anchor, the probe. *)
LEMMA SearchUnseen ==
  ASSUME IInv, SInv,
         \/ Exhausted \/ LeaveYieldedFrame \/ LeaveFrame \/ TryCandidate \/ StartProbe
         \/ AnchorCheck /\ (probing \/ ~AnchorMatches(Last(path)))
  PROVE  UNCHANGED Enumeration!vars
<1>1. /\ UNCHANGED inputs /\ yields' = yields /\ result' = result
      /\ pc \in {"search", "none"}
      /\ pc' \in {"search", "none"} \/ (pc' = "yielded" /\ probing')
  BY DEF Exhausted, LeaveYieldedFrame, LeaveFrame, InsideFrame, TryCandidate, StartProbe,
         StartSearch, AnchorCheck, EnteringFrame
<1>2. result # "Ok"
  BY <1>1 DEF IInv, SearchInv
<1> QED
  BY <1>1, <1>2, Unseen

(* A chain is handed out. *)
LEMMA CheckHands ==
  ASSUME IInv, SInv, Once, AnchorCheck, ~probing, AnchorMatches(Last(path))
  PROVE  Enumeration!Hand
<1>1. /\ UNCHANGED inputs /\ UNCHANGED <<path, probing, result>> /\ pc = "search" /\ pc' = "yielded"
      /\ yields' = Append(yields, path) /\ EnteringFrame
  BY DEF AnchorCheck, EnteringFrame
<1>2. yields \in Seq(Seq(Cert)) /\ path \in Seq(Cert) /\ result # "Ok" /\ max_depth = config.max_depth
  BY <1>1 DEF IInv, TypeOK, SearchInv
<1>3. TypeOK /\ config.max_depth \in Nat
  BY InputsAssumption DEF IInv, TypeOK
<1>4. Chain(path) /\ Len(path) <= max_depth + 1 /\ Ahead(path, frames, path)
  BY <1>1, PathAhead DEF SInv, FrameInv
<1>5. path \in Reachable(config.max_depth)
  BY <1>2, <1>3, <1>4, ChainsAre DEF Ends
<1>6. DistinctPool => path \notin Range(yields)
  BY <1>4, RangeIsHanded DEF Once
<1>7. Range(yields)' = Range(yields) \cup {path}
  <2>1. DOMAIN yields' = DOMAIN yields \cup {Len(yields) + 1}
    BY <1>1, <1>2
  <2>2. yields'[Len(yields) + 1] = path /\ \A k \in DOMAIN yields : yields'[k] = yields[k]
    BY <1>1, <1>2
  <2> QED
    BY <2>1, <2>2 DEF Range
<1> QED
  BY <1>1, <1>2, <1>5, <1>6, <1>7, ReachableStays DEF Enumeration!Hand

(* The caller asks for another one. *)
LEMMA ResumeRefuses ==
  ASSUME IInv, ResumeCandidates \/ (FirstValidYield /\ ~ValidatePath(path, anchors))
  PROVE  Enumeration!Refuse
<1>1. /\ UNCHANGED inputs /\ UNCHANGED <<path, probing, result, yields>>
      /\ pc = "yielded" /\ pc' = "search" /\ ~probing
  BY DEF ResumeCandidates, FirstValidYield, search, IInv, SearchInv
<1>2. result # "Ok" /\ Range(yields)' = Range(yields)
  BY <1>1 DEF IInv, SearchInv, Range
<1> QED
  BY <1>1, <1>2, ReachableStays DEF Enumeration!Refuse

(* The caller keeps the chain it was handed. *)
LEMMA YieldEnds ==
  ASSUME IInv, pc = "yielded", ~probing, Return("Ok")
  PROVE  Enumeration!End("Ok")
<1>1. /\ UNCHANGED inputs /\ UNCHANGED <<path, probing, yields>> /\ pc' = "returned" /\ result' = "Ok"
  BY DEF Return, search
<1>2. Range(yields)' = Range(yields)
  BY <1>1 DEF Range
<1> QED
  BY <1>1, <1>2, ReachableStays DEF Enumeration!End, Enumeration!Justified

(* A call that ends without a chain. *)
LEMMA NothingEnds ==
  ASSUME IInv, Return(result'), NEW o, result' = o, o # "Ok",
         pc # "returned", pc # "yielded" \/ probing, Enumeration!Justified(o)
  PROVE  Enumeration!End(o)
<1>1. /\ UNCHANGED inputs /\ UNCHANGED <<path, probing, yields>> /\ pc' = "returned"
  BY DEF Return, search
<1>2. result # "Ok" /\ Range(yields)' = Range(yields)
  BY <1>1 DEF IInv, SearchInv, Range
<1> QED
  BY <1>1, <1>2, ReachableStays DEF Enumeration!End

Outcomes == {"Ok", "None", "NoValidPath", "NoPathFound", "DepthExceeded", "BudgetExceeded"}

(* Every way to end a call says what the enumeration lets it say. *)
LEMMA ReturnEnds ==
  ASSUME IInv, SInv,
         \/ OutOfBudget \/ StopCandidates \/ BuildPathYield \/ FirstValidRejectedAll \/ FinishProbe
         \/ FirstValidYield /\ ValidatePath(path, anchors)
  PROVE  \E o \in Outcomes : Enumeration!End(o)
<1>0. probing => api # "candidates"
  BY DEF IInv, SearchInv
<1>1. CASE pc = "yielded" /\ ~probing
  <2>1. Return("Ok")
    BY <1>1 DEF OutOfBudget, EnteringFrame, StopCandidates, BuildPathYield, FirstValidRejectedAll,
               FinishProbe, FirstValidYield
  <2> QED
    BY <1>1, <2>1, YieldEnds DEF Outcomes
<1>2. CASE OutOfBudget
  <2>1. pc = "search" /\ Return(result') /\ result' = "BudgetExceeded"
    BY <1>2 DEF OutOfBudget, EnteringFrame, Return
  <2>2. Enumeration!Justified("BudgetExceeded")
    BY <2>1 DEF Enumeration!Justified
  <2> QED
    BY <2>1, <2>2, NothingEnds DEF Outcomes
<1>3. CASE StopCandidates /\ pc = "none"
  <2>1. ~probing /\ Return(result') /\ result' = "None"
    BY <1>0, <1>3 DEF StopCandidates, Return
  <2>2. Enumeration!Justified("None")
    BY <1>3, <2>1, EmptyIsComplete DEF Enumeration!Justified
  <2> QED
    BY <1>3, <2>1, <2>2, NothingEnds DEF Outcomes
<1>4. CASE FirstValidRejectedAll
  <2>1. /\ ~probing /\ pc = "none" /\ Return(result') /\ result' = "NoValidPath"
        /\ api = "first_valid" /\ tried > 0
    BY <1>4 DEF FirstValidRejectedAll, Return
  <2>2. yields \in Seq(Seq(Cert)) /\ tried = Len(yields) /\ tried \in Nat
    BY <2>1 DEF IInv, TypeOK, SInv, CallInv
  <2>3. 1 \in DOMAIN yields
    BY <2>1, <2>2
  <2>4. Range(yields) # {}
    BY <2>3 DEF Range
  <2>5. Enumeration!Justified("NoValidPath")
    BY <2>1, <2>4, EmptyIsComplete DEF Enumeration!Justified
  <2> QED
    BY <2>1, <2>5, NothingEnds DEF Outcomes
<1>5. CASE FinishProbe /\ pc = "none"
  <2>1. probing /\ Return(result') /\ result' = "NoPathFound"
    BY <1>5 DEF FinishProbe, Return
  <2>2. Enumeration!Justified("NoPathFound")
    BY <1>5, <2>1, EmptyIsComplete, ProbeIsNothing DEF Enumeration!Justified
  <2> QED
    BY <1>5, <2>1, <2>2, NothingEnds DEF Outcomes
<1>6. CASE FinishProbe /\ pc = "yielded"
  <2>1. probing /\ Return(result') /\ result' = "DepthExceeded"
    BY <1>6 DEF FinishProbe, Return
  <2>2. /\ path # <<>> /\ AnchorMatches(Last(path)) /\ Len(frames) = Len(path)
        /\ path \in Seq(Cert) /\ frames \in Seq([passed : SUBSET Nat, anchor_checked : BOOLEAN,
                                                 anchor_yielded : BOOLEAN])
    BY <1>6 DEF IInv, TypeOK, SearchInv
  <2>3. Chain(path) /\ Len(path) <= max_depth + 1
    BY <2>2, EmptySeq, PathIsChain DEF SInv, FrameInv
  <2>4. TypeOK /\ config.max_depth + 1 \in Nat /\ max_depth = config.max_depth + 1
    BY <2>1, InputsAssumption DEF IInv, TypeOK, SInv, CallInv
  <2>5. path \in Reachable(config.max_depth + 1)
    BY <2>2, <2>3, <2>4, ChainsAre DEF Ends
  <2>6. Enumeration!Justified("DepthExceeded")
    BY <2>1, <2>5, ProbeIsNothing DEF Enumeration!Justified
  <2> QED
    BY <1>6, <2>1, <2>6, NothingEnds DEF Outcomes
<1> QED
  BY <1>0, <1>1, <1>2, <1>3, <1>4, <1>5, <1>6
     DEF StopCandidates, BuildPathYield, FinishProbe, FirstValidYield

LEMMA NextEnumerates ==
  ASSUME IInv, SInv, BInv, [Next]_vars
  PROVE  [Enumeration!Next]_Enumeration!vars
<1>1. CASE \/ Exhausted \/ LeaveYieldedFrame \/ LeaveFrame \/ TryCandidate \/ StartProbe
           \/ AnchorCheck /\ (probing \/ ~AnchorMatches(Last(path)))
  BY <1>1, SearchUnseen
<1>2. CASE AnchorCheck /\ ~probing /\ AnchorMatches(Last(path))
  BY <1>2, CheckHands DEF BInv, Enumeration!Next
<1>3. CASE ResumeCandidates \/ (FirstValidYield /\ ~ValidatePath(path, anchors))
  BY <1>3, ResumeRefuses DEF Enumeration!Next
<1>4. CASE \/ OutOfBudget \/ StopCandidates \/ BuildPathYield \/ FirstValidRejectedAll \/ FinishProbe
           \/ FirstValidYield /\ ValidatePath(path, anchors)
  BY <1>4, ReturnEnds DEF Outcomes, Enumeration!Next
<1>5. CASE UNCHANGED vars
  <2>1. UNCHANGED inputs /\ UNCHANGED <<path, pc, probing, yields, result>>
    BY <1>5 DEF vars, search
  <2>2. Range(yields)' = Range(yields)
    BY <2>1 DEF Range
  <2> QED
    BY <2>1, <2>2, ReachableStays DEF Enumeration!vars
<1> QED
  BY <1>1, <1>2, <1>3, <1>4, <1>5 DEF Next, SearchStep, CallerStep, Done

(* The resumable depth-first search implements the enumeration of chains:  *)
(* however next() is suspended and resumed, each of its steps is one of    *)
(* the enumeration or invisible to the caller.                             *)
THEOREM ImplementsEnumeration == Spec => EnumeratesTheChains
<1>1. Init => Enumeration!Init
  BY InitEnumerates
<1>2. (IInv /\ SInv /\ BInv) /\ [Next]_vars => [Enumeration!Next]_Enumeration!vars
  BY NextEnumerates
<1> QED
  BY <1>1, <1>2, CountInvariance, PTL DEF Spec, EnumeratesTheChains, Enumeration!Spec

=============================================================================
