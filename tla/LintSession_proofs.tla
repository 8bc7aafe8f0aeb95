-------------------------- MODULE LintSession_proofs --------------------------
(***************************************************************************)
(* NothingVanishes, DeviationsAreExact, ProfilesResolveExactly and         *)
(* DocumentsAreExact for any registry of lints, any deviations and files   *)
(* of risks, any catalogs and profiles with whatever cycles of imports,    *)
(* any chains, results and days, and sessions of any length.               *)
(*                                                                         *)
(* A session keeps what it composed: the lints are a runner with ids of    *)
(* its own (Composed), the last run is exact (RunsAreExact), and the store *)
(* waives what was written into it (StoreInv).  The four properties follow *)
(* from these and from what each operation computes: how the loops over    *)
(* lints, risks, imports and bytes go on is proved by induction over their *)
(* positions, one step of the loop at a time.                              *)
(***************************************************************************)
EXTENDS LintSession, FiniteSetTheorems, SequenceTheorems, WellFoundedInduction, TLAPS

\* A non-empty set of natural numbers has a smallest element.
LEMMA SmallestNumber ==
  ASSUME NEW S \in SUBSET Nat, S # {}
  PROVE  \E x \in S : \A y \in S : x <= y
<1> DEFINE R == OpToRel(<, Nat)
<1>1. PICK x \in S : \A y \in S : ~(<<y, x>> \in R)
  <2>1. IsWellFoundedOn(R, Nat)
    BY NatLessThanWellFounded
  <2> HIDE DEF R
  <2> QED
    BY <2>1, WFMin
<1>2. ASSUME NEW y \in S, y < x PROVE FALSE
  <2>1. <<y, x>> \in R
    BY <1>2 DEF OpToRel
  <2> QED
    BY <1>1, <2>1
<1>3. \A y \in S : ~(y < x)
  BY <1>2
<1>4. \A y \in S : x <= y
  BY <1>3
<1> QED
  BY <1>4

\* Induction up to a number, with a set for the numbers that are as claimed.
LEMMA UpTo ==
  ASSUME NEW S, NEW L \in Nat, 0 \in S, \A t \in 1 .. L : t - 1 \in S => t \in S
  PROVE  0 .. L \subseteq S
<1> DEFINE Bad == {t \in 0 .. L : t \notin S}
<1> SUFFICES ASSUME Bad # {} PROVE FALSE
  OBVIOUS
<1>1. PICK n \in Bad : \A m \in Bad : n <= m
  <2>1. Bad \in SUBSET Nat
    OBVIOUS
  <2> HIDE DEF Bad
  <2> QED
    BY <2>1, SmallestNumber
<1>2. n \in 1 .. L /\ n - 1 \in 0 .. L /\ ~(n <= n - 1)
  OBVIOUS
<1>3. n - 1 \notin Bad
  <2> HIDE DEF Bad
  <2> QED
    BY <1>1, <1>2
<1> QED
  BY <1>2, <1>3

\* What a loop has computed after each round.
Looped(f, L, first, step) == f = [n \in 0 .. L |-> IF n = 0 THEN first ELSE step[n][f[n - 1]]]

\* A loop has a result after every round.
LEMMA LoopExists ==
  ASSUME NEW V, NEW first \in V, NEW L \in Nat, NEW step \in [1 .. L -> [V -> V]]
  PROVE  \E f \in [0 .. L -> V] : Looped(f, L, first, step)
<1> USE DEF Looped
<1> DEFINE Loop(f, j) == Looped(f, j, first, step)
           S == {j \in Nat : \E f \in [0 .. j -> V] : Loop(f, j)}
<1>1. 0 \in S
  <2> DEFINE g == [n \in 0 .. 0 |-> first]
  <2>1. g \in [0 .. 0 -> V] /\ Loop(g, 0)
    OBVIOUS
  <2> QED
    BY <2>1
<1>2. ASSUME NEW j \in 1 .. L, j - 1 \in S PROVE j \in S
  <2>1. PICK f \in [0 .. j - 1 -> V] : Loop(f, j - 1)
    BY <1>2
  <2> DEFINE g == [n \in 0 .. j |-> IF n = 0 THEN first ELSE step[n][f[n - 1]]]
  <2>2. ASSUME NEW n \in 0 .. j - 1 PROVE g[n] = f[n]
    BY <2>1
  <2>3. ASSUME NEW n \in 0 .. j PROVE g[n] = IF n = 0 THEN first ELSE step[n][g[n - 1]]
    <3>1. CASE n = 0
      BY <3>1
    <3>2. CASE n # 0
      <4>1. n - 1 \in 0 .. j - 1
        BY <3>2
      <4>2. g[n - 1] = f[n - 1]
        <5> HIDE DEF g
        <5> QED
          BY <2>2, <4>1
      <4>3. g[n] = step[n][f[n - 1]]
        BY <3>2
      <4> HIDE DEF g
      <4> QED
        BY <3>2, <4>2, <4>3
    <3> QED
      BY <3>1, <3>2
  <2>4. Loop(g, j)
    BY <2>3
  <2>5. g \in [0 .. j -> V]
    <3> SUFFICES ASSUME NEW n \in 0 .. j PROVE g[n] \in V
      OBVIOUS
    <3>1. CASE n = 0
      BY <3>1
    <3>2. CASE n # 0
      <4>1. n - 1 \in 0 .. j - 1 /\ n \in 1 .. L
        BY <3>2
      <4>2. f[n - 1] \in V /\ step[n] \in [V -> V]
        BY <4>1
      <4>3. g[n] = step[n][f[n - 1]]
        BY <3>2
      <4> HIDE DEF g
      <4> QED
        BY <4>2, <4>3
    <3> QED
      BY <3>1, <3>2
  <2>6. j \in Nat
    OBVIOUS
  <2> HIDE DEF g, Loop
  <2> QED
    BY <2>4, <2>5, <2>6
<1>3. L \in S
  <2> HIDE DEF S
  <2>1. 0 .. L \subseteq S
    BY <1>1, <1>2, UpTo
  <2> QED
    BY <2>1
<1> QED
  BY <1>3

-----------------------------------------------------------------------------
(* What is kept of a sequence. *)

\* The loop of a filter.
KeptUpTo(s, at, kept) ==
  kept = [n \in 0 .. Len(s) |-> IF n = 0 THEN <<>> ELSE IF n \in at THEN Append(kept[n - 1], s[n]) ELSE kept[n - 1]]

\* The loop of Kept is a function on 0 .. Len(s), and its last value is what is kept.
LEMMA KeptLoop ==
  ASSUME NEW T, NEW s \in Seq(T), NEW at
  PROVE  \E kept \in [0 .. Len(s) -> Seq(T)] : KeptUpTo(s, at, kept) /\ Kept(s, at) = kept[Len(s)]
<1> DEFINE L == Len(s)
           step == [n \in 1 .. L |-> [q \in Seq(T) |-> IF n \in at THEN Append(q, s[n]) ELSE q]]
<1>1. L \in Nat
  OBVIOUS
<1>2. step \in [1 .. L -> [Seq(T) -> Seq(T)]]
  <2> SUFFICES ASSUME NEW n \in 1 .. L, NEW q \in Seq(T) PROVE (IF n \in at THEN Append(q, s[n]) ELSE q) \in Seq(T)
    OBVIOUS
  <2> QED
    OBVIOUS
<1>3. PICK f \in [0 .. L -> Seq(T)] : Looped(f, L, <<>>, step)
  <2>1. <<>> \in Seq(T)
    OBVIOUS
  <2> HIDE DEF step, L
  <2> QED
    BY <1>1, <1>2, <2>1, LoopExists
<1>4. KeptUpTo(s, at, f)
  <2>1. ASSUME NEW n \in 0 .. L
        PROVE  f[n] = IF n = 0 THEN <<>> ELSE IF n \in at THEN Append(f[n - 1], s[n]) ELSE f[n - 1]
    <3>1. CASE n = 0
      BY <1>3, <3>1 DEF Looped
    <3>2. CASE n # 0
      <4>1. n - 1 \in 0 .. L /\ n \in 1 .. L
        BY <3>2
      <4>2. f[n] = step[n][f[n - 1]]
        <5> HIDE DEF step
        <5> QED
          BY <1>3, <3>2 DEF Looped
      <4>3. f[n - 1] \in Seq(T)
        BY <4>1
      <4> QED
        BY <3>2, <4>1, <4>2, <4>3
    <3> QED
      BY <3>1, <3>2
  <2> QED
    BY <2>1 DEF KeptUpTo
<1>5. PICK kept : kept = CHOOSE k : KeptUpTo(s, at, k)
  OBVIOUS
<1>6. KeptUpTo(s, at, kept)
  BY <1>4, <1>5
<1>7. Kept(s, at) = kept[L]
  BY <1>5 DEF Kept, KeptUpTo
<1>8. \A n \in 0 .. L : kept[n] = f[n]
  <2> DEFINE S == {n \in 0 .. L : kept[n] = f[n]}
  <2>1. 0 \in S
    BY <1>4, <1>6 DEF KeptUpTo
  <2>2. ASSUME NEW n \in 1 .. L, n - 1 \in S PROVE n \in S
    <3>1. n \in 0 .. L /\ n # 0
      OBVIOUS
    <3>2. f[n] = IF n \in at THEN Append(f[n - 1], s[n]) ELSE f[n - 1]
      BY <1>4, <3>1 DEF KeptUpTo
    <3>3. kept[n] = IF n \in at THEN Append(kept[n - 1], s[n]) ELSE kept[n - 1]
      BY <1>6, <3>1 DEF KeptUpTo
    <3>4. kept[n - 1] = f[n - 1]
      BY <2>2
    <3>5. kept[n] = f[n]
      <4>1. CASE n \in at
        BY <3>2, <3>3, <3>4, <4>1
      <4>2. CASE n \notin at
        BY <3>2, <3>3, <3>4, <4>2
      <4> QED
        BY <4>1, <4>2
    <3> QED
      BY <3>1, <3>5
  <2> HIDE DEF S
  <2>3. 0 .. L \subseteq S
    BY <1>1, <2>1, <2>2, UpTo
  <2> QED
    BY <2>3 DEF S
<1>9. kept \in [0 .. L -> Seq(T)]
  BY <1>6, <1>8 DEF KeptUpTo
<1> QED
  BY <1>6, <1>7, <1>9

\* q is what is at the positions at of s, up to the n-th.
Picked(p, s, at, n, q) ==
  /\ p \in [1 .. Len(q) -> 1 .. n]
  /\ \A k \in 1 .. Len(q) : p[k] \in at /\ q[k] = s[p[k]]
  /\ \A i \in 1 .. n : i \in at => \E k \in 1 .. Len(q) : p[k] = i
  /\ \A k, l \in 1 .. Len(q) : k < l => p[k] < p[l]

\* One position more: what is kept of it is still picked from s in order.
LEMMA PickedMore ==
  ASSUME NEW T, NEW s \in Seq(T), NEW at, NEW n \in 1 .. Len(s), NEW q \in Seq(T), NEW p,
         Picked(p, s, at, n - 1, q)
  PROVE  \E r : Picked(r, s, at, n, IF n \in at THEN Append(q, s[n]) ELSE q)
<1>1. CASE n \in at
  <2> DEFINE L == Len(q)
             r == [k \in 1 .. L + 1 |-> IF k = L + 1 THEN n ELSE p[k]]
  <2>1. PICK t : t = Append(q, s[n])
    OBVIOUS
  <2>2. L \in Nat /\ Len(t) = L + 1 /\ t[L + 1] = s[n] /\ \A k \in 1 .. L : t[k] = q[k]
    BY <2>1
  <2>3. p \in [1 .. L -> 1 .. n - 1]
    BY DEF Picked
  <2>4. \A k \in 1 .. L : p[k] \in at /\ q[k] = s[p[k]] /\ p[k] \in 1 .. n - 1
    BY <2>3 DEF Picked
  <2>5. r \in [1 .. Len(t) -> 1 .. n]
    BY <2>2, <2>4
  <2>6. \A k \in 1 .. Len(t) : r[k] \in at /\ t[k] = s[r[k]]
    BY <1>1, <2>2, <2>4
  <2>7. ASSUME NEW i \in 1 .. n, i \in at PROVE \E k \in 1 .. Len(t) : r[k] = i
    <3>1. CASE i = n
      BY <2>2, <3>1
    <3>2. CASE i # n
      <4>1. PICK k \in 1 .. L : p[k] = i
        BY <2>7, <3>2 DEF Picked
      <4> QED
        BY <2>2, <4>1
    <3> QED
      BY <3>1, <3>2
  <2>8. ASSUME NEW k \in 1 .. Len(t), NEW l \in 1 .. Len(t), k < l PROVE r[k] < r[l]
    <3>1. CASE l = L + 1
      BY <2>2, <2>4, <2>8, <3>1
    <3>2. CASE l # L + 1
      <4>1. k \in 1 .. L /\ l \in 1 .. L
        BY <2>2, <2>8, <3>2
      <4>2. p[k] < p[l]
        BY <2>8, <4>1 DEF Picked
      <4> QED
        BY <2>2, <4>1, <4>2
    <3> QED
      BY <3>1, <3>2
  <2> HIDE DEF r
  <2>9. Picked(r, s, at, n, t)
    BY <2>5, <2>6, <2>7, <2>8 DEF Picked
  <2> QED
    BY <1>1, <2>1, <2>9
<1>2. CASE n \notin at
  <2>1. \A k \in 1 .. Len(q) : p[k] \in 1 .. n
    BY DEF Picked
  <2>2. \A i \in 1 .. n : i \in at => i \in 1 .. n - 1
    BY <1>2
  <2>3. p \in [1 .. Len(q) -> 1 .. n]
    BY <2>1 DEF Picked
  <2>4. Picked(p, s, at, n, q)
    BY <2>2, <2>3 DEF Picked
  <2> QED
    BY <1>2, <2>4
<1> QED
  BY <1>1, <1>2

\* A filter keeps what it is to keep, in order.
LEMMA KeptIs ==
  ASSUME NEW T, NEW s \in Seq(T), NEW at
  PROVE  /\ Kept(s, at) \in Seq(T)
         /\ \E p : Picked(p, s, at, Len(s), Kept(s, at))
<1>1. PICK kept \in [0 .. Len(s) -> Seq(T)] : KeptUpTo(s, at, kept) /\ Kept(s, at) = kept[Len(s)]
  BY KeptLoop
<1>2. Len(s) \in Nat
  OBVIOUS
<1> DEFINE S == {n \in 0 .. Len(s) : \E p : Picked(p, s, at, n, kept[n])}
<1>3. 0 \in S
  <2>1. kept[0] = <<>>
    BY <1>1, <1>2 DEF KeptUpTo
  <2>2. Picked([k \in 1 .. 0 |-> 0], s, at, 0, kept[0])
    BY <2>1 DEF Picked
  <2> QED
    BY <1>2, <2>2
<1>4. ASSUME NEW n \in 1 .. Len(s), n - 1 \in S PROVE n \in S
  <2>1. PICK p : Picked(p, s, at, n - 1, kept[n - 1])
    BY <1>4
  <2>2. kept[n - 1] \in Seq(T) /\ n \in 0 .. Len(s) /\ n # 0
    BY <1>2
  <2>3. \E r : Picked(r, s, at, n, IF n \in at THEN Append(kept[n - 1], s[n]) ELSE kept[n - 1])
    BY <2>1, <2>2, PickedMore
  <2>4. kept[n] = IF n \in at THEN Append(kept[n - 1], s[n]) ELSE kept[n - 1]
    BY <1>1, <2>2 DEF KeptUpTo
  <2>5. \E r : Picked(r, s, at, n, kept[n])
    BY <2>3, <2>4, Zenon
  <2> QED
    BY <2>2, <2>5
<1>5. Len(s) \in S
  <2> HIDE DEF S
  <2>1. 0 .. Len(s) \subseteq S
    BY <1>2, <1>3, <1>4, UpTo
  <2> QED
    BY <1>2, <2>1
<1> QED
  BY <1>1, <1>2, <1>5

\* What is filtered out and what is kept make up the whole.
LEMMA KeptLengths ==
  ASSUME NEW T, NEW s \in Seq(T), NEW at, NEW rest, \A i \in DOMAIN s : i \in at <=> i \notin rest
  PROVE  Len(Kept(s, at)) + Len(Kept(s, rest)) = Len(s)
<1>1. PICK a \in [0 .. Len(s) -> Seq(T)] : KeptUpTo(s, at, a) /\ Kept(s, at) = a[Len(s)]
  BY KeptLoop
<1>2. PICK b \in [0 .. Len(s) -> Seq(T)] : KeptUpTo(s, rest, b) /\ Kept(s, rest) = b[Len(s)]
  BY KeptLoop
<1>3. Len(s) \in Nat
  OBVIOUS
<1> DEFINE S == {n \in 0 .. Len(s) : Len(a[n]) + Len(b[n]) = n}
<1>4. 0 \in S
  BY <1>1, <1>2, <1>3 DEF KeptUpTo
<1>5. ASSUME NEW n \in 1 .. Len(s), n - 1 \in S PROVE n \in S
  <2>1. /\ n \in 0 .. Len(s) /\ n # 0 /\ n \in DOMAIN s
        /\ a[n - 1] \in Seq(T) /\ b[n - 1] \in Seq(T) /\ Len(a[n - 1]) + Len(b[n - 1]) = n - 1
    BY <1>3, <1>5
  <2>2. a[n] = IF n \in at THEN Append(a[n - 1], s[n]) ELSE a[n - 1]
    BY <1>1, <2>1 DEF KeptUpTo
  <2>3. b[n] = IF n \in rest THEN Append(b[n - 1], s[n]) ELSE b[n - 1]
    BY <1>2, <2>1 DEF KeptUpTo
  <2>4. Len(a[n]) + Len(b[n]) = n
    <3>1. CASE n \in at
      <4>1. a[n] = Append(a[n - 1], s[n]) /\ b[n] = b[n - 1]
        BY <2>1, <2>2, <2>3, <3>1
      <4> QED
        BY <2>1, <4>1
    <3>2. CASE n \notin at
      <4>1. a[n] = a[n - 1] /\ b[n] = Append(b[n - 1], s[n])
        BY <2>1, <2>2, <2>3, <3>2
      <4> QED
        BY <2>1, <4>1
    <3> QED
      BY <3>1, <3>2
  <2> QED
    BY <2>1, <2>4
<1>6. Len(s) \in S
  <2> HIDE DEF S
  <2>1. 0 .. Len(s) \subseteq S
    BY <1>3, <1>4, <1>5, UpTo
  <2> QED
    BY <1>3, <2>1
<1> QED
  BY <1>1, <1>2, <1>6

-----------------------------------------------------------------------------
(* Sequences put together. *)

\* Nothing in front of a sequence changes nothing.
LEMMA EmptyFirst ==
  ASSUME NEW T, NEW s \in Seq(T)
  PROVE  <<>> \o s = s
OBVIOUS

\* The length of a sequence is a number.
LEMMA Length ==
  ASSUME NEW T, NEW s \in Seq(T)
  PROVE  Len(s) \in Nat
OBVIOUS

\* Sequences by their elements.
LEMMA SequenceOf ==
  ASSUME NEW s, NEW T, s \in Seq(T)
  PROVE  s \in Seq(ToSet(s))
<1>1. s \in [1 .. Len(s) -> T] /\ Len(s) \in Nat
  OBVIOUS
<1>2. \A i \in 1 .. Len(s) : s[i] \in ToSet(s)
  BY <1>1 DEF ToSet
<1>3. s \in [1 .. Len(s) -> ToSet(s)]
  BY <1>1, <1>2
<1> QED
  BY <1>1, <1>3

\* LoopExists for sequences that grow at the end.
LEMMA FlattenLoop ==
  ASSUME NEW T, NEW seqs \in Seq(Seq(T))
  PROVE  \E g \in [0 .. Len(seqs) -> Seq(T)] :
           /\ g[0] = <<>> /\ \A n \in 1 .. Len(seqs) : g[n] = g[n - 1] \o seqs[n]
           /\ FlattenSeq(seqs) = g[Len(seqs)]
<1> DEFINE L == Len(seqs)
           step == [n \in 1 .. L |-> [q \in Seq(T) |-> q \o seqs[n]]]
<1>1. L \in Nat
  OBVIOUS
<1>2. step \in [1 .. L -> [Seq(T) -> Seq(T)]]
  <2> SUFFICES ASSUME NEW n \in 1 .. L, NEW q \in Seq(T) PROVE q \o seqs[n] \in Seq(T)
    OBVIOUS
  <2> QED
    OBVIOUS
<1>3. PICK g \in [0 .. L -> Seq(T)] : Looped(g, L, <<>>, step)
  <2>1. <<>> \in Seq(T)
    OBVIOUS
  <2> HIDE DEF step, L
  <2> QED
    BY <1>1, <1>2, <2>1, LoopExists
<1>4. g[0] = <<>>
  BY <1>1, <1>3 DEF Looped
<1>5. ASSUME NEW n \in 1 .. L PROVE g[n] = g[n - 1] \o seqs[n]
  <2>1. n \in 0 .. L /\ n # 0 /\ n - 1 \in 0 .. L
    BY <1>1
  <2>2. g[n] = step[n][g[n - 1]]
    <3> HIDE DEF step
    <3> QED
      BY <1>3, <2>1 DEF Looped
  <2>3. g[n - 1] \in Seq(T)
    BY <2>1
  <2> QED
    BY <2>2, <2>3
<1>6. FlattenSeq(seqs) = g[L]
  <2>1. CASE L = 0
    <3>1. seqs = <<>>
      BY <2>1
    <3> QED
      BY <1>4, <2>1, <3>1 DEF FlattenSeq
  <2>2. CASE L # 0
    <3> DEFINE body(h) == [i \in 1 .. L |-> IF i = 1 THEN seqs[i] ELSE h[i - 1] \o seqs[i]]
    <3>1. PICK h : h = CHOOSE f : f = body(f)
      OBVIOUS
    <3>2. FlattenSeq(seqs) = h[L]
      BY <2>2, <3>1 DEF FlattenSeq
    <3>3. \E f : f = body(f)
      <4> DEFINE f == [i \in 1 .. L |-> g[i]]
      <4>1. ASSUME NEW i \in 1 .. L PROVE f[i] = IF i = 1 THEN seqs[i] ELSE f[i - 1] \o seqs[i]
        <5>1. g[i] = g[i - 1] \o seqs[i]
          BY <1>5
        <5>2. CASE i = 1
          <6>1. seqs[1] \in Seq(T)
            BY <5>2
          <6>2. <<>> \o seqs[1] = seqs[1]
            BY <6>1, EmptyFirst
          <6>3. g[1] = g[0] \o seqs[1]
            <7>1. i - 1 = 0
              BY <5>2
            <7> HIDE DEF f
            <7> QED
              BY <5>1, <5>2, <7>1, Zenon
          <6> QED
            BY <1>4, <5>2, <6>2, <6>3
        <5>3. CASE i # 1
          <6>1. i - 1 \in 1 .. L
            BY <1>1, <5>3
          <6>2. f[i - 1] = g[i - 1] /\ f[i] = g[i]
            BY <6>1
          <6> HIDE DEF f
          <6> QED
            BY <5>1, <5>3, <6>2
        <5> QED
          BY <5>2, <5>3
      <4>2. f = body(f)
        BY <4>1
      <4> HIDE DEF f
      <4> QED
        BY <4>2
    <3>4. h = body(h)
      <4> HIDE DEF body
      <4> QED
        BY <3>1, <3>3
    <3> DEFINE S == {n \in 0 .. L : n = 0 \/ h[n] = g[n]}
    <3>5. 0 \in S
      BY <1>1
    <3>6. ASSUME NEW n \in 1 .. L, n - 1 \in S PROVE n \in S
      <4>1. g[n] = g[n - 1] \o seqs[n]
        BY <1>5
      <4>5. n \in 0 .. L
        BY <1>1
      <4>2. h[n] = IF n = 1 THEN seqs[n] ELSE h[n - 1] \o seqs[n]
        BY <3>4
      <4>3. CASE n = 1
        <5>1. seqs[1] \in Seq(T)
          BY <4>3
        <5>2. <<>> \o seqs[1] = seqs[1]
          BY <5>1, EmptyFirst
        <5>3. g[1] = g[0] \o seqs[1] /\ h[1] = seqs[1]
          <6>1. n - 1 = 0
            BY <4>3
          <6> QED
            BY <4>1, <4>2, <4>3, <6>1, Zenon
        <5> QED
          BY <1>4, <4>3, <4>5, <5>2, <5>3
      <4>4. CASE n # 1
        <5>1. h[n - 1] = g[n - 1]
          BY <3>6, <4>4
        <5> QED
          BY <4>1, <4>2, <4>4, <4>5, <5>1
      <4> QED
        BY <4>3, <4>4
    <3>7. L \in S
      <4> HIDE DEF S
      <4>1. 0 .. L \subseteq S
        BY <1>1, <3>5, <3>6, UpTo
      <4> QED
        BY <1>1, <4>1
    <3> QED
      BY <2>2, <3>2, <3>7
  <2> QED
    BY <2>1, <2>2
<1> QED
  BY <1>3, <1>4, <1>5, <1>6

\* q has the elements of the first n sequences, each once.
Spread(row, col, seqs, n, q) ==
  /\ row \in [1 .. Len(q) -> 1 .. n] /\ col \in [1 .. Len(q) -> Nat]
  /\ \A k \in 1 .. Len(q) : col[k] \in 1 .. Len(seqs[row[k]]) /\ q[k] = seqs[row[k]][col[k]]
  /\ \A i \in 1 .. n : \A j \in 1 .. Len(seqs[i]) : \E k \in 1 .. Len(q) : row[k] = i /\ col[k] = j
  /\ \A k, l \in 1 .. Len(q) : row[k] = row[l] /\ col[k] = col[l] => k = l

\* One sequence more: what is joined so far is still spread over the rows.
LEMMA SpreadMore ==
  ASSUME NEW T, NEW seqs \in Seq(Seq(T)), NEW n \in 1 .. Len(seqs), NEW q \in Seq(T), NEW row, NEW col,
         Spread(row, col, seqs, n - 1, q)
  PROVE  \E r, c : Spread(r, c, seqs, n, q \o seqs[n])
<1> DEFINE L == Len(q)
           M == Len(seqs[n])
           r == [k \in 1 .. L + M |-> IF k <= L THEN row[k] ELSE n]
           c == [k \in 1 .. L + M |-> IF k <= L THEN col[k] ELSE k - L]
<1>1. L \in Nat /\ M \in Nat /\ seqs[n] \in Seq(T)
  OBVIOUS
<1>2. PICK t : t = q \o seqs[n]
  OBVIOUS
<1>3. Len(t) = L + M /\ (\A k \in 1 .. L : t[k] = q[k]) /\ \A k \in 1 .. M : t[L + k] = seqs[n][k]
  BY <1>1, <1>2
<1>4. \A k \in 1 .. L : /\ row[k] \in 1 .. n - 1 /\ col[k] \in Nat
                        /\ col[k] \in 1 .. Len(seqs[row[k]]) /\ q[k] = seqs[row[k]][col[k]]
  BY DEF Spread
<1>5. r \in [1 .. Len(t) -> 1 .. n] /\ c \in [1 .. Len(t) -> Nat]
  BY <1>1, <1>3, <1>4
<1>6. ASSUME NEW k \in 1 .. Len(t) PROVE c[k] \in 1 .. Len(seqs[r[k]]) /\ t[k] = seqs[r[k]][c[k]]
  <2>1. CASE k <= L
    <3>1. k \in 1 .. L /\ r[k] = row[k] /\ c[k] = col[k]
      BY <1>1, <1>3, <2>1
    <3> HIDE DEF L, r, c
    <3> QED
      BY <1>3, <1>4, <3>1
  <2>2. CASE ~(k <= L)
    <3>1. k - L \in 1 .. M /\ k = L + (k - L) /\ r[k] = n /\ c[k] = k - L
      BY <1>1, <1>3, <2>2
    <3> HIDE DEF L, r, c
    <3>2. t[L + (k - L)] = seqs[n][k - L]
      BY <1>3, <3>1
    <3> QED
      BY <3>1, <3>2
  <2> QED
    BY <2>1, <2>2
<1>7. ASSUME NEW i \in 1 .. n, NEW j \in 1 .. Len(seqs[i])
      PROVE  \E k \in 1 .. Len(t) : r[k] = i /\ c[k] = j
  <2>1. CASE i = n
    <3>1. L + j \in 1 .. Len(t) /\ ~(L + j <= L) /\ L + j - L = j
      BY <1>1, <1>3, <2>1
    <3>2. r[L + j] = n /\ c[L + j] = j
      BY <1>3, <3>1
    <3> QED
      BY <2>1, <3>1, <3>2
  <2>2. CASE i # n
    <3>3. i \in 1 .. n - 1
      BY <2>2
    <3>1. PICK k \in 1 .. L : row[k] = i /\ col[k] = j
      BY <3>3 DEF Spread
    <3>2. k \in 1 .. Len(t) /\ r[k] = i /\ c[k] = j
      BY <1>1, <1>3, <3>1
    <3> QED
      BY <3>2
  <2> QED
    BY <2>1, <2>2
<1>8. ASSUME NEW k \in 1 .. Len(t), NEW l \in 1 .. Len(t), r[k] = r[l], c[k] = c[l] PROVE k = l
  <2>1. \A m \in 1 .. Len(t) : /\ m <= L => r[m] = row[m] /\ c[m] = col[m] /\ r[m] \in 1 .. n - 1 /\ m \in 1 .. L
                               /\ ~(m <= L) => r[m] = n /\ c[m] = m - L
    BY <1>1, <1>3, <1>4
  <2> HIDE DEF r, c
  <2>2. CASE k <= L /\ l <= L
    BY <1>8, <2>1, <2>2 DEF Spread
  <2>3. CASE ~(k <= L) /\ ~(l <= L)
    BY <1>1, <1>8, <2>1, <2>3
  <2>4. CASE k <= L /\ ~(l <= L)
    BY <1>8, <2>1, <2>4
  <2>5. CASE ~(k <= L) /\ l <= L
    BY <1>8, <2>1, <2>5
  <2> QED
    BY <2>2, <2>3, <2>4, <2>5
<1> HIDE DEF r, c
<1>9. Spread(r, c, seqs, n, t)
  BY <1>5, <1>6, <1>7, <1>8 DEF Spread
<1> QED
  BY <1>2, <1>9

\* Every element of the sequences is in their concatenation once.
LEMMA FlattenIs ==
  ASSUME NEW T, NEW seqs \in Seq(Seq(T))
  PROVE  /\ FlattenSeq(seqs) \in Seq(T)
         /\ \E row, col : Spread(row, col, seqs, Len(seqs), FlattenSeq(seqs))
<1>1. PICK g \in [0 .. Len(seqs) -> Seq(T)] :
        /\ g[0] = <<>> /\ \A n \in 1 .. Len(seqs) : g[n] = g[n - 1] \o seqs[n]
        /\ FlattenSeq(seqs) = g[Len(seqs)]
  BY FlattenLoop
<1>2. Len(seqs) \in Nat
  OBVIOUS
<1> DEFINE S == {n \in 0 .. Len(seqs) : \E row, col : Spread(row, col, seqs, n, g[n])}
<1>3. 0 \in S
  <2>1. Spread([k \in 1 .. 0 |-> 0], [k \in 1 .. 0 |-> 0], seqs, 0, g[0])
    BY <1>1 DEF Spread
  <2> QED
    BY <1>2, <2>1
<1>4. ASSUME NEW n \in 1 .. Len(seqs), n - 1 \in S PROVE n \in S
  <2>1. PICK row, col : Spread(row, col, seqs, n - 1, g[n - 1])
    BY <1>4
  <2>2. n - 1 \in 0 .. Len(seqs) /\ n \in 0 .. Len(seqs)
    BY <1>2
  <2>5. g[n - 1] \in Seq(T)
    BY <2>2
  <2>3. \E r, c : Spread(r, c, seqs, n, g[n - 1] \o seqs[n])
    BY <2>1, <2>5, SpreadMore
  <2>4. \E r, c : Spread(r, c, seqs, n, g[n])
    BY <1>1, <2>3
  <2> QED
    BY <2>2, <2>4
<1>5. Len(seqs) \in S
  <2> HIDE DEF S
  <2>1. 0 .. Len(seqs) \subseteq S
    BY <1>2, <1>3, <1>4, UpTo
  <2> QED
    BY <1>2, <2>1
<1> QED
  BY <1>1, <1>2, <1>5

\* Lengths that add up item by item add up altogether.
SumUp(a, b, c) ==
  Len(a) = Len(c) /\ Len(b) = Len(c) /\ \A i \in DOMAIN c : Len(a[i]) + Len(b[i]) = Len(c[i])

\* If the rows of two lists are together as long as the rows of a third, so are the lists
\* joined.
LEMMA FlattenLengths ==
  ASSUME NEW T, NEW U, NEW a \in Seq(Seq(T)), NEW b \in Seq(Seq(U)), NEW c \in Seq(Seq(T)), SumUp(a, b, c)
  PROVE  Len(FlattenSeq(a)) + Len(FlattenSeq(b)) = Len(FlattenSeq(c))
<1>0. Len(a) = Len(c) /\ Len(b) = Len(c) /\ \A i \in DOMAIN c : Len(a[i]) + Len(b[i]) = Len(c[i])
  BY DEF SumUp
<1> USE <1>0
<1>1. PICK f \in [0 .. Len(a) -> Seq(T)] :
        /\ f[0] = <<>> /\ \A n \in 1 .. Len(a) : f[n] = f[n - 1] \o a[n]
        /\ FlattenSeq(a) = f[Len(a)]
  BY FlattenLoop
<1>2. PICK g \in [0 .. Len(b) -> Seq(U)] :
        /\ g[0] = <<>> /\ \A n \in 1 .. Len(b) : g[n] = g[n - 1] \o b[n]
        /\ FlattenSeq(b) = g[Len(b)]
  BY FlattenLoop
<1>3. PICK h \in [0 .. Len(c) -> Seq(T)] :
        /\ h[0] = <<>> /\ \A n \in 1 .. Len(c) : h[n] = h[n - 1] \o c[n]
        /\ FlattenSeq(c) = h[Len(c)]
  BY FlattenLoop
<1>4. PICK L \in Nat : L = Len(c)
  OBVIOUS
<1> DEFINE S == {n \in 0 .. L : Len(f[n]) + Len(g[n]) = Len(h[n])}
<1>5. 0 \in S
  BY <1>1, <1>2, <1>3
<1>6. ASSUME NEW n \in 1 .. L, n - 1 \in S PROVE n \in S
  <2>1. f[n] = f[n - 1] \o a[n] /\ g[n] = g[n - 1] \o b[n] /\ h[n] = h[n - 1] \o c[n]
    BY <1>1, <1>2, <1>3, <1>4
  <2>6. n - 1 \in 0 .. L /\ n \in DOMAIN a /\ n \in DOMAIN b /\ n \in DOMAIN c /\ n \in 0 .. L
    BY <1>4
  <2>2. f[n - 1] \in Seq(T) /\ g[n - 1] \in Seq(U) /\ h[n - 1] \in Seq(T)
    BY <1>1, <1>2, <1>3, <1>4, <2>6
  <2>3. a[n] \in Seq(T) /\ b[n] \in Seq(U) /\ c[n] \in Seq(T) /\ Len(a[n]) + Len(b[n]) = Len(c[n])
    <3>1. a[n] \in Seq(T) /\ b[n] \in Seq(U)
      BY <2>6
    <3>2. c[n] \in Seq(T)
      BY <2>6
    <3>3. Len(a[n]) + Len(b[n]) = Len(c[n])
      BY <2>6
    <3> QED
      BY <3>1, <3>2, <3>3
  <2>4. /\ Len(f[n]) = Len(f[n - 1]) + Len(a[n]) /\ Len(g[n]) = Len(g[n - 1]) + Len(b[n])
        /\ Len(h[n]) = Len(h[n - 1]) + Len(c[n])
    BY <2>1, <2>2, <2>3
  <2>5. Len(f[n - 1]) + Len(g[n - 1]) = Len(h[n - 1])
    BY <1>6
  <2>7. Len(f[n]) + Len(g[n]) = Len(h[n])
    <3>1. /\ Len(f[n - 1]) \in Nat /\ Len(g[n - 1]) \in Nat /\ Len(h[n - 1]) \in Nat
          /\ Len(a[n]) \in Nat /\ Len(b[n]) \in Nat /\ Len(c[n]) \in Nat
      BY <2>2, <2>3, Length
    <3>2. PICK x \in Nat, y \in Nat, z \in Nat :
            x = Len(f[n - 1]) /\ y = Len(g[n - 1]) /\ z = Len(h[n - 1])
      BY <3>1
    <3>3. PICK u \in Nat, v \in Nat, w \in Nat : u = Len(a[n]) /\ v = Len(b[n]) /\ w = Len(c[n])
      BY <3>1
    <3>4. Len(f[n]) = x + u /\ Len(g[n]) = y + v /\ Len(h[n]) = z + w
      BY <2>4, <3>2, <3>3, Zenon
    <3>5. x + y = z /\ u + v = w
      BY <2>3, <2>5, <3>2, <3>3, Zenon
    <3>6. x + u + (y + v) = z + w
      BY <3>5
    <3> QED
      BY <3>4, <3>6, Zenon
  <2> QED
    BY <2>6, <2>7
<1>7. L \in S
  <2> HIDE DEF S
  <2>1. 0 .. L \subseteq S
    BY <1>5, <1>6, UpTo
  <2> QED
    BY <2>1
<1> QED
  BY <1>1, <1>2, <1>3, <1>4, <1>7

-----------------------------------------------------------------------------
(* Lists of checks. *)

\* The errors that a list of checks may name.
Errors ==
  {"CatalogMissingWrapper", "CatalogNotObject", "ControlIdEmpty", "ControlIdNotString",
   "ControlMissingId", "ControlNotObject", "ControlsNotArray", "DuplicateId", "EmptyField",
   "EmptyProp", "InvalidI32", "InvalidStatus", "InvalidU64", "InvalidValue", "MalformedDer", "MalformedHex",
   "MalformedScope", "MissingDescription", "MissingOscalVersion", "MissingProp",
   "MissingSubject", "MissingSubjectProp", "ProfileExcludeControlsNotArray",
   "ProfileImportHrefEmpty", "ProfileImportHrefNotString", "ProfileImportMissingHref",
   "ProfileImportNotObject", "ProfileImportUnresolved", "ProfileImportsNotArray",
   "ProfileIncludeControlsNotArray", "ProfileMissingWrapper", "ProfileNotObject",
   "ProfileSetParameterIdEmpty", "ProfileSetParameterMissingId",
   "ProfileSetParameterNotObject", "ProfileSetParameterValueNotString",
   "ProfileSetParameterValuesEmpty", "ProfileSetParameterValuesNotArray",
   "ProfileSetParametersNotArray", "ProfileWithIdsEntryNotObject", "ProfileWithIdsNotArray",
   "RiskNotObject", "SubjectMissingType", "SubjectNotObject", "SubjectsNotArray",
   "UnknownAction", "UnknownParameter", "UnknownSubjectType", "UnsupportedOscalVersion"}
Lists == Seq(BOOLEAN \X Errors)
Failing(checks) == {i \in DOMAIN checks : checks[i][1]}

\* The names of the errors.
LEMMA Named ==
  /\ "CatalogMissingWrapper" \in Errors /\ "CatalogNotObject" \in Errors
  /\ "ControlIdEmpty" \in Errors /\ "ControlIdNotString" \in Errors
  /\ "ControlMissingId" \in Errors /\ "ControlNotObject" \in Errors
  /\ "ControlsNotArray" \in Errors /\ "DuplicateId" \in Errors
  /\ "EmptyField" \in Errors /\ "EmptyProp" \in Errors
  /\ "InvalidI32" \in Errors /\ "InvalidStatus" \in Errors
  /\ "InvalidU64" \in Errors /\ "MalformedDer" \in Errors
  /\ "MalformedHex" \in Errors /\ "MalformedScope" \in Errors
  /\ "MissingDescription" \in Errors /\ "MissingOscalVersion" \in Errors
  /\ "MissingProp" \in Errors /\ "MissingSubject" \in Errors
  /\ "MissingSubjectProp" \in Errors /\ "ProfileExcludeControlsNotArray" \in Errors
  /\ "ProfileImportHrefEmpty" \in Errors /\ "ProfileImportHrefNotString" \in Errors
  /\ "ProfileImportMissingHref" \in Errors /\ "ProfileImportNotObject" \in Errors
  /\ "ProfileImportUnresolved" \in Errors /\ "ProfileImportsNotArray" \in Errors
  /\ "ProfileIncludeControlsNotArray" \in Errors /\ "ProfileMissingWrapper" \in Errors
  /\ "ProfileNotObject" \in Errors /\ "ProfileSetParameterIdEmpty" \in Errors
  /\ "ProfileSetParameterMissingId" \in Errors /\ "ProfileSetParameterNotObject" \in Errors
  /\ "ProfileSetParameterValueNotString" \in Errors /\ "ProfileSetParameterValuesEmpty" \in Errors
  /\ "ProfileSetParameterValuesNotArray" \in Errors /\ "ProfileSetParametersNotArray" \in Errors
  /\ "ProfileWithIdsEntryNotObject" \in Errors /\ "ProfileWithIdsNotArray" \in Errors
  /\ "RiskNotObject" \in Errors /\ "SubjectMissingType" \in Errors
  /\ "SubjectNotObject" \in Errors /\ "SubjectsNotArray" \in Errors
  /\ "UnknownAction" \in Errors /\ "UnknownSubjectType" \in Errors
  /\ "UnsupportedOscalVersion" \in Errors
  /\ "InvalidValue" \in Errors /\ "UnknownParameter" \in Errors
  /\ "Ok" \notin Errors
BY DEF Errors

\* Checks that carry their error, "Ok" in none that fails, say Ok if and only
\* if none fails.
LEMMA OkOf ==
  ASSUME NEW c, DOMAIN c \in SUBSET Nat, \A i \in DOMAIN c : c[i][1] => c[i][2] # "Ok"
  PROVE  FirstError(c) = "Ok" <=> Failing(c) = {}
<1>1. Failing(c) = {} => FirstError(c) = "Ok"
  BY DEF FirstError, Failing
<1>2. ASSUME Failing(c) # {} PROVE FirstError(c) # "Ok"
  <2>1. Failing(c) \in SUBSET Nat
    BY DEF Failing
  <2>2. \E x \in Failing(c) : \A y \in Failing(c) : x <= y
    BY <1>2, <2>1, SmallestNumber
  <2>3. PICK k : k = CHOOSE x \in Failing(c) : \A y \in Failing(c) : x <= y
    OBVIOUS
  <2>4. k \in Failing(c)
    BY <2>2, <2>3
  <2>5. FirstError(c) = c[k][2]
    BY <1>2, <2>3 DEF FirstError, Failing
  <2> QED
    BY <2>4, <2>5 DEF Failing
<1> QED
  BY <1>1, <1>2

\* What the first error of a list is.
LEMMA OkOfList ==
  ASSUME NEW c \in Lists
  PROVE  FirstError(c) \in Errors \cup {"Ok"} /\ (FirstError(c) = "Ok" <=> Failing(c) = {})
<1>1. DOMAIN c \in SUBSET Nat /\ \A i \in DOMAIN c : c[i] \in BOOLEAN \X Errors
  BY DEF Lists
<1>2. "Ok" \notin Errors
  BY Named
<1>3. \A i \in DOMAIN c : c[i][2] # "Ok" /\ c[i][2] \in Errors
  BY <1>1, <1>2
<1>4. FirstError(c) \in Errors \cup {"Ok"}
  <2>1. CASE Failing(c) = {}
    <3>1. FirstError(c) = "Ok"
      BY <2>1 DEF FirstError, Failing
    <3> QED
      BY <3>1
  <2>2. CASE Failing(c) # {}
    <3>1. \E x \in Failing(c) : \A y \in Failing(c) : x <= y
      BY <1>1, <2>2, SmallestNumber DEF Failing
    <3>2. PICK k : k = CHOOSE x \in Failing(c) : \A y \in Failing(c) : x <= y
      OBVIOUS
    <3>3. k \in Failing(c)
      BY <3>1, <3>2
    <3>4. FirstError(c) = c[k][2]
      BY <2>2, <3>2 DEF FirstError, Failing
    <3> QED
      BY <1>3, <3>3, <3>4 DEF Failing
  <2> QED
    BY <2>1, <2>2
<1> QED
  BY <1>1, <1>3, <1>4, OkOf

\* Two lists one after the other.
LEMMA Joined ==
  ASSUME NEW a \in Lists, NEW b \in Lists
  PROVE  /\ a \o b \in Lists
         /\ Failing(a \o b) = {} <=> Failing(a) = {} /\ Failing(b) = {}
<1>1. PICK c : c = a \o b
  OBVIOUS
<1>2. PICK m : m = Len(a)
  OBVIOUS
<1>3. PICK n : n = Len(b)
  OBVIOUS
<1>4. /\ m \in Nat /\ n \in Nat /\ DOMAIN a = 1 .. m /\ DOMAIN b = 1 .. n
      /\ c \in Lists /\ DOMAIN c = 1 .. m + n
      /\ \A i \in 1 .. m : c[i] = a[i]
      /\ \A i \in 1 .. n : c[m + i] = b[i]
  <2> DEFINE S == BOOLEAN \X Errors
  <2>1. a \in Seq(S) /\ b \in Seq(S)
    BY DEF Lists
  <2> HIDE DEF S
  <2>2. m \in Nat /\ n \in Nat /\ DOMAIN a = 1 .. m /\ DOMAIN b = 1 .. n
    BY <1>2, <1>3, <2>1
  <2>3. c \in Seq(S) /\ Len(c) = m + n
    BY <1>1, <1>2, <1>3, <2>1
  <2>4. DOMAIN c = 1 .. m + n
    BY <2>3
  <2>5. \A i \in 1 .. m : c[i] = a[i]
    BY <1>1, <1>2, <1>3, <2>1
  <2>6. \A i \in 1 .. n : c[m + i] = b[i]
    BY <1>1, <1>2, <1>3, <2>1
  <2>7. c \in Lists
    BY <2>3 DEF Lists, S
  <2> QED
    BY <2>2, <2>4, <2>5, <2>6, <2>7
<1>5. \A i \in 1 .. m : i \in Failing(c) <=> i \in Failing(a)
  BY <1>4 DEF Failing
<1>6. \A i \in 1 .. n : m + i \in Failing(c) <=> i \in Failing(b)
  BY <1>4 DEF Failing
<1>7. Failing(a) \subseteq 1 .. m /\ Failing(b) \subseteq 1 .. n /\ Failing(c) \subseteq 1 .. m + n
  BY <1>4 DEF Failing
<1>8. ASSUME NEW i \in Failing(c) PROVE i \in Failing(a) \/ i - m \in Failing(b)
  <2>1. i \in 1 .. m + n
    BY <1>7, <1>8
  <2>2. i \in 1 .. m \/ (i - m \in 1 .. n /\ m + (i - m) = i)
    BY <1>4, <2>1
  <2> QED
    BY <1>5, <1>6, <1>8, <2>2
<1>9. ASSUME NEW i \in Failing(a) PROVE i \in Failing(c)
  BY <1>5, <1>7
<1>10. ASSUME NEW i \in Failing(b) PROVE m + i \in Failing(c)
  BY <1>6, <1>7
<1> QED
  BY <1>1, <1>4, <1>8, <1>9, <1>10

\* The empty list.
LEMMA NoChecks == <<>> \in Lists /\ Failing(<<>>) = {}
BY DEF Lists, Failing

\* A list of one check.
LEMMA List1 ==
  ASSUME NEW r1 \in BOOLEAN \X Errors,
         NEW s, s = <<r1>>
  PROVE  s \in Lists /\ (Failing(s) = {} <=> ~r1[1])
<1> DEFINE S == BOOLEAN \X Errors
<1>1. s \in Seq(S) /\ DOMAIN s = 1 .. 1
  <2>1. r1 \in S
    OBVIOUS
  <2> HIDE DEF S
  <2> QED
    BY <2>1
<1>2. \A i \in Failing(s) : i = 1
  BY <1>1 DEF Failing
<1>3. /\ 1 \in Failing(s) <=> r1[1]
  BY <1>1 DEF Failing
<1>4. Failing(s) = {} <=> ~r1[1]
  BY <1>2, <1>3, Zenon
<1> QED
  BY <1>1, <1>4 DEF Lists

\* A list of two checks.
LEMMA List2 ==
  ASSUME NEW r1 \in BOOLEAN \X Errors, NEW r2 \in BOOLEAN \X Errors,
         NEW s, s = <<r1, r2>>
  PROVE  s \in Lists /\ (Failing(s) = {} <=> ~r1[1] /\ ~r2[1])
<1> DEFINE S == BOOLEAN \X Errors
<1>1. s \in Seq(S) /\ DOMAIN s = 1 .. 2
  <2>1. r1 \in S /\ r2 \in S
    OBVIOUS
  <2> HIDE DEF S
  <2> QED
    BY <2>1
<1>2. \A i \in Failing(s) : i = 1 \/ i = 2
  BY <1>1 DEF Failing
<1>3. /\ 1 \in Failing(s) <=> r1[1]
      /\ 2 \in Failing(s) <=> r2[1]
  BY <1>1 DEF Failing
<1>4. Failing(s) = {} <=> ~r1[1] /\ ~r2[1]
  BY <1>2, <1>3, Zenon
<1> QED
  BY <1>1, <1>4 DEF Lists

\* A list of three checks.
LEMMA List3 ==
  ASSUME NEW r1 \in BOOLEAN \X Errors, NEW r2 \in BOOLEAN \X Errors,
         NEW r3 \in BOOLEAN \X Errors,
         NEW s, s = <<r1, r2, r3>>
  PROVE  s \in Lists /\ (Failing(s) = {} <=> ~r1[1] /\ ~r2[1] /\ ~r3[1])
<1> DEFINE S == BOOLEAN \X Errors
<1>1. s \in Seq(S) /\ DOMAIN s = 1 .. 3
  <2>1. r1 \in S /\ r2 \in S /\ r3 \in S
    OBVIOUS
  <2> HIDE DEF S
  <2> QED
    BY <2>1
<1>2. \A i \in Failing(s) : i = 1 \/ i = 2 \/ i = 3
  BY <1>1 DEF Failing
<1>3. /\ 1 \in Failing(s) <=> r1[1]
      /\ 2 \in Failing(s) <=> r2[1]
      /\ 3 \in Failing(s) <=> r3[1]
  BY <1>1 DEF Failing
<1>4. Failing(s) = {} <=> ~r1[1] /\ ~r2[1] /\ ~r3[1]
  BY <1>2, <1>3, Zenon
<1> QED
  BY <1>1, <1>4 DEF Lists

\* A list of four checks.
LEMMA List4 ==
  ASSUME NEW r1 \in BOOLEAN \X Errors, NEW r2 \in BOOLEAN \X Errors,
         NEW r3 \in BOOLEAN \X Errors, NEW r4 \in BOOLEAN \X Errors,
         NEW s, s = <<r1, r2, r3, r4>>
  PROVE  s \in Lists /\ (Failing(s) = {} <=> ~r1[1] /\ ~r2[1] /\ ~r3[1] /\ ~r4[1])
<1> DEFINE S == BOOLEAN \X Errors
<1>1. s \in Seq(S) /\ DOMAIN s = 1 .. 4
  <2>1. r1 \in S /\ r2 \in S /\ r3 \in S /\ r4 \in S
    OBVIOUS
  <2> HIDE DEF S
  <2> QED
    BY <2>1
<1>2. \A i \in Failing(s) : i = 1 \/ i = 2 \/ i = 3 \/ i = 4
  BY <1>1 DEF Failing
<1>3. /\ 1 \in Failing(s) <=> r1[1]
      /\ 2 \in Failing(s) <=> r2[1]
      /\ 3 \in Failing(s) <=> r3[1]
      /\ 4 \in Failing(s) <=> r4[1]
  BY <1>1 DEF Failing
<1>4. Failing(s) = {} <=> ~r1[1] /\ ~r2[1] /\ ~r3[1] /\ ~r4[1]
  BY <1>2, <1>3, Zenon
<1> QED
  BY <1>1, <1>4 DEF Lists

\* A list of five checks.
LEMMA List5 ==
  ASSUME NEW r1 \in BOOLEAN \X Errors, NEW r2 \in BOOLEAN \X Errors,
         NEW r3 \in BOOLEAN \X Errors, NEW r4 \in BOOLEAN \X Errors,
         NEW r5 \in BOOLEAN \X Errors,
         NEW s, s = <<r1, r2, r3, r4, r5>>
  PROVE  s \in Lists /\ (Failing(s) = {} <=> ~r1[1] /\ ~r2[1] /\ ~r3[1] /\ ~r4[1] /\ ~r5[1])
<1> DEFINE S == BOOLEAN \X Errors
<1>1. s \in Seq(S) /\ DOMAIN s = 1 .. 5
  <2>1. r1 \in S /\ r2 \in S /\ r3 \in S /\ r4 \in S /\ r5 \in S
    OBVIOUS
  <2> HIDE DEF S
  <2> QED
    BY <2>1
<1>2. \A i \in Failing(s) : i = 1 \/ i = 2 \/ i = 3 \/ i = 4 \/ i = 5
  BY <1>1 DEF Failing
<1>3. /\ 1 \in Failing(s) <=> r1[1]
      /\ 2 \in Failing(s) <=> r2[1]
      /\ 3 \in Failing(s) <=> r3[1]
      /\ 4 \in Failing(s) <=> r4[1]
      /\ 5 \in Failing(s) <=> r5[1]
  BY <1>1 DEF Failing
<1>4. Failing(s) = {} <=> ~r1[1] /\ ~r2[1] /\ ~r3[1] /\ ~r4[1] /\ ~r5[1]
  BY <1>2, <1>3, Zenon
<1> QED
  BY <1>1, <1>4 DEF Lists

\* Lists of checks put together: none fails if none fails in any of them.
LEMMA FlattenChecks ==
  ASSUME NEW seqs \in Seq(Lists)
  PROVE  /\ FlattenSeq(seqs) \in Lists
         /\ Failing(FlattenSeq(seqs)) = {} <=> \A i \in DOMAIN seqs : Failing(seqs[i]) = {}
<1> DEFINE T == BOOLEAN \X Errors
<1>1. PICK q : q = FlattenSeq(seqs)
  OBVIOUS
<1>2. seqs \in Seq(Seq(T))
  BY DEF Lists
<1>3. q \in Seq(T) /\ \E row, col : Spread(row, col, seqs, Len(seqs), q)
  <2> HIDE DEF T
  <2> QED
    BY <1>1, <1>2, FlattenIs
<1>4. PICK row, col : Spread(row, col, seqs, Len(seqs), q)
  BY <1>3
<1>5. \A i \in DOMAIN seqs : i \in 1 .. Len(seqs) /\ DOMAIN seqs[i] = 1 .. Len(seqs[i])
  <2> HIDE DEF T
  <2> QED
    BY <1>2
<1>6. DOMAIN q = 1 .. Len(q) /\ \A i \in 1 .. Len(seqs) : i \in DOMAIN seqs
  <2> HIDE DEF T
  <2> QED
    BY <1>2, <1>3
<1> HIDE DEF T
<1>7. ASSUME NEW k \in Failing(q) PROVE \E i \in DOMAIN seqs : Failing(seqs[i]) # {}
  <2>1. /\ k \in 1 .. Len(q) /\ q[k][1] /\ row[k] \in 1 .. Len(seqs)
        /\ col[k] \in 1 .. Len(seqs[row[k]]) /\ q[k] = seqs[row[k]][col[k]]
    BY <1>4, <1>6 DEF Failing, Spread
  <2>2. row[k] \in DOMAIN seqs /\ col[k] \in Failing(seqs[row[k]])
    BY <1>5, <1>6, <2>1 DEF Failing
  <2> QED
    BY <2>2
<1>8. ASSUME NEW i \in DOMAIN seqs, NEW j \in Failing(seqs[i]) PROVE Failing(q) # {}
  <2>1. i \in 1 .. Len(seqs) /\ j \in 1 .. Len(seqs[i]) /\ seqs[i][j][1]
    BY <1>5 DEF Failing
  <2>2. PICK k \in 1 .. Len(q) : row[k] = i /\ col[k] = j
    BY <1>4, <2>1 DEF Spread
  <2>3. q[k] = seqs[i][j]
    BY <1>4, <2>2 DEF Spread
  <2>4. k \in Failing(q)
    BY <1>6, <2>1, <2>3 DEF Failing
  <2> QED
    BY <2>4
<1>9. q \in Lists
  BY <1>3 DEF Lists, T
<1> QED
  BY <1>1, <1>7, <1>8, <1>9

\* A function over the positions of a sequence is one.
LEMMA SameLength ==
  ASSUME NEW S, NEW T, NEW s \in Seq(S), NEW f, f = [i \in DOMAIN s |-> f[i]], \A i \in DOMAIN s : f[i] \in T
  PROVE  f \in Seq(T) /\ Len(f) = Len(s) /\ DOMAIN f = DOMAIN s
<1>1. PICK n \in Nat : n = Len(s) /\ DOMAIN s = 1 .. n
  OBVIOUS
<1>2. f \in [1 .. n -> T]
  BY <1>1
<1>3. f \in Seq(T) /\ DOMAIN f = 1 .. n
  BY <1>2
<1>4. Len(f) = n
  BY <1>3
<1> QED
  BY <1>1, <1>3, <1>4

\* A list with nothing but a refusal.
LEMMA Refusal ==
  ASSUME NEW e \in Errors
  PROVE  << <<TRUE, e>> >> \in Lists /\ Failing(<< <<TRUE, e>> >>) # {}
<1>1. PICK r : r = <<TRUE, e>>
  OBVIOUS
<1>2. r \in BOOLEAN \X Errors /\ r[1]
  BY <1>1
<1> QED
  BY <1>1, <1>2, List1

-----------------------------------------------------------------------------
(* Catalogs. *)

\* check_oscal_version
LEMMA VersionLists ==
  ASSUME NEW d
  PROVE  VersionChecks(d) \in Lists
<1>1. PICK r1, r2 : /\ r1 = <<d.version = "absent", "MissingOscalVersion">>
                    /\ r2 = <<d.version \notin Supported, "UnsupportedOscalVersion">>
  OBVIOUS
<1>2. VersionChecks(d) = <<r1, r2>>
  BY <1>1 DEF VersionChecks
<1>3. r1 \in BOOLEAN \X Errors /\ r2 \in BOOLEAN \X Errors
  BY <1>1, Named
<1> QED
  BY <1>2, <1>3, List2

\* What the checks of a control say.
LEMMA ControlLists ==
  ASSUME NEW c
  PROVE  ControlChecks(c) \in Lists /\ (Failing(ControlChecks(c)) = {} => c.form = "object" /\ c.id # <<>>)
<1>1. CASE c.form # "object"
  <2>1. ControlChecks(c) \in Lists /\ Failing(ControlChecks(c)) # {}
    BY <1>1, Refusal, Named DEF ControlChecks
  <2> QED
    BY <2>1
<1>2. CASE c.form = "object"
  <2>1. PICK r1, r2, r3 : /\ r1 = <<c.idForm = "absent", "ControlMissingId">>
                          /\ r2 = <<c.idForm # "string", "ControlIdNotString">>
                          /\ r3 = <<c.id = <<>>, "ControlIdEmpty">>
    OBVIOUS
  <2>2. ControlChecks(c) = <<r1, r2, r3>>
    BY <1>2, <2>1 DEF ControlChecks
  <2>3. r1 \in BOOLEAN \X Errors /\ r2 \in BOOLEAN \X Errors /\ r3 \in BOOLEAN \X Errors
    BY <2>1, Named
  <2>4. ControlChecks(c) \in Lists /\ (Failing(ControlChecks(c)) = {} => ~r3[1])
    BY <2>2, <2>3, List3
  <2> QED
    BY <1>2, <2>1, <2>4
<1> QED
  BY <1>1, <1>2

\* The checks of a catalog, and the ids of one that passes them.
LEMMA CatalogLists ==
  ASSUME NEW d, IsSource(d)
  PROVE  /\ CatalogChecks(d) \in Lists
         /\ Failing(CatalogChecks(d)) = {} => LintIdsFromCatalog(d) \in Seq(Dotted)
<1>1. CASE d.form # "object"
  <2>1. CatalogChecks(d) \in Lists /\ Failing(CatalogChecks(d)) # {}
    BY <1>1, Refusal, Named DEF CatalogChecks
  <2> QED
    BY <2>1
<1>2. CASE d.form = "object" /\ d.wrapper # "catalog"
  <2>1. CatalogChecks(d) \in Lists /\ Failing(CatalogChecks(d)) # {}
    BY <1>2, Refusal, Named DEF CatalogChecks
  <2> QED
    BY <2>1
<1>3. CASE d.form = "object" /\ d.wrapper = "catalog"
  <2>1. VersionChecks(d) \in Lists
    BY VersionLists
  <2>2. CASE d.controls.form # "array"
    <3>1. PICK c : c = << <<TRUE, "ControlsNotArray">> >>
      OBVIOUS
    <3>2. c \in Lists /\ Failing(c) # {}
      BY <3>1, Refusal, Named
    <3>3. CatalogChecks(d) = VersionChecks(d) \o c
      BY <1>3, <2>2, <3>1 DEF CatalogChecks
    <3>4. CatalogChecks(d) \in Lists /\ Failing(CatalogChecks(d)) # {}
      BY <2>1, <3>2, <3>3, Joined
    <3> QED
      BY <3>4
  <2>3. CASE d.controls.form = "array"
    <3> DEFINE items == d.controls.items
               checks == [i \in DOMAIN items |-> ControlChecks(items[i])]
    <3>1. items \in Seq(ToSet(items)) /\ \A i \in DOMAIN items : IsControl(items[i])
      BY <1>3, <2>3 DEF IsSource, IsArray
    <3>2. \A i \in DOMAIN items : ControlChecks(items[i]) \in Lists
      BY ControlLists
    <3>3. checks \in Seq(Lists) /\ DOMAIN checks = DOMAIN items
      <4> HIDE DEF items
      <4>1. \A i \in DOMAIN items : checks[i] \in Lists
        BY <3>2
      <4> HIDE DEF checks
      <4>2. checks = [i \in DOMAIN items |-> checks[i]]
        BY DEF checks
      <4> QED
        BY <3>1, <4>1, <4>2, SameLength
    <3>4. PICK c : c = FlattenSeq(checks)
      OBVIOUS
    <3>5. c \in Lists /\ (Failing(c) = {} <=> \A i \in DOMAIN checks : Failing(checks[i]) = {})
      <4> HIDE DEF checks
      <4> QED
        BY <3>3, <3>4, FlattenChecks
    <3>6. CatalogChecks(d) = VersionChecks(d) \o c
      BY <1>3, <2>3, <3>4 DEF CatalogChecks
    <3>7. CatalogChecks(d) \in Lists /\ (Failing(CatalogChecks(d)) = {} => Failing(c) = {})
      BY <2>1, <3>5, <3>6, Joined
    <3>8. ASSUME Failing(c) = {} PROVE LintIdsFromCatalog(d) \in Seq(Dotted)
      <4>1. ASSUME NEW i \in DOMAIN items PROVE items[i].id \in Dotted
        <5>1. checks[i] = ControlChecks(items[i]) /\ i \in DOMAIN checks
          BY <3>3
        <5>2. Failing(ControlChecks(items[i])) = {}
          <6> HIDE DEF checks, items
          <6> QED
            BY <3>5, <3>8, <5>1
        <5>3. items[i].form = "object"
          BY <5>2, ControlLists
        <5> QED
          BY <3>1, <5>3 DEF IsControl
      <4>2. PICK f : f = LintIdsFromCatalog(d)
        OBVIOUS
      <4>3. f = [i \in DOMAIN items |-> items[i].id]
        BY <4>2 DEF LintIdsFromCatalog
      <4> HIDE DEF items, checks
      <4>4. f = [i \in DOMAIN items |-> f[i]] /\ \A i \in DOMAIN items : f[i] \in Dotted
        BY <4>1, <4>3
      <4> QED
        BY <3>1, <4>2, <4>4, SameLength
    <3> QED
      BY <3>7, <3>8
  <2> QED
    BY <2>2, <2>3
<1> QED
  BY <1>1, <1>2, <1>3

-----------------------------------------------------------------------------
(* Profiles. *)

\* An override of a parameter, and what resolving a profile comes to.
AnOverride == [param : Dotted, value : STRING]
Outcomes ==
  [result : Errors \cup {"Ok", "ProfileImportCycle", "ProfileImportSourceUnknown"},
   ids : Seq(Dotted), overrides : Seq(AnOverride)]

\* What the checks of a profile say.
LEMMA ProfileLists ==
  ASSUME NEW p
  PROVE  /\ ProfileChecks(p) \in Lists
         /\ Failing(ProfileChecks(p)) = {} => IsA(p, "profile") /\ p.imports.form = "array"
<1>1. CASE p.form # "object"
  <2>1. ProfileChecks(p) \in Lists /\ Failing(ProfileChecks(p)) # {}
    BY <1>1, Refusal, Named DEF ProfileChecks
  <2> QED
    BY <2>1
<1>2. CASE p.form = "object" /\ p.wrapper # "profile"
  <2>1. ProfileChecks(p) \in Lists /\ Failing(ProfileChecks(p)) # {}
    BY <1>2, Refusal, Named DEF ProfileChecks
  <2> QED
    BY <2>1
<1>3. CASE p.form = "object" /\ p.wrapper = "profile"
  <2>1. PICK r : r = <<p.imports.form # "array", "ProfileImportsNotArray">>
    OBVIOUS
  <2>2. PICK c : c = <<r>>
    OBVIOUS
  <2>3. r \in BOOLEAN \X Errors
    BY <2>1, Named
  <2>4. c \in Lists /\ (Failing(c) = {} <=> ~r[1])
    BY <2>2, <2>3, List1
  <2>5. ProfileChecks(p) = VersionChecks(p) \o c
    BY <1>3, <2>1, <2>2 DEF ProfileChecks
  <2>6. ProfileChecks(p) \in Lists /\ (Failing(ProfileChecks(p)) = {} => Failing(c) = {})
    BY <2>4, <2>5, VersionLists, Joined
  <2>7. ~r[1] => p.imports.form = "array"
    BY <2>1
  <2> QED
    BY <1>3, <2>4, <2>6, <2>7 DEF IsA
<1> QED
  BY <1>1, <1>2, <1>3

\* What the checks of an import say.
LEMMA ImportLists ==
  ASSUME NEW imp, NEW sources
  PROVE  /\ ImportChecks(imp, sources) \in Lists
         /\ Failing(ImportChecks(imp, sources)) = {} => imp.form = "object" /\ imp.href \in DOMAIN sources
<1>1. CASE imp.form # "object"
  <2>1. ImportChecks(imp, sources) \in Lists /\ Failing(ImportChecks(imp, sources)) # {}
    BY <1>1, Refusal, Named DEF ImportChecks
  <2> QED
    BY <2>1
<1>2. CASE imp.form = "object"
  <2>1. PICK r1, r2, r3, r4 : /\ r1 = <<imp.href = "absent", "ProfileImportMissingHref">>
                              /\ r2 = <<imp.href = "malformed", "ProfileImportHrefNotString">>
                              /\ r3 = <<imp.href = "", "ProfileImportHrefEmpty">>
                              /\ r4 = <<imp.href \notin DOMAIN sources, "ProfileImportUnresolved">>
    OBVIOUS
  <2>2. PICK c : c = ImportChecks(imp, sources)
    OBVIOUS
  <2>3. c = <<r1, r2, r3, r4>>
    BY <1>2, <2>1, <2>2 DEF ImportChecks
  <2>4. r1 \in BOOLEAN \X Errors /\ r2 \in BOOLEAN \X Errors
    BY <2>1, Named
  <2>5. r3 \in BOOLEAN \X Errors /\ r4 \in BOOLEAN \X Errors
    BY <2>1, Named
  <2>6. c \in Lists /\ (Failing(c) = {} <=> ~r1[1] /\ ~r2[1] /\ ~r3[1] /\ ~r4[1])
    BY <2>3, <2>4, <2>5, List4
  <2>7. ~r4[1] => imp.href \in DOMAIN sources
    BY <2>1
  <2> QED
    BY <1>2, <2>2, <2>6, <2>7
<1> QED
  BY <1>1, <1>2

\* The checks on the directives of an import are a list of checks.
LEMMA DirectiveLists ==
  ASSUME NEW imp
  PROVE  DirectiveChecks(imp) \in Lists
<1>1. PICK r1, r2, r3 :
        /\ r1 = <<~imp.all /\ imp.include.form = "malformed", "ProfileIncludeControlsNotArray">>
        /\ r2 = <<~imp.all /\ imp.include.form = "badEntry", "ProfileWithIdsEntryNotObject">>
        /\ r3 = <<~imp.all /\ imp.include.form = "badIds", "ProfileWithIdsNotArray">>
  OBVIOUS
<1>2. PICK r4, r5, r6 :
        /\ r4 = <<imp.exclude.form = "malformed", "ProfileExcludeControlsNotArray">>
        /\ r5 = <<imp.exclude.form = "badEntry", "ProfileWithIdsEntryNotObject">>
        /\ r6 = <<imp.exclude.form = "badIds", "ProfileWithIdsNotArray">>
  OBVIOUS
<1>3. PICK c : c = DirectiveChecks(imp)
  OBVIOUS
<1>6. c = <<r1, r2, r3, r4, r5, r6>>
  BY <1>1, <1>2, <1>3 DEF DirectiveChecks
<1>4. r1 \in BOOLEAN \X Errors /\ r2 \in BOOLEAN \X Errors /\ r3 \in BOOLEAN \X Errors
  BY <1>1, Named
<1>5. r4 \in BOOLEAN \X Errors /\ r5 \in BOOLEAN \X Errors /\ r6 \in BOOLEAN \X Errors
  BY <1>2, Named
<1> DEFINE S == BOOLEAN \X Errors
<1>7. c \in Seq(S)
  <2> HIDE DEF S
  <2>1. r1 \in S /\ r2 \in S /\ r3 \in S /\ r4 \in S /\ r5 \in S /\ r6 \in S
    BY <1>4, <1>5 DEF S
  <2> QED
    BY <1>6, <2>1
<1> QED
  BY <1>3, <1>7 DEF Lists

\* What the checks of a parameter that is set say.
LEMMA SetParameterLists ==
  ASSUME NEW p
  PROVE  SetParameterChecks(p) \in Lists /\ (Failing(SetParameterChecks(p)) = {} => p.form = "object")
<1>1. CASE p.form # "object"
  <2>1. SetParameterChecks(p) \in Lists /\ Failing(SetParameterChecks(p)) # {}
    BY <1>1, Refusal, Named DEF SetParameterChecks
  <2> QED
    BY <2>1
<1>2. CASE p.form = "object"
  <2>1. PICK r1, r2, r3, r4, r5 :
          /\ r1 = <<p.id = <<"absent">>, "ProfileSetParameterMissingId">>
          /\ r2 = <<p.id = <<>>, "ProfileSetParameterIdEmpty">>
          /\ r3 = <<p.values = "absent", "ProfileSetParameterValuesNotArray">>
          /\ r4 = <<p.values = "", "ProfileSetParameterValuesEmpty">>
          /\ r5 = <<p.values = "malformed", "ProfileSetParameterValueNotString">>
    OBVIOUS
  <2>2. SetParameterChecks(p) = <<r1, r2, r3, r4, r5>>
    BY <1>2, <2>1 DEF SetParameterChecks
  <2>3. r1 \in BOOLEAN \X Errors /\ r2 \in BOOLEAN \X Errors /\ r3 \in BOOLEAN \X Errors
    BY <2>1, Named
  <2>4. r4 \in BOOLEAN \X Errors /\ r5 \in BOOLEAN \X Errors
    BY <2>1, Named
  <2> QED
    BY <1>2, <2>2, <2>3, <2>4, List5
<1> QED
  BY <1>1, <1>2

\* The parameters that a profile sets itself.
OwnOverrides(p) == [i \in DOMAIN p.modify.items |-> [param |-> p.modify.items[i].id, value |-> p.modify.items[i].values]]

\* The checks on the parameters of a profile; when none fails there are none, or all have an
\* id and a value.
LEMMA ParameterLists ==
  ASSUME NEW p, IsSource(p), IsA(p, "profile")
  PROVE  /\ ParameterChecks(p.modify) \in Lists
         /\ Failing(ParameterChecks(p.modify)) = {} =>
              \/ p.modify.form = "absent"
              \/ p.modify.form = "array" /\ OwnOverrides(p) \in Seq(AnOverride)
<1>1. CASE p.modify.form # "array"
  <2>1. PICK r : r = <<p.modify.form # "absent", "ProfileSetParametersNotArray">>
    OBVIOUS
  <2>2. ParameterChecks(p.modify) = <<r>>
    BY <1>1, <2>1 DEF ParameterChecks
  <2>3. r \in BOOLEAN \X Errors
    BY <2>1, Named
  <2>4. ParameterChecks(p.modify) \in Lists /\ (Failing(ParameterChecks(p.modify)) = {} <=> ~r[1])
    BY <2>2, <2>3, List1
  <2>5. ~r[1] => p.modify.form = "absent"
    BY <2>1
  <2> QED
    BY <2>4, <2>5
<1>2. CASE p.modify.form = "array"
  <2> DEFINE items == p.modify.items
             checks == [i \in DOMAIN items |-> SetParameterChecks(items[i])]
  <2>1. items \in Seq(ToSet(items)) /\ \A i \in DOMAIN items : IsSetParameter(items[i])
    BY <1>2 DEF IsSource, IsArray, IsA
  <2>2. \A i \in DOMAIN items : SetParameterChecks(items[i]) \in Lists
    BY SetParameterLists
  <2>3. checks \in Seq(Lists) /\ DOMAIN checks = DOMAIN items
    <3> HIDE DEF items
    <3>1. \A i \in DOMAIN items : checks[i] \in Lists
      BY <2>2
    <3> HIDE DEF checks
    <3>2. checks = [i \in DOMAIN items |-> checks[i]]
      BY DEF checks
    <3> QED
      BY <2>1, <3>1, <3>2, SameLength
  <2>4. PICK c : c = FlattenSeq(checks)
    OBVIOUS
  <2>5. c \in Lists /\ (Failing(c) = {} <=> \A i \in DOMAIN checks : Failing(checks[i]) = {})
    <3> HIDE DEF checks
    <3> QED
      BY <2>3, <2>4, FlattenChecks
  <2>6. ParameterChecks(p.modify) = c
    BY <1>2, <2>4 DEF ParameterChecks
  <2>7. ASSUME Failing(c) = {} PROVE OwnOverrides(p) \in Seq(AnOverride)
    <3>1. ASSUME NEW i \in DOMAIN items PROVE items[i].id \in Dotted /\ items[i].values \in STRING
      <4>1. checks[i] = SetParameterChecks(items[i]) /\ i \in DOMAIN checks
        BY <2>3
      <4>2. Failing(SetParameterChecks(items[i])) = {}
        <5> HIDE DEF checks, items
        <5> QED
          BY <2>5, <2>7, <4>1
      <4>3. items[i].form = "object"
        BY <4>2, SetParameterLists
      <4> QED
        BY <2>1, <4>3 DEF IsSetParameter
    <3>2. PICK f : f = OwnOverrides(p)
      OBVIOUS
    <3>3. f = [i \in DOMAIN items |-> [param |-> items[i].id, value |-> items[i].values]]
      BY <3>2 DEF OwnOverrides
    <3> HIDE DEF items, checks
    <3>4. f = [i \in DOMAIN items |-> f[i]] /\ \A i \in DOMAIN items : f[i] \in AnOverride
      BY <3>1, <3>3 DEF AnOverride
    <3> QED
      BY <2>1, <3>2, <3>4, SameLength
  <2> QED
    BY <1>2, <2>5, <2>6, <2>7
<1> QED
  BY <1>1, <1>2

\* Two sequences put together are one.
LEMMA Concatenated ==
  ASSUME NEW T, NEW a \in Seq(T), NEW b \in Seq(T)
  PROVE  /\ a \o b \in Seq(T) /\ Len(a \o b) = Len(a) + Len(b)
         /\ \A i \in 1 .. Len(a) : (a \o b)[i] = a[i]
         /\ \A i \in 1 .. Len(b) : (a \o b)[Len(a) + i] = b[i]
OBVIOUS

\* A refusal is an outcome.
LEMMA RefusedIs ==
  ASSUME NEW e \in Errors \cup {"Ok", "ProfileImportCycle", "ProfileImportSourceUnknown"}
  PROVE  Refused(e) \in Outcomes
BY DEF Refused, Outcomes

\* What one import brings is an outcome.
LEMMA ImportedIs ==
  ASSUME NEW imp, NEW sources, \A h \in DOMAIN sources : IsSource(sources[h]),
         NEW stack \in SUBSET DOMAIN sources,
         NEW nested \in [SUBSET DOMAIN sources -> [DOMAIN sources -> Outcomes]]
  PROVE  Imported(imp, sources, stack, nested) \in Outcomes
<1>1. PICK checked : checked = FirstError(ImportChecks(imp, sources))
  OBVIOUS
<1>2. PICK source : source = sources[imp.href]
  OBVIOUS
<1>3. PICK catalog : catalog = FirstError(CatalogChecks(source))
  OBVIOUS
<1>4. /\ checked \in Errors \cup {"Ok"}
      /\ checked = "Ok" => imp.href \in DOMAIN sources
  BY <1>1, ImportLists, OkOfList
<1>5. PICK r : r = Imported(imp, sources, stack, nested)
  OBVIOUS
<1>6. r = IF checked # "Ok" THEN Refused(checked)
          ELSE IF IsA(source, "profile")
            THEN IF imp.href \in stack THEN Refused("ProfileImportCycle")
                 ELSE nested[stack \cup {imp.href}][imp.href]
          ELSE IF IsA(source, "catalog")
            THEN IF catalog = "Ok" THEN Resolved(LintIdsFromCatalog(source), <<>>) ELSE Refused(catalog)
          ELSE Refused("ProfileImportSourceUnknown")
  BY <1>1, <1>2, <1>3, <1>5 DEF Imported
<1>7. CASE checked # "Ok"
  BY <1>4, <1>5, <1>6, <1>7, RefusedIs
<1>8. CASE checked = "Ok" /\ IsA(source, "profile")
  <2>1. CASE imp.href \in stack
    BY <1>5, <1>6, <1>8, <2>1, RefusedIs
  <2>2. CASE imp.href \notin stack
    <3>1. stack \cup {imp.href} \in SUBSET DOMAIN sources /\ imp.href \in DOMAIN sources
      BY <1>4, <1>8
    <3>2. nested[stack \cup {imp.href}][imp.href] \in Outcomes
      BY <3>1
    <3> QED
      BY <1>5, <1>6, <1>8, <2>2, <3>2
  <2> QED
    BY <2>1, <2>2
<1>9. CASE checked = "Ok" /\ ~IsA(source, "profile") /\ IsA(source, "catalog")
  <2>1. IsSource(source)
    BY <1>2, <1>4, <1>9
  <2>2. /\ catalog \in Errors \cup {"Ok"}
        /\ catalog = "Ok" => LintIdsFromCatalog(source) \in Seq(Dotted)
    BY <1>3, <2>1, CatalogLists, OkOfList
  <2>3. CASE catalog = "Ok"
    <3>1. <<>> \in Seq(AnOverride)
      OBVIOUS
    <3>2. Resolved(LintIdsFromCatalog(source), <<>>) \in Outcomes
      BY <2>2, <2>3, <3>1 DEF Resolved, Outcomes
    <3> QED
      BY <1>5, <1>6, <1>9, <2>3, <3>2
  <2>4. CASE catalog # "Ok"
    BY <1>5, <1>6, <1>9, <2>2, <2>4, RefusedIs
  <2> QED
    BY <2>3, <2>4
<1>10. CASE checked = "Ok" /\ ~IsA(source, "profile") /\ ~IsA(source, "catalog")
  BY <1>5, <1>6, <1>10, RefusedIs
<1> QED
  BY <1>7, <1>8, <1>9, <1>10

\* An import more makes an outcome of an outcome.
LEMMA ResolveImportIs ==
  ASSUME NEW imp, NEW inner \in Outcomes, NEW acc \in Outcomes
  PROVE  ResolveImport(imp, inner, acc) \in Outcomes
<1>1. PICK bad : bad = IF inner.result = "Ok" THEN FirstError(DirectiveChecks(imp)) ELSE inner.result
  OBVIOUS
<1>2. bad \in Errors \cup {"Ok", "ProfileImportCycle", "ProfileImportSourceUnknown"}
  <2>1. CASE inner.result = "Ok"
    BY <1>1, <2>1, DirectiveLists, OkOfList
  <2>2. CASE inner.result # "Ok"
    BY <1>1, <2>2 DEF Outcomes
  <2> QED
    BY <2>1, <2>2
<1>3. CASE bad # "Ok"
  <2>1. ResolveImport(imp, inner, acc) = Refused(bad)
    BY <1>1, <1>3 DEF ResolveImport
  <2> QED
    BY <1>2, <2>1, RefusedIs
<1>4. CASE bad = "Ok"
  <2>1. PICK chosen : chosen = Selected(imp, inner.ids)
    OBVIOUS
  <2>2. PICK more : more = Fresh(chosen, ToSet(acc.ids))
    OBVIOUS
  <2>3. inner.ids \in Seq(Dotted) /\ acc.ids \in Seq(Dotted)
    BY DEF Outcomes
  <2>4. inner.overrides \in Seq(AnOverride) /\ acc.overrides \in Seq(AnOverride)
    BY DEF Outcomes
  <2>5. chosen \in Seq(Dotted)
    BY <2>1, <2>3, KeptIs DEF Selected
  <2>6. more \in Seq(Dotted)
    BY <2>2, <2>5, KeptIs DEF Fresh
  <2>7. ResolveImport(imp, inner, acc) = Resolved(acc.ids \o more, acc.overrides \o inner.overrides)
    BY <1>1, <1>4, <2>1, <2>2 DEF ResolveImport
  <2>8. acc.ids \o more \in Seq(Dotted)
    BY <2>3, <2>6, Concatenated
  <2>9. acc.overrides \o inner.overrides \in Seq(AnOverride)
    BY <2>4, Concatenated
  <2> QED
    BY <2>7, <2>8, <2>9 DEF Resolved, Outcomes
<1> QED
  BY <1>3, <1>4

\* What one round of the loop over the imports makes of what it has so far.
Round(imp, sources, nested, v) ==
  IF v.acc.result # "Ok" THEN v
  ELSE LET acc == ResolveImport(imp, Imported(imp, sources, v.stack, nested), v.acc)
       IN  [stack |-> IF acc.result = "Ok" /\ IsA(sources[imp.href], "profile")
                        THEN Popped(v.stack \cup {imp.href}, imp.href) ELSE v.stack,
            acc |-> acc]
Rounds(imports, sources, stack, nested, f) ==
  f = [n \in 0 .. Len(imports) |->
         IF n = 0 THEN [stack |-> stack, acc |-> Resolved(<<>>, <<>>)]
         ELSE Round(imports[n], sources, nested, f[n - 1])]

\* A profile that was followed is taken off the stack again: every round
\* starts with the stack that the first one had.
LEMMA RoundIs ==
  ASSUME NEW imp, NEW sources, \A h \in DOMAIN sources : IsSource(sources[h]),
         NEW nested \in [SUBSET DOMAIN sources -> [DOMAIN sources -> Outcomes]],
         NEW stack \in SUBSET DOMAIN sources,
         NEW v \in [stack : {stack}, acc : Outcomes]
  PROVE  Round(imp, sources, nested, v) \in [stack : {stack}, acc : Outcomes]
<1>1. PICK r : r = Round(imp, sources, nested, v)
  OBVIOUS
<1>2. v.stack = stack /\ v.acc \in Outcomes
  OBVIOUS
<1>3. CASE v.acc.result # "Ok"
  BY <1>1, <1>3 DEF Round
<1>4. CASE v.acc.result = "Ok"
  <2>1. PICK inner : inner = Imported(imp, sources, stack, nested)
    OBVIOUS
  <2>2. PICK acc : acc = ResolveImport(imp, inner, v.acc)
    OBVIOUS
  <2>3. inner \in Outcomes
    BY <2>1, ImportedIs
  <2>4. acc \in Outcomes
    BY <1>2, <2>2, <2>3, ResolveImportIs
  <2>5. r = [stack |-> IF acc.result = "Ok" /\ IsA(sources[imp.href], "profile")
                         THEN Popped(stack \cup {imp.href}, imp.href) ELSE stack,
             acc |-> acc]
    BY <1>1, <1>2, <1>4, <2>1, <2>2 DEF Round
  <2>6. ASSUME acc.result = "Ok", IsA(sources[imp.href], "profile") PROVE imp.href \notin stack
    <3>1. inner.result = "Ok"
      <4>1. ASSUME inner.result # "Ok" PROVE acc = Refused(inner.result)
        BY <2>2, <4>1 DEF ResolveImport
      <4> QED
        BY <2>6, <4>1 DEF Refused
    <3>2. PICK checked : checked = FirstError(ImportChecks(imp, sources))
      OBVIOUS
    <3>3. checked = "Ok"
      <4>1. ASSUME checked # "Ok" PROVE inner = Refused(checked)
        BY <2>1, <3>2, <4>1 DEF Imported
      <4> QED
        BY <3>1, <4>1 DEF Refused
    <3>4. ASSUME imp.href \in stack PROVE inner = Refused("ProfileImportCycle")
      BY <2>1, <2>6, <3>2, <3>3, <3>4 DEF Imported
    <3>5. Refused("ProfileImportCycle").result # "Ok"
      BY DEF Refused
    <3> QED
      BY <3>1, <3>4, <3>5
  <2>7. r.stack = stack
    <3>1. ASSUME acc.result = "Ok", IsA(sources[imp.href], "profile") PROVE Popped(stack \cup {imp.href}, imp.href) = stack
      BY <2>6, <3>1 DEF Popped
    <3> QED
      BY <2>5, <3>1
  <2>8. r = [stack |-> stack, acc |-> acc]
    BY <2>5, <2>7
  <2> QED
    BY <1>1, <2>4, <2>8
<1> QED
  BY <1>3, <1>4

\* The loop over the imports has a result after every round.
LEMMA ImportsLoop ==
  ASSUME NEW imports, NEW T, imports \in Seq(T),
         NEW sources, \A h \in DOMAIN sources : IsSource(sources[h]),
         NEW nested \in [SUBSET DOMAIN sources -> [DOMAIN sources -> Outcomes]],
         NEW stack \in SUBSET DOMAIN sources
  PROVE  \E f \in [0 .. Len(imports) -> [stack : {stack}, acc : Outcomes]] :
           /\ Rounds(imports, sources, stack, nested, f)
           /\ ResolveImports(imports, sources, stack, nested) = f[Len(imports)].acc
<1> DEFINE V == [stack : {stack}, acc : Outcomes]
           first == [stack |-> stack, acc |-> Resolved(<<>>, <<>>)]
<1>1. PICK L \in Nat : L = Len(imports)
  OBVIOUS
<1>2. first \in V
  <2>1. <<>> \in Seq(Dotted) /\ <<>> \in Seq(AnOverride)
    OBVIOUS
  <2>2. Resolved(<<>>, <<>>) \in Outcomes
    BY <2>1 DEF Resolved, Outcomes
  <2> QED
    BY <2>2
<1>3. \A imp : \A v \in V : Round(imp, sources, nested, v) \in V
  BY RoundIs
<1> HIDE DEF V, first
<1> DEFINE step == [n \in 1 .. L |-> [v \in V |-> Round(imports[n], sources, nested, v)]]
<1>4. step \in [1 .. L -> [V -> V]]
  BY <1>3
<1>5. PICK g \in [0 .. L -> V] : Looped(g, L, first, step)
  <2> HIDE DEF step
  <2> QED
    BY <1>2, <1>4, LoopExists
<1>6. \A n \in 0 .. L : g[n] = IF n = 0 THEN first ELSE Round(imports[n], sources, nested, g[n - 1])
  <2> SUFFICES ASSUME NEW n \in 0 .. L
               PROVE  g[n] = IF n = 0 THEN first ELSE Round(imports[n], sources, nested, g[n - 1])
    OBVIOUS
  <2>1. CASE n = 0
    BY <1>5, <2>1 DEF Looped
  <2>2. CASE n # 0
    <3>1. n \in 1 .. L /\ n - 1 \in 0 .. L
      BY <2>2
    <3>2. g[n] = step[n][g[n - 1]]
      <4> HIDE DEF step
      <4> QED
        BY <1>5, <2>2 DEF Looped
    <3>3. g[n - 1] \in V
      BY <3>1
    <3> QED
      BY <2>2, <3>1, <3>2, <3>3
  <2> QED
    BY <2>1, <2>2
<1>7. Rounds(imports, sources, stack, nested, g)
  <2>1. g = [n \in 0 .. L |-> IF n = 0 THEN first ELSE Round(imports[n], sources, nested, g[n - 1])]
    BY <1>6
  <2> QED
    BY <1>1, <2>1 DEF Rounds, first
<1>8. PICK f : f = CHOOSE h : Rounds(imports, sources, stack, nested, h)
  OBVIOUS
<1>9. Rounds(imports, sources, stack, nested, f)
  BY <1>7, <1>8
<1>10. ResolveImports(imports, sources, stack, nested) = f[L].acc
  BY <1>1, <1>8 DEF ResolveImports, Rounds, Round
<1>11. f \in [0 .. L -> V]
  <2>1. f = [n \in 0 .. L |-> IF n = 0 THEN first ELSE Round(imports[n], sources, nested, f[n - 1])]
    BY <1>1, <1>9 DEF Rounds, first
  <2> DEFINE S == {n \in 0 .. L : f[n] \in V}
  <2>2. 0 \in S
    BY <1>2, <2>1
  <2>3. ASSUME NEW n \in 1 .. L, n - 1 \in S PROVE n \in S
    <3>1. n \in 0 .. L /\ n # 0 /\ f[n - 1] \in V
      BY <2>3
    <3>2. f[n] = Round(imports[n], sources, nested, f[n - 1])
      BY <2>1, <3>1
    <3> QED
      BY <1>3, <3>1, <3>2
  <2>4. 0 .. L \subseteq S
    <3> HIDE DEF S
    <3> QED
      BY <2>2, <2>3, UpTo
  <2>5. \A n \in 0 .. L : f[n] \in V
    BY <2>4
  <2> QED
    BY <2>1, <2>5
<1> QED
  BY <1>1, <1>9, <1>10, <1>11 DEF V

\* What a profile resolves to is an outcome; its own parameters come last.
LEMMA ResolveInnerIs ==
  ASSUME NEW sources, \A h \in DOMAIN sources : IsSource(sources[h]),
         NEW nested \in [SUBSET DOMAIN sources -> [DOMAIN sources -> Outcomes]],
         NEW stack \in SUBSET DOMAIN sources, NEW p, IsSource(p)
  PROVE  LET r == ResolveInner(p, sources, stack, nested)
         IN  /\ r \in Outcomes
             /\ r.result = "Ok" /\ p.modify.form = "array" =>
                  \E imported \in Seq(AnOverride) :
                    OwnOverrides(p) \in Seq(AnOverride) /\ r.overrides = imported \o OwnOverrides(p)
<1>1. PICK r : r = ResolveInner(p, sources, stack, nested)
  OBVIOUS
<1>2. PICK checked : checked = FirstError(ProfileChecks(p))
  OBVIOUS
<1>3. PICK imported : imported = ResolveImports(p.imports.items, sources, stack, nested)
  OBVIOUS
<1>4. PICK params : params = FirstError(ParameterChecks(p.modify))
  OBVIOUS
<1>5. PICK own : own = OwnOverrides(p)
  OBVIOUS
<1>6. r = IF checked # "Ok" THEN Refused(checked)
          ELSE IF imported.result # "Ok" THEN imported
          ELSE IF params # "Ok" THEN Refused(params)
          ELSE IF p.modify.form = "absent" THEN imported
          ELSE [imported EXCEPT !.overrides = @ \o own]
  BY <1>1, <1>2, <1>3, <1>4, <1>5 DEF ResolveInner, OwnOverrides
<1>7. checked \in Errors \cup {"Ok"} /\ (checked = "Ok" => IsA(p, "profile") /\ p.imports.form = "array")
  BY <1>2, ProfileLists, OkOfList
<1>8. CASE checked # "Ok"
  <2>1. r = Refused(checked)
    BY <1>6, <1>8
  <2>2. r \in Outcomes /\ r.result # "Ok"
    BY <1>7, <1>8, <2>1, RefusedIs DEF Refused
  <2> QED
    BY <1>1, <2>2
<1>9. CASE checked = "Ok"
  <2>1. imported \in Outcomes
    <3>1. PICK items : items = p.imports.items
      OBVIOUS
    <3>2. items \in Seq(ToSet(items))
      BY <1>7, <1>9, <3>1 DEF IsSource, IsArray, IsA
    <3>3. PICK L \in Nat : L = Len(items)
      BY <3>2
    <3>6. \E f \in [0 .. Len(items) -> [stack : {stack}, acc : Outcomes]] :
            /\ Rounds(items, sources, stack, nested, f)
            /\ ResolveImports(items, sources, stack, nested) = f[Len(items)].acc
      BY <3>2, ImportsLoop
    <3>4. PICK f \in [0 .. L -> [stack : {stack}, acc : Outcomes]] : imported = f[L].acc
      BY <1>3, <3>1, <3>3, <3>6
    <3>5. L \in 0 .. L
      OBVIOUS
    <3> QED
      BY <3>4, <3>5
  <2>2. /\ params \in Errors \cup {"Ok"}
        /\ params = "Ok" => \/ p.modify.form = "absent"
                            \/ p.modify.form = "array" /\ own \in Seq(AnOverride)
    BY <1>4, <1>5, <1>7, <1>9, ParameterLists, OkOfList
  <2>3. CASE imported.result # "Ok"
    BY <1>1, <1>6, <1>9, <2>1, <2>3
  <2>4. CASE imported.result = "Ok" /\ params # "Ok"
    <3>1. r = Refused(params)
      BY <1>6, <1>9, <2>4
    <3>2. r \in Outcomes /\ r.result # "Ok"
      BY <2>2, <2>4, <3>1, RefusedIs DEF Refused
    <3> QED
      BY <1>1, <3>2
  <2>5. CASE imported.result = "Ok" /\ params = "Ok" /\ p.modify.form = "absent"
    <3>1. r = imported
      BY <1>6, <1>9, <2>5
    <3> QED
      BY <1>1, <2>1, <2>5, <3>1
  <2>6. CASE imported.result = "Ok" /\ params = "Ok" /\ p.modify.form # "absent"
    <3>1. r = [imported EXCEPT !.overrides = @ \o own]
      BY <1>6, <1>9, <2>6
    <3>2. own \in Seq(AnOverride) /\ imported.overrides \in Seq(AnOverride)
      BY <2>1, <2>2, <2>6 DEF Outcomes
    <3>3. imported.overrides \o own \in Seq(AnOverride)
      BY <3>2, Concatenated
    <3>4. r \in Outcomes /\ r.overrides = imported.overrides \o own
      BY <2>1, <3>1, <3>3 DEF Outcomes
    <3> QED
      BY <1>1, <1>5, <3>2, <3>4
  <2> QED
    BY <2>3, <2>4, <2>5, <2>6
<1> QED
  BY <1>8, <1>9

\* What the profiles among the sources resolve to, level by level.
Level(sources, n, below) ==
  [stack \in SUBSET DOMAIN sources |-> [href \in DOMAIN sources |->
     IF n = 0 THEN Refused("ProfileImportCycle")
     ELSE ResolveInner(sources[href], sources, stack, below)]]
Levels(sources, f) == f = [n \in 0 .. Cardinality(DOMAIN sources) |-> Level(sources, n, f[n - 1])]

\* A level of Nested over a level of outcomes is one of outcomes.
LEMMA LevelIs ==
  ASSUME NEW sources, \A h \in DOMAIN sources : IsSource(sources[h]),
         NEW n, NEW below \in [SUBSET DOMAIN sources -> [DOMAIN sources -> Outcomes]]
  PROVE  Level(sources, n, below) \in [SUBSET DOMAIN sources -> [DOMAIN sources -> Outcomes]]
<1>1. ASSUME NEW stack \in SUBSET DOMAIN sources, NEW href \in DOMAIN sources
      PROVE  (IF n = 0 THEN Refused("ProfileImportCycle")
              ELSE ResolveInner(sources[href], sources, stack, below)) \in Outcomes
  <2>1. Refused("ProfileImportCycle") \in Outcomes
    BY RefusedIs
  <2>2. ResolveInner(sources[href], sources, stack, below) \in Outcomes
    BY ResolveInnerIs
  <2> QED
    BY <2>1, <2>2
<1> QED
  BY <1>1 DEF Level

\* Nested is the last of as many levels of outcomes as there are sources.
LEMMA NestedIs ==
  ASSUME NEW sources, \A h \in DOMAIN sources : IsSource(sources[h]), IsFiniteSet(DOMAIN sources)
  PROVE  \E f \in [0 .. Cardinality(DOMAIN sources) -> [SUBSET DOMAIN sources -> [DOMAIN sources -> Outcomes]]] :
           Levels(sources, f) /\ Nested(sources) = f[Cardinality(DOMAIN sources)]
<1> DEFINE V == [SUBSET DOMAIN sources -> [DOMAIN sources -> Outcomes]]
<1>1. PICK L \in Nat : L = Cardinality(DOMAIN sources)
  BY FS_CardinalityType
<1>2. \A n : \A v \in V : Level(sources, n, v) \in V
  BY LevelIs
<1>3. \A v : Level(sources, 0, v) \in V
  <2>1. Refused("ProfileImportCycle") \in Outcomes
    BY RefusedIs
  <2> QED
    BY <2>1 DEF Level
<1>4. \A v, w : Level(sources, 0, v) = Level(sources, 0, w)
  BY DEF Level
<1> HIDE DEF V
<1>5. PICK first : first = Level(sources, 0, 0)
  OBVIOUS
<1> DEFINE step == [n \in 1 .. L |-> [v \in V |-> Level(sources, n, v)]]
<1>6. step \in [1 .. L -> [V -> V]] /\ first \in V
  BY <1>2, <1>3, <1>5
<1>7. PICK g \in [0 .. L -> V] : Looped(g, L, first, step)
  <2> HIDE DEF step
  <2> QED
    BY <1>6, LoopExists
<1>8. \A n \in 0 .. L : g[n] = Level(sources, n, g[n - 1])
  <2> SUFFICES ASSUME NEW n \in 0 .. L PROVE g[n] = Level(sources, n, g[n - 1])
    OBVIOUS
  <2>1. CASE n = 0
    <3>1. g[0] = first
      BY <1>7, <2>1 DEF Looped
    <3> QED
      BY <1>4, <1>5, <2>1, <3>1
  <2>2. CASE n # 0
    <3>1. n \in 1 .. L /\ n - 1 \in 0 .. L
      BY <2>2
    <3>2. g[n] = step[n][g[n - 1]]
      <4> HIDE DEF step
      <4> QED
        BY <1>7, <2>2 DEF Looped
    <3>3. g[n - 1] \in V
      BY <3>1
    <3> QED
      BY <3>1, <3>2, <3>3
  <2> QED
    BY <2>1, <2>2
<1>9. Levels(sources, g)
  <2>1. g = [n \in 0 .. L |-> Level(sources, n, g[n - 1])]
    BY <1>8
  <2> QED
    BY <1>1, <2>1 DEF Levels
<1>10. PICK f : f = CHOOSE h : Levels(sources, h)
  OBVIOUS
<1>11. Levels(sources, f)
  BY <1>9, <1>10
<1>12. Nested(sources) = f[L]
  BY <1>1, <1>10 DEF Nested, Levels, Level
<1>13. f \in [0 .. L -> V]
  <2>1. f = [n \in 0 .. L |-> Level(sources, n, f[n - 1])]
    BY <1>1, <1>11 DEF Levels
  <2> DEFINE S == {n \in 0 .. L : f[n] \in V}
  <2>2. 0 \in S
    BY <1>3, <2>1
  <2>3. ASSUME NEW n \in 1 .. L, n - 1 \in S PROVE n \in S
    <3>1. n \in 0 .. L /\ f[n - 1] \in V
      BY <2>3
    <3>2. f[n] = Level(sources, n, f[n - 1])
      BY <2>1, <3>1
    <3> QED
      BY <1>2, <3>1, <3>2
  <2>4. 0 .. L \subseteq S
    <3> HIDE DEF S
    <3> QED
      BY <2>2, <2>3, UpTo
  <2>5. \A n \in 0 .. L : f[n] \in V
    BY <2>4
  <2> QED
    BY <2>1, <2>5
<1> QED
  BY <1>1, <1>11, <1>12, <1>13 DEF V

-----------------------------------------------------------------------------
(* Runners that are composed. *)

\* The greatest of some numbers up to a number.
LEMMA GreatestNumber ==
  ASSUME NEW N \in Nat, NEW S \in SUBSET (0 .. N), S # {}
  PROVE  \E x \in S : \A y \in S : y <= x
<1> DEFINE T == {N - x : x \in S}
<1>1. T \in SUBSET Nat /\ T # {}
  <2>1. \A x \in S : N - x \in Nat
    OBVIOUS
  <2>2. PICK x : x \in S
    OBVIOUS
  <2>3. N - x \in T
    BY <2>2
  <2> QED
    BY <2>1, <2>3
<1>2. PICK t \in T : \A u \in T : t <= u
  <2> HIDE DEF T
  <2> QED
    BY <1>1, SmallestNumber
<1>3. PICK x \in S : t = N - x
  OBVIOUS
<1>4. ASSUME NEW y \in S PROVE y <= x
  <2>1. N - y \in T
    OBVIOUS
  <2>2. t <= N - y
    <3> HIDE DEF T
    <3> QED
      BY <1>2, <2>1
  <2> QED
    BY <1>3, <2>2
<1> QED
  BY <1>4

\* A filter that keeps everything.
LEMMA KeptAll ==
  ASSUME NEW T, NEW s \in Seq(T), NEW at, \A i \in DOMAIN s : i \in at
  PROVE  Kept(s, at) = s
<1>1. PICK a \in [0 .. Len(s) -> Seq(T)] : KeptUpTo(s, at, a) /\ Kept(s, at) = a[Len(s)]
  BY KeptLoop
<1>2. Len(s) \in Nat /\ DOMAIN s = 1 .. Len(s)
  OBVIOUS
<1> DEFINE S == {n \in 0 .. Len(s) : Len(a[n]) = n /\ \A i \in 1 .. n : a[n][i] = s[i]}
<1>3. 0 \in S
  BY <1>1, <1>2 DEF KeptUpTo
<1>4. ASSUME NEW n \in 1 .. Len(s), n - 1 \in S PROVE n \in S
  <2>1. n \in 0 .. Len(s) /\ n # 0 /\ n \in DOMAIN s /\ s[n] \in T /\ a[n - 1] \in Seq(T)
    BY <1>2, <1>4
  <2>2. a[n] = Append(a[n - 1], s[n])
    BY <1>1, <2>1 DEF KeptUpTo
  <2>3. Len(a[n - 1]) = n - 1 /\ \A i \in 1 .. n - 1 : a[n - 1][i] = s[i]
    BY <1>4
  <2>4. PICK q \in Seq(T) : q = a[n - 1]
    BY <2>1
  <2>5. PICK x \in T : x = s[n]
    BY <2>1
  <2>6. Len(Append(q, x)) = n /\ Append(q, x)[n] = x /\ \A i \in 1 .. n - 1 : Append(q, x)[i] = q[i]
    BY <2>3, <2>4
  <2>7. \A i \in 1 .. n : i = n \/ i \in 1 .. n - 1
    OBVIOUS
  <2>8. a[n] = Append(q, x)
    BY <2>2, <2>4, <2>5, Zenon
  <2>9. Len(a[n]) = n /\ \A i \in 1 .. n : a[n][i] = s[i]
    BY <2>3, <2>4, <2>5, <2>6, <2>7, <2>8
  <2> QED
    BY <2>1, <2>9
<1>5. Len(s) \in S
  <2> HIDE DEF S
  <2>1. 0 .. Len(s) \subseteq S
    BY <1>2, <1>3, <1>4, UpTo
  <2> QED
    BY <1>2, <2>1
<1>6. PICK q \in Seq(T) : q = Kept(s, at)
  BY <1>1, <1>2
<1>7. Len(q) = Len(s) /\ \A i \in 1 .. Len(s) : q[i] = s[i]
  BY <1>1, <1>5, <1>6
<1>8. q = s
  BY <1>7
<1> QED
  BY <1>6, <1>8

\* What was not seen, each element once.
LEMMA FreshIs ==
  ASSUME NEW T, NEW s \in Seq(T), NEW seen
  PROVE  /\ Fresh(s, seen) \in Seq(T)
         /\ \A k, l \in DOMAIN Fresh(s, seen) : Fresh(s, seen)[k] = Fresh(s, seen)[l] => k = l
         /\ ToSet(Fresh(s, seen)) = ToSet(s) \ seen
<1> DEFINE at == {i \in DOMAIN s : s[i] \notin seen /\ \A j \in 1..(i - 1) : s[j] # s[i]}
<1>1. PICK q : q = Fresh(s, seen)
  OBVIOUS
<1>2. q = Kept(s, at)
  BY <1>1 DEF Fresh
<1>3. q \in Seq(T) /\ \E p : Picked(p, s, at, Len(s), q)
  <2> HIDE DEF at
  <2> QED
    BY <1>2, KeptIs
<1>4. PICK p : Picked(p, s, at, Len(s), q)
  BY <1>3
<1>5. PICK n \in Nat : n = Len(s) /\ DOMAIN s = 1 .. n
  OBVIOUS
<1>6. PICK m \in Nat : m = Len(q) /\ DOMAIN q = 1 .. m
  BY <1>3
<1>7. \A k \in 1 .. m : p[k] \in 1 .. n /\ p[k] \in at /\ q[k] = s[p[k]]
  BY <1>4, <1>5, <1>6 DEF Picked
<1>8. ASSUME NEW k \in 1 .. m, NEW l \in 1 .. m, k < l PROVE q[k] # q[l]
  <2>1. p[k] < p[l]
    BY <1>4, <1>6, <1>8 DEF Picked
  <2>2. p[k] \in 1 .. (p[l] - 1)
    BY <1>7, <2>1
  <2>3. \A j \in 1 .. (p[l] - 1) : s[j] # s[p[l]]
    BY <1>7
  <2> QED
    BY <1>7, <2>2, <2>3
<1>9. ASSUME NEW k \in 1 .. m, NEW l \in 1 .. m, q[k] = q[l] PROVE k = l
  <2>1. ~(k < l) /\ ~(l < k)
    BY <1>8, <1>9
  <2> QED
    BY <2>1
<1>10. ASSUME NEW x \in ToSet(q) PROVE x \in ToSet(s) \ seen
  <2>1. PICK k \in 1 .. m : x = q[k]
    BY <1>6 DEF ToSet
  <2>2. x = s[p[k]] /\ p[k] \in DOMAIN s /\ s[p[k]] \notin seen
    BY <1>7, <2>1
  <2> QED
    BY <2>2 DEF ToSet
<1>11. ASSUME NEW x \in ToSet(s) \ seen PROVE x \in ToSet(q)
  <2> DEFINE I == {i \in 1 .. n : s[i] = x}
  <2>1. I \in SUBSET Nat /\ I # {}
    BY <1>5 DEF ToSet
  <2>2. PICK i \in I : \A j \in I : i <= j
    <3> HIDE DEF I
    <3> QED
      BY <2>1, SmallestNumber
  <2>3. ASSUME NEW j \in 1 .. (i - 1) PROVE s[j] # s[i]
    <3>1. j \in 1 .. n /\ ~(i <= j)
      OBVIOUS
    <3>2. j \notin I
      <4> HIDE DEF I
      <4> QED
        BY <2>2, <3>1
    <3> QED
      BY <3>1, <3>2
  <2>4. i \in at /\ i \in 1 .. n
    BY <1>5, <2>3
  <2>5. PICK k \in 1 .. m : p[k] = i
    <3> HIDE DEF at
    <3> QED
      BY <1>4, <1>5, <1>6, <2>4 DEF Picked
  <2>6. q[k] = x
    BY <1>7, <2>5
  <2> QED
    BY <1>6, <2>6 DEF ToSet
<1> QED
  BY <1>1, <1>3, <1>6, <1>9, <1>10, <1>11

\* Lints as a runner has them.
RunnerLints ==
  {l \in [id : Dotted \ {<<>>}, scope : {"Certificate", "Path"}, kind : STRING, params : SUBSET Dotted,
          values : UNION {[P -> STRING] : P \in SUBSET Dotted}] : l.values \in [l.params -> STRING]}
\* A runner has lints of ids of their own.
Unique(s) == \A i, j \in DOMAIN s : s[i].id = s[j].id => i = j
IsRunner(s) == s \in Seq(RunnerLints) /\ Unique(s)

\* The lints a process starts with make a runner: each has an id of its own.
LEMMA RegistryIs == IsRunner(Registry)
<1>1. /\ Registry \in Seq(ToSet(Registry))
      /\ \A i, j \in DOMAIN Registry : Registry[i].id = Registry[j].id => i = j
      /\ \A i \in DOMAIN Registry : IsLint(Registry[i])
  BY SessionAssumption
<1>2. \A i \in DOMAIN Registry : Registry[i] \in RunnerLints
  BY <1>1 DEF IsLint, RunnerLints
<1>3. Registry \in Seq(RunnerLints)
  BY <1>1, <1>2
<1> QED
  BY <1>1, <1>3 DEF IsRunner, Unique

\* filter_to_ids makes a runner with a lint for each id, in their order.
LEMMA FilterIs ==
  ASSUME NEW old, IsRunner(old), NEW ids \in Seq(Dotted)
  PROVE  LET r == FilterToIds(old, ids)
         IN  /\ IsRunner(r.lints)
             /\ r.result = "Ok" <=> \A i \in DOMAIN ids : \E j \in DOMAIN old : old[j].id = ids[i]
             /\ r.result = "Ok" => /\ DOMAIN r.lints = DOMAIN Fresh(ids, {})
                                   /\ \A i \in DOMAIN r.lints : /\ r.lints[i] \in ToSet(old)
                                                                /\ r.lints[i].id = Fresh(ids, {})[i]
<1>1. PICK once : once = Fresh(ids, {})
  OBVIOUS
<1>2. PICK r : r = FilterToIds(old, ids)
  OBVIOUS
<1> DEFINE Lint(id) == CHOOSE l \in ToSet(old) : l.id = id
<1>3. /\ once \in Seq(Dotted)
      /\ \A k, l \in DOMAIN once : once[k] = once[l] => k = l
      /\ ToSet(once) = ToSet(ids) \ {}
  BY <1>1, FreshIs
<1>4. CASE \E i \in DOMAIN ids : \A j \in DOMAIN old : old[j].id # ids[i]
  <2>1. r = [result |-> "UnknownLintId", lints |-> old]
    BY <1>2, <1>4 DEF FilterToIds
  <2> QED
    BY <1>2, <1>4, <2>1
<1>5. CASE ~(\E i \in DOMAIN ids : \A j \in DOMAIN old : old[j].id # ids[i])
  <2>1. PICK new : new = [i \in DOMAIN once |-> Lint(once[i])]
    OBVIOUS
  <2>2. r = [result |-> "Ok", lints |-> new]
    BY <1>1, <1>2, <1>5, <2>1 DEF FilterToIds
  <2>3. ASSUME NEW i \in DOMAIN once PROVE new[i] \in ToSet(old) /\ new[i].id = once[i]
    <3>1. once[i] \in ToSet(ids)
      BY <1>3 DEF ToSet
    <3>2. PICK j \in DOMAIN old : old[j].id = once[i]
      BY <1>5, <3>1 DEF ToSet
    <3>3. old[j] \in ToSet(old)
      BY DEF ToSet
    <3>4. PICK l : l = Lint(once[i])
      OBVIOUS
    <3>5. l \in ToSet(old) /\ l.id = once[i]
      BY <3>2, <3>3, <3>4
    <3> HIDE DEF Lint
    <3> QED
      BY <2>1, <3>4, <3>5
  <2>4. ToSet(old) \subseteq RunnerLints
    BY DEF IsRunner, ToSet
  <2>5. new \in Seq(RunnerLints) /\ DOMAIN new = DOMAIN once
    <3>1. new = [i \in DOMAIN once |-> new[i]]
      <4> HIDE DEF Lint
      <4> QED
        BY <2>1
    <3>2. \A i \in DOMAIN once : new[i] \in RunnerLints
      BY <2>3, <2>4
    <3> QED
      BY <1>3, <3>1, <3>2, SameLength
  <2>6. Unique(new)
    <3> SUFFICES ASSUME NEW i \in DOMAIN new, NEW j \in DOMAIN new, new[i].id = new[j].id PROVE i = j
      BY DEF Unique
    <3>1. once[i] = once[j]
      BY <2>3, <2>5
    <3> QED
      BY <1>3, <2>5, <3>1
  <2>7. IsRunner(new)
    BY <2>5, <2>6 DEF IsRunner
  <2>8. r.result = "Ok" /\ r.lints = new
    BY <2>2
  <2>9. \A i \in DOMAIN new : new[i] \in ToSet(old) /\ new[i].id = once[i]
    BY <2>3, <2>5
  <2> HIDE DEF Lint
  <2> QED
    BY <1>1, <1>2, <1>5, <2>5, <2>7, <2>8, <2>9
<1> QED
  BY <1>4, <1>5

\* The owner of a parameter is the lint with the longest id that starts it.
LEMMA OwnerIs ==
  ASSUME NEW old, IsRunner(old), NEW param \in Dotted
  PROVE  LET o == OwnerOf(old, param)
         IN  \/ o = 0 /\ \A i \in DOMAIN old : ~IsStrictPrefix(old[i].id, param)
             \/ /\ o \in DOMAIN old /\ IsStrictPrefix(old[o].id, param)
                /\ \A j \in DOMAIN old : IsStrictPrefix(old[j].id, param) => Len(old[j].id) <= Len(old[o].id)
<1> DEFINE owners == {i \in DOMAIN old : IsStrictPrefix(old[i].id, param)}
<1>1. CASE owners = {}
  BY <1>1 DEF OwnerOf
<1>2. CASE owners # {}
  <2>1. PICK n \in Nat : n = Len(old) /\ DOMAIN old = 1 .. n
    BY DEF IsRunner
  <2>2. \A i \in DOMAIN old : old[i].id \in Seq(STRING)
    BY DEF IsRunner, RunnerLints, Dotted
  <2>3. \A i \in owners : Len(old[i].id) \in Nat
    BY <2>2
  <2> DEFINE lengths == {Len(old[i].id) : i \in owners}
  <2>4. Len(param) \in Nat /\ lengths \in SUBSET (0 .. Len(param))
    <3>1. Len(param) \in Nat
      BY DEF Dotted
    <3>2. \A i \in owners : Len(old[i].id) <= Len(param)
      BY DEF IsStrictPrefix, IsPrefix
    <3>3. \A i \in owners : Len(old[i].id) \in 0 .. Len(param)
      <4> HIDE DEF owners
      <4> QED
        BY <2>3, <3>1, <3>2
    <3> QED
      BY <3>1, <3>3
  <2>5. lengths # {}
    BY <1>2
  <2>6. PICK x \in lengths : \A y \in lengths : y <= x
    <3> HIDE DEF lengths
    <3> QED
      BY <2>4, <2>5, GreatestNumber
  <2>7. PICK i \in owners : x = Len(old[i].id)
    OBVIOUS
  <2>8. \A j \in owners : Len(old[j].id) \in lengths
    OBVIOUS
  <2>9. \A j \in owners : Len(old[i].id) >= Len(old[j].id)
    <3> SUFFICES ASSUME NEW j \in owners PROVE Len(old[i].id) >= Len(old[j].id)
      OBVIOUS
    <3>1. Len(old[j].id) <= x
      <4> HIDE DEF lengths, owners
      <4> QED
        BY <2>6, <2>8
    <3>2. Len(old[i].id) \in Nat /\ Len(old[j].id) \in Nat
      BY <2>3
    <3> HIDE DEF owners
    <3> QED
      BY <2>7, <3>1, <3>2
  <2>10. PICK o : o = CHOOSE k \in owners : \A j \in owners : Len(old[k].id) >= Len(old[j].id)
    OBVIOUS
  <2>11. OwnerOf(old, param) = o
    BY <1>2, <2>10 DEF OwnerOf
  <2>12. o \in owners /\ \A j \in owners : Len(old[o].id) >= Len(old[j].id)
    BY <2>9, <2>10
  <2>13. \A j \in owners : Len(old[j].id) <= Len(old[o].id)
    <3> HIDE DEF owners
    <3> QED
      BY <2>3, <2>12
  <2> QED
    BY <2>11, <2>12, <2>13
<1> QED
  BY <1>1, <1>2

\* set_parameter accepts only what a lint declares.
LEMMA SetParameterIs ==
  ASSUME NEW l, NEW name, NEW value, SetParameterError(l, name, value) = "Ok"
  PROVE  name \in l.params
<1>1. PICK r1, r2 : r1 = <<name \notin l.params, "UnknownParameter">> /\ r2 = <<~Accepts[value], "InvalidValue">>
  OBVIOUS
<1>2. PICK c : c = <<r1, r2>>
  OBVIOUS
<1>3. SetParameterError(l, name, value) = FirstError(c)
  BY <1>1, <1>2 DEF SetParameterError
<1>4. r1 \in BOOLEAN \X Errors /\ r2 \in BOOLEAN \X Errors
  BY <1>1, Named
<1>5. c \in Lists /\ (Failing(c) = {} <=> ~r1[1] /\ ~r2[1])
  BY <1>2, <1>4, List2
<1>6. ~r1[1]
  BY <1>3, <1>5, OkOfList
<1> QED
  BY <1>1, <1>6

\* What the clones are, when the overrides of a runner are applied.
LEMMA ClonesAre ==
  ASSUME NEW old, IsRunner(old), NEW overrides \in Seq(AnOverride), NEW i \in DOMAIN old
  PROVE  LET c == Clones(old, overrides, Len(overrides))[i]
         IN  /\ c \in RunnerLints
             /\ c.id = old[i].id /\ c.params = old[i].params
             /\ \A name \in old[i].params :
                  LET S == Setters(old, overrides, Len(overrides), i, name)
                  IN  /\ S = {} => c.values[name] = old[i].values[name]
                      /\ \A m \in S : (\A k \in S : k <= m) => c.values[name] = overrides[m].value
<1>1. PICK L \in Nat : L = Len(overrides) /\ DOMAIN overrides = 1 .. L
  OBVIOUS
<1>2. PICK l \in RunnerLints : l = old[i]
  BY DEF IsRunner
<1>3. PICK v : v = [name \in DOMAIN l.values |-> Value(old, overrides, L, i, name)]
  OBVIOUS
<1>4. PICK c : c = Clones(old, overrides, L)[i]
  OBVIOUS
<1>5. c = [l EXCEPT !.values = v]
  BY <1>2, <1>3, <1>4 DEF Clones
<1>6. DOMAIN l.values = l.params /\ l.params \in SUBSET Dotted
  BY DEF RunnerLints
<1>7. ASSUME NEW name \in l.params
      PROVE  LET S == Setters(old, overrides, L, i, name)
             IN  /\ v[name] \in STRING
                 /\ S = {} => v[name] = l.values[name]
                 /\ \A m \in S : (\A k \in S : k <= m) => v[name] = overrides[m].value
  <2>1. PICK S : S = Setters(old, overrides, L, i, name)
    OBVIOUS
  <2>2. S \in SUBSET (1 .. L)
    BY <2>1 DEF Setters
  <2>3. v[name] = Value(old, overrides, L, i, name)
    BY <1>3, <1>6
  <2>4. CASE S = {}
    <3>1. v[name] = l.values[name]
      BY <1>2, <2>1, <2>3, <2>4 DEF Value
    <3>2. l.values[name] \in STRING
      BY DEF RunnerLints
    <3> QED
      BY <2>1, <2>4, <3>1, <3>2
  <2>5. CASE S # {}
    <3>1. \E m \in S : \A k \in S : k <= m
      <4>1. S \in SUBSET (0 .. L)
        BY <2>2
      <4> QED
        BY <2>5, <4>1, GreatestNumber
    <3>2. PICK m : m = CHOOSE n \in S : \A k \in S : k <= n
      OBVIOUS
    <3>3. m \in S /\ \A k \in S : k <= m
      BY <3>1, <3>2
    <3>4. v[name] = overrides[m].value
      BY <2>1, <2>3, <2>5, <3>2 DEF Value
    <3>5. overrides[m] \in AnOverride
      BY <1>1, <2>2, <3>3
    <3>6. ASSUME NEW n \in S, \A k \in S : k <= n PROVE n = m
      <4>1. n \in Nat /\ m \in Nat /\ n <= m /\ m <= n
        BY <2>2, <3>3, <3>6
      <4> QED
        BY <4>1
    <3> QED
      BY <2>1, <2>5, <3>4, <3>5, <3>6 DEF AnOverride
  <2> QED
    BY <2>4, <2>5
<1>8. v \in [l.params -> STRING]
  BY <1>3, <1>6, <1>7
<1>9. v \in UNION {[P -> STRING] : P \in SUBSET Dotted}
  BY <1>6, <1>8
<1>10. c \in RunnerLints /\ c.id = l.id /\ c.params = l.params /\ c.values = v
  BY <1>5, <1>8, <1>9 DEF RunnerLints
<1> QED
  BY <1>1, <1>2, <1>4, <1>7, <1>10

\* apply_parameter_overrides leaves everything as it is or gives each
\* parameter the last of the values that are set.
Applied(old, overrides, r) ==
  /\ IsRunner(r.lints)
  /\ r.result # "Ok" => r.lints = old
  /\ r.result = "Ok" =>
       /\ DOMAIN r.lints = DOMAIN old
       /\ \A i \in DOMAIN old : r.lints[i].id = old[i].id /\ r.lints[i].params = old[i].params
       /\ \A n \in DOMAIN overrides :
            /\ OwnerOf(old, overrides[n].param) # 0
            /\ Unqualified(old, overrides[n].param) \in old[OwnerOf(old, overrides[n].param)].params
       /\ \A i \in DOMAIN old : \A name \in old[i].params :
            LET S == Setters(old, overrides, Len(overrides), i, name)
            IN  /\ S = {} => r.lints[i].values[name] = old[i].values[name]
                /\ \A m \in S : (\A k \in S : k <= m) => r.lints[i].values[name] = overrides[m].value

\* apply_parameter_overrides: the lints as they were if it fails, and if not, lints of the same
\* ids of which each parameter has the value of the last override that sets it.
LEMMA OverridesIs ==
  ASSUME NEW old, IsRunner(old), NEW overrides \in Seq(AnOverride)
  PROVE  Applied(old, overrides, ApplyParameterOverrides(old, overrides))
<1>1. PICK r : r = ApplyParameterOverrides(old, overrides)
  OBVIOUS
<1> DEFINE Owner(o) == OwnerOf(old, o.param)
           Sets(o) == SetParameterError(old[Owner(o)], Unqualified(old, o.param), o.value)
           bad == {n \in DOMAIN overrides : Sets(overrides[n]) # "Ok"}
<1>2. PICK clones : clones = Clones(old, overrides, Len(overrides))
  OBVIOUS
<1>3. CASE \E n \in DOMAIN overrides : Owner(overrides[n]) = 0
  <2>1. r = [result |-> "UnknownParameterOverride", lints |-> old]
    BY <1>1, <1>3 DEF ApplyParameterOverrides
  <2>2. r.result # "Ok" /\ r.lints = old
    BY <2>1
  <2> QED
    BY <1>1, <2>2 DEF Applied
<1>4. CASE (\A n \in DOMAIN overrides : Owner(overrides[n]) # 0) /\ bad # {}
  <2>1. r.result # "Ok" /\ r.lints = old
    BY <1>1, <1>4 DEF ApplyParameterOverrides, Committed
  <2> QED
    BY <1>1, <2>1 DEF Applied
<1>5. CASE (\A n \in DOMAIN overrides : Owner(overrides[n]) # 0) /\ bad = {}
  <2>1. r.result = "Ok" /\ r.lints = clones
    BY <1>1, <1>2, <1>5 DEF ApplyParameterOverrides, Committed
  <2>2. ASSUME NEW n \in DOMAIN overrides
        PROVE  Owner(overrides[n]) # 0 /\ Unqualified(old, overrides[n].param) \in old[Owner(overrides[n])].params
    <3>1. Sets(overrides[n]) = "Ok"
      BY <1>5
    <3> QED
      BY <1>5, <3>1, SetParameterIs
  <2>3. DOMAIN clones = DOMAIN old /\ clones = [i \in DOMAIN old |-> clones[i]]
    BY <1>2 DEF Clones
  <2>4. \A i \in DOMAIN old : clones[i] \in RunnerLints /\ clones[i].id = old[i].id /\ clones[i].params = old[i].params
    BY <1>2, ClonesAre
  <2>5. \A i \in DOMAIN old : \A name \in old[i].params :
          LET S == Setters(old, overrides, Len(overrides), i, name)
          IN  /\ S = {} => clones[i].values[name] = old[i].values[name]
              /\ \A m \in S : (\A k \in S : k <= m) => clones[i].values[name] = overrides[m].value
    BY <1>2, ClonesAre
  <2>6. old \in Seq(RunnerLints)
    BY DEF IsRunner
  <2>7. clones \in Seq(RunnerLints)
    BY <2>3, <2>4, <2>6, SameLength
  <2>8. Unique(clones)
    BY <2>3, <2>4 DEF IsRunner, Unique
  <2> HIDE DEF Sets, bad
  <2> QED
    BY <1>1, <2>1, <2>2, <2>3, <2>4, <2>5, <2>7, <2>8 DEF IsRunner, Applied
<1> QED
  BY <1>3, <1>4, <1>5

-----------------------------------------------------------------------------
(* Every runner a session composes has lints of its own ids. *)

\* What a profile was resolved to.
PlanIs ==
  plan.at \in {"resolved", "filtered"} =>
    /\ plan = [at |-> plan.at, profile |-> plan.profile, ids |-> plan.ids, overrides |-> plan.overrides]
    /\ plan.ids \in Seq(Dotted) /\ plan.overrides \in Seq(AnOverride)
    /\ plan.profile.modify.form = "array" =>
         \E imported \in Seq(AnOverride) :
           /\ OwnOverrides(plan.profile) \in Seq(AnOverride)
           /\ plan.overrides = imported \o OwnOverrides(plan.profile)

\* The lints of a session are a runner, and the plan is one.
Composed == IsRunner(lints) /\ PlanIs

\* What is assumed of the sources a profile may import.
LEMMA SourcesAre == IsFiniteSet(DOMAIN Sources) /\ \A h \in DOMAIN Sources : IsSource(Sources[h])
BY SessionAssumption

\* A session starts with a runner.
LEMMA ComposedFirst == Init => Composed
<1> SUFFICES ASSUME Init PROVE Composed
  OBVIOUS
<1>1. IsRunner(lints)
  BY RegistryIs DEF Init
<1>2. plan.at = "none"
  BY DEF Init, NoPlan
<1> QED
  BY <1>1, <1>2 DEF Composed, PlanIs

\* resolve_profile changes no lint and leaves a plan of ids and overrides.
LEMMA ResolveComposed ==
  ASSUME Composed, NEW p \in Profiles, Resolve(p)
  PROVE  Composed'
<1>1. IsSource(p)
  BY SessionAssumption
<1>2. PICK nested : nested = Nested(Sources)
  OBVIOUS
<1>3. nested \in [SUBSET DOMAIN Sources -> [DOMAIN Sources -> Outcomes]]
  <2>1. PICK L : L = Cardinality(DOMAIN Sources)
    OBVIOUS
  <2>2. L \in Nat
    BY <2>1, SourcesAre, FS_CardinalityType
  <2>3. PICK f \in [0 .. L -> [SUBSET DOMAIN Sources -> [DOMAIN Sources -> Outcomes]]] : nested = f[L]
    BY <1>2, <2>1, SourcesAre, NestedIs
  <2>4. L \in 0 .. L
    BY <2>2
  <2> QED
    BY <2>3, <2>4
<1>4. PICK r : r = ResolveInner(p, Sources, {}, nested)
  OBVIOUS
<1>5. r = ResolveProfile(p, Sources)
  BY <1>2, <1>4 DEF ResolveProfile
<1>6. /\ r \in Outcomes
      /\ r.result = "Ok" /\ p.modify.form = "array" =>
           \E imported \in Seq(AnOverride) :
             OwnOverrides(p) \in Seq(AnOverride) /\ r.overrides = imported \o OwnOverrides(p)
  <2>1. {} \in SUBSET DOMAIN Sources
    OBVIOUS
  <2> QED
    BY <1>1, <1>3, <1>4, <2>1, SourcesAre, ResolveInnerIs
<1>7. /\ plan' = [at |-> IF r.result = "Ok" THEN "resolved" ELSE "failed",
                  profile |-> p, ids |-> r.ids, overrides |-> r.overrides]
      /\ lints' = lints
  BY <1>5 DEF Resolve
<1>8. IsRunner(lints')
  BY <1>7 DEF Composed
<1>9. PlanIs'
  <2> SUFFICES ASSUME plan'.at \in {"resolved", "filtered"}
               PROVE  /\ plan' = [at |-> plan'.at, profile |-> plan'.profile, ids |-> plan'.ids,
                                  overrides |-> plan'.overrides]
                      /\ plan'.ids \in Seq(Dotted) /\ plan'.overrides \in Seq(AnOverride)
                      /\ plan'.profile.modify.form = "array" =>
                           \E imported \in Seq(AnOverride) :
                             /\ OwnOverrides(plan'.profile) \in Seq(AnOverride)
                             /\ plan'.overrides = imported \o OwnOverrides(plan'.profile)
    BY DEF PlanIs
  <2>1. r.result = "Ok" /\ plan'.profile = p /\ plan'.ids = r.ids /\ plan'.overrides = r.overrides
    BY <1>7
  <2>2. r.ids \in Seq(Dotted) /\ r.overrides \in Seq(AnOverride)
    BY <1>6 DEF Outcomes
  <2>3. plan' = [at |-> plan'.at, profile |-> plan'.profile, ids |-> plan'.ids, overrides |-> plan'.overrides]
    BY <1>7
  <2> QED
    BY <1>6, <2>1, <2>2, <2>3
<1> QED
  BY <1>8, <1>9 DEF Composed

\* filter_to_ids composes a runner, or changes nothing.
LEMMA FilterComposed ==
  ASSUME Composed, Filter
  PROVE  Composed'
<1>1. PICK r : r = FilterToIds(lints, plan.ids)
  OBVIOUS
<1>2. /\ lints' = r.lints
      /\ plan' = [plan EXCEPT !.at = IF r.result = "Ok" THEN "filtered" ELSE "failed"]
  BY <1>1 DEF Filter
<1>3. /\ plan = [at |-> plan.at, profile |-> plan.profile, ids |-> plan.ids, overrides |-> plan.overrides]
      /\ plan.ids \in Seq(Dotted) /\ plan.overrides \in Seq(AnOverride)
      /\ plan.profile.modify.form = "array" =>
           \E imported \in Seq(AnOverride) :
             /\ OwnOverrides(plan.profile) \in Seq(AnOverride)
             /\ plan.overrides = imported \o OwnOverrides(plan.profile)
  BY DEF Composed, PlanIs, Filter
<1>4. IsRunner(lints')
  BY <1>1, <1>2, <1>3, FilterIs DEF Composed
<1>5. /\ plan'.profile = plan.profile /\ plan'.ids = plan.ids /\ plan'.overrides = plan.overrides
      /\ plan' = [at |-> plan'.at, profile |-> plan'.profile, ids |-> plan'.ids, overrides |-> plan'.overrides]
  BY <1>2, <1>3
<1>6. PlanIs'
  BY <1>3, <1>5 DEF PlanIs
<1> QED
  BY <1>4, <1>6 DEF Composed

\* apply_parameter_overrides leaves a runner, whether it fails or not.
LEMMA OverrideComposed ==
  ASSUME Composed, Override
  PROVE  Composed'
<1>1. PICK r : r = ApplyParameterOverrides(lints, plan.overrides)
  OBVIOUS
<1>2. /\ lints' = r.lints
      /\ plan' = [plan EXCEPT !.at = IF r.result = "Ok" THEN "applied" ELSE "failed"]
  BY <1>1 DEF Override
<1>3. /\ plan = [at |-> plan.at, profile |-> plan.profile, ids |-> plan.ids, overrides |-> plan.overrides]
      /\ plan.overrides \in Seq(AnOverride)
  BY DEF Composed, PlanIs, Override
<1>4. IsRunner(lints')
  BY <1>1, <1>2, <1>3, OverridesIs DEF Composed, Applied
<1>5. plan'.at \in {"applied", "failed"}
  BY <1>2, <1>3
<1>6. PlanIs'
  BY <1>5 DEF PlanIs
<1> QED
  BY <1>4, <1>6 DEF Composed

\* The ids of a runner's own catalog are its own.
LEMMA OwnIds ==
  ASSUME NEW old, IsRunner(old)
  PROVE  LET ids == LintIdsFromCatalog(CatalogFromLints(old))
         IN  /\ ids \in Seq(Dotted) /\ DOMAIN ids = DOMAIN old
             /\ \A i \in DOMAIN old : ids[i] = old[i].id
<1>1. PICK ids : ids = LintIdsFromCatalog(CatalogFromLints(old))
  OBVIOUS
<1>2. old \in Seq(RunnerLints)
  BY DEF IsRunner
<1>3. ids = [i \in DOMAIN old |-> old[i].id]
  BY <1>1 DEF LintIdsFromCatalog, CatalogFromLints
<1>4. \A i \in DOMAIN old : ids[i] = old[i].id /\ ids[i] \in Dotted
  BY <1>2, <1>3 DEF RunnerLints
<1>5. ids = [i \in DOMAIN old |-> ids[i]]
  BY <1>3
<1>6. ids \in Seq(Dotted) /\ DOMAIN ids = DOMAIN old
  BY <1>2, <1>4, <1>5, SameLength
<1> QED
  BY <1>1, <1>4, <1>6

\* The runner of a catalog of its own lints is a runner.
LEMMA CatalogComposed ==
  ASSUME Composed, ReloadCatalog
  PROVE  Composed'
<1>1. lints' = FilterToIds(lints, LintIdsFromCatalog(CatalogFromLints(lints))).lints /\ plan' = plan
  BY DEF ReloadCatalog
<1>2. IsRunner(lints')
  BY <1>1, OwnIds, FilterIs DEF Composed
<1>3. PlanIs'
  BY <1>1 DEF Composed, PlanIs
<1> QED
  BY <1>2, <1>3 DEF Composed

\* Whatever a session does, its lints are a runner.
LEMMA ComposedStays == Composed /\ [Next]_vars => Composed'
<1> SUFFICES ASSUME Composed, [Next]_vars PROVE Composed'
  OBVIOUS
<1>1. CASE lints' = lints /\ plan' = plan
  BY <1>1 DEF Composed, PlanIs
<1>2. ASSUME NEW p \in Profiles, Resolve(p) PROVE Composed'
  BY <1>2, ResolveComposed
<1>3. CASE Filter
  BY <1>3, FilterComposed
<1>4. CASE Override
  BY <1>4, OverrideComposed
<1>5. CASE ReloadCatalog
  BY <1>5, CatalogComposed
<1>6. CASE UNCHANGED vars
  BY <1>1, <1>6 DEF vars
<1>7. ASSUME NEW d \in Offered, AddDeviation(d) PROVE Composed'
  BY <1>1, <1>7 DEF AddDeviation
<1>8. CASE SaveAndLoad
  BY <1>1, <1>8 DEF SaveAndLoad
<1>9. ASSUME NEW json \in Risks, LoadRisks(json) PROVE Composed'
  BY <1>1, <1>9 DEF LoadRisks
<1>10. ASSUME NEW c \in Chains, NEW now \in Times, RunChain(c.certs, c.kinds, now) PROVE Composed'
  BY <1>1, <1>10 DEF RunChain, RunOf
<1>11. ASSUME NEW c \in Chains, NEW now \in Times, RunWholePath(c.certs, now) PROVE Composed'
  BY <1>1, <1>11 DEF RunWholePath, RunOf
<1>12. ASSUME NEW c \in Chains, c.certs # <<>>, RunCertAtIssuance(c.certs[1], c.kinds[1]) PROVE Composed'
  BY <1>1, <1>12 DEF RunCertAtIssuance, RunOf
<1>13. CASE EmitReport
  BY <1>1, <1>13 DEF EmitReport
<1> QED
  BY <1>2, <1>3, <1>4, <1>5, <1>6, <1>7, <1>8, <1>9, <1>10, <1>11, <1>12, <1>13 DEF Next

-----------------------------------------------------------------------------
(* What the loops of run_cert, run_path and apply_deviations report. *)

\* What a lint says, and what is reported of it.
Said == Results \cup {"NotApplicable"}
Reported == [lint : Dotted, result : Said, index : Int, sha : STRING \cup {"none"}, at : Nat]

\* The loop over the lints ends at the first fatal result.
LEMMA StopsAtIs ==
  ASSUME NEW S, NEW results \in Seq(S)
  PROVE  /\ StopsAt(results) \in 0 .. Len(results)
         /\ \A i \in 1 .. StopsAt(results) - 1 : results[i] # "Fatal"
         /\ StopsAt(results) < Len(results) => StopsAt(results) # 0 /\ results[StopsAt(results)] = "Fatal"
<1>1. PICK L \in Nat : L = Len(results) /\ DOMAIN results = 1 .. L
  OBVIOUS
<1> DEFINE fatal == {i \in DOMAIN results : results[i] = "Fatal"}
<1>2. CASE fatal = {}
  <2>1. StopsAt(results) = L
    BY <1>1, <1>2 DEF StopsAt
  <2>2. \A i \in 1 .. L - 1 : results[i] # "Fatal"
    BY <1>1, <1>2
  <2> QED
    BY <1>1, <2>1, <2>2
<1>3. CASE fatal # {}
  <2>1. PICK n : n = CHOOSE i \in fatal : \A j \in fatal : i <= j
    OBVIOUS
  <2>2. StopsAt(results) = n
    BY <1>3, <2>1 DEF StopsAt
  <2>3. \E i \in fatal : \A j \in fatal : i <= j
    <3>1. fatal \in SUBSET Nat
      BY <1>1
    <3> HIDE DEF fatal
    <3> QED
      BY <1>3, <3>1, SmallestNumber
  <2>4. n \in fatal /\ \A j \in fatal : n <= j
    BY <2>1, <2>3
  <2>5. n \in 1 .. L /\ results[n] = "Fatal"
    BY <1>1, <2>4
  <2>6. \A i \in 1 .. n - 1 : results[i] # "Fatal"
    <3> SUFFICES ASSUME NEW i \in 1 .. n - 1, results[i] = "Fatal" PROVE FALSE
      OBVIOUS
    <3>1. i \in fatal
      BY <1>1, <2>5
    <3>2. n <= i
      BY <2>4, <3>1
    <3> QED
      BY <2>5, <3>2
  <2> QED
    BY <1>1, <2>2, <2>5, <2>6
<1> QED
  BY <1>2, <1>3

\* The lints of a scope, in the order of the runner.
LEMMA OfScopeIs ==
  ASSUME IsRunner(lints), NEW scope
  PROVE  LET mine == OfScope(scope)
         IN  /\ mine \in Seq(RunnerLints)
             /\ \E p : /\ p \in [DOMAIN mine -> DOMAIN lints]
                       /\ \A k \in DOMAIN mine : mine[k] = lints[p[k]] /\ lints[p[k]].scope = scope
                       /\ \A l \in DOMAIN lints : lints[l].scope = scope => \E k \in DOMAIN mine : p[k] = l
                       /\ \A k, l \in DOMAIN mine : k < l => p[k] < p[l]
<1>1. PICK at : at = {i \in DOMAIN lints : lints[i].scope = scope}
  OBVIOUS
<1>2. PICK mine : mine = Kept(lints, at)
  OBVIOUS
<1>3. OfScope(scope) = mine
  BY <1>1, <1>2 DEF OfScope
<1>4. lints \in Seq(RunnerLints)
  BY DEF IsRunner
<1>5. PICK p : mine \in Seq(RunnerLints) /\ Picked(p, lints, at, Len(lints), mine)
  BY <1>2, <1>4, KeptIs
<1>6. DOMAIN mine = 1 .. Len(mine) /\ DOMAIN lints = 1 .. Len(lints)
  BY <1>4, <1>5
<1>7. /\ p \in [1 .. Len(mine) -> 1 .. Len(lints)]
      /\ \A k \in 1 .. Len(mine) : p[k] \in at /\ mine[k] = lints[p[k]]
      /\ \A i \in 1 .. Len(lints) : i \in at => \E k \in 1 .. Len(mine) : p[k] = i
      /\ \A k, l \in 1 .. Len(mine) : k < l => p[k] < p[l]
  BY <1>5 DEF Picked
<1>8. p \in [DOMAIN mine -> DOMAIN lints]
  BY <1>6, <1>7
<1>9. \A k \in DOMAIN mine : mine[k] = lints[p[k]] /\ lints[p[k]].scope = scope
  BY <1>1, <1>6, <1>7
<1>10. \A l \in DOMAIN lints : lints[l].scope = scope => \E k \in DOMAIN mine : p[k] = l
  BY <1>1, <1>6, <1>7
<1>11. \A k, l \in DOMAIN mine : k < l => p[k] < p[l]
  BY <1>6, <1>7
<1> QED
  BY <1>3, <1>5, <1>8, <1>9, <1>10, <1>11

\* One result for every lint of the scope up to the first that is fatal.
HasResult(raw, id) == \E k \in DOMAIN raw : raw[k].lint = id
FatalBefore(raw, l) ==
  \E n \in 1 .. (l - 1) : \E k \in DOMAIN raw : raw[k].lint = lints[n].id /\ raw[k].result = "Fatal"
ItemIs(raw, scope, index) ==
  /\ raw \in Seq(Reported)
  /\ \A k \in DOMAIN raw : raw[k].index = index
  /\ \A k, l \in DOMAIN raw : raw[k].lint = raw[l].lint => k = l
  /\ \A l \in DOMAIN lints : lints[l].scope = scope => (HasResult(raw, lints[l].id) <=> ~FatalBefore(raw, l))

\* The loop over the lints of a scope: each reports once, in order, up to the first fatal result.
LEMMA EvaluateIs ==
  ASSUME IsRunner(lints), NEW scope, NEW results,
         results = [i \in DOMAIN OfScope(scope) |-> results[i]],
         \A i \in DOMAIN OfScope(scope) : results[i] \in Said,
         NEW index \in Int, NEW sha \in STRING \cup {"none"}, NEW now \in Nat
  PROVE  ItemIs(Evaluate(OfScope(scope), results, index, sha, now), scope, index)
<1>1. PICK mine : mine = OfScope(scope)
  OBVIOUS
<1>2. PICK p : /\ mine \in Seq(RunnerLints)
               /\ p \in [DOMAIN mine -> DOMAIN lints]
               /\ \A k \in DOMAIN mine : mine[k] = lints[p[k]] /\ lints[p[k]].scope = scope
               /\ \A l \in DOMAIN lints : lints[l].scope = scope => \E k \in DOMAIN mine : p[k] = l
               /\ \A k, l \in DOMAIN mine : k < l => p[k] < p[l]
  BY <1>1, OfScopeIs
<1>3. results \in Seq(Said) /\ Len(results) = Len(mine) /\ DOMAIN results = DOMAIN mine
  BY <1>1, <1>2, SameLength
<1>4. PICK L \in Nat : L = Len(mine) /\ DOMAIN mine = 1 .. L
  BY <1>2
<1>5. PICK n \in 0 .. L : /\ n = StopsAt(results)
                          /\ \A i \in 1 .. n - 1 : results[i] # "Fatal"
                          /\ n < L => n # 0 /\ results[n] = "Fatal"
  BY <1>3, <1>4, StopsAtIs
<1>6. PICK N \in Nat : N = Len(lints) /\ DOMAIN lints = 1 .. N
  BY DEF IsRunner
<1>7. PICK raw : raw = Evaluate(mine, results, index, sha, now)
  OBVIOUS
<1>8. raw = [i \in 1 .. n |-> [lint |-> mine[i].id, result |-> results[i], index |-> index, sha |-> sha, at |-> now]]
  BY <1>5, <1>7 DEF Evaluate
<1>9. DOMAIN raw = 1 .. n
  BY <1>8
<1>10. ASSUME NEW k \in 1 .. n
       PROVE  /\ raw[k].lint = lints[p[k]].id /\ raw[k].result = results[k] /\ raw[k].index = index
              /\ k \in 1 .. L /\ p[k] \in 1 .. N /\ raw[k] \in Reported
  <2>1. k \in 1 .. L
    BY <1>5
  <2>2. p[k] \in 1 .. N /\ mine[k] = lints[p[k]] /\ mine[k] \in RunnerLints
    BY <1>2, <1>4, <1>6, <2>1
  <2>3. mine[k].id \in Dotted
    BY <2>2 DEF RunnerLints
  <2>4. results[k] \in Said
    BY <1>3, <1>4, <2>1
  <2>5. raw[k] = [lint |-> mine[k].id, result |-> results[k], index |-> index, sha |-> sha, at |-> now]
    BY <1>8
  <2> QED
    BY <2>1, <2>2, <2>3, <2>4, <2>5 DEF Reported
<1>11. raw \in Seq(Reported)
  <2>1. raw \in [1 .. n -> Reported]
    BY <1>8, <1>10
  <2> QED
    BY <2>1
<1>12. \A i, j \in 1 .. N : lints[i].id = lints[j].id => i = j
  BY <1>6 DEF IsRunner, Unique
<1>13. ASSUME NEW k \in 1 .. L, NEW l \in 1 .. L, p[k] = p[l] PROVE k = l
  <2>1. p[k] \in 1 .. N /\ p[l] \in 1 .. N
    BY <1>2, <1>4, <1>6
  <2>2. ~(p[k] < p[l]) /\ ~(p[l] < p[k])
    BY <1>13, <2>1
  <2>3. ~(k < l) /\ ~(l < k)
    BY <1>2, <1>4, <2>2
  <2> QED
    BY <2>3
<1>14. ASSUME NEW k \in 1 .. n, NEW l \in 1 .. n, raw[k].lint = raw[l].lint PROVE k = l
  <2>1. p[k] = p[l]
    BY <1>10, <1>12, <1>14
  <2>2. k \in 1 .. L /\ l \in 1 .. L
    BY <1>10
  <2> QED
    BY <1>13, <2>1, <2>2
<1>15. ASSUME NEW l \in 1 .. N, lints[l].scope = scope
       PROVE  HasResult(raw, lints[l].id) <=> ~FatalBefore(raw, l)
  <2>1. PICK m \in 1 .. L : p[m] = l
    BY <1>2, <1>4, <1>6, <1>15
  <2>2. HasResult(raw, lints[l].id) <=> m <= n
    <3>1. ASSUME NEW k \in 1 .. n, raw[k].lint = lints[l].id PROVE k = m
      BY <1>10, <1>12, <1>13, <2>1, <3>1
    <3>2. m <= n => m \in 1 .. n /\ raw[m].lint = lints[l].id
      BY <1>10, <2>1
    <3> QED
      BY <1>9, <3>1, <3>2 DEF HasResult
  <2>3. ASSUME NEW a \in 1 .. (l - 1), NEW k \in 1 .. n, raw[k].lint = lints[a].id, raw[k].result = "Fatal"
        PROVE  m > n
    <3>1. a \in 1 .. N
      BY <2>3
    <3>2. p[k] = a /\ k \in 1 .. L
      BY <1>10, <1>12, <2>3, <3>1
    <3>3. p[k] < p[m]
      BY <2>1, <3>2
    <3>4. p[k] \in Nat /\ p[m] \in Nat /\ ~(p[m] < p[k]) /\ p[m] # p[k]
      BY <2>1, <3>2, <3>3
    <3>5. ~(m < k) /\ m # k
      BY <1>2, <1>4, <3>2, <3>4
    <3>6. ~(k \in 1 .. n - 1)
      BY <1>5, <1>10, <2>3
    <3> QED
      BY <3>5, <3>6
  <2>4. ASSUME m > n PROVE FatalBefore(raw, l)
    <3>1. n # 0 /\ results[n] = "Fatal" /\ n \in 1 .. n /\ n < m
      BY <1>5, <2>4
    <3>2. raw[n].lint = lints[p[n]].id /\ raw[n].result = "Fatal" /\ p[n] \in 1 .. N
      BY <1>10, <3>1
    <3>3. n \in 1 .. L
      BY <3>1
    <3>4. p[n] < l
      BY <1>2, <1>4, <2>1, <3>1, <3>3
    <3>5. p[n] \in 1 .. (l - 1)
      BY <3>2, <3>4
    <3> QED
      BY <1>9, <3>1, <3>2, <3>5 DEF FatalBefore
  <2>5. FatalBefore(raw, l) => m > n
    BY <1>9, <2>3 DEF FatalBefore
  <2> QED
    BY <2>2, <2>4, <2>5
<1>16. ItemIs(raw, scope, index)
  BY <1>6, <1>9, <1>10, <1>11, <1>14, <1>15 DEF ItemIs
<1> QED
  BY <1>1, <1>7, <1>16

\* run_cert: a lint that is not about the kind of the certificate reports that it does not apply.
LEMMA RunCertIs ==
  ASSUME IsRunner(lints), NEW items, NEW said \in Opinions("Certificate", items),
         NEW cert \in Cert, cert.sha \in items, NEW kind, NEW index \in Int, NEW now \in Nat
  PROVE  ItemIs(RunCert(said, cert, kind, index, now), "Certificate", index)
<1>1. PICK mine : mine = OfScope("Certificate")
  OBVIOUS
<1> DEFINE Says(l) == IF KindMatches(kind, l.kind) THEN said[l.id][cert.sha] ELSE "NotApplicable"
<1>2. PICK results : results = [i \in DOMAIN mine |-> Says(mine[i])]
  OBVIOUS
<1>3. RunCert(said, cert, kind, index, now) = Evaluate(mine, results, index, cert.sha, now)
  BY <1>1, <1>2 DEF RunCert
<1>4. PICK p : /\ p \in [DOMAIN mine -> DOMAIN lints]
               /\ \A k \in DOMAIN mine : mine[k] = lints[p[k]] /\ lints[p[k]].scope = "Certificate"
  BY <1>1, OfScopeIs
<1>5. ASSUME NEW i \in DOMAIN mine PROVE results[i] \in Said
  <2>1. mine[i] \in ToSet(lints) /\ mine[i].scope = "Certificate"
    BY <1>4 DEF ToSet
  <2>2. mine[i].id \in {l.id : l \in {k \in ToSet(lints) : k.scope = "Certificate"}}
    BY <2>1
  <2>3. said[mine[i].id] \in [items -> Results]
    BY <2>2 DEF Opinions
  <2>4. said[mine[i].id][cert.sha] \in Said
    BY <2>3 DEF Said
  <2>5. results[i] = Says(mine[i])
    BY <1>2
  <2>6. Says(mine[i]) = said[mine[i].id][cert.sha] \/ Says(mine[i]) = "NotApplicable"
    OBVIOUS
  <2> QED
    BY <2>4, <2>5, <2>6 DEF Said
<1>6. results = [i \in DOMAIN mine |-> results[i]]
  BY <1>2
<1>7. cert.sha \in STRING
  BY DEF Cert
<1> HIDE DEF Says
<1> QED
  BY <1>1, <1>3, <1>5, <1>6, <1>7, EvaluateIs

\* run_path: every lint about the path reports.
LEMMA RunPathIs ==
  ASSUME IsRunner(lints), NEW said \in Opinions("Path", {"path"}), NEW now \in Nat
  PROVE  ItemIs(RunPath(said, now), "Path", None)
<1>1. PICK mine : mine = OfScope("Path")
  OBVIOUS
<1>2. PICK results : results = [i \in DOMAIN mine |-> said[mine[i].id]["path"]]
  OBVIOUS
<1>3. RunPath(said, now) = Evaluate(mine, results, None, "none", now)
  BY <1>1, <1>2 DEF RunPath
<1>4. PICK p : /\ p \in [DOMAIN mine -> DOMAIN lints]
               /\ \A k \in DOMAIN mine : mine[k] = lints[p[k]] /\ lints[p[k]].scope = "Path"
  BY <1>1, OfScopeIs
<1>5. ASSUME NEW i \in DOMAIN mine PROVE results[i] \in Said
  <2>1. mine[i] \in ToSet(lints) /\ mine[i].scope = "Path"
    BY <1>4 DEF ToSet
  <2>2. mine[i].id \in {l.id : l \in {k \in ToSet(lints) : k.scope = "Path"}}
    BY <2>1
  <2>3. said[mine[i].id] \in [{"path"} -> Results]
    BY <2>2 DEF Opinions
  <2>4. said[mine[i].id]["path"] \in Said
    BY <2>3 DEF Said
  <2> QED
    BY <1>2, <2>4
<1>6. results = [i \in DOMAIN mine |-> results[i]]
  BY <1>2
<1>7. None \in Int
  BY DEF None
<1> QED
  BY <1>1, <1>3, <1>5, <1>6, <1>7, EvaluateIs

\* The places of the results of a lint for an item.
Places(raw, i, id) == {k \in DOMAIN raw : raw[k].index = i /\ raw[k].lint = id}

\* The results of an item are spread over raw, none of them twice.
Holds(raw, row, i) ==
  /\ \A k \in DOMAIN raw : raw[k].index = i => \E j \in DOMAIN row : raw[k] = row[j]
  /\ \A j \in DOMAIN row : \E k \in DOMAIN raw : raw[k] = row[j]
  /\ \A k, l \in DOMAIN raw : raw[k].index = i /\ raw[l].index = i /\ raw[k].lint = raw[l].lint => k = l

\* What a list of results holds of an item is one result of each lint, and none after a fatal one.
LEMMA OneResult ==
  ASSUME NEW raw, NEW row, NEW scope, NEW i, ItemIs(row, scope, i), Holds(raw, row, i),
         NEW l \in DOMAIN lints, lints[l].scope = scope
  PROVE  LET fatalBefore == \E n \in 1..(l - 1) : \E k \in Places(raw, i, lints[n].id) : raw[k].result = "Fatal"
         IN  Cardinality(Places(raw, i, lints[l].id)) = IF fatalBefore THEN 0 ELSE 1
<1> DEFINE fatalBefore == \E n \in 1..(l - 1) : \E k \in Places(raw, i, lints[n].id) : raw[k].result = "Fatal"
<1>1. \A j \in DOMAIN row : row[j].index = i
  BY DEF ItemIs
<1>2. fatalBefore <=> FatalBefore(row, l)
  <2>1. ASSUME NEW n \in 1 .. (l - 1), NEW k \in Places(raw, i, lints[n].id), raw[k].result = "Fatal"
        PROVE  FatalBefore(row, l)
    <3>1. PICK j \in DOMAIN row : raw[k] = row[j]
      BY DEF Places, Holds
    <3> QED
      BY <2>1, <3>1 DEF FatalBefore, Places
  <2>2. ASSUME NEW n \in 1 .. (l - 1), NEW j \in DOMAIN row, row[j].lint = lints[n].id, row[j].result = "Fatal"
        PROVE  fatalBefore
    <3>1. PICK k \in DOMAIN raw : raw[k] = row[j]
      BY DEF Holds
    <3>2. k \in Places(raw, i, lints[n].id) /\ raw[k].result = "Fatal"
      BY <1>1, <2>2, <3>1 DEF Places
    <3> QED
      BY <3>2
  <2> QED
    BY <2>1, <2>2 DEF FatalBefore
<1> HIDE DEF fatalBefore
<1>3. HasResult(row, lints[l].id) <=> ~FatalBefore(row, l)
  BY DEF ItemIs
<1>4. CASE fatalBefore
  <2>1. \A j \in DOMAIN row : row[j].lint # lints[l].id
    BY <1>2, <1>3, <1>4 DEF HasResult
  <2>2. Places(raw, i, lints[l].id) = {}
    BY <2>1 DEF Places, Holds
  <2>3. Cardinality(Places(raw, i, lints[l].id)) = 0
    BY <2>2, FS_EmptySet
  <2> QED
    BY <1>4, <2>3 DEF fatalBefore
<1>5. CASE ~fatalBefore
  <2>1. PICK j \in DOMAIN row : row[j].lint = lints[l].id
    BY <1>2, <1>3, <1>5 DEF HasResult
  <2>2. PICK k \in DOMAIN raw : raw[k] = row[j]
    BY DEF Holds
  <2>3. Places(raw, i, lints[l].id) = {k}
    BY <1>1, <2>1, <2>2 DEF Places, Holds
  <2>4. Cardinality(Places(raw, i, lints[l].id)) = 1
    BY <2>3, FS_Singleton
  <2> QED
    BY <1>5, <2>4 DEF fatalBefore
<1> QED
  BY <1>4, <1>5

\* The results of all certificates of a chain.
LEMMA ChainHolds ==
  ASSUME NEW rows \in Seq(Seq(Reported)), NEW scope, \A i \in DOMAIN rows : ItemIs(rows[i], scope, i)
  PROVE  /\ FlattenSeq(rows) \in Seq(Reported)
         /\ \A i \in DOMAIN rows : Holds(FlattenSeq(rows), rows[i], i)
         /\ \A k \in DOMAIN FlattenSeq(rows) : FlattenSeq(rows)[k].index \in DOMAIN rows
<1>1. PICK raw : raw = FlattenSeq(rows)
  OBVIOUS
<1>2. PICK row, col : raw \in Seq(Reported) /\ Spread(row, col, rows, Len(rows), raw)
  BY <1>1, FlattenIs
<1>3. PICK L \in Nat : L = Len(rows) /\ DOMAIN rows = 1 .. L
  OBVIOUS
<1>4. PICK M \in Nat : M = Len(raw) /\ DOMAIN raw = 1 .. M
  BY <1>2
<1>5. /\ row \in [1 .. M -> 1 .. L] /\ col \in [1 .. M -> Nat]
      /\ \A k \in 1 .. M : col[k] \in 1 .. Len(rows[row[k]]) /\ raw[k] = rows[row[k]][col[k]]
      /\ \A i \in 1 .. L : \A j \in 1 .. Len(rows[i]) : \E k \in 1 .. M : row[k] = i /\ col[k] = j
      /\ \A k, l \in 1 .. M : row[k] = row[l] /\ col[k] = col[l] => k = l
  BY <1>2, <1>3, <1>4 DEF Spread
<1>6. \A i \in 1 .. L : DOMAIN rows[i] = 1 .. Len(rows[i])
  BY <1>3
<1>7. ASSUME NEW k \in 1 .. M
      PROVE  row[k] \in 1 .. L /\ col[k] \in DOMAIN rows[row[k]] /\ raw[k].index = row[k]
  <2>1. row[k] \in 1 .. L /\ col[k] \in DOMAIN rows[row[k]]
    BY <1>5, <1>6
  <2>2. rows[row[k]][col[k]].index = row[k]
    BY <1>3, <2>1 DEF ItemIs
  <2> QED
    BY <1>5, <2>1, <2>2
<1>8. ASSUME NEW i \in 1 .. L PROVE Holds(raw, rows[i], i)
  <2>1. ASSUME NEW k \in 1 .. M, raw[k].index = i PROVE \E j \in DOMAIN rows[i] : raw[k] = rows[i][j]
    <3>1. row[k] = i
      BY <1>7, <2>1
    <3> QED
      BY <1>5, <1>7, <3>1
  <2>2. ASSUME NEW j \in DOMAIN rows[i] PROVE \E k \in 1 .. M : raw[k] = rows[i][j]
    <3>1. j \in 1 .. Len(rows[i])
      BY <1>6
    <3>2. PICK k \in 1 .. M : row[k] = i /\ col[k] = j
      BY <1>5, <3>1
    <3>3. raw[k] = rows[row[k]][col[k]]
      BY <1>5
    <3> QED
      BY <3>2, <3>3
  <2>3. ASSUME NEW k \in 1 .. M, NEW l \in 1 .. M, raw[k].index = i, raw[l].index = i, raw[k].lint = raw[l].lint
        PROVE  k = l
    <3>1. row[k] = i /\ row[l] = i
      BY <1>7, <2>3
    <3>2. /\ col[k] \in DOMAIN rows[i] /\ col[l] \in DOMAIN rows[i]
          /\ raw[k] = rows[i][col[k]] /\ raw[l] = rows[i][col[l]]
      BY <1>5, <1>7, <3>1
    <3>3. rows[i][col[k]].lint = rows[i][col[l]].lint
      BY <2>3, <3>2
    <3>4. col[k] = col[l]
      BY <1>3, <3>2, <3>3 DEF ItemIs
    <3> QED
      BY <1>5, <3>1, <3>4
  <2> QED
    BY <1>4, <2>1, <2>2, <2>3 DEF Holds
<1> QED
  BY <1>1, <1>2, <1>3, <1>4, <1>7, <1>8

\* The results of one item hold the results of that item.
LEMMA ItemHolds ==
  ASSUME NEW raw, NEW scope, NEW i, ItemIs(raw, scope, i)
  PROVE  Holds(raw, raw, i)
BY DEF ItemIs, Holds

\* The deviation that waives a finding, 0 if none does.
Found(certs, now, f) == IF IsFinding(f) THEN FindDeviation(store, f.lint, certs, now) ELSE 0
Waived(certs, now, f) == MakeDeviated(f, store[Found(certs, now, f)])

\* Two lists of which one has what is waived, the other the rest.
Parts(raw, certs, now, findings, deviated) ==
  /\ findings \in Seq(Reported)
  /\ \A i \in DOMAIN raw : Found(certs, now, raw[i]) = 0 => raw[i] \in ToSet(findings)
  /\ deviated \in Seq(ToSet(deviated))
  /\ Len(findings) + Len(deviated) = Len(raw)
  /\ \A k \in DOMAIN deviated : \E i \in DOMAIN raw :
       Found(certs, now, raw[i]) # 0 /\ deviated[k] = Waived(certs, now, raw[i])
  /\ \A i \in DOMAIN raw : Found(certs, now, raw[i]) # 0 =>
       \E k \in DOMAIN deviated : deviated[k] = Waived(certs, now, raw[i])

\* apply_deviations parts the results: the findings no deviation covers, and the waived ones,
\* each with the deviation found for it.
LEMMA ApplyIs ==
  ASSUME NEW raw \in Seq(Reported), NEW certs, NEW now
  PROVE  LET done == ApplyDeviations(store, raw, certs, now)
         IN  Parts(raw, certs, now, done.findings, done.deviated)
<1>1. PICK done : done = ApplyDeviations(store, raw, certs, now)
  OBVIOUS
<1> DEFINE F(f) == IF IsFinding(f) THEN FindDeviation(store, f.lint, certs, now) ELSE 0
<1>2. PICK at : at = {i \in DOMAIN raw : F(raw[i]) # 0}
  OBVIOUS
<1>3. PICK rest : rest = {i \in DOMAIN raw : F(raw[i]) = 0}
  OBVIOUS
<1>4. PICK waived : waived = Kept(raw, at)
  OBVIOUS
<1>5. PICK findings : findings = Kept(raw, rest)
  OBVIOUS
<1>6. done = [findings |-> findings, deviated |-> [i \in DOMAIN waived |-> MakeDeviated(waived[i], store[F(waived[i])])]]
  BY <1>1, <1>2, <1>3, <1>4, <1>5 DEF ApplyDeviations
<1>7. \A f : F(f) = Found(certs, now, f)
  BY DEF Found
<1> HIDE DEF F
<1>8. done.findings = findings /\ done.deviated = [i \in DOMAIN waived |-> Waived(certs, now, waived[i])]
  BY <1>6, <1>7 DEF Waived
<1>9. PICK deviated : deviated = done.deviated
  OBVIOUS
<1>10. PICK p : waived \in Seq(Reported) /\ Picked(p, raw, at, Len(raw), waived)
  BY <1>4, KeptIs
<1>11. PICK q : findings \in Seq(Reported) /\ Picked(q, raw, rest, Len(raw), findings)
  BY <1>5, KeptIs
<1>12. Len(findings) + Len(waived) = Len(raw)
  <2>1. \A i \in DOMAIN raw : i \in rest <=> i \notin at
    BY <1>2, <1>3
  <2> QED
    BY <1>4, <1>5, <2>1, KeptLengths
<1>13. deviated \in Seq(ToSet(deviated)) /\ Len(deviated) = Len(waived) /\ DOMAIN deviated = DOMAIN waived
  <2>1. deviated = [i \in DOMAIN waived |-> deviated[i]] /\ DOMAIN deviated = DOMAIN waived
    BY <1>8, <1>9
  <2>2. \A i \in DOMAIN waived : deviated[i] \in ToSet(deviated)
    BY <2>1 DEF ToSet
  <2>3. deviated \in Seq(ToSet(deviated)) /\ Len(deviated) = Len(waived) /\ DOMAIN deviated = DOMAIN waived
    BY <1>10, <2>1, <2>2, SameLength
  <2> QED
    BY <2>3
<1>14. DOMAIN raw = 1 .. Len(raw) /\ DOMAIN waived = 1 .. Len(waived) /\ DOMAIN findings = 1 .. Len(findings)
  BY <1>10, <1>11
<1>15. ASSUME NEW i \in DOMAIN raw, Found(certs, now, raw[i]) = 0 PROVE raw[i] \in ToSet(findings)
  <2>1. i \in rest /\ i \in 1 .. Len(raw)
    BY <1>3, <1>7, <1>14, <1>15
  <2>2. PICK k \in 1 .. Len(findings) : q[k] = i
    BY <1>11, <2>1 DEF Picked
  <2>3. findings[k] = raw[i]
    BY <1>11, <2>2 DEF Picked
  <2> QED
    BY <1>14, <2>3 DEF ToSet
<1>16. ASSUME NEW k \in DOMAIN deviated
       PROVE  \E i \in DOMAIN raw : Found(certs, now, raw[i]) # 0 /\ deviated[k] = Waived(certs, now, raw[i])
  <2>1. k \in 1 .. Len(waived)
    BY <1>13, <1>14
  <2>2. p[k] \in at /\ waived[k] = raw[p[k]]
    BY <1>10, <2>1 DEF Picked
  <2>3. p[k] \in DOMAIN raw /\ Found(certs, now, raw[p[k]]) # 0
    BY <1>2, <1>7, <2>2
  <2>4. deviated[k] = Waived(certs, now, waived[k])
    BY <1>8, <1>9, <1>13
  <2> QED
    BY <2>2, <2>3, <2>4
<1>17. ASSUME NEW i \in DOMAIN raw, Found(certs, now, raw[i]) # 0
       PROVE  \E k \in DOMAIN deviated : deviated[k] = Waived(certs, now, raw[i])
  <2>1. i \in at /\ i \in 1 .. Len(raw)
    BY <1>2, <1>7, <1>14, <1>17
  <2>2. PICK k \in 1 .. Len(waived) : p[k] = i
    BY <1>10, <2>1 DEF Picked
  <2>3. waived[k] = raw[i] /\ k \in DOMAIN deviated
    BY <1>10, <1>13, <1>14, <2>2 DEF Picked
  <2>4. deviated[k] = Waived(certs, now, waived[k])
    BY <1>8, <1>9, <2>3
  <2> QED
    BY <2>3, <2>4
<1>18. Parts(raw, certs, now, findings, deviated)
  BY <1>9, <1>8, <1>11, <1>12, <1>13, <1>15, <1>16, <1>17 DEF Parts
<1> QED
  BY <1>1, <1>8, <1>9, <1>18

\* What the pieces have, the whole has.
LEMMA FlattenHas ==
  ASSUME NEW T, NEW seqs \in Seq(Seq(T))
  PROVE  \A x : x \in ToSet(FlattenSeq(seqs)) <=> \E i \in DOMAIN seqs : x \in ToSet(seqs[i])
<1>1. PICK q : q = FlattenSeq(seqs)
  OBVIOUS
<1>2. PICK row, col : q \in Seq(T) /\ Spread(row, col, seqs, Len(seqs), q)
  BY <1>1, FlattenIs
<1>3. /\ DOMAIN q = 1 .. Len(q) /\ DOMAIN seqs = 1 .. Len(seqs)
      /\ \A i \in 1 .. Len(seqs) : DOMAIN seqs[i] = 1 .. Len(seqs[i])
  BY <1>2
<1>4. ASSUME NEW k \in DOMAIN q PROVE \E i \in DOMAIN seqs : q[k] \in ToSet(seqs[i])
  <2>1. k \in 1 .. Len(q)
    BY <1>3
  <2>2. row[k] \in 1 .. Len(seqs) /\ col[k] \in 1 .. Len(seqs[row[k]]) /\ q[k] = seqs[row[k]][col[k]]
    BY <1>2, <2>1 DEF Spread
  <2>3. col[k] \in DOMAIN seqs[row[k]] /\ row[k] \in DOMAIN seqs
    BY <1>3, <2>2
  <2> QED
    BY <2>2, <2>3 DEF ToSet
<1>5. ASSUME NEW i \in DOMAIN seqs, NEW j \in DOMAIN seqs[i] PROVE seqs[i][j] \in ToSet(q)
  <2>1. i \in 1 .. Len(seqs) /\ j \in 1 .. Len(seqs[i])
    BY <1>3
  <2>2. PICK k \in 1 .. Len(q) : row[k] = i /\ col[k] = j
    BY <1>2, <2>1 DEF Spread
  <2>3. q[k] = seqs[row[k]][col[k]]
    BY <1>2 DEF Spread
  <2> QED
    BY <1>3, <2>2, <2>3 DEF ToSet
<1> QED
  BY <1>1, <1>4, <1>5 DEF ToSet

\* What every run reports: an item's results each once, and each waived or not.
Items(run) == IF run.api = "path" THEN {None} ELSE DOMAIN run.chain
ScopeOf(run) == IF run.api = "path" THEN "Path" ELSE "Certificate"
\* Each lint of the scope has reported on each item.
Complete(run) ==
  /\ Len(run.findings) + Len(run.deviated) = Len(run.raw)
  /\ \A i \in Items(run) : \A l \in DOMAIN lints : lints[l].scope = ScopeOf(run) =>
       LET fatalBefore == \E n \in 1..(l - 1) :
                            \E k \in Places(run.raw, i, lints[n].id) : run.raw[k].result = "Fatal"
       IN  Cardinality(Places(run.raw, i, lints[l].id)) = IF fatalBefore THEN 0 ELSE 1
IsWaived(run, f) == Found(About(run, f), run.now, f) # 0
\* Every result is a finding or a waived one.
Parted(run) ==
  /\ \A k \in DOMAIN run.raw :
       IF IsWaived(run, run.raw[k])
         THEN \E n \in DOMAIN run.deviated : run.deviated[n] = Waived(About(run, run.raw[k]), run.now, run.raw[k])
         ELSE run.raw[k] \in ToSet(run.findings)
  /\ \A n \in DOMAIN run.deviated : \E k \in DOMAIN run.raw :
       /\ IsWaived(run, run.raw[k])
       /\ run.deviated[n] = Waived(About(run, run.raw[k]), run.now, run.raw[k])
\* What a run returns.
Ran(run) ==
  /\ run.raw \in Seq(Reported) /\ run.chain \in Seq(Cert) /\ run.now \in Nat
  /\ \A k \in DOMAIN run.raw : run.raw[k].index = None \/ run.raw[k].index \in DOMAIN run.chain
  /\ \A k, l \in DOMAIN run.raw :
       run.raw[k].index = run.raw[l].index /\ run.raw[k].lint = run.raw[l].lint => k = l
  /\ Complete(run) /\ Parted(run)
  /\ run.findings \in Seq(Reported) /\ run.deviated \in Seq(ToSet(run.deviated))

\* One item: run_cert_at_issuance, run_path.
LEMMA ItemRan ==
  ASSUME NEW run, run.chain \in Seq(Cert), run.now \in Nat,
         NEW i, Items(run) = {i}, i = None \/ i \in DOMAIN run.chain,
         ItemIs(run.raw, ScopeOf(run), i),
         NEW certs, \A f : f.index = i => About(run, f) = certs,
         Parts(run.raw, certs, run.now, run.findings, run.deviated)
  PROVE  Ran(run)
<1>1. run.raw \in Seq(Reported) /\ \A k \in DOMAIN run.raw : run.raw[k].index = i
  BY DEF ItemIs
<1>2. Holds(run.raw, run.raw, i)
  BY ItemHolds
<1>3. \A k \in DOMAIN run.raw : About(run, run.raw[k]) = certs
  BY <1>1
<1>4. Parted(run)
  BY <1>3 DEF Parted, IsWaived, Parts
<1>5. Complete(run)
  <2>1. ASSUME NEW l \in DOMAIN lints, lints[l].scope = ScopeOf(run)
        PROVE  LET fatalBefore == \E n \in 1..(l - 1) :
                                    \E k \in Places(run.raw, i, lints[n].id) : run.raw[k].result = "Fatal"
               IN  Cardinality(Places(run.raw, i, lints[l].id)) = IF fatalBefore THEN 0 ELSE 1
    BY <1>2, <2>1, OneResult
  <2>2. \A j \in Items(run) : j = i
    OBVIOUS
  <2>3. Len(run.findings) + Len(run.deviated) = Len(run.raw)
    BY DEF Parts
  <2> QED
    BY <2>1, <2>2, <2>3 DEF Complete
<1>6. \A k, l \in DOMAIN run.raw : run.raw[k].index = run.raw[l].index /\ run.raw[k].lint = run.raw[l].lint => k = l
  BY DEF ItemIs
<1>7. \A k \in DOMAIN run.raw : run.raw[k].index = None \/ run.raw[k].index \in DOMAIN run.chain
  BY <1>1
<1>8. run.findings \in Seq(Reported) /\ run.deviated \in Seq(ToSet(run.deviated))
  BY DEF Parts
<1> QED
  BY <1>1, <1>4, <1>5, <1>6, <1>7, <1>8 DEF Ran

\* All certificates of a chain: run_chain.
Joins(run, rows, fs, ds) ==
  run.raw = FlattenSeq(rows) /\ run.findings = FlattenSeq(fs) /\ run.deviated = FlattenSeq(ds)

Over(f, D) == f = [i \in D |-> f[i]]

\* A function over the positions of a sequence, with values in T, is a sequence over T.
LEMMA OverSequence ==
  ASSUME NEW S, NEW T, NEW s \in Seq(S), NEW f, Over(f, DOMAIN s), \A i \in DOMAIN s : f[i] \in T
  PROVE  f \in Seq(T) /\ Len(f) = Len(s) /\ DOMAIN f = DOMAIN s
BY SameLength DEF Over

\* Two lists for every item, together as long as its results.
TwoEach(T, rows, fs, ds) ==
  \A i \in DOMAIN rows : /\ fs[i] \in Seq(T) /\ ds[i] \in Seq(ToSet(ds[i]))
                         /\ Len(fs[i]) + Len(ds[i]) = Len(rows[i])

\* Findings and waived findings of each certificate, joined, are as many as the results joined.
LEMMA TwoLists ==
  ASSUME NEW T, NEW rows \in Seq(Seq(T)), NEW fs, NEW ds, Over(fs, DOMAIN rows), Over(ds, DOMAIN rows),
         TwoEach(T, rows, fs, ds)
  PROVE  \E U : /\ fs \in Seq(Seq(T)) /\ ds \in Seq(Seq(U))
                /\ Len(FlattenSeq(fs)) + Len(FlattenSeq(ds)) = Len(FlattenSeq(rows))
<1>1. PICK U : \A i \in DOMAIN rows : ToSet(ds[i]) \subseteq U
  <2>1. \A i \in DOMAIN rows : ToSet(ds[i]) \subseteq UNION {ToSet(ds[k]) : k \in DOMAIN rows}
    OBVIOUS
  <2> QED
    BY <2>1
<1>2. PICK R, S : R = Seq(T) /\ S = Seq(U)
  OBVIOUS
<1>3. ASSUME NEW i \in DOMAIN rows PROVE ds[i] \in S
  <2>1. PICK V : V = ToSet(ds[i])
    OBVIOUS
  <2>2. V \subseteq U /\ ds[i] \in Seq(V)
    BY <1>1, <2>1 DEF TwoEach
  <2>3. ds[i] \in Seq(U)
    BY <2>2
  <2> QED
    BY <1>2, <2>3
<1>4. \A i \in DOMAIN rows : fs[i] \in R
  BY <1>2 DEF TwoEach
<1>5. rows \in Seq(R)
  BY <1>2
<1>6. fs \in Seq(R) /\ Len(fs) = Len(rows) /\ DOMAIN fs = DOMAIN rows
  BY <1>4, <1>5, OverSequence
<1>7. ds \in Seq(S) /\ Len(ds) = Len(rows) /\ DOMAIN ds = DOMAIN rows
  <2>1. PICK n \in Nat : n = Len(rows) /\ DOMAIN rows = 1 .. n
    BY <1>5
  <2>2. ds \in [1 .. n -> S]
    BY <1>3, <2>1 DEF Over
  <2>3. ds \in Seq(S) /\ DOMAIN ds = 1 .. n
    BY <2>2
  <2>4. Len(ds) = n
    BY <2>3
  <2> QED
    BY <2>1, <2>3, <2>4
<1>8. SumUp(fs, ds, rows)
  BY <1>6, <1>7 DEF TwoEach, SumUp
<1>9. fs \in Seq(Seq(T)) /\ ds \in Seq(Seq(U))
  BY <1>2, <1>6, <1>7
<1>10. Len(FlattenSeq(fs)) + Len(FlattenSeq(ds)) = Len(FlattenSeq(rows))
  BY <1>8, <1>9, FlattenLengths
<1> QED
  BY <1>9, <1>10

\* The results of every certificate, joined, are those of a run over the chain.
LEMMA ChainRan ==
  ASSUME NEW run, run.api = "chain", run.chain \in Seq(Cert), run.now \in Nat,
         NEW rows \in Seq(Seq(Reported)), DOMAIN rows = DOMAIN run.chain,
         \A i \in DOMAIN rows : ItemIs(rows[i], "Certificate", i),
         NEW fs, NEW ds, Over(fs, DOMAIN rows), Over(ds, DOMAIN rows),
         \A i \in DOMAIN rows : Parts(rows[i], {run.chain[i]}, run.now, fs[i], ds[i]),
         Joins(run, rows, fs, ds)
  PROVE  Ran(run)
<1>1. PICK raw : raw = run.raw
  OBVIOUS
<1>2. PICK chain \in Seq(Cert) : chain = run.chain
  OBVIOUS
<1>3. /\ raw \in Seq(Reported)
      /\ \A i \in DOMAIN rows : Holds(raw, rows[i], i)
      /\ \A k \in DOMAIN raw : raw[k].index \in DOMAIN rows
  <2>1. raw = FlattenSeq(rows)
    BY <1>1 DEF Joins
  <2> QED
    BY <2>1, ChainHolds
<1>4. \A i \in DOMAIN rows : i # None
  <2>1. DOMAIN rows \subseteq Nat
    OBVIOUS
  <2> QED
    BY <2>1 DEF None
<1>5. \A f : f.index \in DOMAIN rows => About(run, f) = {run.chain[f.index]}
  BY <1>4 DEF About
<1>6. TwoEach(Reported, rows, fs, ds)
  BY DEF Parts, TwoEach
<1>7. PICK U : /\ fs \in Seq(Seq(Reported)) /\ ds \in Seq(Seq(U))
               /\ Len(FlattenSeq(fs)) + Len(FlattenSeq(ds)) = Len(FlattenSeq(rows))
  BY <1>6, TwoLists
<1>8. DOMAIN fs = DOMAIN rows /\ DOMAIN ds = DOMAIN rows
  BY DEF Over
<1>9. Len(run.findings) + Len(run.deviated) = Len(run.raw)
  BY <1>7 DEF Joins
<1>10. Complete(run)
  <2>1. Items(run) = DOMAIN rows /\ ScopeOf(run) = "Certificate"
    BY DEF Items, ScopeOf
  <2>2. ASSUME NEW i \in DOMAIN rows, NEW l \in DOMAIN lints, lints[l].scope = "Certificate"
        PROVE  LET fatalBefore == \E n \in 1..(l - 1) :
                                    \E k \in Places(run.raw, i, lints[n].id) : run.raw[k].result = "Fatal"
               IN  Cardinality(Places(run.raw, i, lints[l].id)) = IF fatalBefore THEN 0 ELSE 1
    <3>1. Holds(run.raw, rows[i], i)
      BY <1>1, <1>3
    <3>2. ItemIs(rows[i], "Certificate", i)
      OBVIOUS
    <3> QED
      BY <2>2, <3>1, <3>2, OneResult
  <2> QED
    BY <1>9, <2>1, <2>2 DEF Complete
<1>11. \A x : x \in ToSet(run.findings) <=> \E i \in DOMAIN fs : x \in ToSet(fs[i])
  BY <1>7, FlattenHas DEF Joins
<1>12. \A x : x \in ToSet(run.deviated) <=> \E i \in DOMAIN ds : x \in ToSet(ds[i])
  BY <1>7, FlattenHas DEF Joins
<1>13. ASSUME NEW k \in DOMAIN run.raw
       PROVE  IF IsWaived(run, run.raw[k])
                THEN \E n \in DOMAIN run.deviated :
                       run.deviated[n] = Waived(About(run, run.raw[k]), run.now, run.raw[k])
                ELSE run.raw[k] \in ToSet(run.findings)
  <2>1. PICK i \in DOMAIN rows : run.raw[k].index = i
    BY <1>1, <1>3
  <2>2. PICK j \in DOMAIN rows[i] : run.raw[k] = rows[i][j]
    BY <1>1, <1>3, <2>1 DEF Holds
  <2>3. PICK certs : certs = {run.chain[i]}
    OBVIOUS
  <2>4. About(run, run.raw[k]) = certs
    BY <1>5, <2>1, <2>3
  <2>5. Parts(rows[i], certs, run.now, fs[i], ds[i])
    BY <2>3
  <2>6. CASE Found(certs, run.now, rows[i][j]) = 0
    <3>1. rows[i][j] \in ToSet(fs[i])
      BY <2>5, <2>6 DEF Parts
    <3>2. run.raw[k] \in ToSet(run.findings)
      BY <1>8, <1>11, <2>2, <3>1
    <3> QED
      BY <2>2, <2>4, <2>6, <3>2 DEF IsWaived
  <2>7. CASE Found(certs, run.now, rows[i][j]) # 0
    <3>1. PICK m \in DOMAIN ds[i] : ds[i][m] = Waived(certs, run.now, rows[i][j])
      BY <2>5, <2>7 DEF Parts
    <3>2. ds[i][m] \in ToSet(run.deviated)
      BY <1>8, <1>12, <3>1 DEF ToSet
    <3>3. PICK n \in DOMAIN run.deviated : run.deviated[n] = ds[i][m]
      BY <3>2 DEF ToSet
    <3> QED
      BY <2>2, <2>4, <2>7, <3>1, <3>3 DEF IsWaived
  <2> QED
    BY <2>6, <2>7
<1>14. ASSUME NEW n \in DOMAIN run.deviated
       PROVE  \E k \in DOMAIN run.raw :
                /\ IsWaived(run, run.raw[k])
                /\ run.deviated[n] = Waived(About(run, run.raw[k]), run.now, run.raw[k])
  <2>1. run.deviated[n] \in ToSet(run.deviated)
    BY DEF ToSet
  <2>2. PICK i \in DOMAIN rows : run.deviated[n] \in ToSet(ds[i])
    BY <1>8, <1>12, <2>1
  <2>3. PICK m \in DOMAIN ds[i] : run.deviated[n] = ds[i][m]
    BY <2>2 DEF ToSet
  <2>4. PICK certs : certs = {run.chain[i]}
    OBVIOUS
  <2>5. Parts(rows[i], certs, run.now, fs[i], ds[i])
    BY <2>4
  <2>6. PICK j \in DOMAIN rows[i] :
          Found(certs, run.now, rows[i][j]) # 0 /\ ds[i][m] = Waived(certs, run.now, rows[i][j])
    BY <2>5 DEF Parts
  <2>7. PICK k \in DOMAIN run.raw : run.raw[k] = rows[i][j]
    BY <1>1, <1>3 DEF Holds
  <2>8. rows[i][j].index = i
    BY DEF ItemIs
  <2>9. About(run, run.raw[k]) = certs
    BY <1>5, <2>4, <2>7, <2>8
  <2> QED
    BY <2>3, <2>6, <2>7, <2>9 DEF IsWaived
<1>15. Parted(run)
  BY <1>13, <1>14 DEF Parted
<1>16. ASSUME NEW k \in DOMAIN raw, NEW l \in DOMAIN raw, raw[k].index = raw[l].index, raw[k].lint = raw[l].lint
       PROVE  k = l
  <2>1. PICK i \in DOMAIN rows : i = raw[k].index
    BY <1>3
  <2>2. Holds(raw, rows[i], i)
    BY <1>3
  <2> QED
    BY <1>16, <2>1, <2>2 DEF Holds
<1>17. \A k \in DOMAIN raw : raw[k].index \in DOMAIN run.chain
  BY <1>3
<1>18. run.findings \in Seq(Reported) /\ run.deviated \in Seq(ToSet(run.deviated))
  <2>1. run.findings \in Seq(Reported)
    BY <1>7, FlattenIs DEF Joins
  <2>2. run.deviated \in Seq(U)
    BY <1>7, FlattenIs DEF Joins
  <2> QED
    BY <2>1, <2>2, SequenceOf
<1> QED
  BY <1>1, <1>3, <1>10, <1>15, <1>16, <1>17, <1>18 DEF Ran

\* run_chain.
LEMMA RunChainRan ==
  ASSUME IsRunner(lints), NEW chain \in Seq(Cert), NEW kinds, NEW now \in Nat, RunChain(chain, kinds, now)
  PROVE  Ran(out') /\ UNCHANGED <<lints, store, written, plan>>
<1>1. PICK said \in Opinions("Certificate", {chain[i].sha : i \in DOMAIN chain}) :
        LET Raw(i) == RunCert(said, chain[i], kinds[i], i, now)
            Done(i) == ApplyDeviations(store, Raw(i), {chain[i]}, now)
        IN  RunOf("chain", chain, kinds, now,
                  FlattenSeq([i \in DOMAIN chain |-> Raw(i)]),
                  [findings |-> FlattenSeq([i \in DOMAIN chain |-> Done(i).findings]),
                   deviated |-> FlattenSeq([i \in DOMAIN chain |-> Done(i).deviated])])
  BY DEF RunChain
<1> DEFINE Raw(i) == RunCert(said, chain[i], kinds[i], i, now)
           Done(i) == ApplyDeviations(store, Raw(i), {chain[i]}, now)
<1>2. PICK rows : rows = [i \in DOMAIN chain |-> Raw(i)]
  OBVIOUS
<1>3. PICK fs, ds : fs = [i \in DOMAIN chain |-> Done(i).findings] /\ ds = [i \in DOMAIN chain |-> Done(i).deviated]
  OBVIOUS
<1>4. PICK items : items = {chain[i].sha : i \in DOMAIN chain}
  OBVIOUS
<1>5. ASSUME NEW i \in DOMAIN chain PROVE ItemIs(rows[i], "Certificate", i)
  <2>1. chain[i] \in Cert /\ chain[i].sha \in items /\ i \in Int /\ said \in Opinions("Certificate", items)
    BY <1>4
  <2>2. ItemIs(RunCert(said, chain[i], kinds[i], i, now), "Certificate", i)
    BY <2>1, RunCertIs
  <2> QED
    BY <1>2, <2>2
<1>6. ASSUME NEW i \in DOMAIN chain PROVE Parts(rows[i], {chain[i]}, now, fs[i], ds[i])
  <2>1. rows[i] \in Seq(Reported)
    BY <1>5 DEF ItemIs
  <2>2. PICK done : done = ApplyDeviations(store, rows[i], {chain[i]}, now)
    OBVIOUS
  <2>3. Parts(rows[i], {chain[i]}, now, done.findings, done.deviated)
    BY <2>1, <2>2, ApplyIs
  <2>4. fs[i] = done.findings /\ ds[i] = done.deviated
    BY <1>2, <1>3, <2>2
  <2> QED
    BY <2>3, <2>4
<1>7. PICK raw, findings, deviated :
        raw = FlattenSeq(rows) /\ findings = FlattenSeq(fs) /\ deviated = FlattenSeq(ds)
  OBVIOUS
<1>8. RunOf("chain", chain, kinds, now, raw, [findings |-> findings, deviated |-> deviated])
  BY <1>1, <1>2, <1>3, <1>7
<1>9. PICK run : run = out'
  OBVIOUS
<1>10. run = [op |-> "run", api |-> "chain", chain |-> chain, kinds |-> kinds, now |-> now, raw |-> raw,
              findings |-> findings, deviated |-> deviated, shape |-> CheckShape(raw)]
  BY <1>8, <1>9 DEF RunOf
<1>11. /\ run.api = "chain" /\ run.chain = chain /\ run.now = now
       /\ run.raw = raw /\ run.findings = findings /\ run.deviated = deviated
  BY <1>10
<1>12. Joins(run, rows, fs, ds)
  BY <1>7, <1>11 DEF Joins
<1>13. DOMAIN rows = DOMAIN chain /\ Over(fs, DOMAIN rows) /\ Over(ds, DOMAIN rows)
  BY <1>2, <1>3 DEF Over
<1>14. rows \in Seq(Seq(Reported))
  <2>1. \A i \in DOMAIN chain : rows[i] \in Seq(Reported)
    BY <1>5 DEF ItemIs
  <2>2. rows = [i \in DOMAIN chain |-> rows[i]]
    BY <1>2
  <2> QED
    BY <2>1, <2>2, SameLength
<1>15. Ran(run)
  <2>1. \A i \in DOMAIN rows : ItemIs(rows[i], "Certificate", i)
    BY <1>5, <1>13
  <2>2. \A i \in DOMAIN rows : Parts(rows[i], {run.chain[i]}, run.now, fs[i], ds[i])
    BY <1>6, <1>11, <1>13
  <2>3. run.api = "chain" /\ run.chain \in Seq(Cert) /\ run.now \in Nat /\ DOMAIN rows = DOMAIN run.chain
    BY <1>11, <1>13
  <2> QED
    BY <1>12, <1>13, <1>14, <2>1, <2>2, <2>3, ChainRan
<1>16. UNCHANGED <<lints, store, written, plan>>
  BY <1>8 DEF RunOf
<1> QED
  BY <1>9, <1>15, <1>16

\* run_cert at issuance: one certificate, at its notBefore.
LEMMA IssuanceRan ==
  ASSUME IsRunner(lints), NEW cert \in Cert, NEW kind, RunCertAtIssuance(cert, kind)
  PROVE  Ran(out') /\ UNCHANGED <<lints, store, written, plan>>
<1>1. PICK said \in Opinions("Certificate", {cert.sha}) :
        LET raw == RunCert(said, cert, kind, 1, cert.notBefore)
        IN  RunOf("issuance", <<cert>>, <<kind>>, cert.notBefore, raw,
                  ApplyDeviations(store, raw, {cert}, cert.notBefore))
  BY DEF RunCertAtIssuance
<1>2. PICK raw : raw = RunCert(said, cert, kind, 1, cert.notBefore)
  OBVIOUS
<1>3. PICK done : done = ApplyDeviations(store, raw, {cert}, cert.notBefore)
  OBVIOUS
<1>4. RunOf("issuance", <<cert>>, <<kind>>, cert.notBefore, raw, done)
  BY <1>1, <1>2, <1>3
<1>5. PICK run : run = out'
  OBVIOUS
<1>6. /\ run.api = "issuance" /\ run.chain = <<cert>> /\ run.now = cert.notBefore
      /\ run.raw = raw /\ run.findings = done.findings /\ run.deviated = done.deviated
  BY <1>4, <1>5 DEF RunOf
<1>7. cert.notBefore \in Nat /\ cert.sha \in {cert.sha} /\ 1 \in Int
  BY DEF Cert
<1>8. ItemIs(raw, "Certificate", 1)
  BY <1>2, <1>7, RunCertIs
<1>9. Parts(raw, {cert}, cert.notBefore, done.findings, done.deviated)
  <2>1. raw \in Seq(Reported)
    BY <1>8 DEF ItemIs
  <2> QED
    BY <1>3, <2>1, ApplyIs
<1>10. Ran(run)
  <2>1. run.chain \in Seq(Cert) /\ run.now \in Nat
    BY <1>6, <1>7
  <2>2. Items(run) = {1} /\ 1 \in DOMAIN run.chain /\ ScopeOf(run) = "Certificate"
    BY <1>6 DEF Items, ScopeOf
  <2>3. ItemIs(run.raw, ScopeOf(run), 1)
    BY <1>6, <1>8, <2>2
  <2>4. \A f : f.index = 1 => About(run, f) = {cert}
    BY <1>6 DEF About, None
  <2>5. Parts(run.raw, {cert}, run.now, run.findings, run.deviated)
    BY <1>6, <1>9
  <2> QED
    BY <2>1, <2>2, <2>3, <2>4, <2>5, ItemRan
<1>11. UNCHANGED <<lints, store, written, plan>>
  BY <1>4 DEF RunOf
<1> QED
  BY <1>5, <1>10, <1>11

\* run_path over a chain.
LEMMA PathRan ==
  ASSUME IsRunner(lints), NEW chain \in Seq(Cert), NEW now \in Nat, RunWholePath(chain, now)
  PROVE  Ran(out') /\ UNCHANGED <<lints, store, written, plan>>
<1>1. PICK said \in Opinions("Path", {"path"}) :
        LET raw == RunPath(said, now)
        IN  RunOf("path", chain, <<>>, now, raw, ApplyDeviations(store, raw, ToSet(chain), now))
  BY DEF RunWholePath
<1>2. PICK raw : raw = RunPath(said, now)
  OBVIOUS
<1>3. PICK done : done = ApplyDeviations(store, raw, ToSet(chain), now)
  OBVIOUS
<1>4. RunOf("path", chain, <<>>, now, raw, done)
  BY <1>1, <1>2, <1>3
<1>5. PICK run : run = out'
  OBVIOUS
<1>6. /\ run.api = "path" /\ run.chain = chain /\ run.now = now
      /\ run.raw = raw /\ run.findings = done.findings /\ run.deviated = done.deviated
  BY <1>4, <1>5 DEF RunOf
<1>7. ItemIs(raw, "Path", None)
  BY <1>2, RunPathIs
<1>8. Parts(raw, ToSet(chain), now, done.findings, done.deviated)
  <2>1. raw \in Seq(Reported)
    BY <1>7 DEF ItemIs
  <2> QED
    BY <1>3, <2>1, ApplyIs
<1>9. Ran(run)
  <2>1. run.chain \in Seq(Cert) /\ run.now \in Nat
    BY <1>6
  <2>2. Items(run) = {None} /\ ScopeOf(run) = "Path"
    BY <1>6 DEF Items, ScopeOf
  <2>3. ItemIs(run.raw, ScopeOf(run), None)
    BY <1>6, <1>7, <2>2
  <2>4. \A f : f.index = None => About(run, f) = ToSet(chain)
    BY <1>6 DEF About
  <2>5. Parts(run.raw, ToSet(chain), run.now, run.findings, run.deviated)
    BY <1>6, <1>8
  <2> QED
    BY <2>1, <2>2, <2>3, <2>4, <2>5, ItemRan
<1>10. UNCHANGED <<lints, store, written, plan>>
  BY <1>4 DEF RunOf
<1> QED
  BY <1>5, <1>9, <1>10

\* The last run was exact.
RunsAreExact == out.op = "run" => Ran(out)

\* What a run reports depends on the runner and the store, which it leaves alone.
LEMMA RanKept ==
  ASSUME Ran(out'), UNCHANGED <<lints, store>>
  PROVE  Ran(out)'
<1>1. \A f : IsWaived(out, f)' <=> IsWaived(out', f)
  BY DEF IsWaived, Found, About
<1>2. \A f : Waived(About(out, f), out.now, f)' = Waived(About(out', f), out'.now, f)
  BY DEF Waived, Found, About
<1>3. Complete(out)'
  <2>1. Complete(out')
    BY DEF Ran
  <2>2. Items(out)' = Items(out') /\ ScopeOf(out)' = ScopeOf(out') /\ lints' = lints
    BY DEF Items, ScopeOf
  <2> QED
    BY <2>1, <2>2 DEF Complete
<1>4. Parted(out)'
  BY <1>1, <1>2 DEF Ran, Parted
<1> QED
  BY <1>3, <1>4 DEF Ran

\* Whatever a session does, what the last run returned is exact.
LEMMA RunsStay == Composed /\ RunsAreExact /\ [Next]_vars => RunsAreExact'
<1> SUFFICES ASSUME Composed, RunsAreExact, [Next]_vars, out'.op = "run" PROVE Ran(out)'
  BY DEF RunsAreExact
<1>1. IsRunner(lints)
  BY DEF Composed
<1>2. CASE UNCHANGED vars
  <2>1. Ran(out) /\ out' = out /\ UNCHANGED <<lints, store>>
    BY <1>2 DEF vars, RunsAreExact
  <2> QED
    BY <2>1, RanKept
<1>3. ASSUME NEW c \in Chains, NEW now \in Times, RunChain(c.certs, c.kinds, now) PROVE Ran(out)'
  <2>1. c.certs \in Seq(Cert) /\ now \in Nat
    BY SessionAssumption
  <2> QED
    BY <1>1, <1>3, <2>1, RunChainRan, RanKept
<1>4. ASSUME NEW c \in Chains, NEW now \in Times, RunWholePath(c.certs, now) PROVE Ran(out)'
  <2>1. c.certs \in Seq(Cert) /\ now \in Nat
    BY SessionAssumption
  <2> QED
    BY <1>1, <1>4, <2>1, PathRan, RanKept
<1>5. ASSUME NEW c \in Chains, c.certs # <<>>, RunCertAtIssuance(c.certs[1], c.kinds[1]) PROVE Ran(out)'
  <2>1. c.certs \in Seq(Cert) /\ c.certs # <<>>
    BY <1>5, SessionAssumption
  <2>2. c.certs[1] \in Cert
    BY <2>1
  <2> QED
    BY <1>1, <1>5, <2>2, IssuanceRan, RanKept
<1>6. ASSUME NEW p \in Profiles, Resolve(p) PROVE FALSE
  BY <1>6 DEF Resolve
<1>7. CASE Filter
  BY <1>7 DEF Filter
<1>8. CASE Override
  BY <1>8 DEF Override
<1>9. CASE ReloadCatalog
  BY <1>9 DEF ReloadCatalog
<1>10. ASSUME NEW d \in Offered, AddDeviation(d) PROVE FALSE
  BY <1>10 DEF AddDeviation
<1>11. CASE SaveAndLoad
  BY <1>11 DEF SaveAndLoad
<1>12. ASSUME NEW json \in Risks, LoadRisks(json) PROVE FALSE
  BY <1>12 DEF LoadRisks
<1>13. CASE EmitReport
  BY <1>13 DEF EmitReport
<1> QED
  BY <1>2, <1>3, <1>4, <1>5, <1>6, <1>7, <1>8, <1>9, <1>10, <1>11, <1>12, <1>13 DEF Next

\* A run that is exact loses, doubles and invents no result.
LEMMA NothingVanishesThen == RunsAreExact => NothingVanishes
<1> SUFFICES ASSUME Ran(out), out.op = "run" PROVE NothingVanishes
  BY DEF RunsAreExact, NothingVanishes
<1>1. Complete(out)
  BY DEF Ran
<1> QED
  BY <1>1 DEF Complete, Items, ScopeOf, Places, NothingVanishes

-----------------------------------------------------------------------------
(* Serial numbers: serial_cmp compares the numbers the bytes stand for. *)

\* Bytes are numbers below 256.
LEMMA OctetsAre ==
  ASSUME NEW bytes \in Octets
  PROVE  /\ Len(bytes) \in Nat /\ DOMAIN bytes = 1 .. Len(bytes)
         /\ \A n \in 1 .. Len(bytes) : bytes[n] \in Nat /\ bytes[n] < 256
<1>1. PICK B : B = 0 .. 255
  OBVIOUS
<1>2. bytes \in Seq(B)
  BY <1>1 DEF Octets
<1>3. Len(bytes) \in Nat /\ DOMAIN bytes = 1 .. Len(bytes) /\ \A n \in 1 .. Len(bytes) : bytes[n] \in B
  BY <1>2
<1>4. \A b \in B : b \in Nat /\ b < 256
  BY <1>1
<1> QED
  BY <1>3, <1>4, Zenon

\* One digit more, to the base 256.
LEMMA OneDigit ==
  ASSUME NEW u \in Nat, NEW v \in Nat, NEW b \in Nat, NEW c \in Nat, b < 256, c < 256
  PROVE  /\ u * 256 + b < v * 256 + c <=> u < v \/ (u = v /\ b < c)
         /\ u * 256 + b = v * 256 + c <=> u = v /\ b = c
<1>1. CASE u < v
  <2>1. v * 256 >= u * 256 + 256
    BY <1>1
  <2> QED
    BY <1>1, <2>1
<1>2. CASE u = v
  BY <1>2
<1>3. CASE v < u
  <2>1. u * 256 >= v * 256 + 256
    BY <1>3
  <2> QED
    BY <1>3, <2>1
<1> QED
  BY <1>1, <1>2, <1>3

\* The number that each beginning of some bytes stands for.
Valued(bytes, val) ==
  val = [n \in 0 .. Len(bytes) |-> IF n = 0 THEN 0 ELSE val[n - 1] * 256 + bytes[n]]

\* The number that bytes stand for is the last value of the loop over them.
LEMMA NumberIs ==
  ASSUME NEW bytes \in Octets
  PROVE  \E val \in [0 .. Len(bytes) -> Nat] : Valued(bytes, val) /\ Number(bytes) = val[Len(bytes)]
<1> DEFINE L == Len(bytes)
           step == [n \in 1 .. L |-> [v \in Nat |-> v * 256 + bytes[n]]]
<1>1. L \in Nat /\ \A n \in 1 .. L : bytes[n] \in Nat
  BY OctetsAre
<1>2. step \in [1 .. L -> [Nat -> Nat]]
  <2> SUFFICES ASSUME NEW n \in 1 .. L, NEW v \in Nat PROVE v * 256 + bytes[n] \in Nat
    OBVIOUS
  <2>1. PICK b \in Nat : b = bytes[n]
    BY <1>1
  <2>2. v * 256 + b \in Nat
    OBVIOUS
  <2> QED
    BY <2>1, <2>2
<1>3. PICK f \in [0 .. L -> Nat] : Looped(f, L, 0, step)
  <2> HIDE DEF step, L
  <2> QED
    BY <1>1, <1>2, LoopExists
<1>4. ASSUME NEW n \in 0 .. L PROVE f[n] = IF n = 0 THEN 0 ELSE f[n - 1] * 256 + bytes[n]
  <2>1. CASE n = 0
    BY <1>3, <2>1 DEF Looped
  <2>2. CASE n # 0
    <3>1. n - 1 \in 0 .. L /\ n \in 1 .. L
      BY <1>1, <2>2
    <3>2. f[n] = step[n][f[n - 1]]
      <4> HIDE DEF step
      <4> QED
        BY <1>3, <2>2 DEF Looped
    <3>3. f[n - 1] \in Nat
      BY <3>1
    <3> QED
      BY <2>2, <3>1, <3>2, <3>3
  <2> QED
    BY <2>1, <2>2
<1>5. Valued(bytes, f)
  BY <1>4 DEF Valued
<1>6. PICK val : val = CHOOSE v : Valued(bytes, v)
  OBVIOUS
<1>7. Valued(bytes, val)
  BY <1>5, <1>6
<1>8. Number(bytes) = val[L]
  BY <1>6 DEF Number, Valued
<1>9. \A n \in 0 .. L : val[n] = f[n]
  <2> DEFINE S == {n \in 0 .. L : val[n] = f[n]}
  <2>1. 0 \in S
    BY <1>1, <1>5, <1>7 DEF Valued
  <2>2. ASSUME NEW n \in 1 .. L, n - 1 \in S PROVE n \in S
    <3>1. n \in 0 .. L /\ n # 0
      BY <1>1
    <3>2. f[n] = f[n - 1] * 256 + bytes[n]
      BY <1>5, <3>1 DEF Valued
    <3>3. val[n] = val[n - 1] * 256 + bytes[n]
      BY <1>7, <3>1 DEF Valued
    <3>4. val[n - 1] = f[n - 1]
      BY <2>2
    <3>5. val[n] = f[n]
      BY <3>2, <3>3, <3>4
    <3> QED
      BY <3>1, <3>5
  <2> HIDE DEF S
  <2>3. 0 .. L \subseteq S
    BY <1>1, <2>1, <2>2, UpTo
  <2> QED
    BY <2>3 DEF S
<1>10. val \in [0 .. L -> Nat]
  BY <1>7, <1>9 DEF Valued
<1> QED
  BY <1>7, <1>8, <1>10

\* One more byte.
LEMMA OneMore ==
  ASSUME NEW bytes \in Octets, NEW val \in [0 .. Len(bytes) -> Nat], Valued(bytes, val), NEW n \in 1 .. Len(bytes)
  PROVE  /\ val[n] \in Nat /\ val[n - 1] \in Nat /\ bytes[n] \in Nat /\ bytes[n] < 256
         /\ val[n] = val[n - 1] * 256 + bytes[n]
<1>1. Len(bytes) \in Nat /\ bytes[n] \in Nat /\ bytes[n] < 256
  BY OctetsAre
<1>2. n \in 0 .. Len(bytes) /\ n - 1 \in 0 .. Len(bytes) /\ n # 0
  BY <1>1
<1>3. val[n] = val[n - 1] * 256 + bytes[n]
  BY <1>2 DEF Valued
<1> QED
  BY <1>1, <1>2, <1>3

\* Numbers of the same length are compared byte by byte.
Before(x, y, n) == \E i \in 1 .. n : x[i] < y[i] /\ \A j \in 1 .. (i - 1) : x[j] = y[j]

\* Two numbers of the same length compare as the first byte in which they differ.
LEMMA ByteByByte ==
  ASSUME NEW x \in Octets, NEW y \in Octets, Len(x) = Len(y)
  PROVE  /\ Number(x) \in Nat /\ Number(y) \in Nat
         /\ Number(x) < Number(y) <=> Before(x, y, Len(x))
         /\ Number(x) = Number(y) <=> \A i \in 1 .. Len(x) : x[i] = y[i]
<1>1. PICK f \in [0 .. Len(x) -> Nat] : Valued(x, f) /\ Number(x) = f[Len(x)]
  BY NumberIs
<1>2. PICK g \in [0 .. Len(y) -> Nat] : Valued(y, g) /\ Number(y) = g[Len(y)]
  BY NumberIs
<1>3. PICK L \in Nat : L = Len(x) /\ L = Len(y)
  BY DEF Octets
<1> DEFINE Same(n) == \A i \in 1 .. n : x[i] = y[i]
           S == {n \in 0 .. L : (f[n] < g[n] <=> Before(x, y, n)) /\ (f[n] = g[n] <=> Same(n))}
<1>4. 0 \in S
  <2>1. f[0] = 0 /\ g[0] = 0 /\ ~(0 < 0)
    BY <1>1, <1>2, <1>3 DEF Valued
  <2> QED
    BY <2>1 DEF Before
<1>5. ASSUME NEW n \in 1 .. L, n - 1 \in S PROVE n \in S
  <2>1. /\ f[n] \in Nat /\ f[n - 1] \in Nat /\ x[n] \in Nat /\ x[n] < 256 /\ f[n] = f[n - 1] * 256 + x[n]
        /\ g[n] \in Nat /\ g[n - 1] \in Nat /\ y[n] \in Nat /\ y[n] < 256 /\ g[n] = g[n - 1] * 256 + y[n]
    <3>1. n \in 1 .. Len(x) /\ n \in 1 .. Len(y)
      BY <1>3
    <3> QED
      BY <1>1, <1>2, <3>1, OneMore
  <2>9. PICK u, v, b, c : u = f[n - 1] /\ v = g[n - 1] /\ b = x[n] /\ c = y[n]
    OBVIOUS
  <2>10. /\ u * 256 + b < v * 256 + c <=> u < v \/ (u = v /\ b < c)
         /\ u * 256 + b = v * 256 + c <=> u = v /\ b = c
    <3>1. u \in Nat /\ v \in Nat /\ b \in Nat /\ c \in Nat /\ b < 256 /\ c < 256
      BY <2>1, <2>9
    <3> QED
      BY <3>1, OneDigit
  <2>2. f[n] < g[n] <=> u < v \/ (u = v /\ b < c)
    <3>1. f[n] = u * 256 + b /\ g[n] = v * 256 + c
      BY <2>1, <2>9, Zenon
    <3>2. f[n] < g[n] <=> u * 256 + b < v * 256 + c
      BY <3>1, Zenon
    <3> QED
      BY <3>2, <2>10, Zenon
  <2>3. f[n] = g[n] <=> u = v /\ b = c
    BY <2>1, <2>9, <2>10, Zenon
  <2>4. (u < v <=> Before(x, y, n - 1)) /\ (u = v <=> Same(n - 1))
    BY <1>5, <2>9
  <2>5. Before(x, y, n) <=> Before(x, y, n - 1) \/ (Same(n - 1) /\ b < c)
    <3>1. ASSUME NEW i \in 1 .. n, x[i] < y[i] /\ \A j \in 1 .. (i - 1) : x[j] = y[j]
          PROVE  Before(x, y, n - 1) \/ (Same(n - 1) /\ b < c)
      <4>1. CASE i = n
        BY <2>9, <3>1, <4>1
      <4>2. CASE i # n
        <5>1. i \in 1 .. n - 1
          BY <4>2
        <5> QED
          BY <3>1, <5>1 DEF Before
      <4> QED
        BY <4>1, <4>2
    <3>2. ASSUME NEW i \in 1 .. n - 1, x[i] < y[i] /\ \A j \in 1 .. (i - 1) : x[j] = y[j] PROVE Before(x, y, n)
      <4>1. i \in 1 .. n
        OBVIOUS
      <4> QED
        BY <3>2, <4>1 DEF Before
    <3>3. ASSUME Same(n - 1), b < c PROVE Before(x, y, n)
      <4>1. n \in 1 .. n /\ x[n] < y[n] /\ \A j \in 1 .. (n - 1) : x[j] = y[j]
        BY <2>9, <3>3
      <4> QED
        BY <4>1 DEF Before
    <3> QED
      BY <3>1, <3>2, <3>3 DEF Before
  <2>6. Same(n) <=> Same(n - 1) /\ b = c
    <3>1. Same(n) => Same(n - 1) /\ b = c
      BY <2>9
    <3>2. ASSUME Same(n - 1), b = c, NEW i \in 1 .. n PROVE x[i] = y[i]
      <4>1. CASE i = n
        BY <2>9, <3>2, <4>1
      <4>2. CASE i # n
        <5>1. i \in 1 .. n - 1
          BY <4>2
        <5> QED
          BY <3>2, <5>1
      <4> QED
        BY <4>1, <4>2
    <3> QED
      BY <3>1, <3>2
  <2>7. n \in 0 .. L
    OBVIOUS
  <2> HIDE DEF Same
  <2> QED
    BY <2>2, <2>3, <2>4, <2>5, <2>6, <2>7
<1>6. L \in S
  <2> HIDE DEF S
  <2>1. 0 .. L \subseteq S
    BY <1>4, <1>5, UpTo
  <2> QED
    BY <2>1
<1>7. f[L] \in Nat /\ g[L] \in Nat
  BY <1>3
<1> QED
  BY <1>1, <1>2, <1>3, <1>6, <1>7

\* The loop over the bytes, one step at a time.
LEMMA EveryStep ==
  ASSUME NEW bytes \in Octets, NEW val \in [0 .. Len(bytes) -> Nat], Valued(bytes, val)
  PROVE  \A n \in 1 .. Len(bytes) : val[n] = val[n - 1] * 256 + bytes[n]
BY OneMore

\* Zeros ahead of a number do not change it.
LEMMA ZerosAhead ==
  ASSUME NEW x \in Octets, NEW s \in Octets, NEW n \in Nat, Len(x) = n + Len(s),
         \A i \in 1 .. n : x[i] = 0, \A i \in 1 .. Len(s) : x[n + i] = s[i]
  PROVE  Number(x) = Number(s)
<1>1. PICK f \in [0 .. Len(x) -> Nat] : Valued(x, f) /\ Number(x) = f[Len(x)]
  BY NumberIs
<1>2. PICK g \in [0 .. Len(s) -> Nat] : Valued(s, g) /\ Number(s) = g[Len(s)]
  BY NumberIs
<1>3. PICK M \in Nat : M = Len(s) /\ Len(x) = n + M
  BY OctetsAre
<1>8. \A k \in 1 .. Len(x) : f[k] = f[k - 1] * 256 + x[k]
  BY <1>1, EveryStep
<1>9. \A k \in 1 .. Len(s) : g[k] = g[k - 1] * 256 + s[k]
  BY <1>2, EveryStep
<1> DEFINE Z == {i \in 0 .. n : f[i] = 0}
           S == {i \in 0 .. M : f[n + i] = g[i]}
<1>4. n \in Z
  <2>1. 0 \in Z
    BY <1>1, <1>3 DEF Valued
  <2>2. ASSUME NEW i \in 1 .. n, i - 1 \in Z PROVE i \in Z
    <3>1. i \in 1 .. Len(x)
      BY <1>3
    <3>2. f[i] = f[i - 1] * 256 + x[i]
      BY <1>8, <3>1
    <3>3. f[i - 1] = 0 /\ x[i] = 0
      BY <2>2
    <3>4. f[i] = 0
      BY <3>2, <3>3
    <3> QED
      BY <3>4
  <2> HIDE DEF Z
  <2>3. 0 .. n \subseteq Z
    BY <2>1, <2>2, UpTo
  <2> QED
    BY <2>3
<1>5. 0 \in S
  <2>1. g[0] = 0
    BY <1>2, <1>3 DEF Valued
  <2> QED
    BY <1>4, <2>1
<1>6. ASSUME NEW i \in 1 .. M, i - 1 \in S PROVE i \in S
  <2>1. n + i \in 1 .. Len(x) /\ i \in 1 .. Len(s)
    BY <1>3
  <2>2. f[n + i] = f[n + i - 1] * 256 + x[n + i]
    <3>1. PICK k \in 1 .. Len(x) : k = n + i
      BY <2>1
    <3>2. f[k] = f[k - 1] * 256 + x[k]
      BY <1>8
    <3> QED
      BY <3>1, <3>2
  <2>3. g[i] = g[i - 1] * 256 + s[i]
    BY <1>9, <2>1
  <2>4. f[n + (i - 1)] = g[i - 1]
    BY <1>6
  <2>5. n + (i - 1) = n + i - 1
    OBVIOUS
  <2>6. x[n + i] = s[i]
    BY <2>1
  <2>7. f[n + i] = g[i]
    BY <2>2, <2>3, <2>4, <2>5, <2>6
  <2> QED
    BY <2>7
<1>7. M \in S
  <2> HIDE DEF S
  <2>1. 0 .. M \subseteq S
    BY <1>5, <1>6, UpTo
  <2> QED
    BY <2>1
<1> QED
  BY <1>1, <1>2, <1>3, <1>7

\* A longer number is greater if its first digit is not zero.
LEMMA LongerIsGreater ==
  ASSUME NEW a \in Octets, NEW b \in Octets, Len(a) < Len(b), b[1] # 0
  PROVE  Number(a) < Number(b)
<1>1. PICK L \in Nat, M \in Nat : L = Len(a) /\ M = Len(b)
  BY OctetsAre
<1> DEFINE n == M - L
           x == [i \in 1 .. M |-> IF i <= n THEN 0 ELSE a[i - n]]
<1>2. n \in Nat /\ 1 <= n /\ n <= M /\ M = n + L
  BY <1>1
<1>3. \A i \in 1 .. L : a[i] \in Nat /\ a[i] < 256
  BY <1>1, OctetsAre
<1>4. ASSUME NEW i \in 1 .. M PROVE x[i] \in 0 .. 255
  <2>1. CASE i <= n
    BY <2>1
  <2>2. CASE i > n
    <3>1. i - n \in 1 .. L
      BY <1>2, <2>2
    <3>2. x[i] = a[i - n]
      BY <2>2
    <3>3. a[i - n] \in Nat /\ a[i - n] < 256
      BY <1>3, <3>1
    <3>4. PICK c : c = a[i - n]
      OBVIOUS
    <3>5. c \in 0 .. 255
      <4>1. c \in Nat /\ c < 256
        <5> HIDE DEF x, n
        <5> QED
          BY <3>3, <3>4
      <4> QED
        BY <4>1
    <3> HIDE DEF x, n
    <3> QED
      BY <3>2, <3>4, <3>5
  <2> QED
    BY <2>1, <2>2
<1>5. x \in Octets /\ Len(x) = M
  <2>1. PICK B : B = 0 .. 255
    OBVIOUS
  <2>2. x \in [1 .. M -> B]
    BY <1>4, <2>1
  <2>3. x \in Seq(B) /\ DOMAIN x = 1 .. M /\ Len(x) = M
    <3> HIDE DEF x
    <3> QED
      BY <2>2
  <2> HIDE DEF x
  <2> QED
    BY <2>1, <2>3 DEF Octets
<1>6. \A i \in 1 .. n : x[i] = 0
  BY <1>2
<1>7. \A i \in 1 .. L : x[n + i] = a[i]
  <2> SUFFICES ASSUME NEW i \in 1 .. L PROVE x[n + i] = a[i]
    OBVIOUS
  <2>1. n + i \in 1 .. M /\ ~(n + i <= n) /\ n + i - n = i
    BY <1>2
  <2> QED
    BY <2>1
<1>8. Number(x) = Number(a)
  <2> HIDE DEF x, n
  <2> QED
    BY <1>1, <1>2, <1>5, <1>6, <1>7, ZerosAhead
<1>9. Number(x) < Number(b)
  <2>1. x[1] = 0 /\ 1 \in 1 .. M
    BY <1>2
  <2>2. b[1] \in Nat
    BY <1>1, <2>1, OctetsAre
  <2>3. Before(x, b, M)
    <3> HIDE DEF x
    <3>1. x[1] < b[1] /\ \A j \in 1 .. (1 - 1) : x[j] = b[j]
      BY <2>1, <2>2
    <3> QED
      BY <2>1, <3>1 DEF Before
  <2> HIDE DEF x
  <2> QED
    BY <1>1, <1>5, <2>3, ByteByByte
<1> QED
  BY <1>8, <1>9

\* strip_leading_zeros
LEMMA StripIs ==
  ASSUME NEW bytes \in Octets
  PROVE  LET s == StripLeadingZeros(bytes)
         IN  s \in Octets /\ Number(s) = Number(bytes) /\ (Len(s) > 0 => s[1] # 0)
<1>1. PICK L \in Nat : L = Len(bytes) /\ DOMAIN bytes = 1 .. L
  BY OctetsAre
<1> DEFINE zeros == {n \in 0 .. L : \A i \in 1 .. n : bytes[i] = 0}
<1>2. \E n \in zeros : \A k \in zeros : k <= n
  <2>1. 0 \in zeros /\ zeros \in SUBSET (0 .. L)
    OBVIOUS
  <2> HIDE DEF zeros
  <2> QED
    BY <2>1, GreatestNumber
<1>3. PICK n : n = CHOOSE m \in zeros : \A k \in zeros : k <= m
  OBVIOUS
<1>4. n \in zeros /\ \A k \in zeros : k <= n
  BY <1>2, <1>3
<1>5. PICK s : s = SubSeq(bytes, n + 1, L)
  OBVIOUS
<1>6. StripLeadingZeros(bytes) = s
  BY <1>1, <1>3, <1>5 DEF StripLeadingZeros
<1>7. n \in 0 .. L /\ \A i \in 1 .. n : bytes[i] = 0
  BY <1>4
<1>8. PICK B : B = 0 .. 255
  OBVIOUS
<1>9. /\ s \in Seq(B) /\ Len(s) = L - n
      /\ \A i \in 1 .. L - n : s[i] = bytes[n + i]
  <2>1. bytes \in Seq(B)
    BY <1>8 DEF Octets
  <2>2. n + 1 \in 1 .. L + 1 /\ L \in n .. L /\ n \in Nat
    BY <1>7
  <2>3. \A i \in n + 1 .. L : bytes[i] \in B
    BY <1>1, <1>7, <2>1
  <2>4. s = [i \in 1 .. (L - (n + 1) + 1) |-> bytes[n + 1 + i - 1]]
    BY <1>5, <2>1, <2>2
  <2>5. L - (n + 1) + 1 = L - n /\ L - n \in Nat /\ \A i \in 1 .. L - n : n + 1 + i - 1 = n + i /\ n + i \in n + 1 .. L
    BY <1>7
  <2>6. s = [i \in 1 .. L - n |-> bytes[n + i]]
    BY <2>4, <2>5
  <2>7. s \in [1 .. L - n -> B]
    BY <2>3, <2>5, <2>6
  <2>8. s \in Seq(B) /\ Len(s) = L - n
    BY <2>5, <2>7
  <2> QED
    BY <2>6, <2>8
<1>10. s \in Octets
  BY <1>8, <1>9 DEF Octets
<1>11. Number(s) = Number(bytes)
  <2>1. L = n + Len(s) /\ n \in Nat
    BY <1>7, <1>9
  <2>2. \A i \in 1 .. Len(s) : bytes[n + i] = s[i]
    BY <1>9
  <2> QED
    BY <1>1, <1>7, <1>10, <2>1, <2>2, ZerosAhead
<1>12. ASSUME Len(s) > 0 PROVE s[1] # 0
  <2>1. n + 1 \in 0 .. L /\ 1 \in 1 .. L - n
    BY <1>7, <1>9, <1>12
  <2>2. s[1] = bytes[n + 1]
    BY <1>9, <2>1
  <2>3. ASSUME bytes[n + 1] = 0 PROVE FALSE
    <3>1. \A i \in 1 .. n + 1 : bytes[i] = 0
      BY <1>7, <2>3
    <3>2. n + 1 \in zeros
      BY <2>1, <3>1
    <3>3. n + 1 <= n
      BY <1>4, <3>2
    <3> QED
      BY <1>7, <3>3
  <2> QED
    BY <2>2, <2>3
<1> QED
  BY <1>6, <1>10, <1>11, <1>12

\* serial_cmp is the order of numbers.
LEMMA SerialLeIs ==
  ASSUME NEW x \in Octets, NEW y \in Octets
  PROVE  SerialLe(x, y) <=> Number(x) <= Number(y)
<1>1. PICK a \in Octets : a = StripLeadingZeros(x) /\ Number(a) = Number(x) /\ (Len(a) > 0 => a[1] # 0)
  BY StripIs
<1>2. PICK b \in Octets : b = StripLeadingZeros(y) /\ Number(b) = Number(y) /\ (Len(b) > 0 => b[1] # 0)
  BY StripIs
<1>3. SerialLe(x, y) <=> \/ Len(a) < Len(b)
                         \/ /\ Len(a) = Len(b)
                            /\ \/ a = b
                               \/ \E i \in DOMAIN a : a[i] < b[i] /\ \A j \in 1..(i - 1) : a[j] = b[j]
  BY <1>1, <1>2 DEF SerialLe
<1>4. Len(a) \in Nat /\ Len(b) \in Nat /\ DOMAIN a = 1 .. Len(a) /\ DOMAIN b = 1 .. Len(b)
  BY OctetsAre
<1>5. Number(a) \in Nat /\ Number(b) \in Nat
  BY ByteByByte
<1>6. CASE Len(a) < Len(b)
  <2>1. Len(b) > 0
    BY <1>4, <1>6
  <2>2. Number(a) < Number(b)
    BY <1>2, <1>6, <2>1, LongerIsGreater
  <2>3. Number(a) <= Number(b)
    BY <1>5, <2>2
  <2> QED
    BY <1>1, <1>2, <1>3, <1>6, <2>3
<1>7. CASE Len(b) < Len(a)
  <2>1. Len(a) > 0 /\ ~(Len(a) < Len(b)) /\ Len(a) # Len(b)
    <3>1. PICK p \in Nat, q \in Nat : p = Len(a) /\ q = Len(b)
      BY <1>4
    <3>2. q < p => p > 0 /\ ~(p < q) /\ p # q
      OBVIOUS
    <3> QED
      BY <1>7, <3>1, <3>2, Zenon
  <2>2. Number(b) < Number(a)
    BY <1>1, <1>7, <2>1, LongerIsGreater
  <2>3. ~(Number(a) <= Number(b))
    BY <1>5, <2>2
  <2> QED
    BY <1>1, <1>2, <1>3, <2>1, <2>3
<1>8. CASE Len(a) = Len(b)
  <2>1. /\ Number(a) < Number(b) <=> Before(a, b, Len(a))
        /\ Number(a) = Number(b) <=> \A i \in 1 .. Len(a) : a[i] = b[i]
    BY <1>8, ByteByByte
  <2>2. Number(a) <= Number(b) <=> Number(a) < Number(b) \/ Number(a) = Number(b)
    BY <1>5
  <2>3. (\A i \in 1 .. Len(a) : a[i] = b[i]) <=> a = b
    <3>1. a \in Seq(0 .. 255) /\ b \in Seq(0 .. 255)
      BY DEF Octets
    <3> QED
      BY <1>4, <1>8, <3>1
  <2>4. ~(Len(a) < Len(b))
    BY <1>4, <1>8
  <2>5. Before(a, b, Len(a)) <=> \E i \in DOMAIN a : a[i] < b[i] /\ \A j \in 1..(i - 1) : a[j] = b[j]
    BY <1>4 DEF Before
  <2> QED
    BY <1>1, <1>2, <1>3, <1>8, <2>1, <2>2, <2>3, <2>4, <2>5, Zenon
<1>9. Len(a) < Len(b) \/ Len(b) < Len(a) \/ Len(a) = Len(b)
  <2>1. PICK p \in Nat, q \in Nat : p = Len(a) /\ q = Len(b)
    BY <1>4
  <2>2. p < q \/ q < p \/ p = q
    OBVIOUS
  <2> QED
    BY <2>1, <2>2, Zenon
<1> QED
  BY <1>6, <1>7, <1>8, <1>9

-----------------------------------------------------------------------------
(* What the checks on a deviation and on a risk say. *)

\* Deviation::new: what its checks ask for.
LEMMA NewLists ==
  ASSUME NEW d
  PROVE  /\ NewChecks(d) \in Lists
         /\ Failing(NewChecks(d)) = {} <=> d.id # "" /\ d.target # <<>> /\ d.just # "" /\ d.auth # ""
<1>1. PICK r1, r2, r3, r4 : /\ r1 = <<d.id = "", "EmptyField">> /\ r2 = <<d.target = <<>>, "EmptyField">>
                            /\ r3 = <<d.just = "", "EmptyField">> /\ r4 = <<d.auth = "", "EmptyField">>
  OBVIOUS
<1>2. NewChecks(d) = <<r1, r2, r3, r4>>
  BY <1>1 DEF NewChecks
<1>3. r1 \in BOOLEAN \X Errors /\ r2 \in BOOLEAN \X Errors
  BY <1>1, Named
<1>4. r3 \in BOOLEAN \X Errors /\ r4 \in BOOLEAN \X Errors
  BY <1>1, Named
<1>5. /\ NewChecks(d) \in Lists
      /\ Failing(NewChecks(d)) = {} <=> ~r1[1] /\ ~r2[1] /\ ~r3[1] /\ ~r4[1]
  BY <1>2, <1>3, <1>4, List4
<1>6. r1[1] = (d.id = "") /\ r2[1] = (d.target = <<>>) /\ r3[1] = (d.just = "") /\ r4[1] = (d.auth = "")
  BY <1>1
<1> QED
  BY <1>5, <1>6

\* DeviationStore::add: what its checks ask for.
LEMMA AddLists ==
  ASSUME NEW s, NEW d
  PROVE  /\ AddChecks(s, d) \in Lists
         /\ Failing(AddChecks(s, d)) = {} <=>
              d.just # "" /\ d.auth # "" /\ (\A i \in DOMAIN s : s[i].id # d.id) /\ ScopeWellFormed(d.scope)
<1>1. PICK r1, r2, r3, r4 : /\ r1 = <<d.just = "", "EmptyField">> /\ r2 = <<d.auth = "", "EmptyField">>
                            /\ r3 = <<\E i \in DOMAIN s : s[i].id = d.id, "DuplicateId">>
                            /\ r4 = <<~ScopeWellFormed(d.scope), "MalformedScope">>
  OBVIOUS
<1>2. AddChecks(s, d) = <<r1, r2, r3, r4>>
  BY <1>1 DEF AddChecks
<1>3. r1 \in BOOLEAN \X Errors /\ r2 \in BOOLEAN \X Errors
  BY <1>1, Named
<1>4. r3 \in BOOLEAN \X Errors /\ r4 \in BOOLEAN \X Errors
  <2>1. (\E i \in DOMAIN s : s[i].id = d.id) \in BOOLEAN /\ (~ScopeWellFormed(d.scope)) \in BOOLEAN
    OBVIOUS
  <2> QED
    BY <1>1, <2>1, Named
<1>5. /\ AddChecks(s, d) \in Lists
      /\ Failing(AddChecks(s, d)) = {} <=> ~r1[1] /\ ~r2[1] /\ ~r3[1] /\ ~r4[1]
  BY <1>2, <1>3, <1>4, List4
<1>6. r1[1] = (d.just = "") /\ r2[1] = (d.auth = "")
  BY <1>1
<1>7. r3[1] = (\E i \in DOMAIN s : s[i].id = d.id) /\ r4[1] = ~ScopeWellFormed(d.scope)
  BY <1>1
<1> QED
  BY <1>5, <1>6, <1>7

\* required_nonempty_prop: there is one, and it is not empty.
LEMMA RequiredLists ==
  ASSUME NEW a \in BOOLEAN, NEW b \in BOOLEAN
  PROVE  Required(a, b) \in Lists /\ (Failing(Required(a, b)) = {} <=> ~a /\ ~b)
<1>1. PICK r1, r2 : r1 = <<a, "MissingProp">> /\ r2 = <<b, "EmptyProp">>
  OBVIOUS
<1>2. Required(a, b) = <<r1, r2>>
  BY <1>1 DEF Required
<1>3. r1 \in BOOLEAN \X Errors /\ r2 \in BOOLEAN \X Errors
  BY <1>1, Named
<1>4. Required(a, b) \in Lists /\ (Failing(Required(a, b)) = {} <=> ~r1[1] /\ ~r2[1])
  BY <1>2, <1>3, List2
<1> QED
  BY <1>1, <1>4

\* Bytes are there, and the ones of a name decode.
BytesOk(s, name) == s.props[name].form = "hex" /\ (name = "der" => FromDer(s.props[name].value))

\* hex_decode and decode_name: what their checks ask for.
LEMMA BytesLists ==
  ASSUME NEW s, NEW name
  PROVE  BytesChecks(s, name) \in Lists /\ (Failing(BytesChecks(s, name)) = {} <=> BytesOk(s, name))
<1>1. PICK r1, r2, r3 :
        /\ r1 = <<s.props[name].form = "absent", "MissingSubjectProp">>
        /\ r2 = <<s.props[name].form # "hex", "MalformedHex">>
        /\ r3 = <<name = "der" /\ s.props[name].form = "hex" /\ ~FromDer(s.props[name].value), "MalformedDer">>
  OBVIOUS
<1>2. BytesChecks(s, name) = <<r1, r2, r3>>
  BY <1>1 DEF BytesChecks
<1>3. r1 \in BOOLEAN \X Errors /\ r2 \in BOOLEAN \X Errors
  BY <1>1, Named
<1>4. r3 \in BOOLEAN \X Errors
  BY <1>1, Named
<1>5. BytesChecks(s, name) \in Lists /\ (Failing(BytesChecks(s, name)) = {} <=> ~r1[1] /\ ~r2[1] /\ ~r3[1])
  BY <1>2, <1>3, <1>4, List3
<1>6. r1[1] = (s.props[name].form = "absent") /\ r2[1] = (s.props[name].form # "hex")
  BY <1>1
<1>7. r3[1] = (name = "der" /\ s.props[name].form = "hex" /\ ~FromDer(s.props[name].value))
  BY <1>1
<1> QED
  BY <1>5, <1>6, <1>7 DEF BytesOk

\* A scope that is read is of a known kind and has what its kind needs.
SubjectOk(s) ==
  /\ s.form = "object" /\ s.kind \in ScopeKinds
  /\ s.kind = "contains" => s.props["substring"].form # "absent"
  /\ s.kind \in {"exact", "range"} => BytesOk(s, "der")
  /\ s.kind = "range" => BytesOk(s, "start") /\ BytesOk(s, "end")

\* parse_subject: what its checks ask for.
LEMMA SubjectLists ==
  ASSUME NEW s
  PROVE  SubjectChecks(s) \in Lists /\ (Failing(SubjectChecks(s)) = {} <=> SubjectOk(s))
<1>1. CASE s.form # "object"
  BY <1>1, Refusal, Named DEF SubjectChecks, SubjectOk
<1>2. CASE s.form = "object" /\ s.kind = "absent"
  <2>1. SubjectChecks(s) = << <<TRUE, "SubjectMissingType">> >>
    BY <1>2 DEF SubjectChecks
  <2>2. ~SubjectOk(s)
    BY <1>2 DEF SubjectOk, ScopeKinds
  <2> QED
    BY <2>1, <2>2, Refusal, Named
<1>3. CASE s.form = "object" /\ s.kind = "any"
  <2>1. SubjectChecks(s) = <<>>
    BY <1>3 DEF SubjectChecks
  <2>2. SubjectOk(s)
    BY <1>3 DEF SubjectOk, ScopeKinds
  <2> QED
    BY <2>1, <2>2, NoChecks
<1>4. CASE s.form = "object" /\ s.kind = "contains"
  <2>1. PICK r : r = <<s.props["substring"].form = "absent", "MissingSubjectProp">>
    OBVIOUS
  <2>2. SubjectChecks(s) = <<r>>
    BY <1>4, <2>1 DEF SubjectChecks
  <2>3. r \in BOOLEAN \X Errors /\ r[1] = (s.props["substring"].form = "absent")
    BY <2>1, Named
  <2>4. SubjectOk(s) <=> ~r[1]
    BY <1>4, <2>3 DEF SubjectOk, ScopeKinds
  <2> QED
    BY <2>2, <2>3, <2>4, List1
<1>5. CASE s.form = "object" /\ s.kind = "exact"
  <2>1. SubjectChecks(s) = BytesChecks(s, "der")
    BY <1>5 DEF SubjectChecks
  <2>2. SubjectOk(s) <=> BytesOk(s, "der")
    BY <1>5 DEF SubjectOk, ScopeKinds
  <2> QED
    BY <2>1, <2>2, BytesLists
<1>6. CASE s.form = "object" /\ s.kind = "range"
  <2>1. PICK a, b, c : a = BytesChecks(s, "der") /\ b = BytesChecks(s, "start") /\ c = BytesChecks(s, "end")
    OBVIOUS
  <2>2. SubjectChecks(s) = a \o b \o c
    BY <1>6, <2>1 DEF SubjectChecks
  <2>3. /\ a \in Lists /\ b \in Lists /\ c \in Lists
        /\ Failing(a) = {} <=> BytesOk(s, "der")
        /\ Failing(b) = {} <=> BytesOk(s, "start")
        /\ Failing(c) = {} <=> BytesOk(s, "end")
    BY <2>1, BytesLists
  <2>4. PICK ab : ab = a \o b
    OBVIOUS
  <2>5. ab \in Lists /\ (Failing(ab) = {} <=> Failing(a) = {} /\ Failing(b) = {})
    BY <2>3, <2>4, Joined
  <2>6. ab \o c \in Lists /\ (Failing(ab \o c) = {} <=> Failing(ab) = {} /\ Failing(c) = {})
    BY <2>3, <2>5, Joined
  <2>7. SubjectOk(s) <=> BytesOk(s, "der") /\ BytesOk(s, "start") /\ BytesOk(s, "end")
    BY <1>6 DEF SubjectOk, ScopeKinds
  <2> QED
    BY <2>2, <2>3, <2>4, <2>5, <2>6, <2>7, Zenon
<1>7. CASE s.form = "object" /\ s.kind \notin {"absent", "any", "contains", "exact", "range"}
  <2>1. SubjectChecks(s) = << <<TRUE, "UnknownSubjectType">> >>
    BY <1>7 DEF SubjectChecks
  <2>2. ~SubjectOk(s)
    BY <1>7 DEF SubjectOk, ScopeKinds
  <2> QED
    BY <2>1, <2>2, Refusal, Named
<1> QED
  BY <1>1, <1>2, <1>3, <1>4, <1>5, <1>6, <1>7

\* A risk that is read.
RiskOk(r) ==
  /\ r.form = "object" /\ r.status = "deviation-approved"
  /\ r.description # "absent" /\ r.id # "absent" /\ r.id # "" /\ r.target # <<"absent">> /\ r.target # <<>>
  /\ r.action.kind \in {"suppress", "downgrade"} /\ (r.action.kind = "downgrade" => r.action.to \in Severities)
  /\ r.auth # "absent" /\ r.auth # "" /\ r.start # Malformed /\ r.end # Malformed
  /\ r.priority.form # "malformed"
  /\ r.subjects.form = "array" /\ r.subjects.items # <<>> /\ SubjectOk(Head(r.subjects.items))

\* The list of checks, part by part.
RiskParts(r, a, b, c, d, e, f, g, h) ==
  /\ a = << <<r.status # "deviation-approved", "InvalidStatus">>,
            <<r.description = "absent", "MissingDescription">> >>
  /\ b = Required(r.id = "absent", r.id = "") /\ c = Required(r.target = <<"absent">>, r.target = <<>>)
  /\ d = Required(r.action.kind = "absent", r.action.kind = "")
  /\ e = << <<r.action.kind \notin {"suppress", "downgrade"}, "UnknownAction">>,
            <<r.action.kind = "downgrade" /\ r.action.to \notin Severities, "UnknownAction">> >>
  /\ f = Required(r.auth = "absent", r.auth = "")
  /\ g = << <<r.start = Malformed, "InvalidU64">>, <<r.end = Malformed, "InvalidU64">>,
            <<r.priority.form = "malformed", "InvalidI32">>,
            <<r.subjects.form # "array", "SubjectsNotArray">>,
            <<r.subjects.form = "array" /\ r.subjects.items = <<>>, "MissingSubject">> >>
  /\ h = IF r.subjects.form = "array" /\ r.subjects.items # <<>>
           THEN SubjectChecks(Head(r.subjects.items)) ELSE <<>>

\* A list of checks that asks for P.
Passes(c, P) == c \in Lists /\ (Failing(c) = {} <=> P)

\* The checks of parse_risk on a status, an action, and the times, the priority and the subjects.
LEMMA RiskPassesFirst ==
  ASSUME NEW r, NEW a, NEW b, NEW c, NEW d, NEW e, NEW f, NEW g, NEW h, RiskParts(r, a, b, c, d, e, f, g, h)
  PROVE  /\ Passes(a, r.status = "deviation-approved" /\ r.description # "absent")
         /\ Passes(e, /\ r.action.kind \in {"suppress", "downgrade"}
                      /\ r.action.kind = "downgrade" => r.action.to \in Severities)
         /\ Passes(g, /\ r.start # Malformed /\ r.end # Malformed /\ r.priority.form # "malformed"
                      /\ r.subjects.form = "array" /\ r.subjects.items # <<>>)
<1>1. PICK r1, r2 : /\ r1 = <<r.status # "deviation-approved", "InvalidStatus">>
                    /\ r2 = <<r.description = "absent", "MissingDescription">>
  OBVIOUS
<1>2. r1 \in BOOLEAN \X Errors /\ r2 \in BOOLEAN \X Errors
  BY <1>1, Named
<1>3. a \in Lists /\ (Failing(a) = {} <=> ~r1[1] /\ ~r2[1])
  <2>1. a = <<r1, r2>>
    BY <1>1 DEF RiskParts
  <2> QED
    BY <1>2, <2>1, List2
<1>4. PICK s1, s2 : /\ s1 = <<r.action.kind \notin {"suppress", "downgrade"}, "UnknownAction">>
                    /\ s2 = <<r.action.kind = "downgrade" /\ r.action.to \notin Severities, "UnknownAction">>
  OBVIOUS
<1>5. s1 \in BOOLEAN \X Errors /\ s2 \in BOOLEAN \X Errors
  BY <1>4, Named
<1>6. e \in Lists /\ (Failing(e) = {} <=> ~s1[1] /\ ~s2[1])
  <2>1. e = <<s1, s2>>
    BY <1>4 DEF RiskParts
  <2> QED
    BY <1>5, <2>1, List2
<1>7. PICK t1, t2, t3, t4, t5 :
        /\ t1 = <<r.start = Malformed, "InvalidU64">> /\ t2 = <<r.end = Malformed, "InvalidU64">>
        /\ t3 = <<r.priority.form = "malformed", "InvalidI32">>
        /\ t4 = <<r.subjects.form # "array", "SubjectsNotArray">>
        /\ t5 = <<r.subjects.form = "array" /\ r.subjects.items = <<>>, "MissingSubject">>
  OBVIOUS
<1>8. t1 \in BOOLEAN \X Errors /\ t2 \in BOOLEAN \X Errors /\ t3 \in BOOLEAN \X Errors
  BY <1>7, Named
<1>9. t4 \in BOOLEAN \X Errors /\ t5 \in BOOLEAN \X Errors
  BY <1>7, Named
<1>10. g \in Lists /\ (Failing(g) = {} <=> ~t1[1] /\ ~t2[1] /\ ~t3[1] /\ ~t4[1] /\ ~t5[1])
  <2>1. g = <<t1, t2, t3, t4, t5>>
    BY <1>7 DEF RiskParts
  <2> QED
    BY <1>8, <1>9, <2>1, List5
<1>11. Passes(a, r.status = "deviation-approved" /\ r.description # "absent")
  <2>1. r1[1] = (r.status # "deviation-approved") /\ r2[1] = (r.description = "absent")
    BY <1>1
  <2> QED
    BY <1>3, <2>1 DEF Passes
<1>12. Passes(e, /\ r.action.kind \in {"suppress", "downgrade"}
                 /\ r.action.kind = "downgrade" => r.action.to \in Severities)
  <2>1. /\ s1[1] = (r.action.kind \notin {"suppress", "downgrade"})
        /\ s2[1] = (r.action.kind = "downgrade" /\ r.action.to \notin Severities)
    BY <1>4
  <2> QED
    BY <1>6, <2>1 DEF Passes
<1>13. Passes(g, /\ r.start # Malformed /\ r.end # Malformed /\ r.priority.form # "malformed"
                 /\ r.subjects.form = "array" /\ r.subjects.items # <<>>)
  <2>1. /\ t1[1] = (r.start = Malformed) /\ t2[1] = (r.end = Malformed) /\ t3[1] = (r.priority.form = "malformed")
        /\ t4[1] = (r.subjects.form # "array") /\ t5[1] = (r.subjects.form = "array" /\ r.subjects.items = <<>>)
    BY <1>7
  <2> QED
    BY <1>10, <2>1 DEF Passes
<1> QED
  BY <1>11, <1>12, <1>13

\* The checks of parse_risk on a property that has to be there.
LEMMA RequiredPasses ==
  ASSUME NEW x, NEW y, NEW z
  PROVE  Passes(Required(x = y, x = z), x # y /\ x # z)
<1>1. (x = y) \in BOOLEAN /\ (x = z) \in BOOLEAN
  OBVIOUS
<1>2. PICK c : c = Required(x = y, x = z)
  OBVIOUS
<1>3. c \in Lists /\ (Failing(c) = {} <=> ~(x = y) /\ ~(x = z))
  BY <1>1, <1>2, RequiredLists
<1> QED
  BY <1>2, <1>3 DEF Passes

\* The parts of the checks of parse_risk ask together for what RiskOk says.
LEMMA RiskPasses ==
  ASSUME NEW r, r.form = "object",
         NEW a, NEW b, NEW c, NEW d, NEW e, NEW f, NEW g, NEW h, RiskParts(r, a, b, c, d, e, f, g, h)
  PROVE  /\ a \in Lists /\ b \in Lists /\ c \in Lists /\ d \in Lists
         /\ e \in Lists /\ f \in Lists /\ g \in Lists /\ h \in Lists
         /\ RiskOk(r) <=> /\ Failing(a) = {} /\ Failing(b) = {} /\ Failing(c) = {} /\ Failing(d) = {}
                          /\ Failing(e) = {} /\ Failing(f) = {} /\ Failing(g) = {} /\ Failing(h) = {}
<1> DEFINE Pa == r.status = "deviation-approved" /\ r.description # "absent"
           Pb == r.id # "absent" /\ r.id # ""
           Pc == r.target # <<"absent">> /\ r.target # <<>>
           Pd == r.action.kind # "absent" /\ r.action.kind # ""
           Pe == /\ r.action.kind \in {"suppress", "downgrade"}
                 /\ r.action.kind = "downgrade" => r.action.to \in Severities
           Pf == r.auth # "absent" /\ r.auth # ""
           Pg == /\ r.start # Malformed /\ r.end # Malformed /\ r.priority.form # "malformed"
                 /\ r.subjects.form = "array" /\ r.subjects.items # <<>>
           Ph == (r.subjects.form = "array" /\ r.subjects.items # <<>>) => SubjectOk(Head(r.subjects.items))
<1>3. Passes(a, Pa) /\ Passes(e, Pe) /\ Passes(g, Pg)
  BY RiskPassesFirst
<1>4. Passes(b, Pb) /\ Passes(c, Pc) /\ Passes(d, Pd) /\ Passes(f, Pf)
  BY RequiredPasses DEF RiskParts
<1>5. Passes(h, Ph)
  <2>1. CASE r.subjects.form = "array" /\ r.subjects.items # <<>>
    <3>1. h = SubjectChecks(Head(r.subjects.items))
      BY <2>1 DEF RiskParts
    <3> QED
      BY <2>1, <3>1, SubjectLists DEF Passes
  <2>2. CASE ~(r.subjects.form = "array" /\ r.subjects.items # <<>>)
    <3>1. h = <<>>
      BY <2>2 DEF RiskParts
    <3> QED
      BY <2>2, <3>1, NoChecks DEF Passes
  <2> QED
    BY <2>1, <2>2
<1>6. /\ Pa \in BOOLEAN /\ Pb \in BOOLEAN /\ Pc \in BOOLEAN /\ Pd \in BOOLEAN
      /\ Pe \in BOOLEAN /\ Pf \in BOOLEAN /\ Pg \in BOOLEAN /\ Ph \in BOOLEAN
  OBVIOUS
<1>7. RiskOk(r) <=> Pa /\ Pb /\ Pc /\ Pd /\ Pe /\ Pf /\ Pg /\ Ph
  <2>1. Pe => r.action.kind # "absent" /\ r.action.kind # ""
    OBVIOUS
  <2> QED
    BY <2>1 DEF RiskOk
<1> HIDE DEF Pa, Pb, Pc, Pd, Pe, Pf, Pg, Ph
<1>8. /\ a \in Lists /\ b \in Lists /\ c \in Lists /\ d \in Lists
      /\ e \in Lists /\ f \in Lists /\ g \in Lists /\ h \in Lists
  BY <1>3, <1>4, <1>5, Zenon DEF Passes
<1>11. RiskOk(r) <=> /\ Failing(a) = {} /\ Failing(b) = {} /\ Failing(c) = {} /\ Failing(d) = {}
                     /\ Failing(e) = {} /\ Failing(f) = {} /\ Failing(g) = {} /\ Failing(h) = {}
  BY <1>3, <1>4, <1>5, <1>7, Zenon DEF Passes
<1> QED
  BY <1>8, <1>11, Zenon

\* parse_risk: what its checks ask for.
LEMMA RiskLists ==
  ASSUME NEW r
  PROVE  RiskChecks(r) \in Lists /\ (Failing(RiskChecks(r)) = {} <=> RiskOk(r))
<1>1. CASE r.form # "object"
  <2>1. RiskChecks(r) = << <<TRUE, "RiskNotObject">> >>
    BY <1>1 DEF RiskChecks
  <2> QED
    BY <1>1, <2>1, Refusal, Named DEF RiskOk
<1>2. CASE r.form = "object"
  <2>0. PICK a, b, c, d, e, f, g, h : RiskParts(r, a, b, c, d, e, f, g, h)
    <3>1. PICK a : a = << <<r.status # "deviation-approved", "InvalidStatus">>,
                          <<r.description = "absent", "MissingDescription">> >>
      OBVIOUS
    <3>2. PICK b, c, d : /\ b = Required(r.id = "absent", r.id = "")
                         /\ c = Required(r.target = <<"absent">>, r.target = <<>>)
                         /\ d = Required(r.action.kind = "absent", r.action.kind = "")
      OBVIOUS
    <3>3. PICK e : e = << <<r.action.kind \notin {"suppress", "downgrade"}, "UnknownAction">>,
                          <<r.action.kind = "downgrade" /\ r.action.to \notin Severities, "UnknownAction">> >>
      OBVIOUS
    <3>4. PICK f : f = Required(r.auth = "absent", r.auth = "")
      OBVIOUS
    <3>5. PICK g : g = << <<r.start = Malformed, "InvalidU64">>, <<r.end = Malformed, "InvalidU64">>,
                          <<r.priority.form = "malformed", "InvalidI32">>,
                          <<r.subjects.form # "array", "SubjectsNotArray">>,
                          <<r.subjects.form = "array" /\ r.subjects.items = <<>>, "MissingSubject">> >>
      OBVIOUS
    <3>6. PICK h : h = IF r.subjects.form = "array" /\ r.subjects.items # <<>>
                         THEN SubjectChecks(Head(r.subjects.items)) ELSE <<>>
      OBVIOUS
    <3>7. RiskParts(r, a, b, c, d, e, f, g, h)
      BY <3>1, <3>2, <3>3, <3>4, <3>5, <3>6, Zenon DEF RiskParts
    <3> QED
      BY <3>7, Zenon
  <2>2. PICK all : all = a \o b \o c \o d \o e \o f \o g \o h
    OBVIOUS
  <2>3. RiskChecks(r) = all
    BY <1>2, <2>0, <2>2 DEF RiskChecks, RiskParts
  <2>4. /\ a \in Lists /\ b \in Lists /\ c \in Lists /\ d \in Lists
        /\ e \in Lists /\ f \in Lists /\ g \in Lists /\ h \in Lists
    BY <1>2, <2>0, RiskPasses
  <2>5. RiskOk(r) <=> /\ Failing(a) = {} /\ Failing(b) = {} /\ Failing(c) = {} /\ Failing(d) = {}
                      /\ Failing(e) = {} /\ Failing(f) = {} /\ Failing(g) = {} /\ Failing(h) = {}
    BY <1>2, <2>0, RiskPasses
  <2>6. PICK x1 : x1 = a \o b
    OBVIOUS
  <2>7. PICK x2 : x2 = x1 \o c
    OBVIOUS
  <2>8. PICK x3 : x3 = x2 \o d
    OBVIOUS
  <2>9. PICK x4 : x4 = x3 \o e
    OBVIOUS
  <2>10. PICK x5 : x5 = x4 \o f
    OBVIOUS
  <2>11. PICK x6 : x6 = x5 \o g
    OBVIOUS
  <2>12. PICK x7 : x7 = x6 \o h
    OBVIOUS
  <2>13. x1 \in Lists /\ (Failing(x1) = {} <=> Failing(a) = {} /\ Failing(b) = {})
    BY <2>4, <2>6, Joined
  <2>14. x2 \in Lists /\ (Failing(x2) = {} <=> Failing(x1) = {} /\ Failing(c) = {})
    BY <2>4, <2>7, <2>13, Joined
  <2>15. x3 \in Lists /\ (Failing(x3) = {} <=> Failing(x2) = {} /\ Failing(d) = {})
    BY <2>4, <2>8, <2>14, Joined
  <2>16. x4 \in Lists /\ (Failing(x4) = {} <=> Failing(x3) = {} /\ Failing(e) = {})
    BY <2>4, <2>9, <2>15, Joined
  <2>17. x5 \in Lists /\ (Failing(x5) = {} <=> Failing(x4) = {} /\ Failing(f) = {})
    BY <2>4, <2>10, <2>16, Joined
  <2>18. x6 \in Lists /\ (Failing(x6) = {} <=> Failing(x5) = {} /\ Failing(g) = {})
    BY <2>4, <2>11, <2>17, Joined
  <2>19. x7 \in Lists /\ (Failing(x7) = {} <=> Failing(x6) = {} /\ Failing(h) = {})
    BY <2>4, <2>12, <2>18, Joined
  <2>20. all = x7
    BY <2>2, <2>6, <2>7, <2>8, <2>9, <2>10, <2>11, <2>12, Zenon
  <2> QED
    BY <2>3, <2>5, <2>13, <2>14, <2>15, <2>16, <2>17, <2>18, <2>19, <2>20, Zenon
<1> QED
  BY <1>1, <1>2

-----------------------------------------------------------------------------
(* Loading a risk array: all of it or nothing. *)

\* A risk that is read, and how the loop over the risks goes on.
Good(items, i) ==
  LET d == ParseRisk(items[i])
  IN  /\ RiskOk(items[i]) /\ d.just # "" /\ d.auth # "" /\ ScopeWellFormed(d.scope)
      /\ \A j \in 1 .. (i - 1) : Normalized(ParseRisk(items[j])).id # d.id
LoadStep(r, v) ==
  IF v.result # "Ok" THEN v
  ELSE LET parsed == FirstError(RiskChecks(r))
           d == ParseRisk(r)
       IN  IF parsed # "Ok" THEN [result |-> parsed, store |-> <<>>]
           ELSE IF FirstError(AddChecks(v.store, d)) # "Ok" THEN [result |-> "AddFailed", store |-> <<>>]
           ELSE [result |-> "Ok", store |-> Add(v.store, d)]
Empty == [result |-> "Ok", store |-> <<>>]
Loads(items, f) == f = [n \in 0 .. Len(items) |-> IF n = 0 THEN Empty ELSE LoadStep(items[n], f[n - 1])]

\* The risks as deviations, as they are stored.
AsStored(items) == {Normalized(ParseRisk(items[i])) : i \in DOMAIN items}
Loading(items) == [result : Errors \cup {"Ok", "AddFailed"}, store : Seq(AsStored(items))]

\* What has been read after n risks.
ReadSoFar(items, n, v) ==
  /\ v.result = "Ok" <=> \A i \in 1 .. n : Good(items, i)
  /\ v.result # "Ok" => v.store = <<>>
  /\ v.result = "Ok" => /\ v.store \in Seq(AsStored(items)) /\ Len(v.store) = n
                        /\ \A i \in 1 .. n : v.store[i] = Normalized(ParseRisk(items[i]))

\* One risk more: the store read so far is of the risks before it, or an error stands for good.
LEMMA LoadStepIs ==
  ASSUME NEW T, NEW items \in Seq(T), NEW n \in 1 .. Len(items), NEW v, ReadSoFar(items, n - 1, v)
  PROVE  ReadSoFar(items, n, LoadStep(items[n], v))
<1>1. PICK w : w = LoadStep(items[n], v)
  OBVIOUS
<1>2. n \in Nat /\ n - 1 \in Nat /\ \A i \in 1 .. n : i \in 1 .. n - 1 \/ i = n
  OBVIOUS
<1>3. CASE v.result # "Ok"
  <2>1. w = v
    BY <1>1, <1>3 DEF LoadStep
  <2>2. ~ \A i \in 1 .. n - 1 : Good(items, i)
    BY <1>3 DEF ReadSoFar
  <2>3. ~ \A i \in 1 .. n : Good(items, i)
    BY <1>2, <2>2
  <2> QED
    BY <1>1, <1>3, <2>1, <2>3 DEF ReadSoFar
<1>4. CASE v.result = "Ok"
  <2>1. PICK r, d : r = items[n] /\ d = ParseRisk(r)
    OBVIOUS
  <2>2. PICK s : s = v.store
    OBVIOUS
  <2>3. /\ s \in Seq(AsStored(items)) /\ Len(s) = n - 1 /\ DOMAIN s = 1 .. n - 1
        /\ \A i \in 1 .. n - 1 : s[i] = Normalized(ParseRisk(items[i])) /\ Good(items, i)
    BY <1>4, <2>2 DEF ReadSoFar
  <2>4. PICK parsed, added : parsed = FirstError(RiskChecks(r)) /\ added = FirstError(AddChecks(s, d))
    OBVIOUS
  <2>5. parsed = "Ok" <=> RiskOk(r)
    BY <2>4, RiskLists, OkOfList
  <2>6. added = "Ok" <=>
          d.just # "" /\ d.auth # "" /\ (\A i \in DOMAIN s : s[i].id # d.id) /\ ScopeWellFormed(d.scope)
    BY <2>4, AddLists, OkOfList
  <2>7. (\A i \in DOMAIN s : s[i].id # d.id) <=> \A i \in 1 .. (n - 1) : Normalized(ParseRisk(items[i])).id # d.id
    BY <2>3
  <2>8. Good(items, n) <=> parsed = "Ok" /\ added = "Ok"
    BY <2>1, <2>5, <2>6, <2>7 DEF Good
  <2>9. w = IF parsed # "Ok" THEN [result |-> parsed, store |-> <<>>]
            ELSE IF added # "Ok" THEN [result |-> "AddFailed", store |-> <<>>]
            ELSE [result |-> "Ok", store |-> Add(s, d)]
    BY <1>1, <1>4, <2>1, <2>2, <2>4 DEF LoadStep
  <2>10. CASE parsed = "Ok" /\ added = "Ok"
    <3>1. PICK x : x = Normalized(d)
      OBVIOUS
    <3>2. x \in AsStored(items)
      BY <2>1, <3>1 DEF AsStored
    <3>3. PICK t : t = Append(s, x)
      OBVIOUS
    <3>4. w.result = "Ok" /\ w.store = t
      BY <2>9, <2>10, <3>1, <3>3 DEF Add
    <3>5. /\ t \in Seq(AsStored(items)) /\ Len(t) = n
          /\ t[n] = x /\ \A i \in 1 .. n - 1 : t[i] = s[i]
      <4>1. PICK A : A = AsStored(items)
        OBVIOUS
      <4>2. s \in Seq(A) /\ x \in A
        BY <2>3, <3>2, <4>1
      <4>3. t \in Seq(A) /\ Len(t) = Len(s) + 1 /\ t[Len(s) + 1] = x /\ \A i \in 1 .. Len(s) : t[i] = s[i]
        BY <3>3, <4>2
      <4> QED
        BY <1>2, <2>3, <4>1, <4>3
    <3>6. \A i \in 1 .. n : t[i] = Normalized(ParseRisk(items[i])) /\ Good(items, i)
      BY <1>2, <2>1, <2>3, <2>8, <2>10, <3>1, <3>5
    <3> QED
      BY <1>1, <3>4, <3>5, <3>6 DEF ReadSoFar
  <2>11. CASE ~(parsed = "Ok" /\ added = "Ok")
    <3>1. w.result # "Ok" /\ w.store = <<>>
      BY <2>9, <2>11
    <3>2. ~ \A i \in 1 .. n : Good(items, i)
      BY <2>8, <2>11
    <3> QED
      BY <1>1, <3>1, <3>2 DEF ReadSoFar
  <2> QED
    BY <2>10, <2>11
<1> QED
  BY <1>3, <1>4

\* One risk more: still a result and a store of risks that were parsed.
LEMMA LoadStepType ==
  ASSUME NEW T, NEW items \in Seq(T), NEW n \in 1 .. Len(items), NEW v \in Loading(items)
  PROVE  LoadStep(items[n], v) \in Loading(items)
<1>1. PICK R, A : R = Errors \cup {"Ok", "AddFailed"} /\ A = AsStored(items)
  OBVIOUS
<1>2. Loading(items) = [result : R, store : Seq(A)]
  BY <1>1 DEF Loading
<1>3. PICK d : d = ParseRisk(items[n])
  OBVIOUS
<1>4. PICK parsed, added : parsed = FirstError(RiskChecks(items[n])) /\ added = FirstError(AddChecks(v.store, d))
  OBVIOUS
<1>5. parsed \in R
  BY <1>1, <1>4, RiskLists, OkOfList
<1>6. LoadStep(items[n], v) =
        IF v.result # "Ok" THEN v
        ELSE IF parsed # "Ok" THEN [result |-> parsed, store |-> <<>>]
        ELSE IF added # "Ok" THEN [result |-> "AddFailed", store |-> <<>>]
        ELSE [result |-> "Ok", store |-> Add(v.store, d)]
  BY <1>3, <1>4 DEF LoadStep
<1>7. Normalized(d) \in A
  BY <1>1, <1>3 DEF AsStored
<1>8. v.store \in Seq(A) /\ Append(v.store, Normalized(d)) \in Seq(A) /\ <<>> \in Seq(A)
  BY <1>2, <1>7
<1>9. "Ok" \in R /\ "AddFailed" \in R
  BY <1>1
<1>10. Add(v.store, d) \in Seq(A)
  BY <1>8 DEF Add
<1> QED
  BY <1>2, <1>5, <1>6, <1>8, <1>9, <1>10

\* The loop of deviation_store_from_risks.
LEMMA LoadLoop ==
  ASSUME NEW json, json.form = "array", NEW T, NEW items \in Seq(T), json.items = items
  PROVE  \E f : Loads(items, f) /\ StoreFromRisks(json) = f[Len(items)]
<1>1. PICK L \in Nat : L = Len(items)
  OBVIOUS
<1>2. PICK V : V = Loading(items)
  OBVIOUS
<1>3. Empty \in V
  <2>1. <<>> \in Seq(AsStored(items))
    OBVIOUS
  <2> QED
    BY <1>2, <2>1 DEF Loading, Empty
<1> DEFINE step == [n \in 1 .. L |-> [v \in V |-> LoadStep(items[n], v)]]
<1>4. step \in [1 .. L -> [V -> V]]
  BY <1>1, <1>2, LoadStepType
<1>5. PICK g \in [0 .. L -> V] : Looped(g, L, Empty, step)
  <2> HIDE DEF step
  <2> QED
    BY <1>3, <1>4, LoopExists
<1>6. \A n \in 0 .. L : g[n] = IF n = 0 THEN Empty ELSE LoadStep(items[n], g[n - 1])
  <2> SUFFICES ASSUME NEW n \in 0 .. L
               PROVE  g[n] = IF n = 0 THEN Empty ELSE LoadStep(items[n], g[n - 1])
    OBVIOUS
  <2>1. CASE n = 0
    BY <1>5, <2>1 DEF Looped
  <2>2. CASE n # 0
    <3>1. n \in 1 .. L /\ n - 1 \in 0 .. L
      BY <2>2
    <3>2. g[n] = step[n][g[n - 1]]
      <4> HIDE DEF step
      <4> QED
        BY <1>5, <2>2 DEF Looped
    <3>3. g[n - 1] \in V
      BY <3>1
    <3> QED
      BY <2>2, <3>1, <3>2, <3>3
  <2> QED
    BY <2>1, <2>2
<1>7. Loads(items, g)
  <2>1. g = [n \in 0 .. L |-> IF n = 0 THEN Empty ELSE LoadStep(items[n], g[n - 1])]
    BY <1>6
  <2> QED
    BY <1>1, <2>1 DEF Loads
<1>8. PICK f : f = CHOOSE h : Loads(items, h)
  OBVIOUS
<1>9. Loads(items, f)
  BY <1>7, <1>8
<1>10. StoreFromRisks(json) = f[L]
  BY <1>1, <1>8 DEF StoreFromRisks, Loads, LoadStep, Empty
<1> QED
  BY <1>1, <1>9, <1>10

\* deviation_store_from_risks: every risk is in the store, in order, or there is no store.
LEMMA LoadIs ==
  ASSUME NEW json, json.form = "array", NEW T, NEW items \in Seq(T), json.items = items
  PROVE  ReadSoFar(items, Len(items), StoreFromRisks(json))
<1>1. PICK f : Loads(items, f) /\ StoreFromRisks(json) = f[Len(items)]
  BY LoadLoop
<1>2. PICK L \in Nat : L = Len(items)
  OBVIOUS
<1>3. \A n \in 0 .. L : f[n] = IF n = 0 THEN Empty ELSE LoadStep(items[n], f[n - 1])
  BY <1>1, <1>2 DEF Loads
<1> DEFINE S == {n \in 0 .. L : ReadSoFar(items, n, f[n])}
<1>4. 0 \in S
  <2>1. f[0] = Empty
    BY <1>3
  <2>2. Empty.result = "Ok" /\ Empty.store = <<>> /\ Len(<<>>) = 0 /\ <<>> \in Seq(AsStored(items))
    BY DEF Empty
  <2>3. \A i \in 1 .. 0 : FALSE
    OBVIOUS
  <2>4. ReadSoFar(items, 0, Empty)
    BY <2>2, <2>3 DEF ReadSoFar
  <2> QED
    BY <2>1, <2>4
<1>5. ASSUME NEW n \in 1 .. L, n - 1 \in S PROVE n \in S
  <2>1. n \in 0 .. L /\ n # 0 /\ f[n] = LoadStep(items[n], f[n - 1])
    BY <1>3
  <2>2. ReadSoFar(items, n, LoadStep(items[n], f[n - 1]))
    BY <1>2, <1>5, LoadStepIs
  <2> QED
    BY <2>1, <2>2
<1>6. L \in S
  <2> HIDE DEF S
  <2>1. 0 .. L \subseteq S
    BY <1>4, <1>5, UpTo
  <2> QED
    BY <2>1
<1> QED
  BY <1>1, <1>2, <1>6

-----------------------------------------------------------------------------
(* What a deviation waives, in the store, saved and loaded again. *)

\* 0 is an integer.
LEMMA ZeroIs == 0 \in Int
OBVIOUS

\* The head of a sequence is its first element.
LEMMA FirstOf ==
  ASSUME NEW T, NEW s \in Seq(T), s # <<>>
  PROVE  1 \in DOMAIN s /\ Head(s) = s[1]
OBVIOUS

\* What can be in a store.
Storable(d) ==
  /\ d.id \notin {"", "absent"} /\ d.just \notin {"", "absent"} /\ d.auth \notin {"", "absent"}
  /\ d.target \notin {<<>>, <<"absent">>}
  /\ d.start \in Times64 /\ d.end \in Times64 /\ d.priority \in Int
  /\ d.action.kind \in {"suppress", "downgrade"} /\ (d.action.kind = "downgrade" => d.action.to \in Severities)
  /\ ScopeWellFormed(d.scope)
  /\ d.scope.kind = "contains" => d.scope.props["substring"].value \in Letters
  /\ d.scope.kind \in {"exact", "range"} => d.scope.props["der"].value \in Letters
  /\ d.scope.kind = "range" => d.scope.props["start"].value \in Octets /\ d.scope.props["end"].value \in Octets

\* A deviation in lower case, and two of the same scope.
Lowered(d) ==
  d.scope.kind = "contains" => ToLowercase(d.scope.props["substring"].value) = d.scope.props["substring"].value

SameScope(d, e) ==
  /\ d.scope.kind = e.scope.kind
  /\ d.scope.kind = "contains" =>
       ToLowercase(d.scope.props["substring"].value) = ToLowercase(e.scope.props["substring"].value)
  /\ d.scope.kind \in {"exact", "range"} => d.scope.props["der"].value = e.scope.props["der"].value
  /\ d.scope.kind = "range" => /\ d.scope.props["start"].value = e.scope.props["start"].value
                               /\ d.scope.props["end"].value = e.scope.props["end"].value

\* Two deviations of the same scope cover the same certificates.
LEMMA CoversSame ==
  ASSUME NEW d, NEW e, SameScope(d, e), NEW c
  PROVE  Covers(d, c) <=> Covers(e, c)
<1>1. CASE d.scope.kind = "any"
  BY <1>1 DEF Covers, SameScope
<1>2. CASE d.scope.kind = "contains"
  BY <1>2 DEF Covers, SameScope
<1>3. CASE d.scope.kind = "exact"
  BY <1>3 DEF Covers, SameScope
<1>4. CASE d.scope.kind = "range"
  BY <1>4 DEF Covers, SameScope
<1>5. CASE d.scope.kind \notin {"any", "contains", "exact", "range"}
  BY <1>5 DEF Covers, SameScope
<1> QED
  BY <1>1, <1>2, <1>3, <1>4, <1>5

\* A deviation in the store covers what its author wrote.
LEMMA MatchesIs ==
  ASSUME NEW d, Storable(d), Lowered(d), NEW c \in Cert
  PROVE  ScopeMatches(d.scope, c) <=> Covers(d, c)
<1>1. CASE d.scope.kind = "any"
  BY <1>1 DEF Covers, ScopeMatches
<1>2. CASE d.scope.kind = "contains"
  BY <1>2 DEF Covers, ScopeMatches, Storable, ScopeWellFormed, Lowered
<1>3. CASE d.scope.kind = "exact"
  BY <1>3 DEF Covers, ScopeMatches, Storable, ScopeWellFormed, NamesMatch
<1>4. CASE d.scope.kind = "range"
  <2>1. PICK x, y, z : x = d.scope.props["start"].value /\ y = d.scope.props["end"].value /\ z = c.serial
    OBVIOUS
  <2>2. x \in Octets /\ y \in Octets /\ z \in Octets
    BY <1>4, <2>1 DEF Storable, Cert
  <2>3. (SerialLe(x, z) <=> Number(x) <= Number(z)) /\ (SerialLe(z, y) <=> Number(z) <= Number(y))
    BY <2>2, SerialLeIs
  <2>4. /\ d.scope.props["der"].type = "Bytes"
        /\ d.scope.props["start"].type = "Bytes" /\ d.scope.props["end"].type = "Bytes"
    BY <1>4 DEF Storable, ScopeWellFormed
  <2>5. ScopeMatches(d.scope, c) <=>
          /\ FromDer(d.scope.props["der"].value) /\ NamesMatch(d.scope.props["der"].value, c.issuer)
          /\ SerialLe(x, z) /\ SerialLe(z, y)
    BY <1>4, <2>1, <2>4 DEF ScopeMatches
  <2>6. Covers(d, c) <=>
          /\ FromDer(d.scope.props["der"].value) /\ NamesMatch(d.scope.props["der"].value, c.issuer)
          /\ Number(x) <= Number(z) /\ Number(z) <= Number(y)
    BY <1>4, <2>1 DEF Covers, NamesMatch
  <2> QED
    BY <2>3, <2>5, <2>6, Zenon
<1>5. CASE d.scope.kind \notin {"any", "contains", "exact", "range"}
  BY <1>5 DEF Covers, ScopeMatches
<1> QED
  BY <1>1, <1>2, <1>3, <1>4, <1>5

\* A text in lower case does not change when it is put in lower case again.
LEMMA LowercaseIs ==
  ASSUME NEW s \in Letters
  PROVE  ToLowercase(s) \in Letters /\ ToLowercase(ToLowercase(s)) = ToLowercase(s)
<1>1. PICK D : D = DOMAIN CaseFold
  OBVIOUS
<1>2. CaseFold \in [D -> D] /\ \A c \in D : CaseFold[CaseFold[c]] = CaseFold[c]
  BY <1>1, SessionAssumption
<1>3. s \in Seq(D)
  BY <1>1 DEF Letters
<1>4. PICK t, u : t = [i \in DOMAIN s |-> CaseFold[s[i]]] /\ u = [i \in DOMAIN t |-> CaseFold[t[i]]]
  OBVIOUS
<1>5. t \in Seq(D) /\ DOMAIN t = DOMAIN s
  <2>1. \A i \in DOMAIN s : t[i] \in D
    BY <1>2, <1>3, <1>4
  <2>2. t = [i \in DOMAIN s |-> t[i]]
    BY <1>4
  <2> QED
    BY <1>3, <2>1, <2>2, SameLength
<1>6. u = t
  <2>1. \A i \in DOMAIN s : s[i] \in D /\ u[i] = t[i]
    BY <1>2, <1>3, <1>4, <1>5
  <2> QED
    BY <1>4, <1>5, <2>1
<1>7. ToLowercase(s) = t /\ ToLowercase(t) = u
  BY <1>4 DEF ToLowercase
<1> QED
  BY <1>1, <1>5, <1>6, <1>7 DEF Letters

\* The fields that a deviation has.
Shaped(d) ==
  /\ {"id", "target", "scope", "start", "end", "action", "just", "auth", "priority"} \subseteq DOMAIN d
  /\ {"kind", "props"} \subseteq DOMAIN d.scope /\ ScopeProps \subseteq DOMAIN d.scope.props
  /\ d.scope.kind = "contains" => {"type", "value"} \subseteq DOMAIN d.scope.props["substring"]

\* Deviation::new keeps all of a deviation but the case of its substring, which it ignores.
LEMMA NormalizedIs ==
  ASSUME NEW d, Storable(d), Shaped(d)
  PROVE  LET n == Normalized(d)
         IN  /\ Storable(n) /\ Lowered(n) /\ SameScope(n, d)
             /\ n.id = d.id /\ n.target = d.target /\ n.start = d.start /\ n.end = d.end /\ n.priority = d.priority
<1>1. CASE d.scope.kind # "contains"
  <2>1. Normalized(d) = d
    BY <1>1 DEF Normalized
  <2> QED
    BY <1>1, <2>1 DEF Lowered, SameScope
<1>2. CASE d.scope.kind = "contains"
  <2>1. PICK scope, props, prop, v : scope = d.scope /\ props = scope.props /\ prop = props["substring"] /\ v = prop.value
    OBVIOUS
  <2>2. PICK low : low = ToLowercase(v)
    OBVIOUS
  <2>3. PICK newProp : newProp = [prop EXCEPT !.value = low]
    OBVIOUS
  <2>4. PICK newProps : newProps = [props EXCEPT !["substring"] = newProp]
    OBVIOUS
  <2>5. PICK newScope : newScope = [scope EXCEPT !.props = newProps]
    OBVIOUS
  <2>6. PICK n : n = [d EXCEPT !.scope = newScope]
    OBVIOUS
  <2>7. Normalized(d) = n
    BY <1>2, <2>1, <2>2, <2>3, <2>4, <2>5, <2>6 DEF Normalized
  <2>8. v \in Letters /\ low \in Letters /\ ToLowercase(low) = low
    BY <1>2, <2>1, <2>2, LowercaseIs DEF Storable
  <2>9. newProp.value = low /\ newProp.type = prop.type
    BY <1>2, <2>1, <2>3 DEF Shaped
  <2>10. newProps["substring"] = newProp
    BY <2>1, <2>4 DEF Shaped, ScopeProps
  <2>11. newScope.props = newProps /\ newScope.kind = "contains"
    BY <1>2, <2>1, <2>5 DEF Shaped
  <2>12. /\ n.scope = newScope /\ n.id = d.id /\ n.target = d.target /\ n.start = d.start /\ n.end = d.end
         /\ n.priority = d.priority /\ n.action = d.action /\ n.just = d.just /\ n.auth = d.auth
    BY <2>6 DEF Shaped
  <2>13. prop.type = "Text"
    BY <1>2, <2>1 DEF Storable, ScopeWellFormed
  <2>14. ScopeWellFormed(n.scope)
    BY <2>9, <2>10, <2>11, <2>12, <2>13 DEF ScopeWellFormed
  <2>15. n.scope.kind = "contains" /\ n.scope.props["substring"].value = low
    BY <2>9, <2>10, <2>11, <2>12
  <2>16. Lowered(n)
    BY <2>8, <2>15 DEF Lowered
  <2>17. SameScope(n, d)
    BY <1>2, <2>1, <2>2, <2>8, <2>15 DEF SameScope
  <2>18. Storable(n)
    BY <2>8, <2>12, <2>14, <2>15 DEF Storable
  <2> QED
    BY <2>7, <2>12, <2>16, <2>17, <2>18
<1> QED
  BY <1>1, <1>2

\* An entry of the store and the deviation as it was written.
Entry(s, w) ==
  /\ Storable(s) /\ Lowered(s)
  /\ s.id = w.id /\ s.target = w.target /\ s.start = w.start /\ s.end = w.end /\ s.priority = w.priority
  /\ \A c \in Cert : ScopeMatches(s.scope, c) <=> Covers(w, c)

\* What is stored for a deviation waives what the deviation says.
LEMMA NormalizedEntry ==
  ASSUME NEW d, Storable(d), Shaped(d)
  PROVE  Entry(Normalized(d), d)
<1>1. PICK n : n = Normalized(d)
  OBVIOUS
<1>2. /\ Storable(n) /\ Lowered(n) /\ SameScope(n, d)
      /\ n.id = d.id /\ n.target = d.target /\ n.start = d.start /\ n.end = d.end /\ n.priority = d.priority
  BY <1>1, NormalizedIs
<1>3. \A c \in Cert : ScopeMatches(n.scope, c) <=> Covers(d, c)
  BY <1>2, MatchesIs, CoversSame
<1> QED
  BY <1>1, <1>2, <1>3 DEF Entry

\* A deviation that a caller adds.
LEMMA OfferedIs ==
  ASSUME NEW d \in Offered, d.id # "", d.target # <<>>, d.just # "", d.auth # "", ScopeWellFormed(d.scope)
  PROVE  Storable(d) /\ Shaped(d)
<1>1. d \in Deviation /\ "absent" \notin {d.id, d.just, d.auth} /\ d.target # <<"absent">>
  BY SessionAssumption
<1>2. PICK scope, props : scope = d.scope /\ props = scope.props
  OBVIOUS
<1>3. scope \in DeviationScope /\ d.start \in Times64 /\ d.end \in Times64 /\ d.priority \in Int /\ d.action \in DeviationAction
  BY <1>1, <1>2 DEF Deviation
<1>4. /\ props["substring"] \in ScopeProp(Letters) /\ props["der"] \in ScopeProp(Letters)
      /\ props["start"] \in ScopeProp(Octets) /\ props["end"] \in ScopeProp(Octets)
      /\ DOMAIN props = {"substring", "der", "start", "end"} /\ DOMAIN scope = {"kind", "props"}
  BY <1>2, <1>3 DEF DeviationScope
<1>5. \A V : \A p \in ScopeProp(V) : p.type \in {"Text", "Bytes"} => p.value \in V /\ {"type", "value"} \subseteq DOMAIN p
  BY DEF ScopeProp
<1>6. d.action.kind \in {"suppress", "downgrade"} /\ (d.action.kind = "downgrade" => d.action.to \in Severities)
  BY <1>3 DEF DeviationAction
<1>7. /\ scope.kind = "contains" => props["substring"].type = "Text"
      /\ scope.kind \in {"exact", "range"} => props["der"].type = "Bytes"
      /\ scope.kind = "range" => props["start"].type = "Bytes" /\ props["end"].type = "Bytes"
  BY <1>2 DEF ScopeWellFormed
<1>8. /\ scope.kind = "contains" => props["substring"].value \in Letters /\ {"type", "value"} \subseteq DOMAIN props["substring"]
      /\ scope.kind \in {"exact", "range"} => props["der"].value \in Letters
      /\ scope.kind = "range" => props["start"].value \in Octets /\ props["end"].value \in Octets
  <2>1. ASSUME scope.kind = "contains"
        PROVE  props["substring"].value \in Letters /\ {"type", "value"} \subseteq DOMAIN props["substring"]
    <3>1. props["substring"] \in ScopeProp(Letters) /\ props["substring"].type \in {"Text", "Bytes"}
      BY <1>4, <1>7, <2>1
    <3> QED
      BY <1>5, <3>1
  <2>2. ASSUME scope.kind \in {"exact", "range"} PROVE props["der"].value \in Letters
    <3>1. props["der"] \in ScopeProp(Letters) /\ props["der"].type \in {"Text", "Bytes"}
      BY <1>4, <1>7, <2>2
    <3> QED
      BY <1>5, <3>1
  <2>3. ASSUME scope.kind = "range" PROVE props["start"].value \in Octets /\ props["end"].value \in Octets
    <3>1. /\ props["start"] \in ScopeProp(Octets) /\ props["start"].type \in {"Text", "Bytes"}
          /\ props["end"] \in ScopeProp(Octets) /\ props["end"].type \in {"Text", "Bytes"}
      BY <1>4, <1>7, <2>3
    <3> QED
      BY <1>5, <3>1
  <2> QED
    BY <2>1, <2>2, <2>3
<1>9. Storable(d)
  BY <1>1, <1>2, <1>3, <1>6, <1>8 DEF Storable
<1>10. DOMAIN d = {"id", "target", "scope", "start", "end", "action", "just", "auth", "evidence", "priority"}
  BY <1>1 DEF Deviation
<1>11. Shaped(d)
  BY <1>2, <1>4, <1>8, <1>10 DEF Shaped, ScopeProps
<1> QED
  BY <1>9, <1>11

\* What parse_risk makes of a risk has all fields, and what its kind needs.
ParsedFrom(d, r, s) ==
  /\ Shaped(d)
  /\ d.id = r.id /\ d.target = r.target /\ d.start = r.start /\ d.end = r.end
  /\ d.action = r.action /\ d.just = r.description /\ d.auth = r.auth
  /\ d.priority = IF r.priority.form = "absent" THEN 0 ELSE r.priority.value
  /\ d.scope.kind = s.kind
  /\ s.kind = "contains" => /\ d.scope.props["substring"].type = "Text"
                           /\ d.scope.props["substring"].value = s.props["substring"].value
  /\ s.kind \in {"exact", "range"} => /\ d.scope.props["der"].type = "Bytes"
                                     /\ d.scope.props["der"].value = s.props["der"].value
  /\ s.kind = "range" =>
       /\ d.scope.props["start"].type = "Bytes" /\ d.scope.props["start"].value = s.props["start"].value
       /\ d.scope.props["end"].type = "Bytes" /\ d.scope.props["end"].value = s.props["end"].value

\* The fields of the deviation that parse_risk makes of a risk.
LEMMA ParsedShape ==
  ASSUME NEW r, NEW s, s = Head(r.subjects.items)
  PROVE  ParsedFrom(ParseRisk(r), r, s)
<1>1. PICK scope : scope = ParseSubject(s)
  OBVIOUS
<1>2. PICK d : d = ParseRisk(r)
  OBVIOUS
<1>3. d = [id |-> r.id, target |-> r.target, scope |-> scope,
           start |-> r.start, end |-> r.end, action |-> r.action, just |-> r.description,
           auth |-> r.auth, evidence |-> r.evidence,
           priority |-> IF r.priority.form = "absent" THEN 0 ELSE r.priority.value]
  BY <1>1, <1>2 DEF ParseRisk
<1>4. PICK Wanted : Wanted = CASE s.kind = "contains" -> {"substring"} [] s.kind = "exact" -> {"der"}
                               [] s.kind = "range" -> {"der", "start", "end"} [] OTHER -> {}
  OBVIOUS
<1>5. scope = [kind |-> s.kind,
               props |-> [n \in ScopeProps |->
                  IF n \in Wanted
                    THEN [type |-> IF n = "substring" THEN "Text" ELSE "Bytes", value |-> s.props[n].value]
                    ELSE [type |-> "absent"]]]
  BY <1>1, <1>4 DEF ParseSubject
<1>6. scope.kind = s.kind /\ DOMAIN scope = {"kind", "props"} /\ DOMAIN scope.props = ScopeProps
  BY <1>5
<1>7. \A n \in ScopeProps : n \in Wanted =>
        scope.props[n] = [type |-> IF n = "substring" THEN "Text" ELSE "Bytes", value |-> s.props[n].value]
  BY <1>5
<1>8. s.kind = "contains" => scope.props["substring"] = [type |-> "Text", value |-> s.props["substring"].value]
  BY <1>4, <1>7 DEF ScopeProps
<1>9. s.kind \in {"exact", "range"} => scope.props["der"] = [type |-> "Bytes", value |-> s.props["der"].value]
  BY <1>4, <1>7 DEF ScopeProps
<1>10. s.kind = "range" => /\ scope.props["start"] = [type |-> "Bytes", value |-> s.props["start"].value]
                           /\ scope.props["end"] = [type |-> "Bytes", value |-> s.props["end"].value]
  BY <1>4, <1>7 DEF ScopeProps
<1>11. /\ d.scope = scope /\ d.id = r.id /\ d.target = r.target /\ d.start = r.start /\ d.end = r.end
       /\ d.action = r.action /\ d.just = r.description /\ d.auth = r.auth
       /\ d.priority = IF r.priority.form = "absent" THEN 0 ELSE r.priority.value
  BY <1>3
<1>12. DOMAIN d = {"id", "target", "scope", "start", "end", "action", "just", "auth", "evidence", "priority"}
  BY <1>3
<1>13. s.kind = "contains" => {"type", "value"} \subseteq DOMAIN scope.props["substring"]
  BY <1>8
<1>14. Shaped(d)
  BY <1>6, <1>11, <1>12, <1>13 DEF Shaped
<1>15. /\ s.kind = "contains" => /\ scope.props["substring"].type = "Text"
                                /\ scope.props["substring"].value = s.props["substring"].value
       /\ s.kind \in {"exact", "range"} => /\ scope.props["der"].type = "Bytes"
                                          /\ scope.props["der"].value = s.props["der"].value
  BY <1>8, <1>9
<1>16. s.kind = "range" =>
         /\ scope.props["start"].type = "Bytes" /\ scope.props["start"].value = s.props["start"].value
         /\ scope.props["end"].type = "Bytes" /\ scope.props["end"].value = s.props["end"].value
  BY <1>10
<1>17. ParsedFrom(d, r, s)
  BY <1>6, <1>11, <1>14, <1>15, <1>16 DEF ParsedFrom
<1> QED
  BY <1>2, <1>17

\* A risk that somebody wrote.
LEMMA ParsedIs ==
  ASSUME NEW r, IsRisk(r), RiskOk(r), ParseRisk(r).just # "", ParseRisk(r).auth # ""
  PROVE  Storable(ParseRisk(r)) /\ Shaped(ParseRisk(r))
<1>1. PICK d, s : d = ParseRisk(r) /\ s = Head(r.subjects.items)
  OBVIOUS
<1>2. ParsedFrom(d, r, s)
  BY <1>1, ParsedShape
<1>3. SubjectOk(s) /\ r.subjects.form = "array" /\ r.subjects.items # <<>>
  BY <1>1 DEF RiskOk
<1>4. IsSubject(s)
  <2>1. PICK items : items = r.subjects.items
    OBVIOUS
  <2>2. IsArray(r.subjects) /\ items # <<>> /\ \A i \in DOMAIN items : IsSubject(items[i])
    BY <1>3, <2>1 DEF IsRisk, RiskOk
  <2>3. 1 \in DOMAIN items /\ Head(items) = items[1]
    <3>1. items \in Seq(ToSet(items))
      BY <2>1, <2>2 DEF IsArray
    <3> QED
      BY <2>2, <3>1, FirstOf
  <2> QED
    BY <1>1, <2>1, <2>2, <2>3
<1>5. /\ s.kind = "contains" => s.props["substring"].value \in Letters
      /\ s.kind \in {"exact", "range"} => s.props["der"].value \in Letters
      /\ s.kind = "range" => s.props["start"].value \in Octets /\ s.props["end"].value \in Octets
  <2>1. s.form = "object"
    BY <1>3 DEF SubjectOk
  <2>2. ASSUME s.kind = "contains" PROVE s.props["substring"].value \in Letters
    <3>1. s.props["substring"].form # "absent"
      BY <1>3, <2>2 DEF SubjectOk
    <3> QED
      BY <1>4, <2>1, <2>2, <3>1 DEF IsSubject
  <2>3. ASSUME s.kind = "exact" PROVE s.props["der"].value \in Letters
    <3>1. s.props["der"].form # "absent"
      BY <1>3, <2>3 DEF SubjectOk, BytesOk
    <3> QED
      BY <1>4, <2>1, <2>3, <3>1 DEF IsSubject
  <2>4. ASSUME s.kind = "range"
        PROVE  s.props["der"].value \in Letters /\ s.props["start"].value \in Octets /\ s.props["end"].value \in Octets
    <3>1. s.props["der"].form # "absent" /\ s.props["start"].form # "absent" /\ s.props["end"].form # "absent"
      BY <1>3, <2>4 DEF SubjectOk, BytesOk
    <3> QED
      BY <1>4, <2>1, <2>4, <3>1 DEF IsSubject
  <2> QED
    BY <2>2, <2>3, <2>4
<1>6. ScopeWellFormed(d.scope)
  BY <1>2, <1>3 DEF ScopeWellFormed, SubjectOk, ScopeKinds, ParsedFrom
<1>7. d.start \in Times64 /\ d.end \in Times64
  BY <1>2 DEF IsRisk, RiskOk, ParsedFrom
<1>8. d.priority \in Int
  <2>1. r.priority \in [form : {"absent", "malformed"}] \cup [form : {"number"}, value : Int]
    BY DEF IsRisk, RiskOk
  <2>2. r.priority.form # "malformed"
    BY DEF RiskOk
  <2>3. r.priority.form = "absent" \/ r.priority.value \in Int
    BY <2>1, <2>2
  <2>4. PICK v : v = r.priority.value
    OBVIOUS
  <2>5. d.priority = IF r.priority.form = "absent" THEN 0 ELSE v
    BY <1>2, <2>4 DEF ParsedFrom
  <2> QED
    BY <2>3, <2>4, <2>5, ZeroIs, Zenon
<1>9. /\ d.scope.kind = "contains" => d.scope.props["substring"].value \in Letters
      /\ d.scope.kind \in {"exact", "range"} => d.scope.props["der"].value \in Letters
      /\ d.scope.kind = "range" => d.scope.props["start"].value \in Octets /\ d.scope.props["end"].value \in Octets
  BY <1>2, <1>5 DEF ParsedFrom
<1>10. /\ d.id \notin {"", "absent"} /\ d.just \notin {"", "absent"} /\ d.auth \notin {"", "absent"}
       /\ d.target \notin {<<>>, <<"absent">>}
       /\ d.action.kind \in {"suppress", "downgrade"} /\ (d.action.kind = "downgrade" => d.action.to \in Severities)
  BY <1>1, <1>2 DEF RiskOk, ParsedFrom
<1> QED
  BY <1>1, <1>2, <1>6, <1>7, <1>8, <1>9, <1>10 DEF Storable, ParsedFrom

\* A saved deviation is read back as it was: its risk has all that is read.
LEMMA SavedShape ==
  ASSUME NEW s, Storable(s), s.scope.kind \in ScopeKinds
  PROVE  LET r == RiskForDeviation(s)
         IN  /\ r.form = "object" /\ r.status = "deviation-approved" /\ r.description = s.just
             /\ r.id = s.id /\ r.target = s.target /\ r.action = s.action /\ r.auth = s.auth
             /\ r.start = s.start /\ r.end = s.end /\ r.priority.form # "malformed"
             /\ (IF r.priority.form = "absent" THEN 0 ELSE r.priority.value) = s.priority
             /\ r.subjects.form = "array" /\ r.subjects.items # <<>>
             /\ Head(r.subjects.items) = EncodeScope(s.scope)
<1>1. PICK r, e : r = RiskForDeviation(s) /\ e = EncodeScope(s.scope)
  OBVIOUS
<1>2. PICK p : p = IF s.priority = 0 THEN [form |-> "absent"] ELSE [form |-> "number", value |-> s.priority]
  OBVIOUS
<1>3. r = [form |-> "object", status |-> "deviation-approved", description |-> s.just,
           id |-> s.id, target |-> s.target, action |-> s.action, auth |-> s.auth,
           start |-> s.start, end |-> s.end, priority |-> p,
           subjects |-> [form |-> "array", items |-> <<e>>], evidence |-> s.evidence]
  BY <1>1, <1>2 DEF RiskForDeviation
<1>4. p.form # "malformed" /\ (IF p.form = "absent" THEN 0 ELSE p.value) = s.priority
  BY <1>2
<1>5. r.priority = p /\ r.subjects = [form |-> "array", items |-> <<e>>]
  BY <1>3
<1>6. r.subjects.form = "array" /\ r.subjects.items = <<e>>
  BY <1>5
<1>7. <<e>> # <<>> /\ Head(<<e>>) = e
  OBVIOUS
<1>8. /\ r.form = "object" /\ r.status = "deviation-approved" /\ r.description = s.just
      /\ r.id = s.id /\ r.target = s.target /\ r.action = s.action /\ r.auth = s.auth
      /\ r.start = s.start /\ r.end = s.end
  BY <1>3
<1> QED
  BY <1>1, <1>4, <1>5, <1>6, <1>7, <1>8, Zenon

\* What encode_scope writes of the properties that a kind needs.
LEMMA EncodedScope ==
  ASSUME NEW scope, ScopeWellFormed(scope)
  PROVE  LET e == EncodeScope(scope)
         IN  /\ e.form = "object" /\ e.kind = scope.kind
             /\ scope.kind = "contains" => /\ e.props["substring"].form = "text"
                                           /\ e.props["substring"].value = scope.props["substring"].value
             /\ scope.kind \in {"exact", "range"} => /\ e.props["der"].form = "hex"
                                                     /\ e.props["der"].value = scope.props["der"].value
             /\ scope.kind = "range" =>
                  /\ e.props["start"].form = "hex" /\ e.props["start"].value = scope.props["start"].value
                  /\ e.props["end"].form = "hex" /\ e.props["end"].value = scope.props["end"].value
<1>1. PICK props : props = [n \in ScopeProps |->
        IF scope.props[n].type = "absent" THEN [form |-> "absent"]
        ELSE [form |-> IF scope.props[n].type = "Bytes" THEN "hex" ELSE "text", value |-> scope.props[n].value]]
  OBVIOUS
<1>2. PICK e : e = EncodeScope(scope)
  OBVIOUS
<1>3. e = [form |-> "object", kind |-> scope.kind, props |-> props]
  BY <1>1, <1>2 DEF EncodeScope
<1>4. e.form = "object" /\ e.kind = scope.kind /\ e.props = props
  BY <1>3
<1>5. \A n \in ScopeProps : scope.props[n].type = "Text" =>
        props[n].form = "text" /\ props[n].value = scope.props[n].value
  BY <1>1
<1>6. \A n \in ScopeProps : scope.props[n].type = "Bytes" =>
        props[n].form = "hex" /\ props[n].value = scope.props[n].value
  BY <1>1
<1>7. /\ scope.kind = "contains" => scope.props["substring"].type = "Text"
      /\ scope.kind \in {"exact", "range"} => scope.props["der"].type = "Bytes"
      /\ scope.kind = "range" => scope.props["start"].type = "Bytes" /\ scope.props["end"].type = "Bytes"
  BY DEF ScopeWellFormed
<1>8. {"substring", "der", "start", "end"} \subseteq ScopeProps
  BY DEF ScopeProps
<1> QED
  BY <1>2, <1>4, <1>5, <1>6, <1>7, <1>8

\* A deviation that was saved and loaded again waives what it did.
LEMMA SavedEntry ==
  ASSUME NEW s, NEW w, Entry(s, w), RiskOk(RiskForDeviation(s))
  PROVE  /\ Entry(Normalized(ParseRisk(RiskForDeviation(s))), w)
         /\ Storable(ParseRisk(RiskForDeviation(s))) /\ ParseRisk(RiskForDeviation(s)).id = s.id
<1>1. PICK r, d, e : r = RiskForDeviation(s) /\ d = ParseRisk(r) /\ e = EncodeScope(s.scope)
  OBVIOUS
<1>2. Storable(s) /\ Lowered(s)
  BY DEF Entry
<1>3. Head(r.subjects.items) = e
  <2>1. PICK p : p = IF s.priority = 0 THEN [form |-> "absent"] ELSE [form |-> "number", value |-> s.priority]
    OBVIOUS
  <2>2. r = [form |-> "object", status |-> "deviation-approved", description |-> s.just,
             id |-> s.id, target |-> s.target, action |-> s.action, auth |-> s.auth,
             start |-> s.start, end |-> s.end, priority |-> p,
             subjects |-> [form |-> "array", items |-> <<e>>], evidence |-> s.evidence]
    BY <1>1, <2>1 DEF RiskForDeviation
  <2>3. r.subjects.items = <<e>>
    BY <2>2
  <2>4. Head(<<e>>) = e
    OBVIOUS
  <2> QED
    BY <2>3, <2>4
<1>4. SubjectOk(e)
  BY <1>1, <1>3 DEF RiskOk
<1>5. e.kind = s.scope.kind
  BY <1>1 DEF EncodeScope
<1>6. s.scope.kind \in ScopeKinds
  BY <1>4, <1>5 DEF SubjectOk
<1>7. /\ r.description = s.just
      /\ r.id = s.id /\ r.target = s.target /\ r.action = s.action /\ r.auth = s.auth
      /\ r.start = s.start /\ r.end = s.end
      /\ (IF r.priority.form = "absent" THEN 0 ELSE r.priority.value) = s.priority
  BY <1>1, <1>2, <1>6, SavedShape
<1>8. ParsedFrom(d, r, e)
  BY <1>1, <1>3, ParsedShape
<1>9. /\ Shaped(d) /\ d.id = s.id /\ d.target = s.target /\ d.start = s.start /\ d.end = s.end
      /\ d.priority = s.priority /\ d.action = s.action /\ d.just = s.just /\ d.auth = s.auth
      /\ d.scope.kind = s.scope.kind
  BY <1>5, <1>7, <1>8, Zenon DEF ParsedFrom
<1>10. ScopeWellFormed(s.scope)
  BY <1>2 DEF Storable
<1>11. /\ s.scope.kind = "contains" => e.props["substring"].value = s.scope.props["substring"].value
       /\ s.scope.kind \in {"exact", "range"} => e.props["der"].value = s.scope.props["der"].value
       /\ s.scope.kind = "range" => /\ e.props["start"].value = s.scope.props["start"].value
                                    /\ e.props["end"].value = s.scope.props["end"].value
  BY <1>1, <1>10, EncodedScope
<1>12. /\ s.scope.kind = "contains" => /\ d.scope.props["substring"].type = "Text"
                                       /\ d.scope.props["substring"].value = s.scope.props["substring"].value
       /\ s.scope.kind \in {"exact", "range"} => /\ d.scope.props["der"].type = "Bytes"
                                                 /\ d.scope.props["der"].value = s.scope.props["der"].value
       /\ s.scope.kind = "range" =>
            /\ d.scope.props["start"].type = "Bytes" /\ d.scope.props["start"].value = s.scope.props["start"].value
            /\ d.scope.props["end"].type = "Bytes" /\ d.scope.props["end"].value = s.scope.props["end"].value
  BY <1>5, <1>8, <1>11, Zenon DEF ParsedFrom
<1>13. SameScope(d, s)
  BY <1>9, <1>12 DEF SameScope
<1>14. ScopeWellFormed(d.scope)
  BY <1>6, <1>9, <1>12 DEF ScopeWellFormed, ScopeKinds
<1>15. Storable(d)
  BY <1>2, <1>9, <1>12, <1>14, Zenon DEF Storable
<1>16. Entry(Normalized(d), d)
  BY <1>9, <1>15, NormalizedEntry
<1>17. \A c \in Cert : Covers(d, c) <=> Covers(w, c)
  <2> SUFFICES ASSUME NEW c \in Cert PROVE Covers(d, c) <=> Covers(w, c)
    OBVIOUS
  <2>1. Covers(d, c) <=> Covers(s, c)
    BY <1>13, CoversSame
  <2>2. ScopeMatches(s.scope, c) <=> Covers(s, c)
    BY <1>2, MatchesIs
  <2>3. ScopeMatches(s.scope, c) <=> Covers(w, c)
    BY DEF Entry
  <2> QED
    BY <2>1, <2>2, <2>3
<1>18. s.id = w.id /\ s.target = w.target /\ s.start = w.start /\ s.end = w.end /\ s.priority = w.priority
  BY DEF Entry
<1>19. Entry(Normalized(d), w)
  BY <1>9, <1>16, <1>17, <1>18, Zenon DEF Entry
<1> QED
  BY <1>1, <1>9, <1>15, <1>19

\* A time is not a malformed one.
LEMMA NotMalformed == \A t \in Times64 : t # Malformed
BY SMT DEF Times64, Malformed, None

\* A stored deviation of a known kind, with a name that decodes, is read back.
LEMMA SavedOk ==
  ASSUME NEW s, Storable(s), s.scope.kind \in ScopeKinds,
         s.scope.kind \in {"exact", "range"} => FromDer(s.scope.props["der"].value)
  PROVE  RiskOk(RiskForDeviation(s))
<1>1. PICK r, e : r = RiskForDeviation(s) /\ e = EncodeScope(s.scope)
  OBVIOUS
<1>2. /\ r.form = "object" /\ r.status = "deviation-approved" /\ r.description = s.just
      /\ r.id = s.id /\ r.target = s.target /\ r.action = s.action /\ r.auth = s.auth
      /\ r.start = s.start /\ r.end = s.end /\ r.priority.form # "malformed"
      /\ r.subjects.form = "array" /\ r.subjects.items # <<>> /\ Head(r.subjects.items) = e
  BY <1>1, SavedShape
<1>3. ScopeWellFormed(s.scope)
  BY DEF Storable
<1>4. /\ e.form = "object" /\ e.kind = s.scope.kind
      /\ s.scope.kind = "contains" => e.props["substring"].form = "text"
      /\ s.scope.kind \in {"exact", "range"} => /\ e.props["der"].form = "hex"
                                                /\ e.props["der"].value = s.scope.props["der"].value
      /\ s.scope.kind = "range" => e.props["start"].form = "hex" /\ e.props["end"].form = "hex"
  BY <1>1, <1>3, EncodedScope
<1>5. SubjectOk(e)
  BY <1>4 DEF SubjectOk, BytesOk
<1>6. s.start # Malformed /\ s.end # Malformed
  <2>1. s.start \in Times64 /\ s.end \in Times64
    BY Zenon DEF Storable
  <2> QED
    BY <2>1, NotMalformed, Zenon
<1>7. RiskOk(r)
  BY <1>2, <1>5, <1>6, Zenon DEF RiskOk, Storable
<1> QED
  BY <1>1, <1>7

-----------------------------------------------------------------------------
(* The store of a session. *)

\* The store s holds what was written, w, entry by entry.
Stored(s, w) ==
  /\ s \in Seq(ToSet(s)) /\ w \in Seq(ToSet(w)) /\ Len(w) = Len(s)
  /\ \A i, j \in DOMAIN s : s[i].id = s[j].id => i = j
  /\ \A i \in DOMAIN s : Entry(s[i], w[i])

\* An empty store holds what was written: nothing.
LEMMA StoredNone == Stored(<<>>, <<>>)
<1>1. <<>> \in Seq(ToSet(<<>>)) /\ Len(<<>>) = 0 /\ DOMAIN <<>> = {}
  OBVIOUS
<1> QED
  BY <1>1 DEF Stored

\* A sequence with one element more.
LEMMA Appended ==
  ASSUME NEW s, s \in Seq(ToSet(s)), NEW x
  PROVE  /\ Append(s, x) \in Seq(ToSet(Append(s, x))) /\ Len(Append(s, x)) = Len(s) + 1 /\ Len(s) \in Nat
         /\ Append(s, x)[Len(s) + 1] = x /\ \A i \in 1 .. Len(s) : Append(s, x)[i] = s[i]
<1>1. PICK T : T = ToSet(s) \cup {x}
  OBVIOUS
<1>2. s \in Seq(T) /\ x \in T
  <2>1. s \in [1 .. Len(s) -> T] /\ Len(s) \in Nat
    BY <1>1
  <2> QED
    BY <1>1, <2>1
<1>3. PICK t : t = Append(s, x)
  OBVIOUS
<1>4. /\ t \in Seq(T) /\ Len(t) = Len(s) + 1 /\ Len(s) \in Nat
      /\ t[Len(s) + 1] = x /\ \A i \in 1 .. Len(s) : t[i] = s[i]
  BY <1>2, <1>3
<1>5. t \in Seq(ToSet(t))
  BY <1>4, SequenceOf
<1> QED
  BY <1>3, <1>4, <1>5

\* A deviation that is added has passed the checks of new and of add.
LEMMA AddedIs ==
  ASSUME NEW s, NEW d, FirstError(NewChecks(d) \o AddChecks(s, d)) = "Ok"
  PROVE  /\ d.id # "" /\ d.target # <<>> /\ d.just # "" /\ d.auth # "" /\ ScopeWellFormed(d.scope)
         /\ \A i \in DOMAIN s : s[i].id # d.id
<1>1. PICK a, b : a = NewChecks(d) /\ b = AddChecks(s, d)
  OBVIOUS
<1>2. a \in Lists /\ b \in Lists
  BY <1>1, NewLists, AddLists
<1>3. a \o b \in Lists /\ (Failing(a \o b) = {} <=> Failing(a) = {} /\ Failing(b) = {})
  BY <1>2, Joined
<1>4. Failing(a) = {} /\ Failing(b) = {}
  BY <1>1, <1>3, OkOfList
<1> QED
  BY <1>1, <1>4, NewLists, AddLists

\* DeviationStore::add of a new deviation: the store still holds what was written.
LEMMA StoredMore ==
  ASSUME NEW s, NEW w, Stored(s, w), NEW d \in Offered,
         FirstError(NewChecks(d) \o AddChecks(s, d)) = "Ok"
  PROVE  Stored(Append(s, Normalized(d)), Append(w, d))
<1>1. Storable(d) /\ Shaped(d) /\ \A i \in DOMAIN s : s[i].id # d.id
  BY AddedIs, OfferedIs
<1>2. Entry(Normalized(d), d)
  BY <1>1, NormalizedEntry
<1>3. PICK x, L : x = Normalized(d) /\ L = Len(s)
  OBVIOUS
<1>4. PICK t, v : t = Append(s, x) /\ v = Append(w, d)
  OBVIOUS
<1>5. /\ s \in Seq(ToSet(s)) /\ w \in Seq(ToSet(w)) /\ Len(w) = L
      /\ \A i, j \in DOMAIN s : s[i].id = s[j].id => i = j
      /\ \A i \in DOMAIN s : Entry(s[i], w[i])
  BY <1>3 DEF Stored
<1>6. /\ t \in Seq(ToSet(t)) /\ Len(t) = L + 1 /\ L \in Nat /\ t[L + 1] = x /\ \A i \in 1 .. L : t[i] = s[i]
      /\ v \in Seq(ToSet(v)) /\ Len(v) = L + 1 /\ v[L + 1] = d /\ \A i \in 1 .. L : v[i] = w[i]
  BY <1>3, <1>4, <1>5, Appended
<1>7. DOMAIN s = 1 .. L /\ DOMAIN t = 1 .. L + 1
  BY <1>3, <1>5, <1>6
<1>8. \A i \in 1 .. L + 1 : i \in 1 .. L \/ i = L + 1
  BY <1>6
<1>9. x.id = d.id
  BY <1>2, <1>3 DEF Entry
<1>10. \A i \in DOMAIN t : Entry(t[i], v[i])
  BY <1>2, <1>3, <1>5, <1>6, <1>7, <1>8
<1>11. \A i \in 1 .. L : t[i].id # t[L + 1].id
  BY <1>1, <1>6, <1>7, <1>9
<1>12. \A i, j \in DOMAIN t : t[i].id = t[j].id => i = j
  BY <1>5, <1>6, <1>7, <1>8, <1>11
<1> QED
  BY <1>3, <1>4, <1>6, <1>10, <1>12 DEF Stored

\* Stores that were read from risks.
LEMMA StoredRead ==
  ASSUME NEW T, NEW items \in Seq(T), NEW r, ReadSoFar(items, Len(items), r), r.result = "Ok",
         NEW w, w \in Seq(ToSet(w)), Len(w) = Len(items),
         \A i \in DOMAIN items : Entry(Normalized(ParseRisk(items[i])), w[i]) /\ w[i].id = ParseRisk(items[i]).id
  PROVE  Stored(r.store, w)
<1>1. PICK s, L : s = r.store /\ L = Len(items)
  OBVIOUS
<1>2. /\ \A i \in 1 .. L : Good(items, i)
      /\ s \in Seq(AsStored(items)) /\ Len(s) = L
      /\ \A i \in 1 .. L : s[i] = Normalized(ParseRisk(items[i]))
  BY <1>1 DEF ReadSoFar
<1>3. L \in Nat /\ DOMAIN s = 1 .. L /\ DOMAIN items = 1 .. L
  BY <1>1, <1>2
<1>4. s \in Seq(ToSet(s))
  BY <1>2, SequenceOf
<1>5. \A i \in DOMAIN s : Entry(s[i], w[i])
  BY <1>2, <1>3
<1>6. \A i \in 1 .. L : s[i].id = ParseRisk(items[i]).id
  BY <1>2, <1>3 DEF Entry
<1>7. \A i \in 1 .. L : \A j \in 1 .. (i - 1) : s[j].id # s[i].id
  <2> SUFFICES ASSUME NEW i \in 1 .. L, NEW j \in 1 .. (i - 1) PROVE s[j].id # s[i].id
    OBVIOUS
  <2>1. j \in 1 .. L
    BY <1>3
  <2>2. Normalized(ParseRisk(items[j])).id # ParseRisk(items[i]).id
    <3>1. Good(items, i)
      BY <1>2
    <3> QED
      BY <3>1, Zenon DEF Good
  <2>3. s[j] = Normalized(ParseRisk(items[j]))
    BY <1>2, <2>1
  <2> QED
    BY <1>6, <2>2, <2>3
<1>8. \A i, j \in 1 .. L : s[i].id = s[j].id => i = j
  <2> SUFFICES ASSUME NEW i \in 1 .. L, NEW j \in 1 .. L, s[i].id = s[j].id, i # j PROVE FALSE
    OBVIOUS
  <2>1. i \in 1 .. (j - 1) \/ j \in 1 .. (i - 1)
    BY <1>3
  <2> QED
    BY <1>7, <2>1
<1> QED
  BY <1>1, <1>2, <1>3, <1>4, <1>5, <1>8 DEF Stored

\* A sequence given position by position.
LEMMA EachOf ==
  ASSUME NEW L \in Nat, NEW w, Over(w, 1 .. L)
  PROVE  w \in Seq(ToSet(w)) /\ Len(w) = L
<1>1. w = [i \in 1 .. L |-> w[i]]
  BY DEF Over
<1>2. DOMAIN w = 1 .. L
  BY <1>1
<1>3. \A i \in 1 .. L : w[i] \in ToSet(w)
  BY <1>2 DEF ToSet
<1>4. w \in [1 .. L -> ToSet(w)]
  BY <1>1, <1>3
<1> QED
  BY <1>4

\* What is assumed of a file of risks that is an array.
LEMMA FileIs ==
  ASSUME NEW json \in Risks, json.form = "array"
  PROVE  /\ json.items \in Seq(ToSet(json.items))
         /\ \A i \in DOMAIN json.items : IsRisk(json.items[i])
BY SessionAssumption DEF IsArray

\* deviation_store_from_risks of a file somebody wrote.
LEMMA FileRead ==
  ASSUME NEW json \in Risks, NEW r, r = StoreFromRisks(json)
  PROVE  Stored(r.store, IF r.result # "Ok" THEN <<>> ELSE [i \in DOMAIN json.items |-> ParseRisk(json.items[i])])
<1>1. CASE json.form # "array"
  <2>1. r = [result |-> "NotArray", store |-> <<>>]
    BY <1>1 DEF StoreFromRisks
  <2>2. r.result = "NotArray" /\ r.store = <<>>
    BY <2>1
  <2> QED
    BY <2>2, StoredNone
<1>2. CASE json.form = "array"
  <2>1. PICK items : items = json.items
    OBVIOUS
  <2>2. items \in Seq(ToSet(items)) /\ \A i \in DOMAIN items : IsRisk(items[i])
    BY <1>2, <2>1, FileIs
  <2>3. ReadSoFar(items, Len(items), r)
    BY <1>2, <2>1, <2>2, LoadIs
  <2>4. CASE r.result # "Ok"
    <3>1. r.store = <<>>
      BY <2>3, <2>4, Zenon DEF ReadSoFar
    <3> QED
      BY <2>4, <3>1, StoredNone
  <2>5. CASE r.result = "Ok"
    <3>1. PICK L : L = Len(items)
      OBVIOUS
    <3>2. L \in Nat /\ DOMAIN items = 1 .. L
      BY <2>2, <3>1
    <3>3. PICK w : w = [i \in 1 .. L |-> ParseRisk(items[i])]
      OBVIOUS
    <3>4. \A i \in 1 .. L : w[i] = ParseRisk(items[i])
      BY <3>3
    <3>5. Over(w, 1 .. L)
      BY <3>3 DEF Over
    <3>6. w \in Seq(ToSet(w)) /\ Len(w) = L
      BY <3>2, <3>5, EachOf
    <3>7. \A i \in DOMAIN items : Good(items, i)
      BY <2>3, <2>5, <3>1, <3>2 DEF ReadSoFar
    <3>8. \A i \in DOMAIN items : Entry(Normalized(ParseRisk(items[i])), ParseRisk(items[i]))
      <4> SUFFICES ASSUME NEW i \in DOMAIN items
                   PROVE  Entry(Normalized(ParseRisk(items[i])), ParseRisk(items[i]))
        OBVIOUS
      <4>1. PICK x : x = items[i]
        OBVIOUS
      <4>2. IsRisk(x) /\ RiskOk(x) /\ ParseRisk(x).just # "" /\ ParseRisk(x).auth # ""
        BY <2>2, <3>7, <4>1 DEF Good
      <4>3. Storable(ParseRisk(x)) /\ Shaped(ParseRisk(x))
        BY <4>2, ParsedIs
      <4> QED
        BY <4>1, <4>3, NormalizedEntry
    <3>9. Stored(r.store, w)
      <4>1. Len(w) = Len(items)
        BY <3>1, <3>6
      <4>2. \A i \in DOMAIN items : Entry(Normalized(ParseRisk(items[i])), w[i]) /\ w[i].id = ParseRisk(items[i]).id
        BY <3>2, <3>4, <3>8
      <4> QED
        BY <2>2, <2>3, <2>5, <3>6, <4>1, <4>2, StoredRead
    <3> QED
      BY <2>1, <2>5, <3>2, <3>3, <3>9
  <2> QED
    BY <2>4, <2>5
<1> QED
  BY <1>1, <1>2

\* A store that is saved and loaded.
LEMMA SavedRead ==
  ASSUME NEW s, NEW w, Stored(s, w), NEW r, r = StoreFromRisks(RisksFromStore(s))
  PROVE  /\ r.result = "Ok" => Stored(r.store, w)
         /\ r.result # "Ok" =>
              \E i \in DOMAIN s : \/ s[i].scope.kind \notin ScopeKinds
                                  \/ s[i].scope.kind \in {"exact", "range"} /\ ~FromDer(s[i].scope.props["der"].value)
<1>1. PICK json, items : json = RisksFromStore(s) /\ items = json.items
  OBVIOUS
<1>2. /\ s \in Seq(ToSet(s)) /\ w \in Seq(ToSet(w)) /\ Len(w) = Len(s)
      /\ \A i, j \in DOMAIN s : s[i].id = s[j].id => i = j
      /\ \A i \in DOMAIN s : Entry(s[i], w[i])
  BY DEF Stored
<1>3. PICK L : L = Len(s)
  OBVIOUS
<1>4. L \in Nat /\ DOMAIN s = 1 .. L
  BY <1>2, <1>3
<1>5. json.form = "array" /\ Over(items, 1 .. L) /\ \A i \in 1 .. L : items[i] = RiskForDeviation(s[i])
  BY <1>1, <1>4 DEF RisksFromStore, Over
<1>6. items \in Seq(ToSet(items)) /\ Len(items) = L
  BY <1>4, <1>5, EachOf
<1>7. DOMAIN items = 1 .. L
  BY <1>4, <1>6
<1>8. ReadSoFar(items, L, r)
  BY <1>1, <1>5, <1>6, LoadIs
<1>9. ASSUME NEW i \in 1 .. L, RiskOk(items[i])
      PROVE  /\ Entry(Normalized(ParseRisk(items[i])), w[i])
             /\ Storable(ParseRisk(items[i])) /\ ParseRisk(items[i]).id = s[i].id
             /\ w[i].id = ParseRisk(items[i]).id /\ Normalized(ParseRisk(items[i])).id = s[i].id
  <2>1. Entry(s[i], w[i]) /\ items[i] = RiskForDeviation(s[i])
    BY <1>2, <1>4, <1>5
  <2>2. PICK x, y : x = s[i] /\ y = w[i]
    OBVIOUS
  <2>3. /\ Entry(Normalized(ParseRisk(RiskForDeviation(x))), y)
        /\ Storable(ParseRisk(RiskForDeviation(x))) /\ ParseRisk(RiskForDeviation(x)).id = x.id
    BY <1>9, <2>1, <2>2, SavedEntry
  <2>4. x.id = y.id /\ Normalized(ParseRisk(RiskForDeviation(x))).id = y.id
    BY <2>1, <2>2, <2>3, Zenon DEF Entry
  <2> QED
    BY <2>1, <2>2, <2>3, <2>4, Zenon
<1>10. ASSUME r.result = "Ok" PROVE Stored(r.store, w)
  <2>1. \A i \in 1 .. L : Good(items, i)
    BY <1>8, <1>10, Zenon DEF ReadSoFar
  <2>2. \A i \in DOMAIN items : Entry(Normalized(ParseRisk(items[i])), w[i]) /\ w[i].id = ParseRisk(items[i]).id
    BY <1>7, <1>9, <2>1 DEF Good
  <2>3. PICK T : T = ToSet(items)
    OBVIOUS
  <2>4. /\ items \in Seq(T) /\ ReadSoFar(items, Len(items), r) /\ r.result = "Ok"
        /\ w \in Seq(ToSet(w)) /\ Len(w) = Len(items)
    BY <1>2, <1>3, <1>6, <1>8, <1>10, <2>3, Zenon
  <2> QED
    BY <2>2, <2>4, StoredRead, Zenon
<1>11. ASSUME r.result # "Ok",
              ~ \E i \in DOMAIN s : \/ s[i].scope.kind \notin ScopeKinds
                                    \/ s[i].scope.kind \in {"exact", "range"} /\ ~FromDer(s[i].scope.props["der"].value)
       PROVE  FALSE
  <2>1. \A i \in 1 .. L : RiskOk(items[i])
    <3> SUFFICES ASSUME NEW i \in 1 .. L PROVE RiskOk(items[i])
      OBVIOUS
    <3>1. PICK x : x = s[i]
      OBVIOUS
    <3>2. Storable(x) /\ items[i] = RiskForDeviation(x)
      BY <1>2, <1>4, <1>5, <3>1 DEF Entry
    <3>3. x.scope.kind \in ScopeKinds /\ (x.scope.kind \in {"exact", "range"} => FromDer(x.scope.props["der"].value))
      BY <1>4, <1>11, <3>1
    <3> QED
      BY <3>2, <3>3, SavedOk
  <2>2. \A i \in 1 .. L : Good(items, i)
    <3> SUFFICES ASSUME NEW i \in 1 .. L PROVE Good(items, i)
      OBVIOUS
    <3>1. PICK d : d = ParseRisk(items[i])
      OBVIOUS
    <3>2. Storable(d) /\ d.id = s[i].id
      BY <1>9, <2>1, <3>1
    <3>3. d.just # "" /\ d.auth # "" /\ ScopeWellFormed(d.scope)
      BY <3>2 DEF Storable
    <3>4. \A j \in 1 .. (i - 1) : Normalized(ParseRisk(items[j])).id # d.id
      <4> SUFFICES ASSUME NEW j \in 1 .. (i - 1) PROVE Normalized(ParseRisk(items[j])).id # d.id
        OBVIOUS
      <4>1. j \in 1 .. L /\ j # i
        BY <1>4
      <4>2. Normalized(ParseRisk(items[j])).id = s[j].id
        BY <1>9, <2>1, <4>1
      <4> QED
        BY <1>2, <1>4, <3>2, <4>1, <4>2
    <3> QED
      BY <2>1, <3>1, <3>3, <3>4, Zenon DEF Good
  <2> QED
    BY <1>8, <1>11, <2>2, Zenon DEF ReadSoFar
<1> QED
  BY <1>10, <1>11

\* The store waives what was written, and what is saved loads again.
StoreInv == Stored(store, written) /\ SavedStoresLoad

\* A session starts with an empty store.
LEMMA StoreFirst == Init => StoreInv
<1> SUFFICES ASSUME Init PROVE StoreInv
  OBVIOUS
<1>1. store = <<>> /\ written = <<>> /\ out.op = "none"
  BY DEF Init
<1> QED
  BY <1>1, StoredNone DEF StoreInv, SavedStoresLoad

\* Whatever a session does, the store waives what was written, and loads again as it was saved.
LEMMA StoreStays == StoreInv /\ [Next]_vars => StoreInv'
<1> SUFFICES ASSUME StoreInv, [Next]_vars PROVE StoreInv'
  OBVIOUS
<1>1. Stored(store, written)
  BY DEF StoreInv
<1>2. ASSUME UNCHANGED <<store, written>>, out'.op # "load" PROVE StoreInv'
  BY <1>1, <1>2 DEF StoreInv, SavedStoresLoad
<1>3. CASE UNCHANGED vars
  BY <1>3 DEF vars, StoreInv, SavedStoresLoad
<1>4. ASSUME NEW p \in Profiles, Resolve(p) PROVE StoreInv'
  BY <1>2, <1>4 DEF Resolve
<1>5. CASE Filter
  BY <1>2, <1>5 DEF Filter
<1>6. CASE Override
  BY <1>2, <1>6 DEF Override
<1>7. CASE ReloadCatalog
  BY <1>2, <1>7 DEF ReloadCatalog
<1>8. ASSUME NEW d \in Offered, AddDeviation(d) PROVE StoreInv'
  <2>1. PICK result : result = FirstError(NewChecks(d) \o AddChecks(store, d))
    OBVIOUS
  <2>2. /\ store' = IF result = "Ok" THEN Add(store, d) ELSE store
        /\ written' = IF result = "Ok" THEN Append(written, d) ELSE written
        /\ out'.op = "add"
    BY <1>8, <2>1 DEF AddDeviation
  <2>3. ASSUME result = "Ok" PROVE Stored(Append(store, Normalized(d)), Append(written, d))
    BY <1>1, <2>1, <2>3, StoredMore
  <2>4. Stored(store', written')
    BY <1>1, <2>2, <2>3 DEF Add
  <2> QED
    BY <2>2, <2>4 DEF StoreInv, SavedStoresLoad
<1>9. CASE SaveAndLoad
  <2>1. PICK r : r = StoreFromRisks(RisksFromStore(store))
    OBVIOUS
  <2>2. /\ store' = IF r.result = "Ok" THEN r.store ELSE store
        /\ written' = written /\ out' = [op |-> "load", result |-> r.result]
    BY <1>9, <2>1 DEF SaveAndLoad
  <2>3. PICK s, w : s = store /\ w = written
    OBVIOUS
  <2>4. /\ r.result = "Ok" => Stored(r.store, w)
        /\ r.result # "Ok" =>
             \E i \in DOMAIN s : \/ s[i].scope.kind \notin ScopeKinds
                                 \/ s[i].scope.kind \in {"exact", "range"} /\ ~FromDer(s[i].scope.props["der"].value)
    BY <1>1, <2>1, <2>3, SavedRead
  <2>5. Stored(store', written')
    BY <1>1, <2>2, <2>3, <2>4
  <2>6. SavedStoresLoad'
    BY <2>2, <2>3, <2>4 DEF SavedStoresLoad
  <2> QED
    BY <2>5, <2>6 DEF StoreInv
<1>10. ASSUME NEW json \in Risks, LoadRisks(json) PROVE StoreInv'
  <2>1. PICK r : r = StoreFromRisks(json)
    OBVIOUS
  <2>2. PICK w : w = IF r.result # "Ok" THEN <<>> ELSE [i \in DOMAIN json.items |-> ParseRisk(json.items[i])]
    OBVIOUS
  <2>3. store' = r.store /\ written' = w /\ out'.op = "read"
    BY <1>10, <2>1, <2>2 DEF LoadRisks
  <2>4. Stored(r.store, w)
    BY <2>1, <2>2, FileRead
  <2> QED
    BY <2>3, <2>4 DEF StoreInv, SavedStoresLoad
<1>11. ASSUME NEW api, NEW chain, NEW kinds, NEW now, NEW raw, NEW done, RunOf(api, chain, kinds, now, raw, done)
       PROVE  StoreInv'
  BY <1>2, <1>11 DEF RunOf
<1>12. ASSUME NEW c \in Chains, NEW now \in Times, RunChain(c.certs, c.kinds, now) PROVE StoreInv'
  BY <1>11, <1>12 DEF RunChain
<1>13. ASSUME NEW c \in Chains, NEW now \in Times, RunWholePath(c.certs, now) PROVE StoreInv'
  BY <1>11, <1>13 DEF RunWholePath
<1>14. ASSUME NEW c \in Chains, c.certs # <<>>, RunCertAtIssuance(c.certs[1], c.kinds[1]) PROVE StoreInv'
  BY <1>11, <1>14 DEF RunCertAtIssuance
<1>15. CASE EmitReport
  BY <1>2, <1>15 DEF EmitReport
<1> QED
  BY <1>3, <1>4, <1>5, <1>6, <1>7, <1>8, <1>9, <1>10, <1>12, <1>13, <1>14, <1>15 DEF Next

-----------------------------------------------------------------------------
(* Deviations waive what they say and nothing else. *)

\* The first of the elements of S with the highest priority.
IsBest(i, S, pr) == i \in S /\ \A j \in S : pr[i] > pr[j] \/ (pr[i] = pr[j] /\ i <= j)

\* Among finitely many deviations one has the highest priority and is the first of those.
LEMMA BestExists ==
  ASSUME NEW N \in Nat, NEW S \in SUBSET (1 .. N), S # {}, NEW pr \in [S -> Int]
  PROVE  \E i : IsBest(i, S, pr)
<1> DEFINE Below(n) == {i \in S : i <= n}
           Y == {n \in 0 .. N : Below(n) # {} => \E i : IsBest(i, Below(n), pr)}
<1>0. \A i \in S : i \in Nat /\ 1 <= i /\ i <= N
  OBVIOUS
<1>1. 0 \in Y
  <2>1. Below(0) = {}
    <3> SUFFICES ASSUME NEW i \in S, i <= 0 PROVE FALSE
      OBVIOUS
    <3> QED
      BY <1>0
  <2> QED
    BY <2>1
<1>2. ASSUME NEW n \in 1 .. N, n - 1 \in Y PROVE n \in Y
  <2>1. CASE n \notin S
    <3>1. \A i \in S : i <= n <=> i <= n - 1
      BY <2>1
    <3>2. Below(n) = Below(n - 1)
      BY <3>1
    <3>3. Below(n) # {} => \E i : IsBest(i, Below(n), pr)
      BY <1>2, <3>2, Zenon
    <3> QED
      BY <3>3
  <2>2. CASE n \in S /\ Below(n - 1) = {}
    <3>1. \A i \in S : i <= n => i = n
      BY <2>2
    <3>2. IsBest(n, Below(n), pr)
      BY <2>2, <3>1 DEF IsBest
    <3> QED
      BY <3>2
  <2>3. CASE n \in S /\ Below(n - 1) # {}
    <3>1. PICK b : IsBest(b, Below(n - 1), pr)
      BY <1>2, <2>3
    <3>2. b \in S /\ b <= n /\ b < n /\ pr[b] \in Int /\ pr[n] \in Int
      BY <2>3, <3>1 DEF IsBest
    <3>3. \A i \in S : i <= n => i = n \/ i <= n - 1
      OBVIOUS
    <3>4. CASE pr[n] > pr[b]
      <4>1. \A j \in S : j <= n - 1 => pr[n] > pr[j]
        <5> SUFFICES ASSUME NEW j \in S, j <= n - 1 PROVE pr[n] > pr[j]
          OBVIOUS
        <5>1. pr[b] > pr[j] \/ pr[b] = pr[j]
          BY <3>1 DEF IsBest
        <5>2. pr[j] \in Int
          OBVIOUS
        <5> QED
          BY <3>2, <3>4, <5>1, <5>2
      <4>2. IsBest(n, Below(n), pr)
        BY <2>3, <3>3, <4>1 DEF IsBest
      <4> QED
        BY <4>2
    <3>5. CASE ~(pr[n] > pr[b])
      <4>1. pr[b] > pr[n] \/ (pr[b] = pr[n] /\ b <= n)
        BY <3>2, <3>5
      <4>2. IsBest(b, Below(n), pr)
        BY <3>1, <3>2, <3>3, <4>1 DEF IsBest
      <4> QED
        BY <4>2
    <3> QED
      BY <3>4, <3>5
  <2> QED
    BY <2>1, <2>2, <2>3
<1>3. N \in Y
  <2> HIDE DEF Y
  <2>1. 0 .. N \subseteq Y
    BY <1>1, <1>2, UpTo
  <2> QED
    BY <2>1
<1>4. Below(N) = S
  BY <1>0
<1> QED
  BY <1>3, <1>4

\* The deviation that is chosen has the highest priority, and is the first of those.
LEMMA BestIs ==
  ASSUME NEW N \in Nat, NEW S \in SUBSET (1 .. N), S # {}, NEW s, \A i \in S : s[i].priority \in Int
  PROVE  /\ Best(S, s) \in S
         /\ \A j \in S : s[j].priority <= s[Best(S, s)].priority
         /\ \A j \in S : s[j].priority = s[Best(S, s)].priority => Best(S, s) <= j
<1>1. PICK pr : pr = [i \in S |-> s[i].priority]
  OBVIOUS
<1>2. pr \in [S -> Int] /\ \A i \in S : pr[i] = s[i].priority
  BY <1>1
<1>3. PICK x : IsBest(x, S, pr)
  BY <1>2, BestExists
<1>4. x \in S /\ \A j \in S : s[x].priority > s[j].priority \/ (s[x].priority = s[j].priority /\ x <= j)
  BY <1>2, <1>3 DEF IsBest
<1>5. PICK b : b = Best(S, s)
  OBVIOUS
<1>6. b \in S /\ \A j \in S : s[b].priority > s[j].priority \/ (s[b].priority = s[j].priority /\ b <= j)
  BY <1>4, <1>5 DEF Best
<1>7. \A j \in S : pr[b] > pr[j] \/ (pr[b] = pr[j] /\ b <= j)
  BY <1>2, <1>6
<1>8. \A j \in S : pr[j] <= pr[b] /\ (pr[j] = pr[b] => b <= j)
  <2> SUFFICES ASSUME NEW j \in S PROVE pr[j] <= pr[b] /\ (pr[j] = pr[b] => b <= j)
    OBVIOUS
  <2>1. PICK u, v : u = pr[j] /\ v = pr[b]
    OBVIOUS
  <2>2. u \in Int /\ v \in Int
    BY <1>2, <1>6, <2>1
  <2>3. v > u \/ (v = u /\ b <= j)
    BY <1>7, <2>1
  <2>4. u <= v /\ (u = v => b <= j)
    BY <2>2, <2>3
  <2> QED
    BY <2>1, <2>4
<1> QED
  BY <1>2, <1>5, <1>6, <1>8

\* A stored deviation is in force when the one that was written is.
LEMMA ActiveIs ==
  ASSUME NEW s, NEW w, Entry(s, w), NEW now \in Nat
  PROVE  /\ IsActiveAt(s, now) <=> w.start <= now /\ (w.end = None \/ now < w.end)
         /\ IsActiveAt(s, now) => ~(s.end # None /\ now >= s.end)
<1>1. PICK a, b : a = s.start /\ b = s.end
  OBVIOUS
<1>2. a \in Times64 /\ b \in Times64 /\ w.start = a /\ w.end = b
  BY <1>1 DEF Entry, Storable
<1>3. \A x \in Times64 : x \in Int /\ (x = None => x <= now)
  BY DEF Times64, None
<1>4. IsActiveAt(s, now) <=> (a = None \/ now >= a) /\ (b = None \/ now < b)
  BY <1>1 DEF IsActiveAt
<1> QED
  BY <1>1, <1>2, <1>3, <1>4

\* What find_deviation chooses from: what waives the finding as it was written.
Matching(s, lint, certs, now) ==
  {i \in DOMAIN s : s[i].target = lint /\ \E c \in certs : AppliesTo(s[i], c, now)}
Intended(w, lint, certs, now) ==
  {k \in DOMAIN w : /\ w[k].target = lint
                    /\ w[k].start <= now /\ (w[k].end = None \/ now < w[k].end)
                    /\ \E c \in certs : Covers(w[k], c)}

\* The deviations in the store that match are the ones that were meant to.
LEMMA MatchingIs ==
  ASSUME NEW s, NEW w, Stored(s, w), NEW lint, NEW certs \in SUBSET Cert, NEW now \in Nat
  PROVE  Matching(s, lint, certs, now) = Intended(w, lint, certs, now)
<1>1. s \in Seq(ToSet(s)) /\ w \in Seq(ToSet(w)) /\ Len(w) = Len(s) /\ \A i \in DOMAIN s : Entry(s[i], w[i])
  BY DEF Stored
<1>2. DOMAIN s = DOMAIN w
  BY <1>1
<1>3. ASSUME NEW i \in DOMAIN s
      PROVE  (s[i].target = lint /\ \E c \in certs : AppliesTo(s[i], c, now))
               <=> /\ w[i].target = lint
                   /\ w[i].start <= now /\ (w[i].end = None \/ now < w[i].end)
                   /\ \E c \in certs : Covers(w[i], c)
  <2>1. PICK x, y : x = s[i] /\ y = w[i]
    OBVIOUS
  <2>2. Entry(x, y)
    BY <1>1, <2>1
  <2>3. IsActiveAt(x, now) <=> y.start <= now /\ (y.end = None \/ now < y.end)
    BY <2>2, ActiveIs
  <2>4. x.target = y.target /\ \A c \in Cert : ScopeMatches(x.scope, c) <=> Covers(y, c)
    BY <2>2 DEF Entry
  <2>5. \A c \in certs : AppliesTo(x, c, now) <=> IsActiveAt(x, now) /\ Covers(y, c)
    BY <2>4 DEF AppliesTo
  <2> QED
    BY <2>1, <2>3, <2>4, <2>5, Zenon
<1> QED
  BY <1>2, <1>3 DEF Matching, Intended

\* What a filter keeps.
LEMMA KeptHas ==
  ASSUME NEW T, NEW s \in Seq(T), NEW at
  PROVE  /\ Kept(s, at) \in Seq(T)
         /\ \A i \in DOMAIN s : i \in at => \E k \in DOMAIN Kept(s, at) : Kept(s, at)[k] = s[i]
         /\ \A k \in DOMAIN Kept(s, at) : \E i \in DOMAIN s : i \in at /\ Kept(s, at)[k] = s[i]
<1>1. PICK q : q = Kept(s, at)
  OBVIOUS
<1>2. q \in Seq(T)
  BY <1>1, KeptIs
<1>3. PICK p : Picked(p, s, at, Len(s), q)
  BY <1>1, KeptIs
<1>4. DOMAIN s = 1 .. Len(s) /\ DOMAIN q = 1 .. Len(q)
  BY <1>2
<1>5. \A i \in DOMAIN s : i \in at => \E k \in DOMAIN q : q[k] = s[i]
  BY <1>3, <1>4 DEF Picked
<1>6. \A k \in DOMAIN q : \E i \in DOMAIN s : i \in at /\ q[k] = s[i]
  BY <1>3, <1>4 DEF Picked
<1> QED
  BY <1>1, <1>2, <1>5, <1>6

\* The queries of the store.
LEMMA QueriesAre ==
  ASSUME NEW s, NEW w, Stored(s, w), NEW now \in Nat, NEW k \in DOMAIN s, IsActiveAt(s[k], now)
  PROVE  /\ \E n \in DOMAIN ActiveForLint(s, s[k].target, now) : ActiveForLint(s, s[k].target, now)[n].id = s[k].id
         /\ \A n \in DOMAIN ExpiredAt(s, now) : ExpiredAt(s, now)[n].id # s[k].id
<1>1. /\ s \in Seq(ToSet(s)) /\ \A i \in DOMAIN s : Entry(s[i], w[i])
      /\ \A i, j \in DOMAIN s : s[i].id = s[j].id => i = j
  BY DEF Stored
<1>2. PICK T : T = ToSet(s)
  OBVIOUS
<1>3. s \in Seq(T)
  BY <1>1, <1>2
<1>4. PICK at : at = {i \in DOMAIN s : IsActiveAt(s[i], now)}
  OBVIOUS
<1>5. PICK active : active = Kept(s, at)
  OBVIOUS
<1>6. active \in Seq(T) /\ \E m \in DOMAIN active : active[m] = s[k]
  <2>1. k \in at
    BY <1>4
  <2> QED
    BY <1>3, <1>5, <2>1, KeptHas
<1>7. PICK m \in DOMAIN active : active[m] = s[k]
  BY <1>6
<1>8. PICK mine : mine = {i \in DOMAIN active : active[i].target = s[k].target}
  OBVIOUS
<1>9. m \in mine
  BY <1>7, <1>8
<1>10. \E n \in DOMAIN Kept(active, mine) : Kept(active, mine)[n] = s[k]
  BY <1>6, <1>7, <1>9, KeptHas
<1>11. ActiveForLint(s, s[k].target, now) = Kept(active, mine)
  BY <1>4, <1>5, <1>8 DEF ActiveForLint, ActiveAt
<1>12. \E n \in DOMAIN ActiveForLint(s, s[k].target, now) : ActiveForLint(s, s[k].target, now)[n].id = s[k].id
  BY <1>10, <1>11
<1>13. PICK late : late = {i \in DOMAIN s : s[i].end # None /\ now >= s[i].end}
  OBVIOUS
<1>14. ExpiredAt(s, now) = Kept(s, late)
  BY <1>13 DEF ExpiredAt
<1>15. k \notin late
  <2>1. ~(s[k].end # None /\ now >= s[k].end)
    BY <1>1, ActiveIs
  <2> QED
    BY <1>13, <2>1
<1>16. ASSUME NEW n \in DOMAIN ExpiredAt(s, now), ExpiredAt(s, now)[n].id = s[k].id PROVE FALSE
  <2>1. PICK i \in DOMAIN s : i \in late /\ Kept(s, late)[n] = s[i]
    BY <1>3, <1>14, <1>16, KeptHas
  <2>2. s[i].id = s[k].id
    BY <1>14, <1>16, <2>1
  <2> QED
    BY <1>1, <1>15, <2>1, <2>2
<1> QED
  BY <1>12, <1>16

\* The choice among the deviations that waive a finding.
LEMMA FoundIs ==
  ASSUME Stored(store, written), NEW f, IsFinding(f), NEW run, About(run, f) \in SUBSET Cert, run.now \in Nat
  PROVE  LET n == Found(About(run, f), run.now, f)
             W == Waivers(run, f)
         IN  /\ W = {} => n = 0
             /\ W # {} => /\ n \in W /\ n # 0 /\ n \in DOMAIN store
                          /\ \A j \in W : written[j].priority <= written[n].priority
                          /\ \A j \in W : written[j].priority = written[n].priority => n <= j
                          /\ IsActiveAt(store[n], run.now)
<1>1. PICK s, w : s = store /\ w = written
  OBVIOUS
<1>2. /\ s \in Seq(ToSet(s)) /\ w \in Seq(ToSet(w)) /\ Len(w) = Len(s) /\ \A i \in DOMAIN s : Entry(s[i], w[i])
  BY <1>1 DEF Stored
<1>3. PICK N : N = Len(s)
  OBVIOUS
<1>4. N \in Nat /\ DOMAIN s = 1 .. N /\ DOMAIN w = 1 .. N
  BY <1>2, <1>3
<1>5. PICK certs, now, lint : certs = About(run, f) /\ now = run.now /\ lint = f.lint
  OBVIOUS
<1>6. PICK W : W = Waivers(run, f)
  OBVIOUS
<1>7. PICK S : S = Matching(s, lint, certs, now)
  OBVIOUS
<1>8. certs \in SUBSET Cert /\ now \in Nat
  BY <1>5
<1>9. S = W
  <2>1. Stored(s, w)
    BY <1>1
  <2>2. W = Intended(w, lint, certs, now)
    BY <1>1, <1>5, <1>6, Zenon DEF Waivers, Intended
  <2> QED
    BY <1>7, <1>8, <2>1, <2>2, MatchingIs
<1>10. PICK n : n = Found(certs, now, f)
  OBVIOUS
<1>11. n = IF S = {} THEN 0 ELSE Best(S, s)
  BY <1>1, <1>5, <1>7, <1>10, Zenon DEF Found, FindDeviation, Matching
<1>12. S \in SUBSET (1 .. N)
  BY <1>4, <1>7 DEF Matching
<1>13. \A i \in S : s[i].priority \in Int /\ w[i].priority = s[i].priority
  BY <1>2, <1>4, <1>12 DEF Entry, Storable
<1>14. ASSUME S # {}
       PROVE  /\ n \in S /\ n # 0 /\ n \in DOMAIN s
              /\ \A j \in S : w[j].priority <= w[n].priority
              /\ \A j \in S : w[j].priority = w[n].priority => n <= j
              /\ IsActiveAt(s[n], now)
  <2>1. n = Best(S, s)
    BY <1>11, <1>14
  <2>2. /\ n \in S /\ \A j \in S : s[j].priority <= s[n].priority
        /\ \A j \in S : s[j].priority = s[n].priority => n <= j
    BY <1>4, <1>12, <1>13, <1>14, <2>1, BestIs
  <2>3. n \in 1 .. N
    BY <1>12, <2>2
  <2>4. /\ \A j \in S : w[j].priority <= w[n].priority
        /\ \A j \in S : w[j].priority = w[n].priority => n <= j
    BY <1>13, <2>2
  <2>5. IsActiveAt(s[n], now)
    BY <1>7, <2>2 DEF AppliesTo, Matching
  <2>6. n # 0
    BY <1>4, <2>3
  <2> QED
    BY <1>4, <2>2, <2>3, <2>4, <2>5, <2>6
<1> QED
  BY <1>1, <1>5, <1>6, <1>9, <1>10, <1>11, <1>14, Zenon

\* A finding is about a certificate of the chain, or about all of them.
LEMMA AboutIs ==
  ASSUME NEW run, run.chain \in Seq(Cert), NEW f, f.index = None \/ f.index \in DOMAIN run.chain
  PROVE  About(run, f) \in SUBSET Cert
<1>1. PICK chain : chain = run.chain
  OBVIOUS
<1>2. \A i \in DOMAIN chain : chain[i] \in Cert
  BY <1>1
<1>3. ToSet(chain) \in SUBSET Cert
  BY <1>2 DEF ToSet
<1>4. f.index \in DOMAIN chain => {chain[f.index]} \in SUBSET Cert
  BY <1>2
<1> QED
  BY <1>1, <1>3, <1>4 DEF About

\* The names of the deviations of a finding in the report.
NamesOf(run, f) ==
  {run.deviated[k].deviation :
     k \in {n \in DOMAIN run.deviated : run.deviated[n].lint = f.lint /\ run.deviated[n].index = f.index}}

\* A finding that is waived names the deviation in the store that waives it, and no other finding
\* names one.
LEMMA NamesAre ==
  ASSUME NEW run, Ran(run), NEW i \in DOMAIN run.raw
  PROVE  IF IsWaived(run, run.raw[i])
           THEN NamesOf(run, run.raw[i]) = {store[Found(About(run, run.raw[i]), run.now, run.raw[i])].id}
           ELSE NamesOf(run, run.raw[i]) = {} /\ run.raw[i] \in ToSet(run.findings)
<1>1. PICK raw, dev : raw = run.raw /\ dev = run.deviated
  OBVIOUS
<1>2. /\ \A k, l \in DOMAIN raw : raw[k].index = raw[l].index /\ raw[k].lint = raw[l].lint => k = l
      /\ \A k \in DOMAIN raw :
           IF IsWaived(run, raw[k]) THEN \E n \in DOMAIN dev : dev[n] = Waived(About(run, raw[k]), run.now, raw[k])
                                    ELSE raw[k] \in ToSet(run.findings)
      /\ \A n \in DOMAIN dev : \E k \in DOMAIN raw :
           IsWaived(run, raw[k]) /\ dev[n] = Waived(About(run, raw[k]), run.now, raw[k])
  BY <1>1, Zenon DEF Ran, Parted
<1>3. \A f, certs, now : LET v == Waived(certs, now, f)
                         IN  v.lint = f.lint /\ v.index = f.index /\ v.deviation = store[Found(certs, now, f)].id
  BY DEF Waived, MakeDeviated
<1>4. PICK f, id : f = raw[i] /\ id = store[Found(About(run, f), run.now, f)].id
  OBVIOUS
<1>5. PICK D : D = {n \in DOMAIN dev : dev[n].lint = f.lint /\ dev[n].index = f.index}
  OBVIOUS
<1>6. NamesOf(run, f) = {dev[k].deviation : k \in D}
  BY <1>1, <1>5 DEF NamesOf
<1>7. \A n \in D : IsWaived(run, f) /\ dev[n].deviation = id
  <2> SUFFICES ASSUME NEW n \in D PROVE IsWaived(run, f) /\ dev[n].deviation = id
    OBVIOUS
  <2>1. PICK k \in DOMAIN raw : IsWaived(run, raw[k]) /\ dev[n] = Waived(About(run, raw[k]), run.now, raw[k])
    BY <1>2, <1>5
  <2>2. PICK g : g = raw[k]
    OBVIOUS
  <2>3. dev[n].lint = g.lint /\ dev[n].index = g.index
        /\ dev[n].deviation = store[Found(About(run, g), run.now, g)].id
    BY <1>3, <2>1, <2>2
  <2>4. g.lint = f.lint /\ g.index = f.index
    BY <1>5, <2>3
  <2>5. k = i
    BY <1>1, <1>2, <1>4, <2>2, <2>4
  <2>6. g = f
    BY <1>4, <2>2, <2>5
  <2> QED
    BY <1>4, <2>1, <2>2, <2>3, <2>6
<1>8. CASE IsWaived(run, f)
  <2>1. PICK n \in DOMAIN dev : dev[n] = Waived(About(run, f), run.now, f)
    BY <1>1, <1>2, <1>4, <1>8
  <2>2. n \in D
    BY <1>3, <1>5, <2>1
  <2>3. NamesOf(run, f) = {id}
    BY <1>6, <1>7, <2>2
  <2> QED
    BY <1>1, <1>4, <1>8, <2>3, Zenon
<1>9. CASE ~IsWaived(run, f)
  <2>1. NamesOf(run, f) = {}
    BY <1>6, <1>7, <1>9
  <2>2. f \in ToSet(run.findings)
    BY <1>1, <1>2, <1>4, <1>9
  <2> QED
    BY <1>1, <1>4, <1>9, <2>1, <2>2, Zenon
<1> QED
  BY <1>8, <1>9

\* If runs are exact and the store holds what was written, a finding is waived by the deviation
\* meant for it and by no other.
LEMMA DeviationsThen == RunsAreExact /\ StoreInv => DeviationsAreExact
<1> SUFFICES ASSUME RunsAreExact, StoreInv, out.op = "run", NEW i \in DOMAIN out.raw
             PROVE  LET f == out.raw[i]
                        W == Waivers(out, f)
                        named == NamesOf(out, f)
                    IN  IF IsFinding(f) /\ W # {}
                          THEN \E k \in W :
                                 /\ named = {written[k].id}
                                 /\ \A j \in W : written[j].priority <= written[k].priority
                                 /\ \A j \in W : written[j].priority = written[k].priority => k <= j
                                 /\ \E n \in DOMAIN ActiveForLint(store, f.lint, out.now) :
                                      ActiveForLint(store, f.lint, out.now)[n].id = written[k].id
                                 /\ \A n \in DOMAIN ExpiredAt(store, out.now) :
                                      ExpiredAt(store, out.now)[n].id # written[k].id
                          ELSE named = {} /\ f \in ToSet(out.findings)
  BY Zenon DEF DeviationsAreExact, NamesOf
<1>1. Ran(out) /\ Stored(store, written)
  BY DEF RunsAreExact, StoreInv
<1>2. PICK f, W, n : f = out.raw[i] /\ W = Waivers(out, f) /\ n = Found(About(out, f), out.now, f)
  OBVIOUS
<1>3. About(out, f) \in SUBSET Cert /\ out.now \in Nat
  BY <1>1, <1>2, AboutIs DEF Ran
<1>4. IF n # 0 THEN NamesOf(out, f) = {store[n].id} ELSE NamesOf(out, f) = {} /\ f \in ToSet(out.findings)
  BY <1>1, <1>2, NamesAre DEF IsWaived
<1>5. CASE IsFinding(f) /\ W # {}
  <2>1. /\ n \in W /\ n # 0 /\ n \in DOMAIN store
        /\ \A j \in W : written[j].priority <= written[n].priority
        /\ \A j \in W : written[j].priority = written[n].priority => n <= j
        /\ IsActiveAt(store[n], out.now)
    BY <1>1, <1>2, <1>3, <1>5, FoundIs
  <2>2. Entry(store[n], written[n])
    BY <1>1, <2>1 DEF Stored
  <2>3. store[n].id = written[n].id /\ store[n].target = written[n].target
    BY <2>2 DEF Entry
  <2>4. written[n].target = f.lint
    BY <1>2, <2>1 DEF Waivers
  <2>5. /\ \E k \in DOMAIN ActiveForLint(store, store[n].target, out.now) :
             ActiveForLint(store, store[n].target, out.now)[k].id = store[n].id
        /\ \A k \in DOMAIN ExpiredAt(store, out.now) : ExpiredAt(store, out.now)[k].id # store[n].id
    BY <1>1, <1>3, <2>1, QueriesAre
  <2>6. /\ \E k \in DOMAIN ActiveForLint(store, f.lint, out.now) :
             ActiveForLint(store, f.lint, out.now)[k].id = written[n].id
        /\ \A k \in DOMAIN ExpiredAt(store, out.now) : ExpiredAt(store, out.now)[k].id # written[n].id
    BY <2>3, <2>4, <2>5
  <2>7. NamesOf(out, f) = {written[n].id}
    BY <1>4, <2>1, <2>3
  <2> QED
    BY <1>2, <1>5, <2>1, <2>6, <2>7
<1>6. CASE ~(IsFinding(f) /\ W # {})
  <2>1. n = 0
    <3>1. CASE ~IsFinding(f)
      BY <1>2, <3>1, Zenon DEF Found
    <3>2. CASE IsFinding(f) /\ W = {}
      BY <1>1, <1>2, <1>3, <3>2, FoundIs
    <3> QED
      BY <1>6, <3>1, <3>2
  <2> QED
    BY <1>2, <1>4, <1>6, <2>1, Zenon
<1> QED
  BY <1>5, <1>6

-----------------------------------------------------------------------------
(* Overrides as a whole, and a runner from its own catalog. *)

\* A name that starts with another is that one and the rest.
LEMMA SplitAt ==
  ASSUME NEW a \in Dotted, NEW b \in Dotted, IsStrictPrefix(a, b)
  PROVE  b = a \o SubSeq(b, Len(a) + 1, Len(b))
<1>1. PICK m \in Nat, n \in Nat : m = Len(a) /\ n = Len(b)
  BY DEF Dotted
<1>2. m <= n /\ SubSeq(a, 1, m) = SubSeq(b, 1, m)
  BY <1>1, Zenon DEF IsStrictPrefix, IsPrefix
<1>3. \A i \in 1 .. m : a[i] = b[i]
  <2> SUFFICES ASSUME NEW i \in 1 .. m PROVE a[i] = b[i]
    OBVIOUS
  <2>1. SubSeq(a, 1, m)[i] = a[i]
    BY <1>1 DEF Dotted
  <2>2. SubSeq(b, 1, m)[i] = b[i]
    BY <1>1, <1>2 DEF Dotted
  <2> QED
    BY <1>2, <2>1, <2>2
<1>4. PICK c : c = SubSeq(b, m + 1, n)
  OBVIOUS
<1>5. c \in Dotted /\ Len(c) = n - m /\ \A i \in 1 .. n - m : c[i] = b[m + i]
  BY <1>1, <1>2, <1>4 DEF Dotted
<1>6. PICK d : d = a \o c
  OBVIOUS
<1>7. /\ d \in Dotted /\ Len(d) = n
      /\ \A i \in 1 .. m : d[i] = a[i]
  <2>1. a \in Seq(STRING) /\ c \in Seq(STRING)
    BY <1>5 DEF Dotted
  <2>2. /\ a \o c \in Seq(STRING) /\ Len(a \o c) = Len(a) + Len(c)
        /\ \A i \in 1 .. Len(a) : (a \o c)[i] = a[i]
    BY <2>1, Concatenated
  <2>3. m + (n - m) = n
    OBVIOUS
  <2> QED
    BY <1>1, <1>5, <1>6, <2>2, <2>3, Zenon DEF Dotted
<1>8. \A i \in 1 .. n : d[i] = b[i]
  <2> SUFFICES ASSUME NEW i \in 1 .. n PROVE d[i] = b[i]
    OBVIOUS
  <2>1. CASE i <= m
    BY <1>3, <1>7, <2>1
  <2>2. CASE ~(i <= m)
    <3>1. i - m \in 1 .. n - m /\ m + (i - m) = i
      BY <1>1, <2>2
    <3>2. PICK j : j = i - m
      OBVIOUS
    <3>3. j \in 1 .. n - m /\ m + j = i
      BY <3>1, <3>2
    <3>4. c[j] = b[i]
      BY <1>5, <3>3
    <3>5. d[m + j] = c[j]
      <4>1. \A x \in 1 .. Len(c) : (a \o c)[Len(a) + x] = c[x]
        BY <1>5, Concatenated DEF Dotted
      <4>2. j \in 1 .. Len(c)
        BY <1>5, <3>3
      <4> QED
        BY <1>1, <1>6, <4>1, <4>2
    <3> QED
      BY <3>3, <3>4, <3>5
  <2> QED
    BY <2>1, <2>2
<1>9. d = b
  <2>1. d \in Seq(STRING) /\ b \in Seq(STRING)
    BY <1>7 DEF Dotted
  <2> QED
    BY <1>1, <1>7, <1>8, <2>1
<1> QED
  BY <1>1, <1>4, <1>6, <1>9

\* An override sets a parameter of its owner: its name is the owner's id and
\* the name of the parameter.
LEMMA NameIs ==
  ASSUME NEW old, IsRunner(old), NEW param \in Dotted, OwnerOf(old, param) # 0
  PROVE  /\ OwnerOf(old, param) \in DOMAIN old
         /\ param = old[OwnerOf(old, param)].id \o Unqualified(old, param)
         /\ \A j \in DOMAIN old : IsStrictPrefix(old[j].id, param) => Len(old[j].id) <= Len(old[OwnerOf(old, param)].id)
<1>1. PICK o : o = OwnerOf(old, param)
  OBVIOUS
<1>2. /\ o \in DOMAIN old /\ IsStrictPrefix(old[o].id, param)
      /\ \A j \in DOMAIN old : IsStrictPrefix(old[j].id, param) => Len(old[j].id) <= Len(old[o].id)
  BY <1>1, OwnerIs
<1>3. PICK id : id = old[o].id
  OBVIOUS
<1>4. id \in Dotted
  BY <1>2, <1>3 DEF IsRunner, RunnerLints
<1>5. param = id \o SubSeq(param, Len(id) + 1, Len(param))
  BY <1>2, <1>3, <1>4, SplitAt
<1>6. Unqualified(old, param) = SubSeq(param, Len(id) + 1, Len(param))
  BY <1>1, <1>3 DEF Unqualified
<1> QED
  BY <1>1, <1>2, <1>3, <1>5, <1>6, Zenon

\* The last of the overrides that a profile states itself wins.
WinsFor(old, overrides, m, param) ==
  LET S == Setters(old, overrides, Len(overrides), OwnerOf(old, param), Unqualified(old, param))
  IN  m \in S /\ \A n \in S : n <= m

\* The last value that a profile of its own sets a parameter to is the last of all overrides.
LEMMA LastWins ==
  ASSUME NEW old, IsRunner(old), NEW imported \in Seq(AnOverride), NEW own \in Seq(AnOverride),
         NEW overrides, overrides = imported \o own,
         \A n \in DOMAIN overrides : OwnerOf(old, overrides[n].param) # 0,
         NEW k \in DOMAIN own, \A j \in DOMAIN own : k < j => own[j].param # own[k].param
  PROVE  /\ Len(imported) + k \in DOMAIN overrides /\ overrides[Len(imported) + k] = own[k]
         /\ WinsFor(old, overrides, Len(imported) + k, own[k].param)
<1>1. PICK p \in Nat, q \in Nat, L \in Nat : p = Len(imported) /\ q = Len(own) /\ L = Len(overrides)
  BY Concatenated
<1>2. /\ overrides \in Seq(AnOverride) /\ L = p + q
      /\ \A i \in 1 .. q : overrides[p + i] = own[i]
  BY <1>1, Concatenated
<1>3. DOMAIN own = 1 .. q /\ DOMAIN overrides = 1 .. L
  BY <1>1, <1>2
<1>4. PICK m : m = p + k
  OBVIOUS
<1>5. m \in 1 .. L /\ overrides[m] = own[k]
  BY <1>2, <1>3, <1>4
<1>6. PICK param, o, name : param = own[k].param /\ o = OwnerOf(old, param) /\ name = Unqualified(old, param)
  OBVIOUS
<1>7. PICK S : S = Setters(old, overrides, L, o, name)
  OBVIOUS
<1>8. m \in S
  BY <1>5, <1>6, <1>7 DEF Setters
<1>9. param \in Dotted /\ \A n \in 1 .. L : overrides[n].param \in Dotted
  <2>1. \A x \in AnOverride : x.param \in Dotted
    BY DEF AnOverride
  <2>2. own[k] \in AnOverride /\ \A n \in 1 .. L : overrides[n] \in AnOverride
    BY <1>2, <1>3
  <2> QED
    BY <1>6, <2>1, <2>2
<1>10. param = old[o].id \o name
  <2>1. OwnerOf(old, param) # 0
    BY <1>3, <1>5, <1>6
  <2> QED
    BY <1>6, <1>9, <2>1, NameIs
<1>11. ASSUME NEW n \in S, ~(n <= m) PROVE FALSE
  <2>1. n \in 1 .. L /\ OwnerOf(old, overrides[n].param) = o /\ Unqualified(old, overrides[n].param) = name
    BY <1>7 DEF Setters
  <2>2. OwnerOf(old, overrides[n].param) # 0
    BY <1>3, <2>1
  <2>3. overrides[n].param = old[o].id \o name
    <3>1. PICK x : x = overrides[n].param
      OBVIOUS
    <3>2. x \in Dotted /\ OwnerOf(old, x) = o /\ OwnerOf(old, x) # 0 /\ Unqualified(old, x) = name
      BY <1>9, <2>1, <2>2, <3>1
    <3>3. x = old[OwnerOf(old, x)].id \o Unqualified(old, x)
      BY <3>2, NameIs
    <3> QED
      BY <3>1, <3>2, <3>3, Zenon
  <2>4. PICK j : j = n - p
    OBVIOUS
  <2>5. j \in 1 .. q /\ n = p + j /\ k < j
    BY <1>2, <1>3, <1>4, <1>11, <2>1, <2>4
  <2>6. overrides[n] = own[j]
    BY <1>2, <2>5
  <2>7. own[j].param = own[k].param
    BY <1>6, <1>10, <2>3, <2>6
  <2> QED
    BY <1>3, <2>5, <2>7
<1>12. \A n \in S : n <= m
  BY <1>11
<1> QED
  BY <1>1, <1>3, <1>4, <1>5, <1>6, <1>7, <1>8, <1>12, Zenon DEF WinsFor

\* A call of apply_parameter_overrides sets every parameter the profile sets, or none.
LEMMA OverrideExact ==
  ASSUME Composed, Override
  PROVE  OverridesAreAtomic'
<1>1. PICK old, overrides, p : old = lints /\ overrides = plan.overrides /\ p = plan.profile
  OBVIOUS
<1>2. PICK r : r = ApplyParameterOverrides(old, overrides)
  OBVIOUS
<1>3. /\ lints' = r.lints
      /\ plan' = [plan EXCEPT !.at = IF r.result = "Ok" THEN "applied" ELSE "failed"]
      /\ out' = [op |-> "override", result |-> r.result, before |-> old]
  BY <1>1, <1>2 DEF Override
<1>4. /\ plan = [at |-> plan.at, profile |-> p, ids |-> plan.ids, overrides |-> overrides]
      /\ overrides \in Seq(AnOverride)
      /\ p.modify.form = "array" =>
           \E imported \in Seq(AnOverride) :
             OwnOverrides(p) \in Seq(AnOverride) /\ overrides = imported \o OwnOverrides(p)
  BY <1>1 DEF Composed, PlanIs, Override
<1>5. plan'.profile = p /\ plan'.overrides = overrides
  BY <1>3, <1>4
<1>6. out'.op = "override" /\ out'.result = r.result /\ out'.before = old
  BY <1>3
<1>7. IsRunner(old)
  BY <1>1 DEF Composed
<1>8. PICK L \in Nat : L = Len(overrides) /\ DOMAIN overrides = 1 .. L
  BY <1>4
<1>9. /\ r.result # "Ok" => r.lints = old
      /\ r.result = "Ok" =>
           /\ DOMAIN r.lints = DOMAIN old
           /\ \A i \in DOMAIN old : r.lints[i].id = old[i].id /\ r.lints[i].params = old[i].params
           /\ \A n \in DOMAIN overrides :
                /\ OwnerOf(old, overrides[n].param) # 0
                /\ Unqualified(old, overrides[n].param) \in old[OwnerOf(old, overrides[n].param)].params
           /\ \A i \in DOMAIN old : \A name \in old[i].params :
                LET S == Setters(old, overrides, L, i, name)
                IN  /\ S = {} => r.lints[i].values[name] = old[i].values[name]
                    /\ \A m \in S : (\A k \in S : k <= m) => r.lints[i].values[name] = overrides[m].value
  <2>1. Applied(old, overrides, r)
    BY <1>2, <1>4, <1>7, OverridesIs
  <2>2. IsRunner(r.lints) /\ (r.result # "Ok" => r.lints = old)
    BY <2>1, Zenon DEF Applied
  <2>3. ASSUME r.result = "Ok"
        PROVE  /\ DOMAIN r.lints = DOMAIN old
               /\ \A i \in DOMAIN old : r.lints[i].id = old[i].id /\ r.lints[i].params = old[i].params
               /\ \A n \in DOMAIN overrides :
                    /\ OwnerOf(old, overrides[n].param) # 0
                    /\ Unqualified(old, overrides[n].param) \in old[OwnerOf(old, overrides[n].param)].params
    BY <2>1, <2>3, Zenon DEF Applied
  <2>4. ASSUME r.result = "Ok", NEW i \in DOMAIN old, NEW name \in old[i].params
        PROVE  LET S == Setters(old, overrides, L, i, name)
               IN  /\ S = {} => r.lints[i].values[name] = old[i].values[name]
                   /\ \A m \in S : (\A k \in S : k <= m) => r.lints[i].values[name] = overrides[m].value
    <3>1. LET S == Setters(old, overrides, Len(overrides), i, name)
          IN  /\ S = {} => r.lints[i].values[name] = old[i].values[name]
              /\ \A m \in S : (\A k \in S : k <= m) => r.lints[i].values[name] = overrides[m].value
      BY <2>1, <2>4, Zenon DEF Applied
    <3>2. L = Len(overrides)
      BY <1>8
    <3> QED
      BY <3>1, <3>2, Zenon
  <2> QED
    BY <2>2, <2>3, <2>4, Zenon
<1>10. PICK new : new = r.lints
  OBVIOUS
<1>11. CASE r.result # "Ok"
  <2>1. lints' = out'.before
    BY <1>3, <1>6, <1>9, <1>11
  <2> QED
    BY <1>6, <1>11, <2>1 DEF OverridesAreAtomic
<1>12. CASE r.result = "Ok"
  <2>1. /\ DOMAIN new = DOMAIN old
        /\ \A i \in DOMAIN old : new[i].id = old[i].id /\ new[i].params = old[i].params
    BY <1>9, <1>10, <1>12
  <2>2. \A n \in 1 .. L : /\ OwnerOf(old, overrides[n].param) # 0
                          /\ Unqualified(old, overrides[n].param) \in old[OwnerOf(old, overrides[n].param)].params
    BY <1>8, <1>9, <1>12
  <2>3. ASSUME p.modify.form = "array", NEW k \in DOMAIN p.modify.items,
               \A j \in DOMAIN p.modify.items : k < j => p.modify.items[j].id # p.modify.items[k].id
        PROVE  \E i \in DOMAIN new : \E name \in new[i].params :
                 /\ p.modify.items[k].id = new[i].id \o name
                 /\ new[i].values[name] = p.modify.items[k].values
                 /\ \A j \in DOMAIN new : IsStrictPrefix(new[j].id, p.modify.items[k].id) =>
                      Len(new[j].id) <= Len(new[i].id)
    <3>1. PICK imported \in Seq(AnOverride) :
            OwnOverrides(p) \in Seq(AnOverride) /\ overrides = imported \o OwnOverrides(p)
      BY <1>4, <2>3
    <3>2. PICK own : own = OwnOverrides(p)
      OBVIOUS
    <3>3. DOMAIN own = DOMAIN p.modify.items /\ \A j \in DOMAIN own : own[j].param = p.modify.items[j].id
      BY <3>2 DEF OwnOverrides
    <3>4. own[k].value = p.modify.items[k].values
      BY <2>3, <3>2 DEF OwnOverrides
    <3>5. own \in Seq(AnOverride) /\ overrides = imported \o own /\ k \in DOMAIN own
      BY <2>3, <3>1, <3>2, <3>3
    <3>6. \A j \in DOMAIN own : k < j => own[j].param # own[k].param
      BY <2>3, <3>3
    <3>7. \A n \in DOMAIN overrides : OwnerOf(old, overrides[n].param) # 0
      BY <1>8, <2>2
    <3>8. PICK param, o, name : param = own[k].param /\ o = OwnerOf(old, param) /\ name = Unqualified(old, param)
      OBVIOUS
    <3>9. PICK S : S = Setters(old, overrides, L, o, name)
      OBVIOUS
    <3>10. PICK m : m = Len(imported) + k
      OBVIOUS
    <3>11. m \in 1 .. L /\ overrides[m] = own[k] /\ m \in S /\ \A n \in S : n <= m
      <4>1. /\ Len(imported) + k \in DOMAIN overrides /\ overrides[Len(imported) + k] = own[k]
            /\ WinsFor(old, overrides, Len(imported) + k, own[k].param)
        BY <1>7, <3>1, <3>5, <3>6, <3>7, LastWins, Zenon
      <4> QED
        BY <1>8, <3>8, <3>9, <3>10, <4>1, Zenon DEF WinsFor
    <3>12. o # 0 /\ name \in old[o].params
      BY <2>2, <3>8, <3>11
    <3>13. param \in Dotted
      <4>1. \A x \in AnOverride : x.param \in Dotted
        BY DEF AnOverride
      <4> QED
        BY <3>5, <3>8, <4>1
    <3>14. /\ o \in DOMAIN old /\ param = old[o].id \o name
           /\ \A j \in DOMAIN old : IsStrictPrefix(old[j].id, param) => Len(old[j].id) <= Len(old[o].id)
      BY <1>7, <3>8, <3>12, <3>13, NameIs
    <3>15. new[o].values[name] = overrides[m].value
      BY <1>9, <1>10, <1>12, <3>9, <3>11, <3>12, <3>14
    <3>16. new[o].values[name] = p.modify.items[k].values /\ param = p.modify.items[k].id
      BY <3>3, <3>4, <3>5, <3>8, <3>11, <3>15
    <3>17. /\ o \in DOMAIN new /\ name \in new[o].params /\ param = new[o].id \o name
           /\ \A j \in DOMAIN new : IsStrictPrefix(new[j].id, param) => Len(new[j].id) <= Len(new[o].id)
      BY <2>1, <3>12, <3>14, Zenon
    <3> QED
      BY <3>16, <3>17, Zenon
  <2>4. ASSUME NEW i \in DOMAIN new, NEW name \in new[i].params, new[i].values[name] # old[i].values[name]
        PROVE  \E n \in DOMAIN overrides :
                 overrides[n].param = new[i].id \o name /\ overrides[n].value = new[i].values[name]
    <3>1. PICK S : S = Setters(old, overrides, L, i, name)
      OBVIOUS
    <3>2. i \in DOMAIN old /\ name \in old[i].params
      BY <2>1, <2>4
    <3>3. /\ S = {} => new[i].values[name] = old[i].values[name]
          /\ \A m \in S : (\A k \in S : k <= m) => new[i].values[name] = overrides[m].value
      BY <1>9, <1>10, <1>12, <3>1, <3>2
    <3>4. S # {} /\ S \in SUBSET (0 .. L)
      BY <2>4, <3>1, <3>3 DEF Setters
    <3>5. PICK m \in S : \A k \in S : k <= m
      BY <3>4, GreatestNumber
    <3>6. m \in 1 .. L /\ OwnerOf(old, overrides[m].param) = i /\ Unqualified(old, overrides[m].param) = name
      BY <3>1 DEF Setters
    <3>7. PICK param : param = overrides[m].param
      OBVIOUS
    <3>8. param \in Dotted
      <4>1. \A x \in AnOverride : x.param \in Dotted
        BY DEF AnOverride
      <4>2. overrides[m] \in AnOverride
        BY <1>4, <1>8, <3>6
      <4> QED
        BY <3>7, <4>1, <4>2
    <3>9. OwnerOf(old, param) # 0
      BY <2>2, <3>6, <3>7
    <3>10. param = old[i].id \o name
      <4>1. param = old[OwnerOf(old, param)].id \o Unqualified(old, param)
        BY <1>7, <3>8, <3>9, NameIs
      <4> QED
        BY <3>6, <3>7, <4>1, Zenon
    <3>11. new[i].id = old[i].id /\ m \in DOMAIN overrides /\ new[i].values[name] = overrides[m].value
      BY <1>8, <2>1, <3>2, <3>3, <3>5, <3>6
    <3> QED
      BY <3>7, <3>10, <3>11, Zenon
  <2>5. lints' = new
    BY <1>3, <1>10
  <2> QED
    BY <1>5, <1>6, <1>12, <2>3, <2>4, <2>5, Zenon DEF OverridesAreAtomic
<1> QED
  BY <1>11, <1>12

\* A runner composed from the catalog of its lints has the same lints in the same order.
LEMMA CatalogExact ==
  ASSUME Composed, ReloadCatalog
  PROVE  CatalogIsFaithful'
<1>1. PICK old, ids : old = lints /\ ids = LintIdsFromCatalog(CatalogFromLints(old))
  OBVIOUS
<1>2. PICK r : r = FilterToIds(old, ids)
  OBVIOUS
<1>3. lints' = r.lints /\ out'.op = "catalog" /\ out'.result = r.result /\ out'.before = old
  BY <1>1, <1>2 DEF ReloadCatalog
<1>4. IsRunner(old)
  BY <1>1 DEF Composed
<1>5. ids \in Seq(Dotted) /\ DOMAIN ids = DOMAIN old /\ \A i \in DOMAIN old : ids[i] = old[i].id
  BY <1>1, <1>4, OwnIds
<1>6. PICK L \in Nat : L = Len(ids) /\ DOMAIN ids = 1 .. L
  BY <1>5
<1>7. \A i, j \in DOMAIN ids : ids[i] = ids[j] => i = j
  BY <1>4, <1>5 DEF IsRunner, Unique
<1>8. Fresh(ids, {}) = ids
  <2>1. PICK at : at = {i \in DOMAIN ids : ids[i] \notin {} /\ \A j \in 1..(i - 1) : ids[j] # ids[i]}
    OBVIOUS
  <2>2. \A i \in DOMAIN ids : \A j \in 1 .. (i - 1) : j \in DOMAIN ids /\ j # i
    BY <1>6
  <2>3. \A i \in DOMAIN ids : i \in at
    BY <1>7, <2>1, <2>2
  <2>4. Kept(ids, at) = ids
    BY <1>5, <2>3, KeptAll
  <2> QED
    BY <2>1, <2>4 DEF Fresh
<1>9. /\ IsRunner(r.lints)
      /\ r.result = "Ok" <=> \A i \in DOMAIN ids : \E j \in DOMAIN old : old[j].id = ids[i]
      /\ r.result = "Ok" => /\ DOMAIN r.lints = DOMAIN Fresh(ids, {})
                            /\ \A i \in DOMAIN r.lints : /\ r.lints[i] \in ToSet(old)
                                                         /\ r.lints[i].id = Fresh(ids, {})[i]
  BY <1>2, <1>4, <1>5, FilterIs
<1>10. r.result = "Ok"
  BY <1>5, <1>9
<1>11. PICK new : new = r.lints
  OBVIOUS
<1>12. DOMAIN new = DOMAIN old /\ \A i \in DOMAIN old : new[i] \in ToSet(old) /\ new[i].id = old[i].id
  BY <1>5, <1>8, <1>9, <1>10, <1>11
<1>13. \A i \in DOMAIN old : new[i] = old[i]
  <2> SUFFICES ASSUME NEW i \in DOMAIN old PROVE new[i] = old[i]
    OBVIOUS
  <2>1. PICK j \in DOMAIN old : new[i] = old[j]
    BY <1>12 DEF ToSet
  <2>2. old[j].id = old[i].id
    BY <1>12, <2>1
  <2> QED
    BY <1>4, <2>1, <2>2 DEF IsRunner, Unique
<1>14. new = old
  <2>1. new \in Seq(RunnerLints) /\ old \in Seq(RunnerLints)
    BY <1>4, <1>9, <1>11 DEF IsRunner
  <2> QED
    BY <1>12, <1>13, <2>1
<1> QED
  BY <1>3, <1>10, <1>11, <1>14 DEF CatalogIsFaithful

-----------------------------------------------------------------------------
(* Profiles that are reached, and the ones on a cycle. *)

\* Sets that only grow, in a finite set, have stopped growing in time.
Grows(D, N, G, s) ==
  /\ IsFiniteSet(D) /\ N \in Nat /\ N = Cardinality(D)
  /\ G \in [SUBSET D -> SUBSET D] /\ \A X \in SUBSET D : X \subseteq G[X]
  /\ s \in [0 .. N -> SUBSET D] /\ \A n \in 1 .. N : s[n] = G[s[n - 1]]

\* Sets that only grow, in a finite set of N elements, have stopped growing after N steps.
LEMMA GrowsToStop ==
  ASSUME NEW D, NEW N, NEW G, NEW s, Grows(D, N, G, s)
  PROVE  G[s[N]] = s[N]
<1> USE DEF Grows
<1> DEFINE Y == {n \in 0 .. N : G[s[n]] = s[n] \/ Cardinality(s[n]) >= n}
<1>1. \A X \in SUBSET D : IsFiniteSet(X) /\ Cardinality(X) \in Nat
  BY FS_Subset, FS_CardinalityType
<1>2. 0 \in Y
  <2>1. s[0] \in SUBSET D
    OBVIOUS
  <2>2. Cardinality(s[0]) >= 0
    BY <1>1, <2>1
  <2> QED
    BY <2>2
<1>3. ASSUME NEW n \in 1 .. N, n - 1 \in Y PROVE n \in Y
  <2>1. n \in 0 .. N /\ n - 1 \in 0 .. N
    OBVIOUS
  <2>2. PICK a, b : a = s[n - 1] /\ b = s[n]
    OBVIOUS
  <2>3. a \in SUBSET D /\ b \in SUBSET D /\ b = G[a] /\ a \subseteq b
    BY <2>1, <2>2
  <2>4. PICK x \in Nat, y \in Nat : x = Cardinality(a) /\ y = Cardinality(b)
    BY <1>1, <2>3
  <2>5. x <= y /\ (x = y => a = b)
    BY <1>1, <2>3, <2>4, FS_Subset
  <2>6. G[a] = a \/ x >= n - 1
    BY <1>3, <2>2, <2>4
  <2>7. G[b] = b \/ y >= n
    <3>1. CASE a = b
      BY <2>3, <3>1
    <3>2. CASE a # b
      <4>1. x >= n - 1
        BY <2>3, <2>6, <3>2, Zenon
      <4>2. x # y /\ x <= y
        BY <2>5, <3>2, Zenon
      <4> QED
        BY <4>1, <4>2
    <3> QED
      BY <3>1, <3>2
  <2> QED
    BY <2>1, <2>2, <2>4, <2>7
<1>4. N \in Y
  <2> HIDE DEF Y
  <2>1. 0 .. N \subseteq Y
    BY <1>2, <1>3, UpTo
  <2> QED
    BY <2>1
<1>5. PICK x : x = s[N]
  OBVIOUS
<1>6. x \in SUBSET D /\ (G[x] = x \/ Cardinality(x) >= N)
  BY <1>4, <1>5
<1>7. CASE Cardinality(x) >= N
  <2>1. PICK c \in Nat : c = Cardinality(x)
    BY <1>1, <1>6
  <2>2. c <= N
    BY <1>6, <2>1, FS_Subset
  <2>3. Cardinality(x) = Cardinality(D)
    BY <1>7, <2>1, <2>2
  <2>4. x = D
    BY <1>6, <2>3, FS_Subset
  <2>5. G[x] \in SUBSET D /\ x \subseteq G[x]
    BY <1>6
  <2> QED
    BY <1>5, <2>4, <2>5
<1> QED
  BY <1>5, <1>6, <1>7

\* The profiles a set of hrefs leads to: the least set with the profiles among
\* them that has with every profile the ones that it imports.
Followed(X) == {h \in UNION {Imports(Sources[g]) : g \in X} : IsProfile(h)}
Closed(X) == Followed(X) \subseteq X
Leads(hrefs, X) == {h \in hrefs : IsProfile(h)} \subseteq X /\ Closed(X)
Steps(hrefs, f) ==
  f = [n \in 0 .. Cardinality(DOMAIN Sources) |->
         IF n = 0 THEN {h \in hrefs : IsProfile(h)} ELSE f[n - 1] \cup Followed(f[n - 1])]

\* What is reached by imports is the smallest set that holds the imports and their imports.
LEMMA ReachedIs ==
  ASSUME NEW hrefs
  PROVE  /\ Reached(hrefs) \in SUBSET DOMAIN Sources
         /\ Leads(hrefs, Reached(hrefs))
         /\ \A X : Leads(hrefs, X) => Reached(hrefs) \subseteq X
<1>1. PICK D : D = DOMAIN Sources
  OBVIOUS
<1>2. PICK N \in Nat : N = Cardinality(D)
  BY <1>1, SourcesAre, FS_CardinalityType
<1>3. PICK first : first = {h \in hrefs : IsProfile(h)}
  OBVIOUS
<1>4. first \in SUBSET D /\ \A X : Followed(X) \in SUBSET D
  BY <1>1, <1>3 DEF Followed, IsProfile
<1>5. PICK G : G = [X \in SUBSET D |-> X \cup Followed(X)]
  OBVIOUS
<1>6. G \in [SUBSET D -> SUBSET D] /\ \A X \in SUBSET D : G[X] = X \cup Followed(X)
  BY <1>4, <1>5
<1> DEFINE step == [n \in 1 .. N |-> G]
<1>7. step \in [1 .. N -> [SUBSET D -> SUBSET D]] /\ \A n \in 1 .. N : step[n] = G
  BY <1>6
<1> HIDE DEF step
<1>8. PICK g \in [0 .. N -> SUBSET D] : Looped(g, N, first, step)
  BY <1>4, <1>7, LoopExists
<1>9. g[0] = first /\ \A n \in 1 .. N : g[n] = G[g[n - 1]]
  BY <1>7, <1>8 DEF Looped
<1>10. \A n \in 0 .. N : g[n] = IF n = 0 THEN first ELSE g[n - 1] \cup Followed(g[n - 1])
  <2> SUFFICES ASSUME NEW n \in 0 .. N
               PROVE  g[n] = IF n = 0 THEN first ELSE g[n - 1] \cup Followed(g[n - 1])
    OBVIOUS
  <2>1. CASE n = 0
    BY <1>9, <2>1
  <2>2. CASE n # 0
    <3>1. n \in 1 .. N /\ n - 1 \in 0 .. N
      BY <2>2
    <3>2. g[n] = G[g[n - 1]] /\ g[n - 1] \in SUBSET D
      BY <1>9, <3>1
    <3> QED
      BY <1>6, <2>2, <3>2
  <2> QED
    BY <2>1, <2>2
<1>11. Steps(hrefs, g)
  <2>1. g = [n \in 0 .. N |-> IF n = 0 THEN first ELSE g[n - 1] \cup Followed(g[n - 1])]
    BY <1>10
  <2> QED
    BY <1>1, <1>2, <1>3, <2>1 DEF Steps
<1>12. PICK f : f = CHOOSE h : Steps(hrefs, h)
  OBVIOUS
<1>13. Steps(hrefs, f)
  BY <1>11, <1>12
<1>14. Reached(hrefs) = f[N]
  BY <1>1, <1>2, <1>12 DEF Reached, Steps, Followed
<1>15. \A n \in 0 .. N : f[n] = IF n = 0 THEN first ELSE f[n - 1] \cup Followed(f[n - 1])
  BY <1>1, <1>2, <1>3, <1>13 DEF Steps
<1>16. DOMAIN f = 0 .. N
  BY <1>1, <1>2, <1>13 DEF Steps
<1>17. /\ f[0] = first
       /\ \A n \in 1 .. N : n \in 0 .. N /\ n - 1 \in 0 .. N /\ f[n] = f[n - 1] \cup Followed(f[n - 1])
  <2>1. 0 \in 0 .. N /\ \A n \in 1 .. N : n \in 0 .. N /\ n - 1 \in 0 .. N /\ n # 0
    OBVIOUS
  <2> QED
    BY <1>15, <2>1, Zenon
<1>18. \A n \in 0 .. N : f[n] \in SUBSET D /\ first \subseteq f[n]
  <2> DEFINE S == {n \in 0 .. N : f[n] \in SUBSET D /\ first \subseteq f[n]}
  <2>1. 0 \in S
    BY <1>4, <1>17
  <2>2. ASSUME NEW n \in 1 .. N, n - 1 \in S PROVE n \in S
    BY <1>4, <1>17, <2>2
  <2>3. 0 .. N \subseteq S
    <3> HIDE DEF S
    <3> QED
      BY <2>1, <2>2, UpTo
  <2> QED
    BY <2>3
<1>19. G[f[N]] = f[N]
  <2>1. f \in [0 .. N -> SUBSET D]
    <3>1. f = [n \in 0 .. N |-> f[n]]
      BY <1>1, <1>2, <1>13 DEF Steps
    <3> QED
      BY <1>18, <3>1
  <2>2. \A n \in 1 .. N : f[n] = G[f[n - 1]]
    BY <1>6, <1>17, <1>18
  <2>3. \A X \in SUBSET D : X \subseteq G[X]
    BY <1>6
  <2>4. IsFiniteSet(D)
    BY <1>1, SourcesAre
  <2>5. N \in Nat /\ N = Cardinality(D) /\ G \in [SUBSET D -> SUBSET D]
    BY <1>2, <1>6
  <2>6. Grows(D, N, G, f)
    BY <2>1, <2>2, <2>3, <2>4, <2>5 DEF Grows
  <2> QED
    BY <2>6, GrowsToStop
<1>20. PICK R : R = f[N]
  OBVIOUS
<1>21. R \in SUBSET D /\ first \subseteq R /\ Followed(R) \subseteq R
  BY <1>6, <1>18, <1>19, <1>20
<1>22. ASSUME NEW X, Leads(hrefs, X) PROVE R \subseteq X
  <2> DEFINE S == {n \in 0 .. N : f[n] \subseteq X}
  <2>1. first \subseteq X /\ Followed(X) \subseteq X
    BY <1>3, <1>22 DEF Leads, Closed
  <2>2. 0 \in S
    BY <1>17, <2>1
  <2>3. ASSUME NEW n \in 1 .. N, n - 1 \in S PROVE n \in S
    <3>1. f[n - 1] \subseteq X
      BY <2>3
    <3>2. Followed(f[n - 1]) \subseteq Followed(X)
      BY <3>1 DEF Followed
    <3> QED
      BY <1>17, <2>1, <3>1, <3>2
  <2>4. 0 .. N \subseteq S
    <3> HIDE DEF S
    <3> QED
      BY <2>2, <2>3, UpTo
  <2>5. N \in 0 .. N
    OBVIOUS
  <2> QED
    BY <1>20, <2>4, <2>5
<1>23. Leads(hrefs, R)
  BY <1>3, <1>21 DEF Leads, Closed
<1>24. Reached(hrefs) = R
  BY <1>14, <1>20
<1> QED
  BY <1>1, <1>21, <1>22, <1>23, <1>24

\* What an import that is done, or is refused for a cycle, says of its href.
Clear(imp, stack, nested) ==
  IsProfile(imp.href) => imp.href \notin stack /\ nested[stack \cup {imp.href}][imp.href].result = "Ok"
Cycled(imp, stack, nested) ==
  /\ IsProfile(imp.href)
  /\ imp.href \in stack \/ nested[stack \cup {imp.href}][imp.href].result = "ProfileImportCycle"

\* What the loop says of one import: it is clear of cycles, or it is on one.
LEMMA OneImport ==
  ASSUME NEW imp, NEW stack, NEW nested, NEW acc, acc.result = "Ok",
         NEW r, r = ResolveImport(imp, Imported(imp, Sources, stack, nested), acc)
  PROVE  /\ r.result = "Ok" => Clear(imp, stack, nested)
         /\ r.result = "ProfileImportCycle" => Cycled(imp, stack, nested)
<1>1. PICK inner : inner = Imported(imp, Sources, stack, nested)
  OBVIOUS
<1>2. PICK checked, source, directives :
        /\ checked = FirstError(ImportChecks(imp, Sources)) /\ source = Sources[imp.href]
        /\ directives = FirstError(DirectiveChecks(imp))
  OBVIOUS
<1>3. PICK catalog : catalog = FirstError(CatalogChecks(source))
  OBVIOUS
<1>4. /\ checked \in Errors \cup {"Ok"} /\ directives \in Errors \cup {"Ok"}
      /\ checked = "Ok" => imp.href \in DOMAIN Sources
  BY <1>2, ImportLists, DirectiveLists, OkOfList
<1>5. "ProfileImportCycle" \notin Errors /\ "Ok" \notin Errors
  BY DEF Errors
<1>6. IsProfile(imp.href) <=> imp.href \in DOMAIN Sources /\ IsA(source, "profile")
  BY <1>2 DEF IsProfile, IsA
<1>7. inner = IF checked # "Ok" THEN Refused(checked)
              ELSE IF IsA(source, "profile")
                THEN IF imp.href \in stack THEN Refused("ProfileImportCycle")
                     ELSE nested[stack \cup {imp.href}][imp.href]
              ELSE IF IsA(source, "catalog")
                THEN IF catalog = "Ok" THEN Resolved(LintIdsFromCatalog(source), <<>>) ELSE Refused(catalog)
              ELSE Refused("ProfileImportSourceUnknown")
  BY <1>1, <1>2, <1>3 DEF Imported
<1>8. \A e : Refused(e).result = e
  BY DEF Refused
<1>9. /\ inner.result # "Ok" => r.result = inner.result
      /\ inner.result = "Ok" => r.result = directives
  <2>1. PICK bad : bad = IF inner.result = "Ok" THEN directives ELSE inner.result
    OBVIOUS
  <2>2. PICK more : more = Resolved(acc.ids \o Fresh(Selected(imp, inner.ids), ToSet(acc.ids)), acc.overrides \o inner.overrides)
    OBVIOUS
  <2>3. r = IF bad # "Ok" THEN Refused(bad) ELSE more
    BY <1>1, <1>2, <2>1, <2>2 DEF ResolveImport
  <2>4. more.result = "Ok"
    BY <2>2 DEF Resolved
  <2> QED
    BY <1>8, <2>1, <2>3, <2>4
<1>10. CASE checked = "Ok" /\ IsA(source, "profile")
  BY <1>4, <1>5, <1>6, <1>7, <1>8, <1>9, <1>10 DEF Clear, Cycled
<1>11. CASE checked = "Ok" /\ ~IsA(source, "profile")
  <2>1. inner.result # "ProfileImportCycle"
    <3>1. catalog \in Errors \cup {"Ok"}
      <4>1. CASE IsSource(source)
        BY <1>3, <4>1, CatalogLists, OkOfList
      <4>2. IsSource(source)
        BY <1>2, <1>4, <1>11, SourcesAre
      <4> QED
        BY <4>1, <4>2
    <3>2. \A ids : Resolved(ids, <<>>).result = "Ok"
      BY DEF Resolved
    <3> QED
      BY <1>5, <1>7, <1>8, <1>11, <3>1, <3>2
  <2>2. r.result # "ProfileImportCycle"
    BY <1>4, <1>5, <1>9, <2>1
  <2> QED
    BY <1>6, <1>11, <2>2 DEF Clear
<1>12. CASE checked # "Ok"
  <2>1. inner.result = checked
    BY <1>7, <1>8, <1>12
  <2>2. r.result = checked
    BY <1>9, <1>12, <2>1
  <2> QED
    BY <1>4, <1>5, <1>12, <2>2
<1> QED
  BY <1>10, <1>11, <1>12

\* The loop over the imports is done if every import is, and is refused for a
\* cycle only because one of them is.
LEMMA EveryImport ==
  ASSUME NEW T, NEW imports \in Seq(T), NEW stack \in SUBSET DOMAIN Sources,
         NEW nested \in [SUBSET DOMAIN Sources -> [DOMAIN Sources -> Outcomes]],
         NEW r, r = ResolveImports(imports, Sources, stack, nested)
  PROVE  /\ r.result = "Ok" => \A i \in DOMAIN imports : Clear(imports[i], stack, nested)
         /\ r.result = "ProfileImportCycle" => \E i \in DOMAIN imports : Cycled(imports[i], stack, nested)
<1>1. PICK L \in Nat : L = Len(imports) /\ DOMAIN imports = 1 .. L
  OBVIOUS
<1>2. \E g \in [0 .. Len(imports) -> [stack : {stack}, acc : Outcomes]] :
        /\ Rounds(imports, Sources, stack, nested, g)
        /\ ResolveImports(imports, Sources, stack, nested) = g[Len(imports)].acc
  BY SourcesAre, ImportsLoop
<1>3. PICK f \in [0 .. L -> [stack : {stack}, acc : Outcomes]] :
        Rounds(imports, Sources, stack, nested, f) /\ r = f[L].acc
  BY <1>1, <1>2
<1>4. /\ f[0].acc = Resolved(<<>>, <<>>)
      /\ \A n \in 1 .. L : f[n] = Round(imports[n], Sources, nested, f[n - 1])
  <2>1. f = [n \in 0 .. L |-> IF n = 0 THEN [stack |-> stack, acc |-> Resolved(<<>>, <<>>)]
                              ELSE Round(imports[n], Sources, nested, f[n - 1])]
    BY <1>1, <1>3, Zenon DEF Rounds
  <2>2. 0 \in 0 .. L /\ \A n \in 1 .. L : n \in 0 .. L /\ n # 0
    OBVIOUS
  <2>3. \A n \in 0 .. L : f[n] = IF n = 0 THEN [stack |-> stack, acc |-> Resolved(<<>>, <<>>)]
                                 ELSE Round(imports[n], Sources, nested, f[n - 1])
    BY <2>1
  <2>4. f[0] = [stack |-> stack, acc |-> Resolved(<<>>, <<>>)]
    BY <2>2, <2>3
  <2>5. \A n \in 1 .. L : f[n] = Round(imports[n], Sources, nested, f[n - 1])
    BY <2>2, <2>3
  <2> QED
    BY <2>4, <2>5
<1> DEFINE So(n) == /\ f[n].acc.result = "Ok" => \A i \in 1 .. n : Clear(imports[i], stack, nested)
                    /\ f[n].acc.result = "ProfileImportCycle" => \E i \in 1 .. n : Cycled(imports[i], stack, nested)
           S == {n \in 0 .. L : So(n)}
<1>5. 0 \in S
  <2>1. f[0].acc.result = "Ok"
    BY <1>4 DEF Resolved
  <2> QED
    BY <2>1
<1>6. ASSUME NEW n \in 1 .. L, n - 1 \in S PROVE n \in S
  <2>1. n \in 0 .. L /\ n - 1 \in 0 .. L /\ \A i \in 1 .. n : i = n \/ i \in 1 .. n - 1
    OBVIOUS
  <2>2. PICK v, imp : v = f[n - 1] /\ imp = imports[n]
    OBVIOUS
  <2>3. v.stack = stack /\ f[n] = Round(imp, Sources, nested, v)
    BY <1>3, <1>4, <2>1, <2>2
  <2>4. /\ v.acc.result = "Ok" => \A i \in 1 .. n - 1 : Clear(imports[i], stack, nested)
        /\ v.acc.result = "ProfileImportCycle" => \E i \in 1 .. n - 1 : Cycled(imports[i], stack, nested)
    BY <1>6, <2>2
  <2>5. CASE v.acc.result # "Ok"
    <3>1. f[n] = v
      BY <2>3, <2>5 DEF Round
    <3>2. v.acc.result = "ProfileImportCycle" => \E i \in 1 .. n : Cycled(imports[i], stack, nested)
      BY <2>4
    <3> QED
      BY <2>1, <2>5, <3>1, <3>2
  <2>6. CASE v.acc.result = "Ok"
    <3>1. PICK acc : acc = ResolveImport(imp, Imported(imp, Sources, stack, nested), v.acc)
      OBVIOUS
    <3>2. f[n].acc = acc
      BY <2>3, <2>6, <3>1 DEF Round
    <3>3. /\ acc.result = "Ok" => Clear(imp, stack, nested)
          /\ acc.result = "ProfileImportCycle" => Cycled(imp, stack, nested)
      BY <2>6, <3>1, OneImport
    <3>4. acc.result = "Ok" => \A i \in 1 .. n : Clear(imports[i], stack, nested)
      BY <2>1, <2>2, <2>4, <2>6, <3>3
    <3>5. acc.result = "ProfileImportCycle" => \E i \in 1 .. n : Cycled(imports[i], stack, nested)
      BY <2>1, <2>2, <3>3
    <3> QED
      BY <2>1, <3>2, <3>4, <3>5
  <2> QED
    BY <2>5, <2>6
<1>7. L \in S
  <2> HIDE DEF S
  <2>1. 0 .. L \subseteq S
    BY <1>5, <1>6, UpTo
  <2> QED
    BY <2>1
<1>8. So(L)
  BY <1>7
<1> QED
  BY <1>1, <1>3, <1>8

\* What a profile that is done, or is refused for a cycle, says of what it imports.
Tells(imported, stack, nested, result) ==
  /\ result = "Ok" => \A h \in imported : IsProfile(h) => h \notin stack /\ nested[stack \cup {h}][h].result = "Ok"
  /\ result = "ProfileImportCycle" =>
       \E h \in imported :
         IsProfile(h) /\ (h \in stack \/ nested[stack \cup {h}][h].result = "ProfileImportCycle")

\* What resolve_profile_inner says of the imports of a profile, by what it says of theirs.
LEMMA InnerTells ==
  ASSUME NEW p, IsSource(p), NEW stack \in SUBSET DOMAIN Sources,
         NEW nested \in [SUBSET DOMAIN Sources -> [DOMAIN Sources -> Outcomes]],
         NEW r, r = ResolveInner(p, Sources, stack, nested)
  PROVE  Tells(Imports(p), stack, nested, r.result)
<1>1. PICK checked : checked = FirstError(ProfileChecks(p))
  OBVIOUS
<1>2. PICK items, imported : items = p.imports.items /\ imported = ResolveImports(items, Sources, stack, nested)
  OBVIOUS
<1>3. PICK params : params = FirstError(ParameterChecks(p.modify))
  OBVIOUS
<1>4. PICK more : more = [imported EXCEPT !.overrides = @ \o OwnOverrides(p)]
  OBVIOUS
<1>5. r = IF checked # "Ok" THEN Refused(checked)
          ELSE IF imported.result # "Ok" THEN imported
          ELSE IF params # "Ok" THEN Refused(params)
          ELSE IF p.modify.form = "absent" THEN imported
          ELSE more
  BY <1>1, <1>2, <1>3, <1>4 DEF ResolveInner, OwnOverrides
<1>6. checked \in Errors \cup {"Ok"} /\ (checked = "Ok" => IsA(p, "profile") /\ p.imports.form = "array")
  BY <1>1, ProfileLists, OkOfList
<1>7. "ProfileImportCycle" \notin Errors /\ "Ok" \notin Errors /\ \A e : Refused(e).result = e
  BY DEF Errors, Refused
<1>8. CASE checked # "Ok"
  BY <1>5, <1>6, <1>7, <1>8 DEF Tells
<1>9. CASE checked = "Ok"
  <2>1. items \in Seq(ToSet(items))
    BY <1>2, <1>6, <1>9 DEF IsSource, IsArray, IsA
  <2>2. /\ imported.result = "Ok" => \A i \in DOMAIN items : Clear(items[i], stack, nested)
        /\ imported.result = "ProfileImportCycle" => \E i \in DOMAIN items : Cycled(items[i], stack, nested)
    BY <1>2, <2>1, EveryImport
  <2>3. Imports(p) = {items[i].href : i \in DOMAIN items}
    BY <1>2 DEF Imports
  <2>4. params \in Errors \cup {"Ok"}
    BY <1>3, <1>6, <1>9, ParameterLists, OkOfList
  <2>5. imported.result = "Ok" => more.result = "Ok"
    <3>1. PICK T : items \in Seq(T)
      BY <2>1
    <3>5. \E f \in [0 .. Len(items) -> [stack : {stack}, acc : Outcomes]] :
            /\ Rounds(items, Sources, stack, nested, f)
            /\ ResolveImports(items, Sources, stack, nested) = f[Len(items)].acc
      BY <3>1, SourcesAre, ImportsLoop
    <3>2. PICK f \in [0 .. Len(items) -> [stack : {stack}, acc : Outcomes]] : imported = f[Len(items)].acc
      BY <1>2, <3>5
    <3>3. Len(items) \in 0 .. Len(items)
      BY <3>1
    <3>4. imported \in Outcomes
      BY <3>2, <3>3
    <3> QED
      BY <1>4, <3>4 DEF Outcomes
  <2>6. /\ r.result = "Ok" => imported.result = "Ok"
        /\ r.result = "ProfileImportCycle" => imported.result = "ProfileImportCycle"
    BY <1>5, <1>7, <1>9, <2>4, <2>5
  <2>7. ASSUME r.result = "Ok", NEW h \in Imports(p), IsProfile(h)
        PROVE  h \notin stack /\ nested[stack \cup {h}][h].result = "Ok"
    <3>1. PICK i \in DOMAIN items : h = items[i].href
      BY <2>3, <2>7
    <3>2. Clear(items[i], stack, nested)
      BY <2>2, <2>6, <2>7
    <3> QED
      BY <2>7, <3>1, <3>2 DEF Clear
  <2>8. ASSUME r.result = "ProfileImportCycle"
        PROVE  \E h \in Imports(p) :
                 IsProfile(h) /\ (h \in stack \/ nested[stack \cup {h}][h].result = "ProfileImportCycle")
    <3>1. PICK i \in DOMAIN items : Cycled(items[i], stack, nested)
      BY <2>2, <2>6, <2>8
    <3> QED
      BY <2>3, <3>1 DEF Cycled
  <2> QED
    BY <2>7, <2>8 DEF Tells
<1> QED
  BY <1>8, <1>9

\* What a source leads to.
Beyond(h) == Reached(Imports(Sources[h]))

\* A profile that is imported is reached.
LEMMA Direct ==
  ASSUME NEW hrefs, NEW h \in hrefs, IsProfile(h)
  PROVE  h \in Reached(hrefs)
<1>1. Leads(hrefs, Reached(hrefs))
  BY ReachedIs
<1> QED
  BY <1>1 DEF Leads

\* What is reached from a profile that is reached is reached.
LEMMA Further ==
  ASSUME NEW hrefs, NEW g \in Reached(hrefs)
  PROVE  Beyond(g) \subseteq Reached(hrefs) /\ g \in DOMAIN Sources
<1>1. PICK R : R = Reached(hrefs)
  OBVIOUS
<1>2. R \in SUBSET DOMAIN Sources /\ Leads(hrefs, R)
  BY <1>1, ReachedIs
<1>3. Leads(Imports(Sources[g]), R)
  <2>1. Followed(R) \subseteq R
    BY <1>2 DEF Leads, Closed
  <2>2. {h \in Imports(Sources[g]) : IsProfile(h)} \subseteq Followed(R)
    BY <1>1 DEF Followed
  <2> QED
    BY <2>1, <2>2 DEF Leads, Closed
<1> QED
  BY <1>1, <1>2, <1>3, ReachedIs DEF Beyond

\* What is reached is imported, or it is reached from what is imported.
LEMMA Unfold ==
  ASSUME NEW hrefs, NEW x \in Reached(hrefs)
  PROVE  \E h \in hrefs : IsProfile(h) /\ (x = h \/ x \in Beyond(h))
<1> DEFINE X == {y \in Reached(hrefs) : \E h \in hrefs : IsProfile(h) /\ (y = h \/ y \in Beyond(h))}
<1>1. {h \in hrefs : IsProfile(h)} \subseteq X
  BY Direct
<1>2. ASSUME NEW g \in X, NEW i \in Imports(Sources[g]), IsProfile(i) PROVE i \in X
  <2>1. PICK h \in hrefs : IsProfile(h) /\ (g = h \/ g \in Beyond(h))
    BY <1>2
  <2>2. i \in Beyond(g)
    BY <1>2, Direct DEF Beyond
  <2>3. g \in Beyond(h) => Beyond(g) \subseteq Beyond(h)
    BY Further DEF Beyond
  <2>4. i \in Reached(hrefs)
    BY <2>2, Further
  <2> QED
    BY <2>1, <2>2, <2>3, <2>4
<1>3. Leads(hrefs, X)
  <2> HIDE DEF X
  <2>1. Followed(X) \subseteq X
    BY <1>2 DEF Followed
  <2> QED
    BY <1>1, <2>1 DEF Leads, Closed
<1>4. Reached(hrefs) \subseteq X
  <2> HIDE DEF X
  <2> QED
    BY <1>3, ReachedIs
<1> QED
  BY <1>4

\* A profile that is done leads to nothing that was being resolved, and to no cycle.
LEMMA DoneIsAcyclic ==
  ASSUME NEW N \in Nat, N = Cardinality(DOMAIN Sources),
         NEW f \in [0 .. N -> [SUBSET DOMAIN Sources -> [DOMAIN Sources -> Outcomes]]], Levels(Sources, f)
  PROVE  \A stack \in SUBSET DOMAIN Sources, h \in DOMAIN Sources :
           f[N][stack][h].result = "Ok" => \A x \in Beyond(h) : x \notin stack /\ x \notin Beyond(x)
<1> DEFINE So(n) == \A stack \in SUBSET DOMAIN Sources, h \in DOMAIN Sources :
                      f[n][stack][h].result = "Ok" => \A x \in Beyond(h) : x \notin stack /\ x \notin Beyond(x)
           S == {n \in 0 .. N : So(n)}
<1>1. \A n \in 0 .. N : f[n] = Level(Sources, n, f[n - 1])
  BY DEF Levels
<1>2. ASSUME NEW n \in 0 .. N, NEW stack \in SUBSET DOMAIN Sources, NEW h \in DOMAIN Sources
      PROVE  f[n][stack][h] = IF n = 0 THEN Refused("ProfileImportCycle")
                              ELSE ResolveInner(Sources[h], Sources, stack, f[n - 1])
  BY <1>1 DEF Level
<1>3. 0 \in S
  <2>1. 0 \in 0 .. N
    OBVIOUS
  <2>2. Refused("ProfileImportCycle").result # "Ok"
    BY DEF Refused
  <2>3. So(0)
    BY <1>2, <2>1, <2>2
  <2> QED
    BY <2>1, <2>3
<1>4. ASSUME NEW n \in 1 .. N, n - 1 \in S PROVE n \in S
  <2>1. n \in 0 .. N /\ n - 1 \in 0 .. N /\ n # 0
    OBVIOUS
  <2>2. ASSUME NEW stack \in SUBSET DOMAIN Sources, NEW h \in DOMAIN Sources, f[n][stack][h].result = "Ok",
               NEW x \in Beyond(h)
        PROVE  x \notin stack /\ x \notin Beyond(x)
    <3>1. PICK nested \in [SUBSET DOMAIN Sources -> [DOMAIN Sources -> Outcomes]] : nested = f[n - 1]
      BY <2>1
    <3>2. PICK r : r = f[n][stack][h]
      OBVIOUS
    <3>3. r = ResolveInner(Sources[h], Sources, stack, nested) /\ r.result = "Ok"
      BY <1>2, <2>1, <2>2, <3>1, <3>2
    <3>4. IsSource(Sources[h])
      BY SourcesAre
    <3>5. PICK i \in Imports(Sources[h]) : IsProfile(i) /\ (x = i \/ x \in Beyond(i))
      BY Unfold DEF Beyond
    <3>10. PICK p : p = Sources[h]
      OBVIOUS
    <3>11. Tells(Imports(p), stack, nested, r.result)
      BY <3>1, <3>3, <3>4, <3>10, InnerTells
    <3>6. i \notin stack /\ nested[stack \cup {i}][i].result = "Ok"
      BY <3>3, <3>5, <3>10, <3>11 DEF Tells
    <3>7. i \in DOMAIN Sources /\ stack \cup {i} \in SUBSET DOMAIN Sources
      BY <3>5 DEF IsProfile
    <3>8. So(n - 1)
      BY <1>4
    <3>9. \A y \in Beyond(i) : y \notin stack \cup {i} /\ y \notin Beyond(y)
      BY <3>1, <3>6, <3>7, <3>8
    <3> QED
      BY <3>5, <3>6, <3>9
  <2> QED
    BY <2>1, <2>2
<1>5. N \in S
  <2> HIDE DEF S
  <2>1. 0 .. N \subseteq S
    BY <1>3, <1>4, UpTo
  <2>2. N \in 0 .. N
    OBVIOUS
  <2> QED
    BY <2>1, <2>2
<1> QED
  BY <1>5

\* A profile that is refused for a cycle leads to one: every profile that is
\* being resolved leads to it.
LEMMA CycleIsReached ==
  ASSUME NEW N \in Nat, N = Cardinality(DOMAIN Sources),
         NEW f \in [0 .. N -> [SUBSET DOMAIN Sources -> [DOMAIN Sources -> Outcomes]]], Levels(Sources, f)
  PROVE  \A n \in 0 .. N : \A stack \in SUBSET DOMAIN Sources : \A h \in stack :
           /\ Cardinality(stack) + n = N + 1
           /\ \A s \in stack : s = h \/ h \in Beyond(s)
           /\ f[n][stack][h].result = "ProfileImportCycle"
           => \E g \in Beyond(h) : g \in Beyond(g)
<1> DEFINE So(n) == \A stack \in SUBSET DOMAIN Sources : \A h \in stack :
                      /\ Cardinality(stack) + n = N + 1
                      /\ \A s \in stack : s = h \/ h \in Beyond(s)
                      /\ f[n][stack][h].result = "ProfileImportCycle"
                      => \E g \in Beyond(h) : g \in Beyond(g)
           S == {n \in 0 .. N : So(n)}
<1>1. \A n \in 0 .. N : f[n] = Level(Sources, n, f[n - 1])
  BY DEF Levels
<1>2. \A stack \in SUBSET DOMAIN Sources :
        IsFiniteSet(stack) /\ Cardinality(stack) \in Nat /\ Cardinality(stack) <= N
  BY SourcesAre, FS_Subset, FS_CardinalityType
<1>3. 0 \in S
  <2>1. 0 \in 0 .. N
    OBVIOUS
  <2>2. ASSUME NEW stack \in SUBSET DOMAIN Sources PROVE Cardinality(stack) + 0 # N + 1
    <3>1. PICK c \in Nat : c = Cardinality(stack) /\ c <= N
      BY <1>2
    <3> QED
      BY <3>1
  <2>3. So(0)
    BY <2>2
  <2> QED
    BY <2>1, <2>3
<1>4. ASSUME NEW n \in 1 .. N, n - 1 \in S PROVE n \in S
  <2>1. n \in 0 .. N /\ n - 1 \in 0 .. N /\ n # 0
    OBVIOUS
  <2>2. ASSUME NEW stack \in SUBSET DOMAIN Sources, NEW h \in stack, Cardinality(stack) + n = N + 1,
               \A s \in stack : s = h \/ h \in Beyond(s), f[n][stack][h].result = "ProfileImportCycle"
        PROVE  \E g \in Beyond(h) : g \in Beyond(g)
    <3>1. PICK nested \in [SUBSET DOMAIN Sources -> [DOMAIN Sources -> Outcomes]] : nested = f[n - 1]
      BY <2>1
    <3>2. PICK p, r : p = Sources[h] /\ r = f[n][stack][h]
      OBVIOUS
    <3>3. r = ResolveInner(p, Sources, stack, nested) /\ r.result = "ProfileImportCycle"
      BY <1>1, <2>1, <2>2, <3>1, <3>2 DEF Level
    <3>4. IsSource(p)
      BY <3>2, SourcesAre
    <3>5. Tells(Imports(p), stack, nested, r.result)
      BY <3>1, <3>3, <3>4, InnerTells
    <3>6. PICK i \in Imports(p) :
            IsProfile(i) /\ (i \in stack \/ nested[stack \cup {i}][i].result = "ProfileImportCycle")
      BY <3>3, <3>5 DEF Tells
    <3>7. i \in Beyond(h)
      BY <3>2, <3>6, Direct DEF Beyond
    <3>8. \A s : h \in Beyond(s) => Beyond(h) \subseteq Beyond(s)
      BY Further DEF Beyond
    <3>9. Beyond(i) \subseteq Beyond(h)
      BY <3>7, Further DEF Beyond
    <3>10. CASE i \in stack
      <4>1. i = h \/ h \in Beyond(i)
        BY <2>2, <3>10
      <4> QED
        BY <3>7, <3>8, <4>1
    <3>11. CASE i \notin stack
      <4>1. PICK more : more = stack \cup {i}
        OBVIOUS
      <4>2. more \in SUBSET DOMAIN Sources /\ i \in more
        BY <3>6, <4>1 DEF IsProfile
      <4>3. Cardinality(more) + (n - 1) = N + 1
        <5>1. Cardinality(more) = Cardinality(stack) + 1
          BY <1>2, <3>11, <4>1, FS_AddElement
        <5>2. PICK c \in Nat : c = Cardinality(stack)
          BY <1>2
        <5> QED
          BY <2>2, <5>1, <5>2
      <4>4. \A s \in more : s = i \/ i \in Beyond(s)
        BY <2>2, <3>7, <3>8, <4>1
      <4>5. f[n - 1][more][i].result = "ProfileImportCycle"
        BY <3>1, <3>6, <3>11, <4>1
      <4>6. So(n - 1)
        BY <1>4
      <4>7. \E g \in Beyond(i) : g \in Beyond(g)
        BY <4>2, <4>3, <4>4, <4>5, <4>6
      <4> QED
        BY <3>9, <4>7
    <3> QED
      BY <3>10, <3>11
  <2> QED
    BY <2>1, <2>2
<1>5. 0 .. N \subseteq S
  <2> HIDE DEF S
  <2> QED
    BY <1>3, <1>4, UpTo
<1> QED
  BY <1>5

\* A profile is refused for a cycle exactly if what it imports leads to one.
LEMMA ResolveTells ==
  ASSUME NEW p, IsSource(p), NEW r, r = ResolveProfile(p, Sources)
  PROVE  /\ r.result = "Ok" => \A x \in Reached(Imports(p)) : x \notin Beyond(x)
         /\ r.result = "ProfileImportCycle" => \E x \in Reached(Imports(p)) : x \in Beyond(x)
<1>1. PICK N \in Nat : N = Cardinality(DOMAIN Sources)
  BY SourcesAre, FS_CardinalityType
<1>2. \E f \in [0 .. Cardinality(DOMAIN Sources) -> [SUBSET DOMAIN Sources -> [DOMAIN Sources -> Outcomes]]] :
        Levels(Sources, f) /\ Nested(Sources) = f[Cardinality(DOMAIN Sources)]
  BY SourcesAre, NestedIs
<1>3. PICK f \in [0 .. N -> [SUBSET DOMAIN Sources -> [DOMAIN Sources -> Outcomes]]] :
        Levels(Sources, f) /\ Nested(Sources) = f[N]
  BY <1>1, <1>2
<1>4. N \in 0 .. N
  OBVIOUS
<1>5. PICK nested \in [SUBSET DOMAIN Sources -> [DOMAIN Sources -> Outcomes]] : nested = f[N]
  BY <1>3, <1>4
<1>6. PICK none : none = {}
  OBVIOUS
<1>7. none \in SUBSET DOMAIN Sources /\ r = ResolveInner(p, Sources, none, nested)
  BY <1>3, <1>5, <1>6 DEF ResolveProfile
<1>13. Tells(Imports(p), none, nested, r.result)
  BY <1>5, <1>7, InnerTells
<1>8. /\ r.result = "Ok" =>
           \A h \in Imports(p) : IsProfile(h) => h \notin none /\ nested[none \cup {h}][h].result = "Ok"
      /\ r.result = "ProfileImportCycle" =>
           \E h \in Imports(p) :
             IsProfile(h) /\ (h \in none \/ nested[none \cup {h}][h].result = "ProfileImportCycle")
  BY <1>13 DEF Tells
<1>9. \A h : IsProfile(h) => h \in DOMAIN Sources /\ {h} \in SUBSET DOMAIN Sources
  BY DEF IsProfile
<1>10. \A h : none \cup {h} = {h}
  BY <1>6
<1>11. ASSUME r.result = "Ok", NEW x \in Reached(Imports(p)) PROVE x \notin Beyond(x)
  <2>1. PICK h \in Imports(p) : IsProfile(h) /\ (x = h \/ x \in Beyond(h))
    BY Unfold
  <2>2. f[N][{h}][h].result = "Ok"
    BY <1>5, <1>8, <1>10, <1>11, <2>1
  <2>3. \A stack \in SUBSET DOMAIN Sources, g \in DOMAIN Sources :
          f[N][stack][g].result = "Ok" => \A y \in Beyond(g) : y \notin stack /\ y \notin Beyond(y)
    BY <1>1, <1>3, DoneIsAcyclic
  <2>4. \A y \in Beyond(h) : y \notin {h} /\ y \notin Beyond(y)
    BY <1>9, <2>1, <2>2, <2>3
  <2> QED
    BY <2>1, <2>4
<1>12. ASSUME r.result = "ProfileImportCycle" PROVE \E x \in Reached(Imports(p)) : x \in Beyond(x)
  <2>1. PICK h \in Imports(p) : IsProfile(h) /\ nested[none \cup {h}][h].result = "ProfileImportCycle"
    BY <1>6, <1>8, <1>12
  <2>2. f[N][{h}][h].result = "ProfileImportCycle"
    BY <1>5, <1>10, <2>1
  <2>3. \A n \in 0 .. N : \A stack \in SUBSET DOMAIN Sources : \A k \in stack :
           /\ Cardinality(stack) + n = N + 1
           /\ \A s \in stack : s = k \/ k \in Beyond(s)
           /\ f[n][stack][k].result = "ProfileImportCycle"
           => \E g \in Beyond(k) : g \in Beyond(g)
    BY <1>1, <1>3, CycleIsReached
  <2>4. Cardinality({h}) + N = N + 1
    <3>1. Cardinality({h}) = 1
      BY FS_Singleton
    <3> QED
      BY <3>1
  <2>5. \A s \in {h} : s = h
    OBVIOUS
  <2>6. \E g \in Beyond(h) : g \in Beyond(g)
    BY <1>4, <1>9, <2>1, <2>2, <2>3, <2>4, <2>5
  <2>7. Beyond(h) \subseteq Reached(Imports(p))
    BY <2>1, Direct, Further
  <2> QED
    BY <2>6, <2>7
<1> QED
  BY <1>11, <1>12

\* A call of resolve_profile reports a cycle only if there is one, and resolves only if there
\* is none.
LEMMA ResolveExact ==
  ASSUME NEW p \in Profiles, Resolve(p)
  PROVE  CyclesAreCycles'
<1>1. PICK r : r = ResolveProfile(p, Sources)
  OBVIOUS
<1>2. plan'.profile = p /\ out'.result = r.result
  BY <1>1 DEF Resolve
<1>3. IsSource(p)
  BY SessionAssumption
<1>4. /\ r.result = "Ok" => \A x \in Reached(Imports(p)) : x \notin Beyond(x)
      /\ r.result = "ProfileImportCycle" => \E x \in Reached(Imports(p)) : x \in Beyond(x)
  BY <1>1, <1>3, ResolveTells
<1>5. "Ok" # "ProfileImportCycle"
  OBVIOUS
<1>6. (out.op = "resolve" /\ out.result \in {"Ok", "ProfileImportCycle"})' =>
        (out'.result = "ProfileImportCycle" <=>
           \E x \in Reached(Imports(plan'.profile)) : x \in Beyond(x))
  BY <1>2, <1>4, <1>5
<1> QED
  BY <1>6 DEF CyclesAreCycles, Beyond

\* Steps that are no part of a composition leave what was composed alone.
LEMMA ProfilesStay == Composed /\ ProfilesResolveExactly /\ [Next]_vars => ProfilesResolveExactly'
<1> SUFFICES ASSUME Composed, ProfilesResolveExactly, [Next]_vars PROVE ProfilesResolveExactly'
  OBVIOUS
<1> DEFINE Other == out'.op \notin {"resolve", "override", "catalog"}
<1>1. ASSUME out'.op # "resolve" PROVE CyclesAreCycles'
  BY <1>1 DEF CyclesAreCycles
<1>2. ASSUME out'.op # "override" PROVE OverridesAreAtomic'
  BY <1>2 DEF OverridesAreAtomic
<1>3. ASSUME out'.op # "catalog" PROVE CatalogIsFaithful'
  BY <1>3 DEF CatalogIsFaithful
<1>4. ASSUME Other PROVE ProfilesResolveExactly'
  BY <1>1, <1>2, <1>3, <1>4 DEF ProfilesResolveExactly
<1>5. CASE UNCHANGED vars
  <2>1. CyclesAreCycles'
    BY <1>5 DEF vars, ProfilesResolveExactly, CyclesAreCycles
  <2>2. OverridesAreAtomic'
    BY <1>5 DEF vars, ProfilesResolveExactly, OverridesAreAtomic
  <2>3. CatalogIsFaithful'
    BY <1>5 DEF vars, ProfilesResolveExactly, CatalogIsFaithful
  <2> QED
    BY <2>1, <2>2, <2>3 DEF ProfilesResolveExactly
<1>6. ASSUME NEW p \in Profiles, Resolve(p) PROVE ProfilesResolveExactly'
  <2>1. out'.op = "resolve"
    BY <1>6 DEF Resolve
  <2> QED
    BY <1>2, <1>3, <1>6, <2>1, ResolveExact DEF ProfilesResolveExactly
<1>7. CASE Override
  <2>1. out'.op = "override"
    BY <1>7 DEF Override
  <2> QED
    BY <1>1, <1>3, <1>7, <2>1, OverrideExact DEF ProfilesResolveExactly
<1>8. CASE ReloadCatalog
  <2>1. out'.op = "catalog"
    BY <1>8 DEF ReloadCatalog
  <2> QED
    BY <1>1, <1>2, <1>8, <2>1, CatalogExact DEF ProfilesResolveExactly
<1>9. CASE Filter
  BY <1>4, <1>9 DEF Filter
<1>10. ASSUME NEW d \in Offered, AddDeviation(d) PROVE Other
  BY <1>10 DEF AddDeviation
<1>11. CASE SaveAndLoad
  BY <1>4, <1>11 DEF SaveAndLoad
<1>12. ASSUME NEW json \in Risks, LoadRisks(json) PROVE Other
  BY <1>12 DEF LoadRisks
<1>13. CASE EmitReport
  BY <1>4, <1>13 DEF EmitReport
<1>14. \A api, chain, kinds, now, raw, done : RunOf(api, chain, kinds, now, raw, done) => Other
  BY DEF RunOf
<1>15. ASSUME NEW c \in Chains, NEW now \in Times, RunChain(c.certs, c.kinds, now) PROVE Other
  <2> HIDE DEF Other
  <2> QED
    BY <1>14, <1>15 DEF RunChain
<1>16. ASSUME NEW c \in Chains, NEW now \in Times, RunWholePath(c.certs, now) PROVE Other
  <2> HIDE DEF Other
  <2> QED
    BY <1>14, <1>16 DEF RunWholePath
<1>17. ASSUME NEW c \in Chains, c.certs # <<>>, RunCertAtIssuance(c.certs[1], c.kinds[1]) PROVE Other
  <2> HIDE DEF Other
  <2> QED
    BY <1>14, <1>17 DEF RunCertAtIssuance
<1> HIDE DEF Other
<1> QED
  BY <1>4, <1>5, <1>6, <1>7, <1>8, <1>9, <1>10, <1>11, <1>12, <1>13, <1>15, <1>16, <1>17 DEF Next

-----------------------------------------------------------------------------
(* Reports. *)

\* Filters that agree on the positions keep the same number.
LEMMA KeptSame ==
  ASSUME NEW T, NEW U, NEW s \in Seq(T), NEW t \in Seq(U), Len(s) = Len(t), NEW at, NEW rest,
         \A i \in 1 .. Len(s) : i \in at <=> i \in rest
  PROVE  Len(Kept(s, at)) = Len(Kept(t, rest))
<1>1. PICK a \in [0 .. Len(s) -> Seq(T)] : KeptUpTo(s, at, a) /\ Kept(s, at) = a[Len(s)]
  BY KeptLoop
<1>2. PICK b \in [0 .. Len(t) -> Seq(U)] : KeptUpTo(t, rest, b) /\ Kept(t, rest) = b[Len(t)]
  BY KeptLoop
<1>3. Len(s) \in Nat
  OBVIOUS
<1> DEFINE S == {n \in 0 .. Len(s) : Len(a[n]) = Len(b[n])}
<1>4. 0 \in S
  BY <1>1, <1>2, <1>3 DEF KeptUpTo
<1>5. ASSUME NEW n \in 1 .. Len(s), n - 1 \in S PROVE n \in S
  <2>6. n \in 0 .. Len(s) /\ n - 1 \in 0 .. Len(s) /\ n # 0
    BY <1>3
  <2>1. /\ n \in 0 .. Len(s) /\ n # 0
        /\ a[n - 1] \in Seq(T) /\ b[n - 1] \in Seq(U) /\ Len(a[n - 1]) = Len(b[n - 1])
    BY <1>1, <1>2, <1>5, <2>6
  <2>2. a[n] = IF n \in at THEN Append(a[n - 1], s[n]) ELSE a[n - 1]
    BY <1>1, <2>1 DEF KeptUpTo
  <2>3. b[n] = IF n \in rest THEN Append(b[n - 1], t[n]) ELSE b[n - 1]
    BY <1>2, <2>1 DEF KeptUpTo
  <2>4. s[n] \in T /\ t[n] \in U
    BY <1>3
  <2>5. Len(a[n]) = Len(b[n])
    <3>1. CASE n \in at
      <4>1. a[n] = Append(a[n - 1], s[n]) /\ b[n] = Append(b[n - 1], t[n])
        BY <2>1, <2>2, <2>3, <3>1
      <4> QED
        BY <2>1, <2>4, <4>1
    <3>2. CASE n \notin at
      <4>1. a[n] = a[n - 1] /\ b[n] = b[n - 1]
        BY <2>1, <2>2, <2>3, <3>2
      <4> QED
        BY <2>1, <4>1
    <3> QED
      BY <3>1, <3>2
  <2> QED
    BY <2>1, <2>5
<1>6. Len(s) \in S
  <2> HIDE DEF S
  <2>1. 0 .. Len(s) \subseteq S
    BY <1>3, <1>4, <1>5, UpTo
  <2> QED
    BY <1>3, <2>1
<1> QED
  BY <1>1, <1>2, <1>6

\* Parts of a report, each with a UUID of its own.
OwnUuids(s) == \A i, j \in DOMAIN s : s[i].uuid = s[j].uuid => i = j
Apart(s, t) == \A i \in DOMAIN s, j \in DOMAIN t : s[i].uuid # t[j].uuid

\* Two sequences that share no uuid, joined, repeat none.
LEMMA OwnJoined ==
  ASSUME NEW T, NEW s \in Seq(T), NEW t \in Seq(T), OwnUuids(s), OwnUuids(t), Apart(s, t)
  PROVE  /\ s \o t \in Seq(T) /\ OwnUuids(s \o t)
         /\ \A u \in Seq(T) : Apart(s, u) /\ Apart(t, u) => Apart(s \o t, u)
<1>1. PICK q : q = s \o t
  OBVIOUS
<1>2. PICK L \in Nat, M \in Nat : L = Len(s) /\ M = Len(t)
  OBVIOUS
<1>3. q \in Seq(T) /\ Len(q) = L + M /\ DOMAIN q = 1 .. L + M /\ DOMAIN s = 1 .. L /\ DOMAIN t = 1 .. M
  BY <1>1, <1>2
<1>4. ASSUME NEW i \in 1 .. L + M
      PROVE  \/ i \in 1 .. L /\ q[i] = s[i]
             \/ i - L \in 1 .. M /\ ~(i \in 1 .. L) /\ q[i] = t[i - L]
  BY <1>1, <1>2, <1>3
<1>5. ASSUME NEW i \in 1 .. L + M, NEW j \in 1 .. L + M, q[i].uuid = q[j].uuid PROVE i = j
  <2>1. CASE i \in 1 .. L /\ j \in 1 .. L
    <3>1. q[i] = s[i] /\ q[j] = s[j]
      BY <1>4, <2>1
    <3> QED
      BY <1>3, <1>5, <2>1, <3>1 DEF OwnUuids
  <2>2. CASE i \in 1 .. L /\ ~(j \in 1 .. L)
    <3>1. q[i] = s[i] /\ q[j] = t[j - L] /\ j - L \in 1 .. M
      BY <1>4, <2>2
    <3> QED
      BY <1>3, <1>5, <2>2, <3>1 DEF Apart
  <2>3. CASE ~(i \in 1 .. L) /\ j \in 1 .. L
    <3>1. q[j] = s[j] /\ q[i] = t[i - L] /\ i - L \in 1 .. M
      BY <1>4, <2>3
    <3> QED
      BY <1>3, <1>5, <2>3, <3>1 DEF Apart
  <2>4. CASE ~(i \in 1 .. L) /\ ~(j \in 1 .. L)
    <3>1. q[i] = t[i - L] /\ q[j] = t[j - L] /\ i - L \in 1 .. M /\ j - L \in 1 .. M
      BY <1>4, <2>4
    <3>2. i - L = j - L
      BY <1>3, <1>5, <3>1 DEF OwnUuids
    <3> QED
      BY <3>2
  <2> QED
    BY <2>1, <2>2, <2>3, <2>4
<1>6. ASSUME NEW u, Apart(s, u), Apart(t, u), NEW i \in 1 .. L + M, NEW j \in DOMAIN u
      PROVE  q[i].uuid # u[j].uuid
  <2>1. CASE i \in 1 .. L
    BY <1>3, <1>4, <1>6, <2>1 DEF Apart
  <2>2. CASE ~(i \in 1 .. L)
    <3>1. q[i] = t[i - L] /\ i - L \in DOMAIN t
      BY <1>3, <1>4, <2>2
    <3> QED
      BY <1>6, <3>1 DEF Apart
  <2> QED
    BY <2>1, <2>2
<1>7. OwnUuids(q)
  BY <1>3, <1>5 DEF OwnUuids
<1>8. \A u : Apart(s, u) /\ Apart(t, u) => Apart(q, u)
  BY <1>3, <1>6 DEF Apart
<1> QED
  BY <1>1, <1>3, <1>7, <1>8

\* A sequence that repeats no uuid has as many as it has elements.
LEMMA OwnCount ==
  ASSUME NEW T, NEW s \in Seq(T), OwnUuids(s)
  PROVE  Cardinality({s[i].uuid : i \in DOMAIN s}) = Len(s)
<1>1. PICK L \in Nat : L = Len(s) /\ DOMAIN s = 1 .. L
  OBVIOUS
<1>2. PICK U : U = {s[i].uuid : i \in DOMAIN s}
  OBVIOUS
<1>3. PICK f : f = [i \in 1 .. L |-> s[i].uuid]
  OBVIOUS
<1>4. f \in [1 .. L -> U] /\ \A i \in 1 .. L : f[i] = s[i].uuid
  BY <1>1, <1>2, <1>3
<1>5. \A i, j \in 1 .. L : f[i] = f[j] => i = j
  BY <1>1, <1>4 DEF OwnUuids
<1>6. \A u \in U : \E i \in 1 .. L : f[i] = u
  BY <1>1, <1>2, <1>4
<1>7. f \in Bijection(1 .. L, U)
  BY <1>4, <1>5, <1>6 DEF Bijection, Injection, Surjection, IsInjective
<1>8. IsFiniteSet(1 .. L) /\ Cardinality(1 .. L) = L
  <2>1. 1 \in Int /\ L \in Int
    OBVIOUS
  <2>2. IsFiniteSet(1 .. L) /\ Cardinality(1 .. L) = IF 1 > L THEN 0 ELSE L - 1 + 1
    BY <2>1, FS_Interval
  <2> QED
    BY <2>2
<1>9. ExistsBijection(1 .. L, U)
  BY <1>7 DEF ExistsBijection
<1>10. Cardinality(U) = L
  BY <1>8, <1>9, FS_Bijection
<1> QED
  BY <1>1, <1>2, <1>10

\* One observation for every evidence there is a finding about.
LEMMA EvidenceIs ==
  ASSUME NEW findings \in Seq(Reported), NEW index, index = EvidenceIndex(findings)
  PROVE  /\ index \in Seq(DOMAIN findings)
         /\ \A k, l \in DOMAIN index :
              EvidenceKey(findings[index[k]]) = EvidenceKey(findings[index[l]]) => k = l
         /\ \A i \in DOMAIN findings : \E k \in DOMAIN index :
              EvidenceKey(findings[index[k]]) = EvidenceKey(findings[i])
<1>1. PICK N \in Nat : N = Len(findings) /\ DOMAIN findings = 1 .. N
  OBVIOUS
<1>2. PICK key : key = [i \in 1 .. N |-> EvidenceKey(findings[i])]
  OBVIOUS
<1>3. PICK at : at = {i \in 1 .. N : \A j \in 1 .. (i - 1) : key[j] # key[i]}
  OBVIOUS
<1>4. PICK own : own = [i \in 1 .. N |-> i]
  OBVIOUS
<1>5. index = Kept(own, at)
  <2>1. \A i \in 1 .. N : \A j \in 1 .. (i - 1) : j \in 1 .. N
    OBVIOUS
  <2>2. at = {i \in DOMAIN findings : \A j \in 1..(i - 1) : EvidenceKey(findings[j]) # EvidenceKey(findings[i])}
    BY <1>1, <1>2, <1>3, <2>1
  <2>3. own = [i \in DOMAIN findings |-> i]
    BY <1>1, <1>4
  <2> QED
    BY <2>2, <2>3 DEF EvidenceIndex
<1>6. own \in Seq(1 .. N) /\ Len(own) = N /\ \A i \in 1 .. N : own[i] = i
  BY <1>4
<1>7. PICK p : index \in Seq(1 .. N) /\ Picked(p, own, at, N, index)
  BY <1>5, <1>6, KeptIs
<1>8. PICK M \in Nat : M = Len(index) /\ DOMAIN index = 1 .. M
  BY <1>7
<1>9. /\ p \in [1 .. M -> 1 .. N]
      /\ \A k \in 1 .. M : p[k] \in at /\ index[k] = p[k]
      /\ \A i \in 1 .. N : i \in at => \E k \in 1 .. M : p[k] = i
      /\ \A k, l \in 1 .. M : k < l => p[k] < p[l]
  BY <1>6, <1>7, <1>8 DEF Picked
<1>10. ASSUME NEW k \in 1 .. M, NEW l \in 1 .. M, k < l PROVE key[p[k]] # key[p[l]]
  <2>1. p[k] \in 1 .. N /\ p[l] \in 1 .. N /\ p[k] < p[l] /\ p[l] \in at
    BY <1>9, <1>10
  <2>2. p[k] \in 1 .. (p[l] - 1)
    BY <2>1
  <2> QED
    BY <1>3, <2>1, <2>2
<1>11. ASSUME NEW k \in 1 .. M, NEW l \in 1 .. M, key[p[k]] = key[p[l]] PROVE k = l
  <2>1. ~(k < l) /\ ~(l < k)
    BY <1>10, <1>11
  <2> QED
    BY <2>1
<1>12. ASSUME NEW i \in 1 .. N PROVE \E k \in 1 .. M : key[p[k]] = key[i]
  <2> DEFINE S == {j \in 1 .. N : key[j] = key[i]}
  <2>1. S \in SUBSET Nat /\ i \in S
    OBVIOUS
  <2>2. PICK j \in S : \A k \in S : j <= k
    <3> HIDE DEF S
    <3> QED
      BY <2>1, SmallestNumber
  <2>3. \A k \in 1 .. (j - 1) : key[k] # key[j]
    BY <2>2
  <2>4. j \in at /\ j \in 1 .. N /\ key[j] = key[i]
    BY <1>3, <2>2, <2>3
  <2>5. PICK k \in 1 .. M : p[k] = j
    BY <1>9, <2>4
  <2> QED
    BY <2>4, <2>5
<1>13. \A k \in 1 .. M : index[k] = p[k] /\ p[k] \in 1 .. N /\ EvidenceKey(findings[index[k]]) = key[p[k]]
  BY <1>2, <1>9
<1>14. \A i \in 1 .. N : EvidenceKey(findings[i]) = key[i]
  BY <1>2
<1>15. index \in Seq(DOMAIN findings)
  BY <1>1, <1>7
<1>16. ASSUME NEW k \in DOMAIN index, NEW l \in DOMAIN index,
              EvidenceKey(findings[index[k]]) = EvidenceKey(findings[index[l]])
       PROVE  k = l
  BY <1>8, <1>11, <1>13, <1>16
<1>17. ASSUME NEW i \in DOMAIN findings
       PROVE  \E k \in DOMAIN index : EvidenceKey(findings[index[k]]) = EvidenceKey(findings[i])
  BY <1>1, <1>8, <1>12, <1>13, <1>14
<1> QED
  BY <1>15, <1>16, <1>17

\* What a report has to be.
Consistent(doc, findings) ==
  /\ Cardinality({(doc.observations \o doc.findings \o doc.risks)[i].uuid :
                    i \in DOMAIN (doc.observations \o doc.findings \o doc.risks)})
       = Len(doc.observations \o doc.findings \o doc.risks)
  /\ \A i \in DOMAIN doc.findings : \E k \in DOMAIN doc.observations :
       /\ doc.findings[i].observation = doc.observations[k].uuid
       /\ doc.observations[k].evidence = EvidenceKey(findings[i])
  /\ Len(Kept(doc.findings, {i \in DOMAIN doc.findings : doc.findings[i].state = "not-satisfied"}))
       = Len(FindingsAtOrAbove(findings, 30))

\* assessment_results: every observation and finding has a uuid of its own and refers to one there is.
LEMMA ReportIs ==
  ASSUME NEW findings \in Seq(Reported), NEW deviated, deviated \in Seq(ToSet(deviated)), NEW length, NEW at,
         NEW doc, doc = AssessmentResults(length, at, findings, deviated)
  PROVE  Consistent(doc, findings)
<1>1. PICK seed : seed = <<length, at>>
  OBVIOUS
<1>2. PICK index : index = EvidenceIndex(findings)
  OBVIOUS
<1> DEFINE Observation(f) == <<"observation", <<seed, EvidenceKey(f)>> >>
<1>3. PICK obs : obs = [k \in DOMAIN index |->
                         [uuid |-> Observation(findings[index[k]]), evidence |-> EvidenceKey(findings[index[k]])]]
  OBVIOUS
<1>4. PICK fnd : fnd = [i \in DOMAIN findings |->
          [uuid |-> <<"finding", FindingSeed(seed, i, findings[i])>>,
           lint |-> findings[i].lint, observation |-> Observation(findings[i]),
           state |-> IF IsFinding(findings[i]) THEN "not-satisfied" ELSE "satisfied"]]
  OBVIOUS
<1>5. PICK risks : risks = [i \in DOMAIN deviated |->
          [uuid |-> <<"risk", RiskSeed(seed, i, deviated[i])>>, lint |-> deviated[i].lint,
           deviation |-> deviated[i].deviation]]
  OBVIOUS
<1>6. doc.observations = obs /\ doc.findings = fnd /\ doc.risks = risks
  BY <1>1, <1>2, <1>3, <1>4, <1>5 DEF AssessmentResults, UuidV8
<1>7. /\ index \in Seq(DOMAIN findings)
      /\ \A k, l \in DOMAIN index :
           EvidenceKey(findings[index[k]]) = EvidenceKey(findings[index[l]]) => k = l
      /\ \A i \in DOMAIN findings : \E k \in DOMAIN index :
           EvidenceKey(findings[index[k]]) = EvidenceKey(findings[i])
  BY <1>2, EvidenceIs
<1>8. PICK T : T = ToSet(obs) \cup ToSet(fnd) \cup ToSet(risks)
  OBVIOUS
<1>9. /\ \A k \in DOMAIN index : obs[k] \in T
      /\ \A i \in DOMAIN findings : fnd[i] \in T
      /\ \A i \in DOMAIN deviated : risks[i] \in T
  <2>1. DOMAIN obs = DOMAIN index /\ DOMAIN fnd = DOMAIN findings /\ DOMAIN risks = DOMAIN deviated
    BY <1>3, <1>4, <1>5
  <2> QED
    BY <1>8, <2>1 DEF ToSet
<1>10. Over(obs, DOMAIN index) /\ Over(fnd, DOMAIN findings) /\ Over(risks, DOMAIN deviated)
  BY <1>3, <1>4, <1>5 DEF Over
<1>11. obs \in Seq(T) /\ DOMAIN obs = DOMAIN index
  BY <1>7, <1>9, <1>10, OverSequence
<1>12. fnd \in Seq(T) /\ Len(fnd) = Len(findings) /\ DOMAIN fnd = DOMAIN findings
  BY <1>9, <1>10, OverSequence
<1>13. risks \in Seq(T) /\ DOMAIN risks = DOMAIN deviated
  BY <1>9, <1>10, OverSequence
<1>14. /\ \A k \in DOMAIN obs : /\ obs[k].uuid = Observation(findings[index[k]])
                                /\ obs[k].evidence = EvidenceKey(findings[index[k]])
       /\ \A i \in DOMAIN fnd : /\ fnd[i].uuid = <<"finding", FindingSeed(seed, i, findings[i])>>
                                /\ fnd[i].observation = Observation(findings[i])
                                /\ fnd[i].state = IF IsFinding(findings[i]) THEN "not-satisfied" ELSE "satisfied"
       /\ \A i \in DOMAIN risks : risks[i].uuid = <<"risk", RiskSeed(seed, i, deviated[i])>>
  BY <1>3, <1>4, <1>5
<1>15. OwnUuids(obs)
  <2> SUFFICES ASSUME NEW k \in DOMAIN obs, NEW l \in DOMAIN obs, obs[k].uuid = obs[l].uuid PROVE k = l
    BY DEF OwnUuids
  <2>1. PICK a, b : a = EvidenceKey(findings[index[k]]) /\ b = EvidenceKey(findings[index[l]])
    OBVIOUS
  <2>2. <<"observation", <<seed, a>> >> = <<"observation", <<seed, b>> >>
    BY <1>14, <2>1
  <2>3. a = b
    BY <2>2
  <2> QED
    BY <1>7, <1>11, <2>1, <2>3
<1>16. OwnUuids(fnd)
  <2> SUFFICES ASSUME NEW k \in DOMAIN fnd, NEW l \in DOMAIN fnd, fnd[k].uuid = fnd[l].uuid PROVE k = l
    BY DEF OwnUuids
  <2>1. FindingSeed(seed, k, findings[k]) = FindingSeed(seed, l, findings[l])
    BY <1>14
  <2> QED
    BY <2>1 DEF FindingSeed
<1>17. OwnUuids(risks)
  <2> SUFFICES ASSUME NEW k \in DOMAIN risks, NEW l \in DOMAIN risks, risks[k].uuid = risks[l].uuid PROVE k = l
    BY DEF OwnUuids
  <2>1. RiskSeed(seed, k, deviated[k]) = RiskSeed(seed, l, deviated[l])
    BY <1>14
  <2> QED
    BY <2>1 DEF RiskSeed
<1>18. Apart(obs, fnd)
  BY <1>14 DEF Apart
<1>19. Apart(obs, risks)
  BY <1>14 DEF Apart
<1>20. Apart(fnd, risks)
  BY <1>14 DEF Apart
<1>21. PICK both : both = obs \o fnd
  OBVIOUS
<1>22. both \in Seq(T) /\ OwnUuids(both) /\ Apart(both, risks)
  BY <1>11, <1>12, <1>13, <1>15, <1>16, <1>18, <1>19, <1>20, <1>21, OwnJoined
<1>23. PICK all : all = both \o risks
  OBVIOUS
<1>24. all \in Seq(T) /\ OwnUuids(all)
  BY <1>13, <1>17, <1>22, <1>23, OwnJoined
<1>25. Cardinality({all[i].uuid : i \in DOMAIN all}) = Len(all)
  BY <1>24, OwnCount
<1>26. ASSUME NEW i \in DOMAIN fnd
       PROVE  \E k \in DOMAIN obs : /\ fnd[i].observation = obs[k].uuid
                                    /\ obs[k].evidence = EvidenceKey(findings[i])
  <2>1. PICK k \in DOMAIN index : EvidenceKey(findings[index[k]]) = EvidenceKey(findings[i])
    BY <1>7, <1>12
  <2>2. obs[k].uuid = Observation(findings[index[k]]) /\ obs[k].evidence = EvidenceKey(findings[index[k]])
    BY <1>11, <1>14
  <2>3. fnd[i].observation = Observation(findings[i])
    BY <1>14
  <2>4. Observation(findings[index[k]]) = Observation(findings[i])
    BY <2>1
  <2> QED
    BY <1>11, <2>1, <2>2, <2>3, <2>4
<1>27. Len(Kept(fnd, {i \in DOMAIN fnd : fnd[i].state = "not-satisfied"})) = Len(FindingsAtOrAbove(findings, 30))
  <2>1. PICK a : a = {i \in DOMAIN fnd : fnd[i].state = "not-satisfied"}
    OBVIOUS
  <2>2. PICK b : b = {i \in DOMAIN findings : SeverityRank(findings[i].result) >= 30}
    OBVIOUS
  <2>3. \A i \in DOMAIN findings : SeverityRank(findings[i].result) >= 30 <=> IsFinding(findings[i])
    BY DEF SeverityRank, IsFinding
  <2>4. \A i \in DOMAIN fnd : fnd[i].state = "not-satisfied" <=> IsFinding(findings[i])
    BY <1>14
  <2>5. DOMAIN fnd = 1 .. Len(fnd)
    BY <1>12
  <2>6. \A i \in 1 .. Len(fnd) : i \in a <=> i \in b
    BY <1>12, <2>1, <2>2, <2>3, <2>4, <2>5
  <2>7. Len(Kept(fnd, a)) = Len(Kept(findings, b))
    BY <1>12, <2>6, KeptSame
  <2> QED
    BY <2>1, <2>2, <2>7 DEF FindingsAtOrAbove
<1> QED
  BY <1>6, <1>21, <1>23, <1>25, <1>26, <1>27 DEF Consistent

\* What is reported of a run is consistent.
LEMMA EmitExact ==
  ASSUME RunsAreExact, EmitReport
  PROVE  ReportIsConsistent'
<1>1. PICK run : run = out
  OBVIOUS
<1>2. run.findings \in Seq(Reported) /\ run.deviated \in Seq(ToSet(run.deviated))
  BY <1>1 DEF EmitReport, RunsAreExact, Ran
<1>3. PICK doc : doc = AssessmentResults(Len(run.chain), run.now, run.findings, run.deviated)
  OBVIOUS
<1>4. PICK findings, deviated : findings = run.findings /\ deviated = run.deviated
  OBVIOUS
<1>5. Consistent(doc, findings)
  BY <1>2, <1>3, <1>4, ReportIs
<1>6. out'.doc = doc /\ out'.run.findings = findings
  BY <1>1, <1>3, <1>4 DEF EmitReport
<1> QED
  BY <1>5, <1>6 DEF ReportIsConsistent, Consistent

\* A report stays what it was until it is replaced.
LEMMA ReportsStay == RunsAreExact /\ ReportIsConsistent /\ [Next]_vars => ReportIsConsistent'
<1> SUFFICES ASSUME RunsAreExact, ReportIsConsistent, [Next]_vars PROVE ReportIsConsistent'
  OBVIOUS
<1> DEFINE Other == out'.op # "report"
<1>1. ASSUME Other PROVE ReportIsConsistent'
  BY <1>1 DEF ReportIsConsistent
<1>2. CASE UNCHANGED vars
  BY <1>2 DEF vars, ReportIsConsistent
<1>3. CASE EmitReport
  BY <1>3, EmitExact
<1>4. ASSUME NEW p \in Profiles, Resolve(p) PROVE Other
  BY <1>4 DEF Resolve
<1>5. CASE Filter
  BY <1>1, <1>5 DEF Filter
<1>6. CASE Override
  BY <1>1, <1>6 DEF Override
<1>7. CASE ReloadCatalog
  BY <1>1, <1>7 DEF ReloadCatalog
<1>8. ASSUME NEW d \in Offered, AddDeviation(d) PROVE Other
  BY <1>8 DEF AddDeviation
<1>9. CASE SaveAndLoad
  BY <1>1, <1>9 DEF SaveAndLoad
<1>10. ASSUME NEW json \in Risks, LoadRisks(json) PROVE Other
  BY <1>10 DEF LoadRisks
<1>11. \A api, chain, kinds, now, raw, done : RunOf(api, chain, kinds, now, raw, done) => Other
  BY DEF RunOf
<1> HIDE DEF Other
<1>12. ASSUME NEW c \in Chains, NEW now \in Times, RunChain(c.certs, c.kinds, now) PROVE Other
  BY <1>11, <1>12 DEF RunChain
<1>13. ASSUME NEW c \in Chains, NEW now \in Times, RunWholePath(c.certs, now) PROVE Other
  BY <1>11, <1>13 DEF RunWholePath
<1>14. ASSUME NEW c \in Chains, c.certs # <<>>, RunCertAtIssuance(c.certs[1], c.kinds[1]) PROVE Other
  BY <1>11, <1>14 DEF RunCertAtIssuance
<1> QED
  BY <1>1, <1>2, <1>3, <1>4, <1>5, <1>6, <1>7, <1>8, <1>9, <1>10, <1>12, <1>13, <1>14 DEF Next

-----------------------------------------------------------------------------
(* Dates. *)

\* The leap years up to one, by the rules of the calendar.
Leaps(n) == (n \div 4) - (n \div 100) + (n \div 400)
LeapDay(y) == IF Leap(y) THEN 1 ELSE 0

\* Leaps counts one more at the end of a leap year and no more at the end of another.
LEMMA LeapsMore ==
  ASSUME NEW n \in Nat \ {0}
  PROVE  Leaps(n) \in Int /\ Leaps(n - 1) \in Int /\ Leaps(n) = Leaps(n - 1) + LeapDay(n)
<1>1. n \div 4 = ((n - 1) \div 4) + IF n % 4 = 0 THEN 1 ELSE 0
  BY SMT
<1>2. n \div 100 = ((n - 1) \div 100) + IF n % 100 = 0 THEN 1 ELSE 0
  BY SMT
<1>3. n \div 400 = ((n - 1) \div 400) + IF n % 400 = 0 THEN 1 ELSE 0
  BY SMT
<1>4. (n % 400 = 0 => n % 100 = 0) /\ (n % 100 = 0 => n % 4 = 0)
  BY SMT
<1>5. PICK a, b, c : a = (n - 1) \div 4 /\ b = (n - 1) \div 100 /\ c = (n - 1) \div 400
  OBVIOUS
<1>6. a \in Int /\ b \in Int /\ c \in Int
  BY <1>5, SMT
<1>7. Leaps(n - 1) = a - b + c
  BY <1>5 DEF Leaps
<1>8. Leaps(n) = a - b + c + LeapDay(n)
  <2>1. PICK x, y, w : x = n % 4 /\ y = n % 100 /\ w = n % 400
    OBVIOUS
  <2>2. LeapDay(n) = IF x = 0 /\ (y # 0 \/ w = 0) THEN 1 ELSE 0
    BY <2>1 DEF LeapDay, Leap
  <2>3. Leaps(n) = (a + IF x = 0 THEN 1 ELSE 0) - (b + IF y = 0 THEN 1 ELSE 0) + (c + IF w = 0 THEN 1 ELSE 0)
    BY <1>1, <1>2, <1>3, <1>5, <2>1 DEF Leaps
  <2>4. (w = 0 => y = 0) /\ (y = 0 => x = 0)
    BY <1>4, <2>1
  <2> QED
    BY <1>6, <2>2, <2>3, <2>4, SMT
<1>9. LeapDay(n) \in Int
  BY DEF LeapDay
<1> QED
  BY <1>6, <1>7, <1>8, <1>9, SMT

\* The years before one, and the leap years among them.
LEMMA YearsAre ==
  ASSUME NEW y \in Nat, y >= 1970
  PROVE  /\ Cardinality(1970 .. (y - 1)) = y - 1970
         /\ Cardinality({k \in 1970 .. (y - 1) : Leap(k)}) = Leaps(y - 1) - 477
<1> DEFINE L(n) == {k \in 1970 .. (1969 + n) : Leap(k)}
           S == {n \in Nat : IsFiniteSet(L(n)) /\ Cardinality(L(n)) = Leaps(1969 + n) - 477}
<1>1. 0 \in S
  <2>1. L(0) = {}
    BY SMT
  <2>2. 1969 \div 4 = 492 /\ 1969 \div 100 = 19 /\ 1969 \div 400 = 4 /\ 1969 + 0 = 1969
    BY SMT
  <2>3. Leaps(1969 + 0) = 477
    BY <2>2, SMT DEF Leaps
  <2> HIDE DEF L
  <2> QED
    BY <2>1, <2>3, FS_EmptySet
<1>2. ASSUME NEW n \in Nat, n \in S PROVE n + 1 \in S
  <2>1. PICK m \in Nat : m = 1969 + (n + 1)
    BY SMT
  <2>2. m # 0 /\ m - 1 = 1969 + n
    BY <2>1, SMT
  <2>3. Leaps(m) \in Int /\ Leaps(m - 1) \in Int /\ Leaps(m) = Leaps(m - 1) + LeapDay(m)
    BY <2>2, LeapsMore
  <2>4. IsFiniteSet(L(n)) /\ Cardinality(L(n)) = Leaps(m - 1) - 477
    BY <1>2, <2>2
  <2>5. \A k : k \in 1970 .. m <=> k \in 1970 .. (1969 + n) \/ k = m
    BY <2>1, SMT
  <2>6. L(n + 1) = IF Leap(m) THEN L(n) \cup {m} ELSE L(n)
    BY <2>1, <2>5
  <2>7. m \notin L(n)
    BY <2>1, SMT
  <2> HIDE DEF L
  <2>8. CASE Leap(m)
    <3>1. IsFiniteSet(L(n + 1)) /\ Cardinality(L(n + 1)) = Cardinality(L(n)) + 1
      BY <2>4, <2>6, <2>7, <2>8, FS_AddElement
    <3>2. LeapDay(m) = 1
      BY <2>8 DEF LeapDay
    <3>3. Cardinality(L(n + 1)) = Leaps(m) - 477
      BY <2>3, <2>4, <3>1, <3>2, SMT
    <3> QED
      BY <2>1, <3>1, <3>3
  <2>9. CASE ~Leap(m)
    <3>1. L(n + 1) = L(n)
      BY <2>6, <2>9
    <3>2. LeapDay(m) = 0
      BY <2>9 DEF LeapDay
    <3>3. Leaps(m) = Leaps(m - 1)
      BY <2>3, <3>2, SMT
    <3> QED
      BY <2>1, <2>4, <3>1, <3>3
  <2> QED
    BY <2>8, <2>9
<1>3. PICK n \in Nat : y = 1970 + n
  <2>1. y - 1970 \in Nat /\ y = 1970 + (y - 1970)
    BY SMT
  <2> QED
    BY <2>1
<1>4. n \in S
  <2> HIDE DEF S
  <2>1. \A t \in 1 .. n : t - 1 \in Nat /\ (t - 1) + 1 = t
    BY SMT
  <2>2. \A t \in 1 .. n : t - 1 \in S => t \in S
    BY <1>2, <2>1
  <2>3. 0 .. n \subseteq S
    BY <1>1, <2>2, UpTo
  <2>4. n \in 0 .. n
    BY SMT
  <2> QED
    BY <2>3, <2>4
<1>5. y - 1 = 1969 + n
  BY <1>3, SMT
<1>6. Cardinality({k \in 1970 .. (y - 1) : Leap(k)}) = Leaps(y - 1) - 477
  BY <1>4, <1>5
<1>7. Cardinality(1970 .. (y - 1)) = y - 1970
  <2>1. 1970 \in Int /\ y - 1 \in Int
    BY SMT
  <2>2. Cardinality(1970 .. (y - 1)) = IF 1970 > y - 1 THEN 0 ELSE (y - 1) - 1970 + 1
    BY <2>1, FS_Interval
  <2> QED
    BY <2>2, SMT
<1> QED
  BY <1>6, <1>7

\* The days of a year before the month after one.
DaysTo(y, m) == IF m <= 1 THEN 31 * m ELSE ((153 * (m - 2) + 2) \div 5) + 59 + LeapDay(y)

\* DaysTo grows with each month by the days of the month.
LEMMA DaysToIs ==
  ASSUME NEW y, NEW m \in 1 .. 12
  PROVE  DaysTo(y, m) = DaysTo(y, m - 1) + MonthDays(y, m) /\ DaysTo(y, m) \in Int
<1>1. PICK l \in Int : l = LeapDay(y)
  BY DEF LeapDay
<1>2. MonthDays(y, m) = IF m \in {4, 6, 9, 11} THEN 30 ELSE IF m = 2 THEN 28 + l ELSE 31
  <2>1. m = 2 => MonthDays(y, m) = 28 + l
    BY <1>1 DEF MonthDays, LeapDay
  <2>2. m # 2 => MonthDays(y, m) = IF m \in {4, 6, 9, 11} THEN 30 ELSE 31
    BY DEF MonthDays
  <2> QED
    BY <2>1, <2>2
<1>3. \A k \in 0 .. 12 : DaysTo(y, k) = IF k <= 1 THEN 31 * k ELSE ((153 * (k - 2) + 2) \div 5) + 59 + l
  BY <1>1 DEF DaysTo
<1>4. DaysTo(y, m) = IF m <= 1 THEN 31 * m ELSE ((153 * (m - 2) + 2) \div 5) + 59 + l
  BY <1>3
<1>5. DaysTo(y, m - 1) = IF m - 1 <= 1 THEN 31 * (m - 1) ELSE ((153 * (m - 1 - 2) + 2) \div 5) + 59 + l
  <2>1. m - 1 \in 0 .. 12
    OBVIOUS
  <2> QED
    BY <1>3, <2>1
<1>6. m \in Int /\ 1 <= m /\ m <= 12
  OBVIOUS
<1> QED
  BY <1>2, <1>4, <1>5, <1>6, SMT

\* The days before a month, added up month by month.
LEMMA MonthsAre ==
  ASSUME NEW y, NEW f,
         f = CHOOSE g : g = [m \in 0 .. 12 |-> IF m = 0 THEN 0 ELSE g[m - 1] + MonthDays(y, m)]
  PROVE  \A m \in 0 .. 12 : f[m] = DaysTo(y, m)
<1> DEFINE g == [m \in 0 .. 12 |-> DaysTo(y, m)]
           body(h) == [m \in 0 .. 12 |-> IF m = 0 THEN 0 ELSE h[m - 1] + MonthDays(y, m)]
<1>1. DaysTo(y, 0) = 0
  BY DEF DaysTo
<1>2. \A m \in 0 .. 12 : m = 0 \/ (m \in 1 .. 12 /\ m - 1 \in 0 .. 12)
  OBVIOUS
<1>3. \A m \in 0 .. 12 : g[m] = IF m = 0 THEN 0 ELSE g[m - 1] + MonthDays(y, m)
  BY <1>1, <1>2, DaysToIs
<1>4. g = body(g)
  BY <1>3
<1> HIDE DEF g
<1>5. \E h : h = body(h)
  <2> HIDE DEF body
  <2> QED
    BY <1>4
<1>6. f = body(f)
  <2>1. f = CHOOSE h : h = body(h)
    OBVIOUS
  <2> HIDE DEF body
  <2> QED
    BY <1>5, <2>1
<1>7. f[0] = 0 /\ \A m \in 1 .. 12 : f[m] = f[m - 1] + MonthDays(y, m)
  <2>1. 0 \in 0 .. 12 /\ \A m \in 1 .. 12 : m \in 0 .. 12 /\ m # 0
    OBVIOUS
  <2> QED
    BY <1>6, <2>1
<1> DEFINE S == {m \in 0 .. 12 : f[m] = DaysTo(y, m)}
<1>8. 0 \in S
  <2>1. 0 \in 0 .. 12
    OBVIOUS
  <2> QED
    BY <1>1, <1>7, <2>1
<1>9. ASSUME NEW m \in 1 .. 12, m - 1 \in S PROVE m \in S
  <2>1. f[m] = f[m - 1] + MonthDays(y, m) /\ f[m - 1] = DaysTo(y, m - 1)
    BY <1>7, <1>9
  <2>2. m \in 0 .. 12
    OBVIOUS
  <2> QED
    BY <2>1, <2>2, DaysToIs
<1>10. 0 .. 12 \subseteq S
  <2> HIDE DEF S
  <2>1. 12 \in Nat
    OBVIOUS
  <2> QED
    BY <1>8, <1>9, <2>1, UpTo
<1> QED
  BY <1>10

\* The number of a day since 1970, by division.
LEMMA DayNumberIs ==
  ASSUME NEW y \in Nat, y >= 1970, NEW m \in 1 .. 12, NEW d, NEW date, date = <<y, m, d>>
  PROVE  DayNumber(date) = 365 * (y - 1970) + (Leaps(y - 1) - 477) + DaysTo(y, m - 1) + d - 1
<1>1. PICK months : months = CHOOSE g : g = [k \in 0 .. 12 |-> IF k = 0 THEN 0 ELSE g[k - 1] + MonthDays(date[1], k)]
  OBVIOUS
<1>2. PICK years : years = 1970 .. (date[1] - 1)
  OBVIOUS
<1>3. DayNumber(date) = 365 * Cardinality(years) + Cardinality({k \in years : Leap(k)}) + months[date[2] - 1] + date[3] - 1
  BY <1>1, <1>2 DEF DayNumber
<1>4. date[1] = y /\ date[2] = m /\ date[3] = d
  OBVIOUS
<1>5. months[m - 1] = DaysTo(y, m - 1)
  <2>1. m - 1 \in 0 .. 12
    OBVIOUS
  <2> QED
    BY <1>1, <1>4, <2>1, MonthsAre
<1>6. Cardinality(years) = y - 1970 /\ Cardinality({k \in years : Leap(k)}) = Leaps(y - 1) - 477
  BY <1>2, <1>4, YearsAre
<1> QED
  BY <1>3, <1>4, <1>5, <1>6

\* A day of an era is one of a century, of four years of it, and of one of them.
DayOfEra(doe, c, q, y, doy) ==
  /\ c \in Int /\ 0 <= c /\ c <= 3 /\ q \in Int /\ 0 <= q /\ q <= 24
  /\ y \in Int /\ 0 <= y /\ y <= 3 /\ doy \in Int /\ 0 <= doy /\ doy <= 365
  /\ doe = 36524 * c + 1461 * q + 365 * y + doy
  /\ doy = 365 => y = 3 /\ (q = 24 => c = 3)

\* The expression for the year of the era, from the century, the cycle of four years and the year.
LEMMA YearOfEra ==
  ASSUME NEW doe \in Nat, doe < 146097, NEW c, NEW q, NEW y, NEW doy, DayOfEra(doe, c, q, y, doy)
  PROVE  (doe - (doe \div 1460) + (doe \div 36524) - (doe \div 146096)) \div 365 = 100 * c + 4 * q + y
<1> USE DEF DayOfEra
<1>1. PICK e \in Int : e = IF 24 * c + q + 365 * y + doy >= 1460 THEN 1 ELSE 0
  BY SMT
<1>2. doe \div 1460 = 25 * c + q + e
  <2>1. 1460 * (25 * c + q + e) <= doe /\ doe < 1460 * (25 * c + q + e) + 1460
    BY <1>1, SMT
  <2> QED
    BY <1>1, <2>1, SMT
<1>3. (doe \div 36524) - (doe \div 146096) = c
  <2>1. CASE doe = 146096
    <3>1. c = 3
      BY <2>1, SMT
    <3>2. doe \div 36524 = 4 /\ doe \div 146096 = 1
      BY <2>1, SMT
    <3> QED
      BY <3>1, <3>2, SMT
  <2>2. CASE doe < 146096
    <3>1. 36524 * c <= doe /\ doe < 36524 * c + 36524
      BY <2>2, SMT
    <3>2. doe \div 36524 = c
      BY <3>1, SMT
    <3>3. doe \div 146096 = 0
      BY <2>2, SMT
    <3> QED
      BY <3>2, <3>3, SMT
  <2> QED
    BY <2>1, <2>2, SMT
<1>4. PICK a, b, d : a = doe \div 1460 /\ b = doe \div 36524 /\ d = doe \div 146096
  OBVIOUS
<1>5. a \in Int /\ b \in Int /\ d \in Int
  BY <1>4, SMT
<1>6. doe - a + b - d = 36500 * c + 1460 * q + 365 * y + doy - e
  BY <1>1, <1>2, <1>3, <1>4, <1>5, SMT
<1>7. 0 <= doy - e /\ doy - e <= 364
  BY <1>1, SMT
<1>8. (doe - a + b - d) \div 365 = 100 * c + 4 * q + y
  BY <1>1, <1>5, <1>6, <1>7, SMT
<1> QED
  BY <1>4, <1>8, SMT

\* Every day of an era of 400 years is in a century, a cycle and a year of it.
LEMMA EveryDayOfEra ==
  ASSUME NEW doe \in Nat, doe < 146097
  PROVE  \E c, q, y, doy : DayOfEra(doe, c, q, y, doy)
<1>1. PICK c \in Int : c = IF doe = 146096 THEN 3 ELSE doe \div 36524
  BY SMT
<1>2. PICK r \in Int : r = doe - 36524 * c
  BY <1>1, SMT
<1>3. 0 <= c /\ c <= 3 /\ 0 <= r /\ r <= 36524 /\ (r = 36524 => c = 3)
  BY <1>1, <1>2, SMT
<1>4. PICK q \in Int : q = r \div 1461
  BY SMT
<1>5. PICK t \in Int : t = r - 1461 * q
  BY <1>4, SMT
<1>6. 0 <= q /\ q <= 24 /\ 0 <= t /\ t <= 1460 /\ (t = 1460 /\ q = 24 => c = 3)
  BY <1>3, <1>4, <1>5, SMT
<1>7. PICK y \in Int : y = IF t = 1460 THEN 3 ELSE t \div 365
  BY SMT
<1>8. PICK doy \in Int : doy = t - 365 * y
  BY <1>7, SMT
<1>9. 0 <= y /\ y <= 3 /\ 0 <= doy /\ doy <= 365 /\ (doy = 365 => y = 3 /\ t = 1460)
  BY <1>6, <1>7, <1>8, SMT
<1>10. doe = 36524 * c + 1461 * q + 365 * y + doy
  BY <1>2, <1>5, <1>8, SMT
<1>11. doy = 365 => y = 3 /\ (q = 24 => c = 3)
  BY <1>6, <1>9, SMT
<1>12. DayOfEra(doe, c, q, y, doy)
  BY <1>3, <1>6, <1>9, <1>10, <1>11 DEF DayOfEra
<1> QED
  BY <1>12
\* The year that starts in March, and the day of it.
MarchYear(days, Y, doy) ==
  /\ Y \in Nat /\ doy \in Int /\ 0 <= doy /\ doy <= 364 + LeapDay(Y + 1)
  /\ days + 719468 = 365 * Y + Leaps(Y) + doy

\* What civil_from_days computes on the way.
Computed(days, z, era, doe, yoe, doy) ==
  /\ z = days + 719468 /\ era = z \div 146097 /\ doe = z - era * 146097
  /\ yoe = (doe - (doe \div 1460) + (doe \div 36524) - (doe \div 146096)) \div 365
  /\ doy = doe - (365 * yoe + (yoe \div 4) - (yoe \div 100))

\* civil_from_days finds the year that starts in March and the day of it.
LEMMA MarchYearIs ==
  ASSUME NEW days \in Nat, NEW z, NEW era, NEW doe, NEW yoe, NEW doy, Computed(days, z, era, doe, yoe, doy)
  PROVE  MarchYear(days, yoe + era * 400, doy)
<1>0. /\ z = days + 719468 /\ era = z \div 146097 /\ doe = z - era * 146097
      /\ yoe = (doe - (doe \div 1460) + (doe \div 36524) - (doe \div 146096)) \div 365
      /\ doy = doe - (365 * yoe + (yoe \div 4) - (yoe \div 100))
  BY DEF Computed
<1> USE <1>0
<1>1. z \in Nat /\ era \in Nat /\ doe \in Nat /\ doe < 146097 /\ z = 146097 * era + doe
  BY SMT
<1>2. PICK c, q, y, t : DayOfEra(doe, c, q, y, t)
  BY <1>1, EveryDayOfEra
<1>3. /\ c \in Int /\ 0 <= c /\ c <= 3 /\ q \in Int /\ 0 <= q /\ q <= 24
      /\ y \in Int /\ 0 <= y /\ y <= 3 /\ t \in Int /\ 0 <= t /\ t <= 365
      /\ doe = 36524 * c + 1461 * q + 365 * y + t
      /\ t = 365 => y = 3 /\ (q = 24 => c = 3)
  BY <1>2 DEF DayOfEra
<1>4. yoe = 100 * c + 4 * q + y
  BY <1>1, <1>2, YearOfEra
<1>5. yoe \in Int /\ 0 <= yoe /\ yoe <= 399
  BY <1>3, <1>4, SMT
<1>6. yoe \div 4 = 25 * c + q /\ yoe \div 100 = c
  <2>1. 4 * (25 * c + q) <= yoe /\ yoe < 4 * (25 * c + q) + 4
    BY <1>3, <1>4, SMT
  <2>2. 100 * c <= yoe /\ yoe < 100 * c + 100
    BY <1>3, <1>4, SMT
  <2>3. yoe \div 4 = 25 * c + q
    BY <1>3, <1>5, <2>1, SMT
  <2>4. yoe \div 100 = c
    BY <1>3, <1>5, <2>2, SMT
  <2> QED
    BY <2>3, <2>4
<1>7. doy = t
  BY <1>3, <1>4, <1>6, SMT
<1>8. PICK Y \in Nat : Y = yoe + era * 400
  BY <1>1, <1>5, SMT
<1>9. Leaps(Y) = 97 * era + 25 * c + q - c
  <2>1. Y = 400 * era + 100 * c + 4 * q + y
    <3>1. era \in Int /\ c \in Int /\ q \in Int /\ y \in Int
      BY <1>1, <1>3
    <3> QED
      BY <1>4, <1>8, <3>1, SMT
  <2>2. Y \div 4 = 100 * era + 25 * c + q
    BY <1>1, <1>3, <2>1, SMT
  <2>3. Y \div 100 = 4 * era + c
    <3>1. 100 * (4 * era + c) <= Y /\ Y < 100 * (4 * era + c) + 100
      BY <1>1, <1>3, <2>1, SMT
    <3> QED
      BY <1>1, <1>3, <3>1, SMT
  <2>4. Y \div 400 = era
    BY <1>1, <1>5, <1>8, SMT
  <2> QED
    BY <1>1, <1>3, <2>2, <2>3, <2>4, SMT DEF Leaps
<1>10. t <= 364 + LeapDay(Y + 1)
  <2>1. CASE t <= 364
    <3>1. LeapDay(Y + 1) \in {0, 1}
      BY DEF LeapDay
    <3> QED
      BY <1>3, <2>1, <3>1, SMT
  <2>2. CASE t = 365
    <3>1. PICK n \in Nat : n = Y + 1
      BY SMT
    <3>2. n = 400 * era + 100 * c + 4 * q + 4
      BY <1>1, <1>3, <1>4, <1>5, <1>8, <2>2, <3>1, SMT
    <3>3. n % 4 = 0
      BY <1>1, <1>3, <3>2, SMT
    <3>4. CASE q = 24
      <4>1. n = 400 * era + 400
        BY <1>1, <1>3, <2>2, <3>2, <3>4, SMT
      <4>2. n % 400 = 0
        BY <1>1, <4>1, SMT
      <4>3. Leap(n)
        BY <3>3, <4>2 DEF Leap
      <4> QED
        BY <2>2, <3>1, <4>3, SMT DEF LeapDay
    <3>5. CASE q # 24
      <4>1. 100 * (4 * era + c) < n /\ n < 100 * (4 * era + c) + 100
        BY <1>1, <1>3, <3>2, <3>5, SMT
      <4>2. n % 100 # 0
        BY <1>1, <1>3, <4>1, SMT
      <4>3. Leap(n)
        BY <3>3, <4>2 DEF Leap
      <4> QED
        BY <2>2, <3>1, <4>3, SMT DEF LeapDay
    <3> QED
      BY <3>4, <3>5
  <2> QED
    BY <1>3, <2>1, <2>2, SMT
<1>11. days + 719468 = 365 * Y + Leaps(Y) + doy
  BY <1>1, <1>3, <1>4, <1>5, <1>7, <1>8, <1>9, SMT
<1> QED
  BY <1>3, <1>7, <1>8, <1>10, <1>11 DEF MarchYear

\* civil_from_days: the date it finds is a day of the calendar, and its number is the one given.
LEMMA DateIs ==
  ASSUME NEW days \in Nat, NEW date, date = CivilFromDays(days)
  PROVE  /\ date[2] \in 1 .. 12 /\ date[3] \in 1 .. MonthDays(date[1], date[2])
         /\ DayNumber(date) = days
<1> DEFINE vz == days + 719468
           vera == vz \div 146097
           vdoe == vz - vera * 146097
           vyoe == (vdoe - (vdoe \div 1460) + (vdoe \div 36524) - (vdoe \div 146096)) \div 365
           vdoy == vdoe - (365 * vyoe + (vyoe \div 4) - (vyoe \div 100))
           vmp == (5 * vdoy + 2) \div 153
           vd == vdoy - ((153 * vmp + 2) \div 5) + 1
           vm == IF vmp < 10 THEN vmp + 3 ELSE vmp - 9
           vY == vyoe + vera * 400
           vy == IF vm <= 2 THEN vyoe + vera * 400 + 1 ELSE vyoe + vera * 400
<1>27. date = <<vy, vm, vd>>
  BY DEF CivilFromDays
<1>1. PICK z : z = vz /\ z = days + 719468
  OBVIOUS
<1> HIDE DEF vz
<1>2. PICK era : era = vera /\ era = z \div 146097
  BY <1>1
<1> HIDE DEF vera
<1>3. PICK doe : doe = vdoe /\ doe = z - era * 146097
  BY <1>1, <1>2
<1> HIDE DEF vdoe
<1>4. PICK yoe : yoe = vyoe /\ yoe = (doe - (doe \div 1460) + (doe \div 36524) - (doe \div 146096)) \div 365
  BY <1>3
<1> HIDE DEF vyoe
<1>5. PICK doy : doy = vdoy /\ doy = doe - (365 * yoe + (yoe \div 4) - (yoe \div 100))
  BY <1>3, <1>4
<1> HIDE DEF vdoy
<1>6. PICK Y : Y = yoe + era * 400
  OBVIOUS
<1>7. PICK mp : mp = vmp /\ mp = (5 * doy + 2) \div 153
  BY <1>5
<1> HIDE DEF vmp
<1>8. PICK d : d = vd /\ d = doy - ((153 * mp + 2) \div 5) + 1
  BY <1>5, <1>7
<1>9. PICK m : m = vm /\ m = IF mp < 10 THEN mp + 3 ELSE mp - 9
  BY <1>7
<1> HIDE DEF vd, vm
<1>10. PICK y : y = vy /\ y = IF m <= 2 THEN Y + 1 ELSE Y
  BY <1>2, <1>4, <1>6, <1>9
<1> HIDE DEF vy
<1>11. date = <<y, m, d>>
  BY <1>8, <1>9, <1>10, <1>27
<1>12. MarchYear(days, Y, doy)
  <2>1. Computed(days, z, era, doe, yoe, doy)
    BY <1>1, <1>2, <1>3, <1>4, <1>5 DEF Computed
  <2>6. MarchYear(days, yoe + era * 400, doy)
    BY <2>1, MarchYearIs
  <2> QED
    BY <1>6, <2>6, Zenon
<1>13. PICK l \in {0, 1} : l = LeapDay(Y + 1)
  BY DEF LeapDay
<1>14. PICK F \in Int : F = Leaps(Y)
  BY <1>12, SMT DEF MarchYear, Leaps
<1>15. /\ Y \in Nat /\ doy \in Int /\ 0 <= doy /\ doy <= 364 + l
       /\ days + 719468 = 365 * Y + F + doy
  BY <1>12, <1>13, <1>14 DEF MarchYear
<1>16. mp \in Int /\ 0 <= mp /\ mp <= 11
  BY <1>7, <1>13, <1>15, SMT
<1>17. m \in 1 .. 12 /\ (m <= 2 <=> mp >= 10)
  <2>1. m \in Int /\ 1 <= m /\ m <= 12 /\ (m <= 2 <=> mp >= 10)
    BY <1>9, <1>16, SMT
  <2> QED
    BY <2>1
<1>18. PICK h \in Int : h = (153 * mp + 2) \div 5
  BY <1>16, SMT
<1>19. d = doy - h + 1 /\ d \in Int /\ 1 <= d
  BY <1>7, <1>8, <1>15, <1>16, <1>18, SMT
<1>20. mp < 11 => doy < (153 * (mp + 1) + 2) \div 5
  BY <1>7, <1>15, <1>16, SMT
<1>21. d <= MonthDays(y, m)
  <2>1. CASE mp < 10
    <3>1. m = mp + 3 /\ m # 2
      BY <1>9, <1>16, <2>1, SMT
    <3>2. MonthDays(y, m) = IF mp \in {1, 3, 6, 8} THEN 30 ELSE 31
      <4>1. m \in {4, 6, 9, 11} <=> mp \in {1, 3, 6, 8}
        BY <1>16, <3>1, SMT
      <4> QED
        BY <3>1, <4>1 DEF MonthDays
    <3>3. d <= IF mp \in {1, 3, 6, 8} THEN 30 ELSE 31
      <4>1. mp \in {0, 1, 2, 3, 4, 5, 6, 7, 8, 9}
        BY <1>16, <2>1, SMT
      <4>2. PICK k \in Int : k = (153 * (mp + 1) + 2) \div 5
        BY <1>16, SMT
      <4>3. d <= k - h
        <5>1. mp < 11
          BY <1>16, <2>1, SMT
        <5>2. doy < k
          BY <1>20, <4>2, <5>1
        <5>3. doy \in Int /\ d = doy - h + 1 /\ h \in Int
          BY <1>15, <1>18, <1>19
        <5> QED
          BY <4>2, <5>2, <5>3, SMT
      <4>4. k - h <= IF mp \in {1, 3, 6, 8} THEN 30 ELSE 31
        BY <1>18, <4>1, <4>2, SMT
      <4> QED
        BY <1>19, <1>18, <4>2, <4>3, <4>4, SMT
    <3> QED
      BY <3>2, <3>3
  <2>2. CASE mp = 10
    <3>1. m = 1 /\ h = 306
      BY <1>9, <1>18, <2>2, SMT
    <3>2. (153 * (mp + 1) + 2) \div 5 = 337
      BY <2>2, SMT
    <3>3. d <= 31
      BY <1>15, <1>19, <1>20, <2>2, <3>1, <3>2, SMT
    <3>4. MonthDays(y, m) = 31
      BY <3>1 DEF MonthDays
    <3> QED
      BY <3>3, <3>4
  <2>3. CASE mp = 11
    <3>1. m = 2 /\ h = 337
      BY <1>9, <1>18, <2>3, SMT
    <3>2. y = Y + 1
      BY <1>10, <3>1, SMT
    <3>3. MonthDays(y, m) = 28 + l
      BY <1>13, <3>1, <3>2 DEF MonthDays, LeapDay
    <3>4. d <= 28 + l
      BY <1>13, <1>15, <1>19, <3>1, SMT
    <3> QED
      BY <3>3, <3>4
  <2> QED
    BY <1>16, <2>1, <2>2, <2>3, SMT
<1>22. d \in 1 .. MonthDays(y, m)
  <2>1. MonthDays(y, m) \in Int
    BY DEF MonthDays
  <2> QED
    BY <1>19, <1>21, <2>1
<1>23. y \in Nat /\ y >= 1970
  <2>1. F <= Y \div 4
    BY <1>14, <1>15, SMT DEF Leaps
  <2>2. Y < 1969 => FALSE
    <3>1. ASSUME Y <= 1968 PROVE F <= 477
      <4>1. Y \div 4 <= 492
        BY <1>15, <3>1, SMT
      <4>2. Y \div 100 >= 0
        BY <1>15, SMT
      <4> QED
        BY <1>14, <1>15, <3>1, SMT DEF Leaps
    <3> QED
      BY <1>13, <1>15, <3>1, SMT
  <2>3. Y = 1969 => mp >= 10
    <3>1. ASSUME Y = 1969 PROVE F = 477
      BY <1>14, <3>1, SMT DEF Leaps
    <3>2. ASSUME Y = 1969 PROVE doy >= 306
      BY <1>15, <3>1, <3>2, SMT
    <3> QED
      BY <1>7, <1>15, <3>2, SMT
  <2> QED
    BY <1>10, <1>15, <1>17, <2>2, <2>3, SMT
<1>24. DayNumber(date) = 365 * (y - 1970) + (Leaps(y - 1) - 477) + DaysTo(y, m - 1) + d - 1
  BY <1>11, <1>17, <1>23, DayNumberIs
<1>25. 365 * (y - 1970) + (Leaps(y - 1) - 477) + DaysTo(y, m - 1) + d - 1 = days
  <2>1. CASE mp < 10
    <3>1. m = mp + 3 /\ y = Y
      BY <1>9, <1>10, <1>16, <2>1, SMT
    <3>2. PICK g \in Int : g = LeapDay(Y)
      BY DEF LeapDay
    <3>3. Leaps(Y) = Leaps(Y - 1) + g /\ Leaps(Y - 1) \in Int
      <4>1. Y \in Nat \ {0}
        BY <1>23, <3>1, SMT
      <4> QED
        BY <3>2, <4>1, LeapsMore
    <3>4. DaysTo(y, m - 1) = h + 59 + g
      <4>1. ~(m - 1 <= 1) /\ (153 * (m - 1 - 2) + 2) \div 5 = h
        BY <1>16, <1>18, <3>1, SMT
      <4> QED
        BY <3>1, <3>2, <4>1 DEF DaysTo
    <3> QED
      BY <1>14, <1>15, <1>18, <1>19, <3>1, <3>2, <3>3, <3>4, SMT
  <2>2. CASE mp >= 10
    <3>1. m = mp - 9 /\ y = Y + 1 /\ y - 1 = Y
      BY <1>9, <1>10, <1>15, <1>16, <2>2, SMT
    <3>2. DaysTo(y, m - 1) = h - 306
      <4>1. m - 1 <= 1 /\ 31 * (m - 1) = h - 306
        BY <1>16, <1>18, <2>2, <3>1, SMT
      <4> QED
        BY <4>1 DEF DaysTo
    <3> QED
      BY <1>14, <1>15, <1>18, <1>19, <3>1, <3>2, SMT
  <2> QED
    BY <1>16, <2>1, <2>2, SMT
<1>26. date[1] = y /\ date[2] = m /\ date[3] = d
  BY <1>11
<1> QED
  BY <1>17, <1>22, <1>24, <1>25, <1>26

\* Every number of days is turned into its date, for reports and for times in risks.
LEMMA DatesThen == DatesAreRight
<1> SUFFICES ASSUME NEW day \in Days, NEW date, date = UnixToRfc3339(4 * day + 3).date
             PROVE  /\ date[2] \in 1..12 /\ date[3] \in 1..MonthDays(date[1], date[2])
                    /\ DayNumber(date) = day
  BY DEF DatesAreRight
<1>1. day \in Nat
  BY SessionAssumption
<1>2. (4 * day + 3) \div 4 = day
  BY <1>1, SMT
<1>3. date = CivilFromDays(day)
  BY <1>2 DEF UnixToRfc3339
<1> QED
  BY <1>1, <1>3, DateIs

-----------------------------------------------------------------------------
(***************************************************************************)
(* The inductive invariant of a session.                                   *)
(***************************************************************************)
SessionInv ==
  Composed /\ RunsAreExact /\ StoreInv /\ ProfilesResolveExactly /\ ReportIsConsistent

\* The invariant holds when a session starts.
LEMMA SessionFirst == Init => SessionInv
<1> SUFFICES ASSUME Init PROVE SessionInv
  OBVIOUS
<1>1. out.op = "none"
  BY DEF Init
<1>2. RunsAreExact
  BY <1>1 DEF RunsAreExact
<1>3. ProfilesResolveExactly
  BY <1>1 DEF ProfilesResolveExactly, CyclesAreCycles, OverridesAreAtomic, CatalogIsFaithful
<1>4. ReportIsConsistent
  BY <1>1 DEF ReportIsConsistent
<1> QED
  BY <1>2, <1>3, <1>4, ComposedFirst, StoreFirst DEF SessionInv

\* Every step of a session keeps the invariant.
LEMMA SessionStays == SessionInv /\ [Next]_vars => SessionInv'
BY ComposedStays, RunsStay, StoreStays, ProfilesStay, ReportsStay DEF SessionInv

\* The invariant holds at all times.
LEMMA SessionHolds == Spec => []SessionInv
BY SessionFirst, SessionStays, PTL DEF Spec

(***************************************************************************)
(* For every runner a session composes, every chain and every result its   *)
(* lints may have: run_chain, run_cert_at_issuance and run_path report each*)
(* lint of the scope once for every item, or not at all after a fatal one, *)
(* and the findings and the waived ones together are all that was reported.*)
(***************************************************************************)
THEOREM NothingLaundered == Spec => []NothingVanishes
<1>1. SessionInv => NothingVanishes
  BY NothingVanishesThen DEF SessionInv
<1> QED
  BY <1>1, SessionHolds, PTL

(***************************************************************************)
(* Whatever deviations are added, saved and loaded, in whatever order: a   *)
(* finding is waived exactly if a deviation as its author wrote it targets *)
(* the lint, is in time and covers a certificate the finding is about, and *)
(* it names the one with the highest priority that was written first.      *)
(* Serial numbers of any length are compared as the numbers they are.      *)
(***************************************************************************)
THEOREM WaiversExact == Spec => []DeviationsAreExact
<1>1. SessionInv => DeviationsAreExact
  BY DeviationsThen DEF SessionInv
<1> QED
  BY <1>1, SessionHolds, PTL

(***************************************************************************)
(* For any profiles and catalogs that import each other: resolve_profile   *)
(* refuses for a cycle exactly if there is one; overrides are applied as a *)
(* whole, the outermost profile last and each to the lint with the longest *)
(* id, or not at all; and a runner composed from the catalog of its own    *)
(* lints is that runner.                                                   *)
(***************************************************************************)
THEOREM ProfilesExact == Spec => []ProfilesResolveExactly
<1>1. SessionInv => ProfilesResolveExactly
  BY DEF SessionInv
<1> QED
  BY <1>1, SessionHolds, PTL

(***************************************************************************)
(* For any store, report and day: a saved store loads again, unless a scope*)
(* in it cannot be told from JSON; a report repeats no uuid, refers to the *)
(* evidence of each finding and counts the findings that matter; and every *)
(* day since 1970 is written as the date of the Gregorian calendar.        *)
(***************************************************************************)
THEOREM DocumentsExact == Spec => []DocumentsAreExact
<1>1. SessionInv => DocumentsAreExact
  BY DatesThen DEF SessionInv, StoreInv, DocumentsAreExact
<1> QED
  BY <1>1, SessionHolds, PTL

=============================================================================
