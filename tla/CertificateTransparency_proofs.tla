-------------------- MODULE CertificateTransparency_proofs --------------------
(***************************************************************************)
(* SctVerdictsAreExact and TreeProofsAreExact for any logs, certificates,  *)
(* dates and times, trees of any size, however many SCTs are signed and    *)
(* however much is wrong with what is presented.                           *)
(***************************************************************************)
EXTENDS CertificateTransparency, FiniteSetTheorems, WellFoundedInduction, TLAPS

-----------------------------------------------------------------------------
(* Numbers and lists of checks. *)

\* A non-empty set of natural numbers has a smallest element.
LEMMA Smallest ==
  ASSUME NEW S \in SUBSET Nat, S # {}
  PROVE  \E x \in S : \A y \in S : x <= y
<1> DEFINE R == OpToRel(<, Nat)
<1>1. PICK x \in S : \A y \in S : ~(<<y, x>> \in R)
  <2>1. IsWellFoundedOn(R, Nat)
    BY NatLessThanWellFounded
  <2> HIDE DEF R
  <2> QED
    BY <2>1, WFMin
<1>2. ASSUME NEW y \in S, y < x PROVE FALSE
  <2>1. <<y, x>> \in R
    BY <1>2 DEF OpToRel
  <2> QED
    BY <1>1, <2>1
<1>3. \A y \in S : ~(y < x)
  BY <1>2
<1>4. \A y \in S : x <= y
  BY <1>3
<1> QED
  BY <1>4

\* The errors of the library.
ErrorNames ==
  {"CertDerTooLong", "InvalidSignature", "LeafMissingSctList", "LogKeyMalformed", "ParseError",
   "SctTimestampOutsideLogWindow", "UnknownLog", "UnsupportedSignatureAlgorithm",
   "UnsupportedVersion"}
Lists == Seq(BOOLEAN \X ErrorNames)
Failing(checks) == {i \in DOMAIN checks : checks[i][1]}

\* Checks that carry their error, "Ok" in none that fails, say Ok if and only
\* if none fails.
LEMMA OkOf ==
  ASSUME NEW c, DOMAIN c \in SUBSET Nat, \A i \in DOMAIN c : c[i][1] => c[i][2] # "Ok"
  PROVE  FirstError(c) = "Ok" <=> Failing(c) = {}
<1>1. Failing(c) = {} => FirstError(c) = "Ok"
  BY DEF FirstError, Failing
<1>2. ASSUME Failing(c) # {} PROVE FirstError(c) # "Ok"
  <2>1. Failing(c) \in SUBSET Nat
    BY DEF Failing
  <2>2. \E x \in Failing(c) : \A y \in Failing(c) : x <= y
    BY <1>2, <2>1, Smallest
  <2>3. PICK k : k = CHOOSE x \in Failing(c) : \A y \in Failing(c) : x <= y
    OBVIOUS
  <2>4. k \in Failing(c)
    BY <2>2, <2>3
  <2>5. FirstError(c) = c[k][2]
    BY <1>2, <2>3 DEF FirstError, Failing
  <2> QED
    BY <2>4, <2>5 DEF Failing
<1> QED
  BY <1>1, <1>2

\* The same of a list with the errors of the library.
LEMMA OkOfList ==
  ASSUME NEW c \in Lists
  PROVE  FirstError(c) = "Ok" <=> Failing(c) = {}
<1>1. DOMAIN c \in SUBSET Nat /\ \A i \in DOMAIN c : c[i] \in BOOLEAN \X ErrorNames
  BY DEF Lists
<1>2. "Ok" \notin ErrorNames
  BY DEF ErrorNames
<1>3. \A i \in DOMAIN c : c[i][2] # "Ok"
  BY <1>1, <1>2
<1> QED
  BY <1>1, <1>3, OkOf

\* Two lists one after the other.
LEMMA Joined ==
  ASSUME NEW a \in Lists, NEW b \in Lists
  PROVE  /\ a \o b \in Lists
         /\ Failing(a \o b) = {} <=> Failing(a) = {} /\ Failing(b) = {}
<1>1. PICK c : c = a \o b
  OBVIOUS
<1>2. PICK m : m = Len(a)
  OBVIOUS
<1>3. PICK n : n = Len(b)
  OBVIOUS
<1>4. /\ m \in Nat /\ n \in Nat /\ DOMAIN a = 1 .. m /\ DOMAIN b = 1 .. n
      /\ c \in Lists /\ DOMAIN c = 1 .. m + n
      /\ \A i \in 1 .. m : c[i] = a[i]
      /\ \A i \in 1 .. n : c[m + i] = b[i]
  <2> DEFINE S == BOOLEAN \X ErrorNames
  <2>1. a \in Seq(S) /\ b \in Seq(S)
    BY DEF Lists
  <2> HIDE DEF S
  <2>2. m \in Nat /\ n \in Nat /\ DOMAIN a = 1 .. m /\ DOMAIN b = 1 .. n
    BY <1>2, <1>3, <2>1
  <2>3. c \in Seq(S) /\ Len(c) = m + n
    BY <1>1, <1>2, <1>3, <2>1
  <2>4. DOMAIN c = 1 .. m + n
    BY <2>3
  <2>5. \A i \in 1 .. m : c[i] = a[i]
    BY <1>1, <1>2, <1>3, <2>1
  <2>6. \A i \in 1 .. n : c[m + i] = b[i]
    BY <1>1, <1>2, <1>3, <2>1
  <2>7. c \in Lists
    BY <2>3 DEF Lists, S
  <2> QED
    BY <2>2, <2>4, <2>5, <2>6, <2>7
<1>5. \A i \in 1 .. m : i \in Failing(c) <=> i \in Failing(a)
  BY <1>4 DEF Failing
<1>6. \A i \in 1 .. n : m + i \in Failing(c) <=> i \in Failing(b)
  BY <1>4 DEF Failing
<1>7. Failing(a) \subseteq 1 .. m /\ Failing(b) \subseteq 1 .. n /\ Failing(c) \subseteq 1 .. m + n
  BY <1>4 DEF Failing
<1>8. ASSUME NEW i \in Failing(c) PROVE i \in Failing(a) \/ i - m \in Failing(b)
  <2>1. i \in 1 .. m + n
    BY <1>7, <1>8
  <2>2. i \in 1 .. m \/ (i - m \in 1 .. n /\ m + (i - m) = i)
    BY <1>4, <2>1
  <2> QED
    BY <1>5, <1>6, <1>8, <2>2
<1>9. ASSUME NEW i \in Failing(a) PROVE i \in Failing(c)
  BY <1>5, <1>7
<1>10. ASSUME NEW i \in Failing(b) PROVE m + i \in Failing(c)
  BY <1>6, <1>7
<1> QED
  BY <1>1, <1>4, <1>8, <1>9, <1>10

\* The empty list.
LEMMA NoChecks == <<>> \in Lists /\ Failing(<<>>) = {}
BY DEF Lists, Failing

\* A list of one check.
LEMMA List1 ==
  ASSUME NEW x1 \in BOOLEAN, NEW e1 \in ErrorNames, NEW s, s = << <<x1, e1>> >>
  PROVE  s \in Lists /\ (Failing(s) = {} <=> ~x1)
<1> DEFINE S == BOOLEAN \X ErrorNames
<1>1. <<x1, e1>> \in S
  OBVIOUS
<1>2. s \in Seq(S) /\ DOMAIN s = 1 .. 1
  <2> HIDE DEF S
  <2> QED
    BY <1>1
<1>3. \A i \in Failing(s) : i = 1
  BY <1>2 DEF Failing
<1>4. 1 \in Failing(s) <=> x1
  BY <1>2 DEF Failing
<1>5. Failing(s) = {} <=> ~x1
  BY <1>3, <1>4, Zenon
<1> QED
  BY <1>2, <1>5 DEF Lists

\* A list of two checks.
LEMMA List2 ==
  ASSUME NEW x1 \in BOOLEAN, NEW x2 \in BOOLEAN, NEW e1 \in ErrorNames, NEW e2 \in ErrorNames,
         NEW s, s = << <<x1, e1>>, <<x2, e2>> >>
  PROVE  s \in Lists /\ (Failing(s) = {} <=> ~x1 /\ ~x2)
<1> DEFINE S == BOOLEAN \X ErrorNames
<1>1. <<x1, e1>> \in S /\ <<x2, e2>> \in S
  OBVIOUS
<1>2. s \in Seq(S) /\ DOMAIN s = 1 .. 2
  <2> HIDE DEF S
  <2> QED
    BY <1>1
<1>3. \A i \in Failing(s) : i = 1 \/ i = 2
  BY <1>2 DEF Failing
<1>4. (1 \in Failing(s) <=> x1) /\ (2 \in Failing(s) <=> x2)
  BY <1>2 DEF Failing
<1>5. Failing(s) = {} <=> ~x1 /\ ~x2
  BY <1>3, <1>4, Zenon
<1> QED
  BY <1>2, <1>5 DEF Lists

\* A list of three checks.
LEMMA List3 ==
  ASSUME NEW x1 \in BOOLEAN, NEW x2 \in BOOLEAN, NEW x3 \in BOOLEAN,
         NEW e1 \in ErrorNames, NEW e2 \in ErrorNames, NEW e3 \in ErrorNames,
         NEW s, s = << <<x1, e1>>, <<x2, e2>>, <<x3, e3>> >>
  PROVE  s \in Lists /\ (Failing(s) = {} <=> ~x1 /\ ~x2 /\ ~x3)
<1> DEFINE S == BOOLEAN \X ErrorNames
<1>1. <<x1, e1>> \in S /\ <<x2, e2>> \in S /\ <<x3, e3>> \in S
  OBVIOUS
<1>2. s \in Seq(S) /\ DOMAIN s = 1 .. 3
  <2> HIDE DEF S
  <2> QED
    BY <1>1
<1>3. \A i \in Failing(s) : i = 1 \/ i = 2 \/ i = 3
  BY <1>2 DEF Failing
<1>4. (1 \in Failing(s) <=> x1) /\ (2 \in Failing(s) <=> x2) /\ (3 \in Failing(s) <=> x3)
  BY <1>2 DEF Failing
<1>5. Failing(s) = {} <=> ~x1 /\ ~x2 /\ ~x3
  BY <1>3, <1>4, Zenon
<1> QED
  BY <1>2, <1>5 DEF Lists

\* A list of four checks.
LEMMA List4 ==
  ASSUME NEW r1 \in BOOLEAN \X ErrorNames, NEW r2 \in BOOLEAN \X ErrorNames,
         NEW r3 \in BOOLEAN \X ErrorNames, NEW r4 \in BOOLEAN \X ErrorNames,
         NEW s, s = <<r1, r2, r3, r4>>
  PROVE  s \in Lists /\ (Failing(s) = {} <=> ~r1[1] /\ ~r2[1] /\ ~r3[1] /\ ~r4[1])
<1> DEFINE S == BOOLEAN \X ErrorNames
<1>1. s \in Seq(S) /\ DOMAIN s = 1 .. 4
  <2>1. r1 \in S /\ r2 \in S /\ r3 \in S /\ r4 \in S
    OBVIOUS
  <2> HIDE DEF S
  <2> QED
    BY <2>1
<1>2. \A i \in Failing(s) : i = 1 \/ i = 2 \/ i = 3 \/ i = 4
  BY <1>1 DEF Failing
<1>3. /\ 1 \in Failing(s) <=> r1[1]
      /\ 2 \in Failing(s) <=> r2[1]
      /\ 3 \in Failing(s) <=> r3[1]
      /\ 4 \in Failing(s) <=> r4[1]
  BY <1>1 DEF Failing
<1>4. Failing(s) = {} <=> ~r1[1] /\ ~r2[1] /\ ~r3[1] /\ ~r4[1]
  BY <1>2, <1>3, Zenon
<1> QED
  BY <1>1, <1>4 DEF Lists

-----------------------------------------------------------------------------
(* The states of a log. *)

\* How far a log has come.
Rank == [absent |-> 0, pending |-> 0, qualified |-> 1, usable |-> 2, readonly |-> 3,
         retired |-> 4, rejected |-> 5]

\* A history: one state follows the other and none comes back.
Course(h) ==
  /\ h \in Seq([state : LogStates, at : Nat]) /\ Len(h) > 0
  /\ \A i \in 1 .. Len(h) : i < Len(h) => h[i + 1].state \in Successors[h[i].state]
  /\ \A i, j \in 1 .. Len(h) : i < j => Rank[h[i].state] < Rank[h[j].state]

\* The first state.
LEMMA FirstState ==
  ASSUME NEW s \in LogStates, NEW t \in Nat, NEW h, h = << [state |-> s, at |-> t] >>
  PROVE  Course(h)
<1> DEFINE R == [state : LogStates, at : Nat]
<1>1. [state |-> s, at |-> t] \in R
  OBVIOUS
<1>2. h \in Seq(R) /\ Len(h) = 1
  <2> HIDE DEF R
  <2> QED
    BY <1>1
<1>3. \A i \in 1 .. Len(h) : i = 1
  BY <1>2
<1> QED
  BY <1>2, <1>3 DEF Course

\* A state goes up in rank.
LEMMA Onward ==
  ASSUME NEW s \in LogStates, NEW u \in Successors[s]
  PROVE  u \in LogStates /\ Rank[s] < Rank[u]
BY DEF LogStates, Successors, Rank

\* Ranks are numbers.
LEMMA RankType == \A s \in LogStates : Rank[s] \in Nat
BY DEF LogStates, Rank

\* The next state.
LEMMA NextState ==
  ASSUME NEW h, Course(h), NEW s \in Successors[h[Len(h)].state], NEW t \in Nat,
         NEW g, g = Append(h, [state |-> s, at |-> t])
  PROVE  Course(g)
<1> DEFINE R == [state : LogStates, at : Nat]
<1>1. PICK n : n = Len(h)
  OBVIOUS
<1>2. h \in Seq(R) /\ n \in Nat /\ n > 0 /\ DOMAIN h = 1 .. n
  BY <1>1 DEF Course
<1>3. \A i \in 1 .. n : h[i] \in R
  <2> HIDE DEF R
  <2> QED
    BY <1>2
<1>4. \A i \in 1 .. n : h[i].state \in LogStates /\ Rank[h[i].state] \in Nat
  BY <1>3, RankType
<1>5. s \in LogStates /\ Rank[h[n].state] < Rank[s] /\ Rank[s] \in Nat
  BY <1>1, <1>2, <1>4, Onward, RankType
<1>6. PICK r : r = [state |-> s, at |-> t]
  OBVIOUS
<1>7. r \in R /\ r.state = s
  BY <1>5, <1>6
<1>8. /\ g \in Seq(R) /\ Len(g) = n + 1
      /\ \A i \in 1 .. n : g[i] = h[i]
      /\ g[n + 1] = r
  <2> HIDE DEF R
  <2> QED
    BY <1>1, <1>2, <1>6, <1>7
<1>9. ASSUME NEW i \in 1 .. n + 1, i < n + 1
      PROVE  g[i + 1].state \in Successors[g[i].state]
  <2>1. CASE i < n
    <3>1. i \in 1 .. n /\ i + 1 \in 1 .. n
      BY <1>2, <1>9, <2>1
    <3>2. h[i + 1].state \in Successors[h[i].state]
      BY <1>1, <2>1, <3>1 DEF Course
    <3> QED
      BY <1>8, <3>1, <3>2
  <2>2. CASE i = n
    BY <1>1, <1>2, <1>7, <1>8, <2>2
  <2> QED
    BY <1>2, <1>9, <2>1, <2>2
<1>10. ASSUME NEW i \in 1 .. n + 1, NEW j \in 1 .. n + 1, i < j
       PROVE  Rank[g[i].state] < Rank[g[j].state]
  <2>1. i \in 1 .. n
    BY <1>2, <1>10
  <2>2. CASE j \in 1 .. n
    <3>1. Rank[h[i].state] < Rank[h[j].state]
      BY <1>1, <1>10, <2>1, <2>2 DEF Course
    <3> QED
      BY <1>8, <2>1, <2>2, <3>1
  <2>3. CASE j = n + 1
    <3>1. i = n \/ Rank[h[i].state] < Rank[h[n].state]
      <4>1. i = n \/ i < n
        BY <1>2, <2>1
      <4>2. n \in 1 .. n
        BY <1>2
      <4> QED
        BY <1>1, <2>1, <4>1, <4>2 DEF Course
    <3>2. Rank[h[i].state] < Rank[s]
      BY <1>2, <1>4, <1>5, <2>1, <3>1
    <3> QED
      BY <1>7, <1>8, <2>1, <2>3, <3>2
  <2> QED
    BY <1>2, <2>2, <2>3
<1> QED
  BY <1>2, <1>8, <1>9, <1>10 DEF Course

\* What a history consists of.
LEMMA CourseType ==
  ASSUME NEW h, Course(h)
  PROVE  /\ Len(h) \in Nat /\ Len(h) > 0 /\ DOMAIN h = 1 .. Len(h)
         /\ \A j \in 1 .. Len(h) : h[j].state \in LogStates /\ h[j].at \in Nat
<1> DEFINE R == [state : LogStates, at : Nat]
<1>1. h \in Seq(R) /\ Len(h) > 0
  BY DEF Course
<1>2. Len(h) \in Nat /\ DOMAIN h = 1 .. Len(h) /\ \A j \in 1 .. Len(h) : h[j] \in R
  <2> HIDE DEF R
  <2> QED
    BY <1>1
<1> QED
  BY <1>1, <1>2

\* A log is usable once, and what follows is the first state in which it
\* takes no more submissions.
LEMMA UsableOnce ==
  ASSUME NEW h, Course(h), NEW i \in 1 .. Len(h), h[i].state = "usable"
  PROVE  /\ h[i].at \in Nat
         /\ \A j \in 1 .. Len(h) : h[j].state = "usable" => j = i
         /\ \A j \in 1 .. Len(h) : h[j].state \in {"readonly", "retired"} => i < j
         /\ i < Len(h) => h[i + 1].state \in {"readonly", "retired"} /\ h[i + 1].at \in Nat
<1>1. \A j \in 1 .. Len(h) : h[j].state \in LogStates /\ h[j].at \in Nat
  BY CourseType
<1>2. Len(h) \in Nat
  BY CourseType
<1>3. ASSUME NEW j \in 1 .. Len(h)
      PROVE  /\ h[j].state = "usable" => j = i
             /\ h[j].state \in {"readonly", "retired"} => i < j
  <2>1. i < j => Rank["usable"] < Rank[h[j].state]
    BY DEF Course
  <2>2. j < i => Rank[h[j].state] < Rank["usable"]
    BY DEF Course
  <2>3. Rank["usable"] = 2 /\ Rank["readonly"] = 3 /\ Rank["retired"] = 4
    BY DEF Rank
  <2>4. i < j \/ j < i \/ i = j
    BY <1>2
  <2>5. h[j].state = "usable" => j = i
    BY <2>1, <2>2, <2>3, <2>4
  <2>6. h[j].state \in {"readonly", "retired"} => i < j
    BY <2>1, <2>2, <2>3, <2>4
  <2> QED
    BY <2>5, <2>6
<1>4. ASSUME i < Len(h) PROVE h[i + 1].state \in {"readonly", "retired"} /\ h[i + 1].at \in Nat
  <2>1. i + 1 \in 1 .. Len(h)
    BY <1>2, <1>4
  <2>2. h[i + 1].state \in Successors["usable"]
    BY <1>4 DEF Course
  <2> QED
    BY <1>1, <2>1, <2>2 DEF Successors
<1> QED
  BY <1>1, <1>3, <1>4

\* The times a log with this history is usable.
UsableIn(h, t) ==
  \E i \in DOMAIN h : /\ h[i].state = "usable" /\ h[i].at <= t
                      /\ i = Len(h) \/ t < h[i + 1].at

\* The window that a client builds from what it knows.
LEMMA ClientWindow ==
  ASSUME NEW l, Course(history[l]), NEW t \in Nat,
         NEW e, e.usable_from = TimeOf(l, {"usable"}), e.retired_at = TimeOf(l, {"readonly", "retired"})
  PROVE  LogWindowContains(e, t) <=> UsableIn(history[l], t)
<1>1. PICK h : h = history[l]
  OBVIOUS
<1> DEFINE In == {i \in DOMAIN h : h[i].state \in {"usable"}}
           Out == {i \in DOMAIN h : h[i].state \in {"readonly", "retired"}}
<1>2. /\ Course(h)
      /\ e.usable_from = IF In = {} THEN None ELSE h[CHOOSE i \in In : \A j \in In : i <= j].at
      /\ e.retired_at = IF Out = {} THEN None ELSE h[CHOOSE i \in Out : \A j \in Out : i <= j].at
  BY <1>1 DEF TimeOf
<1>3. /\ Len(h) \in Nat /\ DOMAIN h = 1 .. Len(h)
      /\ \A j \in 1 .. Len(h) : h[j].state \in LogStates /\ h[j].at \in Nat
  BY <1>2, CourseType
<1>4. CASE In = {}
  <2>1. e.usable_from = None
    BY <1>2, <1>4
  <2>2. \A i \in DOMAIN h : h[i].state # "usable"
    BY <1>4
  <2> QED
    BY <1>1, <2>1, <2>2 DEF LogWindowContains, UsableIn
<1>5. CASE In # {}
  <2>1. PICK u \in 1 .. Len(h) : h[u].state = "usable"
    BY <1>3, <1>5
  <2>2. /\ h[u].at \in Nat
        /\ \A j \in 1 .. Len(h) : h[j].state = "usable" => j = u
        /\ \A j \in 1 .. Len(h) : h[j].state \in {"readonly", "retired"} => u < j
        /\ u < Len(h) => h[u + 1].state \in {"readonly", "retired"} /\ h[u + 1].at \in Nat
    BY <1>2, <2>1, UsableOnce
  <2>3. In = {u}
    BY <1>3, <2>1, <2>2
  <2>4. e.usable_from = h[u].at
    <3>1. PICK k : k = CHOOSE i \in In : \A j \in In : i <= j
      OBVIOUS
    <3>2. k = u
      <4>1. u \in In /\ \A j \in In : u <= j
        BY <2>1, <2>3
      <4>2. k \in In
        BY <3>1, <4>1
      <4> QED
        BY <2>3, <4>2
    <3> QED
      BY <1>2, <1>5, <3>1, <3>2
  <2>5. UsableIn(h, t) <=> h[u].at <= t /\ (u = Len(h) \/ t < h[u + 1].at)
    BY <1>3, <2>1, <2>2 DEF UsableIn
  <2>6. CASE u = Len(h)
    <3>1. Out = {}
      <4> SUFFICES ASSUME NEW j \in DOMAIN h, h[j].state \in {"readonly", "retired"} PROVE FALSE
        OBVIOUS
      <4>1. j \in 1 .. Len(h) /\ u < j
        BY <1>3, <2>2
      <4> QED
        BY <1>3, <2>6, <4>1
    <3>2. e.retired_at = None
      BY <1>2, <3>1
    <3>3. LogWindowContains(e, t) <=> h[u].at <= t
      BY <2>2, <2>4, <3>2 DEF LogWindowContains, None
    <3> QED
      BY <1>1, <2>5, <2>6, <3>3
  <2>7. CASE u < Len(h)
    <3>1. u + 1 \in Out /\ \A j \in Out : u + 1 <= j
      BY <1>3, <2>1, <2>2, <2>7
    <3>2. PICK k : k = CHOOSE i \in Out : \A j \in Out : i <= j
      OBVIOUS
    <3>3. k \in Out /\ \A j \in Out : k <= j
      BY <3>1, <3>2
    <3>4. k = u + 1
      <4>1. k \in 1 .. Len(h) /\ u + 1 \in 1 .. Len(h)
        BY <1>3, <3>1, <3>3
      <4>2. k <= u + 1 /\ u + 1 <= k
        BY <3>1, <3>3
      <4> QED
        BY <1>3, <4>1, <4>2
    <3>5. e.retired_at = h[u + 1].at /\ h[u + 1].at \in Nat
      BY <1>2, <2>2, <2>7, <3>1, <3>2, <3>4
    <3>6. LogWindowContains(e, t) <=> h[u].at <= t /\ t < h[u + 1].at
      BY <2>2, <2>4, <3>5 DEF LogWindowContains, None
    <3> QED
      BY <1>1, <1>3, <2>1, <2>5, <2>7, <3>6
  <2>8. u = Len(h) \/ u < Len(h)
    <3>1. Len(h) \in Nat
      BY <1>3
    <3> QED
      BY <3>1
  <2> QED
    BY <2>6, <2>7, <2>8, Zenon
<1> QED
  BY <1>4, <1>5

-----------------------------------------------------------------------------
(* The list of logs. *)

\* A finite set and the sequence of its elements.
LEMMA InSequence ==
  ASSUME NEW S, IsFiniteSet(S), NEW s, s = SetToSeq(S)
  PROVE  /\ DOMAIN s \in SUBSET Nat
         /\ \A i \in DOMAIN s : s[i] \in S
         /\ \A x \in S : \E i \in DOMAIN s : s[i] = x
         /\ \A i, j \in DOMAIN s : s[i] = s[j] => i = j
<1>1. PICK n : n = Cardinality(S)
  OBVIOUS
<1>2. n \in Nat /\ ExistsBijection(1 .. n, S)
  BY <1>1, FS_CardinalityType
<1>3. \E f \in [1 .. n -> S] : IsInjective(f)
  BY <1>2 DEF ExistsBijection, Bijection, Injection
<1>4. s \in [1 .. n -> S] /\ IsInjective(s)
  BY <1>1, <1>3 DEF SetToSeq
<1>5. s \in Injection(1 .. n, S)
  BY <1>4 DEF Injection
<1>6. Cardinality(1 .. n) = n
  <2>1. 1 \in Int /\ n \in Int
    BY <1>2
  <2> QED
    BY <1>2, <2>1, FS_Interval
<1>7. s \in Surjection(1 .. n, S)
  BY <1>1, <1>5, <1>6, FS_Injection
<1> QED
  BY <1>4, <1>7 DEF Surjection, IsInjective

\* The logs that are not excluded differ in their identifiers.
Distinct(s) ==
  \A i, j \in DOMAIN s : ~IsExcluded(s[i]) /\ ~IsExcluded(s[j]) /\ s[i].id = s[j].id => i = j

\* There is one entry for each log that is not excluded.
OneForEach(s, logs) ==
  /\ \A i \in DOMAIN s : ~IsExcluded(s[i]) => s[i].id \in DOMAIN logs /\ logs[s[i].id] = CtLog(s[i])
  /\ \A id \in DOMAIN logs : \E i \in DOMAIN s : ~IsExcluded(s[i]) /\ s[i].id = id

\* What is read from a sequence of logs with different identifiers.
LEMMA FromSequence ==
  ASSUME NEW json, NEW s, s = json.logs, NEW logs, logs = FromGoogleLogList(json),
         DOMAIN s \in SUBSET Nat, Distinct(s)
  PROVE  OneForEach(s, logs)
<1> DEFINE kept == {i \in DOMAIN s : ~IsExcluded(s[i])}
           Latest(id) == CHOOSE i \in kept :
                         s[i].id = id /\ \A j \in kept : s[j].id = id => j <= i
<1>1. logs = [id \in {s[i].id : i \in kept} |-> CtLog(s[Latest(id)])]
  BY DEF FromGoogleLogList
<1>2. ASSUME NEW i \in kept PROVE logs[s[i].id] = CtLog(s[i])
  <2>1. PICK k : k = Latest(s[i].id)
    OBVIOUS
  <2>2. \A j \in kept : s[j].id = s[i].id => j <= i
    <3> SUFFICES ASSUME NEW j \in kept, s[j].id = s[i].id PROVE j <= i
      OBVIOUS
    <3>1. j = i /\ i \in Nat
      BY DEF Distinct
    <3> QED
      BY <3>1
  <2>3. k \in kept /\ s[k].id = s[i].id
    BY <2>1, <2>2
  <2>4. k = i
    BY <2>3 DEF Distinct
  <2>5. logs[s[i].id] = CtLog(s[Latest(s[i].id)])
    BY <1>1
  <2> QED
    BY <2>1, <2>4, <2>5
<1>3. DOMAIN logs = {s[i].id : i \in kept}
  BY <1>1
<1> QED
  BY <1>2, <1>3 DEF OneForEach

\* A log of the list that is read whole is known by its own identifier.
LEMMA ReadWhole ==
  ASSUME NEW log, LogError(log) = "Ok", ~IsExcluded(log)
  PROVE  log.id = log.key.name
<1>1. PICK x1 \in BOOLEAN : x1 = (log.idForm # "base64")
  OBVIOUS
<1>2. PICK x2 \in BOOLEAN : x2 = (log.keyForm # "base64")
  OBVIOUS
<1>3. PICK x3 \in BOOLEAN : x3 = (log.state \in {"usable", "retired", "readonly"} /\ log.atForm # "rfc3339")
  OBVIOUS
<1>4. PICK x4 \in BOOLEAN : x4 = (log.id # log.key.name)
  OBVIOUS
<1>5. PICK e \in ErrorNames : e = "ParseError"
  BY DEF ErrorNames
<1>6. PICK c : c = LogChecks(log)
  OBVIOUS
<1>7. PICK r1 \in BOOLEAN \X ErrorNames, r2 \in BOOLEAN \X ErrorNames,
           r3 \in BOOLEAN \X ErrorNames, r4 \in BOOLEAN \X ErrorNames :
        r1 = <<x1, e>> /\ r2 = <<x2, e>> /\ r3 = <<x3, e>> /\ r4 = <<x4, e>>
  OBVIOUS
<1>8. c \in Lists /\ (Failing(c) = {} => ~x4)
  <2>1. c = <<r1, r2, r3, r4>>
    BY <1>1, <1>2, <1>3, <1>4, <1>5, <1>6, <1>7 DEF LogChecks
  <2>2. c \in Lists /\ (Failing(c) = {} <=> ~r1[1] /\ ~r2[1] /\ ~r3[1] /\ ~r4[1])
    BY <2>1, List4
  <2> QED
    BY <1>7, <2>2
<1>9. FirstError(c) = "Ok"
  BY <1>6 DEF LogError
<1> QED
  BY <1>4, <1>8, <1>9, OkOfList

\* The list that a client reads: an entry for each log, but for those that are
\* excluded, as the JSON has it.
LEMMA JsonList ==
  ASSUME NEW damage, NEW json, NEW logs,
         json.logs = SetToSeq({JsonLog(l, damage) : l \in Logs}),
         FirstError(ListChecks(json)) = "Ok", logs = FromGoogleLogList(json)
  PROVE  /\ \A l \in Logs : ~IsExcluded(JsonLog(l, damage)) =>
              l \in DOMAIN logs /\ logs[l] = CtLog(JsonLog(l, damage))
         /\ \A l \in DOMAIN logs : l \in Logs /\ ~IsExcluded(JsonLog(l, damage))
<1> DEFINE S == {JsonLog(l, damage) : l \in Logs}
<1>1. IsFiniteSet(S)
  <2>1. IsFiniteSet(Logs)
    BY CtAssumption
  <2> DEFINE f == [l \in Logs |-> JsonLog(l, damage)]
  <2>2. f \in Surjection(Logs, S)
    BY DEF Surjection
  <2> HIDE DEF f, S
  <2> QED
    BY <2>1, <2>2, FS_Surjection
<1>2. PICK s : s = json.logs
  OBVIOUS
<1>3. /\ DOMAIN s \in SUBSET Nat
      /\ \A i \in DOMAIN s : s[i] \in S
      /\ \A x \in S : \E i \in DOMAIN s : s[i] = x
      /\ \A i, j \in DOMAIN s : s[i] = s[j] => i = j
  <2>1. s = SetToSeq(S)
    BY <1>2
  <2> HIDE DEF S
  <2> QED
    BY <1>1, <2>1, InSequence
<1>4. json.form = "object"
  <2>1. ASSUME json.form # "object" PROVE FALSE
    <3>1. ListChecks(json) = << <<TRUE, "ParseError">> >>
      BY <2>1 DEF ListChecks
    <3>2. PICK c : c = ListChecks(json)
      OBVIOUS
    <3>3. "ParseError" \in ErrorNames
      BY DEF ErrorNames
    <3>4. c \in Lists /\ Failing(c) # {}
      BY <3>1, <3>2, <3>3, List1
    <3> QED
      BY <3>2, <3>4, OkOfList
  <2> QED
    BY <2>1
<1>5. \A i \in DOMAIN s : LogError(s[i]) = "Ok"
  <2>1. PICK c : c = ListChecks(json)
    OBVIOUS
  <2>2. c = [i \in DOMAIN s |-> <<LogError(s[i]) # "Ok", LogError(s[i])>>]
    BY <1>2, <1>4, <2>1 DEF ListChecks
  <2>3. /\ DOMAIN c = DOMAIN s
        /\ \A i \in DOMAIN s : c[i][1] = (LogError(s[i]) # "Ok") /\ c[i][2] = LogError(s[i])
    BY <2>2
  <2>4. DOMAIN c \in SUBSET Nat /\ \A i \in DOMAIN c : c[i][1] => c[i][2] # "Ok"
    BY <1>3, <2>3
  <2>5. Failing(c) = {}
    BY <2>1, <2>4, OkOf
  <2> QED
    BY <2>3, <2>5 DEF Failing
<1>6. ASSUME NEW l \in Logs PROVE JsonLog(l, damage).key.name = l
  BY <1>6, CtAssumption DEF JsonLog
<1>7. ASSUME NEW i \in DOMAIN s, ~IsExcluded(s[i])
      PROVE  \E l \in Logs : s[i] = JsonLog(l, damage) /\ s[i].id = l
  <2>1. PICK l \in Logs : s[i] = JsonLog(l, damage)
    BY <1>3
  <2>2. s[i].id = s[i].key.name
    BY <1>5, <1>7, ReadWhole
  <2> QED
    BY <1>6, <2>1, <2>2
<1>8. Distinct(s)
  <2> SUFFICES ASSUME NEW i \in DOMAIN s, NEW j \in DOMAIN s,
                      ~IsExcluded(s[i]), ~IsExcluded(s[j]), s[i].id = s[j].id
               PROVE  i = j
    BY DEF Distinct
  <2>1. s[i] = s[j]
    BY <1>7
  <2> QED
    BY <1>3, <2>1
<1>9. OneForEach(s, logs)
  BY <1>2, <1>3, <1>8, FromSequence
<1>10. ASSUME NEW l \in Logs, ~IsExcluded(JsonLog(l, damage))
       PROVE  l \in DOMAIN logs /\ logs[l] = CtLog(JsonLog(l, damage))
  <2>1. PICK i \in DOMAIN s : s[i] = JsonLog(l, damage)
    BY <1>3
  <2>2. s[i].id = l
    <3>1. PICK k \in Logs : s[i] = JsonLog(k, damage) /\ s[i].id = k
      BY <1>7, <1>10, <2>1
    <3> QED
      BY <1>6, <2>1, <3>1
  <2> QED
    BY <1>9, <1>10, <2>1, <2>2 DEF OneForEach
<1>11. ASSUME NEW l \in DOMAIN logs PROVE l \in Logs /\ ~IsExcluded(JsonLog(l, damage))
  <2>1. PICK i \in DOMAIN s : ~IsExcluded(s[i]) /\ s[i].id = l
    BY <1>9 DEF OneForEach
  <2> QED
    BY <1>7, <2>1
<1> QED
  BY <1>10, <1>11

\* What a list says when the histories were "known" is so.
Faithful(known, logs) ==
  /\ DOMAIN logs \subseteq Logs
  /\ \A l \in Logs : Course(known[l])
  /\ \A l \in DOMAIN logs : logs[l].key = Keys[l]
  /\ \A l \in DOMAIN logs : \A t \in Nat : LogWindowContains(logs[l], t) => UsableIn(known[l], t)

\* It says all of it, of the logs it can say it of.
Complete(known, from, logs) ==
  \A l \in Logs :
    from = "client" \/ known[l][Len(known[l])].state = "usable"
      => \A t \in Nat : UsableIn(known[l], t) => l \in DOMAIN logs /\ LogWindowContains(logs[l], t)

\* A log that is usable when the list is read is usable from its last state on.
LEMMA UsableNow ==
  ASSUME NEW h, Course(h), h[Len(h)].state = "usable", NEW t \in Nat
  PROVE  UsableIn(h, t) <=> h[Len(h)].at <= t
<1>1. Len(h) \in Nat /\ Len(h) > 0 /\ DOMAIN h = 1 .. Len(h)
  BY CourseType
<1>2. PICK n : n = Len(h)
  OBVIOUS
<1>3. n \in 1 .. Len(h)
  BY <1>1, <1>2
<1>4. \A j \in 1 .. Len(h) : h[j].state = "usable" => j = n
  BY <1>2, <1>3, UsableOnce
<1> QED
  BY <1>1, <1>2, <1>3, <1>4 DEF UsableIn

\* The entry of a log that is not excluded has a window exactly if the log is
\* usable, from the time of that state on.
LEMMA JsonWindow ==
  ASSUME NEW l, Course(history[l]), NEW damage, NEW t \in Nat,
         NEW e, e = CtLog(JsonLog(l, damage))
  PROVE  /\ e.key = Keys[l]
         /\ LogWindowContains(e, t) <=>
              StateOf(l) = "usable" /\ history[l][Len(history[l])].at <= t
<1>1. PICK a : a = history[l][Len(history[l])].at
  OBVIOUS
<1>2. a \in Nat
  <2>1. Len(history[l]) \in 1 .. Len(history[l])
    BY CourseType
  <2> QED
    BY <1>1, <2>1, CourseType
<1>3. PICK j : j = JsonLog(l, damage)
  OBVIOUS
<1>4. j.state = StateOf(l) /\ j.at = a /\ j.key = Keys[l]
  BY <1>1, <1>3 DEF JsonLog
<1>5. /\ e.key = Keys[l]
      /\ e.usable_from = IF StateOf(l) = "usable" THEN a ELSE None
      /\ StateOf(l) = "usable" => e.retired_at = None
  BY <1>3, <1>4 DEF CtLog
<1>6. LogWindowContains(e, t) <=> StateOf(l) = "usable" /\ a <= t
  <2>1. CASE StateOf(l) = "usable"
    BY <1>2, <1>5, <2>1 DEF LogWindowContains, None
  <2>2. CASE StateOf(l) # "usable"
    BY <1>5, <2>2 DEF LogWindowContains
  <2> QED
    BY <2>1, <2>2
<1> QED
  BY <1>1, <1>5, <1>6

\* The list that a client reads is faithful, and complete in the logs that are
\* usable at that moment.
LEMMA ListRead ==
  ASSUME \A l \in Logs : Course(history[l]), NEW damage, NEW json, NEW logs,
         json.logs = SetToSeq({JsonLog(l, damage) : l \in Logs}),
         FirstError(ListChecks(json)) = "Ok", logs = FromGoogleLogList(json)
  PROVE  Faithful(history, logs) /\ Complete(history, "json", logs)
<1>1. /\ \A l \in Logs : ~IsExcluded(JsonLog(l, damage)) =>
              l \in DOMAIN logs /\ logs[l] = CtLog(JsonLog(l, damage))
      /\ \A l \in DOMAIN logs : l \in Logs /\ ~IsExcluded(JsonLog(l, damage))
  BY JsonList
<1>2. ASSUME NEW l \in DOMAIN logs
      PROVE  /\ l \in Logs /\ logs[l].key = Keys[l]
             /\ \A t \in Nat : LogWindowContains(logs[l], t) => UsableIn(history[l], t)
  <2>1. l \in Logs /\ logs[l] = CtLog(JsonLog(l, damage)) /\ Course(history[l])
    BY <1>1
  <2>2. logs[l].key = Keys[l]
    BY <2>1, 0 \in Nat, JsonWindow
  <2>3. ASSUME NEW t \in Nat, LogWindowContains(logs[l], t) PROVE UsableIn(history[l], t)
    <3>1. StateOf(l) = "usable" /\ history[l][Len(history[l])].at <= t
      BY <2>1, <2>3, JsonWindow
    <3> QED
      BY <2>1, <3>1, UsableNow DEF StateOf
  <2> QED
    BY <2>1, <2>2, <2>3
<1>3. ASSUME NEW l \in Logs, history[l][Len(history[l])].state = "usable", NEW t \in Nat, UsableIn(history[l], t)
      PROVE  l \in DOMAIN logs /\ LogWindowContains(logs[l], t)
  <2>1. Course(history[l])
    OBVIOUS
  <2>2. history[l][Len(history[l])].at <= t
    BY <1>3, <2>1, UsableNow
  <2>3. ~IsExcluded(JsonLog(l, damage))
    BY <1>3 DEF IsExcluded, JsonLog, StateOf
  <2>4. l \in DOMAIN logs /\ logs[l] = CtLog(JsonLog(l, damage))
    BY <1>1, <2>3
  <2>5. LogWindowContains(logs[l], t)
    BY <1>3, <2>1, <2>2, <2>4, JsonWindow DEF StateOf
  <2> QED
    BY <2>4, <2>5
<1>4. Faithful(history, logs)
  BY <1>2 DEF Faithful
<1>5. Complete(history, "json", logs)
  BY <1>3 DEF Complete
<1> QED
  BY <1>4, <1>5

\* The list that a client builds is faithful and complete.
LEMMA ListBuilt ==
  ASSUME \A l \in Logs : Course(history[l]), NEW logs,
         logs = [l \in Logs |-> [id |-> l, key |-> Keys[l],
                                 usable_from |-> TimeOf(l, {"usable"}),
                                 retired_at |-> TimeOf(l, {"readonly", "retired"})]]
  PROVE  Faithful(history, logs) /\ Complete(history, "client", logs)
<1>1. DOMAIN logs = Logs
  OBVIOUS
<1>2. ASSUME NEW l \in Logs
      PROVE  /\ logs[l].key = Keys[l]
             /\ \A t \in Nat : LogWindowContains(logs[l], t) <=> UsableIn(history[l], t)
  <2>1. /\ logs[l].key = Keys[l]
        /\ logs[l].usable_from = TimeOf(l, {"usable"})
        /\ logs[l].retired_at = TimeOf(l, {"readonly", "retired"})
    OBVIOUS
  <2>2. Course(history[l])
    OBVIOUS
  <2> QED
    BY <2>1, <2>2, ClientWindow
<1>3. Faithful(history, logs)
  BY <1>1, <1>2 DEF Faithful
<1>4. Complete(history, "client", logs)
  BY <1>1, <1>2 DEF Complete
<1> QED
  BY <1>3, <1>4

-----------------------------------------------------------------------------
(* The verifier. *)

\* What an SCT needs to be accepted, but for the certificates.
Accepted(logs, sct, input) ==
  /\ sct.version = 0 /\ sct.log \in DOMAIN logs
  /\ LogWindowContains(logs[sct.log], sct.time)
  /\ sct.alg \in KnownAlgorithms
  /\ logs[sct.log].key.form = "ok"
  /\ sct.sig = [key |-> logs[sct.log].key.name, alg |-> sct.alg, input |-> input]

\* The checks of the SCT.
LEMMA CommonOk ==
  ASSUME NEW logs, NEW sct, NEW c, c = CommonChecks(logs, sct)
  PROVE  /\ c \in Lists
         /\ Failing(c) = {} <=>
              /\ sct.version = 0 /\ sct.log \in DOMAIN logs
              /\ LogWindowContains(logs[sct.log], sct.time) /\ sct.alg \in KnownAlgorithms
<1>1. PICK x1 \in BOOLEAN : x1 = (sct.version # 0)
  OBVIOUS
<1>2. PICK x2 \in BOOLEAN : x2 = (sct.log \notin DOMAIN logs)
  OBVIOUS
<1>3. PICK x3 \in BOOLEAN : x3 = (sct.log \in DOMAIN logs /\ ~LogWindowContains(logs[sct.log], sct.time))
  OBVIOUS
<1>4. PICK x4 \in BOOLEAN : x4 = (sct.alg \notin KnownAlgorithms)
  OBVIOUS
<1>5. PICK e1 \in ErrorNames, e2 \in ErrorNames, e3 \in ErrorNames, e4 \in ErrorNames :
        /\ e1 = "UnsupportedVersion" /\ e2 = "UnknownLog"
        /\ e3 = "SctTimestampOutsideLogWindow" /\ e4 = "UnsupportedSignatureAlgorithm"
  BY DEF ErrorNames
<1>6. PICK r1 \in BOOLEAN \X ErrorNames, r2 \in BOOLEAN \X ErrorNames,
           r3 \in BOOLEAN \X ErrorNames, r4 \in BOOLEAN \X ErrorNames :
        r1 = <<x1, e1>> /\ r2 = <<x2, e2>> /\ r3 = <<x3, e3>> /\ r4 = <<x4, e4>>
  OBVIOUS
<1>7. c \in Lists /\ (Failing(c) = {} <=> ~x1 /\ ~x2 /\ ~x3 /\ ~x4)
  <2>1. c = <<r1, r2, r3, r4>>
    BY <1>1, <1>2, <1>3, <1>4, <1>5, <1>6 DEF CommonChecks
  <2>2. c \in Lists /\ (Failing(c) = {} <=> ~r1[1] /\ ~r2[1] /\ ~r3[1] /\ ~r4[1])
    BY <2>1, List4
  <2> QED
    BY <1>6, <2>2
<1> QED
  BY <1>1, <1>2, <1>3, <1>4, <1>7

\* The checks of the signature.
LEMMA SignatureOk ==
  ASSUME NEW logs, NEW id, NEW alg, NEW sig, NEW input,
         NEW c, c = SignatureChecks(logs, id, alg, sig, input)
  PROVE  /\ c \in Lists
         /\ id \in DOMAIN logs =>
              (Failing(c) = {} <=>
                 /\ logs[id].key.form = "ok"
                 /\ sig = [key |-> logs[id].key.name, alg |-> alg, input |-> input])
<1>1. CASE id \notin DOMAIN logs
  BY <1>1, NoChecks DEF SignatureChecks
<1>2. CASE id \in DOMAIN logs
  <2>1. PICK x1 \in BOOLEAN : x1 = (logs[id].key.form # "ok")
    OBVIOUS
  <2>2. PICK x2 \in BOOLEAN : x2 = (sig # [key |-> logs[id].key.name, alg |-> alg, input |-> input])
    OBVIOUS
  <2>3. "LogKeyMalformed" \in ErrorNames /\ "InvalidSignature" \in ErrorNames
    BY DEF ErrorNames
  <2>4. c = << <<x1, "LogKeyMalformed">>, <<x2, "InvalidSignature">> >>
    BY <1>2, <2>1, <2>2 DEF SignatureChecks
  <2>5. c \in Lists /\ (Failing(c) = {} <=> ~x1 /\ ~x2)
    BY <2>3, <2>4, List2
  <2> QED
    BY <2>1, <2>2, <2>5
<1> QED
  BY <1>1, <1>2

\* An SCT for a certificate.
LEMMA CertOk ==
  ASSUME NEW logs, NEW sct, NEW cert, cert.long \in BOOLEAN
  PROVE  VerifySctForCert(logs, sct, cert) = "Ok"
           <=> ~cert.long /\ Accepted(logs, sct, X509Input(sct.time, cert))
<1>1. PICK a : a = CommonChecks(logs, sct)
  OBVIOUS
<1>2. PICK x \in BOOLEAN : x = cert.long
  OBVIOUS
<1>3. PICK b : b = << <<x, "CertDerTooLong">> >>
  OBVIOUS
<1>4. PICK c : c = SignatureChecks(logs, sct.log, sct.alg, sct.sig, X509Input(sct.time, cert))
  OBVIOUS
<1>5. PICK ab : ab = a \o b
  OBVIOUS
<1>6. VerifySctForCert(logs, sct, cert) = FirstError(ab \o c)
  BY <1>1, <1>2, <1>3, <1>4, <1>5 DEF VerifySctForCert
<1>7. a \in Lists
  BY <1>1, CommonOk
<1>8. b \in Lists /\ (Failing(b) = {} <=> ~x)
  <2>1. "CertDerTooLong" \in ErrorNames
    BY DEF ErrorNames
  <2> QED
    BY <1>3, <2>1, List1
<1>9. c \in Lists
  BY <1>4, SignatureOk
<1>10. ab \in Lists /\ (Failing(ab) = {} <=> Failing(a) = {} /\ Failing(b) = {})
  BY <1>5, <1>7, <1>8, Joined
<1>11. ab \o c \in Lists /\ (Failing(ab \o c) = {} <=> Failing(ab) = {} /\ Failing(c) = {})
  BY <1>9, <1>10, Joined
<1>12. FirstError(ab \o c) = "Ok" <=> Failing(ab \o c) = {}
  BY <1>11, OkOfList
<1>13. Failing(a) = {} <=>
              /\ sct.version = 0 /\ sct.log \in DOMAIN logs
              /\ LogWindowContains(logs[sct.log], sct.time) /\ sct.alg \in KnownAlgorithms
  BY <1>1, CommonOk
<1>14. sct.log \in DOMAIN logs =>
         (Failing(c) = {} <=>
            /\ logs[sct.log].key.form = "ok"
            /\ sct.sig = [key |-> logs[sct.log].key.name, alg |-> sct.alg, input |-> X509Input(sct.time, cert)])
  BY <1>4, SignatureOk
<1> QED
  BY <1>2, <1>6, <1>8, <1>10, <1>11, <1>12, <1>13, <1>14 DEF Accepted

\* An SCT for a precertificate.
LEMMA PrecertOk ==
  ASSUME NEW logs, NEW sct, NEW leaf, NEW issuer, leaf.long \in BOOLEAN
  PROVE  VerifySctForPrecert(logs, sct, leaf, issuer) = "Ok"
           <=> /\ Readable(leaf) /\ issuer.form = "ok"
               /\ Accepted(logs, sct, PrecertInput(sct.time, leaf.body, issuer.key))
<1>1. PICK a : a = CommonChecks(logs, sct)
  OBVIOUS
<1>2. PICK x \in BOOLEAN : x = (issuer.form # "ok")
  OBVIOUS
<1>3. PICK b : b = << <<x, "ParseError">> >>
  OBVIOUS
<1>4. PICK c : c = SignatureChecks(logs, sct.log, sct.alg, sct.sig,
                                   PrecertInput(sct.time, leaf.body, issuer.key))
  OBVIOUS
<1>5. PICK d : d = TbsChecks(leaf)
  OBVIOUS
<1>6. PICK ad : ad = a \o d
  OBVIOUS
<1>7. PICK adb : adb = ad \o b
  OBVIOUS
<1>8. VerifySctForPrecert(logs, sct, leaf, issuer) = FirstError(adb \o c)
  BY <1>1, <1>2, <1>3, <1>4, <1>5, <1>6, <1>7 DEF VerifySctForPrecert
<1>9. a \in Lists
  BY <1>1, CommonOk
<1>10. b \in Lists /\ (Failing(b) = {} <=> ~x)
  <2>1. "ParseError" \in ErrorNames
    BY DEF ErrorNames
  <2> QED
    BY <1>3, <2>1, List1
<1>11. c \in Lists
  BY <1>4, SignatureOk
<1>12. d \in Lists /\ (Failing(d) = {} <=> Readable(leaf))
  <2>1. PICK x1 \in BOOLEAN : x1 = (leaf.form # "ok")
    OBVIOUS
  <2>2. PICK x2 \in BOOLEAN : x2 = (leaf.exts = "absent")
    OBVIOUS
  <2>3. PICK x3 \in BOOLEAN : x3 = leaf.long
    OBVIOUS
  <2>4. "ParseError" \in ErrorNames /\ "LeafMissingSctList" \in ErrorNames /\ "CertDerTooLong" \in ErrorNames
    BY DEF ErrorNames
  <2>5. d = << <<x1, "ParseError">>, <<x2, "LeafMissingSctList">>, <<x3, "CertDerTooLong">> >>
    BY <1>5, <2>1, <2>2, <2>3 DEF TbsChecks
  <2>6. d \in Lists /\ (Failing(d) = {} <=> ~x1 /\ ~x2 /\ ~x3)
    BY <2>4, <2>5, List3
  <2> QED
    BY <2>1, <2>2, <2>3, <2>6 DEF Readable
<1>13. ad \in Lists /\ (Failing(ad) = {} <=> Failing(a) = {} /\ Failing(d) = {})
  BY <1>6, <1>9, <1>12, Joined
<1>14. adb \in Lists /\ (Failing(adb) = {} <=> Failing(ad) = {} /\ Failing(b) = {})
  BY <1>7, <1>10, <1>13, Joined
<1>15. adb \o c \in Lists /\ (Failing(adb \o c) = {} <=> Failing(adb) = {} /\ Failing(c) = {})
  BY <1>11, <1>14, Joined
<1>16. FirstError(adb \o c) = "Ok" <=> Failing(adb \o c) = {}
  BY <1>15, OkOfList
<1>17. Failing(a) = {} <=>
              /\ sct.version = 0 /\ sct.log \in DOMAIN logs
              /\ LogWindowContains(logs[sct.log], sct.time) /\ sct.alg \in KnownAlgorithms
  BY <1>1, CommonOk
<1>18. sct.log \in DOMAIN logs =>
         (Failing(c) = {} <=>
            /\ logs[sct.log].key.form = "ok"
            /\ sct.sig = [key |-> logs[sct.log].key.name, alg |-> sct.alg,
                          input |-> PrecertInput(sct.time, leaf.body, issuer.key)])
  BY <1>4, SignatureOk
<1> QED
  BY <1>2, <1>8, <1>10, <1>12, <1>13, <1>14, <1>15, <1>16, <1>17, <1>18 DEF Accepted

-----------------------------------------------------------------------------
(* The verdicts. *)

\* What has been signed.
Issued ==
  \A s \in issued : /\ s.log \in Logs /\ s.time \in Nat
                    /\ s = [log |-> s.log, time |-> s.time, kind |-> s.kind, entry |-> s.entry]

\* The list that the client holds.
ListOk == list # NoLogs => Faithful(list.known, list.logs) /\ Complete(list.known, list.from, list.logs)

\* A verdict that is exact.
Exact(v) ==
  /\ v.result = "Ok" => Signed(v) /\ UsableAt(v.sct.log, v.sct.time)
  /\ (/\ Signed(v) /\ v.sct = SctOf(Claim(v)) /\ v.sound
      /\ UsableAt(v.sct.log, v.sct.time) /\ Informed(v.sct.log) /\ Keys[v.sct.log].form = "ok")
     => v.result = "Ok"

\* Whatever is presented has the signature of an SCT that was signed.
LEMMA SignatureShown ==
  ASSUME NEW sct \in Presented
  PROVE  \E s \in issued : sct.sig = SctOf(s).sig
<1>1. CASE sct \in Honest
  BY <1>1 DEF Honest
<1>2. CASE sct \notin Honest
  <2>1. PICK t \in Honest :
          sct \in {[t EXCEPT !.log = l] : l \in Logs} \cup {[t EXCEPT !.time = x] : x \in 0..MaxTime}
                  \cup {[t EXCEPT !.alg = a] : a \in {"ecdsaSha384", "anonymous"}}
                  \cup {[t EXCEPT !.version = 1], [t EXCEPT !.form = "short"]}
    BY <1>2 DEF Presented
  <2>2. PICK s \in issued : t = SctOf(s)
    BY DEF Honest
  <2>3. sct.sig = t.sig
    BY <2>1, <2>2 DEF SctOf
  <2> QED
    BY <2>2, <2>3
<1> QED
  BY <1>1, <1>2

\* A verdict by the conditions of the verifier is exact: the keys of the logs
\* differ, so that a signature says who signed.
LEMMA ExactVerdict ==
  ASSUME Issued, ListOk, list # NoLogs, NEW v, v.sct \in Presented,
         v.result = "Ok" <=>
           /\ v.sound
           /\ Accepted(list.logs, v.sct, [kind |-> v.kind, time |-> v.sct.time, entry |-> v.entry])
  PROVE  Exact(v)
<1>1. PICK sct : sct = v.sct
  OBVIOUS
<1>2. PICK input : input = [kind |-> v.kind, time |-> sct.time, entry |-> v.entry]
  OBVIOUS
<1>3. v.result = "Ok" <=> v.sound /\ Accepted(list.logs, sct, input)
  BY <1>1, <1>2
<1>4. Faithful(list.known, list.logs) /\ Complete(list.known, list.from, list.logs)
  BY DEF ListOk
<1>5. ASSUME v.result = "Ok" PROVE Signed(v) /\ UsableAt(sct.log, sct.time)
  <2>1. PICK s \in issued : sct.sig = SctOf(s).sig
    BY <1>1, SignatureShown
  <2>2. /\ s.log \in Logs /\ s.time \in Nat
        /\ s = [log |-> s.log, time |-> s.time, kind |-> s.kind, entry |-> s.entry]
    BY DEF Issued
  <2>3. /\ sct.log \in DOMAIN list.logs /\ LogWindowContains(list.logs[sct.log], sct.time)
        /\ sct.sig = [key |-> list.logs[sct.log].key.name, alg |-> sct.alg, input |-> input]
    BY <1>3, <1>5 DEF Accepted
  <2>4. list.logs[sct.log].key.name = sct.log
    BY <1>4, <2>3, CtAssumption DEF Faithful
  <2>5. sct.sig.key = s.log /\ sct.sig.input = [kind |-> s.kind, time |-> s.time, entry |-> s.entry]
    BY <2>1 DEF SctOf
  <2>6. sct.log = s.log /\ input = [kind |-> s.kind, time |-> s.time, entry |-> s.entry]
    BY <2>3, <2>4, <2>5
  <2>7. v.kind = s.kind /\ sct.time = s.time /\ v.entry = s.entry
    BY <1>2, <2>6
  <2>8. Claim(v) = s
    BY <1>1, <2>2, <2>6, <2>7 DEF Claim
  <2>9. UsableIn(list.known[sct.log], sct.time)
    BY <1>4, <2>2, <2>3, <2>7 DEF Faithful
  <2> QED
    BY <2>8, <2>9 DEF Signed, UsableAt, UsableIn
<1>6. ASSUME Signed(v), sct = SctOf(Claim(v)), v.sound,
             UsableAt(sct.log, sct.time), Informed(sct.log), Keys[sct.log].form = "ok"
      PROVE  v.result = "Ok"
  <2>1. PICK s \in issued : s = Claim(v)
    BY <1>6 DEF Signed
  <2>2. s.log \in Logs /\ s.time \in Nat
    BY DEF Issued
  <2>3. s.log = sct.log /\ s.time = sct.time /\ s.kind = v.kind /\ s.entry = v.entry
    BY <1>1, <2>1 DEF Claim
  <2>4. /\ sct.version = 0 /\ sct.alg = "ecdsaSha256"
        /\ sct.sig = [key |-> s.log, alg |-> "ecdsaSha256",
                      input |-> [kind |-> s.kind, time |-> s.time, entry |-> s.entry]]
    BY <1>6, <2>1 DEF SctOf
  <2>5. UsableIn(list.known[sct.log], sct.time)
    BY <1>6 DEF UsableAt, UsableIn
  <2>6. list.from = "client" \/ list.known[sct.log][Len(list.known[sct.log])].state = "usable"
    BY <1>6 DEF Informed, KnownState
  <2>7. sct.log \in DOMAIN list.logs /\ LogWindowContains(list.logs[sct.log], sct.time)
    BY <1>4, <2>2, <2>3, <2>5, <2>6 DEF Complete
  <2>8. list.logs[sct.log].key.form = "ok" /\ list.logs[sct.log].key.name = sct.log
    BY <1>4, <1>6, <2>7, CtAssumption DEF Faithful
  <2>9. sct.sig = [key |-> list.logs[sct.log].key.name, alg |-> sct.alg, input |-> input]
    BY <1>2, <2>3, <2>4, <2>8
  <2>10. sct.alg \in KnownAlgorithms
    BY <2>4 DEF KnownAlgorithms
  <2>11. Accepted(list.logs, sct, input)
    BY <2>4, <2>7, <2>8, <2>9, <2>10 DEF Accepted
  <2> QED
    BY <1>3, <1>6, <2>11
<1> QED
  BY <1>1, <1>5, <1>6 DEF Exact

\* A verdict on an SCT for a certificate is exact.
LEMMA CertVerdict ==
  ASSUME Issued, ListOk, list # NoLogs,
         NEW sct \in Presented, NEW f, f.long \in BOOLEAN, NEW body,
         NEW v, v = Verdict(sct, "x509", <<body, "k1", <<>>>>, ~f.long,
                            VerifySctForCert(list.logs, sct, CertOf(f, body, <<>>)))
  PROVE  Exact(v)
<1>1. PICK cert : cert = CertOf(f, body, <<>>)
  OBVIOUS
<1>2. cert.long = f.long /\ cert.body = body /\ cert.issuerKey = "k1" /\ cert.scts = <<>>
  BY <1>1 DEF CertOf
<1>3. /\ v.sct = sct /\ v.kind = "x509" /\ v.entry = <<body, "k1", <<>>>> /\ v.sound = ~f.long
      /\ v.result = VerifySctForCert(list.logs, sct, cert)
  BY <1>1 DEF Verdict
<1>4. PICK input : input = X509Input(sct.time, cert)
  OBVIOUS
<1>5. input = [kind |-> v.kind, time |-> v.sct.time, entry |-> v.entry]
  BY <1>2, <1>3, <1>4 DEF X509Input
<1>6. v.result = "Ok" <=> ~f.long /\ Accepted(list.logs, sct, input)
  BY <1>2, <1>3, <1>4, CertOk
<1>7. v.result = "Ok" <=>
        /\ v.sound
        /\ Accepted(list.logs, v.sct, [kind |-> v.kind, time |-> v.sct.time, entry |-> v.entry])
  <2>1. v.result = "Ok" <=> v.sound /\ Accepted(list.logs, v.sct, input)
    BY <1>3, <1>6
  <2> QED
    BY <1>5, <2>1
<1>8. v.sct \in Presented
  BY <1>3
<1> QED
  BY <1>7, <1>8, ExactVerdict

\* A verdict on an SCT for a precertificate is exact.
LEMMA PrecertVerdict ==
  ASSUME Issued, ListOk, list # NoLogs,
         NEW sct \in Presented, NEW f, f.long \in BOOLEAN, NEW body, NEW issuer, NEW scts,
         NEW v, v.sct = sct, v.kind = "precert", v.entry = <<body, issuer.key>>,
         v.sound = (Readable(f) /\ issuer.form = "ok"),
         v.result = "Ok" <=> VerifySctForPrecert(list.logs, sct, CertOf(f, body, scts), issuer) = "Ok"
  PROVE  Exact(v)
<1>1. PICK leaf : leaf = CertOf(f, body, scts)
  OBVIOUS
<1>2. /\ leaf.long = f.long /\ leaf.body = body /\ leaf.form = f.form /\ leaf.exts = f.exts
      /\ Readable(leaf) <=> Readable(f)
  BY <1>1 DEF CertOf, Readable
<1>3. PICK input : input = PrecertInput(sct.time, leaf.body, issuer.key)
  OBVIOUS
<1>4. input = [kind |-> v.kind, time |-> v.sct.time, entry |-> v.entry]
  BY <1>2, <1>3 DEF PrecertInput
<1>5. v.result = "Ok" <=> Readable(leaf) /\ issuer.form = "ok" /\ Accepted(list.logs, sct, input)
  BY <1>1, <1>2, <1>3, PrecertOk
<1>6. v.result = "Ok" <=>
        /\ v.sound
        /\ Accepted(list.logs, v.sct, [kind |-> v.kind, time |-> v.sct.time, entry |-> v.entry])
  <2>1. v.result = "Ok" <=> v.sound /\ Accepted(list.logs, v.sct, input)
    BY <1>2, <1>5
  <2> QED
    BY <1>4, <2>1
<1>7. v.sct \in Presented
  OBVIOUS
<1> QED
  BY <1>6, <1>7, ExactVerdict

-----------------------------------------------------------------------------
(* The calendar. *)

\* The days before the first of March of a year, and those before a month in
\* the year that begins with March.
YearDays(y) ==
  LET era == y \div 400
      yoe == y - era * 400
  IN  era * 146097 + yoe * 365 + yoe \div 4 - yoe \div 100

MonthDays(m) == (153 * (IF m > 2 THEN m - 3 ELSE m + 9) + 2) \div 5

\* days_from_civil in these.
LEMMA CivilDays ==
  ASSUME NEW y \in Nat, NEW m \in 1 .. 12, NEW d \in Nat, m > 2 \/ y > 0
  PROVE  DaysFromCivil(y, m, d) = YearDays(IF m <= 2 THEN y - 1 ELSE y) + MonthDays(m) + d - 719469
<1>1. PICK z \in Nat : z = IF m <= 2 THEN y - 1 ELSE y
  OBVIOUS
<1>2. PICK era \in Int : era = z \div 400
  OBVIOUS
<1>3. PICK yoe \in Int : yoe = z - era * 400
  OBVIOUS
<1>4. PICK a \in Int, b \in Int : a = yoe \div 4 /\ b = yoe \div 100
  OBVIOUS
<1>5. PICK k \in Int : k = MonthDays(m)
  BY DEF MonthDays
<1>6. DaysFromCivil(y, m, d) = era * 146097 + (yoe * 365 + a - b + (k + d - 1)) - 719468
  BY <1>1, <1>2, <1>3, <1>4, <1>5 DEF DaysFromCivil, MonthDays
<1>7. YearDays(z) = era * 146097 + yoe * 365 + a - b
  BY <1>2, <1>3, <1>4 DEF YearDays
<1> QED
  BY <1>1, <1>5, <1>6, <1>7

\* The months that begin with March.
LEMMA Months ==
  /\ MonthDays(3) = 0 /\ MonthDays(4) = 31 /\ MonthDays(5) = 61 /\ MonthDays(6) = 92
  /\ MonthDays(7) = 122 /\ MonthDays(8) = 153 /\ MonthDays(9) = 184 /\ MonthDays(10) = 214
  /\ MonthDays(11) = 245 /\ MonthDays(12) = 275 /\ MonthDays(1) = 306 /\ MonthDays(2) = 337
BY DEF MonthDays

\* A year has 365 days, and 366 if it is a leap year.
LEMMA YearsAdd ==
  ASSUME NEW y \in Nat
  PROVE  /\ YearDays(y) \in Int
         /\ YearDays(y + 1) = YearDays(y) + (IF LeapYear(y + 1) THEN 366 ELSE 365)
<1>1. PICK e \in Nat, r \in 0 .. 399 : y = 400 * e + r
  <2>1. PICK e \in Int : e = y \div 400
    OBVIOUS
  <2>2. PICK r \in Int : r = y - 400 * e
    OBVIOUS
  <2>3. e \in Nat /\ r \in 0 .. 399 /\ y = 400 * e + r
    BY <2>1, <2>2
  <2> QED
    BY <2>3
<1>2. YearDays(y) = e * 146097 + r * 365 + r \div 4 - r \div 100
  <2>1. y \div 400 = e
    BY <1>1
  <2> QED
    BY <1>1, <2>1 DEF YearDays
<1>3. CASE r < 399
  <2>1. (y + 1) \div 400 = e
    BY <1>1, <1>3
  <2>2. YearDays(y + 1) = e * 146097 + (r + 1) * 365 + (r + 1) \div 4 - (r + 1) \div 100
    BY <1>1, <2>1 DEF YearDays
  <2>3. /\ (y + 1) % 4 = (r + 1) % 4
        /\ (y + 1) % 100 = (r + 1) % 100
        /\ (y + 1) % 400 = r + 1
    BY <1>1, <1>3
  <2>4. (r + 1) \div 4 = r \div 4 + (IF (r + 1) % 4 = 0 THEN 1 ELSE 0)
    BY <1>1
  <2>5. (r + 1) \div 100 = r \div 100 + (IF (r + 1) % 100 = 0 THEN 1 ELSE 0)
    BY <1>1
  <2> QED
    BY <1>1, <1>2, <1>3, <2>2, <2>3, <2>4, <2>5 DEF LeapYear
<1>4. CASE r = 399
  <2>1. (y + 1) \div 400 = e + 1
    BY <1>1, <1>4
  <2>2. YearDays(y + 1) = (e + 1) * 146097
    BY <1>1, <1>4, <2>1 DEF YearDays
  <2>3. (y + 1) % 4 = 0 /\ (y + 1) % 400 = 0
    BY <1>1, <1>4
  <2> QED
    BY <1>1, <1>2, <1>4, <2>2, <2>3 DEF LeapYear
<1> QED
  BY <1>1, <1>2, <1>3, <1>4

\* Each day is the day after the one before.
LEMMA Calendar ==
  ASSUME NEW y \in Nat \ {0}, NEW m \in 1 .. 12, NEW d \in 1 .. 31
  PROVE  /\ DaysFromCivil(1970, 1, 1) = 0
         /\ d = 1 /\ m = 1 => DaysFromCivil(y, m, d) = DaysFromCivil(y - 1, 12, 31) + 1
         /\ d = 1 /\ m > 1 => DaysFromCivil(y, m, d) = DaysFromCivil(y, m - 1, DaysIn(y, m - 1)) + 1
         /\ d > 1 => DaysFromCivil(y, m, d) = DaysFromCivil(y, m, d - 1) + 1
<1>1. DaysFromCivil(1970, 1, 1) = 0
  BY DEF DaysFromCivil
<1>2. PICK z \in Nat : y = z + 1
  <2>1. y - 1 \in Nat /\ y = (y - 1) + 1
    OBVIOUS
  <2> QED
    BY <2>1
<1>3. PICK Y \in Int, Z \in Int : Y = YearDays(y) /\ Z = YearDays(z)
  BY <1>2, YearsAdd
<1>4. Y = Z + (IF LeapYear(y) THEN 366 ELSE 365)
  BY <1>2, <1>3, YearsAdd
<1>5. ASSUME NEW n \in 1 .. 12, NEW k \in Nat
      PROVE  DaysFromCivil(y, n, k) = (IF n <= 2 THEN Z ELSE Y) + MonthDays(n) + k - 719469
  <2>1. DaysFromCivil(y, n, k) = YearDays(IF n <= 2 THEN y - 1 ELSE y) + MonthDays(n) + k - 719469
    BY CivilDays
  <2>2. y - 1 = z
    BY <1>2
  <2> QED
    BY <1>3, <2>1, <2>2
<1>6. ASSUME d = 1, m = 1 PROVE DaysFromCivil(y, m, d) = DaysFromCivil(y - 1, 12, 31) + 1
  <2>1. DaysFromCivil(y, 1, 1) = Z + MonthDays(1) + 1 - 719469
    BY <1>5
  <2>2. DaysFromCivil(z, 12, 31) = YearDays(z) + MonthDays(12) + 31 - 719469
    BY <1>2, CivilDays
  <2>3. y - 1 = z
    BY <1>2
  <2> QED
    BY <1>3, <1>6, <2>1, <2>2, <2>3, Months
<1>7. ASSUME d = 1, m > 1
      PROVE  DaysFromCivil(y, m, d) = DaysFromCivil(y, m - 1, DaysIn(y, m - 1)) + 1
  <2>1. PICK n \in 1 .. 12 : n = m - 1 /\ n < 12 /\ m = n + 1
    BY <1>7
  <2>2. PICK k \in Nat : k = DaysIn(y, n)
    BY <2>1 DEF DaysIn
  <2>3. DaysFromCivil(y, n, k) = (IF n <= 2 THEN Z ELSE Y) + MonthDays(n) + k - 719469
    BY <1>5
  <2>4. DaysFromCivil(y, m, 1) = (IF m <= 2 THEN Z ELSE Y) + MonthDays(m) + 1 - 719469
    BY <1>5
  <2>5. CASE n = 2
    <3>1. m = 3 /\ k = IF LeapYear(y) THEN 29 ELSE 28
      <4>1. DaysIn(y, 2) = IF LeapYear(y) THEN 29 ELSE 28
        BY DEF DaysIn
      <4> QED
        BY <2>1, <2>2, <2>5, <4>1
    <3>2. DaysFromCivil(y, n, k) = Z + 337 + k - 719469
      BY <2>3, <2>5, Months
    <3>3. DaysFromCivil(y, m, 1) = Y + 0 + 1 - 719469
      BY <2>4, <3>1, Months
    <3> QED
      BY <1>4, <1>7, <2>1, <2>2, <3>1, <3>2, <3>3
  <2>6. CASE n # 2
    <3>1. MonthDays(m) = MonthDays(n) + k /\ MonthDays(n) \in Int /\ (n <= 2 <=> m <= 2)
      <4>1. k = IF n \in {4, 6, 9, 11} THEN 30 ELSE 31
        BY <2>1, <2>2, <2>6 DEF DaysIn
      <4>2. n \in {1, 3, 4, 5, 6, 7, 8, 9, 10, 11}
        BY <2>1, <2>6
      <4> QED
        BY <2>1, <4>1, <4>2, Months
    <3> QED
      BY <1>7, <2>1, <2>2, <2>3, <2>4, <3>1
  <2> QED
    BY <2>5, <2>6
<1>8. ASSUME d > 1 PROVE DaysFromCivil(y, m, d) = DaysFromCivil(y, m, d - 1) + 1
  <2>1. PICK k \in Nat : k = d - 1 /\ d = k + 1
    BY <1>8
  <2>2. DaysFromCivil(y, m, k) = (IF m <= 2 THEN Z ELSE Y) + MonthDays(m) + k - 719469
    BY <1>5
  <2>3. DaysFromCivil(y, m, d) = (IF m <= 2 THEN Z ELSE Y) + MonthDays(m) + d - 719469
    BY <1>5
  <2>4. MonthDays(m) \in Int
    BY DEF MonthDays
  <2> QED
    BY <2>1, <2>2, <2>3, <2>4
<1> QED
  BY <1>1, <1>6, <1>7, <1>8

-----------------------------------------------------------------------------
(* The calls. *)

\* The verdicts of an answer.
VerdictsOf(a) == IF "verdicts" \in DOMAIN a THEN ToSet(a.verdicts) ELSE {}

\* One verdict.
LEMMA OneVerdict ==
  ASSUME NEW v, NEW c, NEW a, a = [call |-> c, verdicts |-> <<v>>]
  PROVE  VerdictsOf(a) = {v}
<1>1. VerdictsOf(a) = ToSet(<<v>>)
  BY DEF VerdictsOf
<1>2. ToSet(<<v>>) = {v}
  BY DEF ToSet
<1> QED
  BY <1>1, <1>2

\* The verdicts on a list.
LEMMA ManyVerdicts ==
  ASSUME NEW q, NEW c, NEW r, NEW a, a = [call |-> c, result |-> r, verdicts |-> q], NEW v \in VerdictsOf(a)
  PROVE  \E i \in DOMAIN q : v = q[i]
BY DEF VerdictsOf, ToSet

\* What a call with verdicts returns.
Judges ==
  /\ \A v \in VerdictsOf(answer') : Exact(v)
  /\ answer'.call \notin {"time", "sth", "inclusion"} /\ UNCHANGED <<now, history, issued, list>>

\* verify_sct_for_cert
LEMMA VerifyCertJudges ==
  ASSUME Issued, ListOk, VerifyCert
  PROVE  Judges
<1>1. PICK sct \in Presented, f \in Leaves, body \in Bodies :
        Answer([call |-> "cert",
                verdicts |-> <<Verdict(sct, "x509", <<body, "k1", <<>>>>, ~f.long,
                                       VerifySctForCert(list.logs, sct, CertOf(f, body, <<>>)))>>])
  BY DEF VerifyCert
<1>2. list # NoLogs
  BY DEF VerifyCert, Ready
<1>3. PICK v : v = Verdict(sct, "x509", <<body, "k1", <<>>>>, ~f.long,
                           VerifySctForCert(list.logs, sct, CertOf(f, body, <<>>)))
  OBVIOUS
<1>4. answer' = [call |-> "cert", verdicts |-> <<v>>] /\ UNCHANGED <<now, history, issued, list>>
  BY <1>1, <1>3 DEF Answer
<1>5. f.long \in BOOLEAN
  BY CtAssumption
<1>6. Exact(v)
  BY <1>2, <1>3, <1>5, CertVerdict
<1>7. PICK a : a = answer'
  OBVIOUS
<1>8. VerdictsOf(a) = {v} /\ a.call = "cert"
  BY <1>4, <1>7, OneVerdict
<1> QED
  BY <1>4, <1>6, <1>7, <1>8 DEF Judges

\* verify_sct_for_precert
LEMMA VerifyPrecertJudges ==
  ASSUME Issued, ListOk, VerifyPrecert
  PROVE  Judges
<1>1. PICK sct \in Presented, f \in Leaves, body \in Bodies, issuer \in Issuers :
        Answer([call |-> "precert",
                verdicts |-> <<Verdict(sct, "precert", <<body, issuer.key>>,
                                       Readable(f) /\ issuer.form = "ok",
                                       VerifySctForPrecert(list.logs, sct, CertOf(f, body, <<sct>>), issuer))>>])
  BY DEF VerifyPrecert
<1>2. list # NoLogs
  BY DEF VerifyPrecert, Ready
<1>3. PICK v : v = Verdict(sct, "precert", <<body, issuer.key>>, Readable(f) /\ issuer.form = "ok",
                           VerifySctForPrecert(list.logs, sct, CertOf(f, body, <<sct>>), issuer))
  OBVIOUS
<1>4. answer' = [call |-> "precert", verdicts |-> <<v>>] /\ UNCHANGED <<now, history, issued, list>>
  BY <1>1, <1>3 DEF Answer
<1>5. f.long \in BOOLEAN
  BY CtAssumption
<1>6. Exact(v)
  <2>1. /\ v.sct = sct /\ v.kind = "precert" /\ v.entry = <<body, issuer.key>>
        /\ v.sound = (Readable(f) /\ issuer.form = "ok")
        /\ v.result = VerifySctForPrecert(list.logs, sct, CertOf(f, body, <<sct>>), issuer)
    BY <1>3 DEF Verdict
  <2>2. v.result = "Ok" <=> VerifySctForPrecert(list.logs, sct, CertOf(f, body, <<sct>>), issuer) = "Ok"
    BY <2>1
  <2> QED
    BY <1>2, <1>5, <2>1, <2>2, PrecertVerdict
<1>7. PICK a : a = answer'
  OBVIOUS
<1>8. VerdictsOf(a) = {v} /\ a.call = "precert"
  BY <1>4, <1>7, OneVerdict
<1> QED
  BY <1>4, <1>6, <1>7, <1>8 DEF Judges

\* The SCTs of a list are all presented.
LEMMA ListsPresented ==
  ASSUME NEW scts \in SctLists
  PROVE  \A i \in DOMAIN scts : scts[i] \in Presented
<1>1. Honest \subseteq Presented
  BY DEF Presented
<1>2. CASE scts = <<>>
  BY <1>2
<1>3. ASSUME NEW s \in Presented, NEW t \in Honest, scts = <<s, t>>
      PROVE  \A i \in DOMAIN scts : scts[i] \in Presented
  <2>1. DOMAIN scts = 1 .. 2 /\ scts[1] = s /\ scts[2] = t
    BY <1>3
  <2>2. \A i \in 1 .. 2 : i = 1 \/ i = 2
    OBVIOUS
  <2> QED
    BY <1>1, <2>1, <2>2
<1>4. scts = <<>> \/ \E s \in Presented, t \in Honest : scts = <<s, t>>
  BY DEF SctLists
<1> QED
  BY <1>2, <1>3, <1>4

\* verify_embedded_scts
LEMMA VerifyEmbeddedJudges ==
  ASSUME Issued, ListOk, VerifyEmbedded
  PROVE  Judges
<1> DEFINE All(scts, f, body, issuer) == VerifyEmbeddedScts(list.logs, CertOf(f, body, scts), issuer)
           Given(scts, f, body, issuer, all) ==
             /\ f.form = "ok" /\ issuer.form = "ok"
             /\ Answer([call |-> "embedded", result |-> all.result,
                        verdicts |-> IF all.result # "Ok" THEN <<>>
                                     ELSE [i \in DOMAIN scts |->
                                             Verdict(scts[i], "precert", <<body, issuer.key>>, Readable(f),
                                                     IF i \in all.valid THEN "Ok" ELSE "skipped")]])
<1>0. PICK scts \in SctLists, f \in Leaves, body \in Bodies, issuer \in Issuers :
        Given(scts, f, body, issuer, All(scts, f, body, issuer))
  BY Zenon DEF VerifyEmbedded
<1>1. PICK all : all = All(scts, f, body, issuer) /\ Given(scts, f, body, issuer, all)
  BY <1>0
<1>2. list # NoLogs
  BY DEF VerifyEmbedded, Ready
<1>3. PICK leaf : leaf = CertOf(f, body, scts)
  OBVIOUS
<1>4. leaf.scts = scts
  BY <1>3 DEF CertOf
<1>5. all.valid = {i \in DOMAIN scts : VerifySctForPrecert(list.logs, scts[i], leaf, issuer) = "Ok"}
  BY <1>1, <1>3, <1>4 DEF VerifyEmbeddedScts
<1>6. PICK q : q = IF all.result # "Ok" THEN <<>>
                   ELSE [i \in DOMAIN scts |->
                           Verdict(scts[i], "precert", <<body, issuer.key>>, Readable(f),
                                   IF i \in all.valid THEN "Ok" ELSE "skipped")]
  OBVIOUS
<1>7. /\ answer' = [call |-> "embedded", result |-> all.result, verdicts |-> q]
      /\ UNCHANGED <<now, history, issued, list>>
  BY <1>1, <1>6 DEF Answer
<1>8. f.long \in BOOLEAN
  BY CtAssumption
<1>9. ASSUME NEW i \in DOMAIN q PROVE Exact(q[i])
  <2>1. CASE all.result # "Ok"
    BY <1>6, <1>9, <2>1
  <2>2. CASE all.result = "Ok"
    <3>1. DOMAIN q = DOMAIN scts
      BY <1>6, <2>2
    <3>2. PICK sct : sct = scts[i]
      OBVIOUS
    <3>3. sct \in Presented
      BY <1>9, <3>1, <3>2, ListsPresented
    <3>4. PICK v : v = q[i]
      OBVIOUS
    <3>5. v = Verdict(sct, "precert", <<body, issuer.key>>, Readable(f),
                      IF i \in all.valid THEN "Ok" ELSE "skipped")
      BY <1>6, <1>9, <2>2, <3>1, <3>2, <3>4
    <3>6. /\ v.sct = sct /\ v.kind = "precert" /\ v.entry = <<body, issuer.key>>
          /\ v.sound = Readable(f)
          /\ v.result = IF i \in all.valid THEN "Ok" ELSE "skipped"
      BY <3>5 DEF Verdict
    <3>7. v.sound = (Readable(f) /\ issuer.form = "ok")
      BY <1>1, <3>6 DEF Readable
    <3>8. i \in all.valid <=> VerifySctForPrecert(list.logs, sct, leaf, issuer) = "Ok"
      BY <1>5, <1>9, <3>1, <3>2
    <3>9. v.result = "Ok" <=> VerifySctForPrecert(list.logs, sct, CertOf(f, body, scts), issuer) = "Ok"
      BY <1>3, <3>6, <3>8
    <3>10. Exact(v)
      BY <1>2, <1>8, <3>3, <3>6, <3>7, <3>9, PrecertVerdict
    <3> QED
      BY <3>4, <3>10
  <2> QED
    BY <2>1, <2>2
<1>10. PICK a : a = answer'
  OBVIOUS
<1>11. a.call = "embedded" /\ \A v \in VerdictsOf(a) : Exact(v)
  <2>1. a.call = "embedded"
    BY <1>7, <1>10
  <2>2. ASSUME NEW v \in VerdictsOf(a) PROVE Exact(v)
    <3>1. PICK i \in DOMAIN q : v = q[i]
      BY <1>7, <1>10, ManyVerdicts
    <3> QED
      BY <1>9, <3>1
  <2> QED
    BY <2>1, <2>2
<1> QED
  BY <1>7, <1>10, <1>11 DEF Judges

\* An element put at the end of a short sequence.
LEMMA AtTheEnd ==
  ASSUME NEW S, NEW a \in S, NEW b \in S, NEW c \in S
  PROVE  /\ DOMAIN Append(<<a>>, c) = 1 .. 2 /\ Append(<<a>>, c)[1] = a /\ Append(<<a>>, c)[2] = c
         /\ DOMAIN Append(<<a, b>>, c) = 1 .. 3 /\ Append(<<a, b>>, c)[1] = a
         /\ Append(<<a, b>>, c)[2] = b /\ Append(<<a, b>>, c)[3] = c
<1>1. PICK s : s = <<a>>
  OBVIOUS
<1>2. PICK t : t = <<a, b>>
  OBVIOUS
<1>3. s \in Seq(S) /\ Len(s) = 1 /\ s[1] = a
  BY <1>1
<1>4. t \in Seq(S) /\ Len(t) = 2 /\ t[1] = a /\ t[2] = b
  BY <1>2
<1>5. ASSUME NEW q \in Seq(S), NEW g, g = Append(q, c)
      PROVE  /\ DOMAIN g = 1 .. Len(q) + 1 /\ g[Len(q) + 1] = c
             /\ \A i \in 1 .. Len(q) : g[i] = q[i]
  <2>1. g \in Seq(S) /\ Len(g) = Len(q) + 1
    BY <1>5
  <2>2. g[Len(q) + 1] = c /\ \A i \in 1 .. Len(q) : g[i] = q[i]
    BY <1>5
  <2> QED
    BY <2>1, <2>2
<1>6. DOMAIN Append(s, c) = 1 .. 2 /\ Append(s, c)[1] = a /\ Append(s, c)[2] = c
  <2>1. PICK g : g = Append(s, c)
    OBVIOUS
  <2>2. DOMAIN g = 1 .. 2 /\ g[2] = c /\ \A i \in 1 .. 1 : g[i] = s[i]
    BY <1>3, <1>5, <2>1
  <2>3. g[1] = a
    BY <1>3, <2>2
  <2> QED
    BY <2>1, <2>2, <2>3, Zenon
<1>7. /\ DOMAIN Append(t, c) = 1 .. 3 /\ Append(t, c)[1] = a
      /\ Append(t, c)[2] = b /\ Append(t, c)[3] = c
  <2>1. PICK g : g = Append(t, c)
    OBVIOUS
  <2>2. DOMAIN g = 1 .. 3 /\ g[3] = c /\ \A i \in 1 .. 2 : g[i] = t[i]
    BY <1>4, <1>5, <2>1
  <2>3. g[1] = a /\ g[2] = b
    BY <1>4, <2>2
  <2> QED
    BY <2>1, <2>2, <2>3, Zenon
<1> QED
  BY <1>1, <1>2, <1>6, <1>7, Zenon

\* sct_list_from_ocsp_response finds the list where it is, or none.
LEMMA ListFound ==
  ASSUME NEW l, l.form # "absent", NEW channel, NEW r, r = ResponseOver(channel, l)
  PROVE  OcspList(r) = l \/ OcspList(r) = NoList
<1>1. PICK s : s = Append(r.singles, r.exts)
  OBVIOUS
<1>2. NoList.form = "absent"
  BY DEF NoList
<1> DEFINE found == {i \in DOMAIN s : s[i].form # "absent"}
<1>3. found = {2} /\ s[2] = l
  <2>1. NoList \in {NoList, l} /\ l \in {NoList, l}
    OBVIOUS
  <2>2. CASE channel = "single"
    <3>1. r.singles = <<NoList, l>> /\ r.exts = NoList
      BY <2>2 DEF ResponseOver
    <3>2. s = Append(<<NoList, l>>, NoList)
      BY <1>1, <3>1, Zenon
    <3>3. DOMAIN s = 1 .. 3 /\ s[1] = NoList /\ s[2] = l /\ s[3] = NoList
      BY <2>1, <3>2, AtTheEnd
    <3>4. \A i \in 1 .. 3 : i = 1 \/ i = 2 \/ i = 3
      OBVIOUS
    <3> QED
      BY <1>2, <3>3, <3>4
  <2>3. CASE channel # "single"
    <3>1. r.singles = <<NoList>> /\ r.exts = l
      BY <2>3 DEF ResponseOver
    <3>2. s = Append(<<NoList>>, l)
      BY <1>1, <3>1, Zenon
    <3>3. DOMAIN s = 1 .. 2 /\ s[1] = NoList /\ s[2] = l
      BY <2>1, <3>2, AtTheEnd, Zenon
    <3>4. \A i \in 1 .. 2 : i = 1 \/ i = 2
      OBVIOUS
    <3> QED
      BY <1>2, <3>3, <3>4
  <2> QED
    BY <2>2, <2>3
<1>4. PICK k : k = CHOOSE i \in found : \A j \in found : i <= j
  OBVIOUS
<1>5. k = 2
  <2>1. 2 \in found /\ \A j \in found : 2 <= j
    BY <1>3
  <2>2. k \in found
    BY <1>4, <2>1
  <2> QED
    BY <1>3, <2>2
<1>6. OcspList(r) = IF r.status # "successful" \/ found = {} THEN NoList ELSE s[k]
  BY <1>1, <1>4 DEF OcspList
<1> QED
  BY <1>3, <1>5, <1>6

\* SCTs out of the handshake or an OCSP response.
LEMMA VerifyDeliveredJudges ==
  ASSUME Issued, ListOk, VerifyDelivered
  PROVE  Judges
<1> DEFINE Given(out, body) ==
             Answer([call |-> "delivered", result |-> out.result,
                     verdicts |-> [i \in DOMAIN out.scts |->
                       Verdict(out.scts[i], "x509", <<body, "k1", <<>>>>, TRUE,
                               VerifySctForCert(list.logs, out.scts[i], CertOf(Bare, body, <<>>)))]])
<1>1. PICK scts \in SctLists, form \in {"ok", "truncated", "notOctets"}, body \in Bodies,
           channel \in {"tls", "single", "response", "tryLater", "noBasic", "malformed"} :
        /\ form # "notOctets" \/ channel # "tls"
        /\ Few(<<form # "ok", scts # <<>> /\ body # scts[1].sig.input.entry[1], channel \notin {"tls", "single"}>>)
        /\ Given(Delivered(channel, [form |-> form, scts |-> scts]), body)
  BY Zenon DEF VerifyDelivered
<1>2. PICK l : l = [form |-> form, scts |-> scts]
  OBVIOUS
<1>3. PICK got : got = Delivered(channel, l).scts
  OBVIOUS
<1>4. PICK result : result = Delivered(channel, l).result
  OBVIOUS
<1>5. list # NoLogs
  BY DEF VerifyDelivered, Ready
<1>6. got = <<>> \/ got = scts
  <2>1. l.form # "absent" /\ l.scts = scts
    BY <1>2
  <2>2. PICK ocsp : ocsp = ResponseOver(channel, l)
    OBVIOUS
  <2>3. got = <<>> \/ got = l.scts \/ got = OcspList(ocsp).scts
    BY <1>3, <2>2 DEF Delivered
  <2>4. OcspList(ocsp).scts = scts \/ OcspList(ocsp).scts = <<>>
    <3>1. OcspList(ocsp) = l \/ OcspList(ocsp) = NoList
      BY <2>1, <2>2, ListFound
    <3> QED
      BY <2>1, <3>1 DEF NoList
  <2> QED
    BY <2>1, <2>3, <2>4
<1>7. \A i \in DOMAIN got : got[i] \in Presented
  BY <1>6, ListsPresented
<1>8. Bare.long \in BOOLEAN /\ ~Bare.long = TRUE
  BY DEF Bare
<1>9. PICK q : q = [i \in DOMAIN got |->
                      Verdict(got[i], "x509", <<body, "k1", <<>>>>, TRUE,
                              VerifySctForCert(list.logs, got[i], CertOf(Bare, body, <<>>)))]
  OBVIOUS
<1>10. /\ answer' = [call |-> "delivered", result |-> result, verdicts |-> q]
       /\ UNCHANGED <<now, history, issued, list>>
  BY <1>1, <1>2, <1>3, <1>4, <1>9, Zenon DEF Answer
<1>11. ASSUME NEW i \in DOMAIN q PROVE Exact(q[i])
  <2>1. i \in DOMAIN got
    BY <1>9, <1>11
  <2>2. PICK sct \in Presented : sct = got[i]
    BY <1>7, <2>1
  <2>3. PICK v : v = q[i]
    OBVIOUS
  <2>4. v = Verdict(sct, "x509", <<body, "k1", <<>>>>, ~Bare.long,
                    VerifySctForCert(list.logs, sct, CertOf(Bare, body, <<>>)))
    BY <1>8, <1>9, <2>1, <2>2, <2>3
  <2>5. Exact(v)
    BY <1>5, <1>8, <2>4, CertVerdict
  <2> QED
    BY <2>3, <2>5
<1>12. PICK a : a = answer'
  OBVIOUS
<1>13. a.call = "delivered" /\ \A v \in VerdictsOf(a) : Exact(v)
  <2>1. a.call = "delivered"
    BY <1>10, <1>12
  <2>2. ASSUME NEW v \in VerdictsOf(a) PROVE Exact(v)
    <3>1. PICK i \in DOMAIN q : v = q[i]
      BY <1>10, <1>12, ManyVerdicts
    <3> QED
      BY <1>11, <3>1
  <2> QED
    BY <2>1, <2>2
<1> QED
  BY <1>10, <1>12, <1>13 DEF Judges

-----------------------------------------------------------------------------
(* The inductive invariant. *)

\* Histories go forward, what is issued is dated and signed by a log, and the
\* list of the client says of the histories it was made from what is so.
IInv ==
  /\ now \in Nat
  /\ DOMAIN history = Logs /\ \A l \in Logs : Course(history[l])
  /\ Issued /\ ListOk

\* The verdicts are exact and the times are right.
AnswerOk == (\A v \in VerdictsOf(answer) : Exact(v)) /\ TimesAreRight

\* That is the property.
LEMMA AnswerOkMeans == AnswerOk <=> SctVerdictsAreExact
<1>1. Verdicts = VerdictsOf(answer)
  BY DEF Verdicts, VerdictsOf
<1>2. (\A v \in Verdicts : Exact(v)) <=> AcceptedSctsAreGenuine /\ GenuineSctsAreAccepted
  BY DEF Exact, AcceptedSctsAreGenuine, GenuineSctsAreAccepted
<1> QED
  BY <1>1, <1>2 DEF AnswerOk, SctVerdictsAreExact

\* An answer that has no verdicts and is not about a time.
Plain(a) == VerdictsOf(a) = {} /\ a.call # "time"

\* The answers that are plain.
LEMMA PlainAnswers ==
  /\ Plain(NoAnswer)
  /\ \A r : Plain([call |-> "load", result |-> r])
  /\ \A x, r : Plain([call |-> "sth", true |-> x, result |-> r])
  /\ \A e, n, i, s, h, r :
       Plain([call |-> "inclusion", entry |-> e, n |-> n, index |-> i, size |-> s, honest |-> h, result |-> r])
BY DEF Plain, VerdictsOf, NoAnswer

\* The logs and the client at first.
LEMMA InitOk == ASSUME Init PROVE IInv /\ AnswerOk
<1>1. PICK start \in [Logs -> LogStates] : history = [l \in Logs |-> << [state |-> start[l], at |-> 0] >>]
  BY DEF Init
<1>2. ASSUME NEW l \in Logs PROVE Course(history[l])
  <2>1. start[l] \in LogStates /\ history[l] = << [state |-> start[l], at |-> 0] >>
    BY <1>1
  <2> QED
    BY <2>1, 0 \in Nat, FirstState
<1>3. now \in Nat /\ DOMAIN history = Logs /\ Issued /\ ListOk
  BY <1>1 DEF Init, Issued, ListOk
<1>4. AnswerOk
  <2>1. answer = NoAnswer
    BY DEF Init
  <2> QED
    BY <2>1, PlainAnswers DEF AnswerOk, Plain, TimesAreRight
<1> QED
  BY <1>2, <1>3, <1>4 DEF IInv

\* A step that leaves the environment and the list alone preserves the invariant.
LEMMA IInvKept ==
  ASSUME IInv, UNCHANGED <<now, history, issued, list>>
  PROVE  IInv'
BY DEF IInv, Issued, ListOk

\* So does a step of a log.
LEMMA ChangeStateOk ==
  ASSUME IInv, NEW log \in Logs, ChangeState(log)
  PROVE  IInv'
<1>1. PICK s \in Successors[StateOf(log)] :
        history' = [history EXCEPT ![log] = Append(@, [state |-> s, at |-> now])]
  BY DEF ChangeState
<1>2. UNCHANGED <<now, issued, list>>
  BY DEF ChangeState
<1>3. DOMAIN history' = Logs
  BY <1>1 DEF IInv
<1>4. ASSUME NEW l \in Logs PROVE Course(history'[l])
  <2>1. CASE l = log
    <3>1. PICK h : h = history[log]
      OBVIOUS
    <3>2. Course(h) /\ s \in Successors[h[Len(h)].state] /\ now \in Nat
      BY <1>1, <3>1 DEF IInv, StateOf
    <3>3. PICK g : g = history'[log]
      OBVIOUS
    <3>4. g = Append(h, [state |-> s, at |-> now])
      BY <1>1, <3>1, <3>3 DEF IInv
    <3> QED
      BY <2>1, <3>2, <3>3, <3>4, NextState
  <2>2. CASE l # log
    BY <1>1, <2>2 DEF IInv
  <2> QED
    BY <2>1, <2>2
<1> QED
  BY <1>2, <1>3, <1>4 DEF IInv, Issued, ListOk

\* What a log signs is dated.
LEMMA IssueOk ==
  ASSUME IInv, NEW log \in Logs, Issue(log)
  PROVE  IInv'
<1>1. PICK kind, entry :
        issued' = issued \cup {[log |-> log, time |-> now, kind |-> kind, entry |-> entry]}
  BY DEF Issue
<1>2. UNCHANGED <<now, history, list>>
  BY DEF Issue
<1>3. Issued'
  BY <1>1 DEF Issued, IInv
<1> QED
  BY <1>2, <1>3 DEF IInv, ListOk

\* Reading the JSON.
LEMMA LoadListOk ==
  ASSUME IInv, NEW damage, LoadList(damage)
  PROVE  IInv' /\ (answer' = answer \/ Plain(answer'))
<1>1. PICK json : json = [form |-> IF damage = "json" THEN "bad" ELSE "object",
                          logs |-> SetToSeq({JsonLog(l, damage) : l \in Logs})]
  OBVIOUS
<1>2. PICK result : result = FirstError(ListChecks(json))
  OBVIOUS
<1>3. /\ UNCHANGED <<now, history, issued>>
      /\ IF result = "Ok"
           THEN /\ list' = [from |-> "json", logs |-> FromGoogleLogList(json), known |-> history]
                /\ UNCHANGED answer
           ELSE answer' = [call |-> "load", result |-> result] /\ UNCHANGED list
  BY <1>1, <1>2, Zenon DEF LoadList
<1>4. CASE result = "Ok"
  <2>1. PICK logs : logs = FromGoogleLogList(json)
    OBVIOUS
  <2>2. json.logs = SetToSeq({JsonLog(l, damage) : l \in Logs})
    BY <1>1
  <2>3. \A l \in Logs : Course(history[l])
    BY DEF IInv
  <2>4. Faithful(history, logs) /\ Complete(history, "json", logs)
    <3>1. FirstError(ListChecks(json)) = "Ok"
      BY <1>2, <1>4
    <3> QED
      BY <2>1, <2>2, <2>3, <3>1, ListRead
  <2>5. list' = [from |-> "json", logs |-> logs, known |-> history] /\ answer' = answer
    BY <1>3, <1>4, <2>1
  <2>6. PICK m : m = list'
    OBVIOUS
  <2>7. m.known = history /\ m.logs = logs /\ m.from = "json"
    BY <2>5, <2>6
  <2>8. Faithful(m.known, m.logs) /\ Complete(m.known, m.from, m.logs)
    BY <2>4, <2>7
  <2>9. ListOk'
    BY <2>6, <2>8 DEF ListOk, Faithful, Complete
  <2> QED
    BY <1>3, <2>5, <2>9 DEF IInv, Issued
<1>5. CASE result # "Ok"
  <2>1. answer' = [call |-> "load", result |-> result] /\ UNCHANGED <<now, history, issued, list>>
    BY <1>3, <1>5
  <2>2. Plain(answer')
    BY <2>1, PlainAnswers, Zenon
  <2> QED
    BY <2>1, <2>2, IInvKept
<1> QED
  BY <1>4, <1>5

\* Building the list.
LEMMA BuildListOk ==
  ASSUME IInv, BuildList
  PROVE  IInv' /\ answer' = answer
<1>1. PICK logs : logs = [l \in Logs |-> [id |-> l, key |-> Keys[l],
                                          usable_from |-> TimeOf(l, {"usable"}),
                                          retired_at |-> TimeOf(l, {"readonly", "retired"})]]
  OBVIOUS
<1>2. /\ list' = [from |-> "client", known |-> history, logs |-> logs]
      /\ UNCHANGED <<now, history, issued, answer>>
  BY <1>1, Zenon DEF BuildList
<1>3. \A l \in Logs : Course(history[l])
  BY DEF IInv
<1>4. Faithful(history, logs) /\ Complete(history, "client", logs)
  BY <1>1, <1>3, ListBuilt
<1>5. PICK m : m = list'
  OBVIOUS
<1>6. m.known = history /\ m.logs = logs /\ m.from = "client"
  BY <1>2, <1>5
<1>7. Faithful(m.known, m.logs) /\ Complete(m.known, m.from, m.logs)
  BY <1>4, <1>6
<1>8. ListOk'
  BY <1>5, <1>7 DEF ListOk, Faithful, Complete
<1> QED
  BY <1>2, <1>8 DEF IInv, Issued

\* Reading a time.
LEMMA ReadTimestampOk ==
  ASSUME ReadTimestamp
  PROVE  VerdictsOf(answer') = {} /\ TimesAreRight' /\ UNCHANGED <<now, history, issued, list>>
<1>1. PICK d \in Dates :
        Answer([call |-> "time", date |-> d,
                days |-> IF CivilAccepted(d[2], d[3]) THEN DaysFromCivil(d[1], d[2], d[3]) ELSE None])
  BY DEF ReadTimestamp
<1>2. PICK days : days = IF CivilAccepted(d[2], d[3]) THEN DaysFromCivil(d[1], d[2], d[3]) ELSE None
  OBVIOUS
<1>3. PICK a : a = answer'
  OBVIOUS
<1>4. a = [call |-> "time", date |-> d, days |-> days] /\ UNCHANGED <<now, history, issued, list>>
  BY <1>1, <1>2, <1>3 DEF Answer
<1>5. VerdictsOf(a) = {} /\ a.date = d /\ a.days = days
  BY <1>4 DEF VerdictsOf
<1>6. PICK y, m, k : y = d[1] /\ m = d[2] /\ k = d[3]
  OBVIOUS
<1>7. ASSUME days # None
      PROVE  /\ DaysFromCivil(1970, 1, 1) = 0
             /\ k = 1 /\ m = 1 => days = DaysFromCivil(y - 1, 12, 31) + 1
             /\ k = 1 /\ m > 1 => days = DaysFromCivil(y, m - 1, DaysIn(y, m - 1)) + 1
             /\ k > 1 => days = DaysFromCivil(y, m, k - 1) + 1
  <2>1. y \in Nat \ {0}
    BY <1>6, CtAssumption
  <2>2. m \in 1 .. 12 /\ k \in 1 .. 31 /\ days = DaysFromCivil(y, m, k)
    BY <1>2, <1>6, <1>7 DEF CivilAccepted
  <2> QED
    BY <2>1, <2>2, Calendar
<1>8. TimesAreRight'
  BY <1>3, <1>5, <1>6, <1>7 DEF TimesAreRight
<1> QED
  BY <1>3, <1>4, <1>5, <1>8

\* Tree heads and inclusion proofs.
LEMMA OtherCalls ==
  ASSUME VerifyTreeHead \/ VerifyInclusionProof
  PROVE  /\ Plain(answer') /\ UNCHANGED <<now, history, issued, list>>
         /\ VerifyTreeHead \/ answer'.call # "sth"
<1>1. CASE VerifyTreeHead
  <2>1. PICK x, r : Answer([call |-> "sth", true |-> x, result |-> r])
    BY <1>1 DEF VerifyTreeHead
  <2>2. answer' = [call |-> "sth", true |-> x, result |-> r] /\ UNCHANGED <<now, history, issued, list>>
    BY <2>1 DEF Answer
  <2>3. Plain(answer')
    BY <2>2, PlainAnswers, Zenon
  <2> QED
    BY <1>1, <2>2, <2>3
<1>2. CASE VerifyInclusionProof
  <2> DEFINE Given(e, n, m, index, size, path) ==
               Answer([call |-> "inclusion", entry |-> e, n |-> n, index |-> index, size |-> size,
                       honest |-> e = EntryAt(m) /\ index = m /\ size = n /\ path = PATH[n][0][m],
                       result |-> VerifyInclusion(MerkleLeafHash(e),
                                    [index |-> index, size |-> size, path |-> path], MTH[n][0])])
  <2>0. PICK n \in 1..MaxTree : \E m \in 0..n - 1 :
          \E index \in 0..n, size \in 0..n + 1,
             path \in {PATH[n][0][m], SubSeq(PATH[n][0][m], 2, Len(PATH[n][0][m])), Append(PATH[n][0][m], MTH[1][0])},
             e0 \in {EntryAt(m)} \cup (IF n > 1 THEN FalseEntries(n) ELSE {}) :
            Given(e0, n, m, index, size, path)
    BY <1>2, Zenon DEF VerifyInclusionProof
  <2>1. PICK e, i, s, h, r :
          Answer([call |-> "inclusion", entry |-> e, n |-> n, index |-> i, size |-> s, honest |-> h, result |-> r])
    <3>1. PICK m, index, size, path, e0 : Given(e0, n, m, index, size, path)
      <4> HIDE DEF Given
      <4> QED
        BY <2>0, Zenon
    <3>2. PICK h : h = (e0 = EntryAt(m) /\ index = m /\ size = n /\ path = PATH[n][0][m])
      OBVIOUS
    <3>3. PICK r : r = VerifyInclusion(MerkleLeafHash(e0),
                                       [index |-> index, size |-> size, path |-> path], MTH[n][0])
      OBVIOUS
    <3>4. Answer([call |-> "inclusion", entry |-> e0, n |-> n, index |-> index, size |-> size,
                  honest |-> h, result |-> r])
      BY <3>1, <3>2, <3>3, Zenon
    <3> QED
      BY <3>4, Zenon
  <2>2. /\ answer' = [call |-> "inclusion", entry |-> e, n |-> n, index |-> i, size |-> s,
                      honest |-> h, result |-> r]
        /\ UNCHANGED <<now, history, issued, list>>
    BY <2>1 DEF Answer
  <2>3. Plain(answer')
    BY <2>2, PlainAnswers, Zenon
  <2>4. answer'.call # "sth"
    BY <2>2
  <2> QED
    BY <2>2, <2>3, <2>4
<1> QED
  BY <1>1, <1>2

\* Exact verdicts stay exact, as nothing is taken back.
LEMMA ExactKept ==
  ASSUME NEW v, Exact(v), UNCHANGED <<issued, list>>
  PROVE  Exact(v)'
BY DEF Exact, Signed, Claim, UsableAt, Informed, KnownState, SctOf

\* Every step keeps the invariant and answers well.
LEMMA StepOk ==
  ASSUME IInv, AnswerOk, [Next]_vars
  PROVE  IInv' /\ AnswerOk'
<1>1. ASSUME Plain(answer') PROVE AnswerOk'
  BY <1>1 DEF AnswerOk, Plain, TimesAreRight
<1>2. ASSUME answer = NoAnswer, answer' = answer PROVE AnswerOk'
  BY <1>1, <1>2, PlainAnswers
<1>3. ASSUME Judges PROVE IInv' /\ AnswerOk'
  <2>1. (\A v \in VerdictsOf(answer') : Exact(v)) /\ answer'.call # "time"
    BY <1>3 DEF Judges
  <2>2. UNCHANGED <<now, history, issued, list>>
    BY <1>3 DEF Judges
  <2>3. \A v : Exact(v) => Exact(v)'
    BY <2>2, ExactKept
  <2>4. TimesAreRight'
    BY <2>1 DEF TimesAreRight
  <2>5. AnswerOk'
    BY <2>1, <2>3, <2>4 DEF AnswerOk, VerdictsOf
  <2> QED
    BY <2>2, <2>5, IInvKept
<1>4. Issued /\ ListOk
  BY DEF IInv
<1>5. CASE UNCHANGED vars
  <2>1. UNCHANGED <<now, history, issued, list>> /\ answer' = answer
    BY <1>5 DEF vars
  <2>2. SctVerdictsAreExact
    BY AnswerOkMeans
  <2>3. SctVerdictsAreExact'
    BY <2>1, <2>2 DEF SctVerdictsAreExact, AcceptedSctsAreGenuine, GenuineSctsAreAccepted, TimesAreRight,
                      Verdicts, Signed, Claim, UsableAt, Informed, KnownState, SctOf
  <2>4. AnswerOk'
    BY <2>3, AnswerOkMeans, PTL
  <2> QED
    BY <2>1, <2>4, IInvKept
<1>6. CASE Tick
  <2>1. now' = now + 1 /\ UNCHANGED <<history, issued, list, answer>> /\ answer = NoAnswer
    BY <1>6 DEF Tick
  <2>2. IInv'
    BY <2>1 DEF IInv, Issued, ListOk
  <2> QED
    BY <1>2, <2>1, <2>2
<1>7. ASSUME NEW log \in Logs, ChangeState(log) PROVE IInv' /\ AnswerOk'
  <2>1. answer = NoAnswer /\ answer' = answer
    BY <1>7 DEF ChangeState
  <2> QED
    BY <1>2, <1>7, <2>1, ChangeStateOk
<1>8. ASSUME NEW log \in Logs, Issue(log) PROVE IInv' /\ AnswerOk'
  <2>1. answer = NoAnswer /\ answer' = answer
    BY <1>8 DEF Issue
  <2> QED
    BY <1>2, <1>8, <2>1, IssueOk
<1>9. ASSUME NEW damage, LoadList(damage) PROVE IInv' /\ AnswerOk'
  <2>1. answer = NoAnswer
    BY <1>9 DEF LoadList
  <2>2. IInv' /\ (answer' = answer \/ Plain(answer'))
    BY <1>9, LoadListOk
  <2> QED
    BY <1>1, <1>2, <2>1, <2>2
<1>10. CASE BuildList
  <2>1. answer = NoAnswer
    BY <1>10 DEF BuildList
  <2> QED
    BY <1>2, <1>10, <2>1, BuildListOk
<1>11. CASE VerifyCert
  BY <1>3, <1>4, <1>11, VerifyCertJudges
<1>12. CASE VerifyPrecert
  BY <1>3, <1>4, <1>12, VerifyPrecertJudges
<1>13. CASE VerifyEmbedded
  BY <1>3, <1>4, <1>13, VerifyEmbeddedJudges
<1>14. CASE VerifyDelivered
  BY <1>3, <1>4, <1>14, VerifyDeliveredJudges
<1>15. CASE VerifyTreeHead \/ VerifyInclusionProof
  BY <1>1, <1>15, OtherCalls, IInvKept
<1>16. CASE ReadTimestamp
  <2>1. VerdictsOf(answer') = {} /\ TimesAreRight' /\ UNCHANGED <<now, history, issued, list>>
    BY <1>16, ReadTimestampOk
  <2>2. AnswerOk'
    BY <2>1 DEF AnswerOk, VerdictsOf
  <2> QED
    BY <2>1, <2>2, IInvKept
<1> QED
  BY <1>5, <1>6, <1>7, <1>8, <1>9, <1>10, <1>11, <1>12, <1>13, <1>14, <1>15, <1>16 DEF Next

\* The invariant holds.
LEMMA InvariantHolds == Spec => [](IInv /\ AnswerOk)
<1>1. Init => IInv /\ AnswerOk
  BY InitOk
<1>2. (IInv /\ AnswerOk) /\ [Next]_vars => (IInv /\ AnswerOk)'
  BY StepOk
<1> QED
  BY <1>1, <1>2, PTL DEF Spec

(***************************************************************************)
(* SCTs are accepted exactly if they are genuine, by a list whose times    *)
(* are read by the calendar: for any logs with keys of their own, however  *)
(* often they change state and whatever they sign, for any certificates    *)
(* and any alterations of what was signed, and for every day since the     *)
(* year one.  About verify_sct_for_cert, verify_sct_for_precert and        *)
(* verify_embedded_scts with the list of from_google_log_list_json.        *)
(***************************************************************************)
THEOREM VerdictsAreExact == Spec => []SctVerdictsAreExact
<1>1. AnswerOk => SctVerdictsAreExact
  BY AnswerOkMeans
<1> QED
  BY <1>1, InvariantHolds, PTL

-----------------------------------------------------------------------------
(* Tree heads. *)

\* The first failing check gives the error.
LEMMA FirstFailing ==
  ASSUME NEW c \in Lists, NEW k \in Failing(c), \A j \in Failing(c) : k <= j
  PROVE  FirstError(c) = c[k][2]
<1>1. Failing(c) \in SUBSET Nat
  BY DEF Failing, Lists
<1>2. PICK x : x = CHOOSE i \in Failing(c) : \A j \in Failing(c) : i <= j
  OBVIOUS
<1>3. x \in Failing(c) /\ \A j \in Failing(c) : x <= j
  BY <1>2
<1>4. x = k
  <2>1. x \in Nat /\ k \in Nat /\ x <= k /\ k <= x
    BY <1>1, <1>3
  <2> QED
    BY <2>1
<1> QED
  BY <1>2, <1>4 DEF FirstError, Failing

\* The error of four checks.
LEMMA FirstOfFour ==
  ASSUME NEW r1 \in BOOLEAN \X ErrorNames, NEW r2 \in BOOLEAN \X ErrorNames,
         NEW r3 \in BOOLEAN \X ErrorNames, NEW r4 \in BOOLEAN \X ErrorNames,
         NEW s, s = <<r1, r2, r3, r4>>
  PROVE  FirstError(s) = IF r1[1] THEN r1[2] ELSE IF r2[1] THEN r2[2]
                         ELSE IF r3[1] THEN r3[2] ELSE IF r4[1] THEN r4[2] ELSE "Ok"
<1>1. s \in Lists /\ (Failing(s) = {} <=> ~r1[1] /\ ~r2[1] /\ ~r3[1] /\ ~r4[1])
  BY List4
<1>2. s[1] = r1 /\ s[2] = r2 /\ s[3] = r3 /\ s[4] = r4 /\ DOMAIN s = 1 .. 4
  OBVIOUS
<1>3. /\ 1 \in Failing(s) <=> r1[1]
      /\ 2 \in Failing(s) <=> r2[1]
      /\ 3 \in Failing(s) <=> r3[1]
      /\ 4 \in Failing(s) <=> r4[1]
      /\ \A i \in Failing(s) : i \in 1 .. 4
  BY <1>2 DEF Failing
<1>4. r1[1] \in BOOLEAN /\ r2[1] \in BOOLEAN /\ r3[1] \in BOOLEAN /\ r4[1] \in BOOLEAN
  OBVIOUS
<1>5. CASE r1[1]
  <2>1. 1 \in Failing(s) /\ \A j \in Failing(s) : 1 <= j
    BY <1>3, <1>5
  <2> QED
    BY <1>1, <1>2, <1>5, <2>1, FirstFailing
<1>6. CASE ~r1[1] /\ r2[1]
  <2>1. 2 \in Failing(s) /\ \A j \in Failing(s) : 2 <= j
    BY <1>3, <1>6
  <2> QED
    BY <1>1, <1>2, <1>6, <2>1, FirstFailing
<1>7. CASE ~r1[1] /\ ~r2[1] /\ r3[1]
  <2>1. 3 \in Failing(s) /\ \A j \in Failing(s) : 3 <= j
    BY <1>3, <1>7
  <2> QED
    BY <1>1, <1>2, <1>7, <2>1, FirstFailing
<1>8. CASE ~r1[1] /\ ~r2[1] /\ ~r3[1] /\ r4[1]
  <2>1. 4 \in Failing(s) /\ \A j \in Failing(s) : 4 <= j
    BY <1>3, <1>8
  <2> QED
    BY <1>1, <1>2, <1>8, <2>1, FirstFailing
<1>9. CASE ~r1[1] /\ ~r2[1] /\ ~r3[1] /\ ~r4[1]
  BY <1>1, <1>9, OkOfList
<1> QED
  BY <1>4, <1>5, <1>6, <1>7, <1>8, <1>9

\* The verdict on a tree head: the log is in the list, the algorithm and the
\* key can be used, and the signature is that of the log over this head.
LEMMA TreeHeadVerdict ==
  ASSUME NEW logs, NEW id, NEW sth, NEW result, result = VerifySth(logs, id, sth),
         NEW right, right = (sth.sig = [key |-> logs[id].key.name, alg |-> sth.alg,
                                        input |-> TreeHeadInput(sth.time, sth.size, sth.root)])
  PROVE  /\ result \in {"Ok", "InvalidSignature"} => id \in DOMAIN logs /\ sth.alg \in KnownAlgorithms
         /\ result = "Ok" => right
         /\ result = "InvalidSignature" => ~right
<1> DEFINE S == BOOLEAN \X ErrorNames
<1>1. PICK x1 \in BOOLEAN : x1 = (id \notin DOMAIN logs)
  OBVIOUS
<1>2. PICK x2 \in BOOLEAN : x2 = (sth.alg \notin KnownAlgorithms)
  OBVIOUS
<1>3. PICK x3 \in BOOLEAN : x3 = (logs[id].key.form # "ok")
  OBVIOUS
<1>4. PICK x4 \in BOOLEAN : x4 = ~right
  OBVIOUS
<1>5. /\ "UnknownLog" \in ErrorNames /\ "UnsupportedSignatureAlgorithm" \in ErrorNames
      /\ "LogKeyMalformed" \in ErrorNames /\ "InvalidSignature" \in ErrorNames
  BY DEF ErrorNames
<1>6. PICK r1 \in S, r2 \in S, r3 \in S, r4 \in S :
        /\ r1 = <<x1, "UnknownLog">> /\ r2 = <<x2, "UnsupportedSignatureAlgorithm">>
        /\ r3 = <<x3, "LogKeyMalformed">> /\ r4 = <<x4, "InvalidSignature">>
  BY <1>5
<1>7. PICK c : c = SignatureChecks(logs, id, sth.alg, sth.sig, TreeHeadInput(sth.time, sth.size, sth.root))
  OBVIOUS
<1>8. result = FirstError(<<r1, r2>> \o c)
  BY <1>1, <1>2, <1>6, <1>7 DEF VerifySth
<1>9. CASE id \in DOMAIN logs
  <2>1. c = <<r3, r4>>
    BY <1>3, <1>4, <1>6, <1>7, <1>9 DEF SignatureChecks
  <2>2. PICK s : s = <<r1, r2, r3, r4>>
    OBVIOUS
  <2>3. result = FirstError(s)
    <3>1. <<r1, r2>> \o <<r3, r4>> = s
      <4>1. r1 \in S /\ r2 \in S /\ r3 \in S /\ r4 \in S
        OBVIOUS
      <4> HIDE DEF S
      <4>2. <<r1, r2, r3, r4>> = <<r1, r2>> \o <<r3, r4>>
        BY <4>1
      <4> QED
        BY <2>2, <4>2, Zenon
    <3> QED
      BY <1>8, <2>1, <3>1
  <2>4. FirstError(s) = IF r1[1] THEN r1[2] ELSE IF r2[1] THEN r2[2]
                        ELSE IF r3[1] THEN r3[2] ELSE IF r4[1] THEN r4[2] ELSE "Ok"
    BY <2>2, FirstOfFour
  <2>5. result = IF x1 THEN "UnknownLog" ELSE IF x2 THEN "UnsupportedSignatureAlgorithm"
                 ELSE IF x3 THEN "LogKeyMalformed" ELSE IF x4 THEN "InvalidSignature" ELSE "Ok"
    BY <1>6, <2>3, <2>4
  <2> QED
    BY <1>1, <1>2, <1>4, <1>9, <2>5
<1>10. CASE id \notin DOMAIN logs
  <2>1. c = <<>>
    BY <1>7, <1>10 DEF SignatureChecks
  <2>2. PICK s : s = <<r1, r2>>
    OBVIOUS
  <2>3. s \in Seq(S) /\ DOMAIN s = 1 .. 2 /\ s[1] = r1
    <3> HIDE DEF S
    <3> QED
      BY <2>2
  <2>4. s \o <<>> = s
    <3> HIDE DEF S
    <3> QED
      BY <2>3
  <2>5. s \in Lists /\ 1 \in Failing(s) /\ \A j \in Failing(s) : 1 <= j
    BY <1>1, <1>6, <1>10, <2>3 DEF Failing, Lists
  <2>6. FirstError(s) = "UnknownLog"
    <3>1. FirstError(s) = s[1][2]
      BY <2>5, FirstFailing
    <3> QED
      BY <1>6, <2>3, <3>1
  <2>7. result = "UnknownLog"
    BY <1>8, <2>1, <2>2, <2>4, <2>6
  <2> QED
    BY <2>7
<1> QED
  BY <1>9, <1>10

\* A call about a tree head answers rightly.
LEMMA TreeHeadOk ==
  ASSUME ListOk, VerifyTreeHead
  PROVE  TreeHeadsAreExact'
<1>1. PICK log \in Logs, by \in Logs, size \in 1..2, alg \in {"ecdsaSha256", "anonymous"} :
        LET signed == TreeHeadInput(now, 1, "root")
            sth == [time |-> now, size |-> size, root |-> "root", alg |-> alg,
                    sig |-> [key |-> by, alg |-> "ecdsaSha256", input |-> signed]]
        IN  Answer([call |-> "sth", true |-> log = by /\ size = 1,
                    result |-> VerifySth(list.logs, log, sth)])
  BY DEF VerifyTreeHead
<1>2. list # NoLogs
  BY DEF VerifyTreeHead, Ready
<1>3. PICK sth : sth = [time |-> now, size |-> size, root |-> "root", alg |-> alg,
                        sig |-> [key |-> by, alg |-> "ecdsaSha256", input |-> TreeHeadInput(now, 1, "root")]]
  OBVIOUS
<1>4. PICK result : result = VerifySth(list.logs, log, sth)
  OBVIOUS
<1>5. PICK true \in BOOLEAN : true = (log = by /\ size = 1)
  OBVIOUS
<1>6. answer' = [call |-> "sth", true |-> true, result |-> result]
  BY <1>1, <1>3, <1>4, <1>5 DEF Answer
<1>7. PICK right \in BOOLEAN :
        right = (sth.sig = [key |-> list.logs[log].key.name, alg |-> sth.alg,
                            input |-> TreeHeadInput(sth.time, sth.size, sth.root)])
  OBVIOUS
<1>8. /\ result \in {"Ok", "InvalidSignature"} => log \in DOMAIN list.logs /\ sth.alg \in KnownAlgorithms
      /\ result = "Ok" => right
      /\ result = "InvalidSignature" => ~right
  BY <1>4, <1>7, TreeHeadVerdict
<1>9. ASSUME log \in DOMAIN list.logs, sth.alg \in KnownAlgorithms PROVE right <=> true
  <2>1. list.logs[log].key.name = log
    <3>1. Faithful(list.known, list.logs)
      BY <1>2 DEF ListOk
    <3> QED
      BY <1>9, <3>1, CtAssumption DEF Faithful
  <2>2. alg = "ecdsaSha256"
    BY <1>3, <1>9 DEF KnownAlgorithms
  <2>3. right = ([key |-> by, alg |-> "ecdsaSha256", input |-> TreeHeadInput(now, 1, "root")]
                  = [key |-> log, alg |-> "ecdsaSha256", input |-> TreeHeadInput(now, size, "root")])
    BY <1>3, <1>7, <2>1, <2>2
  <2>4. right <=> by = log /\ TreeHeadInput(now, 1, "root") = TreeHeadInput(now, size, "root")
    BY <2>3
  <2>5. TreeHeadInput(now, 1, "root") = TreeHeadInput(now, size, "root") <=> size = 1
    BY DEF TreeHeadInput
  <2> QED
    BY <1>5, <2>4, <2>5
<1>10. result \in {"Ok", "InvalidSignature"} => (result = "Ok" <=> true)
  BY <1>8, <1>9
<1>11. PICK a : a = answer'
  OBVIOUS
<1>12. a.result = result /\ a.true = true
  BY <1>6, <1>11
<1> QED
  BY <1>10, <1>11, <1>12 DEF TreeHeadsAreExact

(***************************************************************************)
(* A tree head is accepted exactly if the log signed it as presented,      *)
(* whichever logs are in the list and whatever became of them.  About      *)
(* verify_sth: the part of TreeProofsAreExact that is not about the trees. *)
(***************************************************************************)
THEOREM HeadsAreExact == Spec => []TreeHeadsAreExact
<1>1. Init => TreeHeadsAreExact
  BY DEF Init, NoAnswer, TreeHeadsAreExact
<1>2. ASSUME IInv, TreeHeadsAreExact, [Next]_vars PROVE TreeHeadsAreExact'
  <2>1. ASSUME answer'.call # "sth" PROVE TreeHeadsAreExact'
    BY <2>1 DEF TreeHeadsAreExact
  <2>2. ASSUME answer' = answer PROVE TreeHeadsAreExact'
    BY <1>2, <2>2 DEF TreeHeadsAreExact
  <2>3. ListOk
    BY <1>2 DEF IInv
  <2>4. CASE UNCHANGED vars
    BY <2>2, <2>4 DEF vars
  <2>5. CASE Tick \/ BuildList
    BY <2>2, <2>5 DEF Tick, BuildList
  <2>6. ASSUME NEW log \in Logs, ChangeState(log) \/ Issue(log) PROVE TreeHeadsAreExact'
    BY <2>2, <2>6 DEF ChangeState, Issue
  <2>7. ASSUME NEW damage, LoadList(damage) PROVE TreeHeadsAreExact'
    <3>1. answer' = answer \/ \E r : answer' = [call |-> "load", result |-> r]
      BY <2>7 DEF LoadList
    <3> QED
      BY <2>1, <2>2, <3>1
  <2>8. CASE VerifyCert \/ VerifyPrecert \/ VerifyEmbedded \/ VerifyDelivered
    <3>1. Issued
      BY <1>2 DEF IInv
    <3>2. Judges
      BY <2>3, <2>8, <3>1, VerifyCertJudges, VerifyPrecertJudges, VerifyEmbeddedJudges, VerifyDeliveredJudges
    <3> QED
      BY <2>1, <3>2 DEF Judges
  <2>9. CASE VerifyTreeHead
    BY <2>3, <2>9, TreeHeadOk
  <2>10. CASE VerifyInclusionProof
    BY <2>1, <2>9, <2>10, OtherCalls
  <2>11. CASE ReadTimestamp
    BY <2>1, <2>11 DEF ReadTimestamp, Answer
  <2> QED
    BY <1>2, <2>4, <2>5, <2>6, <2>7, <2>8, <2>9, <2>10, <2>11 DEF Next
<1>3. IInv /\ TreeHeadsAreExact /\ [Next]_vars => TreeHeadsAreExact'
  BY <1>2
<1> QED
  BY <1>1, <1>3, InvariantHolds, PTL DEF Spec

-----------------------------------------------------------------------------
(* Inclusion proofs. *)

\* A recursion that goes from n to a smaller number, with given values where it ends.
Descends(base, down) == \A n \in Nat \ base : down[n] < n
Descended(f, base, given, down, step) ==
  \A n \in Nat : f[n] = IF n \in base THEN given[n] ELSE step[n][f[down[n]]]

\* A function on the numbers that is given on some of them, and elsewhere
\* depends on its value at a smaller one, exists.
LEMMA DescentExists ==
  ASSUME NEW V, NEW base \in SUBSET Nat, NEW given \in [Nat -> V],
         NEW down \in [Nat -> Nat], Descends(base, down),
         NEW step \in [Nat -> [V -> V]]
  PROVE  \E f \in [Nat -> V] : Descended(f, base, given, down, step)
<1> USE DEF Descends
<1> DEFINE Solves(f, n) ==
             \A m \in 0 .. n : f[m] = IF m \in base THEN given[m] ELSE step[m][f[down[m]]]
           Unsolved == {n \in Nat : ~\E f \in [Nat -> V] : Solves(f, n)}
<1>1. Unsolved = {}
  <2> SUFFICES ASSUME Unsolved # {} PROVE FALSE
    OBVIOUS
  <2>1. PICK n \in Unsolved : \A m \in Unsolved : n <= m
    <3>1. Unsolved \in SUBSET Nat
      OBVIOUS
    <3> HIDE DEF Unsolved
    <3> QED
      BY <3>1, Smallest
  <2>2. PICK f \in [Nat -> V] : n # 0 => Solves(f, n - 1)
    <3>0. n \in Nat
      OBVIOUS
    <3>1. n = 0 \/ (n - 1 \in Nat /\ n - 1 \notin Unsolved)
      <4> HIDE DEF Unsolved
      <4> QED
        BY <2>1, <3>0
    <3>2. CASE n = 0
      <4>1. given \in [Nat -> V] /\ (n # 0 => Solves(given, n - 1))
        BY <3>2
      <4> QED
        BY <4>1
    <3>3. CASE n # 0
      BY <3>1, <3>3
    <3> QED
      BY <3>2, <3>3
  <2> DEFINE g == [f EXCEPT ![n] = IF n \in base THEN given[n] ELSE step[n][f[down[n]]]]
  <2>3. n \in Nat
    OBVIOUS
  <2>4. g \in [Nat -> V]
    BY <2>3
  <2>5. ASSUME NEW m \in 0 .. n
        PROVE  g[m] = IF m \in base THEN given[m] ELSE step[m][g[down[m]]]
    <3>1. m \in Nat /\ (m \notin base => down[m] \in Nat /\ down[m] < n /\ g[down[m]] = f[down[m]])
      BY <2>3
    <3>2. CASE m = n
      BY <2>3, <3>1, <3>2
    <3>3. CASE m # n
      <4>1. g[m] = f[m] /\ m \in 0 .. n - 1 /\ n # 0
        BY <2>3, <3>3
      <4>2. f[m] = IF m \in base THEN given[m] ELSE step[m][f[down[m]]]
        BY <2>2, <4>1
      <4> QED
        BY <3>1, <4>1, <4>2
    <3> QED
      BY <3>2, <3>3
  <2>6. Solves(g, n)
    BY <2>5
  <2> QED
    BY <2>1, <2>4, <2>6
<1>2. \A n \in Nat : \E f \in [Nat -> V] : Solves(f, n)
  BY <1>1
\* Any two agree.
<1>3. ASSUME NEW n \in Nat, NEW f \in [Nat -> V], NEW g \in [Nat -> V],
             Solves(f, n), NEW k \in Nat, n <= k, Solves(g, k)
      PROVE  f[n] = g[n]
  <2> DEFINE Differ == {m \in 0 .. n : f[m] # g[m]}
  <2> SUFFICES ASSUME Differ # {} PROVE FALSE
    OBVIOUS
  <2>1. PICK m \in Differ : \A j \in Differ : m <= j
    <3>1. Differ \in SUBSET Nat
      OBVIOUS
    <3> HIDE DEF Differ
    <3> QED
      BY <3>1, Smallest
  <2>2. m \in 0 .. n /\ m \in 0 .. k /\ m \in Nat
    BY <1>3
  <2>3. /\ f[m] = IF m \in base THEN given[m] ELSE step[m][f[down[m]]]
        /\ g[m] = IF m \in base THEN given[m] ELSE step[m][g[down[m]]]
    BY <1>3, <2>2
  <2>4. m \notin base => down[m] \in 0 .. n /\ down[m] < m
    BY <2>2
  <2>5. m \notin base => f[down[m]] = g[down[m]]
    <3>1. m \notin base => down[m] \notin Differ
      BY <2>1, <2>2, <2>4
    <3> QED
      BY <2>4, <3>1
  <2> QED
    BY <2>1, <2>3, <2>5
<1> DEFINE Solution(n) == CHOOSE f \in [Nat -> V] : Solves(f, n)
<1>4. \A n \in Nat : Solution(n) \in [Nat -> V] /\ Solves(Solution(n), n)
  <2> HIDE DEF Solves
  <2> QED
    BY <1>2
<1> DEFINE F == [n \in Nat |-> Solution(n)[n]]
<1>5. F \in [Nat -> V]
  <2> HIDE DEF Solution
  <2> QED
    BY <1>4
<1>6. ASSUME NEW n \in Nat
      PROVE  F[n] = IF n \in base THEN given[n] ELSE step[n][F[down[n]]]
  <2>1. PICK f \in [Nat -> V] : f = Solution(n) /\ Solves(f, n)
    <3> HIDE DEF Solution, Solves
    <3> QED
      BY <1>4
  <2>2. F[n] = f[n]
    <3> HIDE DEF Solution, Solves
    <3> QED
      BY <2>1
  <2>3. f[n] = IF n \in base THEN given[n] ELSE step[n][f[down[n]]]
    <3>1. n \in 0 .. n
      OBVIOUS
    <3>2. Solves(f, n)
      BY <2>1
    <3> HIDE DEF Solution
    <3> QED
      BY <3>1, <3>2
  <2>4. ASSUME n \notin base PROVE F[down[n]] = f[down[n]]
    <3>1. PICK d \in Nat : d = down[n] /\ d <= n
      BY <2>4
    <3>2. PICK g \in [Nat -> V] : g = Solution(d) /\ Solves(g, d)
      <4> HIDE DEF Solution, Solves
      <4> QED
        BY <1>4
    <3>3. F[d] = g[d]
      <4> HIDE DEF Solution, Solves
      <4> QED
        BY <3>2
    <3>4. g[d] = f[d]
      <4> HIDE DEF Solution, Solves
      <4> QED
        BY <1>3, <2>1, <3>1, <3>2
    <3> QED
      BY <3>1, <3>3, <3>4
  <2> QED
    BY <2>2, <2>3, <2>4
<1> HIDE DEF F
<1> QED
  BY <1>5, <1>6 DEF Descended

\* Where the value at the smaller number is in V, so is the value.
Closed(V, base, down, f) ==
  \A n \in Nat : n \in base \/ f[down[n]] \in V => f[n] \in V

\* The values of such a function are where they should be.
LEMMA DescentType ==
  ASSUME NEW V, NEW base, NEW down \in [Nat -> Nat], Descends(base, down),
         NEW f, Closed(V, base, down, f)
  PROVE  \A n \in Nat : f[n] \in V
<1> USE DEF Descends, Closed
<1> DEFINE Outside == {n \in Nat : f[n] \notin V}
<1> SUFFICES ASSUME Outside # {} PROVE FALSE
  OBVIOUS
<1>1. PICK n \in Outside : \A m \in Outside : n <= m
  <2>1. Outside \in SUBSET Nat
    OBVIOUS
  <2> HIDE DEF Outside
  <2> QED
    BY <2>1, Smallest
<1>2. n \in Nat \ base /\ f[down[n]] \notin V
  OBVIOUS
<1>3. down[n] \in Outside /\ down[n] < n
  BY <1>2
<1> QED
  BY <1>1, <1>2, <1>3

\* Halves.
LEMMA Halves ==
  ASSUME NEW n \in Nat
  PROVE  /\ n \div 2 \in Nat /\ (n # 0 => n \div 2 < n)
         /\ (n + 1) \div 2 \in Nat /\ (n > 1 => (n + 1) \div 2 < n)
BY SMT

\* The function BitLength.
LEMMA BitLengthIs ==
  /\ BitLength \in [Nat -> Nat]
  /\ \A n \in Nat : BitLength[n] = IF n = 0 THEN 0 ELSE BitLength[n \div 2] + 1
<1> DEFINE given == [n \in Nat |-> 0]
           down == [n \in Nat |-> n \div 2]
           step == [n \in Nat |-> [x \in Nat |-> x + 1]]
<1>1. /\ {0} \in SUBSET Nat /\ given \in [Nat -> Nat] /\ down \in [Nat -> Nat]
      /\ Descends({0}, down) /\ step \in [Nat -> [Nat -> Nat]]
  BY Halves DEF Descends
<1>2. PICK f \in [Nat -> Nat] : Descended(f, {0}, given, down, step)
  <2> HIDE DEF given, down, step
  <2> QED
    BY <1>1, DescentExists
<1>4. \A n \in Nat : f[n] = IF n = 0 THEN 0 ELSE f[n \div 2] + 1
  BY <1>2, Halves DEF Descended
<1>5. f = [n \in Nat |-> IF n = 0 THEN 0 ELSE f[n \div 2] + 1]
  BY <1>4
<1>6. BitLength = [n \in Nat |-> IF n = 0 THEN 0 ELSE BitLength[n \div 2] + 1]
  BY <1>5 DEF BitLength
<1>7. \A n \in Nat : BitLength[n] \in Nat
  <2>1. Closed(Nat, {0}, down, BitLength)
    BY <1>6, Halves DEF Closed
  <2> HIDE DEF down
  <2> QED
    BY <1>1, <2>1, DescentType
<1> QED
  BY <1>6, <1>7

\* The function Split, and that the larger part is a proper one.
LEMMA SplitIs ==
  /\ \A n \in Nat : Split[n] = IF n <= 2 THEN 1 ELSE 2 * Split[(n + 1) \div 2]
  /\ \A n \in Nat : Split[n] \in Nat
<1> DEFINE base == {0, 1, 2}
           given == [n \in Nat |-> 1]
           down == [n \in Nat |-> (n + 1) \div 2]
           step == [n \in Nat |-> [x \in Nat |-> 2 * x]]
<1>1. /\ base \in SUBSET Nat /\ given \in [Nat -> Nat] /\ down \in [Nat -> Nat]
      /\ Descends(base, down) /\ step \in [Nat -> [Nat -> Nat]]
  BY Halves DEF Descends
<1>2. PICK f \in [Nat -> Nat] : Descended(f, base, given, down, step)
  <2> HIDE DEF base, given, down, step
  <2> QED
    BY <1>1, DescentExists
<1>3. ASSUME NEW n \in Nat PROVE f[n] = IF n <= 2 THEN 1 ELSE 2 * f[(n + 1) \div 2]
  <2>1. f[n] = IF n \in base THEN given[n] ELSE step[n][f[down[n]]]
    BY <1>2 DEF Descended
  <2>2. n \in base <=> n <= 2
    OBVIOUS
  <2>3. f[(n + 1) \div 2] \in Nat
    BY Halves
  <2> QED
    BY <2>1, <2>2, <2>3
<1>4. f = [n \in Nat |-> IF n <= 2 THEN 1 ELSE 2 * f[(n + 1) \div 2]]
  BY <1>3
<1>5. Split = [n \in Nat |-> IF n <= 2 THEN 1 ELSE 2 * Split[(n + 1) \div 2]]
  BY <1>4 DEF Split
<1>6. \A n \in Nat : Split[n] \in Nat
  <2>1. Closed(Nat, base, down, Split)
    BY <1>5, Halves DEF Closed
  <2> HIDE DEF base, down
  <2> QED
    BY <1>1, <2>1, DescentType
<1> QED
  BY <1>5, <1>6

\* A tree of two entries or more is split into two parts that are not empty.
LEMMA SplitProper == \A n \in Nat : n > 1 => Split[n] > 0 /\ Split[n] < n
<1> DEFINE Bad == {n \in Nat : n > 1 /\ ~(Split[n] > 0 /\ Split[n] < n)}
<1> SUFFICES ASSUME Bad # {} PROVE FALSE
  OBVIOUS
<1>1. PICK n \in Bad : \A m \in Bad : n <= m
  <2>1. Bad \in SUBSET Nat
    OBVIOUS
  <2> HIDE DEF Bad
  <2> QED
    BY <2>1, Smallest
<1>2. n \in Nat /\ n > 2
  <2>1. Split[2] = 1
    BY SplitIs
  <2> QED
    BY <2>1
<1>3. PICK h \in Nat : h = (n + 1) \div 2 /\ h > 1 /\ h < n /\ 2 * h <= n + 1
  BY <1>2
<1>4. Split[n] = 2 * Split[h] /\ Split[h] \in Nat
  BY <1>2, <1>3, SplitIs
<1>5. Split[h] > 0 /\ Split[h] < h
  <2>1. h \notin Bad
    BY <1>1, <1>2, <1>3
  <2> QED
    BY <1>3, <2>1
<1>6. Split[n] > 0 /\ Split[n] < n
  BY <1>2, <1>3, <1>4, <1>5
<1> QED
  BY <1>6

\* The inner loop.
LEMMA BubbleIs ==
  \A fn \in Nat : Bubble[fn] = [sn \in Nat |-> IF fn = 0 \/ fn % 2 = 1 THEN <<fn, sn>>
                                               ELSE Bubble[fn \div 2][sn \div 2]]
<1> DEFINE V == [Nat -> Nat \X Nat]
           base == {n \in Nat : n = 0 \/ n % 2 = 1}
           given == [n \in Nat |-> [sn \in Nat |-> <<n, sn>>]]
           down == [n \in Nat |-> n \div 2]
           step == [n \in Nat |-> [x \in V |-> [sn \in Nat |-> x[sn \div 2]]]]
<1>1. /\ base \in SUBSET Nat /\ given \in [Nat -> V] /\ down \in [Nat -> Nat]
      /\ Descends(base, down) /\ step \in [Nat -> [V -> V]]
  BY Halves DEF Descends
<1>2. PICK f \in [Nat -> V] : Descended(f, base, given, down, step)
  <2> HIDE DEF V, base, given, down, step
  <2> QED
    BY <1>1, DescentExists
<1>3. ASSUME NEW n \in Nat
      PROVE  f[n] = [sn \in Nat |-> IF n = 0 \/ n % 2 = 1 THEN <<n, sn>> ELSE f[n \div 2][sn \div 2]]
  <2>1. f[n] = IF n \in base THEN given[n] ELSE step[n][f[down[n]]]
    BY <1>2 DEF Descended
  <2>2. CASE n \in base
    BY <2>1, <2>2
  <2>3. CASE n \notin base
    <3>1. f[n \div 2] \in V
      <4> HIDE DEF V
      <4> QED
        BY Halves
    <3>2. step[n][f[n \div 2]] = [sn \in Nat |-> f[n \div 2][sn \div 2]]
      <4> HIDE DEF V
      <4> QED
        BY <3>1
    <3> QED
      BY <2>1, <2>3, <3>2
  <2> QED
    BY <2>2, <2>3
<1>4. f = [n \in Nat |->
            [sn \in Nat |-> IF n = 0 \/ n % 2 = 1 THEN <<n, sn>> ELSE f[n \div 2][sn \div 2]]]
  BY <1>3
<1>5. Bubble = [n \in Nat |->
            [sn \in Nat |-> IF n = 0 \/ n % 2 = 1 THEN <<n, sn>> ELSE Bubble[n \div 2][sn \div 2]]]
  BY <1>4, Zenon DEF Bubble
<1> QED
  BY <1>5, Zenon

\* The hash of n leaves.
TreeStep(leaf, f, n) ==
  [i \in Nat |-> IF n = 1 THEN leaf[i] ELSE InnerHash(f[Split[n]][i], f[n - Split[n]][i + Split[n]])]

\* The recursion over the leaves has a solution: the hash of a tree is that of its two parts.
LEMMA TreesIs ==
  ASSUME NEW leaf
  PROVE  \A n \in 1 .. MaxTree : Trees(leaf)[n] = TreeStep(leaf, Trees(leaf), n)
<1> DEFINE Unsolved == {j \in Nat : ~\E f : f = [n \in 1 .. j |-> TreeStep(leaf, f, n)]}
<1>1. Unsolved = {}
  <2> SUFFICES ASSUME Unsolved # {} PROVE FALSE
    OBVIOUS
  <2>1. PICK j \in Unsolved : \A i \in Unsolved : j <= i
    <3>1. Unsolved \in SUBSET Nat
      OBVIOUS
    <3> HIDE DEF Unsolved
    <3> QED
      BY <3>1, Smallest
  <2>2. j \in Nat /\ j # 0
    <3>1. CASE j = 0
      <4> DEFINE e == [n \in 1 .. 0 |-> 0]
      <4>1. e = [n \in 1 .. 0 |-> TreeStep(leaf, e, n)]
        OBVIOUS
      <4> QED
        BY <3>1, <4>1
    <3> QED
      BY <3>1
  <2>3. PICK f : f = [n \in 1 .. j - 1 |-> TreeStep(leaf, f, n)]
    <3>1. j - 1 \in Nat /\ j - 1 \notin Unsolved
      <4> HIDE DEF Unsolved
      <4> QED
        BY <2>1, <2>2
    <3> QED
      BY <3>1
  <2> DEFINE g == [n \in 1 .. j |-> TreeStep(leaf, f, n)]
  <2>4. ASSUME NEW n \in 1 .. j - 1 PROVE g[n] = f[n]
    BY <2>2, <2>3
  <2>5. ASSUME NEW n \in 1 .. j PROVE TreeStep(leaf, g, n) = TreeStep(leaf, f, n)
    <3>1. CASE n = 1
      BY <3>1 DEF TreeStep
    <3>2. CASE n # 1
      <4>1. Split[n] \in 1 .. j - 1 /\ n - Split[n] \in 1 .. j - 1
        BY <2>2, <3>2, SplitIs, SplitProper
      <4>2. g[Split[n]] = f[Split[n]] /\ g[n - Split[n]] = f[n - Split[n]]
        <5> HIDE DEF g
        <5> QED
          BY <2>4, <4>1
      <4> HIDE DEF g
      <4> QED
        BY <4>2 DEF TreeStep
    <3> QED
      BY <3>1, <3>2
  <2>6. g = [n \in 1 .. j |-> TreeStep(leaf, g, n)]
    BY <2>5
  <2> QED
    BY <2>1, <2>6
<1>2. PICK f : f = [n \in 1 .. MaxTree |-> TreeStep(leaf, f, n)]
  <2>1. MaxTree \in Nat /\ MaxTree \notin Unsolved
    BY <1>1, CtAssumption
  <2> QED
    BY <2>1
<1>3. Trees(leaf) = [n \in 1 .. MaxTree |-> TreeStep(leaf, Trees(leaf), n)]
  BY <1>2 DEF Trees, TreeStep
<1> QED
  BY <1>3

\* The hash of one leaf, and of a tree from the hashes of its parts.
LEMMA TreeValues ==
  ASSUME NEW leaf, NEW i \in Nat
  PROVE  /\ MaxTree > 0 => Trees(leaf)[1][i] = leaf[i]
         /\ \A n \in 2 .. MaxTree :
              Trees(leaf)[n][i] = InnerHash(Trees(leaf)[Split[n]][i], Trees(leaf)[n - Split[n]][i + Split[n]])
<1>1. MaxTree > 0 => Trees(leaf)[1] = TreeStep(leaf, Trees(leaf), 1)
  BY TreesIs, CtAssumption
<1>2. \A n \in 2 .. MaxTree : Trees(leaf)[n] = TreeStep(leaf, Trees(leaf), n)
  BY TreesIs, CtAssumption
<1>3. PICK t : t = Trees(leaf)
  OBVIOUS
<1>4. TreeStep(leaf, t, 1)[i] = leaf[i]
  BY DEF TreeStep
<1>5. \A n \in 2 .. MaxTree :
        TreeStep(leaf, t, n)[i] = InnerHash(t[Split[n]][i], t[n - Split[n]][i + Split[n]])
  BY DEF TreeStep
<1> QED
  BY <1>1, <1>2, <1>3, <1>4, <1>5

\* The audit paths over n leaves.
PathStep(leaf, f, n) ==
  [i \in Nat |-> [m \in 0 .. n - 1 |->
     IF n = 1 THEN <<>>
     ELSE IF m < Split[n] THEN Append(f[Split[n]][i][m], Trees(leaf)[n - Split[n]][i + Split[n]])
     ELSE Append(f[n - Split[n]][i + Split[n]][m - Split[n]], Trees(leaf)[Split[n]][i])]]

\* The recursion over the audit paths has a solution as well.
LEMMA PathsAre ==
  ASSUME NEW leaf
  PROVE  \A n \in 1 .. MaxTree : AuditPaths(leaf)[n] = PathStep(leaf, AuditPaths(leaf), n)
<1> DEFINE Unsolved == {j \in Nat : ~\E f : f = [n \in 1 .. j |-> PathStep(leaf, f, n)]}
<1>1. Unsolved = {}
  <2> SUFFICES ASSUME Unsolved # {} PROVE FALSE
    OBVIOUS
  <2>1. PICK j \in Unsolved : \A i \in Unsolved : j <= i
    <3>1. Unsolved \in SUBSET Nat
      OBVIOUS
    <3> HIDE DEF Unsolved
    <3> QED
      BY <3>1, Smallest
  <2>2. j \in Nat /\ j # 0
    <3>1. CASE j = 0
      <4> DEFINE e == [n \in 1 .. 0 |-> 0]
      <4>1. e = [n \in 1 .. 0 |-> PathStep(leaf, e, n)]
        OBVIOUS
      <4> QED
        BY <3>1, <4>1
    <3> QED
      BY <3>1
  <2>3. PICK f : f = [n \in 1 .. j - 1 |-> PathStep(leaf, f, n)]
    <3>1. j - 1 \in Nat /\ j - 1 \notin Unsolved
      <4> HIDE DEF Unsolved
      <4> QED
        BY <2>1, <2>2
    <3> QED
      BY <3>1
  <2> DEFINE g == [n \in 1 .. j |-> PathStep(leaf, f, n)]
  <2>4. ASSUME NEW n \in 1 .. j - 1 PROVE g[n] = f[n]
    BY <2>2, <2>3
  <2>5. ASSUME NEW n \in 1 .. j PROVE PathStep(leaf, g, n) = PathStep(leaf, f, n)
    <3>1. CASE n = 1
      BY <3>1 DEF PathStep
    <3>2. CASE n # 1
      <4>1. Split[n] \in 1 .. j - 1 /\ n - Split[n] \in 1 .. j - 1
        BY <2>2, <3>2, SplitIs, SplitProper
      <4>2. g[Split[n]] = f[Split[n]] /\ g[n - Split[n]] = f[n - Split[n]]
        <5> HIDE DEF g
        <5> QED
          BY <2>4, <4>1
      <4> HIDE DEF g
      <4> QED
        BY <4>2 DEF PathStep
    <3> QED
      BY <3>1, <3>2
  <2>6. g = [n \in 1 .. j |-> PathStep(leaf, g, n)]
    BY <2>5
  <2> QED
    BY <2>1, <2>6
<1>2. PICK f : f = [n \in 1 .. MaxTree |-> PathStep(leaf, f, n)]
  <2>1. MaxTree \in Nat /\ MaxTree \notin Unsolved
    BY <1>1, CtAssumption
  <2> QED
    BY <2>1
<1>3. AuditPaths(leaf) = [n \in 1 .. MaxTree |-> PathStep(leaf, AuditPaths(leaf), n)]
  BY <1>2 DEF AuditPaths, PathStep
<1> QED
  BY <1>3

\* The path of a leaf in the part of the tree it is in, then the other part.
LEMMA PathValues ==
  ASSUME NEW leaf, NEW i \in Nat
  PROVE  /\ MaxTree > 0 => AuditPaths(leaf)[1][i][0] = <<>>
         /\ \A n \in 2 .. MaxTree : \A m \in 0 .. n - 1 :
              AuditPaths(leaf)[n][i][m] =
                IF m < Split[n]
                THEN Append(AuditPaths(leaf)[Split[n]][i][m], Trees(leaf)[n - Split[n]][i + Split[n]])
                ELSE Append(AuditPaths(leaf)[n - Split[n]][i + Split[n]][m - Split[n]], Trees(leaf)[Split[n]][i])
<1>1. MaxTree > 0 => AuditPaths(leaf)[1] = PathStep(leaf, AuditPaths(leaf), 1)
  BY PathsAre, CtAssumption
<1>2. \A n \in 2 .. MaxTree : AuditPaths(leaf)[n] = PathStep(leaf, AuditPaths(leaf), n)
  BY PathsAre, CtAssumption
<1>3. MaxTree > 0 => PathStep(leaf, AuditPaths(leaf), 1)[i][0] = <<>>
  BY DEF PathStep
<1>4. ASSUME NEW n \in 2 .. MaxTree, NEW m \in 0 .. n - 1
      PROVE  AuditPaths(leaf)[n][i][m] =
                IF m < Split[n]
                THEN Append(AuditPaths(leaf)[Split[n]][i][m], Trees(leaf)[n - Split[n]][i + Split[n]])
                ELSE Append(AuditPaths(leaf)[n - Split[n]][i + Split[n]][m - Split[n]], Trees(leaf)[Split[n]][i])
  <2>1. n # 1 /\ i \in Nat
    OBVIOUS
  <2>2. PathStep(leaf, AuditPaths(leaf), n)[i][m] =
                IF m < Split[n]
                THEN Append(AuditPaths(leaf)[Split[n]][i][m], Trees(leaf)[n - Split[n]][i + Split[n]])
                ELSE Append(AuditPaths(leaf)[n - Split[n]][i + Split[n]][m - Split[n]], Trees(leaf)[Split[n]][i])
    BY <2>1 DEF PathStep
  <2> QED
    BY <1>2, <2>2
<1> QED
  BY <1>1, <1>3, <1>4

\* The level above: pairs, and a last node without sibling as it is.
Pair(v, N) == [i \in Nat |-> IF 2 * i + 1 < N THEN InnerHash(v[2 * i], v[2 * i + 1]) ELSE v[2 * i]]

\* A part of the tree that pairs up.
Paired(N, n, a) == 2 * a + n <= N /\ (n % 2 = 0 \/ 2 * a + n = N)

\* Half of such a part, and how it splits.
LEMMA PairedParts ==
  ASSUME NEW N \in Nat, NEW n \in Nat, n > 2, NEW a \in Nat, Paired(N, n, a)
  PROVE  \E h \in Nat, k \in Nat :
           /\ h = (n + 1) \div 2 /\ k = Split[h] /\ h > 1 /\ h < n /\ 0 < k /\ k < h
           /\ Split[n] = 2 * k /\ 2 * k < n
           /\ Paired(N, 2 * k, a) /\ Paired(N, n - 2 * k, a + k)
           /\ (2 * k + 1) \div 2 = k /\ (n - 2 * k + 1) \div 2 = h - k
<1>1. PICK h \in Nat : h = (n + 1) \div 2 /\ h > 1 /\ h < n /\ 2 * h >= n /\ 2 * h <= n + 1
  OBVIOUS
<1>2. PICK k \in Nat : k = Split[h]
  BY SplitIs
<1>3. Split[n] = 2 * k
  BY <1>1, <1>2, SplitIs
<1>4. 0 < k /\ k < h
  BY <1>1, <1>2, SplitProper
<1>5. 2 * k < n
  BY <1>1, <1>4
<1>6. Paired(N, 2 * k, a)
  BY <1>5 DEF Paired
<1>7. Paired(N, n - 2 * k, a + k)
  BY <1>5 DEF Paired
<1>8. (2 * k + 1) \div 2 = k /\ (n - 2 * k + 1) \div 2 = h - k
  BY <1>1, <1>5
<1> QED
  BY <1>1, <1>2, <1>3, <1>4, <1>5, <1>6, <1>7, <1>8

\* Pairing the leaves up does not change the root.
LEMMA TreePairs ==
  ASSUME NEW v, NEW N \in Nat, N <= MaxTree
  PROVE  \A n \in Nat : \A a \in Nat :
           n > 0 /\ Paired(N, n, a) => Trees(Pair(v, N))[(n + 1) \div 2][a] = Trees(v)[n][2 * a]
<1> DEFINE w == Pair(v, N)
           Holds(n) == \A a \in Nat :
             n > 0 /\ Paired(N, n, a) => Trees(w)[(n + 1) \div 2][a] = Trees(v)[n][2 * a]
           Bad == {n \in Nat : ~Holds(n)}
<1> SUFFICES ASSUME Bad # {} PROVE FALSE
  OBVIOUS
<1> HIDE DEF w
<1>1. PICK n \in Bad : \A m \in Bad : n <= m
  <2>1. Bad \in SUBSET Nat
    OBVIOUS
  <2> HIDE DEF Bad
  <2> QED
    BY <2>1, Smallest
<1>2. n \in Nat /\ \A m \in Nat : m < n => Holds(m)
  <2>1. n \in Nat
    OBVIOUS
  <2>2. \A m \in Nat : m < n => m \notin Bad
    <3> HIDE DEF Bad
    <3> QED
      BY <1>1, <2>1
  <2> HIDE DEF Holds
  <2> QED
    BY <2>1, <2>2
<1>3. PICK a \in Nat : n > 0 /\ Paired(N, n, a) /\ Trees(w)[(n + 1) \div 2][a] # Trees(v)[n][2 * a]
  OBVIOUS
<1> HIDE DEF Holds
<1> HIDE DEF Bad
<1>4. n <= N /\ n <= MaxTree /\ MaxTree \in Nat /\ MaxTree > 0
  BY <1>2, <1>3, CtAssumption DEF Paired
<1>5. CASE n = 1
  <2>1. 2 * a + 1 = N
    BY <1>3, <1>5 DEF Paired
  <2>2. w[a] = v[2 * a]
    BY <2>1 DEF w, Pair
  <2>3. Trees(w)[1][a] = w[a] /\ Trees(v)[1][2 * a] = v[2 * a]
    BY <1>4, TreeValues
  <2> QED
    BY <1>3, <1>5, <2>2, <2>3
<1>6. CASE n = 2
  <2>1. 2 * a + 1 < N
    BY <1>3, <1>6 DEF Paired
  <2>2. w[a] = InnerHash(v[2 * a], v[2 * a + 1])
    BY <2>1 DEF w, Pair
  <2>3. Trees(w)[1][a] = w[a] /\ Trees(v)[1][2 * a] = v[2 * a] /\ Trees(v)[1][2 * a + 1] = v[2 * a + 1]
    BY <1>4, TreeValues
  <2>4. Split[2] = 1
    BY SplitIs
  <2>5. Trees(v)[2][2 * a] = InnerHash(Trees(v)[1][2 * a], Trees(v)[1][2 * a + 1])
    <3>1. Trees(v)[2][2 * a] = InnerHash(Trees(v)[Split[2]][2 * a], Trees(v)[2 - Split[2]][2 * a + Split[2]])
      BY <1>4, <1>6, TreeValues
    <3> QED
      BY <2>4, <3>1
  <2> QED
    BY <1>3, <1>6, <2>2, <2>3, <2>5
<1>7. CASE n > 2
  <2>1. PICK h \in Nat, k \in Nat :
           /\ h = (n + 1) \div 2 /\ k = Split[h] /\ h > 1 /\ h < n /\ 0 < k /\ k < h
           /\ Split[n] = 2 * k /\ 2 * k < n
           /\ Paired(N, 2 * k, a) /\ Paired(N, n - 2 * k, a + k)
           /\ (2 * k + 1) \div 2 = k /\ (n - 2 * k + 1) \div 2 = h - k
    BY <1>2, <1>3, <1>7, PairedParts
  <2>2. Trees(v)[n][2 * a] = InnerHash(Trees(v)[2 * k][2 * a], Trees(v)[n - 2 * k][2 * a + 2 * k])
    <3>1. n \in 2 .. MaxTree /\ 2 * a \in Nat
      BY <1>2, <1>4, <1>7
    <3>2. Trees(v)[n][2 * a] = InnerHash(Trees(v)[Split[n]][2 * a], Trees(v)[n - Split[n]][2 * a + Split[n]])
      BY <3>1, TreeValues
    <3> QED
      BY <2>1, <3>2
  <2>3. Trees(w)[h][a] = InnerHash(Trees(w)[k][a], Trees(w)[h - k][a + k])
    <3>1. h \in 2 .. MaxTree
      BY <1>2, <1>4, <1>7, <2>1
    <3>2. Trees(w)[h][a] = InnerHash(Trees(w)[Split[h]][a], Trees(w)[h - Split[h]][a + Split[h]])
      BY <3>1, TreeValues
    <3> QED
      BY <2>1, <3>2
  <2>4. Trees(w)[k][a] = Trees(v)[2 * k][2 * a]
    <3>1. Holds(2 * k)
      BY <1>2, <2>1
    <3> QED
      BY <2>1, <3>1 DEF Holds
  <2>5. Trees(w)[h - k][a + k] = Trees(v)[n - 2 * k][2 * a + 2 * k]
    <3>1. n - 2 * k \in Nat /\ n - 2 * k > 0 /\ n - 2 * k < n /\ a + k \in Nat /\ 2 * (a + k) = 2 * a + 2 * k
      BY <1>2, <2>1
    <3>2. Holds(n - 2 * k)
      BY <1>2, <3>1
    <3>3. Trees(w)[(n - 2 * k + 1) \div 2][a + k] = Trees(v)[n - 2 * k][2 * (a + k)]
      BY <2>1, <3>1, <3>2 DEF Holds
    <3> QED
      BY <2>1, <3>1, <3>3
  <2> QED
    BY <1>3, <2>1, <2>2, <2>3, <2>4, <2>5
<1> QED
  BY <1>2, <1>3, <1>5, <1>6, <1>7

\* The hashes of the parts of a tree.
TreesIn(v, S) == \A n \in 1 .. MaxTree, i \in Nat : Trees(v)[n][i] \in S

\* An audit path is a sequence of hashes of parts of the tree.
LEMMA PathType ==
  ASSUME NEW v, NEW S, TreesIn(v, S)
  PROVE  \A n \in 1 .. MaxTree, i \in Nat : \A m \in 0 .. n - 1 : AuditPaths(v)[n][i][m] \in Seq(S)
<1> DEFINE Typed(n) == \A i \in Nat : \A m \in 0 .. n - 1 : AuditPaths(v)[n][i][m] \in Seq(S)
           Bad == {n \in 1 .. MaxTree : ~Typed(n)}
<1> SUFFICES ASSUME Bad # {} PROVE FALSE
  OBVIOUS
<1>0. MaxTree \in Nat
  BY CtAssumption
<1>1. PICK n \in Bad : \A m \in Bad : n <= m
  <2>1. Bad \in SUBSET Nat
    BY <1>0
  <2> HIDE DEF Bad
  <2> QED
    BY <2>1, Smallest
<1>2. n \in 1 .. MaxTree /\ ~Typed(n)
  OBVIOUS
<1>3. \A k \in 1 .. n - 1 : Typed(k)
  <2> SUFFICES ASSUME NEW k \in 1 .. n - 1 PROVE Typed(k)
    OBVIOUS
  <2>1. k \in 1 .. MaxTree /\ k \in Nat /\ n \in Nat /\ ~(n <= k)
    BY <1>0, <1>2
  <2> HIDE DEF Typed
  <2> QED
    BY <1>1, <2>1
<1> HIDE DEF Bad
<1>4. PICK i \in Nat, m \in 0 .. n - 1 : AuditPaths(v)[n][i][m] \notin Seq(S)
  BY <1>2
<1>5. n # 1
  <2>1. AuditPaths(v)[1][i][0] = <<>>
    BY <1>0, <1>2, PathValues
  <2>2. n = 1 => m = 0
    BY <1>0, <1>4
  <2>3. <<>> \in Seq(S)
    OBVIOUS
  <2>4. n = 1 => AuditPaths(v)[n][i][m] = <<>>
    BY <2>1, <2>2, Zenon
  <2> QED
    BY <1>4, <2>3, <2>4, Zenon
<1>6. PICK k \in Nat : k = Split[n] /\ 0 < k /\ k < n
  BY <1>0, <1>2, <1>5, SplitIs, SplitProper
<1>7. AuditPaths(v)[n][i][m] =
        IF m < k THEN Append(AuditPaths(v)[k][i][m], Trees(v)[n - k][i + k])
        ELSE Append(AuditPaths(v)[n - k][i + k][m - k], Trees(v)[k][i])
  <2>1. n \in 2 .. MaxTree
    BY <1>2, <1>5
  <2> QED
    BY <1>6, <2>1, PathValues
<1>8. Trees(v)[n - k][i + k] \in S /\ Trees(v)[k][i] \in S
  <2>1. n - k \in 1 .. MaxTree /\ k \in 1 .. MaxTree /\ i + k \in Nat
    BY <1>0, <1>2, <1>6
  <2> QED
    BY <2>1 DEF TreesIn
<1>9. CASE m < k
  <2>1. k \in 1 .. n - 1 /\ m \in 0 .. k - 1
    BY <1>0, <1>2, <1>6, <1>9
  <2>2. AuditPaths(v)[k][i][m] \in Seq(S)
    BY <1>3, <2>1
  <2> QED
    BY <1>4, <1>7, <1>8, <1>9, <2>2
<1>10. CASE ~(m < k)
  <2>1. AuditPaths(v)[n - k][i + k][m - k] \in Seq(S)
    <3>1. n - k \in 1 .. n - 1 /\ i + k \in Nat /\ m - k \in 0 .. (n - k) - 1
      BY <1>0, <1>2, <1>6, <1>10
    <3> QED
      BY <1>3, <3>1
  <2> QED
    BY <1>4, <1>7, <1>8, <1>10, <2>1
<1> QED
  BY <1>9, <1>10

\* What comes first in the path of the m-th leaf of a part, before the path of
\* its pair: the other one, if there is one.
Longer(v, n, a, m, q, above) ==
  /\ m % 2 = 1 => q = <<v[2 * a + m - 1]>> \o above
  /\ m % 2 = 0 /\ m + 1 < n => q = <<v[2 * a + m + 1]>> \o above
  /\ m % 2 = 0 /\ m + 1 = n => q = above

\* What is added at the end leaves the first hash of a path in place.
LEMMA AppendBehind ==
  ASSUME NEW S, NEW q, NEW above \in Seq(S), NEW x \in S, NEW y \in S, q = <<x>> \o above
  PROVE  Append(q, y) = <<x>> \o Append(above, y)
OBVIOUS

\* Both grow at the end by the same hash.
LEMMA LongerAppend ==
  ASSUME NEW S, NEW v, \A i \in Nat : v[i] \in S, NEW n \in Nat, NEW a \in Nat, NEW m \in Nat, m < n,
         NEW q, NEW above \in Seq(S), NEW y \in S, Longer(v, n, a, m, q, above)
  PROVE  Longer(v, n, a, m, Append(q, y), Append(above, y))
<1>1. CASE m % 2 = 1
  <2>1. v[2 * a + m - 1] \in S
    <3>1. 2 * a + m - 1 \in Nat
      BY <1>1
    <3> QED
      BY <3>1
  <2>2. Append(q, y) = <<v[2 * a + m - 1]>> \o Append(above, y)
    BY <1>1, <2>1, AppendBehind DEF Longer
  <2> QED
    BY <1>1, <2>2 DEF Longer
<1>2. CASE m % 2 = 0 /\ m + 1 < n
  <2>1. v[2 * a + m + 1] \in S
    OBVIOUS
  <2>2. Append(q, y) = <<v[2 * a + m + 1]>> \o Append(above, y)
    BY <1>2, <2>1, AppendBehind DEF Longer
  <2> QED
    BY <1>2, <2>2 DEF Longer
<1>3. CASE m % 2 = 0 /\ m + 1 = n
  BY <1>3 DEF Longer
<1> QED
  BY <1>1, <1>2, <1>3

\* The audit path of a leaf is that of its pair, behind the other one.
LEMMA PathPairs ==
  ASSUME NEW v, NEW N \in Nat, N <= MaxTree
  PROVE  \A n \in Nat : \A a \in Nat : \A m \in 0 .. n - 1 :
           Paired(N, n, a) =>
             Longer(v, n, a, m, AuditPaths(v)[n][2 * a][m],
                    AuditPaths(Pair(v, N))[(n + 1) \div 2][a][m \div 2])
<1> DEFINE w == Pair(v, N)
           Holds(n) == \A a \in Nat : \A m \in 0 .. n - 1 :
             Paired(N, n, a) =>
               Longer(v, n, a, m, AuditPaths(v)[n][2 * a][m], AuditPaths(w)[(n + 1) \div 2][a][m \div 2])
           Bad == {n \in Nat : ~Holds(n)}
           S == {Trees(v)[n][i] : n \in 1 .. MaxTree, i \in Nat}
                \cup {Trees(w)[n][i] : n \in 1 .. MaxTree, i \in Nat}
<1> SUFFICES ASSUME Bad # {} PROVE FALSE
  OBVIOUS
<1> HIDE DEF w
<1>0. TreesIn(v, S) /\ TreesIn(w, S) /\ MaxTree \in Nat
  BY CtAssumption DEF TreesIn
<1>1. PICK n \in Nat : ~Holds(n) /\ \A m \in Nat : m < n => Holds(m)
  <2>1. PICK n \in Bad : \A m \in Bad : n <= m
    <3>1. Bad \in SUBSET Nat
      OBVIOUS
    <3> HIDE DEF Bad
    <3> QED
      BY <3>1, Smallest
  <2>2. n \in Nat /\ ~Holds(n)
    BY <2>1
  <2>3. \A m \in Nat : m < n => m \notin Bad
    <3> HIDE DEF Bad
    <3> QED
      BY <2>1, <2>2
  <2> HIDE DEF Holds
  <2> QED
    BY <2>2, <2>3
<1> HIDE DEF S, Bad
<1>2. \A m \in Nat : m < n => Holds(m)
  BY <1>1
<1>3. PICK a \in Nat, m \in Nat :
        /\ m < n /\ Paired(N, n, a)
        /\ ~Longer(v, n, a, m, AuditPaths(v)[n][2 * a][m], AuditPaths(w)[(n + 1) \div 2][a][m \div 2])
  <2>1. PICK a \in Nat, m \in 0 .. n - 1 :
          /\ Paired(N, n, a)
          /\ ~Longer(v, n, a, m, AuditPaths(v)[n][2 * a][m], AuditPaths(w)[(n + 1) \div 2][a][m \div 2])
    BY <1>1
  <2>2. m \in Nat /\ m < n
    OBVIOUS
  <2> QED
    BY <2>1, <2>2
<1> HIDE DEF Holds
<1>4. n <= N /\ n <= MaxTree /\ MaxTree > 0 /\ n > 0 /\ m < n /\ Paired(N, n, a)
  BY <1>0, <1>3 DEF Paired
<1>5. \A i \in Nat : v[i] \in S
  <2>1. \A i \in Nat : Trees(v)[1][i] = v[i] /\ Trees(v)[1][i] \in S
    BY <1>0, <1>4, TreeValues DEF TreesIn
  <2> QED
    BY <2>1
<1>6. CASE n = 1
  <2>1. AuditPaths(v)[1][2 * a][0] = <<>> /\ AuditPaths(w)[1][a][0] = <<>>
    BY <1>4, PathValues
  <2>2. m = 0
    BY <1>4, <1>6
  <2>3. Longer(v, 1, a, 0, <<>>, <<>>)
    BY DEF Longer
  <2> QED
    BY <1>3, <1>6, <2>1, <2>2, <2>3
<1>7. CASE n = 2
  <2>1. AuditPaths(w)[1][a][0] = <<>> /\ AuditPaths(v)[1][2 * a][0] = <<>> /\ AuditPaths(v)[1][2 * a + 1][0] = <<>>
    BY <1>4, PathValues
  <2>2. Trees(v)[1][2 * a] = v[2 * a] /\ Trees(v)[1][2 * a + 1] = v[2 * a + 1]
    BY <1>4, TreeValues
  <2>3. Split[2] = 1
    BY SplitIs
  <2>4. AuditPaths(v)[2][2 * a][m] =
          IF m < 1 THEN Append(AuditPaths(v)[1][2 * a][m], Trees(v)[1][2 * a + 1])
          ELSE Append(AuditPaths(v)[1][2 * a + 1][m - 1], Trees(v)[1][2 * a])
    <3>1. 2 \in 2 .. MaxTree /\ 2 * a \in Nat /\ m \in 0 .. 1
      BY <1>0, <1>4, <1>7
    <3>2. AuditPaths(v)[2][2 * a][m] =
            IF m < Split[2] THEN Append(AuditPaths(v)[Split[2]][2 * a][m], Trees(v)[2 - Split[2]][2 * a + Split[2]])
            ELSE Append(AuditPaths(v)[2 - Split[2]][2 * a + Split[2]][m - Split[2]], Trees(v)[Split[2]][2 * a])
      BY <3>1, PathValues
    <3> QED
      BY <2>3, <3>2
  <2>5. CASE m = 0
    <3>1. AuditPaths(v)[2][2 * a][0] = Append(<<>>, v[2 * a + 1])
      <4>1. AuditPaths(v)[2][2 * a][m] = Append(AuditPaths(v)[1][2 * a][m], Trees(v)[1][2 * a + 1])
        BY <2>4, <2>5
      <4> QED
        BY <2>1, <2>2, <2>5, <4>1, Zenon
    <3>4. Append(<<>>, v[2 * a + 1]) = <<v[2 * a + 1]>>
      OBVIOUS
    <3>2. <<v[2 * a + 1]>> = <<v[2 * a + 1]>> \o <<>>
      BY <1>5
    <3>3. Longer(v, 2, a, 0, <<v[2 * a + 1]>>, <<>>)
      BY <3>2 DEF Longer
    <3> QED
      BY <1>3, <1>7, <2>1, <2>5, <3>1, <3>3, <3>4
  <2>6. CASE m = 1
    <3>1. AuditPaths(v)[2][2 * a][1] = <<v[2 * a]>>
      <4>1. AuditPaths(v)[2][2 * a][m] = Append(AuditPaths(v)[1][2 * a + 1][m - 1], Trees(v)[1][2 * a])
        BY <2>4, <2>6
      <4>2. m - 1 = 0
        BY <2>6
      <4>3. AuditPaths(v)[2][2 * a][1] = Append(<<>>, v[2 * a])
        BY <2>1, <2>2, <2>6, <4>1, <4>2, Zenon
      <4> QED
        BY <4>3
    <3>2. <<v[2 * a]>> = <<v[2 * a]>> \o <<>>
      BY <1>5
    <3>3. Longer(v, 2, a, 1, <<v[2 * a]>>, <<>>)
      BY <3>2 DEF Longer
    <3> QED
      BY <1>3, <1>7, <2>1, <2>6, <3>1, <3>3
  <2> QED
    BY <1>4, <1>7, <2>5, <2>6
<1>8. CASE n > 2
  <2>1. PICK h \in Nat, k \in Nat :
           /\ h = (n + 1) \div 2 /\ k = Split[h] /\ h > 1 /\ h < n /\ 0 < k /\ k < h
           /\ Split[n] = 2 * k /\ 2 * k < n
           /\ Paired(N, 2 * k, a) /\ Paired(N, n - 2 * k, a + k)
           /\ (2 * k + 1) \div 2 = k /\ (n - 2 * k + 1) \div 2 = h - k
    <3>1. n \in Nat /\ N \in Nat /\ a \in Nat /\ n > 2 /\ Paired(N, n, a)
      BY <1>4, <1>8
    <3> QED
      BY <3>1, PairedParts
  <2>2. AuditPaths(v)[n][2 * a][m] =
          IF m < 2 * k THEN Append(AuditPaths(v)[2 * k][2 * a][m], Trees(v)[n - 2 * k][2 * a + 2 * k])
          ELSE Append(AuditPaths(v)[n - 2 * k][2 * a + 2 * k][m - 2 * k], Trees(v)[2 * k][2 * a])
    <3>1. n \in 2 .. MaxTree /\ 2 * a \in Nat
      BY <1>0, <1>4, <1>8
    <3>2. m \in 0 .. n - 1
      BY <1>4
    <3>3. AuditPaths(v)[n][2 * a][m] =
            IF m < Split[n] THEN Append(AuditPaths(v)[Split[n]][2 * a][m], Trees(v)[n - Split[n]][2 * a + Split[n]])
            ELSE Append(AuditPaths(v)[n - Split[n]][2 * a + Split[n]][m - Split[n]], Trees(v)[Split[n]][2 * a])
      BY <3>1, <3>2, PathValues
    <3> QED
      BY <2>1, <3>3
  <2>3. /\ m \div 2 \in 0 .. h - 1
        /\ m < 2 * k => m \div 2 < k /\ (m % 2 = 0 => m + 1 < 2 * k /\ m + 1 < n)
        /\ ~(m < 2 * k) => ~(m \div 2 < k)
    <3>1. h = (n + 1) \div 2 /\ 2 * k < n /\ m < n
      BY <1>4, <2>1
    <3> QED
      BY <3>1
  <2>4. AuditPaths(w)[h][a][m \div 2] =
          IF m \div 2 < k THEN Append(AuditPaths(w)[k][a][m \div 2], Trees(w)[h - k][a + k])
          ELSE Append(AuditPaths(w)[h - k][a + k][m \div 2 - k], Trees(w)[k][a])
    <3>1. h \in 2 .. MaxTree
      BY <1>0, <1>4, <2>1
    <3>2. AuditPaths(w)[h][a][m \div 2] =
            IF m \div 2 < Split[h]
            THEN Append(AuditPaths(w)[Split[h]][a][m \div 2], Trees(w)[h - Split[h]][a + Split[h]])
            ELSE Append(AuditPaths(w)[h - Split[h]][a + Split[h]][m \div 2 - Split[h]], Trees(w)[Split[h]][a])
      BY <2>3, <3>1, PathValues
    <3> QED
      BY <2>1, <3>2
  <2>5. Trees(w)[k][a] = Trees(v)[2 * k][2 * a] /\ Trees(v)[2 * k][2 * a] \in S
    <3>1. 2 * k \in Nat /\ 2 * k > 0 /\ 2 * k \in 1 .. MaxTree
      BY <1>0, <1>4, <2>1
    <3> QED
      BY <1>0, <2>1, <3>1, TreePairs DEF TreesIn, w
  <2>6. n - 2 * k \in Nat /\ n - 2 * k > 0 /\ a + k \in Nat /\ 2 * (a + k) = 2 * a + 2 * k /\ n - 2 * k < n
    BY <1>4, <2>1
  <2>7. Trees(w)[h - k][a + k] = Trees(v)[n - 2 * k][2 * a + 2 * k] /\ Trees(v)[n - 2 * k][2 * a + 2 * k] \in S
    <3>1. n - 2 * k \in 1 .. MaxTree /\ 2 * a + 2 * k \in Nat
      BY <1>0, <1>4, <2>6
    <3>2. Trees(w)[(n - 2 * k + 1) \div 2][a + k] = Trees(v)[n - 2 * k][2 * (a + k)]
      BY <2>1, <2>6, TreePairs DEF w
    <3> QED
      BY <1>0, <2>1, <2>6, <3>1, <3>2 DEF TreesIn
  <2>8. CASE m < 2 * k
    <3>1. m \in 0 .. 2 * k - 1 /\ m \div 2 < k /\ m \div 2 \in 0 .. k - 1 /\ 2 * k \in Nat /\ 2 * k < n
      BY <2>1, <2>3, <2>8
    <3>2. Longer(v, 2 * k, a, m, AuditPaths(v)[2 * k][2 * a][m], AuditPaths(w)[k][a][m \div 2])
      <4>1. Holds(2 * k)
        BY <1>2, <3>1
      <4> QED
        BY <2>1, <3>1, <4>1 DEF Holds
    <3>3. AuditPaths(w)[k][a][m \div 2] \in Seq(S)
      <4>1. k \in 1 .. MaxTree
        BY <1>0, <1>4, <2>1
      <4> QED
        BY <1>0, <3>1, <4>1, PathType
    <3>4. Longer(v, 2 * k, a, m, AuditPaths(v)[n][2 * a][m], AuditPaths(w)[h][a][m \div 2])
      <4>1. PICK q : q = AuditPaths(v)[2 * k][2 * a][m]
        OBVIOUS
      <4>2. PICK y \in S : y = Trees(v)[n - 2 * k][2 * a + 2 * k]
        BY <2>7
      <4>3. PICK p \in Seq(S) : p = AuditPaths(w)[k][a][m \div 2]
        BY <3>3
      <4>4. Longer(v, 2 * k, a, m, Append(q, y), Append(p, y))
        BY <1>5, <2>8, <3>1, <3>2, <4>1, <4>3, LongerAppend
      <4>5. AuditPaths(v)[n][2 * a][m] = Append(q, y) /\ AuditPaths(w)[h][a][m \div 2] = Append(p, y)
        BY <2>2, <2>4, <2>7, <2>8, <3>1, <4>1, <4>2, <4>3
      <4> QED
        BY <4>4, <4>5
    <3>5. m % 2 = 0 => m + 1 < 2 * k /\ m + 1 < n
      BY <2>3, <2>8
    <3>6. Longer(v, n, a, m, AuditPaths(v)[n][2 * a][m], AuditPaths(w)[h][a][m \div 2])
      BY <3>1, <3>4, <3>5 DEF Longer
    <3> QED
      BY <1>3, <2>1, <3>6
  <2>9. CASE ~(m < 2 * k)
    <3>0. PICK j \in Nat : j = m - 2 * k
      BY <2>9
    <3>1. /\ j = m - 2 * k /\ j < n - 2 * k /\ j \in 0 .. (n - 2 * k) - 1
          /\ ~(m \div 2 < k) /\ m \div 2 - k = j \div 2 /\ j \div 2 \in 0 .. (h - k) - 1
          /\ j % 2 = m % 2
      <4>1. h = (n + 1) \div 2 /\ 2 * k < n /\ m < n /\ m = j + 2 * k
        BY <1>4, <2>1, <3>0
      <4> QED
        BY <3>0, <4>1
    <3>2. Longer(v, n - 2 * k, a + k, j, AuditPaths(v)[n - 2 * k][2 * a + 2 * k][j],
                 AuditPaths(w)[h - k][a + k][j \div 2])
      <4>1. Holds(n - 2 * k)
        BY <1>2, <2>6
      <4> QED
        BY <2>1, <2>6, <3>1, <4>1 DEF Holds
    <3>3. AuditPaths(w)[h - k][a + k][j \div 2] \in Seq(S)
      <4>1. h - k \in 1 .. MaxTree
        BY <1>0, <1>4, <2>1
      <4> QED
        BY <1>0, <2>6, <3>1, <4>1, PathType
    <3>4. Longer(v, n - 2 * k, a + k, j, AuditPaths(v)[n][2 * a][m], AuditPaths(w)[h][a][m \div 2])
      <4>1. PICK q : q = AuditPaths(v)[n - 2 * k][2 * a + 2 * k][j]
        OBVIOUS
      <4>2. PICK y \in S : y = Trees(v)[2 * k][2 * a]
        BY <2>5
      <4>3. PICK p \in Seq(S) : p = AuditPaths(w)[h - k][a + k][j \div 2]
        BY <3>3
      <4>4. Longer(v, n - 2 * k, a + k, j, Append(q, y), Append(p, y))
        BY <1>5, <2>6, <3>1, <3>2, <4>1, <4>3, LongerAppend
      <4>5. AuditPaths(v)[n][2 * a][m] = Append(q, y) /\ AuditPaths(w)[h][a][m \div 2] = Append(p, y)
        BY <2>2, <2>4, <2>5, <2>9, <3>1, <4>1, <4>2, <4>3
      <4> QED
        BY <4>4, <4>5
    <3>5. /\ 2 * (a + k) + j - 1 = 2 * a + m - 1 /\ 2 * (a + k) + j + 1 = 2 * a + m + 1
          /\ (j + 1 < n - 2 * k <=> m + 1 < n) /\ (j + 1 = n - 2 * k <=> m + 1 = n)
      BY <3>0
    <3>6. Longer(v, n, a, m, AuditPaths(v)[n][2 * a][m], AuditPaths(w)[h][a][m \div 2])
      BY <3>1, <3>4, <3>5 DEF Longer
    <3> QED
      BY <1>3, <2>1, <3>6
  <2> QED
    BY <2>8, <2>9
<1> QED
  BY <1>4, <1>6, <1>7, <1>8

\* A set that holds every number whose predecessors, or predecessor, it holds.
LEMMA AllNumbers ==
  ASSUME NEW S, \A n \in Nat : (\A m \in Nat : m < n => m \in S) => n \in S
  PROVE  Nat \subseteq S
<1> SUFFICES ASSUME Nat \ S # {} PROVE FALSE
  OBVIOUS
<1>1. PICK n \in Nat \ S : \A m \in Nat \ S : n <= m
  <2>1. Nat \ S \in SUBSET Nat
    OBVIOUS
  <2> QED
    BY <2>1, Smallest
<1>2. \A m \in Nat : m < n => m \in S
  BY <1>1
<1> QED
  BY <1>2

\* Induction on the steps of a walk, with a set for the steps that are as claimed.
LEMMA EveryStep ==
  ASSUME NEW S, NEW L \in Nat, 0 \in S, \A t \in 1 .. L : t - 1 \in S => t \in S
  PROVE  0 .. L \subseteq S
<1> DEFINE T == {t \in Nat : t <= L => t \in S}
<1>1. ASSUME NEW n \in Nat, \A m \in Nat : m < n => m \in T PROVE n \in T
  <2>1. CASE n = 0
    BY <2>1
  <2>2. CASE n # 0
    <3>1. n - 1 \in T
      BY <1>1, <2>2
    <3> QED
      BY <2>2, <3>1
  <2> QED
    BY <2>1, <2>2
<1>2. Nat \subseteq T
  <2> HIDE DEF T
  <2> QED
    BY <1>1, AllNumbers
<1> QED
  BY <1>2

\* The hashes in a path are those of parts of the tree.
Hashes(v) == {Trees(v)[n][i] : n \in 1 .. MaxTree, i \in Nat}

\* Audit paths and leaves are made of the hashes of the trees over these leaves.
LEMMA PathHashes ==
  ASSUME NEW v, NEW n \in 1 .. MaxTree, NEW i \in Nat, NEW m \in 0 .. n - 1
  PROVE  AuditPaths(v)[n][i][m] \in Seq(Hashes(v)) /\ v[i] \in Hashes(v)
<1>1. TreesIn(v, Hashes(v))
  BY DEF TreesIn, Hashes
<1>2. v[i] \in Hashes(v)
  <2>1. 1 \in 1 .. MaxTree /\ Trees(v)[1][i] = v[i]
    BY CtAssumption, TreeValues
  <2>2. Trees(v)[1][i] \in Hashes(v)
    BY <1>1, <2>1 DEF TreesIn
  <2> QED
    BY <2>1, <2>2
<1> QED
  BY <1>1, <1>2, PathType

\* One more in front.
Behind(q, above) == /\ Len(q) = Len(above) + 1 /\ \A j \in 1 .. Len(above) : q[j + 1] = above[j]

\* A path with one hash in front of the path above.
LEMMA InFront ==
  ASSUME NEW S, NEW x \in S, NEW above \in Seq(S), NEW q, q = <<x>> \o above
  PROVE  q[1] = x /\ Behind(q, above)
BY DEF Behind

\* The level above a tree: its size, its root, and the path of a leaf.
LEMMA LevelAbove ==
  ASSUME NEW v, NEW N \in 2 .. MaxTree, NEW f \in 0 .. N - 1
  PROVE  \E M \in 1 .. MaxTree :
           /\ M = (N + 1) \div 2 /\ M < N /\ (N - 1) \div 2 = M - 1 /\ f \div 2 \in 0 .. M - 1
           /\ Trees(Pair(v, N))[M][0] = Trees(v)[N][0]
           /\ Longer(v, N, 0, f, AuditPaths(v)[N][0][f], AuditPaths(Pair(v, N))[M][0][f \div 2])
<1>1. MaxTree \in Nat /\ N \in Nat /\ N >= 2 /\ N <= MaxTree /\ f \in Nat /\ f < N
  BY CtAssumption
<1>2. PICK M \in Nat : M = (N + 1) \div 2
  BY <1>1
<1>3. M \in 1 .. MaxTree /\ M < N /\ (N - 1) \div 2 = M - 1 /\ f \div 2 \in 0 .. M - 1
  BY <1>1, <1>2
<1>4. Paired(N, N, 0)
  BY <1>1 DEF Paired
<1>5. Trees(Pair(v, N))[M][0] = Trees(v)[N][0]
  <2>1. Trees(Pair(v, N))[(N + 1) \div 2][0] = Trees(v)[N][2 * 0]
    BY <1>1, <1>4, TreePairs
  <2> QED
    BY <1>2, <2>1
<1>6. Longer(v, N, 0, f, AuditPaths(v)[N][0][f], AuditPaths(Pair(v, N))[M][0][f \div 2])
  <2>1. Longer(v, N, 0, f, AuditPaths(v)[N][2 * 0][f], AuditPaths(Pair(v, N))[(N + 1) \div 2][0][f \div 2])
    BY <1>1, <1>4, PathPairs
  <2> QED
    BY <1>2, <2>1
<1> QED
  BY <1>2, <1>3, <1>5, <1>6

\* A path is as long as the size of the tree lets it be.
LEMMA PathLength ==
  ASSUME NEW N \in 1 .. MaxTree, NEW v, NEW f \in 0 .. N - 1
  PROVE  Len(AuditPaths(v)[N][0][f]) \in Nat /\ Len(AuditPaths(v)[N][0][f]) <= BitLength[N - 1]
<1> DEFINE Short(n) == \A u : \A g \in 0 .. n - 1 : Len(AuditPaths(u)[n][0][g]) <= BitLength[n - 1]
           S == {n \in Nat : n \in 1 .. MaxTree => Short(n)}
<1>1. \A u : \A n \in 1 .. MaxTree : \A g \in 0 .. n - 1 :
        AuditPaths(u)[n][0][g] \in Seq(Hashes(u)) /\ Len(AuditPaths(u)[n][0][g]) \in Nat
  BY PathHashes
<1>2. ASSUME NEW n \in Nat, \A m \in Nat : m < n => m \in S PROVE n \in S
  <2> SUFFICES ASSUME n \in 1 .. MaxTree, NEW u, NEW g \in 0 .. n - 1
               PROVE  Len(AuditPaths(u)[n][0][g]) <= BitLength[n - 1]
    OBVIOUS
  <2>1. CASE n = 1
    <3>1. g = 0
      BY <2>1
    <3>2. AuditPaths(u)[1][0][0] = <<>>
      BY CtAssumption, PathValues
    <3>3. Len(<<>>) = 0 /\ BitLength[0] = 0
      BY BitLengthIs
    <3>4. AuditPaths(u)[n][0][g] = <<>> /\ n - 1 = 0
      BY <2>1, <3>1, <3>2
    <3> QED
      BY <3>3, <3>4
  <2>2. CASE n # 1
    <3>1. n \in 2 .. MaxTree
      BY <2>2
    <3>2. PICK M \in 1 .. MaxTree :
           /\ M = (n + 1) \div 2 /\ M < n /\ (n - 1) \div 2 = M - 1 /\ g \div 2 \in 0 .. M - 1
           /\ Trees(Pair(u, n))[M][0] = Trees(u)[n][0]
           /\ Longer(u, n, 0, g, AuditPaths(u)[n][0][g], AuditPaths(Pair(u, n))[M][0][g \div 2])
      BY <3>1, LevelAbove
    <3>3. PICK q, above : q = AuditPaths(u)[n][0][g] /\ above = AuditPaths(Pair(u, n))[M][0][g \div 2]
      OBVIOUS
    <3>4. above \in Seq(Hashes(Pair(u, n))) /\ Len(above) \in Nat
      BY <1>1, <3>2, <3>3
    <3>5. Len(above) <= BitLength[M - 1]
      <4>1. M \in Nat /\ M < n
        BY <3>2
      <4>2. M \in S
        <5> HIDE DEF S
        <5> QED
          BY <1>2, <4>1
      <4>3. Short(M)
        BY <3>2, <4>1, <4>2
      <4> QED
        BY <3>2, <3>3, <4>3
    <3>6. Len(q) <= Len(above) + 1
      <4>1. CASE g % 2 = 1 \/ (g % 2 = 0 /\ g + 1 < n)
        <5>1. PICK x : q = <<x>> \o above
          BY <3>2, <3>3, <4>1 DEF Longer
        <5> DEFINE T == {x} \cup Hashes(Pair(u, n))
        <5>2. x \in T /\ above \in Seq(T)
          BY <3>4
        <5> HIDE DEF T
        <5>3. Behind(q, above)
          BY <5>1, <5>2, InFront
        <5> QED
          BY <3>4, <5>3 DEF Behind
      <4>2. CASE g % 2 = 0 /\ g + 1 = n
        <5>1. q = above
          BY <3>2, <3>3, <4>2 DEF Longer
        <5> QED
          BY <3>4, <5>1
      <4>3. g \in Nat /\ g < n
        OBVIOUS
      <4> QED
        BY <4>1, <4>2, <4>3
    <3>7. BitLength[n - 1] = BitLength[M - 1] + 1 /\ BitLength[M - 1] \in Nat
      <4>1. n - 1 \in Nat /\ n - 1 # 0 /\ M - 1 \in Nat
        BY <3>1, <3>2
      <4> QED
        BY <3>2, <4>1, BitLengthIs
    <3>8. Len(q) \in Nat
      BY <1>1, <3>3
    <3>9. Len(q) <= BitLength[n - 1]
      BY <3>4, <3>5, <3>6, <3>7, <3>8
    <3> QED
      BY <3>3, <3>9, Zenon
  <2> QED
    BY <2>1, <2>2
<1>3. Nat \subseteq S
  <2> HIDE DEF S
  <2> QED
    BY <1>2, AllNumbers
<1>4. Short(N)
  <2>1. N \in Nat
    OBVIOUS
  <2>2. N \in S
    <3> HIDE DEF S
    <3> QED
      BY <1>3, <2>1
  <2> HIDE DEF Short
  <2> QED
    BY <2>2
<1> QED
  BY <1>1, <1>4

\* One round of the walk.
Walker(f, n, r) == [fn |-> f, sn |-> n, r |-> r, bad |-> FALSE]
Stuck(f, n, r) == [fn |-> f, sn |-> n, r |-> r, bad |-> TRUE]

\* A round of the walk, by the kind of node; from a last node without sibling it is the round of
\* the node above.
LEMMA ClimbCases ==
  ASSUME NEW f \in Nat, NEW n \in Nat, NEW r, NEW p
  PROVE  /\ n = 0 => Climb(Walker(f, n, r), p) = Stuck(f, n, r)
         /\ n # 0 /\ f % 2 = 1 =>
              Climb(Walker(f, n, r), p) = Walker(f \div 2, n \div 2, InnerHash(p, r))
         /\ n # 0 /\ f % 2 = 0 /\ f # n =>
              Climb(Walker(f, n, r), p) = Walker(f \div 2, n \div 2, InnerHash(r, p))
         /\ n # 0 /\ f % 2 = 0 /\ f = n =>
              Climb(Walker(f, n, r), p) = Climb(Walker(f \div 2, n \div 2, r), p)
<1>1. PICK s : s = Walker(f, n, r)
  OBVIOUS
<1>2. s.fn = f /\ s.sn = n /\ s.r = r
  BY <1>1 DEF Walker
<1>3. CASE n = 0
  BY <1>1, <1>2, <1>3 DEF Climb, Walker, Stuck
<1>4. ASSUME n # 0, f % 2 = 1
      PROVE  Climb(Walker(f, n, r), p) = Walker(f \div 2, n \div 2, InnerHash(p, r))
  <2>1. PICK up : up = Bubble[f][n]
    OBVIOUS
  <2>2. up[1] = f /\ up[2] = n
    <3>1. Bubble[f] = [sn \in Nat |-> IF f = 0 \/ f % 2 = 1 THEN <<f, sn>> ELSE Bubble[f \div 2][sn \div 2]]
      BY BubbleIs
    <3>2. Bubble[f][n] = <<f, n>>
      BY <1>4, <3>1
    <3> QED
      BY <2>1, <3>2
  <2>3. Climb(s, p) = Walker(up[1] \div 2, up[2] \div 2, InnerHash(p, r))
    BY <1>2, <1>4, <2>1 DEF Climb, Walker, Stuck
  <2> QED
    BY <1>1, <2>2, <2>3, Zenon
<1>5. ASSUME n # 0, f % 2 = 0, f # n
      PROVE  Climb(Walker(f, n, r), p) = Walker(f \div 2, n \div 2, InnerHash(r, p))
  <2>1. PICK up : up = <<f, n>>
    OBVIOUS
  <2>2. ~(s.fn % 2 = 1 \/ s.fn = s.sn) /\ s.sn # 0
    BY <1>2, <1>5
  <2>3. Climb(s, p) = Walker(up[1] \div 2, up[2] \div 2, InnerHash(r, p))
    BY <1>2, <2>1, <2>2 DEF Climb, Walker, Stuck
  <2>4. up[1] = f /\ up[2] = n
    BY <2>1
  <2> QED
    BY <1>1, <2>3, <2>4, Zenon
<1>6. ASSUME n # 0, f % 2 = 0, f = n
      PROVE  Climb(Walker(f, n, r), p) = Climb(Walker(f \div 2, n \div 2, r), p)
  <2>1. PICK g \in Nat, m \in Nat : g = f \div 2 /\ m = n \div 2 /\ g = m /\ m # 0
    BY <1>6
  <2>2. PICK u : u = Walker(g, m, r)
    OBVIOUS
  <2>3. u.fn = g /\ u.sn = m /\ u.r = r
    BY <2>2 DEF Walker
  <2>4. PICK up : up = Bubble[f][n] /\ up = Bubble[g][m]
    <3>1. Bubble[f] = [sn \in Nat |-> IF f = 0 \/ f % 2 = 1 THEN <<f, sn>> ELSE Bubble[f \div 2][sn \div 2]]
      BY BubbleIs
    <3>2. f # 0 /\ ~(f % 2 = 1)
      BY <1>6
    <3>3. Bubble[f][n] = Bubble[f \div 2][n \div 2]
      BY <3>1, <3>2
    <3> QED
      BY <2>1, <3>3
  <2>5. Climb(s, p) = Walker(up[1] \div 2, up[2] \div 2, InnerHash(p, r))
    BY <1>2, <1>6, <2>4 DEF Climb, Walker, Stuck
  <2>6. Climb(u, p) = Walker(up[1] \div 2, up[2] \div 2, InnerHash(p, r))
    BY <2>1, <2>3, <2>4 DEF Climb, Walker, Stuck
  <2> QED
    BY <1>1, <2>1, <2>2, <2>5, <2>6, Zenon
<1> QED
  BY <1>3, <1>4, <1>5, <1>6

\* Whatever the numbers are, the hash is the one before or over it.
LEMMA ClimbHash ==
  ASSUME NEW f, NEW n, NEW r, NEW p
  PROVE  \E f1, n1, r1 :
           /\ Climb(Walker(f, n, r), p) \in {Walker(f1, n1, r1), Stuck(f1, n1, r1)}
           /\ r1 \in {r, InnerHash(p, r), InnerHash(r, p)}
<1>1. PICK s : s = Walker(f, n, r)
  OBVIOUS
<1>2. s.fn = f /\ s.sn = n /\ s.r = r
  BY <1>1 DEF Walker
<1>3. CASE s.sn = 0
  <2>1. Climb(s, p) = Stuck(f, n, r)
    BY <1>1, <1>2, <1>3 DEF Climb, Walker, Stuck
  <2> QED
    BY <1>1, <2>1
<1>4. CASE s.sn # 0
  <2>1. PICK right \in BOOLEAN : right = (s.fn % 2 = 1 \/ s.fn = s.sn)
    OBVIOUS
  <2>2. PICK up : up = IF right THEN Bubble[s.fn][s.sn] ELSE <<s.fn, s.sn>>
    OBVIOUS
  <2>3. PICK r1 : r1 = IF right THEN InnerHash(p, s.r) ELSE InnerHash(s.r, p)
    OBVIOUS
  <2>4. Climb(s, p) = [fn |-> up[1] \div 2, sn |-> up[2] \div 2, bad |-> FALSE, r |-> r1]
    BY <1>4, <2>1, <2>2, <2>3 DEF Climb
  <2>5. Climb(s, p) = Walker(up[1] \div 2, up[2] \div 2, r1)
    BY <2>4 DEF Walker
  <2> QED
    BY <1>1, <1>2, <2>3, <2>5
<1> QED
  BY <1>3, <1>4

\* A round goes to a level above: to the same root, with a right hash from a
\* right one only, and with the next hash of the path of the leaf always.
Reached(w, M, g, root) == M \in 1 .. MaxTree /\ g \in 0 .. M - 1 /\ Trees(w)[M][0] = root

Onwards(v, N, f, r, p) ==
  \E w, M, g, r1 :
    /\ Climb(Walker(f, N - 1, r), p) = Walker(g, M - 1, r1)
    /\ Reached(w, M, g, Trees(v)[N][0])
    /\ r1 = w[g] => r = v[f]
    /\ Behind(AuditPaths(v)[N][0][f], AuditPaths(w)[M][0][g])
    /\ r = v[f] /\ p = AuditPaths(v)[N][0][f][1] => r1 = w[g]

\* Hashes of two nodes are the same only if the nodes have the same children.
LEMMA HashesDiffer ==
  ASSUME NEW a, NEW b, NEW c, NEW d
  PROVE  InnerHash(a, b) = InnerHash(c, d) <=> a = c /\ b = d
BY DEF InnerHash

\* What a leaf becomes one level up.
LEMMA PairValues ==
  ASSUME NEW v, NEW N \in Nat, NEW f \in Nat, f < N
  PROVE  /\ f % 2 = 1 => Pair(v, N)[f \div 2] = InnerHash(v[f - 1], v[f])
         /\ f % 2 = 0 /\ f + 1 < N => Pair(v, N)[f \div 2] = InnerHash(v[f], v[f + 1])
         /\ f % 2 = 0 /\ f + 1 = N => Pair(v, N)[f \div 2] = v[f]
<1>1. PICK h \in Nat : h = f \div 2
  OBVIOUS
<1>2. Pair(v, N)[h] = IF 2 * h + 1 < N THEN InnerHash(v[2 * h], v[2 * h + 1]) ELSE v[2 * h]
  BY DEF Pair
<1>3. CASE f % 2 = 1
  <2>1. 2 * h = f - 1 /\ 2 * h + 1 = f
    BY <1>1, <1>3
  <2> QED
    BY <1>1, <1>2, <1>3, <2>1
<1>4. CASE f % 2 = 0
  <2>1. 2 * h = f
    BY <1>1, <1>4
  <2> QED
    BY <1>1, <1>2, <1>4, <2>1
<1> QED
  BY <1>3, <1>4

\* A round of verify_inclusion_inner goes to the same path in a level above, and has there the hash
\* of the tree where it had it here, and only there.
LEMMA OneRound ==
  ASSUME NEW N \in 2 .. MaxTree, NEW v, NEW f \in 0 .. N - 1, NEW r, NEW p
  PROVE  Onwards(v, N, f, r, p)
<1> DEFINE Holds(n) == \A u : \A g \in 0 .. n - 1 : Onwards(u, n, g, r, p)
           S == {n \in Nat : n \in 2 .. MaxTree => Holds(n)}
<1>1. ASSUME NEW n \in Nat, \A m \in Nat : m < n => m \in S PROVE n \in S
  <2> SUFFICES ASSUME n \in 2 .. MaxTree, NEW u, NEW g \in 0 .. n - 1
               PROVE  Onwards(u, n, g, r, p)
    OBVIOUS
  <2>1. PICK M \in 1 .. MaxTree :
           /\ M = (n + 1) \div 2 /\ M < n /\ (n - 1) \div 2 = M - 1 /\ g \div 2 \in 0 .. M - 1
           /\ Trees(Pair(u, n))[M][0] = Trees(u)[n][0]
           /\ Longer(u, n, 0, g, AuditPaths(u)[n][0][g], AuditPaths(Pair(u, n))[M][0][g \div 2])
    BY LevelAbove
  <2>2. PICK q, above : q = AuditPaths(u)[n][0][g] /\ above = AuditPaths(Pair(u, n))[M][0][g \div 2]
    OBVIOUS
  <2>3. PICK w : w = Pair(u, n)
    OBVIOUS
  <2>4. PICK h \in Nat : h = g \div 2 /\ h \in 0 .. M - 1
    BY <2>1
  <2>5. g \in Nat /\ g < n /\ n >= 2 /\ n - 1 \in Nat /\ n - 1 # 0
    OBVIOUS
  <2>6. PICK k \in Nat : k = n - 1 /\ k # 0
    BY <2>5
  <2>7. Longer(u, n, 0, g, q, above)
    BY <2>1, <2>2
  <2>8. above \in Seq(Hashes(w))
    BY <2>1, <2>2, <2>3, <2>4, PathHashes
  <2>9. ASSUME NEW x, q = <<x>> \o above PROVE q[1] = x /\ Behind(q, above)
    <3> DEFINE T == {x} \cup Hashes(w)
    <3>1. x \in T /\ above \in Seq(T)
      BY <2>8
    <3> HIDE DEF T
    <3> QED
      BY <2>9, <3>1, InFront
  <2>10. Reached(w, M, h, Trees(u)[n][0])
    BY <2>1, <2>3, <2>4 DEF Reached
  <2>11. ASSUME NEW r1, Climb(Walker(g, n - 1, r), p) = Walker(h, M - 1, r1),
                r1 = w[h] => r = u[g], Behind(q, above), r = u[g] /\ p = q[1] => r1 = w[h]
         PROVE  Onwards(u, n, g, r, p)
    BY <2>2, <2>3, <2>4, <2>10, <2>11, Zenon DEF Onwards
  <2>15. /\ k # 0 /\ g % 2 = 1 =>
              Climb(Walker(g, k, r), p) = Walker(g \div 2, k \div 2, InnerHash(p, r))
         /\ k # 0 /\ g % 2 = 0 /\ g # k =>
              Climb(Walker(g, k, r), p) = Walker(g \div 2, k \div 2, InnerHash(r, p))
         /\ k # 0 /\ g % 2 = 0 /\ g = k =>
              Climb(Walker(g, k, r), p) = Climb(Walker(g \div 2, k \div 2, r), p)
    BY <2>5, ClimbCases
  <2>12. CASE g % 2 = 1
    <3>1. Climb(Walker(g, n - 1, r), p) = Walker(g \div 2, (n - 1) \div 2, InnerHash(p, r))
      <4>1. Climb(Walker(g, k, r), p) = Walker(g \div 2, k \div 2, InnerHash(p, r))
        BY <2>5, <2>12, <2>6, <2>15
      <4> QED
        BY <2>6, <4>1, Zenon
    <3>2. w[h] = InnerHash(u[g - 1], u[g])
      BY <2>3, <2>4, <2>5, <2>12, PairValues
    <3>3. q = <<u[g - 1]>> \o above
      <4>1. 2 * 0 + g - 1 = g - 1
        BY <2>5
      <4>2. q = <<u[2 * 0 + g - 1]>> \o above
        BY <2>7, <2>12 DEF Longer
      <4> QED
        BY <4>1, <4>2
    <3>4. q[1] = u[g - 1] /\ Behind(q, above)
      BY <2>9, <3>3
    <3>5. Climb(Walker(g, n - 1, r), p) = Walker(h, M - 1, InnerHash(p, r))
      BY <2>1, <2>4, <3>1, Zenon
    <3>6. InnerHash(p, r) = w[h] <=> p = u[g - 1] /\ r = u[g]
      BY <3>2, HashesDiffer
    <3> QED
      BY <2>11, <3>4, <3>5, <3>6, Zenon
  <2>13. CASE g % 2 = 0 /\ g + 1 < n
    <3>1. Climb(Walker(g, n - 1, r), p) = Walker(g \div 2, (n - 1) \div 2, InnerHash(r, p))
      <4>1. g # k
        BY <2>5, <2>13, <2>6
      <4>2. Climb(Walker(g, k, r), p) = Walker(g \div 2, k \div 2, InnerHash(r, p))
        BY <2>5, <2>13, <2>6, <2>15, <4>1
      <4> QED
        BY <2>6, <4>2, Zenon
    <3>2. w[h] = InnerHash(u[g], u[g + 1])
      BY <2>3, <2>4, <2>5, <2>13, PairValues
    <3>3. q = <<u[g + 1]>> \o above
      <4>1. 2 * 0 + g + 1 = g + 1
        BY <2>5
      <4>2. q = <<u[2 * 0 + g + 1]>> \o above
        BY <2>7, <2>13 DEF Longer
      <4> QED
        BY <4>1, <4>2
    <3>4. q[1] = u[g + 1] /\ Behind(q, above)
      BY <2>9, <3>3
    <3>5. Climb(Walker(g, n - 1, r), p) = Walker(h, M - 1, InnerHash(r, p))
      BY <2>1, <2>4, <3>1, Zenon
    <3>6. InnerHash(r, p) = w[h] <=> r = u[g] /\ p = u[g + 1]
      BY <3>2, HashesDiffer
    <3> QED
      BY <2>11, <3>4, <3>5, <3>6, Zenon
  <2>14. CASE g % 2 = 0 /\ g + 1 = n
    <3>1. Climb(Walker(g, n - 1, r), p) = Climb(Walker(g \div 2, (n - 1) \div 2, r), p)
      <4>1. g = k
        BY <2>5, <2>14, <2>6
      <4>2. Climb(Walker(g, k, r), p) = Climb(Walker(g \div 2, k \div 2, r), p)
        BY <2>5, <2>14, <2>6, <2>15, <4>1
      <4> QED
        BY <2>6, <4>2, Zenon
    <3>2. w[h] = u[g]
      BY <2>3, <2>4, <2>5, <2>14, PairValues
    <3>3. q = above
      BY <2>7, <2>14 DEF Longer
    <3>4. Climb(Walker(g, n - 1, r), p) = Climb(Walker(h, M - 1, r), p)
      BY <2>1, <2>4, <3>1, Zenon
    <3>5. Onwards(w, M, h, r, p)
      <4>1. M \in Nat /\ M < n /\ M \in 2 .. MaxTree
        BY <2>1, <2>5, <2>14
      <4>2. M \in S
        <5> HIDE DEF S
        <5> QED
          BY <1>1, <4>1
      <4>3. Holds(M)
        <5> HIDE DEF Holds
        <5> QED
          BY <4>1, <4>2
      <4> QED
        BY <2>4, <4>3
    <3>6. Trees(w)[M][0] = Trees(u)[n][0] /\ AuditPaths(w)[M][0][h] = AuditPaths(u)[n][0][g]
      BY <2>1, <2>2, <2>3, <2>4, <3>3
    <3> QED
      BY <3>2, <3>4, <3>5, <3>6, Zenon DEF Onwards
  <2>16. g % 2 = 1 \/ (g % 2 = 0 /\ g + 1 < n) \/ (g % 2 = 0 /\ g + 1 = n)
    BY <2>5
  <2> QED
    BY <2>12, <2>13, <2>14, <2>16
<1>2. Nat \subseteq S
  <2> HIDE DEF S
  <2> QED
    BY <1>1, AllNumbers
<1>3. Holds(N)
  <2>1. N \in Nat
    OBVIOUS
  <2>2. N \in S
    <3> HIDE DEF S
    <3> QED
      BY <1>2, <2>1
  <2> HIDE DEF Holds
  <2> QED
    BY <2>2
<1> QED
  BY <1>3

\* The walk along a path.
WalkStep(f, first, path, t) ==
  IF t = 0 THEN first ELSE IF f[t - 1].bad THEN f[t - 1] ELSE Climb(f[t - 1], path[t])

\* The loop over the path has a result after every number of rounds.
LEMMA WalkExists ==
  ASSUME NEW first, NEW path, NEW L \in Nat
  PROVE  \E f : f = [t \in 0 .. L |-> WalkStep(f, first, path, t)]
<1> DEFINE S == {j \in Nat : \E f : f = [t \in 0 .. j |-> WalkStep(f, first, path, t)]}
<1>1. 0 \in S
  <2> DEFINE g == [t \in 0 .. 0 |-> first]
  <2>1. g = [t \in 0 .. 0 |-> WalkStep(g, first, path, t)]
    BY DEF WalkStep
  <2> QED
    BY <2>1
<1>2. ASSUME NEW j \in 1 .. L, j - 1 \in S PROVE j \in S
  <2>1. PICK f : f = [t \in 0 .. j - 1 |-> WalkStep(f, first, path, t)]
    BY <1>2
  <2> DEFINE g == [t \in 0 .. j |-> WalkStep(f, first, path, t)]
  <2>2. ASSUME NEW t \in 0 .. j - 1 PROVE g[t] = f[t]
    BY <2>1
  <2>3. ASSUME NEW t \in 0 .. j PROVE WalkStep(g, first, path, t) = WalkStep(f, first, path, t)
    <3>1. CASE t = 0
      BY <3>1 DEF WalkStep
    <3>2. CASE t # 0
      <4>1. t - 1 \in 0 .. j - 1
        BY <3>2
      <4>2. g[t - 1] = f[t - 1]
        <5> HIDE DEF g
        <5> QED
          BY <2>2, <4>1
      <4> HIDE DEF g
      <4> QED
        BY <3>2, <4>2 DEF WalkStep
    <3> QED
      BY <3>1, <3>2
  <2>4. g = [t \in 0 .. j |-> WalkStep(g, first, path, t)]
    BY <2>3
  <2>5. j \in Nat
    OBVIOUS
  <2> HIDE DEF g
  <2>6. \E h : h = [t \in 0 .. j |-> WalkStep(h, first, path, t)]
    BY <2>4
  <2> QED
    BY <2>5, <2>6
<1>3. L \in S
  <2> HIDE DEF S
  <2>1. 0 .. L \subseteq S
    BY <1>1, <1>2, EveryStep
  <2> QED
    BY <2>1
<1> QED
  BY <1>3

\* A walk along the path of a proof, from its leaf.
Walked(walk, hash, proof) ==
  \A t \in 0 .. Len(proof.path) :
    walk[t] = WalkStep(walk, Walker(proof.index, proof.size - 1, hash), proof.path, t)

\* The proof has a possible shape, and the walk ends at the root.
Shaped(proof) ==
  proof.size # 0 /\ ~(proof.index >= proof.size) /\ ~(Len(proof.path) > MaxPathLen(proof.size))

\* The walk ends where it should.
Arrives(s, root) == ~s.bad /\ s.sn = 0 /\ s.r = root

\* verify_inclusion accepts a proof of a possible shape whose walk ends at the root, and no other.
LEMMA InclusionVerdict ==
  ASSUME NEW hash, NEW proof, NEW root, Len(proof.path) \in Nat
  PROVE  \E walk : /\ Walked(walk, hash, proof)
                   /\ VerifyInclusion(hash, proof, root) = "Ok"
                        <=> Shaped(proof) /\ Arrives(walk[Len(proof.path)], root)
<1>1. PICK L \in Nat : L = Len(proof.path)
  OBVIOUS
<1>2. PICK first : first = Walker(proof.index, proof.size - 1, hash)
  OBVIOUS
<1> DEFINE body(f) == [t \in 0 .. L |-> WalkStep(f, first, proof.path, t)]
<1>3. PICK walk : walk = CHOOSE f : f = body(f)
  OBVIOUS
<1>4. walk = body(walk)
  BY <1>3, WalkExists
<1>5. Walked(walk, hash, proof)
  BY <1>1, <1>2, <1>4 DEF Walked
<1>6. PICK c : c = << <<proof.size = 0, "MerkleProofMalformed">>,
                      <<proof.index >= proof.size, "MerkleProofInvalid">>,
                      <<L > MaxPathLen(proof.size), "MerkleProofMalformed">> >>
  OBVIOUS
<1>7. PICK e : e = << <<walk[L].bad \/ walk[L].sn # 0, "MerkleProofMalformed">>,
                      <<walk[L].r # root, "MerkleProofInvalid">> >>
  OBVIOUS
<1>8. VerifyInclusion(hash, proof, root) = IF FirstError(c) # "Ok" THEN FirstError(c) ELSE FirstError(e)
  BY <1>1, <1>2, <1>3, <1>6, <1>7 DEF VerifyInclusion, WalkStep, Walker
<1>9. FirstError(c) = "Ok" <=> Shaped(proof)
  <2>1. DOMAIN c \in SUBSET Nat /\ \A i \in DOMAIN c : c[i][2] # "Ok"
    BY <1>6
  <2>2. FirstError(c) = "Ok" <=> Failing(c) = {}
    BY <2>1, OkOf
  <2>3. /\ DOMAIN c = {1, 2, 3} /\ c[1][1] = (proof.size = 0) /\ c[2][1] = (proof.index >= proof.size)
        /\ c[3][1] = (L > MaxPathLen(proof.size))
    BY <1>6
  <2>4. Failing(c) = {} <=> ~c[1][1] /\ ~c[2][1] /\ ~c[3][1]
    BY <2>3 DEF Failing
  <2>5. Failing(c) = {} <=> Shaped(proof)
    BY <1>1, <2>3, <2>4 DEF Shaped
  <2> QED
    BY <2>2, <2>5
<1>10. FirstError(e) = "Ok" <=> Arrives(walk[L], root)
  <2>1. DOMAIN e \in SUBSET Nat /\ \A i \in DOMAIN e : e[i][2] # "Ok"
    BY <1>7
  <2>2. FirstError(e) = "Ok" <=> Failing(e) = {}
    BY <2>1, OkOf
  <2>3. /\ DOMAIN e = {1, 2} /\ e[1][1] = (walk[L].bad \/ walk[L].sn # 0)
        /\ e[2][1] = (walk[L].r # root)
    BY <1>7
  <2>4. Failing(e) = {} <=> ~e[1][1] /\ ~e[2][1]
    BY <2>3 DEF Failing
  <2>5. Failing(e) = {} <=> Arrives(walk[L], root)
    BY <2>3, <2>4 DEF Arrives
  <2> QED
    BY <2>2, <2>5
<1>11. VerifyInclusion(hash, proof, root) = "Ok" <=> Shaped(proof) /\ Arrives(walk[Len(proof.path)], root)
  BY <1>1, <1>8, <1>9, <1>10
<1> QED
  BY <1>5, <1>11

\* Where a walk begins, and what a round makes of it.
LEMMA WalkSteps ==
  ASSUME NEW walk, NEW hash, NEW proof, Len(proof.path) \in Nat, Walked(walk, hash, proof)
  PROVE  /\ walk[0] = Walker(proof.index, proof.size - 1, hash)
         /\ \A t \in 1 .. Len(proof.path) :
              walk[t] = IF walk[t - 1].bad THEN walk[t - 1] ELSE Climb(walk[t - 1], proof.path[t])
<1>1. walk[0] = Walker(proof.index, proof.size - 1, hash)
  <2>1. 0 \in 0 .. Len(proof.path)
    OBVIOUS
  <2> QED
    BY <2>1 DEF Walked, WalkStep
<1>2. ASSUME NEW t \in 1 .. Len(proof.path)
      PROVE  walk[t] = IF walk[t - 1].bad THEN walk[t - 1] ELSE Climb(walk[t - 1], proof.path[t])
  <2>1. t \in 0 .. Len(proof.path) /\ t # 0
    OBVIOUS
  <2> QED
    BY <2>1 DEF Walked, WalkStep
<1> QED
  BY <1>1, <1>2

\* The fields of a walk that goes on and of one that is stuck.
LEMMA WalkerFields ==
  ASSUME NEW f, NEW n, NEW r
  PROVE  /\ ~Walker(f, n, r).bad /\ Walker(f, n, r).sn = n /\ Walker(f, n, r).r = r
         /\ Stuck(f, n, r).bad /\ Stuck(f, n, r).r = r
BY DEF Walker, Stuck

\* The hash of a part of the tree of n entries, and the hashes under it.
InTree(n, x) == \E k \in 1 .. n, i \in Nat : i + k <= n /\ x = MTH[k][i]

\* What a node of a tree is made of is in the tree.
LEMMA InTreeBelow ==
  ASSUME NEW n \in 1 .. MaxTree, NEW a, NEW b, InTree(n, InnerHash(a, b))
  PROVE  InTree(n, a) /\ InTree(n, b)
<1>1. PICK k \in 1 .. n, i \in Nat : i + k <= n /\ InnerHash(a, b) = MTH[k][i]
  BY DEF InTree
<1>2. MaxTree \in Nat /\ n \in Nat /\ i \in Nat /\ k \in 1 .. MaxTree /\ i + k <= n
  BY <1>1, CtAssumption
<1>3. CASE k = 1
  <2>1. MTH[1][i] = MerkleLeafHash(EntryAt(i))
    <3>1. Trees(LeafHashes)[1][i] = LeafHashes[i]
      BY <1>2, TreeValues
    <3> QED
      BY <1>2, <3>1 DEF MTH, LeafHashes
  <2> QED
    BY <1>1, <1>3, <2>1 DEF InnerHash, MerkleLeafHash
<1>4. CASE k # 1
  <2>1. PICK s \in Nat : s = Split[k] /\ 0 < s /\ s < k
    BY <1>2, <1>4, SplitIs, SplitProper
  <2>2. MTH[k][i] = InnerHash(MTH[s][i], MTH[k - s][i + s])
    <3>1. k \in 2 .. MaxTree
      BY <1>2, <1>4
    <3> QED
      BY <1>2, <2>1, <3>1, TreeValues DEF MTH
  <2>3. a = MTH[s][i] /\ b = MTH[k - s][i + s]
    BY <1>1, <2>2, HashesDiffer
  <2>4. s \in 1 .. n /\ i \in Nat /\ i + s <= n
    BY <1>2, <2>1
  <2>5. k - s \in 1 .. n /\ i + s \in Nat /\ (i + s) + (k - s) <= n
    BY <1>2, <2>1
  <2>6. InTree(n, a)
    BY <2>3, <2>4 DEF InTree
  <2>7. InTree(n, b)
    BY <2>3, <2>5 DEF InTree
  <2> QED
    BY <2>6, <2>7
<1> QED
  BY <1>3, <1>4

\* A leaf hash among them is that of an entry.
LEMMA InTreeLeaf ==
  ASSUME NEW n \in 1 .. MaxTree, NEW e, InTree(n, MerkleLeafHash(e))
  PROVE  \E i \in 0 .. n - 1 : e = EntryAt(i)
<1>1. PICK k \in 1 .. n, i \in Nat : i + k <= n /\ MerkleLeafHash(e) = MTH[k][i]
  BY DEF InTree
<1>2. MaxTree \in Nat /\ n \in Nat /\ i \in Nat /\ k \in 1 .. MaxTree /\ i + k <= n
  BY <1>1, CtAssumption
<1>3. CASE k = 1
  <2>1. MTH[1][i] = MerkleLeafHash(EntryAt(i))
    <3>1. Trees(LeafHashes)[1][i] = LeafHashes[i]
      BY <1>2, TreeValues
    <3> QED
      BY <1>2, <3>1 DEF MTH, LeafHashes
  <2>2. e = EntryAt(i)
    BY <1>1, <1>3, <2>1 DEF MerkleLeafHash
  <2>3. i \in 0 .. n - 1
    BY <1>2, <1>3
  <2> QED
    BY <2>2, <2>3
<1>4. CASE k # 1
  <2>1. k \in 2 .. MaxTree
    BY <1>2, <1>4
  <2>2. MTH[k][i] = InnerHash(MTH[Split[k]][i], MTH[k - Split[k]][i + Split[k]])
    BY <1>2, <2>1, TreeValues DEF MTH
  <2> QED
    BY <1>1, <2>2 DEF InnerHash, MerkleLeafHash
<1> QED
  BY <1>3, <1>4

\* A walk that ends at a hash of the tree began at one.
LEMMA WalkInTree ==
  ASSUME NEW n \in 1 .. MaxTree, NEW walk, NEW hash, NEW proof, Len(proof.path) \in Nat,
         Walked(walk, hash, proof), InTree(n, walk[Len(proof.path)].r)
  PROVE  InTree(n, hash)
<1> DEFINE Came(s) == \E f, k, r : s \in {Walker(f, k, r), Stuck(f, k, r)} /\ (InTree(n, r) => InTree(n, hash))
           S == {t \in Nat : t <= Len(proof.path) => Came(walk[t])}
<1>1. 0 \in S
  <2>1. Came(Walker(proof.index, proof.size - 1, hash))
    OBVIOUS
  <2>2. Came(walk[0])
    <3> HIDE DEF Came
    <3> QED
      BY <2>1, WalkSteps
  <2> HIDE DEF Came
  <2> QED
    BY <2>2
<1>2. ASSUME NEW t \in 1 .. Len(proof.path), t - 1 \in S PROVE t \in S
  <2>1. Came(walk[t - 1])
    <3> HIDE DEF Came
    <3> QED
      BY <1>2
  <2>2. PICK f, k, r : walk[t - 1] \in {Walker(f, k, r), Stuck(f, k, r)} /\ (InTree(n, r) => InTree(n, hash))
    BY <2>1
  <2>3. walk[t] = IF walk[t - 1].bad THEN walk[t - 1] ELSE Climb(walk[t - 1], proof.path[t])
    BY WalkSteps
  <2>4. CASE walk[t - 1] = Stuck(f, k, r)
    <3>1. walk[t] = walk[t - 1]
      BY <2>3, <2>4, WalkerFields
    <3>2. Came(walk[t])
      BY <2>1, <3>1
    <3> HIDE DEF Came
    <3> QED
      BY <3>2
  <2>5. CASE walk[t - 1] = Walker(f, k, r)
    <3>1. walk[t] = Climb(Walker(f, k, r), proof.path[t])
      BY <2>3, <2>5, WalkerFields
    <3>2. PICK p : p = proof.path[t]
      OBVIOUS
    <3>3. PICK f1, k1, r1 : /\ walk[t] \in {Walker(f1, k1, r1), Stuck(f1, k1, r1)}
                            /\ r1 \in {r, InnerHash(p, r), InnerHash(r, p)}
      BY <3>1, <3>2, ClimbHash
    <3>4. InTree(n, r1) => InTree(n, r)
      BY <3>3, InTreeBelow
    <3>5. Came(walk[t])
      BY <2>2, <3>3, <3>4
    <3> HIDE DEF Came
    <3> QED
      BY <3>5
  <2> QED
    BY <2>2, <2>4, <2>5
<1>3. Came(walk[Len(proof.path)])
  <2>1. Len(proof.path) \in S
    <3> HIDE DEF S
    <3>1. 0 .. Len(proof.path) \subseteq S
      BY <1>1, <1>2, EveryStep
    <3> QED
      BY <3>1
  <2> HIDE DEF Came
  <2> QED
    BY <2>1
<1>4. PICK f, k, r : /\ walk[Len(proof.path)] \in {Walker(f, k, r), Stuck(f, k, r)}
                     /\ InTree(n, r) => InTree(n, hash)
  BY <1>3
<1>5. walk[Len(proof.path)].r = r
  BY <1>4, WalkerFields
<1> QED
  BY <1>4, <1>5

\* The end of a walk at the root of a tree with one leaf.
LEMMA AtRoot ==
  ASSUME NEW v, NEW N, NEW f, NEW r, NEW root, Reached(v, N, f, root)
  PROVE  /\ Arrives(Walker(f, N - 1, r), root) <=> N = 1 /\ r = root
         /\ N = 1 => f = 0 /\ root = v[0]
<1>1. N \in 1 .. MaxTree /\ f \in 0 .. N - 1 /\ Trees(v)[N][0] = root /\ MaxTree \in Nat
  BY CtAssumption DEF Reached
<1>2. Arrives(Walker(f, N - 1, r), root) <=> N - 1 = 0 /\ r = root
  <2>1. PICK k, s : k = N - 1 /\ s = Walker(f, k, r)
    OBVIOUS
  <2>2. ~s.bad /\ s.sn = k /\ s.r = r
    BY <2>1, WalkerFields
  <2>3. Arrives(s, root) <=> k = 0 /\ r = root
    BY <2>2 DEF Arrives
  <2> QED
    BY <2>1, <2>3, Zenon
<1>3. N - 1 = 0 <=> N = 1
  BY <1>1
<1>4. N = 1 => f = 0 /\ root = v[0]
  <2>1. Trees(v)[1][0] = v[0]
    BY <1>1, TreeValues
  <2> QED
    BY <1>1, <2>1
<1> QED
  BY <1>2, <1>3, <1>4

\* With the size of the tree, a walk that ends at the root began at the leaf.
LEMMA WalkFromLeaf ==
  ASSUME NEW n \in 1 .. MaxTree, NEW walk, NEW hash, NEW proof, Len(proof.path) \in Nat,
         Walked(walk, hash, proof), proof.size = n, proof.index \in 0 .. n - 1,
         Arrives(walk[Len(proof.path)], MTH[n][0])
  PROVE  hash = LeafHashes[proof.index]
<1> DEFINE At(s) == \E v, N, f, r : /\ s = Walker(f, N - 1, r) /\ Reached(v, N, f, MTH[n][0])
                                    /\ r = v[f] => hash = LeafHashes[proof.index]
           S == {t \in Nat : t <= Len(proof.path) => walk[t].bad \/ At(walk[t])}
<1>1. 0 \in S
  <2>1. Reached(LeafHashes, n, proof.index, MTH[n][0])
    BY DEF Reached, MTH
  <2>2. At(Walker(proof.index, n - 1, hash))
    BY <2>1
  <2>3. At(walk[0])
    <3> HIDE DEF At
    <3> QED
      BY <2>2, WalkSteps
  <2> HIDE DEF At
  <2> QED
    BY <2>3
<1>2. ASSUME NEW t \in 1 .. Len(proof.path), t - 1 \in S PROVE t \in S
  <2>1. walk[t - 1].bad \/ At(walk[t - 1])
    <3> HIDE DEF At
    <3> QED
      BY <1>2
  <2>2. walk[t] = IF walk[t - 1].bad THEN walk[t - 1] ELSE Climb(walk[t - 1], proof.path[t])
    BY WalkSteps
  <2>3. walk[t].bad \/ At(walk[t])
    <3>1. CASE walk[t - 1].bad
      BY <2>2, <3>1
    <3>2. CASE ~walk[t - 1].bad
      <4>1. PICK v, N, f, r : /\ walk[t - 1] = Walker(f, N - 1, r) /\ Reached(v, N, f, MTH[n][0])
                              /\ r = v[f] => hash = LeafHashes[proof.index]
        BY <2>1, <3>2
      <4>2. PICK p : p = proof.path[t]
        OBVIOUS
      <4>3. walk[t] = Climb(Walker(f, N - 1, r), p)
        BY <2>2, <3>2, <4>1, <4>2
      <4>4. N \in 1 .. MaxTree /\ f \in 0 .. N - 1 /\ MaxTree \in Nat /\ Trees(v)[N][0] = MTH[n][0]
        BY <4>1, CtAssumption DEF Reached
      <4>5. CASE N = 1
        <5>1. PICK k \in Nat : k = N - 1 /\ k = 0
          BY <4>5
        <5>2. f \in Nat
          BY <4>4
        <5>3. Climb(Walker(f, k, r), p) = Stuck(f, k, r)
          BY <5>1, <5>2, ClimbCases
        <5>4. walk[t] = Stuck(f, k, r)
          BY <4>3, <5>1, <5>3, Zenon
        <5> QED
          BY <5>4, WalkerFields
      <4>6. CASE N # 1
        <5>1. N \in 2 .. MaxTree
          BY <4>4, <4>6
        <5>2. Onwards(v, N, f, r, p)
          BY <4>4, <5>1, OneRound
        <5>3. PICK w, M, g, r1 :
                 /\ Climb(Walker(f, N - 1, r), p) = Walker(g, M - 1, r1)
                 /\ Reached(w, M, g, Trees(v)[N][0])
                 /\ r1 = w[g] => r = v[f]
          BY <5>2, Zenon DEF Onwards
        <5>4. Reached(w, M, g, MTH[n][0]) /\ walk[t] = Walker(g, M - 1, r1)
          BY <4>3, <4>4, <5>3, Zenon
        <5>5. r1 = w[g] => hash = LeafHashes[proof.index]
          BY <4>1, <5>3, Zenon
        <5>6. At(walk[t])
          BY <5>4, <5>5, Zenon
        <5> QED
          BY <5>6
      <4> QED
        BY <4>5, <4>6
    <3> QED
      BY <3>1, <3>2
  <2> HIDE DEF At
  <2> QED
    BY <2>3
<1>3. walk[Len(proof.path)].bad \/ At(walk[Len(proof.path)])
  <2>1. Len(proof.path) \in S
    <3> HIDE DEF S
    <3>1. 0 .. Len(proof.path) \subseteq S
      BY <1>1, <1>2, EveryStep
    <3> QED
      BY <3>1
  <2> HIDE DEF At
  <2> QED
    BY <2>1
<1>4. PICK v, N, f, r : /\ walk[Len(proof.path)] = Walker(f, N - 1, r) /\ Reached(v, N, f, MTH[n][0])
                        /\ r = v[f] => hash = LeafHashes[proof.index]
  BY <1>3 DEF Arrives
<1>5. Arrives(Walker(f, N - 1, r), MTH[n][0])
  BY <1>4, Zenon
<1>6. r = v[f]
  <2>1. N = 1 /\ r = MTH[n][0]
    <3>1. PICK root : root = MTH[n][0]
      OBVIOUS
    <3>2. Reached(v, N, f, root) /\ Arrives(Walker(f, N - 1, r), root)
      BY <1>4, <1>5, <3>1, Zenon
    <3>3. N = 1 /\ r = root
      BY <3>2, AtRoot, Zenon
    <3> QED
      BY <3>1, <3>3
  <2>2. f = 0 /\ MTH[n][0] = v[0]
    BY <1>4, <2>1, AtRoot, Zenon
  <2> QED
    BY <2>1, <2>2
<1> QED
  BY <1>4, <1>6

\* What is left of a path after t rounds.
Left(path, t, q) == Len(q) = Len(path) - t /\ \A j \in 1 .. Len(q) : q[j] = path[t + j]

\* The rest of a path after a round.
LEMMA LeftAbove ==
  ASSUME NEW path, Len(path) \in Nat, NEW t \in 1 .. Len(path), NEW q, NEW above, Len(above) \in Nat,
         Left(path, t - 1, q), Behind(q, above)
  PROVE  q[1] = path[t] /\ Left(path, t, above)
<1>1. PICK k \in Nat : k = Len(above)
  OBVIOUS
<1>2. Len(q) = k + 1 /\ k + 1 = Len(path) - (t - 1) /\ t \in Nat
  <2>1. Len(q) = k + 1
    BY <1>1 DEF Behind
  <2>2. Len(q) = Len(path) - (t - 1)
    BY DEF Left
  <2> QED
    BY <2>1, <2>2
<1>3. k = Len(path) - t
  BY <1>2
<1>4. \A j \in 1 .. k + 1 : q[j] = path[t - 1 + j]
  BY <1>2 DEF Left
<1>5. q[1] = path[t]
  <2>1. 1 \in 1 .. k + 1 /\ t - 1 + 1 = t
    BY <1>2
  <2>2. q[1] = path[t - 1 + 1]
    BY <1>4, <2>1
  <2> QED
    BY <2>1, <2>2
<1>6. ASSUME NEW j \in 1 .. k PROVE above[j] = path[t + j]
  <2>1. above[j] = q[j + 1]
    BY <1>1 DEF Behind
  <2>2. j + 1 \in 1 .. k + 1 /\ t - 1 + (j + 1) = t + j
    BY <1>2
  <2>3. q[j + 1] = path[t - 1 + (j + 1)]
    BY <1>4, <2>2
  <2> QED
    BY <2>1, <2>2, <2>3
<1> QED
  BY <1>1, <1>3, <1>5, <1>6 DEF Left

\* The walk along the audit path of a leaf ends at the root.
LEMMA WalkToRoot ==
  ASSUME NEW n \in 1 .. MaxTree, NEW m \in 0 .. n - 1, NEW walk, NEW proof,
         proof.path = PATH[n][0][m], proof.size = n, proof.index = m,
         Walked(walk, LeafHashes[m], proof)
  PROVE  Arrives(walk[Len(proof.path)], MTH[n][0])
<1> DEFINE At(s, t) == \E v, N, f : /\ s = Walker(f, N - 1, v[f]) /\ Reached(v, N, f, MTH[n][0])
                                    /\ Left(proof.path, t, AuditPaths(v)[N][0][f])
           S == {t \in Nat : t <= Len(proof.path) => At(walk[t], t)}
<1>0. Len(proof.path) \in Nat
  BY PathLength DEF PATH
<1>1. 0 \in S
  <2>1. Reached(LeafHashes, n, m, MTH[n][0])
    BY DEF Reached, MTH
  <2>2. Left(proof.path, 0, AuditPaths(LeafHashes)[n][0][m])
    <3>1. proof.path = AuditPaths(LeafHashes)[n][0][m]
      BY DEF PATH
    <3>2. PICK q : q = proof.path
      OBVIOUS
    <3>3. Left(q, 0, q)
      BY <1>0, <3>2 DEF Left
    <3> QED
      BY <3>1, <3>2, <3>3, Zenon
  <2>3. At(Walker(m, n - 1, LeafHashes[m]), 0)
    BY <2>1, <2>2, Zenon
  <2>4. At(walk[0], 0)
    <3> HIDE DEF At
    <3> QED
      BY <1>0, <2>3, WalkSteps
  <2> HIDE DEF At
  <2> QED
    BY <2>4
<1>2. ASSUME NEW t \in 1 .. Len(proof.path), t - 1 \in S PROVE t \in S
  <2>1. At(walk[t - 1], t - 1)
    <3> HIDE DEF At
    <3> QED
      BY <1>0, <1>2
  <2>2. PICK v, N, f : /\ walk[t - 1] = Walker(f, N - 1, v[f]) /\ Reached(v, N, f, MTH[n][0])
                       /\ Left(proof.path, t - 1, AuditPaths(v)[N][0][f])
    BY <2>1, Zenon
  <2>3. walk[t] = IF walk[t - 1].bad THEN walk[t - 1] ELSE Climb(walk[t - 1], proof.path[t])
    BY <1>0, WalkSteps
  <2>4. PICK p : p = proof.path[t]
    OBVIOUS
  <2>5. walk[t] = Climb(Walker(f, N - 1, v[f]), p)
    BY <2>2, <2>3, <2>4, WalkerFields
  <2>6. N \in 1 .. MaxTree /\ f \in 0 .. N - 1 /\ MaxTree \in Nat /\ Trees(v)[N][0] = MTH[n][0]
    BY <2>2, CtAssumption DEF Reached
  <2>7. N # 1
    <3> SUFFICES ASSUME N = 1 PROVE FALSE
      OBVIOUS
    <3>1. f = 0 /\ AuditPaths(v)[1][0][0] = <<>>
      BY <2>6, PathValues
    <3>2. Left(proof.path, t - 1, <<>>)
      BY <2>2, <3>1
    <3>3. Len(proof.path) - (t - 1) = 0
      BY <3>2 DEF Left
    <3> QED
      BY <1>0, <3>3
  <2>8. Onwards(v, N, f, v[f], p)
    <3>1. N \in 2 .. MaxTree
      BY <2>6, <2>7
    <3> QED
      BY <2>6, <3>1, OneRound
  <2>9. PICK w, M, g, r1 :
          /\ Climb(Walker(f, N - 1, v[f]), p) = Walker(g, M - 1, r1)
          /\ Reached(w, M, g, Trees(v)[N][0])
          /\ Behind(AuditPaths(v)[N][0][f], AuditPaths(w)[M][0][g])
          /\ p = AuditPaths(v)[N][0][f][1] => r1 = w[g]
    BY <2>8, Zenon DEF Onwards
  <2>10. PICK q, above : q = AuditPaths(v)[N][0][f] /\ above = AuditPaths(w)[M][0][g]
    OBVIOUS
  <2>11. Len(above) \in Nat
    BY <2>9, <2>10, PathLength DEF Reached
  <2>12. q[1] = proof.path[t] /\ Left(proof.path, t, above)
    BY <1>0, <2>2, <2>9, <2>10, <2>11, LeftAbove
  <2>13. walk[t] = Walker(g, M - 1, w[g])
    BY <2>4, <2>5, <2>9, <2>10, <2>12, Zenon
  <2>14. At(walk[t], t)
    BY <2>6, <2>9, <2>10, <2>12, <2>13, Zenon
  <2> HIDE DEF At
  <2> QED
    BY <2>14
<1>3. At(walk[Len(proof.path)], Len(proof.path))
  <2>1. Len(proof.path) \in S
    <3> HIDE DEF S
    <3>1. 0 .. Len(proof.path) \subseteq S
      BY <1>0, <1>1, <1>2, EveryStep
    <3> QED
      BY <1>0, <3>1
  <2> HIDE DEF At
  <2> QED
    BY <1>0, <2>1
<1>4. PICK v, N, f : /\ walk[Len(proof.path)] = Walker(f, N - 1, v[f]) /\ Reached(v, N, f, MTH[n][0])
                     /\ Left(proof.path, Len(proof.path), AuditPaths(v)[N][0][f])
  BY <1>3, Zenon
<1>5. N \in 1 .. MaxTree /\ f \in 0 .. N - 1 /\ MaxTree \in Nat
  BY <1>4, CtAssumption DEF Reached
<1>6. N = 1
  <2> SUFFICES ASSUME N # 1 PROVE FALSE
    OBVIOUS
  <2>1. N \in 2 .. MaxTree
    BY <1>5
  <2>2. Onwards(v, N, f, v[f], v[f])
    BY <1>5, <2>1, OneRound
  <2>3. PICK w, M, g : /\ Reached(w, M, g, Trees(v)[N][0])
                       /\ Behind(AuditPaths(v)[N][0][f], AuditPaths(w)[M][0][g])
    BY <2>2, Zenon DEF Onwards
  <2>4. Len(AuditPaths(w)[M][0][g]) \in Nat
    BY <2>3, PathLength DEF Reached
  <2>5. Len(AuditPaths(v)[N][0][f]) = 0
    BY <1>0, <1>4 DEF Left
  <2> QED
    BY <2>3, <2>4, <2>5 DEF Behind
<1>7. v[f] = MTH[n][0]
  <2>1. f = 0 /\ MTH[n][0] = v[0]
    BY <1>4, <1>6, AtRoot, Zenon
  <2> QED
    BY <2>1
<1>8. Arrives(Walker(f, N - 1, v[f]), MTH[n][0])
  BY <1>4, <1>6, <1>7, AtRoot, Zenon
<1> QED
  BY <1>4, <1>8

\* A path that is not too long for its tree has a length.
LEMMA PathForms ==
  ASSUME NEW n \in 1 .. MaxTree, NEW m \in 0 .. n - 1, NEW path,
         path \in {PATH[n][0][m], SubSeq(PATH[n][0][m], 2, Len(PATH[n][0][m])), Append(PATH[n][0][m], MTH[1][0])}
  PROVE  Len(path) \in Nat
<1>1. PICK q \in Seq(Hashes(LeafHashes)) : q = PATH[n][0][m]
  BY PathHashes DEF PATH
<1>2. MTH[1][0] \in Hashes(LeafHashes)
  BY CtAssumption DEF MTH, Hashes
<1>3. CASE path = q
  BY <1>3
<1>4. CASE path = Append(q, MTH[1][0])
  BY <1>2, <1>4
<1>5. CASE path = SubSeq(q, 2, Len(q))
  <2>1. CASE Len(q) = 0
    <3>1. path = [i \in 1 .. 0 |-> q[i + 1]]
      BY <1>5, <2>1
    <3>2. path = <<>>
      BY <3>1
    <3> QED
      BY <3>2
  <2>2. CASE Len(q) # 0
    BY <1>5, <2>2
  <2> QED
    BY <2>1, <2>2
<1> QED
  BY <1>1, <1>3, <1>4, <1>5, Zenon

(***************************************************************************)
(* Whatever entry, index, size and path verify_inclusion is given with the *)
(* root of a tree: if it accepts, the entry is in the tree, and at the     *)
(* index if the size is that of the tree; an entry with its index and its  *)
(* audit path is accepted.                                                 *)
(***************************************************************************)
THEOREM InclusionJudged ==
  ASSUME NEW n \in 1 .. MaxTree, NEW e, NEW proof, Len(proof.path) \in Nat,
         proof.index \in Nat, proof.size \in Nat, NEW result,
         result = VerifyInclusion(MerkleLeafHash(e), proof, MTH[n][0])
  PROVE  /\ result = "Ok" => /\ \E i \in 0 .. n - 1 : e = EntryAt(i)
                             /\ proof.size = n => e = EntryAt(proof.index)
         /\ \A m \in 0 .. n - 1 :
              e = EntryAt(m) /\ proof.index = m /\ proof.size = n /\ proof.path = PATH[n][0][m] => result = "Ok"
<1>0. MaxTree \in Nat /\ n \in Nat
  BY CtAssumption
<1>1. PICK walk : /\ Walked(walk, MerkleLeafHash(e), proof)
                  /\ result = "Ok" <=> Shaped(proof) /\ Arrives(walk[Len(proof.path)], MTH[n][0])
  BY InclusionVerdict
<1>2. ASSUME result = "Ok" PROVE \E i \in 0 .. n - 1 : e = EntryAt(i)
  <2>1. walk[Len(proof.path)].r = MTH[n][0]
    BY <1>1, <1>2 DEF Arrives
  <2>2. InTree(n, MTH[n][0])
    <3>1. n \in 1 .. n /\ 0 \in Nat /\ 0 + n <= n
      BY <1>0
    <3> QED
      BY <3>1 DEF InTree
  <2>3. InTree(n, MerkleLeafHash(e))
    BY <1>1, <2>1, <2>2, WalkInTree
  <2> QED
    BY <2>3, InTreeLeaf
<1>3. ASSUME result = "Ok", proof.size = n PROVE e = EntryAt(proof.index)
  <2>1. proof.index \in 0 .. n - 1
    BY <1>0, <1>1, <1>3 DEF Shaped
  <2>2. MerkleLeafHash(e) = LeafHashes[proof.index]
    BY <1>1, <1>3, <2>1, WalkFromLeaf
  <2>3. MerkleLeafHash(e) = MerkleLeafHash(EntryAt(proof.index))
    BY <2>2 DEF LeafHashes
  <2> QED
    BY <2>3 DEF MerkleLeafHash
<1>4. ASSUME NEW m \in 0 .. n - 1, e = EntryAt(m), proof.index = m, proof.size = n, proof.path = PATH[n][0][m]
      PROVE  result = "Ok"
  <2>1. LeafHashes[m] = MerkleLeafHash(e)
    BY <1>0, <1>4 DEF LeafHashes
  <2>2. Walked(walk, LeafHashes[m], proof)
    BY <1>1, <2>1
  <2>3. Arrives(walk[Len(proof.path)], MTH[n][0])
    BY <1>4, <2>2, WalkToRoot
  <2>4. Len(proof.path) <= BitLength[n - 1]
    BY <1>4, PathLength DEF PATH
  <2>5. ~(Len(proof.path) > MaxPathLen(proof.size))
    <3>1. BitLength[0] = 0 /\ BitLength[n - 1] \in Nat
      <4>1. n - 1 \in Nat /\ 0 \in Nat
        BY <1>0
      <4> QED
        BY <4>1, BitLengthIs
    <3>2. MaxPathLen(n) = IF n <= 1 THEN 0 ELSE BitLength[n - 1]
      BY DEF MaxPathLen
    <3>3. MaxPathLen(n) = BitLength[n - 1]
      BY <1>0, <3>1, <3>2
    <3> QED
      BY <1>0, <1>4, <2>4, <3>1, <3>3
  <2>6. Shaped(proof)
    BY <1>0, <1>4, <2>5 DEF Shaped
  <2> QED
    BY <1>1, <2>3, <2>6
<1> QED
  BY <1>2, <1>3, <1>4

\* A call about an inclusion proof answers rightly.
LEMMA InclusionOk ==
  ASSUME VerifyInclusionProof
  PROVE  InclusionIsSound' /\ HonestProofsVerify'
<1> DEFINE Given(e, n, m, index, size, path) ==
             Answer([call |-> "inclusion", entry |-> e, n |-> n, index |-> index, size |-> size,
                     honest |-> e = EntryAt(m) /\ index = m /\ size = n /\ path = PATH[n][0][m],
                     result |-> VerifyInclusion(MerkleLeafHash(e),
                                  [index |-> index, size |-> size, path |-> path], MTH[n][0])])
           Paths(n, m) == {PATH[n][0][m], SubSeq(PATH[n][0][m], 2, Len(PATH[n][0][m])),
                           Append(PATH[n][0][m], MTH[1][0])}
<1>1. PICK n \in 1 .. MaxTree : \E m \in 0 .. n - 1 :
        \E index \in 0 .. n, size \in 0 .. n + 1, path \in Paths(n, m),
           e \in {EntryAt(m)} \cup (IF n > 1 THEN FalseEntries(n) ELSE {}) :
          Given(e, n, m, index, size, path)
  BY Zenon DEF VerifyInclusionProof
<1>2. PICK m \in 0 .. n - 1 :
        \E index \in 0 .. n, size \in 0 .. n + 1, path \in Paths(n, m),
           e \in {EntryAt(m)} \cup (IF n > 1 THEN FalseEntries(n) ELSE {}) :
          Given(e, n, m, index, size, path)
  BY <1>1, Zenon
<1> HIDE DEF Given
<1>3. PICK index \in 0 .. n, size \in 0 .. n + 1, path \in Paths(n, m),
           e \in {EntryAt(m)} \cup (IF n > 1 THEN FalseEntries(n) ELSE {}) : Given(e, n, m, index, size, path)
  BY <1>2, Zenon
<1> USE DEF Given
<1>4. Len(path) \in Nat
  BY PathForms
<1> HIDE DEF Paths
<1>5. PICK proof : proof = [index |-> index, size |-> size, path |-> path]
  OBVIOUS
<1>6. proof.index = index /\ proof.size = size /\ proof.path = path
  BY <1>5
<1>7. PICK result : result = VerifyInclusion(MerkleLeafHash(e), proof, MTH[n][0])
  OBVIOUS
<1>8. PICK honest \in BOOLEAN : honest = (e = EntryAt(m) /\ index = m /\ size = n /\ path = PATH[n][0][m])
  OBVIOUS
<1>9. answer' = [call |-> "inclusion", entry |-> e, n |-> n, index |-> index, size |-> size,
                 honest |-> honest, result |-> result]
  BY <1>3, <1>5, <1>7, <1>8, Zenon DEF Answer
<1>10. index \in Nat /\ size \in Nat
  BY CtAssumption
<1>11. /\ result = "Ok" => /\ \E i \in 0 .. n - 1 : e = EntryAt(i)
                           /\ size = n => e = EntryAt(index)
       /\ honest => result = "Ok"
  <2>1. Len(proof.path) \in Nat /\ proof.index \in Nat /\ proof.size \in Nat
    BY <1>4, <1>6, <1>10
  <2>2. /\ result = "Ok" => /\ \E i \in 0 .. n - 1 : e = EntryAt(i)
                            /\ proof.size = n => e = EntryAt(proof.index)
        /\ \A k \in 0 .. n - 1 :
             e = EntryAt(k) /\ proof.index = k /\ proof.size = n /\ proof.path = PATH[n][0][k] => result = "Ok"
    BY <1>7, <2>1, InclusionJudged, Zenon
  <2>3. honest => result = "Ok"
    BY <1>6, <1>8, <2>2, Zenon
  <2> QED
    BY <1>6, <2>2, <2>3, Zenon
<1>12. PICK a : a = answer'
  OBVIOUS
<1>13. a.entry = e /\ a.n = n /\ a.index = index /\ a.size = size /\ a.honest = honest /\ a.result = result
  BY <1>9, <1>12
<1>14. InclusionIsSound'
  BY <1>11, <1>12, <1>13 DEF InclusionIsSound
<1>15. HonestProofsVerify'
  BY <1>11, <1>12, <1>13 DEF HonestProofsVerify
<1> QED
  BY <1>14, <1>15

(***************************************************************************)
(* What a log says of its tree is accepted exactly if it is so: heads it   *)
(* signed, and proofs of entries; the audit path of every entry of every   *)
(* tree verifies, and of the proofs for other entries, indices or sizes    *)
(* and of the cut and prolonged ones only those that are about an entry.   *)
(* About verify_sth and verify_inclusion, in trees of any size.            *)
(***************************************************************************)
THEOREM TreeProofsHold == Spec => []TreeProofsAreExact
<1> DEFINE Ok == InclusionIsSound /\ HonestProofsVerify
<1>1. Init => Ok
  BY DEF Init, NoAnswer, InclusionIsSound, HonestProofsVerify
<1>2. ASSUME IInv, Ok, [Next]_vars PROVE Ok'
  <2>1. ASSUME answer'.call # "inclusion" PROVE Ok'
    BY <2>1 DEF InclusionIsSound, HonestProofsVerify
  <2>2. ASSUME answer' = answer PROVE Ok'
    BY <1>2, <2>2 DEF InclusionIsSound, HonestProofsVerify
  <2>3. ListOk
    BY <1>2 DEF IInv
  <2>4. CASE UNCHANGED vars
    BY <2>2, <2>4 DEF vars
  <2>5. CASE Tick \/ BuildList
    BY <2>2, <2>5 DEF Tick, BuildList
  <2>6. ASSUME NEW log \in Logs, ChangeState(log) \/ Issue(log) PROVE Ok'
    BY <2>2, <2>6 DEF ChangeState, Issue
  <2>7. ASSUME NEW damage, LoadList(damage) PROVE Ok'
    <3>1. answer' = answer \/ \E r : answer' = [call |-> "load", result |-> r]
      BY <2>7 DEF LoadList
    <3> QED
      BY <2>1, <2>2, <3>1
  <2>8. CASE VerifyCert \/ VerifyPrecert \/ VerifyEmbedded \/ VerifyDelivered
    <3>1. Issued
      BY <1>2 DEF IInv
    <3>2. Judges
      BY <2>3, <2>8, <3>1, VerifyCertJudges, VerifyPrecertJudges, VerifyEmbeddedJudges, VerifyDeliveredJudges
    <3> QED
      BY <2>1, <3>2 DEF Judges
  <2>9. CASE VerifyTreeHead
    <3>1. \E x, r : answer' = [call |-> "sth", true |-> x, result |-> r]
      BY <2>9 DEF VerifyTreeHead, Answer
    <3> QED
      BY <2>1, <3>1
  <2>10. CASE VerifyInclusionProof
    BY <2>10, InclusionOk
  <2>11. CASE ReadTimestamp
    BY <2>1, <2>11 DEF ReadTimestamp, Answer
  <2> QED
    BY <1>2, <2>4, <2>5, <2>6, <2>7, <2>8, <2>9, <2>10, <2>11 DEF Next
<1>3. IInv /\ Ok /\ [Next]_vars => Ok'
  BY <1>2
<1>4. TreeHeadsAreExact /\ Ok => TreeProofsAreExact
  BY DEF TreeProofsAreExact
<1> QED
  BY <1>1, <1>3, <1>4, HeadsAreExact, InvariantHolds, PTL DEF Spec

=============================================================================
