--------------------------- MODULE Revocation_proofs ---------------------------
(***************************************************************************)
(* SignersAreRight, OcspAnswersTheLedger and CrlAnswersTheLedger of        *)
(* RevocationSources, for any CAs, documents, certificates, bundles and    *)
(* clocks, and for however long the CAs have been at work; then            *)
(* VerdictsHaveGrounds and CacheServesTheCaller of HttpFetchers, for any   *)
(* number of threads, certificates, servers and calls, whatever the        *)
(* servers answer and however the threads share the cache.  The two        *)
(* systems share no state: what one has to do with the other is the list   *)
(* of checks of which the first that fails decides.                        *)
(***************************************************************************)
EXTENDS RevocationSources, HttpFetchers, FiniteSetTheorems, WellFoundedInduction, TLAPS

-----------------------------------------------------------------------------
(* Numbers and sequences. *)

\* A non-empty set of natural numbers has a smallest element.
LEMMA Smallest ==
  ASSUME NEW S \in SUBSET Nat, S # {}
  PROVE  \E x \in S : \A y \in S : x <= y
<1> DEFINE R == OpToRel(<, Nat)
<1>1. PICK x \in S : \A y \in S : ~(<<y, x>> \in R)
  <2>1. IsWellFoundedOn(R, Nat)
    BY NatLessThanWellFounded
  <2> HIDE DEF R
  <2> QED
    BY <2>1, WFMin
<1>2. ASSUME NEW y \in S, y < x PROVE FALSE
  <2>1. <<y, x>> \in R
    BY <1>2 DEF OpToRel
  <2> QED
    BY <1>1, <2>1
<1>3. \A y \in S : ~(y < x)
  BY <1>2
<1>4. \A y \in S : x <= y
  BY <1>3
<1> QED
  BY <1>4

\* A non-empty set of numbers up to n has a largest element.
LEMMA Largest ==
  ASSUME NEW n \in Nat, NEW S \in SUBSET (1 .. n), S # {}
  PROVE  \E x \in S : \A y \in S : y <= x
<1> DEFINE T == {n - x : x \in S}
<1>1. T \in SUBSET Nat /\ T # {}
  <2>1. \A x \in S : n - x \in Nat
    OBVIOUS
  <2>2. PICK x \in S : TRUE
    OBVIOUS
  <2>3. n - x \in T
    BY <2>2
  <2> QED
    BY <2>1, <2>3
<1>2. PICK t \in T : \A y \in T : t <= y
  <2> HIDE DEF T
  <2> QED
    BY <1>1, Smallest
<1>3. PICK x \in S : t = n - x
  OBVIOUS
<1>4. \A y \in S : n - x <= n - y
  BY <1>2, <1>3
<1>5. \A y \in S : y \in Int /\ y <= x
  <2>1. n \in Int /\ \A y \in S : y \in Int
    OBVIOUS
  <2> TAKE y \in S
  <2>2. n - x <= n - y
    BY <1>4
  <2> QED
    BY <2>1, <2>2
<1> QED
  BY <1>5

\* The first of some positions.
LEMMA FirstOf ==
  ASSUME NEW n \in Nat, NEW S \in SUBSET (1 .. n), S # {}
  PROVE  Min(S) \in S
<1>1. S \in SUBSET Nat
  OBVIOUS
<1>2. \E x \in S : \A y \in S : x <= y
  BY <1>1, Smallest
<1> QED
  BY <1>2 DEF Min

\* A function on 1 .. n is a sequence of length n.
LEMMA LengthOf ==
  ASSUME NEW n \in Nat, NEW R, NEW e \in [1 .. n -> R]
  PROVE  e \in Seq(R) /\ Len(e) = n
OBVIOUS

-----------------------------------------------------------------------------
(* Lists of checks. *)

ErrorNames ==
  {"CrlExpired", "CrlIssuerMismatch", "CrlNumberMismatch", "CrlParseError", "CrlSignMissing",
   "CrlSignatureInvalid", "CrlSignerNotFound", "CrlSignerNotTrusted", "DeltaCrlBaseMismatch",
   "IndirectCrlIssuerMissing", "IndirectCrlIssuerUnexpected", "MalformedCertificate",
   "OcspCertIdMismatch", "OcspExpired", "OcspIssuerCertMismatch", "OcspMalformed",
   "OcspParseError", "OcspResponderCertExpired", "OcspResponderCertNotIssuedByCa",
   "OcspResponderCertSigInvalid", "OcspResponderEkuMalformed", "OcspResponderEkuMissing",
   "OcspResponderIdMismatch", "OcspSignatureInvalid", "OcspStatusUnknown", "OutOfScope",
   "Revoked"}
Lists == Seq(BOOLEAN \X ErrorNames)
Failing(checks) == {i \in DOMAIN checks : checks[i][1]}
Errors(checks) == {checks[i][2] : i \in DOMAIN checks}

\* The names of the errors of the two checkers.
LEMMA Named ==
  /\ "CrlExpired" \in ErrorNames /\ "CrlIssuerMismatch" \in ErrorNames
  /\ "CrlNumberMismatch" \in ErrorNames /\ "CrlParseError" \in ErrorNames
  /\ "CrlSignMissing" \in ErrorNames /\ "CrlSignatureInvalid" \in ErrorNames
  /\ "CrlSignerNotFound" \in ErrorNames /\ "CrlSignerNotTrusted" \in ErrorNames
  /\ "DeltaCrlBaseMismatch" \in ErrorNames /\ "IndirectCrlIssuerMissing" \in ErrorNames
  /\ "IndirectCrlIssuerUnexpected" \in ErrorNames /\ "MalformedCertificate" \in ErrorNames
  /\ "OcspCertIdMismatch" \in ErrorNames /\ "OcspExpired" \in ErrorNames
  /\ "OcspIssuerCertMismatch" \in ErrorNames /\ "OcspMalformed" \in ErrorNames
  /\ "OcspParseError" \in ErrorNames /\ "OcspResponderCertExpired" \in ErrorNames
  /\ "OcspResponderCertNotIssuedByCa" \in ErrorNames /\ "OcspResponderCertSigInvalid" \in ErrorNames
  /\ "OcspResponderEkuMalformed" \in ErrorNames /\ "OcspResponderEkuMissing" \in ErrorNames
  /\ "OcspResponderIdMismatch" \in ErrorNames /\ "OcspSignatureInvalid" \in ErrorNames
  /\ "OcspStatusUnknown" \in ErrorNames /\ "OutOfScope" \in ErrorNames
  /\ "Revoked" \in ErrorNames
BY DEF ErrorNames

\* A list that fails returns one of its errors, and one that does not Ok.
LEMMA ErrorOf ==
  ASSUME NEW a \in Lists
  PROVE  /\ Failing(a) = {} => FirstError(a) = "Ok"
         /\ Failing(a) # {} => \E k \in Failing(a) :
              /\ \A j \in Failing(a) : k <= j
              /\ FirstError(a) = a[k][2] /\ a[k][2] \in Errors(a)
<1>1. Failing(a) = {} => FirstError(a) = "Ok"
  BY DEF FirstError, Failing
<1>2. ASSUME Failing(a) # {}
      PROVE  \E k \in Failing(a) :
               /\ \A j \in Failing(a) : k <= j
               /\ FirstError(a) = a[k][2] /\ a[k][2] \in Errors(a)
  <2>1. Failing(a) \in SUBSET Nat /\ Failing(a) \subseteq DOMAIN a
    BY DEF Failing, Lists
  <2>2. \E x \in Failing(a) : \A y \in Failing(a) : x <= y
    BY <1>2, <2>1, Smallest
  <2>3. PICK k : k = CHOOSE x \in Failing(a) : \A y \in Failing(a) : x <= y
    OBVIOUS
  <2>4. k \in Failing(a) /\ \A y \in Failing(a) : k <= y
    BY <2>2, <2>3
  <2>5. FirstError(a) = a[k][2]
    BY <1>2, <2>3 DEF FirstError, Failing
  <2>6. a[k][2] \in Errors(a)
    BY <2>1, <2>4 DEF Errors
  <2> QED
    BY <2>4, <2>5, <2>6
<1> QED
  BY <1>1, <1>2

\* Two lists one after the other: the second counts if the first does not fail.
LEMMA Joined ==
  ASSUME NEW a \in Lists, NEW b \in Lists
  PROVE  /\ a \o b \in Lists
         /\ Errors(a \o b) = Errors(a) \cup Errors(b)
         /\ Failing(a \o b) = {} <=> Failing(a) = {} /\ Failing(b) = {}
         /\ FirstError(a \o b) = IF Failing(a) = {} THEN FirstError(b) ELSE FirstError(a)
<1>1. PICK c : c = a \o b
  OBVIOUS
<1>2. PICK m : m = Len(a)
  OBVIOUS
<1>3. PICK n : n = Len(b)
  OBVIOUS
<1>4. /\ m \in Nat /\ n \in Nat /\ DOMAIN a = 1 .. m /\ DOMAIN b = 1 .. n
      /\ c \in Lists /\ DOMAIN c = 1 .. m + n
      /\ \A i \in 1 .. m : c[i] = a[i]
      /\ \A i \in 1 .. n : c[m + i] = b[i]
  <2> DEFINE S == BOOLEAN \X ErrorNames
  <2>1. a \in Seq(S) /\ b \in Seq(S)
    BY DEF Lists
  <2> HIDE DEF S
  <2>2. m \in Nat /\ n \in Nat /\ DOMAIN a = 1 .. m /\ DOMAIN b = 1 .. n
    BY <1>2, <1>3, <2>1
  <2>3. c \in Seq(S) /\ Len(c) = m + n
    BY <1>1, <1>2, <1>3, <2>1
  <2>4. DOMAIN c = 1 .. m + n
    BY <2>3
  <2>5. \A i \in 1 .. m : c[i] = a[i]
    BY <1>1, <1>2, <1>3, <2>1
  <2>6. \A i \in 1 .. n : c[m + i] = b[i]
    BY <1>1, <1>2, <1>3, <2>1
  <2>7. c \in Lists
    BY <2>3 DEF Lists, S
  <2> QED
    BY <2>2, <2>4, <2>5, <2>6, <2>7
<1>5. ASSUME NEW i \in 1 .. m + n PROVE i \in 1 .. m \/ (i - m \in 1 .. n /\ c[i] = b[i - m])
  <2>1. i \in 1 .. m \/ (i - m \in 1 .. n /\ m + (i - m) = i)
    BY <1>4
  <2>2. ASSUME i - m \in 1 .. n, m + (i - m) = i PROVE c[i] = b[i - m]
    <3>1. c[m + (i - m)] = b[i - m]
      BY <1>4, <2>2
    <3> QED
      BY <2>2, <3>1
  <2> QED
    BY <2>1, <2>2
<1>6. \A i \in 1 .. m : i \in Failing(c) <=> i \in Failing(a)
  BY <1>4 DEF Failing
<1>7. \A i \in 1 .. n : m + i \in Failing(c) <=> i \in Failing(b)
  BY <1>4 DEF Failing
<1>8. Failing(a) \subseteq 1 .. m /\ Failing(b) \subseteq 1 .. n /\ Failing(c) \subseteq 1 .. m + n
  BY <1>4 DEF Failing
<1>9. Failing(c) = {} <=> Failing(a) = {} /\ Failing(b) = {}
  <2>1. ASSUME NEW i \in Failing(c) PROVE i \in Failing(a) \/ i - m \in Failing(b)
    <3>1. i \in 1 .. m + n
      BY <1>8, <2>1
    <3>2. i \in 1 .. m \/ (i - m \in 1 .. n /\ m + (i - m) = i)
      BY <1>4, <3>1
    <3> QED
      BY <1>6, <1>7, <2>1, <3>2
  <2>2. ASSUME NEW i \in Failing(a) PROVE i \in Failing(c)
    BY <1>6, <1>8
  <2>3. ASSUME NEW i \in Failing(b) PROVE m + i \in Failing(c)
    BY <1>7, <1>8
  <2> QED
    BY <2>1, <2>2, <2>3
<1>10. Errors(c) = Errors(a) \cup Errors(b)
  <2>1. ASSUME NEW i \in 1 .. m + n PROVE c[i][2] \in Errors(a) \cup Errors(b)
    <3>1. CASE i \in 1 .. m
      BY <1>4, <3>1 DEF Errors
    <3>2. CASE i - m \in 1 .. n /\ c[i] = b[i - m]
      <4>1. i - m \in DOMAIN b
        BY <1>4, <3>2
      <4> QED
        BY <3>2, <4>1 DEF Errors
    <3>3. i \in 1 .. m \/ (i - m \in 1 .. n /\ c[i] = b[i - m])
      BY <1>5, <2>1
    <3> QED
      BY <3>1, <3>2, <3>3, Zenon
  <2>2. ASSUME NEW i \in 1 .. m PROVE a[i][2] \in Errors(c)
    <3>1. i \in DOMAIN c /\ c[i] = a[i]
      BY <1>4
    <3> QED
      BY <3>1 DEF Errors
  <2>3. ASSUME NEW i \in 1 .. n PROVE b[i][2] \in Errors(c)
    <3>1. m + i \in DOMAIN c /\ c[m + i] = b[i]
      BY <1>4
    <3> QED
      BY <3>1 DEF Errors
  <2>4. Errors(c) \subseteq Errors(a) \cup Errors(b)
    <3>1. ASSUME NEW e \in Errors(c) PROVE e \in Errors(a) \cup Errors(b)
      <4>1. PICK i \in DOMAIN c : e = c[i][2]
        BY <3>1 DEF Errors
      <4> QED
        BY <1>4, <2>1, <4>1
    <3> QED
      BY <3>1
  <2>5. Errors(a) \subseteq Errors(c)
    <3>1. ASSUME NEW e \in Errors(a) PROVE e \in Errors(c)
      <4>1. PICK i \in DOMAIN a : e = a[i][2]
        BY <3>1 DEF Errors
      <4> QED
        BY <1>4, <2>2, <4>1
    <3> QED
      BY <3>1
  <2>6. Errors(b) \subseteq Errors(c)
    <3>1. ASSUME NEW e \in Errors(b) PROVE e \in Errors(c)
      <4>1. PICK i \in DOMAIN b : e = b[i][2]
        BY <3>1 DEF Errors
      <4> QED
        BY <1>4, <2>3, <4>1
    <3> QED
      BY <3>1
  <2> QED
    BY <2>4, <2>5, <2>6
<1>11. ASSUME Failing(a) # {} PROVE FirstError(c) = FirstError(a)
  <2>1. PICK k \in Failing(a) : (\A j \in Failing(a) : k <= j) /\ FirstError(a) = a[k][2]
    BY <1>11, ErrorOf
  <2>2. Failing(c) # {}
    BY <1>9, <1>11
  <2>3. PICK l \in Failing(c) : (\A j \in Failing(c) : l <= j) /\ FirstError(c) = c[l][2]
    BY <1>4, <2>2, ErrorOf
  <2>4. k \in 1 .. m /\ k \in Failing(c) /\ l \in 1 .. m + n
    BY <1>6, <1>8, <2>1, <2>3
  <2>5. l \in 1 .. m
    BY <1>4, <2>3, <2>4
  <2>6. l \in Failing(a)
    BY <1>6, <2>3, <2>5
  <2>7. l = k
    BY <1>4, <2>1, <2>3, <2>4, <2>6
  <2> QED
    BY <1>4, <2>1, <2>3, <2>5, <2>7
<1>12. ASSUME Failing(a) = {} PROVE FirstError(c) = FirstError(b)
  <2>1. CASE Failing(b) = {}
    <3>1. Failing(c) = {}
      BY <1>9, <1>12, <2>1
    <3> QED
      BY <1>4, <2>1, <3>1, ErrorOf
  <2>2. CASE Failing(b) # {}
    <3>1. PICK k \in Failing(b) : (\A j \in Failing(b) : k <= j) /\ FirstError(b) = b[k][2]
      BY <2>2, ErrorOf
    <3>2. Failing(c) # {}
      BY <1>9, <2>2
    <3>3. PICK l \in Failing(c) : (\A j \in Failing(c) : l <= j) /\ FirstError(c) = c[l][2]
      BY <1>4, <3>2, ErrorOf
    <3>4. l \in 1 .. m + n /\ l \notin 1 .. m
      BY <1>6, <1>8, <1>12, <3>3
    <3>5. l - m \in 1 .. n /\ c[l] = b[l - m]
      BY <1>5, <3>4
    <3>6. l - m \in Failing(b)
      <4>1. m + (l - m) = l
        BY <1>4, <3>4
      <4> QED
        BY <1>7, <3>3, <3>5, <4>1
    <3>7. k \in 1 .. n /\ m + k \in Failing(c)
      BY <1>7, <1>8, <3>1
    <3>8. l - m = k
      BY <1>4, <3>1, <3>3, <3>4, <3>6, <3>7
    <3> QED
      BY <3>1, <3>3, <3>5, <3>8
  <2> QED
    BY <2>1, <2>2
<1> QED
  BY <1>1, <1>4, <1>9, <1>10, <1>11, <1>12

\* The empty list.
LEMMA NoChecks == <<>> \in Lists /\ Errors(<<>>) = {} /\ Failing(<<>>) = {}
BY DEF Lists, Errors, Failing

\* A list of one check.
LEMMA List1 ==
  ASSUME NEW x1 \in BOOLEAN,
         NEW e1 \in ErrorNames,
         NEW s, s = << <<x1, e1>> >>
  PROVE  /\ s \in Lists /\ Errors(s) \subseteq {e1}
         /\ Failing(s) = {} <=> ~x1
<1> DEFINE S == BOOLEAN \X ErrorNames
<1>1. <<x1, e1>> \in S
  OBVIOUS
<1>2. s \in Seq(S) /\ DOMAIN s = 1 .. 1
  <2> HIDE DEF S
  <2> QED
    BY <1>1
<1>3. \A i \in DOMAIN s : i = 1
  BY <1>2
<1>4. s[1][2] = e1
  OBVIOUS
<1>5. /\ (1 \in Failing(s) <=> x1)
  BY <1>2 DEF Failing
<1>6. Errors(s) \subseteq {e1}
  <2> SUFFICES ASSUME NEW i \in DOMAIN s PROVE s[i][2] \in {e1}
    BY DEF Errors
  <2> QED
    BY <1>3, <1>4, Zenon
<1>7. Failing(s) = {} <=> ~x1
  <2>1. \A i \in Failing(s) : i = 1
    BY <1>3 DEF Failing
  <2> QED
    BY <1>5, <2>1, Zenon
<1> QED
  BY <1>2, <1>6, <1>7 DEF Lists

\* A list of two checks.
LEMMA List2 ==
  ASSUME NEW x1 \in BOOLEAN, NEW x2 \in BOOLEAN,
         NEW e1 \in ErrorNames, NEW e2 \in ErrorNames,
         NEW s, s = << <<x1, e1>>, <<x2, e2>> >>
  PROVE  /\ s \in Lists /\ Errors(s) \subseteq {e1, e2}
         /\ Failing(s) = {} <=> ~x1 /\ ~x2
<1> DEFINE S == BOOLEAN \X ErrorNames
<1>1. <<x1, e1>> \in S /\ <<x2, e2>> \in S
  OBVIOUS
<1>2. s \in Seq(S) /\ DOMAIN s = 1 .. 2
  <2> HIDE DEF S
  <2> QED
    BY <1>1
<1>3. \A i \in DOMAIN s : i = 1 \/ i = 2
  BY <1>2
<1>4. s[1][2] = e1 /\ s[2][2] = e2
  OBVIOUS
<1>5. /\ (1 \in Failing(s) <=> x1)
      /\ (2 \in Failing(s) <=> x2)
  BY <1>2 DEF Failing
<1>6. Errors(s) \subseteq {e1, e2}
  <2> SUFFICES ASSUME NEW i \in DOMAIN s PROVE s[i][2] \in {e1, e2}
    BY DEF Errors
  <2> QED
    BY <1>3, <1>4, Zenon
<1>7. Failing(s) = {} <=> ~x1 /\ ~x2
  <2>1. \A i \in Failing(s) : i = 1 \/ i = 2
    BY <1>3 DEF Failing
  <2> QED
    BY <1>5, <2>1, Zenon
<1> QED
  BY <1>2, <1>6, <1>7 DEF Lists

\* A list of three checks.
LEMMA List3 ==
  ASSUME NEW x1 \in BOOLEAN, NEW x2 \in BOOLEAN, NEW x3 \in BOOLEAN,
         NEW e1 \in ErrorNames, NEW e2 \in ErrorNames, NEW e3 \in ErrorNames,
         NEW s, s = << <<x1, e1>>, <<x2, e2>>, <<x3, e3>> >>
  PROVE  /\ s \in Lists /\ Errors(s) \subseteq {e1, e2, e3}
         /\ Failing(s) = {} <=> ~x1 /\ ~x2 /\ ~x3
<1> DEFINE S == BOOLEAN \X ErrorNames
<1>1. <<x1, e1>> \in S /\ <<x2, e2>> \in S /\ <<x3, e3>> \in S
  OBVIOUS
<1>2. s \in Seq(S) /\ DOMAIN s = 1 .. 3
  <2> HIDE DEF S
  <2> QED
    BY <1>1
<1>3. \A i \in DOMAIN s : i = 1 \/ i = 2 \/ i = 3
  BY <1>2
<1>4. s[1][2] = e1 /\ s[2][2] = e2 /\ s[3][2] = e3
  OBVIOUS
<1>5. /\ (1 \in Failing(s) <=> x1)
      /\ (2 \in Failing(s) <=> x2)
      /\ (3 \in Failing(s) <=> x3)
  BY <1>2 DEF Failing
<1>6. Errors(s) \subseteq {e1, e2, e3}
  <2> SUFFICES ASSUME NEW i \in DOMAIN s PROVE s[i][2] \in {e1, e2, e3}
    BY DEF Errors
  <2> QED
    BY <1>3, <1>4, Zenon
<1>7. Failing(s) = {} <=> ~x1 /\ ~x2 /\ ~x3
  <2>1. \A i \in Failing(s) : i = 1 \/ i = 2 \/ i = 3
    BY <1>3 DEF Failing
  <2> QED
    BY <1>5, <2>1, Zenon
<1> QED
  BY <1>2, <1>6, <1>7 DEF Lists

\* A list of four checks.
LEMMA List4 ==
  ASSUME NEW x1 \in BOOLEAN, NEW x2 \in BOOLEAN, NEW x3 \in BOOLEAN, NEW x4 \in BOOLEAN,
         NEW e1 \in ErrorNames, NEW e2 \in ErrorNames, NEW e3 \in ErrorNames, NEW e4 \in ErrorNames,
         NEW s, s = << <<x1, e1>>, <<x2, e2>>, <<x3, e3>>, <<x4, e4>> >>
  PROVE  /\ s \in Lists /\ Errors(s) \subseteq {e1, e2, e3, e4}
         /\ Failing(s) = {} <=> ~x1 /\ ~x2 /\ ~x3 /\ ~x4
<1> DEFINE S == BOOLEAN \X ErrorNames
<1>1. <<x1, e1>> \in S /\ <<x2, e2>> \in S /\ <<x3, e3>> \in S /\ <<x4, e4>> \in S
  OBVIOUS
<1>2. s \in Seq(S) /\ DOMAIN s = 1 .. 4
  <2> HIDE DEF S
  <2> QED
    BY <1>1
<1>3. \A i \in DOMAIN s : i = 1 \/ i = 2 \/ i = 3 \/ i = 4
  BY <1>2
<1>4. s[1][2] = e1 /\ s[2][2] = e2 /\ s[3][2] = e3 /\ s[4][2] = e4
  OBVIOUS
<1>5. /\ (1 \in Failing(s) <=> x1)
      /\ (2 \in Failing(s) <=> x2)
      /\ (3 \in Failing(s) <=> x3)
      /\ (4 \in Failing(s) <=> x4)
  BY <1>2 DEF Failing
<1>6. Errors(s) \subseteq {e1, e2, e3, e4}
  <2> SUFFICES ASSUME NEW i \in DOMAIN s PROVE s[i][2] \in {e1, e2, e3, e4}
    BY DEF Errors
  <2> QED
    BY <1>3, <1>4, Zenon
<1>7. Failing(s) = {} <=> ~x1 /\ ~x2 /\ ~x3 /\ ~x4
  <2>1. \A i \in Failing(s) : i = 1 \/ i = 2 \/ i = 3 \/ i = 4
    BY <1>3 DEF Failing
  <2> QED
    BY <1>5, <2>1, Zenon
<1> QED
  BY <1>2, <1>6, <1>7 DEF Lists

\* Four rows are two rows and two rows.
LEMMA FourRows ==
  ASSUME NEW S, NEW r1 \in S, NEW r2 \in S, NEW r3 \in S, NEW r4 \in S
  PROVE  <<r1, r2, r3, r4>> = <<r1, r2>> \o <<r3, r4>>
OBVIOUS

\* Five rows are two rows and three rows.
LEMMA FiveRows ==
  ASSUME NEW S, NEW r1 \in S, NEW r2 \in S, NEW r3 \in S, NEW r4 \in S, NEW r5 \in S
  PROVE  <<r1, r2, r3, r4, r5>> = <<r1, r2>> \o <<r3, r4, r5>>
OBVIOUS

\* Six rows are three rows and three rows.
LEMMA SixRows ==
  ASSUME NEW S, NEW r1 \in S, NEW r2 \in S, NEW r3 \in S, NEW r4 \in S, NEW r5 \in S, NEW r6 \in S
  PROVE  <<r1, r2, r3, r4, r5, r6>> = <<r1, r2, r3>> \o <<r4, r5, r6>>
OBVIOUS

\* A row of a list.
LEMMA Row ==
  ASSUME NEW x \in BOOLEAN, NEW e \in ErrorNames
  PROVE  \E r \in BOOLEAN \X ErrorNames : r = <<x, e>>
OBVIOUS

-----------------------------------------------------------------------------
(* What the checks of a CrlChecker have established when none of them fails. *)

\* Whether the checker needs the certificate of a CRL issuer.
LEMMA SignerPassed ==
  ASSUME NEW ck, NEW s, s = SignerChecks(ck)
  PROVE  /\ s \in Lists
         /\ Errors(s) \subseteq {"CrlParseError", "IndirectCrlIssuerUnexpected", "IndirectCrlIssuerMissing"}
         /\ Failing(s) = {} => (ck.crlIssuer = NoCert => ~Indirect(ck.crl))
<1>1. PICK x1 \in BOOLEAN : x1 = (ck.crl.idp.form = "malformed")
  OBVIOUS
<1>2. PICK x2 \in BOOLEAN : x2 = (ck.crlIssuer # NoCert /\ ~Indirect(ck.crl) /\ ~ck.discovered)
  OBVIOUS
<1>3. PICK x3 \in BOOLEAN : x3 = (ck.crlIssuer = NoCert /\ Indirect(ck.crl))
  OBVIOUS
<1>4. s = << <<x1, "CrlParseError">>, <<x2, "IndirectCrlIssuerUnexpected">>,
             <<x3, "IndirectCrlIssuerMissing">> >>
  BY <1>1, <1>2, <1>3 DEF SignerChecks
<1>n. "CrlParseError" \in ErrorNames /\ "IndirectCrlIssuerUnexpected" \in ErrorNames /\ "IndirectCrlIssuerMissing" \in ErrorNames
  BY Named
<1>5. /\ s \in Lists
      /\ Errors(s) \subseteq {"CrlParseError", "IndirectCrlIssuerUnexpected", "IndirectCrlIssuerMissing"}
      /\ Failing(s) = {} => ~x3
  BY <1>4, List3, <1>n
<1> QED
  BY <1>3, <1>5

\* The key usage of a signer.
LEMMA CrlSignList ==
  ASSUME NEW c, NEW s, s = CrlSignChecks(c)
  PROVE  s \in Lists /\ Errors(s) \subseteq {"CrlParseError", "CrlSignMissing"}
<1>1. PICK x1 \in BOOLEAN : x1 = (c.ku = "malformed")
  OBVIOUS
<1>2. PICK x2 \in BOOLEAN : x2 = (c.ku = "noCrlSign")
  OBVIOUS
<1>3. s = << <<x1, "CrlParseError">>, <<x2, "CrlSignMissing">> >>
  BY <1>1, <1>2 DEF CrlSignChecks
<1>n. "CrlParseError" \in ErrorNames /\ "CrlSignMissing" \in ErrorNames
  BY Named
<1> QED
  BY <1>3, List2, <1>n

\* The names of the CRL, the signer, the issuer and the certificate.
LEMMA IdentityPassed ==
  ASSUME NEW ck, NEW ee, NEW issuer, NEW anchored \in BOOLEAN, NEW s,
         s = IdentityChecks(ck, ee, issuer, anchored)
  PROVE  /\ s \in Lists
         /\ Errors(s) \subseteq {"CrlIssuerMismatch", "CrlParseError", "CrlSignMissing"}
         /\ Failing(s) = {} =>
              ck.crl.issuer = SignerOf(ck, issuer).subject /\ issuer.subject = ee.issuer
<1>1. PICK x1 \in BOOLEAN : x1 = (ck.crl.issuer # SignerOf(ck, issuer).subject)
  OBVIOUS
<1>2. PICK x2 \in BOOLEAN : x2 = (issuer.subject # ee.issuer)
  OBVIOUS
<1>3. PICK x3 \in BOOLEAN : x3 = (~anchored /\ ck.crlIssuer = NoCert /\ ee.issuer # ck.crl.issuer)
  OBVIOUS
<1>4. PICK a : a = << <<x1, "CrlIssuerMismatch">>, <<x2, "CrlIssuerMismatch">>, <<x3, "CrlIssuerMismatch">> >>
  OBVIOUS
<1>5. PICK b : b = IF anchored /\ ck.crlIssuer = NoCert THEN <<>> ELSE CrlSignChecks(SignerOf(ck, issuer))
  OBVIOUS
<1>6. s = a \o b
  BY <1>1, <1>2, <1>3, <1>4, <1>5 DEF IdentityChecks
<1>n. "CrlIssuerMismatch" \in ErrorNames
  BY Named
<1>7. /\ a \in Lists /\ Errors(a) \subseteq {"CrlIssuerMismatch"}
      /\ Failing(a) = {} => ~x1 /\ ~x2
  BY <1>4, List3, <1>n
<1>8. b \in Lists /\ Errors(b) \subseteq {"CrlParseError", "CrlSignMissing"}
  BY <1>5, NoChecks, CrlSignList
<1>9. s \in Lists /\ Errors(s) = Errors(a) \cup Errors(b) /\ (Failing(s) = {} => Failing(a) = {})
  BY <1>6, <1>7, <1>8, Joined
<1> QED
  BY <1>1, <1>2, <1>7, <1>8, <1>9

\* The validity window and the signature of the CRL.
LEMMA BasePassed ==
  ASSUME NEW ck, NEW signer, NEW s, s = BaseChecks(ck, signer)
  PROVE  /\ s \in Lists /\ Errors(s) \subseteq {"CrlExpired", "CrlSignatureInvalid"}
         /\ Failing(s) = {} => ck.crl.key = signer.key
         /\ FirstError(s) = "CrlSignatureInvalid" => ck.crl.key # signer.key
<1>1. PICK x1 \in BOOLEAN : x1 = Outside(ck.crl, ck.now)
  BY DEF Outside
<1>2. PICK x2 \in BOOLEAN : x2 = (ck.crl.key # signer.key)
  OBVIOUS
<1>3. PICK a : a = << <<x1, "CrlExpired">> >>
  OBVIOUS
<1>4. PICK b : b = << <<x2, "CrlSignatureInvalid">> >>
  OBVIOUS
<1>5. s = << <<x1, "CrlExpired">>, <<x2, "CrlSignatureInvalid">> >>
  BY <1>1, <1>2 DEF BaseChecks
<1>n. "CrlExpired" \in ErrorNames /\ "CrlSignatureInvalid" \in ErrorNames
  BY Named
<1>6. /\ s \in Lists /\ Errors(s) \subseteq {"CrlExpired", "CrlSignatureInvalid"}
      /\ Failing(s) = {} <=> ~x1 /\ ~x2
  BY <1>5, List2, <1>n
<1>7. ASSUME FirstError(s) = "CrlSignatureInvalid", ~x2 PROVE FALSE
  <2>1. Failing(s) # {}
    BY <1>6, <1>7, ErrorOf
  <2>2. PICK k \in Failing(s) : FirstError(s) = s[k][2]
    BY <1>6, <2>1, ErrorOf
  <2>3. k = 1
    BY <1>5, <1>7, <2>2 DEF Failing
  <2> QED
    BY <1>5, <1>7, <2>2, <2>3
<1> QED
  BY <1>2, <1>6, <1>7

\* The scope of the CRL.
LEMMA ScopeList ==
  ASSUME NEW ck, NEW ee, NEW signer, NEW s, s = ScopeChecks(ck, ee, signer)
  PROVE  s \in Lists /\ Errors(s) \subseteq {"OutOfScope", "MalformedCertificate", "CrlParseError"}
<1>1. CASE ~HasIdp(ck.crl)
  BY <1>1, NoChecks DEF ScopeChecks
<1>2. CASE HasIdp(ck.crl)
  <2>1. PICK x1 \in BOOLEAN : x1 = (ck.crl.idp.only = "attribute")
    OBVIOUS
  <2>2. PICK x2 \in BOOLEAN : x2 = (ee.ca = "malformed")
    OBVIOUS
  <2>3. PICK x3 \in BOOLEAN : x3 = (ck.crl.idp.only = "user" /\ ee.ca = "yes")
    OBVIOUS
  <2>4. PICK x4 \in BOOLEAN : x4 = (ck.crl.idp.only = "ca" /\ ee.ca = "no")
    OBVIOUS
  <2>5. PICK x5 \in BOOLEAN : x5 = (ee.cdp.form = "malformed")
    OBVIOUS
  <2>6. PICK x6 \in BOOLEAN : x6 = ~DpInScope(ee, ck.crl, signer)
    OBVIOUS
  <2>7. "OutOfScope" \in ErrorNames /\ "MalformedCertificate" \in ErrorNames /\ "CrlParseError" \in ErrorNames
    BY Named
  <2>8. PICK a : a = << <<x1, "OutOfScope">>, <<x2, "MalformedCertificate">>, <<x3, "OutOfScope">> >>
    OBVIOUS
  <2>9. PICK b : b = << <<x4, "OutOfScope">>, <<x5, "CrlParseError">>, <<x6, "OutOfScope">> >>
    OBVIOUS
  <2>10. a \in Lists /\ Errors(a) \subseteq {"OutOfScope", "MalformedCertificate", "OutOfScope"}
    BY <2>7, <2>8, List3, SMTT(30)
  <2>11. b \in Lists /\ Errors(b) \subseteq {"OutOfScope", "CrlParseError", "OutOfScope"}
    BY <2>7, <2>9, List3, SMTT(30)
  <2>12. s = a \o b
    <3>1. PICK r1 \in BOOLEAN \X ErrorNames : r1 = <<x1, "OutOfScope">>
      BY <2>7, Row
    <3>2. PICK r2 \in BOOLEAN \X ErrorNames : r2 = <<x2, "MalformedCertificate">>
      BY <2>7, Row
    <3>3. PICK r3 \in BOOLEAN \X ErrorNames : r3 = <<x3, "OutOfScope">>
      BY <2>7, Row
    <3>4. PICK r4 \in BOOLEAN \X ErrorNames : r4 = <<x4, "OutOfScope">>
      BY <2>7, Row
    <3>5. PICK r5 \in BOOLEAN \X ErrorNames : r5 = <<x5, "CrlParseError">>
      BY <2>7, Row
    <3>6. PICK r6 \in BOOLEAN \X ErrorNames : r6 = <<x6, "OutOfScope">>
      BY <2>7, Row
    <3>7. s = <<r1, r2, r3, r4, r5, r6>>
      BY <1>2, <2>1, <2>2, <2>3, <2>4, <2>5, <2>6, <3>1, <3>2, <3>3, <3>4, <3>5, <3>6 DEF ScopeChecks
    <3>8. a = <<r1, r2, r3>> /\ b = <<r4, r5, r6>>
      BY <2>8, <2>9, <3>1, <3>2, <3>3, <3>4, <3>5, <3>6
    <3> QED
      BY <3>7, <3>8, SixRows
  <2> QED
    BY <2>10, <2>11, <2>12, Joined
<1> QED
  BY <1>1, <1>2

\* The issuer, the validity window and the signature of the delta CRL.
LEMMA DeltaPassed ==
  ASSUME NEW ck, NEW signer, NEW s, s = DeltaChecks(ck, signer)
  PROVE  /\ s \in Lists /\ Errors(s) \subseteq {"CrlIssuerMismatch", "CrlExpired", "CrlSignatureInvalid"}
         /\ Failing(s) = {} => (ck.delta = NoCrl \/ ck.delta.key = signer.key)
         /\ ck.delta = NoCrl => s = <<>>
<1>1. CASE ck.delta = NoCrl
  BY <1>1, NoChecks DEF DeltaChecks
<1>2. CASE ck.delta # NoCrl
  <2>1. PICK x1 \in BOOLEAN : x1 = (ck.delta.issuer # ck.crl.issuer \/ ck.delta.issuer # signer.subject)
    OBVIOUS
  <2>2. PICK x2 \in BOOLEAN : x2 = Outside(ck.delta, ck.now)
    BY DEF Outside
  <2>3. PICK x3 \in BOOLEAN : x3 = (ck.delta.key # signer.key)
    OBVIOUS
  <2>4. s = << <<x1, "CrlIssuerMismatch">>, <<x2, "CrlExpired">>, <<x3, "CrlSignatureInvalid">> >>
    BY <1>2, <2>1, <2>2, <2>3 DEF DeltaChecks
  <2>n. "CrlIssuerMismatch" \in ErrorNames /\ "CrlExpired" \in ErrorNames /\ "CrlSignatureInvalid" \in ErrorNames
    BY Named
  <2>5. /\ s \in Lists /\ Errors(s) \subseteq {"CrlIssuerMismatch", "CrlExpired", "CrlSignatureInvalid"}
        /\ Failing(s) = {} => ~x3
    BY <2>4, List3, <2>n
  <2> QED
    BY <1>2, <2>3, <2>5
<1> QED
  BY <1>1, <1>2

CrlErrors ==
  {"CrlParseError", "IndirectCrlIssuerUnexpected", "IndirectCrlIssuerMissing", "CrlIssuerMismatch",
   "CrlSignMissing", "CrlExpired", "CrlSignatureInvalid", "OutOfScope", "MalformedCertificate"}

\* What the first checks of a CrlChecker say together.
LEMMA CrlVerdict ==
  ASSUME NEW ck, NEW ee, NEW issuer, NEW anchored \in BOOLEAN, NEW signer, signer = SignerOf(ck, issuer),
         NEW v, v = FirstError(SignerChecks(ck) \o IdentityChecks(ck, ee, issuer, anchored)
                               \o BaseChecks(ck, signer) \o ScopeChecks(ck, ee, signer)
                               \o DeltaChecks(ck, signer))
  PROVE  /\ v # "Ok" => v \in CrlErrors
         /\ v = "Ok" =>
              /\ ck.crlIssuer = NoCert => ~Indirect(ck.crl)
              /\ ck.crl.issuer = signer.subject /\ issuer.subject = ee.issuer
              /\ ck.crl.key = signer.key
              /\ ck.delta = NoCrl \/ ck.delta.key = signer.key
         /\ v = "CrlSignatureInvalid" /\ ck.delta = NoCrl => ck.crl.key # signer.key
<1>1. PICK a : a = SignerChecks(ck)
  OBVIOUS
<1>2. PICK b : b = IdentityChecks(ck, ee, issuer, anchored)
  OBVIOUS
<1>3. PICK c : c = BaseChecks(ck, signer)
  OBVIOUS
<1>4. PICK d : d = ScopeChecks(ck, ee, signer)
  OBVIOUS
<1>5. PICK e : e = DeltaChecks(ck, signer)
  OBVIOUS
<1>6. /\ a \in Lists
      /\ Errors(a) \subseteq {"CrlParseError", "IndirectCrlIssuerUnexpected", "IndirectCrlIssuerMissing"}
      /\ Failing(a) = {} => (ck.crlIssuer = NoCert => ~Indirect(ck.crl))
  BY <1>1, SignerPassed
<1>7. /\ b \in Lists /\ Errors(b) \subseteq {"CrlIssuerMismatch", "CrlParseError", "CrlSignMissing"}
      /\ Failing(b) = {} => ck.crl.issuer = signer.subject /\ issuer.subject = ee.issuer
  BY <1>2, IdentityPassed
<1>8. /\ c \in Lists /\ Errors(c) \subseteq {"CrlExpired", "CrlSignatureInvalid"}
      /\ Failing(c) = {} => ck.crl.key = signer.key
      /\ FirstError(c) = "CrlSignatureInvalid" => ck.crl.key # signer.key
  BY <1>3, BasePassed
<1>9. d \in Lists /\ Errors(d) \subseteq {"OutOfScope", "MalformedCertificate", "CrlParseError"}
  BY <1>4, ScopeList
<1>10. /\ e \in Lists /\ Errors(e) \subseteq {"CrlIssuerMismatch", "CrlExpired", "CrlSignatureInvalid"}
       /\ Failing(e) = {} => (ck.delta = NoCrl \/ ck.delta.key = signer.key)
       /\ ck.delta = NoCrl => e = <<>>
  BY <1>5, DeltaPassed
<1>11. PICK ab : ab = a \o b
  OBVIOUS
<1>12. PICK abc : abc = ab \o c
  OBVIOUS
<1>13. PICK abcd : abcd = abc \o d
  OBVIOUS
<1>14. PICK all : all = abcd \o e
  OBVIOUS
<1>15. /\ ab \in Lists /\ Errors(ab) = Errors(a) \cup Errors(b)
       /\ Failing(ab) = {} <=> Failing(a) = {} /\ Failing(b) = {}
  BY <1>6, <1>7, <1>11, Joined
<1>16. /\ abc \in Lists /\ Errors(abc) = Errors(ab) \cup Errors(c)
       /\ Failing(abc) = {} <=> Failing(ab) = {} /\ Failing(c) = {}
       /\ FirstError(abc) = IF Failing(ab) = {} THEN FirstError(c) ELSE FirstError(ab)
  BY <1>8, <1>12, <1>15, Joined
<1>17. /\ abcd \in Lists /\ Errors(abcd) = Errors(abc) \cup Errors(d)
       /\ Failing(abcd) = {} <=> Failing(abc) = {} /\ Failing(d) = {}
       /\ FirstError(abcd) = IF Failing(abc) = {} THEN FirstError(d) ELSE FirstError(abc)
  BY <1>9, <1>13, <1>16, Joined
<1>18. /\ all \in Lists /\ Errors(all) = Errors(abcd) \cup Errors(e)
       /\ Failing(all) = {} <=> Failing(abcd) = {} /\ Failing(e) = {}
       /\ FirstError(all) = IF Failing(abcd) = {} THEN FirstError(e) ELSE FirstError(abcd)
  BY <1>10, <1>14, <1>17, Joined
<1>19. v = FirstError(all)
  BY <1>1, <1>2, <1>3, <1>4, <1>5, <1>11, <1>12, <1>13, <1>14
<1>20. Errors(all) \subseteq CrlErrors
  <2>1. Errors(a) \subseteq CrlErrors /\ Errors(b) \subseteq CrlErrors /\ Errors(c) \subseteq CrlErrors
    BY <1>6, <1>7, <1>8 DEF CrlErrors
  <2>2. Errors(d) \subseteq CrlErrors /\ Errors(e) \subseteq CrlErrors
    BY <1>9, <1>10 DEF CrlErrors
  <2> QED
    BY <1>15, <1>16, <1>17, <1>18, <2>1, <2>2
<1>21. "Ok" \notin CrlErrors
  BY DEF CrlErrors
<1>22. Failing(all) # {} => v \in CrlErrors
  BY <1>18, <1>19, <1>20, ErrorOf
<1>23. v = "Ok" <=> Failing(all) = {}
  BY <1>18, <1>19, <1>21, <1>22, ErrorOf
<1>24. ASSUME v = "CrlSignatureInvalid", ck.delta = NoCrl PROVE ck.crl.key # signer.key
  <2>1. FirstError(e) = "Ok"
    BY <1>10, <1>24, NoChecks, ErrorOf
  <2>2. FirstError(abcd) = "CrlSignatureInvalid"
    BY <1>18, <1>19, <1>24, <2>1
  <2>3. "CrlSignatureInvalid" \notin Errors(d) /\ "CrlSignatureInvalid" \notin Errors(ab)
    BY <1>6, <1>7, <1>9, <1>15
  <2>4. FirstError(d) # "CrlSignatureInvalid"
    BY <1>9, <2>3, ErrorOf
  <2>5. FirstError(abc) = "CrlSignatureInvalid"
    BY <1>17, <2>2, <2>4
  <2>6. FirstError(ab) # "CrlSignatureInvalid"
    BY <1>15, <2>3, ErrorOf
  <2>7. FirstError(c) = "CrlSignatureInvalid"
    BY <1>16, <2>5, <2>6
  <2> QED
    BY <1>8, <2>7
<1> QED
  BY <1>6, <1>7, <1>8, <1>10, <1>15, <1>16, <1>17, <1>18, <1>22, <1>23, <1>24

\* What is found in the delta CRL and in the complete one.
InDelta(base, delta, issuer, serial, ind) ==
  IF delta = NoCrl THEN 0 ELSE FindMatchingEntry(delta.entries, issuer, serial, base.issuer, ind)
InBase(base, issuer, serial, ind) == FindMatchingEntry(base.entries, issuer, serial, base.issuer, ind)

\* The verdict from what was found.
Decides(v, delta, d, b) ==
  /\ v \in {"Ok", "Revoked", "CrlParseError"}
  /\ v = "Ok" =>
       /\ d # Malformed
       /\ d > 0 => delta.entries[d].reason = "removeFromCRL"
       /\ d = 0 => b # Malformed /\ ~(b > 0)
  /\ v = "Revoked" =>
       /\ d # Malformed
       /\ \/ d > 0 /\ delta.entries[d].reason # "removeFromCRL"
          \/ d = 0 /\ b # Malformed /\ b > 0

\* The verdict from the entries found in the delta CRL and in the complete one.
LEMMA StatusMeans ==
  ASSUME NEW base, NEW delta, NEW issuer, NEW serial, NEW ind,
         NEW d \in Int, d = InDelta(base, delta, issuer, serial, ind),
         NEW b \in Int, b = InBase(base, issuer, serial, ind),
         NEW v, v = RevocationStatus(base, delta, issuer, serial, ind)
  PROVE  Decides(v, delta, d, b)
<1>1. PICK x1 \in BOOLEAN : x1 = (d = Malformed)
  OBVIOUS
<1>2. PICK x2 \in BOOLEAN : x2 = (d > 0 /\ delta.entries[d].reason # "removeFromCRL")
  OBVIOUS
<1>3. PICK x3 \in BOOLEAN : x3 = (d = 0 /\ b = Malformed)
  OBVIOUS
<1>4. PICK x4 \in BOOLEAN : x4 = (d = 0 /\ b > 0)
  OBVIOUS
<1>5. PICK s : s = << <<x1, "CrlParseError">>, <<x2, "Revoked">>, <<x3, "CrlParseError">>, <<x4, "Revoked">> >>
  OBVIOUS
<1>6. v = FirstError(s)
  BY <1>1, <1>2, <1>3, <1>4, <1>5 DEF RevocationStatus, InDelta, InBase
<1>7. "CrlParseError" \in ErrorNames /\ "Revoked" \in ErrorNames
  BY Named
<1>8. /\ s \in Lists /\ Errors(s) \subseteq {"CrlParseError", "Revoked", "CrlParseError", "Revoked"}
      /\ Failing(s) = {} <=> ~x1 /\ ~x2 /\ ~x3 /\ ~x4
  BY <1>5, <1>7, List4, SMTT(30)
<1>9. CASE Failing(s) = {}
  <2>1. v = "Ok" /\ ~x1 /\ ~x2 /\ ~x3 /\ ~x4
    BY <1>6, <1>8, <1>9, ErrorOf
  <2> QED
    BY <1>1, <1>2, <1>3, <1>4, <2>1 DEF Decides
<1>10. CASE Failing(s) # {}
  <2>1. PICK k \in Failing(s) : (\A j \in Failing(s) : k <= j) /\ v = s[k][2] /\ s[k][2] \in Errors(s)
    BY <1>6, <1>8, <1>10, ErrorOf
  <2>2. DOMAIN s = 1 .. 4 /\ s[1][2] = "CrlParseError" /\ s[3][2] = "CrlParseError"
    BY <1>5
  <2>3. (1 \in Failing(s) <=> x1) /\ (2 \in Failing(s) <=> x2) /\ (3 \in Failing(s) <=> x3) /\ (4 \in Failing(s) <=> x4)
    BY <1>5, <2>2 DEF Failing
  <2>4. k \in 1 .. 4
    BY <2>1, <2>2 DEF Failing
  <2>5. v \in {"CrlParseError", "Revoked"}
    BY <1>8, <2>1
  <2>6. ASSUME v = "Revoked" PROVE ~x1 /\ (x2 \/ (x4 /\ ~x3))
    <3>0. k = 1 \/ k = 2 \/ k = 3 \/ k = 4
      BY <2>4
    <3>1. k = 2 \/ k = 4
      <4>1. k # 1
        BY <2>1, <2>2, <2>6
      <4>2. k # 3
        BY <2>1, <2>2, <2>6
      <4> QED
        BY <3>0, <4>1, <4>2
    <3>2. CASE k = 2
      <4>1. 1 \notin Failing(s)
        BY <2>1, <3>2
      <4> QED
        BY <2>1, <2>3, <3>2, <4>1
    <3>3. CASE k = 4
      <4>1. 1 \notin Failing(s) /\ 3 \notin Failing(s)
        BY <2>1, <3>3
      <4> QED
        BY <2>1, <2>3, <3>3, <4>1
    <3> QED
      BY <3>1, <3>2, <3>3
  <2>7. v # "Ok"
    BY <2>5
  <2>8. ASSUME v = "Revoked"
        PROVE  /\ d # Malformed
               /\ \/ d > 0 /\ delta.entries[d].reason # "removeFromCRL"
                  \/ d = 0 /\ b # Malformed /\ b > 0
    <3>1. ~x1 /\ (x2 \/ (x4 /\ ~x3))
      BY <2>6, <2>8
    <3>2. d # Malformed
      BY <1>1, <3>1
    <3>3. ASSUME x2 PROVE d > 0 /\ delta.entries[d].reason # "removeFromCRL"
      BY <1>2, <3>3
    <3>4. ASSUME x4, ~x3 PROVE d = 0 /\ b # Malformed /\ b > 0
      BY <1>3, <1>4, <3>4
    <3> QED
      BY <3>1, <3>2, <3>3, <3>4
  <2> QED
    BY <2>5, <2>7, <2>8 DEF Decides
<1> QED
  BY <1>9, <1>10

-----------------------------------------------------------------------------
(* What CrlChecker finds in a CRL that a CA issued. *)

\* The issuer an entry inherits when it names none.
Before(p, q, i) == IF i = 1 THEN p.issuer ELSE q[i - 1][1]

\* The entries of a CRL, one for every certificate listed.
EntryFacts(p, q, k, n, e) ==
  /\ DOMAIN e = 1 .. k /\ Len(e) = k
  /\ \A i \in 1 .. k :
       /\ e[i].serial = q[i][2]
       /\ q[i][1] = Before(p, q, i) => e[i].issuer = "absent"
       /\ q[i][1] # Before(p, q, i) => e[i].issuer \in {"malformed", q[i][1]}
       /\ e[i].reason = "removeFromCRL" <=> ledger[n][q[i]] = "good"

\* The entries a CA writes are those.
LEMMA EntriesAre ==
  ASSUME NEW p, NEW k \in Nat, NEW q, DOMAIN q = 1 .. k, NEW n, NEW e, e = Entries(p, q, n)
  PROVE  EntryFacts(p, q, k, n, e)
<1>1. e = [i \in 1 .. k |->
             [serial |-> q[i][2],
              issuer |-> IF q[i][1] = Before(p, q, i) THEN "absent"
                         ELSE IF p.damaged THEN "malformed" ELSE q[i][1],
              reason |-> CASE ledger[n][q[i]] = "good" -> "removeFromCRL"
                           [] ledger[n][q[i]] = "hold" -> "certificateHold"
                           [] OTHER -> "keyCompromise"]]
  BY DEF Entries, Before
<1>2. DOMAIN e = 1 .. k
  BY <1>1
<1>3. Len(e) = k
  <2> DEFINE R == {e[i] : i \in 1 .. k}
  <2>1. e \in [1 .. k -> R]
    BY <1>1
  <2> HIDE DEF R
  <2> QED
    BY <2>1, LengthOf
<1>4. ASSUME NEW i \in 1 .. k
      PROVE  /\ e[i].serial = q[i][2]
             /\ q[i][1] = Before(p, q, i) => e[i].issuer = "absent"
             /\ q[i][1] # Before(p, q, i) => e[i].issuer \in {"malformed", q[i][1]}
             /\ e[i].reason = "removeFromCRL" <=> ledger[n][q[i]] = "good"
  <2>1. /\ e[i].serial = q[i][2]
        /\ e[i].issuer = IF q[i][1] = Before(p, q, i) THEN "absent"
                         ELSE IF p.damaged THEN "malformed" ELSE q[i][1]
        /\ e[i].reason = CASE ledger[n][q[i]] = "good" -> "removeFromCRL"
                           [] ledger[n][q[i]] = "hold" -> "certificateHold"
                           [] OTHER -> "keyCompromise"
    BY <1>1
  <2>2. e[i].reason = "removeFromCRL" <=> ledger[n][q[i]] = "good"
    BY <2>1
  <2> QED
    BY <2>1, <2>2
<1> QED
  BY <1>2, <1>3, <1>4 DEF EntryFacts

\* Entries that all decode up to one are about the certificates listed.
LEMMA EffectiveIs ==
  ASSUME NEW p, NEW k \in Nat, NEW q, NEW n, NEW e, EntryFacts(p, q, k, n, e),
         \A j \in 1 .. k : q[j][1] \notin {"absent", "malformed"},
         NEW i \in 1 .. k, \A j \in 1 .. i : e[j].issuer # "malformed"
  PROVE  EffectiveIssuer(e, i, p.issuer) = q[i][1]
<1> DEFINE named == {j \in 1 .. i : e[j].issuer # "absent"}
<1>1. \A j \in 1 .. i :
        /\ j \in 1 .. k
        /\ j \notin named => q[j][1] = Before(p, q, j)
        /\ j \in named => e[j].issuer = q[j][1]
  BY DEF EntryFacts
<1>2. CASE named = {}
  <2> DEFINE bad == {j \in 1 .. i : q[j][1] # p.issuer}
  <2>1. ASSUME bad # {} PROVE FALSE
    <3>1. bad \in SUBSET Nat
      OBVIOUS
    <3>2. PICK j \in bad : \A y \in bad : j <= y
      <4> HIDE DEF bad
      <4> QED
        BY <2>1, <3>1, Smallest
    <3>3. q[j][1] = Before(p, q, j) /\ q[j][1] # p.issuer /\ j \in 1 .. i
      BY <1>1, <1>2
    <3>4. j # 1 /\ q[j - 1][1] = q[j][1]
      BY <3>3 DEF Before
    <3>5. j - 1 \in 1 .. i
      BY <3>3, <3>4
    <3>6. j - 1 \in bad
      BY <3>3, <3>4, <3>5
    <3> QED
      BY <3>2, <3>3, <3>6
  <2>2. q[i][1] = p.issuer
    BY <2>1
  <2> QED
    BY <1>2, <2>2 DEF EffectiveIssuer
<1>3. CASE named # {}
  <2>1. \E x \in named : \A y \in named : y <= x
    <3>1. i \in Nat /\ named \in SUBSET (1 .. i)
      OBVIOUS
    <3> HIDE DEF named
    <3> QED
      BY <1>3, <3>1, Largest
  <2>2. PICK m : m = CHOOSE x \in named : \A y \in named : y <= x
    OBVIOUS
  <2>3. m \in named /\ \A y \in named : y <= m
    <3> HIDE DEF named
    <3> QED
      BY <2>1, <2>2
  <2>4. EffectiveIssuer(e, i, p.issuer) = e[m].issuer
    BY <1>3, <2>2 DEF EffectiveIssuer
  <2>5. m \in 1 .. i /\ e[m].issuer = q[m][1]
    BY <1>1, <2>3
  <2> DEFINE bad == {j \in m .. i : q[j][1] # q[m][1]}
  <2>6. ASSUME bad # {} PROVE FALSE
    <3>1. bad \in SUBSET Nat
      BY <2>5
    <3>2. PICK j \in bad : \A y \in bad : j <= y
      <4> HIDE DEF bad
      <4> QED
        BY <2>6, <3>1, Smallest
    <3>3. j \in m .. i /\ q[j][1] # q[m][1]
      OBVIOUS
    <3>4. j \in 1 .. i /\ j # m /\ j > m /\ j - 1 \in m .. i /\ j # 1
      BY <2>5, <3>3
    <3>5. j \notin named
      BY <2>3, <3>4
    <3>6. q[j][1] = q[j - 1][1]
      BY <1>1, <3>4, <3>5 DEF Before
    <3>7. j - 1 \in bad
      BY <3>3, <3>4, <3>6
    <3> QED
      BY <3>2, <3>4, <3>7
  <2>7. q[i][1] = q[m][1]
    BY <2>5, <2>6
  <2> QED
    BY <2>4, <2>5, <2>7
<1> QED
  BY <1>2, <1>3

\* The certificates listed have names, and unless the CRL is taken for an indirect
\* one they and the certificate asked for are the issuer's.
Listable(p, q, k, issuer, ind) ==
  /\ \A j \in 1 .. k : q[j] = <<q[j][1], q[j][2]>> /\ q[j][1] \notin {"absent", "malformed"}
  /\ ~ind => issuer = p.issuer /\ \A j \in 1 .. k : q[j][1] = p.issuer

\* What find_matching_entry may return for certificate x.
Found(f, q, k, x) ==
  /\ f \in Int
  /\ \/ f = Malformed
     \/ f = 0 /\ \A j \in 1 .. k : q[j] # x
     \/ f \in 1 .. k /\ q[f] = x

\* find_matching_entry finds what is listed: unless a name does not decode, the
\* index of the certificate, or 0 if it is not listed.
LEMMA FindIs ==
  ASSUME NEW p, NEW k \in Nat, NEW q, NEW n, NEW e, EntryFacts(p, q, k, n, e),
         NEW issuer, NEW serial, NEW ind \in BOOLEAN, Listable(p, q, k, issuer, ind),
         NEW f, f = FindMatchingEntry(e, issuer, serial, p.issuer, ind)
  PROVE  Found(f, q, k, <<issuer, serial>>)
<1> DEFINE About(i) == IF ind THEN EffectiveIssuer(e, i, p.issuer) ELSE p.issuer
<1> DEFINE matching == {i \in 1 .. k : e[i].serial = serial /\ About(i) = issuer}
<1>0. /\ \A j \in 1 .. k : q[j] = <<q[j][1], q[j][2]>> /\ q[j][1] \notin {"absent", "malformed"}
      /\ ~ind => issuer = p.issuer /\ \A j \in 1 .. k : q[j][1] = p.issuer
  BY DEF Listable
<1>1. DOMAIN e = 1 .. k /\ Len(e) = k /\ \A i \in 1 .. k : e[i].serial = q[i][2]
  BY DEF EntryFacts
<1>2. PICK first : first = IF matching = {} THEN 0
                           ELSE CHOOSE i \in matching : \A j \in matching : i <= j
  OBVIOUS
<1>3. PICK last : last = IF first = 0 THEN k ELSE first
  OBVIOUS
<1>4. f = IF ind /\ \E i \in 1 .. last : e[i].issuer = "malformed" THEN Malformed ELSE first
  BY <1>1, <1>2, <1>3 DEF FindMatchingEntry
<1>5. matching # {} => first \in matching
  <2> SUFFICES ASSUME matching # {} PROVE first \in matching
    OBVIOUS
  <2>1. matching \in SUBSET Nat
    OBVIOUS
  <2>2. \E x \in matching : \A y \in matching : x <= y
    <3> HIDE DEF matching
    <3> QED
      BY <2>1, Smallest
  <2> HIDE DEF matching
  <2> QED
    BY <1>2, <2>2
<1>6. first \in 0 .. k /\ last \in 0 .. k /\ (first = 0 <=> matching = {})
  <2>1. matching \subseteq 1 .. k
    OBVIOUS
  <2> HIDE DEF matching
  <2>2. matching = {} => first = 0
    BY <1>2
  <2>3. matching # {} => first \in 1 .. k
    BY <1>5, <2>1
  <2>4. first \in 0 .. k /\ (first = 0 <=> matching = {})
    BY <2>2, <2>3
  <2> QED
    BY <1>3, <2>4
<1>7. CASE ind /\ \E i \in 1 .. last : e[i].issuer = "malformed"
  <2>1. f = Malformed
    BY <1>4, <1>7
  <2>2. Malformed \in Int
    BY DEF Malformed
  <2> QED
    BY <2>1, <2>2 DEF Found
<1>8. CASE ~(ind /\ \E i \in 1 .. last : e[i].issuer = "malformed")
  <2>1. f = first
    BY <1>4, <1>8
  <2>2. ASSUME NEW i \in 1 .. last PROVE About(i) = q[i][1] \/ (~ind /\ issuer = p.issuer /\ q[i][1] = p.issuer)
    <3>1. i \in 1 .. k
      BY <1>6
    <3>2. CASE ind
      <4>1. \A j \in 1 .. i : e[j].issuer # "malformed"
        BY <1>6, <1>8, <3>2
      <4>2. EffectiveIssuer(e, i, p.issuer) = q[i][1]
        BY <1>0, <3>1, <4>1, EffectiveIs
      <4> QED
        BY <3>2, <4>2
    <3>3. CASE ~ind
      BY <1>0, <3>1, <3>3
    <3> QED
      BY <3>2, <3>3
  <2>3. CASE matching = {}
    <3>1. first = 0 /\ last = k
      BY <1>3, <1>6, <2>3
    <3>2. ASSUME NEW j \in 1 .. k, q[j] = <<issuer, serial>> PROVE FALSE
      <4>1. q[j][1] = issuer /\ q[j][2] = serial
        BY <3>2
      <4>2. About(j) = issuer
        BY <2>2, <3>1, <4>1
      <4>3. j \in matching
        BY <1>1, <4>1, <4>2
      <4> QED
        BY <2>3, <4>3
    <3> QED
      BY <2>1, <3>1, <3>2 DEF Found
  <2>4. CASE matching # {}
    <3>1. first \in matching /\ first \in 1 .. k /\ last = first
      BY <1>3, <1>5, <1>6, <2>4
    <3>2. q[first][2] = serial /\ About(first) = issuer
      BY <1>1, <3>1
    <3>3. q[first][1] = issuer
      BY <2>2, <3>1, <3>2
    <3>4. q[first] = <<issuer, serial>>
      BY <1>0, <3>1, <3>2, <3>3
    <3> QED
      BY <2>1, <3>1, <3>4 DEF Found
  <2> QED
    BY <2>3, <2>4
<1> QED
  BY <1>7, <1>8

\* What a CA lists, as a sequence.
LEMMA ListingIs ==
  ASSUME NEW C, IsFiniteSet(C), NEW S \in SUBSET C, NEW q \in Listings(S)
  PROVE  \E k \in Nat : /\ DOMAIN q = 1 .. k /\ \A j \in 1 .. k : q[j] \in S
                        /\ \A s \in S : \E j \in 1 .. k : q[j] = s
<1>1. IsFiniteSet(S)
  BY FS_Subset
<1>2. Cardinality(S) \in Nat
  BY <1>1, FS_CardinalityType
<1>3. q \in [1 .. Cardinality(S) -> S] /\ \A s \in S : \E j \in DOMAIN q : q[j] = s
  BY DEF Listings
<1>4. DOMAIN q = 1 .. Cardinality(S) /\ \A j \in 1 .. Cardinality(S) : q[j] \in S
  BY <1>3
<1> QED
  BY <1>2, <1>3, <1>4

Profiles == CrlProfiles \cup DeltaProfiles

\* A CRL that is not taken for an indirect one is about certificates of its issuer,
\* as the certificate asked for is.
Own(p, issuer, ind) == ~ind => issuer = p.issuer /\ \A s \in p.covers : s[1] = p.issuer

\* What f, found in CRL c of time n, tells of certificate x.
Tells(f, c, n, S, x) ==
  /\ f \in Int
  /\ \/ f = Malformed
     \/ f = 0 /\ x \notin S
     \/ /\ f > 0 /\ x \in S
        /\ c.entries[f].reason = "removeFromCRL" <=> ledger[n][x] = "good"

\* find_matching_entry in a CRL that lists S, for a certificate of an issuer the CRL
\* may be about: what it finds tells whether the certificate is in S.
LEMMA Finds ==
  ASSUME NEW p \in Profiles, NEW S \in SUBSET p.covers, NEW q \in Listings(S), NEW n, NEW base,
         NEW c, c = Document(p, n, base, q),
         NEW issuer, NEW serial, NEW ind \in BOOLEAN, Own(p, issuer, ind),
         NEW f, f = FindMatchingEntry(c.entries, issuer, serial, p.issuer, ind)
  PROVE  Tells(f, c, n, S, <<issuer, serial>>)
<1>1. /\ IsFiniteSet(p.covers)
      /\ \A s \in p.covers : s = <<s[1], s[2]>> /\ s[1] \notin {"absent", "malformed"}
  BY SourcesAssumption DEF Profiles
<1>2. PICK k \in Nat : /\ DOMAIN q = 1 .. k /\ \A j \in 1 .. k : q[j] \in S
                       /\ \A s \in S : \E j \in 1 .. k : q[j] = s
  BY <1>1, ListingIs
<1>3. PICK e : e = Entries(p, q, n)
  OBVIOUS
<1>4. c.entries = e
  BY <1>3 DEF Document
<1>5. EntryFacts(p, q, k, n, e)
  BY <1>2, <1>3, EntriesAre
<1>6. \A j \in 1 .. k : q[j] \in p.covers
  BY <1>2
<1>7. Listable(p, q, k, issuer, ind)
  BY <1>1, <1>6 DEF Listable, Own
<1>8. f = FindMatchingEntry(e, issuer, serial, p.issuer, ind)
  BY <1>4
<1>9. /\ f \in Int
      /\ \/ f = Malformed
         \/ f = 0 /\ \A j \in 1 .. k : q[j] # <<issuer, serial>>
         \/ f \in 1 .. k /\ q[f] = <<issuer, serial>>
  <2>1. Found(f, q, k, <<issuer, serial>>)
    BY <1>5, <1>7, <1>8, FindIs
  <2> QED
    BY <2>1 DEF Found
<1>10. CASE f = Malformed
  BY <1>9, <1>10 DEF Tells
<1>11. CASE f = 0 /\ \A j \in 1 .. k : q[j] # <<issuer, serial>>
  BY <1>2, <1>9, <1>11 DEF Tells
<1>12. CASE f \in 1 .. k /\ q[f] = <<issuer, serial>>
  <2>1. <<issuer, serial>> \in S /\ f > 0
    BY <1>2, <1>12
  <2>2. e[f].reason = "removeFromCRL" <=> ledger[n][q[f]] = "good"
    BY <1>5, <1>12 DEF EntryFacts
  <2>3. c.entries[f].reason = "removeFromCRL" <=> ledger[n][<<issuer, serial>>] = "good"
    BY <1>4, <1>12, <2>2
  <2> QED
    BY <1>9, <2>1, <2>3 DEF Tells
<1> QED
  BY <1>9, <1>10, <1>11, <1>12

\* with_delta: what is known of a pair of CRLs that it accepts.
LEMMA PairPassed ==
  ASSUME NEW base, NEW delta, FirstError(DeltaPairChecks(base, delta)) = "Ok"
  PROVE  /\ delta.base # None /\ base.issuer = delta.issuer
         /\ base.number # None => ~(delta.base > base.number)
<1>1. PICK s : s = DeltaPairChecks(base, delta)
  OBVIOUS
<1>2. PICK S : S = {i \in DOMAIN s : s[i][1]}
  OBVIOUS
<1>3. DOMAIN s = 1 .. 6
  BY <1>1 DEF DeltaPairChecks
<1>4. /\ s[1][2] # "Ok" /\ s[2][2] # "Ok" /\ s[3][2] # "Ok"
      /\ s[4][2] # "Ok" /\ s[5][2] # "Ok" /\ s[6][2] # "Ok"
  BY <1>1 DEF DeltaPairChecks
<1>5. \A i \in 1 .. 6 : i = 1 \/ i = 2 \/ i = 3 \/ i = 4 \/ i = 5 \/ i = 6
  OBVIOUS
<1>6. S = {}
  <2> SUFFICES ASSUME S # {} PROVE FALSE
    OBVIOUS
  <2>1. S \in SUBSET Nat /\ S \subseteq 1 .. 6
    BY <1>2, <1>3
  <2>2. PICK k : k = CHOOSE i \in S : \A j \in S : i <= j
    OBVIOUS
  <2>3. k \in S
    BY <2>1, <2>2, Smallest
  <2>4. FirstError(s) = s[k][2]
    BY <1>2, <2>2 DEF FirstError
  <2>5. s[k][2] # "Ok"
    BY <1>4, <1>5, <2>1, <2>3
  <2> QED
    BY <1>1, <2>4, <2>5
<1>7. 2 \in DOMAIN s /\ 4 \in DOMAIN s /\ 6 \in DOMAIN s
  BY <1>3
<1>8. ~s[2][1] /\ ~s[4][1] /\ ~s[6][1]
  BY <1>2, <1>6, <1>7, Zenon
<1>9. /\ s[2][1] <=> delta.base = None
      /\ s[4][1] <=> base.issuer # delta.issuer
      /\ s[6][1] <=> base.number # None /\ delta.base > base.number
  BY <1>1 DEF DeltaPairChecks
<1> QED
  BY <1>8, <1>9

-----------------------------------------------------------------------------
(***************************************************************************)
(* The invariant: a checker was built from documents issued so far, a      *)
(* delta was paired, a signer was discovered, and an answer is the one of  *)
(* that checker.                                                           *)
(***************************************************************************)
BaseIssued(c) == \E p \in Profiles, n \in 1 .. Now : c \in BaseCrls(p, n)
DeltaIssued(c) == \E p \in Profiles, b \in 1 .. Now, n \in 1 .. Now : c \in DeltaCrls(p, b, n)
Issued(c) == BaseIssued(c) \/ DeltaIssued(c)

CrlBuilt(ck) ==
  /\ ck.kind = "crl"
  /\ Issued(ck.crl)
  /\ \/ ck.delta = NoCrl
     \/ Issued(ck.delta) /\ FirstError(DeltaPairChecks(ck.crl, ck.delta)) = "Ok"
  /\ ck.discovered =>
       /\ ck.delta = NoCrl
       /\ ck.bundle \in Bundles /\ ck.crlIssuer = DiscoverCrlSigner(ck.bundle, ck.crl)
       /\ ck.crlIssuer # NoCert

OcspBuilt(ck) ==
  /\ ck.kind = "ocsp"
  /\ \E p \in OcspProfiles, n \in 1 .. Now : ck.basic = Response(p, n)
  /\ ck.now \in Int

ResultOf(ck, ee, issuer, anchored) ==
  IF ck.kind = "crl" THEN CrlCheckRevocation(ck, ee, issuer, anchored)
  ELSE OcspCheckRevocation(ck, ee, issuer)

Answered ==
  \E ee \in Certs, issuer \in Issuers, anchored \in BOOLEAN :
    answer = [cert |-> ee, issuer |-> issuer, anchored |-> anchored,
              result |-> ResultOf(checker, ee, issuer, anchored)]

LedgerKept == ledger \in Seq([Subjects -> Statuses]) /\ Len(ledger) >= 1
CheckerBuilt == checker = NoChecker \/ CrlBuilt(checker) \/ OcspBuilt(checker)
AnswerGiven == checker # NoChecker => answer = NoAnswer \/ Answered

IInv == LedgerKept /\ CheckerBuilt /\ AnswerGiven

-----------------------------------------------------------------------------
(* CRLs. *)

\* A CRL that is no delta is one of the complete ones.
LEMMA CompleteCrl ==
  ASSUME LedgerKept, NEW c, Issued(c), c.base = None
  PROVE  BaseIssued(c)
<1>1. Now \in Nat
  BY DEF LedgerKept, Now
<1>2. ASSUME NEW p \in Profiles, NEW b \in 1 .. Now, NEW n \in 1 .. Now, c \in DeltaCrls(p, b, n) PROVE FALSE
  <2>1. PICK q : c = Document(p, n, b, q)
    BY <1>2 DEF DeltaCrls
  <2>2. c.base = b
    BY <2>1 DEF Document
  <2> QED
    BY <1>1, <2>2 DEF None
<1> QED
  BY <1>2 DEF Issued, DeltaIssued

\* A CRL with a base is one of the deltas.
LEMMA DeltaCrl ==
  ASSUME NEW c, Issued(c), c.base # None
  PROVE  DeltaIssued(c)
<1>1. ASSUME NEW p \in Profiles, NEW n \in 1 .. Now, c \in BaseCrls(p, n) PROVE FALSE
  <2>1. PICK q : c = Document(p, n, None, q)
    BY <1>1 DEF BaseCrls
  <2> QED
    BY <2>1 DEF Document
<1> QED
  BY <1>1 DEF Issued, BaseIssued

\* What the two searches find decides as the CA did.
LEMMA CrlAnswers ==
  ASSUME LedgerKept, NEW ck, CrlBuilt(ck), WellPaired(ck),
         NEW ee, NEW issuer, NEW anchored \in BOOLEAN,
         NEW v, v = CrlCheckRevocation(ck, ee, issuer, anchored), v \in {"Ok", "Revoked"},
         NEW x, x = <<ee.issuer, ee.serial>>, x \in ck.crl.covers
  PROVE  v = "Ok" <=> ledger[AsOf(ck)][x] = "good"
<1>1. PICK signer : signer = SignerOf(ck, issuer)
  OBVIOUS
<1>2. PICK w : w = FirstError(SignerChecks(ck) \o IdentityChecks(ck, ee, issuer, anchored)
                              \o BaseChecks(ck, signer) \o ScopeChecks(ck, ee, signer)
                              \o DeltaChecks(ck, signer))
  OBVIOUS
<1>3. PICK ind \in BOOLEAN : ind = (ck.crlIssuer # NoCert)
  OBVIOUS
<1>4. v = IF w # "Ok" THEN w ELSE RevocationStatus(ck.crl, ck.delta, ee.issuer, ee.serial, ind)
  BY <1>1, <1>2, <1>3 DEF CrlCheckRevocation
<1>5. w = "Ok" /\ v = RevocationStatus(ck.crl, ck.delta, ee.issuer, ee.serial, ind)
  <2>1. w # "Ok" => w \in CrlErrors
    BY <1>1, <1>2, CrlVerdict
  <2>2. "Revoked" \notin CrlErrors /\ "Ok" \notin CrlErrors
    BY DEF CrlErrors
  <2>3. w = "Ok"
    BY <1>4, <2>1, <2>2
  <2> QED
    BY <1>4, <2>3
<1>6. /\ ck.crlIssuer = NoCert => ~Indirect(ck.crl)
      /\ ck.crl.issuer = signer.subject /\ issuer.subject = ee.issuer
  <2>1. /\ w = "Ok" => (ck.crlIssuer = NoCert => ~Indirect(ck.crl))
        /\ w = "Ok" => ck.crl.issuer = signer.subject
        /\ w = "Ok" => issuer.subject = ee.issuer
    BY <1>1, <1>2, CrlVerdict
  <2> QED
    BY <1>5, <2>1
<1>7. ck.crl.base = None /\ Issued(ck.crl)
  BY DEF WellPaired, CrlBuilt
<1>8. PICK p \in Profiles, n \in 1 .. Now :
        \E q \in Listings({s \in p.covers : ledger[n][s] # "good"}) : ck.crl = Document(p, n, None, q)
  <2>1. BaseIssued(ck.crl)
    BY <1>7, CompleteCrl
  <2> QED
    BY <2>1 DEF BaseIssued, BaseCrls
<1>9. PICK S : S = {s \in p.covers : ledger[n][s] # "good"}
  OBVIOUS
<1>10. PICK q \in Listings(S) : ck.crl = Document(p, n, None, q)
  BY <1>8, <1>9
<1>11. /\ ck.crl.issuer = p.issuer /\ ck.crl.covers = p.covers /\ ck.crl.this = n /\ ck.crl.idp = p.idp
       /\ ck.crl.number = IF p.numbered THEN n ELSE None
  BY <1>10 DEF Document
<1>12. ~ind => ee.issuer = p.issuer /\ \A s \in p.covers : s[1] = p.issuer
  <2> SUFFICES ASSUME ~ind PROVE ee.issuer = p.issuer /\ \A s \in p.covers : s[1] = p.issuer
    OBVIOUS
  <2>1. ck.crlIssuer = NoCert
    BY <1>3
  <2>2. ee.issuer = p.issuer
    BY <1>1, <1>6, <1>11, <2>1 DEF SignerOf
  <2>3. ~Indirect(p)
    BY <1>6, <1>11, <2>1 DEF Indirect, HasIdp
  <2>4. \A s \in p.covers : s[1] = p.issuer
    BY <2>3, SourcesAssumption DEF Profiles
  <2> QED
    BY <2>2, <2>4
<1>13. PICK b : b = FindMatchingEntry(ck.crl.entries, ee.issuer, ee.serial, p.issuer, ind)
  OBVIOUS
<1>14. S \in SUBSET p.covers
  BY <1>9
<1>15. /\ b \in Int
       /\ b = Malformed \/ (b = 0 /\ x \notin S) \/ (b > 0 /\ x \in S)
  <2>1. Own(p, ee.issuer, ind)
    BY <1>12 DEF Own
  <2>2. Tells(b, ck.crl, n, S, <<ee.issuer, ee.serial>>)
    BY <1>10, <1>13, <1>14, <2>1, Finds
  <2> QED
    BY <2>2 DEF Tells
<1>16. x \in p.covers /\ (x \in S <=> ledger[n][x] # "good")
  BY <1>9, <1>11
<1>17. CASE ck.delta = NoCrl
  <2>1. PICK d \in Int : d = 0
    OBVIOUS
  <2>2. /\ v = "Ok" => b # Malformed /\ ~(b > 0)
        /\ v = "Revoked" => b # Malformed /\ b > 0
    <3>1. d = InDelta(ck.crl, ck.delta, ee.issuer, ee.serial, ind)
      BY <1>17, <2>1 DEF InDelta
    <3>2. b = InBase(ck.crl, ee.issuer, ee.serial, ind)
      BY <1>11, <1>13 DEF InBase
    <3>3. Decides(v, ck.delta, d, b)
      BY <1>5, <1>15, <3>1, <3>2, StatusMeans
    <3> QED
      BY <2>1, <3>3 DEF Decides
  <2>3. AsOf(ck) = n
    BY <1>11, <1>17 DEF AsOf
  <2>4. v = "Ok" => x \notin S
    BY <1>15, <2>1, <2>2
  <2>5. v = "Revoked" => x \in S
    BY <1>15, <2>1, <2>2
  <2> QED
    BY <1>16, <2>3, <2>4, <2>5
<1>18. CASE ck.delta # NoCrl
  <2>1. /\ Issued(ck.delta) /\ FirstError(DeltaPairChecks(ck.crl, ck.delta)) = "Ok"
        /\ ck.crl.number # None /\ ck.crl.this <= ck.delta.this
        /\ ck.delta.covers = ck.crl.covers
    BY <1>18 DEF CrlBuilt, WellPaired
  <2>2. /\ ck.delta.base # None /\ ck.crl.issuer = ck.delta.issuer
        /\ ~(ck.delta.base > ck.crl.number)
    BY <2>1, PairPassed
  <2>3. PICK p2 \in Profiles, b2 \in 1 .. Now, n2 \in 1 .. Now :
          \E r \in Listings({s \in p2.covers : \E t \in b2 .. n2 : ledger[t][s] # ledger[b2][s]}) :
            ck.delta = Document(p2, n2, b2, r)
    <3>1. DeltaIssued(ck.delta)
      BY <2>1, <2>2, DeltaCrl
    <3> QED
      BY <3>1 DEF DeltaIssued, DeltaCrls
  <2>4. PICK S2 : S2 = {s \in p2.covers : \E t \in b2 .. n2 : ledger[t][s] # ledger[b2][s]}
    OBVIOUS
  <2>5. PICK q2 \in Listings(S2) : ck.delta = Document(p2, n2, b2, q2)
    BY <2>3, <2>4
  <2>6. /\ ck.delta.issuer = p2.issuer /\ ck.delta.covers = p2.covers
        /\ ck.delta.this = n2 /\ ck.delta.base = b2
    BY <2>5 DEF Document
  <2>7. p2.issuer = p.issuer /\ p2.covers = p.covers
    BY <1>11, <2>1, <2>2, <2>6
  <2>8. n \in b2 .. n2 /\ n2 \in b2 .. n2
    <3>1. Now \in Nat
      BY DEF LedgerKept, Now
    <3>2. ck.crl.number = n
      BY <1>11, <2>1
    <3> QED
      BY <1>11, <2>1, <2>2, <2>6, <3>1, <3>2
  <2>9. PICK d : d = FindMatchingEntry(ck.delta.entries, ee.issuer, ee.serial, p2.issuer, ind)
    OBVIOUS
  <2>10. S2 \in SUBSET p2.covers
    BY <2>4
  <2>11. ~ind => ee.issuer = p2.issuer /\ \A s \in p2.covers : s[1] = p2.issuer
    BY <1>12, <2>7
  <2>12. /\ d \in Int
         /\ \/ d = Malformed
            \/ d = 0 /\ x \notin S2
            \/ /\ d > 0 /\ x \in S2
               /\ ck.delta.entries[d].reason = "removeFromCRL" <=> ledger[n2][x] = "good"
    <3>1. Own(p2, ee.issuer, ind)
      BY <2>11 DEF Own
    <3>2. Tells(d, ck.delta, n2, S2, <<ee.issuer, ee.serial>>)
      BY <2>5, <2>9, <2>10, <3>1, Finds
    <3> QED
      BY <3>2 DEF Tells
  <2>13. /\ v = "Ok" =>
              /\ d # Malformed
              /\ d > 0 => ck.delta.entries[d].reason = "removeFromCRL"
              /\ d = 0 => b # Malformed /\ ~(b > 0)
         /\ v = "Revoked" =>
              /\ d # Malformed
              /\ \/ d > 0 /\ ck.delta.entries[d].reason # "removeFromCRL"
                 \/ d = 0 /\ b # Malformed /\ b > 0
    <3>1. d = InDelta(ck.crl, ck.delta, ee.issuer, ee.serial, ind)
      BY <1>11, <1>18, <2>7, <2>9 DEF InDelta
    <3>2. b = InBase(ck.crl, ee.issuer, ee.serial, ind)
      BY <1>11, <1>13 DEF InBase
    <3>3. Decides(v, ck.delta, d, b)
      BY <1>5, <1>15, <2>12, <3>1, <3>2, StatusMeans
    <3> QED
      BY <3>3 DEF Decides
  <2>14. AsOf(ck) = n2
    BY <1>18, <2>6 DEF AsOf
  <2>15. d # Malformed
    BY <2>13
  <2>16. CASE d = 0 /\ x \notin S2
    <3>1. \A t \in b2 .. n2 : ledger[t][x] = ledger[b2][x]
      BY <1>16, <2>4, <2>7, <2>16
    <3>2. ledger[n][x] = ledger[n2][x]
      BY <2>8, <3>1
    <3>3. v = "Ok" => x \notin S
      BY <1>15, <2>13, <2>16
    <3>4. v = "Revoked" => x \in S
      BY <1>15, <2>13, <2>16
    <3> QED
      BY <1>16, <2>14, <3>2, <3>3, <3>4
  <2>17. CASE d > 0 /\ (ck.delta.entries[d].reason = "removeFromCRL" <=> ledger[n2][x] = "good")
    <3>1. d # 0
      BY <2>12, <2>17
    <3> QED
      BY <2>13, <2>14, <2>17, <3>1
  <2> QED
    BY <2>12, <2>15, <2>16, <2>17
<1> QED
  BY <1>17, <1>18

-----------------------------------------------------------------------------
(* Signer discovery. *)

\* A signer discovered by the key identifier of the CRL has its key, if a
\* certificate of the bundle has both.
LEMMA DiscoveredKey ==
  ASSUME NEW bundle \in Bundles, NEW crl, crl.aki # None,
         NEW j \in DOMAIN bundle, bundle[j].key = crl.key, bundle[j].ski = crl.aki
  PROVE  DiscoverCrlSigner(bundle, crl).key = crl.key
<1>1. bundle \in Seq(ToSet(bundle))
  BY SourcesAssumption
<1>2. Len(bundle) \in Nat /\ DOMAIN bundle = 1 .. Len(bundle)
  BY <1>1
<1> DEFINE I == {i \in 1 .. Len(bundle) : bundle[i].ski # None /\ bundle[i].ski = crl.aki}
<1>3. j \in I
  BY <1>2
<1>4. Min(I) \in I
  <2>1. I \in SUBSET (1 .. Len(bundle)) /\ I # {}
    BY <1>3
  <2> HIDE DEF I
  <2> QED
    BY <1>2, <2>1, FirstOf
<1>5. PICK m : m = Min(I)
  BY Zenon
<1>6. m \in DOMAIN bundle /\ m # 0 /\ bundle[m].ski # None /\ bundle[m].ski = bundle[j].ski
  <2>1. m \in I
    BY <1>4, <1>5
  <2> QED
    BY <1>2, <2>1
<1>7. DiscoverCrlSigner(bundle, crl) = bundle[m]
  <2>1. I # {}
    BY <1>3
  <2> QED
    BY <1>5, <1>6, <2>1 DEF DiscoverCrlSigner, SelectInSeq
<1>8. bundle[m].key = bundle[j].key
  BY <1>6, SourcesAssumption
<1> QED
  BY <1>7, <1>8

-----------------------------------------------------------------------------
(* OCSP. *)

\* A leading list without Ok and Revoked has passed when the answer is one of them.
LEMMA Lead ==
  ASSUME NEW a \in Lists, NEW b \in Lists, NEW v, v = FirstError(a \o b), v \in {"Ok", "Revoked"},
         "Ok" \notin Errors(a), "Revoked" \notin Errors(a)
  PROVE  Failing(a) = {} /\ v = FirstError(b)
<1>1. v = IF Failing(a) = {} THEN FirstError(b) ELSE FirstError(a)
  BY Joined
<1>2. Failing(a) # {} => FirstError(a) \in Errors(a)
  BY ErrorOf
<1> QED
  BY <1>1, <1>2

\* validate_delegate_responder_cert
LEMMA DelegatePassed ==
  ASSUME NEW d, NEW subject, NEW key, NEW produced, NEW s, s = DelegateChecks(d, subject, key, produced)
  PROVE  /\ s \in Lists /\ "Ok" \notin Errors(s) /\ "Revoked" \notin Errors(s)
         /\ Failing(s) = {} =>
              /\ d.issuer = subject /\ d.eku = "ocspSigning" /\ d.signedBy = key
              /\ ~(produced < d.from) /\ ~(produced > d.to)
<1>1. PICK x1 \in BOOLEAN : x1 = (d.issuer # subject)
  OBVIOUS
<1>2. PICK x2 \in BOOLEAN : x2 = (d.eku = "malformed")
  OBVIOUS
<1>3. PICK x3 \in BOOLEAN : x3 = (d.eku # "ocspSigning")
  OBVIOUS
<1>4. PICK x4 \in BOOLEAN : x4 = (produced < d.from \/ produced > d.to)
  OBVIOUS
<1>5. PICK x5 \in BOOLEAN : x5 = (d.signedBy # key)
  OBVIOUS
<1>6. /\ "OcspResponderCertNotIssuedByCa" \in ErrorNames /\ "OcspResponderEkuMalformed" \in ErrorNames
      /\ "OcspResponderEkuMissing" \in ErrorNames /\ "OcspResponderCertExpired" \in ErrorNames
      /\ "OcspResponderCertSigInvalid" \in ErrorNames
  BY Named
<1>7. PICK a : a = << <<x1, "OcspResponderCertNotIssuedByCa">>, <<x2, "OcspResponderEkuMalformed">> >>
  OBVIOUS
<1>8. PICK b : b = << <<x3, "OcspResponderEkuMissing">>, <<x4, "OcspResponderCertExpired">>,
                      <<x5, "OcspResponderCertSigInvalid">> >>
  OBVIOUS
<1>9. /\ a \in Lists /\ Errors(a) \subseteq {"OcspResponderCertNotIssuedByCa", "OcspResponderEkuMalformed"}
      /\ Failing(a) = {} <=> ~x1 /\ ~x2
  <2>1. "OcspResponderCertNotIssuedByCa" \in ErrorNames /\ "OcspResponderEkuMalformed" \in ErrorNames
    BY <1>6
  <2> QED
    BY <1>7, <2>1, List2
<1>10. /\ b \in Lists
       /\ Errors(b) \subseteq {"OcspResponderEkuMissing", "OcspResponderCertExpired", "OcspResponderCertSigInvalid"}
       /\ Failing(b) = {} <=> ~x3 /\ ~x4 /\ ~x5
  <2>1. /\ "OcspResponderEkuMissing" \in ErrorNames /\ "OcspResponderCertExpired" \in ErrorNames
        /\ "OcspResponderCertSigInvalid" \in ErrorNames
    BY <1>6
  <2> QED
    BY <1>8, <2>1, List3, SMTT(30)
<1>11. s = a \o b
  <2>1. PICK r1 \in BOOLEAN \X ErrorNames : r1 = <<x1, "OcspResponderCertNotIssuedByCa">>
    BY <1>6, Row
  <2>2. PICK r2 \in BOOLEAN \X ErrorNames : r2 = <<x2, "OcspResponderEkuMalformed">>
    BY <1>6, Row
  <2>3. PICK r3 \in BOOLEAN \X ErrorNames : r3 = <<x3, "OcspResponderEkuMissing">>
    BY <1>6, Row
  <2>4. PICK r4 \in BOOLEAN \X ErrorNames : r4 = <<x4, "OcspResponderCertExpired">>
    BY <1>6, Row
  <2>5. PICK r5 \in BOOLEAN \X ErrorNames : r5 = <<x5, "OcspResponderCertSigInvalid">>
    BY <1>6, Row
  <2>6. s = <<r1, r2, r3, r4, r5>>
    BY <1>1, <1>2, <1>3, <1>4, <1>5, <2>1, <2>2, <2>3, <2>4, <2>5 DEF DelegateChecks
  <2>7. a = <<r1, r2>> /\ b = <<r3, r4, r5>>
    BY <1>7, <1>8, <2>1, <2>2, <2>3, <2>4, <2>5
  <2> QED
    BY <2>6, <2>7, FiveRows
<1>12. /\ s \in Lists /\ Errors(s) = Errors(a) \cup Errors(b)
       /\ Failing(s) = {} <=> Failing(a) = {} /\ Failing(b) = {}
  BY <1>9, <1>10, <1>11, Joined
<1>13. "Ok" \notin Errors(s) /\ "Revoked" \notin Errors(s)
  BY <1>9, <1>10, <1>12
<1> QED
  BY <1>1, <1>3, <1>4, <1>5, <1>9, <1>10, <1>12, <1>13

\* One check that is neither Ok nor Revoked.
LEMMA OneCheck ==
  ASSUME NEW x \in BOOLEAN, NEW e \in ErrorNames, e # "Ok", e # "Revoked", NEW s, s = << <<x, e>> >>
  PROVE  /\ s \in Lists /\ "Ok" \notin Errors(s) /\ "Revoked" \notin Errors(s)
         /\ Failing(s) = {} <=> ~x
BY List1

\* The key that verifies the response is the issuer's, or the one of a responder that
\* the issuer certified for it and that was valid when the response was made.
LEMMA SignaturePassed ==
  ASSUME NEW r, r.certs \in Seq(ToSet(r.certs)), NEW issuer, NEW s, s = SignatureChecks(r, issuer)
  PROVE  /\ s \in Lists /\ "Ok" \notin Errors(s) /\ "Revoked" \notin Errors(s)
         /\ Failing(s) = {} =>
              \/ r.key = issuer.key
              \/ \E i \in DOMAIN r.certs :
                   /\ r.certs[i].key = r.key /\ r.certs[i].issuer = issuer.subject
                   /\ r.certs[i].eku = "ocspSigning" /\ r.certs[i].signedBy = issuer.key
                   /\ ~(r.produced < r.certs[i].from) /\ ~(r.produced > r.certs[i].to)
<1>n. /\ "OcspSignatureInvalid" \in ErrorNames /\ "OcspResponderIdMismatch" \in ErrorNames
  BY Named
<1>1. CASE ResponderIdMatches(r.responder, issuer.subject, issuer.key)
  <2>1. PICK x \in BOOLEAN : x = (r.key # issuer.key)
    OBVIOUS
  <2>2. s = << <<x, "OcspSignatureInvalid">> >>
    BY <1>1, <2>1 DEF SignatureChecks
  <2>3. /\ s \in Lists /\ "Ok" \notin Errors(s) /\ "Revoked" \notin Errors(s)
        /\ Failing(s) = {} <=> ~x
    BY <1>n, <2>2, OneCheck
  <2> QED
    BY <2>1, <2>3
<1>2. CASE ~ResponderIdMatches(r.responder, issuer.subject, issuer.key) /\ Delegate(r) = 0
  <2>1. s = << <<TRUE, "OcspResponderIdMismatch">> >>
    BY <1>2 DEF SignatureChecks
  <2>2. /\ s \in Lists /\ "Ok" \notin Errors(s) /\ "Revoked" \notin Errors(s)
        /\ Failing(s) # {}
    BY <1>n, <2>1, OneCheck
  <2> QED
    BY <2>2
<1>3. CASE ~ResponderIdMatches(r.responder, issuer.subject, issuer.key) /\ Delegate(r) # 0
  <2>1. PICK i : i = Delegate(r)
    OBVIOUS
  <2>2. i \in DOMAIN r.certs
    <3>1. Len(r.certs) \in Nat /\ DOMAIN r.certs = 1 .. Len(r.certs)
      OBVIOUS
    <3> DEFINE I == {j \in 1 .. Len(r.certs) : ResponderIdMatches(r.responder, r.certs[j].subject, r.certs[j].key)}
    <3>2. i = IF I # {} THEN Min(I) ELSE 0
      BY <2>1 DEF Delegate, SelectInSeq
    <3>3. I \in SUBSET (1 .. Len(r.certs))
      OBVIOUS
    <3> HIDE DEF I
    <3>4. I # {}
      BY <1>3, <2>1, <3>2
    <3>5. i \in I
      BY <3>1, <3>2, <3>3, <3>4, FirstOf
    <3> QED
      BY <3>1, <3>3, <3>5
  <2>3. PICK a : a = DelegateChecks(r.certs[i], issuer.subject, issuer.key, r.produced)
    OBVIOUS
  <2>4. PICK x \in BOOLEAN : x = (r.key # r.certs[i].key)
    OBVIOUS
  <2>5. PICK b : b = << <<x, "OcspSignatureInvalid">> >>
    OBVIOUS
  <2>6. s = a \o b
    BY <1>3, <2>1, <2>3, <2>4, <2>5 DEF SignatureChecks
  <2>7. /\ a \in Lists /\ "Ok" \notin Errors(a) /\ "Revoked" \notin Errors(a)
        /\ Failing(a) = {} =>
             /\ r.certs[i].issuer = issuer.subject /\ r.certs[i].eku = "ocspSigning"
             /\ r.certs[i].signedBy = issuer.key
             /\ ~(r.produced < r.certs[i].from) /\ ~(r.produced > r.certs[i].to)
    BY <2>3, DelegatePassed
  <2>8. /\ b \in Lists /\ "Ok" \notin Errors(b) /\ "Revoked" \notin Errors(b)
        /\ Failing(b) = {} <=> ~x
    BY <1>n, <2>5, OneCheck
  <2>9. /\ s \in Lists /\ Errors(s) = Errors(a) \cup Errors(b)
        /\ Failing(s) = {} <=> Failing(a) = {} /\ Failing(b) = {}
    BY <2>6, <2>7, <2>8, Joined, SMTT(30)
  <2>10. "Ok" \notin Errors(s) /\ "Revoked" \notin Errors(s)
    BY <2>7, <2>8, <2>9
  <2>11. ASSUME Failing(s) = {}
         PROVE  /\ r.certs[i].key = r.key /\ r.certs[i].issuer = issuer.subject
                /\ r.certs[i].eku = "ocspSigning" /\ r.certs[i].signedBy = issuer.key
                /\ ~(r.produced < r.certs[i].from) /\ ~(r.produced > r.certs[i].to)
    BY <2>4, <2>7, <2>8, <2>9, <2>11
  <2> QED
    BY <2>2, <2>9, <2>10, <2>11
<1> QED
  BY <1>1, <1>2, <1>3

\* hash_certid_input and the comparison of both hashes.
LEMMA CertIdPassed ==
  ASSUME NEW single, NEW issuer, NEW s, s = CertIdChecks(single, issuer)
  PROVE  /\ s \in Lists /\ "Ok" \notin Errors(s) /\ "Revoked" \notin Errors(s)
         /\ Failing(s) = {} => single.issuer = issuer.subject
<1>1. PICK x1 \in BOOLEAN : x1 = (single.hash \notin Hashes)
  OBVIOUS
<1>2. PICK x2 \in BOOLEAN : x2 = (single.issuer # issuer.subject \/ single.issuerKey # issuer.key)
  OBVIOUS
<1>3. s = << <<x1, "OcspMalformed">>, <<x2, "OcspCertIdMismatch">> >>
  BY <1>1, <1>2 DEF CertIdChecks
<1>4. "OcspMalformed" \in ErrorNames /\ "OcspCertIdMismatch" \in ErrorNames
  BY Named
<1>5. /\ s \in Lists /\ Errors(s) \subseteq {"OcspMalformed", "OcspCertIdMismatch"}
      /\ Failing(s) = {} <=> ~x1 /\ ~x2
  BY <1>3, <1>4, List2
<1>6. "Ok" \notin Errors(s) /\ "Revoked" \notin Errors(s)
  BY <1>5
<1> QED
  BY <1>2, <1>5, <1>6

\* The validity windows and then the status.
LEMMA SinglePassed ==
  ASSUME NEW r, r.produced \in Int, NEW single, NEW tm \in Int, NEW s, s = SingleChecks(r, single, tm)
  PROVE  /\ s \in Lists
         /\ FirstError(s) = "Ok" => single.status # "revoked" /\ single.status # "unknown"
         /\ FirstError(s) = "Revoked" => single.status = "revoked"
<1>0. PICK made \in Int : made = r.produced
  OBVIOUS
<1>1. PICK x1 \in BOOLEAN : x1 = (tm < made)
  <2>1. (tm < made) \in BOOLEAN
    OBVIOUS
  <2> QED
    BY <2>1, Zenon
<1>2. PICK x2 \in BOOLEAN : x2 = (tm < single.this \/ single.next = None \/ tm > single.next)
  OBVIOUS
<1>3. PICK x3 \in BOOLEAN : x3 = (single.status = "revoked")
  OBVIOUS
<1>4. PICK x4 \in BOOLEAN : x4 = (single.status = "unknown")
  OBVIOUS
<1>5. PICK a : a = << <<x1, "OcspMalformed">>, <<x2, "OcspExpired">> >>
  OBVIOUS
<1>6. PICK b : b = << <<x3, "Revoked">>, <<x4, "OcspStatusUnknown">> >>
  OBVIOUS
<1>7. a \in Lists /\ Errors(a) \subseteq {"OcspMalformed", "OcspExpired"}
  <2>1. "OcspMalformed" \in ErrorNames /\ "OcspExpired" \in ErrorNames
    BY Named
  <2> QED
    BY <1>5, <2>1, List2
<1>8. /\ b \in Lists /\ Errors(b) \subseteq {"Revoked", "OcspStatusUnknown"}
      /\ Failing(b) = {} <=> ~x3 /\ ~x4
  <2>1. "Revoked" \in ErrorNames /\ "OcspStatusUnknown" \in ErrorNames
    BY Named
  <2> QED
    BY <1>6, <2>1, List2
<1>9. s = a \o b
  <2>1. /\ "OcspMalformed" \in ErrorNames /\ "OcspExpired" \in ErrorNames
        /\ "Revoked" \in ErrorNames /\ "OcspStatusUnknown" \in ErrorNames
    BY Named
  <2>2. PICK r1 \in BOOLEAN \X ErrorNames : r1 = <<x1, "OcspMalformed">>
    BY <2>1, Row
  <2>3. PICK r2 \in BOOLEAN \X ErrorNames : r2 = <<x2, "OcspExpired">>
    BY <2>1, Row
  <2>4. PICK r3 \in BOOLEAN \X ErrorNames : r3 = <<x3, "Revoked">>
    BY <2>1, Row
  <2>5. PICK r4 \in BOOLEAN \X ErrorNames : r4 = <<x4, "OcspStatusUnknown">>
    BY <2>1, Row
  <2>6. s = <<r1, r2, r3, r4>>
    BY <1>0, <1>1, <1>2, <1>3, <1>4, <2>2, <2>3, <2>4, <2>5 DEF SingleChecks
  <2>7. a = <<r1, r2>> /\ b = <<r3, r4>>
    BY <1>5, <1>6, <2>2, <2>3, <2>4, <2>5
  <2> QED
    BY <2>6, <2>7, FourRows
<1>10. s \in Lists
  BY <1>7, <1>8, <1>9, Joined
<1>11. FirstError(s) \in {"Ok", "Revoked"} => FirstError(s) = FirstError(b)
  <2>1. "Ok" \notin Errors(a) /\ "Revoked" \notin Errors(a)
    BY <1>7
  <2> QED
    BY <1>7, <1>8, <1>9, <2>1, Lead
<1>12. FirstError(b) = "Ok" => ~x3 /\ ~x4
  <2>1. "Ok" \notin Errors(b)
    BY <1>8
  <2> QED
    BY <1>8, <2>1, ErrorOf
<1>13. FirstError(b) = "Revoked" => x3
  <2> SUFFICES ASSUME FirstError(b) = "Revoked", ~x3 PROVE FALSE
    OBVIOUS
  <2>1. Failing(b) # {}
    BY <1>8, ErrorOf
  <2>2. PICK k \in Failing(b) : FirstError(b) = b[k][2]
    BY <1>8, <2>1, ErrorOf
  <2>3. k = 2
    BY <1>6, <2>2 DEF Failing
  <2> QED
    BY <1>6, <2>2, <2>3
<1> QED
  BY <1>3, <1>4, <1>10, <1>11, <1>12, <1>13

\* The answers of an OcspChecker about a response that a CA or its responder made.
LEMMA OcspAnswers ==
  ASSUME NEW p \in OcspProfiles, NEW n \in Nat, NEW ck, NEW r, r = Response(p, n), ck.basic = r, ck.now \in Int,
         NEW ee, NEW issuer \in Issuers,
         NEW v, v = OcspCheckRevocation(ck, ee, issuer), v \in {"Ok", "Revoked"},
         NEW x, x = <<ee.issuer, ee.serial>>
  PROVE  /\ \A i \in DOMAIN r.singles :
              <<r.singles[i].issuer, r.singles[i].serial>> = x =>
                (v = "Ok" <=> ledger[r.singles[i].this][x] = "good")
         /\ \/ r.key = issuer.key
            \/ \E i \in DOMAIN r.certs :
                 /\ r.certs[i].key = r.key /\ r.certs[i].signedBy = issuer.key
                 /\ r.produced \in r.certs[i].from .. r.certs[i].to
         /\ ee.issuer \in Authority[r.key]
<1>1. /\ p.covers \in Seq(Subjects) /\ p.certs \in Seq(ToSet(p.certs))
      /\ \A d \in ToSet(p.certs) :
           /\ d.from \in Int /\ d.to \in Int
           /\ \A i \in Issuers :
                d.issuer = i.subject /\ d.signedBy = i.key /\ d.eku = "ocspSigning"
                  => i.subject \in Authority[d.key]
      /\ issuer.subject \in Authority[issuer.key]
  BY SourcesAssumption
<1>2. r.certs = p.certs /\ r.key = p.key /\ r.produced = n
  BY DEF Response
<1>3. PICK m : m = Len(p.covers)
  OBVIOUS
<1>4. m \in Nat /\ DOMAIN p.covers = 1 .. m
  BY <1>1, <1>3
<1>5. r.singles = [i \in 1 .. m |->
        [serial |-> p.covers[i][2], hash |-> p.hash,
         issuer |-> p.covers[i][1], issuerKey |-> p.issuerKey[p.covers[i][1]],
         this |-> n, next |-> IF p.life = None THEN None ELSE n + p.life,
         status |-> IF p.knows = "nothing" THEN "unknown"
                    ELSE IF ledger[n][p.covers[i]] = "good" THEN "good" ELSE "revoked"]]
  BY <1>4 DEF Response
<1>6. /\ DOMAIN r.singles = 1 .. m
      /\ \A i \in 1 .. m :
           /\ r.singles[i].serial = p.covers[i][2] /\ r.singles[i].issuer = p.covers[i][1]
           /\ r.singles[i].this = n
           /\ r.singles[i].status = "revoked" => ledger[n][p.covers[i]] # "good"
           /\ r.singles[i].status # "revoked" /\ r.singles[i].status # "unknown"
                => ledger[n][p.covers[i]] = "good"
  <2>1. DOMAIN r.singles = 1 .. m
    BY <1>5
  <2>2. ASSUME NEW i \in 1 .. m
        PROVE  /\ r.singles[i].serial = p.covers[i][2] /\ r.singles[i].issuer = p.covers[i][1]
               /\ r.singles[i].this = n
               /\ r.singles[i].status = "revoked" => ledger[n][p.covers[i]] # "good"
               /\ r.singles[i].status # "revoked" /\ r.singles[i].status # "unknown"
                    => ledger[n][p.covers[i]] = "good"
    <3>1. /\ r.singles[i].serial = p.covers[i][2] /\ r.singles[i].issuer = p.covers[i][1]
          /\ r.singles[i].this = n
      BY <1>5
    <3>2. r.singles[i].status = IF p.knows = "nothing" THEN "unknown"
                                ELSE IF ledger[n][p.covers[i]] = "good" THEN "good" ELSE "revoked"
      BY <1>5
    <3> QED
      BY <3>1, <3>2
  <2> QED
    BY <2>1, <2>2
<1>7. Len(r.singles) = m
  <2> DEFINE R == {r.singles[i] : i \in 1 .. m}
  <2>1. r.singles \in [1 .. m -> R]
    BY <1>5, Zenon
  <2> HIDE DEF R
  <2> QED
    BY <1>4, <2>1, LengthOf
<1>8. PICK s : s = SelectInSeq(r.singles, LAMBDA y : y.serial = ee.serial)
  OBVIOUS
<1>9. PICK x1 \in BOOLEAN : x1 = (issuer.subject # ee.issuer)
  OBVIOUS
<1>10. PICK a : a = << <<x1, "OcspIssuerCertMismatch">> >>
  OBVIOUS
<1>11. PICK b : b = SignatureChecks(r, issuer)
  OBVIOUS
<1>12. PICK c : c = IF s = 0 THEN << <<TRUE, "OcspStatusUnknown">> >>
                    ELSE CertIdChecks(r.singles[s], issuer) \o SingleChecks(r, r.singles[s], ck.now)
  OBVIOUS
<1>13. v = FirstError(a \o b \o c)
  BY <1>8, <1>9, <1>10, <1>11, <1>12 DEF OcspCheckRevocation
<1>n. "OcspIssuerCertMismatch" \in ErrorNames /\ "OcspStatusUnknown" \in ErrorNames
  BY Named
<1>14. /\ a \in Lists /\ "Ok" \notin Errors(a) /\ "Revoked" \notin Errors(a)
       /\ Failing(a) = {} <=> ~x1
  BY <1>10, <1>n, OneCheck
<1>15. /\ b \in Lists /\ "Ok" \notin Errors(b) /\ "Revoked" \notin Errors(b)
       /\ Failing(b) = {} =>
            \/ r.key = issuer.key
            \/ \E i \in DOMAIN r.certs :
                 /\ r.certs[i].key = r.key /\ r.certs[i].issuer = issuer.subject
                 /\ r.certs[i].eku = "ocspSigning" /\ r.certs[i].signedBy = issuer.key
                 /\ ~(r.produced < r.certs[i].from) /\ ~(r.produced > r.certs[i].to)
  <2>1. r.certs \in Seq(ToSet(r.certs))
    BY <1>1, <1>2
  <2> QED
    BY <1>11, <2>1, SignaturePassed, SMTT(30)
<1>16. PICK t : t = << <<TRUE, "OcspStatusUnknown">> >>
  OBVIOUS
<1>17. t \in Lists /\ "Ok" \notin Errors(t) /\ "Revoked" \notin Errors(t) /\ Failing(t) # {}
  BY <1>16, <1>n, OneCheck
<1>18. PICK id : id = CertIdChecks(r.singles[s], issuer)
  OBVIOUS
<1>19. PICK w : w = SingleChecks(r, r.singles[s], ck.now)
  OBVIOUS
<1>20. /\ id \in Lists /\ "Ok" \notin Errors(id) /\ "Revoked" \notin Errors(id)
       /\ Failing(id) = {} => r.singles[s].issuer = issuer.subject
  BY <1>18, CertIdPassed
<1>21. /\ w \in Lists
       /\ FirstError(w) = "Ok" => r.singles[s].status # "revoked" /\ r.singles[s].status # "unknown"
       /\ FirstError(w) = "Revoked" => r.singles[s].status = "revoked"
  <2>1. r.produced \in Int
    BY <1>2
  <2> QED
    BY <1>19, <2>1, SinglePassed
<1>22. c = IF s = 0 THEN t ELSE id \o w
  BY <1>12, <1>16, <1>18, <1>19
<1>23. c \in Lists
  BY <1>17, <1>20, <1>21, <1>22, Joined
<1>24. PICK ab : ab = a \o b
  OBVIOUS
<1>25. /\ ab \in Lists /\ "Ok" \notin Errors(ab) /\ "Revoked" \notin Errors(ab)
       /\ Failing(ab) = {} <=> Failing(a) = {} /\ Failing(b) = {}
  BY <1>14, <1>15, <1>24, Joined, SMTT(30)
<1>26. Failing(ab) = {} /\ v = FirstError(c)
  BY <1>13, <1>23, <1>24, <1>25, Lead
<1>27. ~x1 /\ Failing(b) = {}
  BY <1>14, <1>25, <1>26
<1>28. issuer.subject = ee.issuer
  BY <1>9, <1>27
<1>29. s # 0
  <2> SUFFICES ASSUME s = 0 PROVE FALSE
    OBVIOUS
  <2>1. v = FirstError(t)
    BY <1>22, <1>26
  <2>2. FirstError(t) \in Errors(t)
    BY <1>17, ErrorOf
  <2> QED
    BY <1>17, <2>1, <2>2
<1>30. Failing(id) = {} /\ v = FirstError(w)
  <2>1. v = FirstError(id \o w)
    BY <1>22, <1>26, <1>29
  <2> QED
    BY <1>20, <1>21, <2>1, Lead
<1>31. s \in 1 .. m /\ r.singles[s].serial = ee.serial
  <2> DEFINE I == {j \in 1 .. m : r.singles[j].serial = ee.serial}
  <2>1. s = IF I # {} THEN Min(I) ELSE 0
    BY <1>7, <1>8 DEF SelectInSeq
  <2>2. I \in SUBSET (1 .. m)
    OBVIOUS
  <2>3. s \in I
    <3> HIDE DEF I
    <3> QED
      BY <1>4, <1>29, <2>1, <2>2, FirstOf
  <2> QED
    BY <2>3
<1>32. p.covers[s] = x
  <2>1. p.covers[s][1] = ee.issuer /\ p.covers[s][2] = ee.serial
    BY <1>6, <1>20, <1>28, <1>30, <1>31
  <2>2. p.covers[s] \in Subjects
    BY <1>1, <1>4, <1>31
  <2>3. p.covers[s] = <<p.covers[s][1], p.covers[s][2]>>
    BY <2>2, SourcesAssumption
  <2> QED
    BY <2>1, <2>3
<1>33. v = "Ok" <=> ledger[n][x] = "good"
  <2>1. PICK st : st = r.singles[s].status
    OBVIOUS
  <2>2. /\ st = "revoked" => ledger[n][x] # "good"
        /\ st # "revoked" /\ st # "unknown" => ledger[n][x] = "good"
    BY <1>6, <1>31, <1>32, <2>1
  <2>3. v = "Ok" => st # "revoked" /\ st # "unknown"
    BY <1>21, <1>30, <2>1
  <2>4. v = "Revoked" => st = "revoked"
    BY <1>21, <1>30, <2>1
  <2> QED
    BY <2>2, <2>3, <2>4
<1>34. \A i \in DOMAIN r.singles : r.singles[i].this = n
  BY <1>6
<1>35. /\ \/ r.key = issuer.key
          \/ \E i \in DOMAIN r.certs :
               /\ r.certs[i].key = r.key /\ r.certs[i].signedBy = issuer.key
               /\ r.produced \in r.certs[i].from .. r.certs[i].to
       /\ ee.issuer \in Authority[r.key]
  <2>1. CASE r.key = issuer.key
    BY <1>1, <1>28, <2>1
  <2>2. CASE r.key # issuer.key
    <3>1. PICK i \in DOMAIN r.certs :
             /\ r.certs[i].key = r.key /\ r.certs[i].issuer = issuer.subject
             /\ r.certs[i].eku = "ocspSigning" /\ r.certs[i].signedBy = issuer.key
             /\ ~(r.produced < r.certs[i].from) /\ ~(r.produced > r.certs[i].to)
      BY <1>15, <1>27, <2>2
    <3>2. PICK d : d = r.certs[i]
      OBVIOUS
    <3>3. d \in ToSet(p.certs)
      BY <1>2, <3>1, <3>2 DEF ToSet
    <3>4. d.from \in Int /\ d.to \in Int /\ issuer.subject \in Authority[d.key]
      BY <1>1, <3>1, <3>2, <3>3
    <3>5. r.produced \in d.from .. d.to
      BY <1>2, <3>1, <3>2, <3>4
    <3> QED
      BY <1>28, <3>1, <3>2, <3>4, <3>5
  <2> QED
    BY <2>1, <2>2
<1> QED
  BY <1>33, <1>34, <1>35

-----------------------------------------------------------------------------
(* The invariant holds. *)

\* Nobody has a checker at first.
LEMMA InitInv == Init => IInv
<1> SUFFICES ASSUME Init PROVE IInv
  OBVIOUS
<1>1. PICK first : first = [s \in Subjects |-> "good"]
  OBVIOUS
<1>2. first \in [Subjects -> Statuses] /\ ledger = <<first>>
  BY <1>1 DEF Init, Statuses
<1>3. LedgerKept
  BY <1>2 DEF LedgerKept
<1> QED
  BY <1>3 DEF IInv, CheckerBuilt, AnswerGiven, Init

\* The ledger grows only while there is no checker.
LEMMA ChangeStatusInv == IInv /\ ChangeStatus => IInv'
<1> SUFFICES ASSUME IInv, ChangeStatus PROVE IInv'
  OBVIOUS
<1>1. checker' = NoChecker
  BY DEF ChangeStatus
<1>2. LedgerKept'
  <2>1. PICK s \in Subjects, st \in Statuses : ledger' = Append(ledger, [ledger[Now] EXCEPT ![s] = st])
    BY DEF ChangeStatus
  <2>2. PICK l : l = ledger[Now]
    OBVIOUS
  <2>3. ledger \in Seq([Subjects -> Statuses]) /\ Len(ledger) >= 1
    BY DEF IInv, LedgerKept
  <2>4. l \in [Subjects -> Statuses]
    BY <2>2, <2>3 DEF Now
  <2>5. [l EXCEPT ![s] = st] \in [Subjects -> Statuses]
    BY <2>4
  <2>6. PICK new \in [Subjects -> Statuses] : ledger' = Append(ledger, new)
    BY <2>1, <2>2, <2>5
  <2> QED
    BY <2>3, <2>6 DEF LedgerKept
<1> QED
  BY <1>1, <1>2 DEF IInv, CheckerBuilt, AnswerGiven

\* What was issued stays issued while the ledger does not change.
LEMMA Frame ==
  ASSUME ledger' = ledger
  PROVE  /\ Now' = Now
         /\ \A c : Issued(c)' <=> Issued(c)
         /\ \A p, n : Response(p, n)' = Response(p, n)
<1>1. Now' = Now
  BY DEF Now
<1>2. ASSUME NEW p, NEW n, NEW b, NEW q PROVE Document(p, n, b, q)' = Document(p, n, b, q)
  <2>1. Entries(p, q, n)' = Entries(p, q, n)
    BY Zenon DEF Entries
  <2> QED
    BY <2>1, Zenon DEF Document
<1>3. ASSUME NEW p, NEW n PROVE BaseCrls(p, n)' = BaseCrls(p, n)
  <2>1. {s \in p.covers : ledger[n][s] # "good"}' = {s \in p.covers : ledger[n][s] # "good"}
    BY Zenon
  <2>2. PICK S : S = {s \in p.covers : ledger[n][s] # "good"}
    OBVIOUS
  <2>3. BaseCrls(p, n) = {Document(p, n, None, q) : q \in Listings(S)}
    BY <2>2 DEF BaseCrls
  <2>4. BaseCrls(p, n)' = {Document(p, n, None, q)' : q \in Listings(S)}
    BY <2>1, <2>2, Zenon DEF BaseCrls
  <2>5. {Document(p, n, None, q)' : q \in Listings(S)} = {Document(p, n, None, q) : q \in Listings(S)}
    BY <1>2
  <2> QED
    BY <2>3, <2>4, <2>5
<1>4. ASSUME NEW p, NEW b, NEW n PROVE DeltaCrls(p, b, n)' = DeltaCrls(p, b, n)
  <2>1. {s \in p.covers : \E t \in b .. n : ledger[t][s] # ledger[b][s]}'
          = {s \in p.covers : \E t \in b .. n : ledger[t][s] # ledger[b][s]}
    BY Zenon
  <2>2. PICK S : S = {s \in p.covers : \E t \in b .. n : ledger[t][s] # ledger[b][s]}
    OBVIOUS
  <2>3. DeltaCrls(p, b, n) = {Document(p, n, b, q) : q \in Listings(S)}
    BY <2>2 DEF DeltaCrls
  <2>4. DeltaCrls(p, b, n)' = {Document(p, n, b, q)' : q \in Listings(S)}
    BY <2>1, <2>2, Zenon DEF DeltaCrls
  <2>5. {Document(p, n, b, q)' : q \in Listings(S)} = {Document(p, n, b, q) : q \in Listings(S)}
    BY <1>2
  <2> QED
    BY <2>3, <2>4, <2>5
<1>5. ASSUME NEW c PROVE Issued(c)' <=> Issued(c)
  BY <1>1, <1>3, <1>4 DEF Issued, BaseIssued, DeltaIssued
<1>6. ASSUME NEW p, NEW n PROVE Response(p, n)' = Response(p, n)
  BY Zenon DEF Response
<1> QED
  BY <1>1, <1>5, <1>6

\* A constructor that returns a checker of issued documents keeps the invariant.
LEMMA ConstructInv ==
  ASSUME IInv, NEW checks, NEW ck, Construct(checks, ck),
         FirstError(checks) = "Ok" => CrlBuilt(ck) \/ OcspBuilt(ck)
  PROVE  IInv'
<1>1. ledger' = ledger
  BY DEF Construct
<1>2. LedgerKept'
  BY <1>1 DEF IInv, LedgerKept
<1>3. CASE FirstError(checks) = "Ok"
  <2>1. checker' = ck /\ answer' = NoAnswer
    BY <1>3 DEF Construct
  <2>2. CrlBuilt(checker)' \/ OcspBuilt(checker)'
    <3>1. CASE CrlBuilt(ck)
      BY <1>1, <2>1, <3>1, Frame DEF CrlBuilt
    <3>2. CASE OcspBuilt(ck)
      BY <1>1, <2>1, <3>2, Frame DEF OcspBuilt
    <3> QED
      BY <1>3, <3>1, <3>2
  <2> QED
    BY <1>2, <2>1, <2>2 DEF IInv, CheckerBuilt, AnswerGiven
<1>4. CASE FirstError(checks) # "Ok"
  <2>1. checker' = NoChecker
    BY <1>4 DEF Construct
  <2> QED
    BY <1>2, <2>1 DEF IInv, CheckerBuilt, AnswerGiven
<1> QED
  BY <1>3, <1>4

\* The documents a caller has were issued.
LEMMA CallersDocuments ==
  /\ \A c \in AllCrls : Issued(c)
  /\ \A c \in AllBases : Issued(c)
  /\ \A c \in DeltaCandidates : Issued(c)
  /\ \A c \in BasesOf(DeltaProfiles) : Issued(c)
<1>1. ASSUME NEW P \in SUBSET Profiles, NEW c \in BasesOf(P) PROVE Issued(c)
  BY DEF BasesOf, Issued, BaseIssued
<1>2. ASSUME NEW P \in SUBSET Profiles, NEW c \in DeltasOf(P) PROVE Issued(c)
  <2>1. PICK p \in P, bn \in {x \in (1 .. Now) \X (1 .. Now) : x[1] < x[2]} : c \in DeltaCrls(p, bn[1], bn[2])
    BY DEF DeltasOf
  <2>2. bn[1] \in 1 .. Now /\ bn[2] \in 1 .. Now
    OBVIOUS
  <2> QED
    BY <2>1, <2>2 DEF Issued, DeltaIssued
<1>3. CrlProfiles \in SUBSET Profiles /\ DeltaProfiles \in SUBSET Profiles
  BY DEF Profiles
<1> QED
  BY <1>1, <1>2, <1>3 DEF AllCrls, AllBases, DeltaCandidates

\* Each constructor keeps the invariant.
LEMMA BuildInv == IInv /\ Build => IInv'
<1> SUFFICES ASSUME IInv, Build PROVE IInv'
  OBVIOUS
<1>1. PICK tm \in Clocks :
        \/ \E crl \in AllCrls : New(crl, tm)
        \/ \E crl \in AllBases, ci \in CrlIssuers : NewWithCrlIssuer(crl, ci, tm)
        \/ \E crl \in AllBases, b \in Bundles : NewWithSignerDiscovery(crl, b, tm)
        \/ \E base \in DeltaCandidates, delta \in DeltaCandidates : WithDelta(base, delta, tm)
        \/ \E base \in BasesOf(DeltaProfiles), delta \in DeltaCandidates, ci \in CrlIssuers :
             WithDeltaAndCrlIssuer(base, delta, ci, tm)
        \/ \E p \in OcspProfiles, n \in 1 .. Now : NewOcsp(Response(p, n), tm)
  BY DEF Build
<1>2. ASSUME NEW crl \in AllCrls, New(crl, tm) PROVE IInv'
  <2>1. CrlBuilt(CrlCk(crl, NoCrl, NoCert, FALSE, tm, <<>>))
    BY CallersDocuments DEF CrlBuilt, CrlCk
  <2> QED
    BY <1>2, <2>1, ConstructInv DEF New
<1>3. ASSUME NEW crl \in AllBases, NEW ci \in CrlIssuers, NewWithCrlIssuer(crl, ci, tm) PROVE IInv'
  <2>1. CrlBuilt(CrlCk(crl, NoCrl, ci, FALSE, tm, <<>>))
    BY CallersDocuments DEF CrlBuilt, CrlCk
  <2> QED
    BY <1>3, <2>1, ConstructInv DEF NewWithCrlIssuer
<1>4. ASSUME NEW crl \in AllBases, NEW b \in Bundles, NewWithSignerDiscovery(crl, b, tm) PROVE IInv'
  <2>1. PICK signer : signer = DiscoverCrlSigner(b, crl)
    OBVIOUS
  <2>2. FirstError(DiscoveryChecks(b, crl)) = "Ok" => signer # NoCert
    <3> SUFFICES ASSUME signer = NoCert PROVE FirstError(DiscoveryChecks(b, crl)) # "Ok"
      OBVIOUS
    <3>1. PICK s : s = << <<TRUE, "CrlSignerNotFound">> >>
      OBVIOUS
    <3>2. DiscoveryChecks(b, crl) = s
      BY <2>1, <3>1 DEF DiscoveryChecks
    <3>3. "CrlSignerNotFound" \in ErrorNames
      BY Named
    <3>4. s \in Lists /\ "Ok" \notin Errors(s) /\ Failing(s) # {}
      BY <3>1, <3>3, OneCheck
    <3>5. FirstError(s) \in Errors(s)
      BY <3>4, ErrorOf
    <3> QED
      BY <3>2, <3>4, <3>5
  <2>3. ASSUME signer # NoCert PROVE CrlBuilt(CrlCk(crl, NoCrl, signer, TRUE, tm, b))
    BY <2>1, <2>3, CallersDocuments DEF CrlBuilt, CrlCk
  <2> QED
    BY <1>4, <2>1, <2>2, <2>3, ConstructInv DEF NewWithSignerDiscovery
<1>5. ASSUME NEW base \in DeltaCandidates, NEW delta \in DeltaCandidates, WithDelta(base, delta, tm) PROVE IInv'
  <2>1. ASSUME FirstError(DeltaPairChecks(base, delta)) = "Ok"
        PROVE  CrlBuilt(CrlCk(base, delta, NoCert, FALSE, tm, <<>>))
    BY <2>1, CallersDocuments DEF CrlBuilt, CrlCk
  <2> QED
    BY <1>5, <2>1, ConstructInv DEF WithDelta
<1>6. ASSUME NEW base \in BasesOf(DeltaProfiles), NEW delta \in DeltaCandidates, NEW ci \in CrlIssuers,
             WithDeltaAndCrlIssuer(base, delta, ci, tm)
      PROVE  IInv'
  <2>1. ASSUME FirstError(DeltaPairChecks(base, delta)) = "Ok"
        PROVE  CrlBuilt(CrlCk(base, delta, ci, FALSE, tm, <<>>))
    BY <2>1, CallersDocuments DEF CrlBuilt, CrlCk
  <2> QED
    BY <1>6, <2>1, ConstructInv DEF WithDeltaAndCrlIssuer
<1>7. ASSUME NEW p \in OcspProfiles, NEW n \in 1 .. Now, NewOcsp(Response(p, n), tm) PROVE IInv'
  <2>1. PICK r : r = Response(p, n)
    OBVIOUS
  <2>2. tm \in Int
    BY DEF Clocks
  <2>3. OcspBuilt([kind |-> "ocsp", basic |-> r, now |-> tm])
    BY <2>1, <2>2 DEF OcspBuilt
  <2> QED
    BY <1>7, <2>1, <2>3, ConstructInv DEF NewOcsp
<1> QED
  BY <1>1, <1>2, <1>3, <1>4, <1>5, <1>6, <1>7

\* An answer is the one of the checker.
LEMMA AskInv == IInv /\ Ask => IInv'
<1> SUFFICES ASSUME IInv, Ask PROVE IInv'
  OBVIOUS
<1>1. PICK ee \in Certs, issuer \in Issuers, anchored \in BOOLEAN : CheckRevocation(ee, issuer, anchored)
  BY DEF Ask
<1>2. ledger' = ledger /\ checker' = checker
  BY <1>1 DEF CheckRevocation
<1>3. LedgerKept' /\ CheckerBuilt'
  <2>1. LedgerKept'
    BY <1>2 DEF IInv, LedgerKept
  <2>2. CheckerBuilt'
    <3>1. CheckerBuilt
      BY DEF IInv
    <3> QED
      BY <1>2, <3>1, Frame DEF CheckerBuilt, CrlBuilt, OcspBuilt
  <2> QED
    BY <2>1, <2>2
<1>4. answer' = [cert |-> ee, issuer |-> issuer, anchored |-> anchored,
                 result |-> ResultOf(checker, ee, issuer, anchored)]
  BY <1>1 DEF CheckRevocation, ResultOf
<1>5. Answered'
  BY <1>2, <1>4 DEF Answered
<1> QED
  BY <1>3, <1>5 DEF IInv, AnswerGiven

\* IInv is an invariant of the specification.
LEMMA Invariance == Spec => []IInv
<1>1. IInv /\ [Next]_vars => IInv'
  <2> SUFFICES ASSUME IInv, [Next]_vars PROVE IInv'
    OBVIOUS
  <2>1. CASE UNCHANGED vars
    <3>1. ledger' = ledger /\ checker' = checker /\ answer' = answer
      BY <2>1 DEF vars
    <3>2. CheckerBuilt'
      BY <3>1, Frame DEF IInv, CheckerBuilt, CrlBuilt, OcspBuilt
    <3>3. LedgerKept' /\ AnswerGiven'
      BY <3>1 DEF IInv, LedgerKept, AnswerGiven, Answered
    <3> QED
      BY <3>2, <3>3 DEF IInv
  <2> QED
    BY <2>1, ChangeStatusInv, BuildInv, AskInv DEF Next
<1> QED
  BY <1>1, InitInv, PTL DEF Spec

-----------------------------------------------------------------------------
(* The three properties. *)

\* An answer is the result of a checker about a certificate.
LEMMA AnswerIs ==
  ASSUME IInv, checker # NoChecker, answer.result # "none"
  PROVE  \E ee \in Certs, issuer \in Issuers, anchored \in BOOLEAN :
           /\ answer.cert = ee /\ answer.issuer = issuer
           /\ answer.result = ResultOf(checker, ee, issuer, anchored)
BY DEF IInv, AnswerGiven, Answered, NoAnswer

\* The entries never make a call fail for a signature.
LEMMA StatusNames ==
  ASSUME NEW base, NEW delta, NEW issuer, NEW serial, NEW ind,
         NEW v, v = RevocationStatus(base, delta, issuer, serial, ind)
  PROVE  v # "CrlSignatureInvalid"
<1>1. PICK d : d = InDelta(base, delta, issuer, serial, ind)
  OBVIOUS
<1>2. PICK b : b = InBase(base, issuer, serial, ind)
  OBVIOUS
<1>3. PICK x1 \in BOOLEAN : x1 = (d = Malformed)
  OBVIOUS
<1>4. PICK x2 \in BOOLEAN : x2 = (d > 0 /\ delta.entries[d].reason # "removeFromCRL")
  OBVIOUS
<1>5. PICK x3 \in BOOLEAN : x3 = (d = 0 /\ b = Malformed)
  OBVIOUS
<1>6. PICK x4 \in BOOLEAN : x4 = (d = 0 /\ b > 0)
  OBVIOUS
<1>7. PICK s : s = << <<x1, "CrlParseError">>, <<x2, "Revoked">>, <<x3, "CrlParseError">>, <<x4, "Revoked">> >>
  OBVIOUS
<1>8. v = FirstError(s)
  BY <1>1, <1>2, <1>3, <1>4, <1>5, <1>6, <1>7 DEF RevocationStatus, InDelta, InBase
<1>9. "CrlParseError" \in ErrorNames /\ "Revoked" \in ErrorNames
  BY Named
<1>10. s \in Lists /\ Errors(s) \subseteq {"CrlParseError", "Revoked", "CrlParseError", "Revoked"}
  BY <1>7, <1>9, List4, SMTT(30)
<1>11. FirstError(s) = "Ok" \/ FirstError(s) \in Errors(s)
  BY <1>10, ErrorOf
<1> QED
  BY <1>8, <1>10, <1>11

\* What a decisive answer of a CrlChecker says of the signer, and what a failed
\* signature says.
LEMMA CrlSigner ==
  ASSUME NEW ck, NEW ee, NEW issuer, NEW anchored \in BOOLEAN,
         NEW v, v = CrlCheckRevocation(ck, ee, issuer, anchored)
  PROVE  /\ v \in {"Ok", "Revoked"} =>
              /\ issuer.subject = ee.issuer
              /\ ck.crl.key = SignerOf(ck, issuer).key
              /\ ck.delta = NoCrl \/ ck.delta.key = ck.crl.key
         /\ (v = "CrlSignatureInvalid" /\ ck.delta = NoCrl) => ck.crl.key # SignerOf(ck, issuer).key
<1>1. PICK signer : signer = SignerOf(ck, issuer)
  OBVIOUS
<1>2. PICK w : w = FirstError(SignerChecks(ck) \o IdentityChecks(ck, ee, issuer, anchored)
                              \o BaseChecks(ck, signer) \o ScopeChecks(ck, ee, signer)
                              \o DeltaChecks(ck, signer))
  OBVIOUS
<1>3. PICK u : u = RevocationStatus(ck.crl, ck.delta, ee.issuer, ee.serial, ck.crlIssuer # NoCert)
  OBVIOUS
<1>4. v = IF w # "Ok" THEN w ELSE u
  BY <1>1, <1>2, <1>3 DEF CrlCheckRevocation
<1>5. /\ w # "Ok" => w \in CrlErrors
      /\ w = "Ok" =>
           /\ issuer.subject = ee.issuer /\ ck.crl.key = signer.key
           /\ ck.delta = NoCrl \/ ck.delta.key = signer.key
      /\ w = "CrlSignatureInvalid" /\ ck.delta = NoCrl => ck.crl.key # signer.key
  BY <1>1, <1>2, CrlVerdict
<1>6. "Revoked" \notin CrlErrors /\ "Ok" \notin CrlErrors
  BY DEF CrlErrors
<1>7. u # "CrlSignatureInvalid"
  BY <1>3, StatusNames
<1>8. v \in {"Ok", "Revoked"} => w = "Ok"
  BY <1>4, <1>5, <1>6
<1>9. v = "CrlSignatureInvalid" => w = "CrlSignatureInvalid"
  BY <1>4, <1>7
<1> QED
  BY <1>1, <1>5, <1>8, <1>9

\* A checker is one of the two kinds.
LEMMA Kind ==
  ASSUME IInv, checker # NoChecker
  PROVE  \/ CrlBuilt(checker) /\ checker.kind = "crl"
         \/ OcspBuilt(checker) /\ checker.kind = "ocsp"
BY DEF IInv, CheckerBuilt, CrlBuilt, OcspBuilt

\* What an OcspChecker built from an issued response answers.
LEMMA OcspDecided ==
  ASSUME IInv, Decisive, checker.kind = "ocsp"
  PROVE  /\ \A i \in DOMAIN checker.basic.singles :
              <<checker.basic.singles[i].issuer, checker.basic.singles[i].serial>> = Asked =>
                (answer.result = "Ok" <=> ledger[checker.basic.singles[i].this][Asked] = "good")
         /\ \/ checker.basic.key = answer.issuer.key
            \/ \E i \in DOMAIN checker.basic.certs :
                 /\ checker.basic.certs[i].key = checker.basic.key
                 /\ checker.basic.certs[i].signedBy = answer.issuer.key
                 /\ checker.basic.produced \in checker.basic.certs[i].from .. checker.basic.certs[i].to
         /\ answer.cert.issuer \in Authority[checker.basic.key]
<1>1. checker # NoChecker /\ answer.result \in {"Ok", "Revoked"}
  BY DEF Decisive
<1>2. PICK ee \in Certs, issuer \in Issuers, anchored \in BOOLEAN :
        /\ answer.cert = ee /\ answer.issuer = issuer
        /\ answer.result = ResultOf(checker, ee, issuer, anchored)
  BY <1>1, AnswerIs
<1>3. PICK v : v = answer.result
  OBVIOUS
<1>4. v = OcspCheckRevocation(checker, ee, issuer) /\ v \in {"Ok", "Revoked"}
  BY <1>1, <1>2, <1>3 DEF ResultOf
<1>5. OcspBuilt(checker)
  BY <1>1, Kind
<1>6. PICK p \in OcspProfiles, n \in 1 .. Now : checker.basic = Response(p, n)
  BY <1>5 DEF OcspBuilt
<1>7. checker.now \in Int
  BY <1>5 DEF OcspBuilt
<1>8. n \in Nat
  BY DEF IInv, LedgerKept, Now
<1>9. PICK r : r = Response(p, n)
  OBVIOUS
<1>10. PICK ck : ck = checker
  OBVIOUS
<1>11. PICK x : x = <<ee.issuer, ee.serial>>
  OBVIOUS
<1>12. checker.basic = r /\ Asked = x
  BY <1>2, <1>6, <1>9, <1>11 DEF Asked
<1>13. /\ \A i \in DOMAIN r.singles :
             <<r.singles[i].issuer, r.singles[i].serial>> = x =>
               (v = "Ok" <=> ledger[r.singles[i].this][x] = "good")
       /\ \/ r.key = issuer.key
          \/ \E i \in DOMAIN r.certs :
               /\ r.certs[i].key = r.key /\ r.certs[i].signedBy = issuer.key
               /\ r.produced \in r.certs[i].from .. r.certs[i].to
       /\ ee.issuer \in Authority[r.key]
  BY <1>4, <1>7, <1>8, <1>9, <1>10, <1>11, <1>12, OcspAnswers, SMTT(30)
<1> QED
  BY <1>2, <1>3, <1>12, <1>13

(***************************************************************************)
(* A decisive answer of an OcspChecker is what the CA had decided about    *)
(* that very certificate, made by the CA or by a responder whose           *)
(* certificate was valid then.  About ocsp.rs: matching of the CertID and  *)
(* verify_response_signature with its delegate.                            *)
(***************************************************************************)
THEOREM OcspExact == Spec => []OcspAnswersTheLedger
<1>1. IInv => OcspAnswersTheLedger
  BY OcspDecided DEF OcspAnswersTheLedger
<1> QED
  BY <1>1, Invariance, PTL

(***************************************************************************)
(* A decisive answer of a CrlChecker about a certificate its CRL covers is *)
(* what the CA had decided when the newest CRL of the checker was issued,  *)
(* for every ledger, every order of entries and every pairing the          *)
(* constructors accept.  About crl.rs: with_delta, revocation_status and   *)
(* find_matching_entry.                                                    *)
(***************************************************************************)
THEOREM CrlExact == Spec => []CrlAnswersTheLedger
<1>1. IInv => CrlAnswersTheLedger
  <2> SUFFICES ASSUME IInv, Decisive, checker.kind = "crl", WellPaired(checker), Asked \in checker.crl.covers
               PROVE  answer.result = "Ok" <=> ledger[AsOf(checker)][Asked] = "good"
    BY DEF CrlAnswersTheLedger
  <2>1. checker # NoChecker /\ answer.result \in {"Ok", "Revoked"}
    BY DEF Decisive
  <2>2. PICK ee \in Certs, issuer \in Issuers, anchored \in BOOLEAN :
          /\ answer.cert = ee /\ answer.issuer = issuer
          /\ answer.result = ResultOf(checker, ee, issuer, anchored)
    BY <2>1, AnswerIs
  <2>3. PICK v : v = answer.result
    OBVIOUS
  <2>4. v = CrlCheckRevocation(checker, ee, issuer, anchored) /\ v \in {"Ok", "Revoked"}
    BY <2>1, <2>2, <2>3 DEF ResultOf
  <2>5. CrlBuilt(checker)
    BY <2>1, Kind
  <2>6. PICK x : x = <<ee.issuer, ee.serial>>
    OBVIOUS
  <2>7. Asked = x
    BY <2>2, <2>6 DEF Asked
  <2>8. LedgerKept
    BY DEF IInv
  <2>9. v = "Ok" <=> ledger[AsOf(checker)][x] = "good"
    BY <2>4, <2>5, <2>6, <2>7, <2>8, CrlAnswers
  <2> QED
    BY <2>3, <2>7, <2>9
<1> QED
  BY <1>1, Invariance, PTL

(***************************************************************************)
(* The documents behind a decisive answer are signed by a key that may     *)
(* speak for the certificate's CA, and a signer found by key identifier in *)
(* a bundle is the one that signed.  About check_revocation of both        *)
(* checkers and discover_crl_signer.                                       *)
(***************************************************************************)
THEOREM SignerSelection == Spec => []SignersAreRight
<1>1. IInv => AnswersAreAuthentic
  <2> SUFFICES ASSUME IInv, Decisive PROVE AnswersAreAuthentic
    BY DEF AnswersAreAuthentic
  <2>1. checker # NoChecker /\ answer.result \in {"Ok", "Revoked"}
    BY DEF Decisive
  <2>2. CASE checker.kind = "ocsp"
    BY <2>2, OcspDecided DEF AnswersAreAuthentic
  <2>3. CASE checker.kind = "crl"
    <3>1. PICK ee \in Certs, issuer \in Issuers, anchored \in BOOLEAN :
            /\ answer.cert = ee /\ answer.issuer = issuer
            /\ answer.result = ResultOf(checker, ee, issuer, anchored)
      BY <2>1, AnswerIs
    <3>2. PICK v : v = CrlCheckRevocation(checker, ee, issuer, anchored)
      OBVIOUS
    <3>3. v \in {"Ok", "Revoked"}
      BY <2>1, <2>3, <3>1, <3>2 DEF ResultOf
    <3>4. /\ issuer.subject = ee.issuer
          /\ checker.crl.key = SignerOf(checker, issuer).key
          /\ checker.delta = NoCrl \/ checker.delta.key = checker.crl.key
      BY <3>2, <3>3, CrlSigner
    <3>5. issuer.subject \in Authority[issuer.key]
      BY SourcesAssumption
    <3>6. checker.crlIssuer # NoCert \/ ee.issuer \in Authority[checker.crl.key]
      BY <3>4, <3>5 DEF SignerOf
    <3> QED
      BY <2>3, <3>1, <3>4, <3>6 DEF AnswersAreAuthentic
  <2> QED
    BY <2>1, <2>2, <2>3, Kind
<1>2. IInv => DiscoveryFindsTheSigner
  <2> SUFFICES ASSUME IInv, answer.result = "CrlSignatureInvalid", checker.kind = "crl",
                      checker.discovered, checker.crl.aki # None,
                      NEW i \in DOMAIN checker.bundle,
                      checker.bundle[i].key = checker.crl.key, checker.bundle[i].ski = checker.crl.aki
               PROVE  FALSE
    BY DEF DiscoveryFindsTheSigner
  <2>1. checker # NoChecker
    BY DEF NoChecker
  <2>2. PICK ee \in Certs, issuer \in Issuers, anchored \in BOOLEAN :
          /\ answer.cert = ee /\ answer.issuer = issuer
          /\ answer.result = ResultOf(checker, ee, issuer, anchored)
    BY <2>1, AnswerIs
  <2>3. PICK v : v = CrlCheckRevocation(checker, ee, issuer, anchored)
    OBVIOUS
  <2>4. v = "CrlSignatureInvalid"
    BY <2>2, <2>3 DEF ResultOf
  <2>5. CrlBuilt(checker)
    BY <2>1, Kind
  <2>6. /\ checker.delta = NoCrl /\ checker.bundle \in Bundles
        /\ checker.crlIssuer = DiscoverCrlSigner(checker.bundle, checker.crl)
        /\ checker.crlIssuer # NoCert
    BY <2>5 DEF CrlBuilt
  <2>7. SignerOf(checker, issuer) = checker.crlIssuer
    BY <2>6 DEF SignerOf
  <2>8. checker.crl.key # SignerOf(checker, issuer).key
    BY <2>3, <2>4, <2>6, CrlSigner
  <2>9. PICK bundle \in Bundles : bundle = checker.bundle
    BY <2>6
  <2>10. PICK crl : crl = checker.crl
    OBVIOUS
  <2>11. i \in DOMAIN bundle /\ bundle[i].key = crl.key /\ bundle[i].ski = crl.aki /\ crl.aki # None
    BY <2>9, <2>10
  <2>12. DiscoverCrlSigner(bundle, crl).key = crl.key
    BY <2>11, DiscoveredKey
  <2> QED
    BY <2>6, <2>7, <2>8, <2>9, <2>10, <2>12
<1>3. IInv => SignersAreRight
  BY <1>1, <1>2 DEF SignersAreRight
<1> QED
  BY <1>3, Invariance, PTL

-----------------------------------------------------------------------------
(* The first check that fails. *)

\* The smallest position of a failing check decides.
LEMMA FirstFails ==
  ASSUME NEW checks, NEW k \in Int, k \in Failing(checks), \A j \in Failing(checks) : j \in Int /\ k <= j
  PROVE  FirstError(checks) = checks[k][2]
<1>1. PICK x : x = CHOOSE i \in Failing(checks) : \A j \in Failing(checks) : i <= j
  OBVIOUS
<1>2. x \in Failing(checks) /\ \A j \in Failing(checks) : x <= j
  BY <1>1
<1>3. x = k
  BY <1>2
<1> QED
  BY <1>1, <1>3 DEF FirstError, Failing

\* Without a failing check there is no error.
LEMMA NoneFails ==
  ASSUME NEW checks, Failing(checks) = {}
  PROVE  FirstError(checks) = "Ok"
BY DEF FirstError, Failing

\* Which checks of a list of n fail.
LEMMA FailingOf ==
  ASSUME NEW checks, NEW n \in Nat, DOMAIN checks = 1 .. n
  PROVE  Failing(checks) \subseteq 1 .. n /\ \A i \in 1 .. n : i \in Failing(checks) <=> checks[i][1]
BY DEF Failing

\* What each verdict on a document means.
LEMMA VerdictMeans ==
  ASSUME NEW d, NEW serial, NEW t, NEW v, v = Verdict(d, serial, t)
  PROVE  /\ v \in {"Ok", "StatusUnknown", "NotYetValid", "Expired", "Revoked"}
         /\ v = "Ok" =>
              /\ d.form # "empty" /\ d.serial = serial /\ ~(t < d.this)
              /\ d.next # None /\ ~(t > d.next) /\ ~d.revoked
         /\ v = "StatusUnknown" => d.form = "empty" \/ d.serial # serial
         /\ v = "Expired" => d.next = None \/ t > d.next
<1>1. PICK s : s = << <<d.form = "empty", "StatusUnknown">>,
                      <<d.serial # serial, "StatusUnknown">>,
                      <<t < d.this, "NotYetValid">>,
                      <<d.next = None \/ t > d.next, "Expired">>,
                      <<d.revoked, "Revoked">> >>
  OBVIOUS
<1>2. v = FirstError(s)
  BY <1>1 DEF Verdict
<1>3. DOMAIN s = 1 .. 5
  BY <1>1
<1>4. Failing(s) \subseteq 1 .. 5 /\ \A i \in 1 .. 5 : i \in Failing(s) <=> s[i][1]
  BY <1>3, FailingOf
<1>5. 1 \in Failing(s) <=> d.form = "empty"
  <2>1. s[1][1] <=> d.form = "empty"
    BY <1>1
  <2> QED
    BY <1>4, <2>1
<1>6. 2 \in Failing(s) <=> d.serial # serial
  <2>1. s[2][1] <=> d.serial # serial
    BY <1>1
  <2> QED
    BY <1>4, <2>1
<1>7. 3 \in Failing(s) <=> t < d.this
  <2>1. s[3][1] <=> t < d.this
    BY <1>1
  <2> QED
    BY <1>4, <2>1
<1>8. 4 \in Failing(s) <=> (d.next = None \/ t > d.next)
  <2>1. s[4][1] <=> (d.next = None \/ t > d.next)
    BY <1>1
  <2> QED
    BY <1>4, <2>1
<1>9. 5 \in Failing(s) <=> d.revoked
  <2>1. s[5][1] <=> d.revoked
    BY <1>1
  <2> QED
    BY <1>4, <2>1
<1>10. /\ s[1][2] = "StatusUnknown" /\ s[2][2] = "StatusUnknown" /\ s[3][2] = "NotYetValid"
       /\ s[4][2] = "Expired" /\ s[5][2] = "Revoked"
  BY <1>1
<1>11. CASE 1 \in Failing(s)
  <2>1. v = s[1][2]
    BY <1>2, <1>4, <1>11, FirstFails
  <2> QED
    BY <1>5, <1>10, <1>11, <2>1
<1>12. CASE 1 \notin Failing(s) /\ 2 \in Failing(s)
  <2>1. v = s[2][2]
    BY <1>2, <1>4, <1>12, FirstFails
  <2> QED
    BY <1>6, <1>10, <1>12, <2>1
<1>13. CASE 1 \notin Failing(s) /\ 2 \notin Failing(s) /\ 3 \in Failing(s)
  <2>1. v = s[3][2]
    BY <1>2, <1>4, <1>13, FirstFails
  <2> QED
    BY <1>10, <2>1
<1>14. CASE 1 \notin Failing(s) /\ 2 \notin Failing(s) /\ 3 \notin Failing(s) /\ 4 \in Failing(s)
  <2>1. v = s[4][2]
    BY <1>2, <1>4, <1>14, FirstFails
  <2> QED
    BY <1>8, <1>10, <1>14, <2>1
<1>15. CASE Failing(s) = {5}
  <2>1. v = s[5][2]
    BY <1>2, <1>15, FirstFails
  <2> QED
    BY <1>10, <2>1
<1>16. CASE Failing(s) = {}
  <2>1. v = "Ok"
    BY <1>2, <1>16, NoneFails
  <2> QED
    BY <1>5, <1>6, <1>7, <1>8, <1>9, <1>16, <2>1
<1>17. \/ 1 \in Failing(s) \/ 2 \in Failing(s) \/ 3 \in Failing(s) \/ 4 \in Failing(s)
       \/ Failing(s) = {5} \/ Failing(s) = {}
  BY <1>4
<1> QED
  BY <1>11, <1>12, <1>13, <1>14, <1>15, <1>16, <1>17

\* Both clients hand over whole bodies within the limit only.
LEMMA BodiesAreWhole ==
  ASSUME NEW k, NEW r \in Replies, Fetched(k, r) = "Ok"
  PROVE  ~r.broken /\ ~(r.size > BodyLimit)
<1>1. r.size \in Nat /\ BodyLimit \in Nat /\ r.broken \in BOOLEAN
  BY FetchersAssumption
<1>2. CASE Fetched(k, r) = UreqFetch(r)
  <2>1. PICK s : s = << <<r.status = 0, "Transport">>,
                        <<r.status # 200, "HttpStatus">>,
                        <<r.broken /\ r.size <= BodyLimit, "Transport">>,
                        <<r.size > BodyLimit, "TooLarge">> >>
    OBVIOUS
  <2>2. FirstError(s) = "Ok"
    BY <1>2, <2>1 DEF UreqFetch
  <2>3. DOMAIN s = 1 .. 4
    BY <2>1
  <2>4. Failing(s) \subseteq 1 .. 4 /\ \A i \in 1 .. 4 : i \in Failing(s) <=> s[i][1]
    BY <2>3, FailingOf
  <2>5. s[1][2] # "Ok" /\ s[2][2] # "Ok" /\ s[3][2] # "Ok" /\ s[4][2] # "Ok"
    BY <2>1
  <2>6. 1 \notin Failing(s)
    BY <2>2, <2>4, <2>5, FirstFails
  <2>7. 2 \notin Failing(s)
    BY <2>2, <2>4, <2>5, <2>6, FirstFails
  <2>8. 3 \notin Failing(s)
    BY <2>2, <2>4, <2>5, <2>6, <2>7, FirstFails
  <2>9. 4 \notin Failing(s)
    BY <2>2, <2>4, <2>5, <2>6, <2>7, <2>8, FirstFails
  <2>10. ~(r.broken /\ r.size <= BodyLimit)
    <3>1. s[3][1] <=> (r.broken /\ r.size <= BodyLimit)
      BY <2>1
    <3> QED
      BY <2>4, <2>8, <3>1
  <2>11. ~(r.size > BodyLimit)
    <3>1. s[4][1] <=> r.size > BodyLimit
      BY <2>1
    <3> QED
      BY <2>4, <2>9, <3>1
  <2> QED
    BY <1>1, <2>10, <2>11
<1>3. CASE Fetched(k, r) = ReqwestFetch(r)
  <2>1. PICK s : s = << <<r.status = 0, "Transport">>,
                        <<r.status # 200, "HttpStatus">>,
                        <<r.hint # None /\ r.hint > BodyLimit, "TooLarge">>,
                        <<r.size > BodyLimit, "TooLarge">>,
                        <<r.broken, "Transport">> >>
    OBVIOUS
  <2>2. FirstError(s) = "Ok"
    BY <1>3, <2>1 DEF ReqwestFetch
  <2>3. DOMAIN s = 1 .. 5
    BY <2>1
  <2>4. Failing(s) \subseteq 1 .. 5 /\ \A i \in 1 .. 5 : i \in Failing(s) <=> s[i][1]
    BY <2>3, FailingOf
  <2>5. s[1][2] # "Ok" /\ s[2][2] # "Ok" /\ s[3][2] # "Ok" /\ s[4][2] # "Ok" /\ s[5][2] # "Ok"
    BY <2>1
  <2>6. 1 \notin Failing(s)
    BY <2>2, <2>4, <2>5, FirstFails
  <2>7. 2 \notin Failing(s)
    BY <2>2, <2>4, <2>5, <2>6, FirstFails
  <2>8. 3 \notin Failing(s)
    BY <2>2, <2>4, <2>5, <2>6, <2>7, FirstFails
  <2>9. 4 \notin Failing(s)
    BY <2>2, <2>4, <2>5, <2>6, <2>7, <2>8, FirstFails
  <2>10. 5 \notin Failing(s)
    BY <2>2, <2>4, <2>5, <2>6, <2>7, <2>8, <2>9, FirstFails
  <2>11. ~r.broken
    <3>1. s[5][1] <=> r.broken
      BY <2>1
    <3> QED
      BY <2>4, <2>10, <3>1
  <2>12. ~(r.size > BodyLimit)
    <3>1. s[4][1] <=> r.size > BodyLimit
      BY <2>1
    <3> QED
      BY <2>4, <2>9, <3>1
  <2> QED
    BY <2>11, <2>12
<1> QED
  BY <1>2, <1>3 DEF Fetched

-----------------------------------------------------------------------------
(* The invariant.                                                          *)
(*                                                                         *)
(* A document was the answer to the request it was asked for with, and     *)
(* says what was true when it was issued.  The cache keeps such documents  *)
(* under the request of their key, so it does not matter who stored them;  *)
(* a caller has failed at every URL before the one it is at.               *)

\* d answered request q while the certificates were revoked as in rev.
Genuine(rev, d, q) ==
  /\ d.form \in {"ok", "empty"} /\ d.asked = q /\ d.this \in Int
  /\ d.next = None \/ d.next = d.this + Life
  /\ ~d.revoked => rev[d.serial] = None \/ d.this < rev[d.serial]

CacheGood ==
  \A k \in DOMAIN cache :
    cache[k].form = "unparsable" \/ (cache[k].form = "ok" /\ Genuine(revokedAt, cache[k], k))

\* What a call that has returned r is worth; the rest of the state of its thread is as in the variables.
Sound(rev, k, c, n, u, i, d, src, f, r) ==
  /\ r = "Ok" =>
       \/ u = <<>>
       \/ /\ d.form = "ok" /\ d.serial = c.serial
          /\ d.this <= n /\ n <= d.this + Life
          /\ rev[c.serial] = None \/ d.this < rev[c.serial]
  /\ r = "RevocationFetchFailed" =>
       ExtensionOf(k, c) = "malformed" \/ \A j \in DOMAIN u : <<j, "fetch">> \in f
  /\ src = "cache" => d.asked = <<c.serial, u[i]>>
  /\ (src = "cache" /\ r = "Expired") => d.lead # d.next \/ d.next = None

\* A call under way at URL i, with everything before it failed.
UnderWay(c, n, u, i, f) ==
  /\ c \in Certificates /\ n \in Int /\ u \in Seq(STRING) /\ i \in 1 .. Len(u)
  /\ \A j \in 1 .. i - 1 : <<j, "fetch">> \in f

ThreadGood(rev, p, k, c, n, u, i, d, src, f, r) ==
  /\ p = "idle" => Sound(rev, k, c, n, u, i, d, src, f, r)
  /\ p # "idle" => UnderWay(c, n, u, i, f) /\ src # "cache"
  /\ p = "populate" => Genuine(rev, d, <<c.serial, u[i]>>) /\ src = "network"

Domains ==
  /\ DOMAIN pc = Threads /\ DOMAIN kind = Threads /\ DOMAIN cert = Threads /\ DOMAIN now = Threads
  /\ DOMAIN urls = Threads /\ DOMAIN pos = Threads /\ DOMAIN doc = Threads /\ DOMAIN source = Threads
  /\ DOMAIN failures = Threads /\ DOMAIN result = Threads

Good(t) ==
  ThreadGood(revokedAt, pc[t], kind[t], cert[t], now[t], urls[t], pos[t], doc[t], source[t], failures[t], result[t])

HInv ==
  /\ clock \in Int /\ revokedAt \in Revocations
  /\ Domains
  /\ CacheGood
  /\ \A t \in Threads : Good(t)

-----------------------------------------------------------------------------
(* Steps. *)

\* Everything of the other threads, and how certificates are revoked, stays.
OthersStay(t) ==
  /\ revokedAt' = revokedAt /\ Domains'
  /\ \A u \in Threads \ {t} :
       /\ pc'[u] = pc[u] /\ kind'[u] = kind[u] /\ cert'[u] = cert[u] /\ now'[u] = now[u]
       /\ urls'[u] = urls[u] /\ pos'[u] = pos[u] /\ doc'[u] = doc[u] /\ source'[u] = source[u]
       /\ failures'[u] = failures[u] /\ result'[u] = result[u]

\* Threads share nothing but the cache.
LEMMA OneThread ==
  ASSUME HInv, NEW t \in Threads, OthersStay(t), clock' \in Int, CacheGood',
         ThreadGood(revokedAt, pc'[t], kind'[t], cert'[t], now'[t], urls'[t], pos'[t], doc'[t], source'[t],
                    failures'[t], result'[t])
  PROVE  HInv'
<1>1. ASSUME NEW u \in Threads PROVE Good(u)'
  <2>1. CASE u = t
    BY <2>1 DEF OthersStay, Good
  <2>2. CASE u # t
    BY <2>2 DEF OthersStay, HInv, Good
  <2> QED
    BY <2>1, <2>2
<1> QED
  BY <1>1 DEF HInv, OthersStay

\* A cache that is not touched stays good.
LEMMA CacheStays ==
  ASSUME HInv, UNCHANGED <<cache, revokedAt>>
  PROVE  CacheGood'
BY DEF HInv, CacheGood

\* The verdict on a genuine document is a sound answer.
LEMMA VerdictIsSound ==
  ASSUME NEW rev \in Revocations, NEW k, NEW c \in Certificates, NEW n \in Int, NEW u, NEW i, NEW d, NEW src, NEW f, NEW r,
         NEW q, Genuine(rev, d, q), r = Verdict(d, c.serial, n),
         src = "cache" => IsLive(d, n) /\ q = <<c.serial, u[i]>>
  PROVE  Sound(rev, k, c, n, u, i, d, src, f, r)
<1>1. /\ r \in {"Ok", "StatusUnknown", "NotYetValid", "Expired", "Revoked"}
      /\ r = "Ok" =>
           /\ d.form # "empty" /\ d.serial = c.serial /\ ~(n < d.this)
           /\ d.next # None /\ ~(n > d.next) /\ ~d.revoked
      /\ r = "StatusUnknown" => d.form = "empty" \/ d.serial # c.serial
      /\ r = "Expired" => d.next = None \/ n > d.next
  BY VerdictMeans
<1>2. /\ d.form \in {"ok", "empty"} /\ d.asked = q /\ d.this \in Int
      /\ d.next = None \/ d.next = d.this + Life
  BY DEF Genuine
<1>3. Life \in Int /\ None \in Int
  BY FetchersAssumption DEF None
<1>4. r = "Ok" =>
        /\ d.form = "ok" /\ d.serial = c.serial
        /\ d.this <= n /\ n <= d.this + Life
        /\ rev[c.serial] = None \/ d.this < rev[c.serial]
  <2> SUFFICES ASSUME r = "Ok"
               PROVE  /\ d.form = "ok" /\ d.serial = c.serial
                      /\ d.this <= n /\ n <= d.this + Life
                      /\ rev[c.serial] = None \/ d.this < rev[c.serial]
    OBVIOUS
  <2>1. /\ d.form # "empty" /\ ~(n < d.this) /\ d.next # None /\ ~(n > d.next)
    BY <1>1
  <2>2. ~d.revoked
    BY <1>1, Zenon
  <2>3. rev[d.serial] = None \/ d.this < rev[d.serial]
    BY <2>2, Zenon DEF Genuine
  <2>4. d.serial = c.serial
    BY <1>1
  <2> QED
    BY <1>2, <1>3, <2>1, <2>3, <2>4
<1>5. src = "cache" => d.asked = <<c.serial, u[i]>>
  BY <1>2
<1>6. (src = "cache" /\ r = "Expired") => d.lead # d.next \/ d.next = None
  <2> SUFFICES ASSUME src = "cache", r = "Expired", d.lead = d.next, d.next # None PROVE FALSE
    OBVIOUS
  <2>1. d.next > n /\ n > d.next
    BY <1>1 DEF IsLive
  <2> QED
    BY <1>2, <1>3, <2>1
<1>7. r # "RevocationFetchFailed"
  BY <1>1
<1> QED
  BY <1>4, <1>5, <1>6, <1>7 DEF Sound

\* What a server answers is genuine, whenever it was issued and whatever it is about.
LEMMA ServedIsGenuine ==
  ASSUME HInv, NEW k, NEW c \in Certificates, NEW url, NEW d \in Served(k, c, url),
         d.form # "unparsable"
  PROVE  Genuine(revokedAt, d, <<c.serial, url>>)
<1>1. PICK x \in Contents(k, c), t \in 1 .. clock :
        d = [form |-> x[2].form, serial |-> x[1], this |-> t,
             next |-> IF x[2].life = None THEN None ELSE t + x[2].life,
             lead |-> IF x[2].lead = None THEN None ELSE t + x[2].lead,
             revoked |-> revokedAt[x[1]] # None /\ revokedAt[x[1]] <= t,
             asked |-> <<c.serial, url>>]
  BY DEF Served
<1>2. d.form = x[2].form /\ d.serial = x[1] /\ d.this = t /\ d.asked = <<c.serial, url>>
  BY <1>1
<1>3. d.next = IF x[2].life = None THEN None ELSE t + x[2].life
  BY <1>1
<1>4. d.revoked = (revokedAt[x[1]] # None /\ revokedAt[x[1]] <= t)
  BY <1>1, Zenon
<1>5. x[2] \in Shapes /\ \E y \in Certificates : x[1] = y.serial
  BY FetchersAssumption DEF Contents
<1>6. x[2].form \in {"ok", "empty", "unparsable"} /\ (x[2].life = Life \/ x[2].life = None)
  BY <1>5 DEF Shapes
<1>7. t \in Int /\ revokedAt[x[1]] \in Int
  BY <1>5, FetchersAssumption DEF HInv
<1>8. ASSUME ~d.revoked PROVE revokedAt[d.serial] = None \/ t < revokedAt[d.serial]
  <2>1. ~(revokedAt[x[1]] # None /\ revokedAt[x[1]] <= t)
    BY <1>4, <1>8, Zenon
  <2> QED
    BY <1>2, <1>7, <2>1
<1>9. d.next = None \/ d.next = d.this + Life
  BY <1>2, <1>3, <1>6
<1>10. d.this \in Int /\ d.form \in {"ok", "empty"}
  BY <1>2, <1>6, <1>7
<1> QED
  BY <1>2, <1>8, <1>9, <1>10, Zenon DEF Genuine

\* A call begins.
LEMMA BeginKeeps ==
  ASSUME HInv, NEW t \in Threads, NEW c \in Certificates, NEW n \in (clock - MaxSkew) .. clock, Begin(t, c, n)
  PROVE  HInv'
<1>1. PICK k : k = kind[t]
  OBVIOUS
<1>2. PICK u : u = UrlsOf(k, c)
  OBVIOUS
<1>3. Domains /\ UNCHANGED <<clock, revokedAt, kind, cache>>
  BY DEF HInv, Begin
<1>4. n \in Int
  BY FetchersAssumption DEF HInv
<1>5. u \in Seq(STRING)
  BY <1>2, FetchersAssumption DEF UrlsOf
<1>6. cert'[t] = c /\ now'[t] = n /\ urls'[t] = u /\ pos'[t] = 1 /\ failures'[t] = {} /\ kind'[t] = k
      /\ source'[t] = "none"
  BY <1>1, <1>2, <1>3 DEF Begin, Domains
<1>7. OthersStay(t)
  BY <1>3 DEF Begin, OthersStay, Domains, Return, Go
<1>8. CASE ExtensionOf(k, c) = "malformed"
  <2>1. pc'[t] = "idle" /\ result'[t] = "RevocationFetchFailed"
    BY <1>1, <1>3, <1>8 DEF Begin, Domains, Return, Go
  <2>2. Sound(revokedAt, k, c, n, u, 1, doc'[t], "none", {}, "RevocationFetchFailed")
    BY <1>8 DEF Sound
  <2> QED
    BY <1>3, <1>6, <1>7, <2>1, <2>2, OneThread, CacheStays DEF ThreadGood, HInv
<1>9. CASE ExtensionOf(k, c) # "malformed" /\ u = <<>>
  <2>1. pc'[t] = "idle" /\ result'[t] = "Ok"
    BY <1>1, <1>2, <1>3, <1>9 DEF Begin, Domains, Return, Go
  <2>2. Sound(revokedAt, k, c, n, u, 1, doc'[t], "none", {}, "Ok")
    BY <1>9 DEF Sound
  <2> QED
    BY <1>3, <1>6, <1>7, <2>1, <2>2, OneThread, CacheStays DEF ThreadGood, HInv
<1>10. CASE ExtensionOf(k, c) # "malformed" /\ u # <<>>
  <2>1. pc'[t] \in {"lookup", "fetch"}
    BY <1>1, <1>2, <1>3, <1>10 DEF Begin, Domains, Go
  <2>2. Len(u) \in Nat /\ Len(u) # 0
    BY <1>5, <1>10
  <2>3. UnderWay(c, n, u, 1, {})
    BY <1>4, <1>5, <2>2 DEF UnderWay
  <2>4. ThreadGood(revokedAt, pc'[t], k, c, n, u, 1, doc'[t], "none", {}, result'[t])
    BY <2>1, <2>3 DEF ThreadGood
  <2> QED
    BY <1>3, <1>6, <1>7, <2>4, OneThread, CacheStays DEF HInv
<1> QED
  BY <1>8, <1>9, <1>10

\* An answer from the cache was given to the request in the key, whoever stored it.
LEMMA LookupKeeps ==
  ASSUME HInv, NEW t \in Threads, Lookup(t)
  PROVE  HInv'
<1>1. Domains /\ pc[t] = "lookup" /\ UNCHANGED <<clock, revokedAt, cache, kind, cert, now, urls, pos, failures>>
  BY DEF HInv, Lookup, callData
<1>2. UnderWay(cert[t], now[t], urls[t], pos[t], failures[t]) /\ source[t] # "cache"
  BY <1>1 DEF HInv, Good, ThreadGood
<1>3. cert[t] \in Certificates /\ now[t] \in Int
  BY <1>2 DEF UnderWay
<1>4. PICK d : d = cache[Key(t)]
  OBVIOUS
<1>5. OthersStay(t)
  BY <1>1 DEF Lookup, OthersStay, Domains, Return, Continue, Go
<1>6. CASE /\ Key(t) \in DOMAIN cache /\ IsLive(d, now[t]) /\ d.form # "unparsable"
           /\ doc' = [doc EXCEPT ![t] = d] /\ source' = [source EXCEPT ![t] = "cache"]
           /\ Return(t, Verdict(d, cert[t].serial, now[t]))
  <2>1. PICK r : r = Verdict(d, cert[t].serial, now[t])
    OBVIOUS
  <2>2. pc'[t] = "idle" /\ doc'[t] = d /\ source'[t] = "cache" /\ result'[t] = r
    BY <1>1, <1>6, <2>1 DEF Domains, Return, Go
  <2>3. Key(t) = <<cert[t].serial, urls[t][pos[t]]>>
    BY DEF Key, CacheKey, Url
  <2>4. Genuine(revokedAt, d, Key(t))
    BY <1>4, <1>6 DEF HInv, CacheGood
  <2>5. Sound(revokedAt, kind[t], cert[t], now[t], urls[t], pos[t], d, "cache", failures[t], r)
    BY <1>3, <1>6, <2>1, <2>3, <2>4, VerdictIsSound DEF HInv
  <2>6. ThreadGood(revokedAt, pc'[t], kind'[t], cert'[t], now'[t], urls'[t], pos'[t], doc'[t], source'[t],
                   failures'[t], result'[t])
    BY <1>1, <2>2, <2>5 DEF ThreadGood
  <2> QED
    BY <1>1, <1>5, <2>6, OneThread, CacheStays DEF HInv
<1>7. CASE (Continue(t, "invalidate") \/ Continue(t, "fetch")) /\ UNCHANGED <<doc, source>>
  <2>1. pc'[t] \in {"invalidate", "fetch"} /\ source'[t] = source[t]
    BY <1>1, <1>7 DEF Continue, Go, Domains
  <2>2. ThreadGood(revokedAt, pc'[t], kind'[t], cert'[t], now'[t], urls'[t], pos'[t], doc'[t], source'[t],
                   failures'[t], result'[t])
    BY <1>1, <1>2, <2>1 DEF ThreadGood
  <2> QED
    BY <1>1, <1>5, <2>2, OneThread, CacheStays DEF HInv
<1> QED
  BY <1>4, <1>6, <1>7 DEF Lookup

\* Dropping an entry loses nothing but the entry.
LEMMA InvalidateKeeps ==
  ASSUME HInv, NEW t \in Threads, Invalidate(t)
  PROVE  HInv'
<1>1. /\ Domains /\ pc[t] = "invalidate"
      /\ UNCHANGED <<clock, revokedAt, kind, cert, now, urls, pos, doc, source, result>>
  BY DEF HInv, Invalidate, callData, Continue
<1>2. UnderWay(cert[t], now[t], urls[t], pos[t], failures[t]) /\ source[t] # "cache"
  BY <1>1 DEF HInv, Good, ThreadGood
<1>3. OthersStay(t)
  BY <1>1 DEF Invalidate, OthersStay, Domains, Continue, Go
<1>4. pc'[t] = "fetch" /\ failures[t] \subseteq failures'[t]
  BY <1>1 DEF Invalidate, Continue, Go, Domains
<1>5. UnderWay(cert[t], now[t], urls[t], pos[t], failures'[t])
  BY <1>2, <1>4 DEF UnderWay
<1>6. CacheGood'
  <2>1. \A k \in DOMAIN cache' : k \in DOMAIN cache /\ cache'[k] = cache[k]
    BY DEF Invalidate
  <2> QED
    BY <1>1, <2>1 DEF HInv, CacheGood
<1>7. ThreadGood(revokedAt, pc'[t], kind'[t], cert'[t], now'[t], urls'[t], pos'[t], doc'[t], source'[t],
                 failures'[t], result'[t])
  BY <1>1, <1>2, <1>4, <1>5 DEF ThreadGood
<1> QED
  BY <1>1, <1>3, <1>6, <1>7, OneThread DEF HInv

\* A failed fetch is remembered before the next URL, and the last one ends the call.
LEMMA FetchFailsKeeps ==
  ASSUME HInv, NEW t \in Threads, FetchFails(t)
  PROVE  HInv'
<1>1. /\ Domains /\ pc[t] = "fetch"
      /\ UNCHANGED <<clock, revokedAt, cache, kind, cert, now, urls, doc, source>>
  BY DEF HInv, FetchFails, callData
<1>2. UnderWay(cert[t], now[t], urls[t], pos[t], failures[t]) /\ source[t] # "cache"
  BY <1>1 DEF HInv, Good, ThreadGood
<1>3. PICK u : u = urls[t]
  OBVIOUS
<1>4. PICK i : i = pos[t]
  OBVIOUS
<1>5. PICK f : f = failures[t] \cup {<<i, "fetch">>}
  OBVIOUS
<1>6. /\ u \in Seq(STRING) /\ i \in 1 .. Len(u) /\ cert[t] \in Certificates /\ now[t] \in Int
      /\ \A j \in 1 .. i - 1 : <<j, "fetch">> \in failures[t]
  BY <1>2, <1>3, <1>4 DEF UnderWay
<1>7. Len(u) \in Nat /\ DOMAIN u = 1 .. Len(u)
  BY <1>6
<1>8. \A j \in 1 .. i : <<j, "fetch">> \in f
  <2> TAKE j \in 1 .. i
  <2>1. j = i \/ j \in 1 .. i - 1
    BY <1>6, <1>7
  <2> QED
    BY <1>5, <1>6, <2>1
<1>9. OthersStay(t)
  BY <1>1 DEF FetchFails, NextUrl, OthersStay, Domains, Return, Continue, Go
<1>10. failures'[t] = f
  BY <1>1, <1>4, <1>5 DEF FetchFails, Domains
<1>11. CASE i < Len(u)
  <2>1. pc'[t] \in {"lookup", "fetch"} /\ pos'[t] = i + 1
    BY <1>1, <1>3, <1>4, <1>11 DEF FetchFails, NextUrl, Continue, Go, Domains
  <2>2. i + 1 \in 1 .. Len(u) /\ 1 .. (i + 1) - 1 = 1 .. i
    BY <1>6, <1>7, <1>11
  <2>3. UnderWay(cert[t], now[t], u, i + 1, f)
    BY <1>6, <1>8, <2>2 DEF UnderWay
  <2>4. ThreadGood(revokedAt, pc'[t], kind'[t], cert'[t], now'[t], urls'[t], pos'[t], doc'[t], source'[t],
                   failures'[t], result'[t])
    BY <1>1, <1>2, <1>3, <1>10, <2>1, <2>3 DEF ThreadGood
  <2> QED
    BY <1>1, <1>9, <2>4, OneThread, CacheStays DEF HInv
<1>12. CASE ~(i < Len(u))
  <2>1. pc'[t] = "idle" /\ result'[t] = "RevocationFetchFailed"
    BY <1>1, <1>3, <1>4, <1>12 DEF FetchFails, NextUrl, Return, Go, Domains
  <2>2. \A j \in DOMAIN u : <<j, "fetch">> \in f
    <3>1. PICK n : n = Len(u)
      OBVIOUS
    <3>2. i \in 1 .. n /\ n \in Nat /\ ~(i < n)
      BY <1>6, <1>7, <1>12, <3>1
    <3>3. i = n
      BY <3>2
    <3>4. DOMAIN u = 1 .. i
      BY <1>7, <3>1, <3>3
    <3> QED
      BY <1>8, <3>4, Zenon
  <2>3. Sound(revokedAt, kind[t], cert[t], now[t], u, pos'[t], doc[t], source[t], f, "RevocationFetchFailed")
    BY <1>2, <2>2 DEF Sound
  <2>4. ThreadGood(revokedAt, pc'[t], kind'[t], cert'[t], now'[t], urls'[t], pos'[t], doc'[t], source'[t],
                   failures'[t], result'[t])
    BY <1>1, <1>2, <1>3, <1>10, <2>1, <2>3 DEF ThreadGood
  <2> QED
    BY <1>1, <1>9, <2>4, OneThread, CacheStays DEF HInv
<1> QED
  BY <1>11, <1>12

\* A document that decodes is genuine and whole.
LEMMA FetchKeeps ==
  ASSUME HInv, NEW t \in Threads, Fetch(t)
  PROVE  HInv'
<1>1. /\ Domains /\ pc[t] = "fetch"
      /\ UNCHANGED <<clock, revokedAt, cache, kind, cert, now, urls, pos, failures>>
  BY DEF HInv, Fetch, callData
<1>2. UnderWay(cert[t], now[t], urls[t], pos[t], failures[t])
  BY <1>1 DEF HInv, Good, ThreadGood
<1>3. cert[t] \in Certificates /\ now[t] \in Int
  BY <1>2 DEF UnderWay
<1>4. PICK r \in Replies, d \in Served(kind[t], cert[t], Url(t)) :
        /\ Fetched(kind[t], r) = "Ok" /\ d.form # "unparsable"
        /\ doc' = [doc EXCEPT ![t] = IF r.broken \/ r.size > BodyLimit
                                       THEN [d EXCEPT !.form = "truncated"] ELSE d]
        /\ source' = [source EXCEPT ![t] = "network"]
        /\ IF kind[t] = "cached_ocsp" THEN Continue(t, "populate")
           ELSE Return(t, Verdict(doc'[t], cert[t].serial, now[t]))
  BY DEF Fetch
<1>5. ~r.broken /\ ~(r.size > BodyLimit)
  BY <1>4, BodiesAreWhole
<1>6. doc'[t] = d /\ source'[t] = "network"
  BY <1>1, <1>4, <1>5 DEF Domains
<1>7. Genuine(revokedAt, d, <<cert[t].serial, urls[t][pos[t]]>>)
  BY <1>3, <1>4, ServedIsGenuine DEF Url
<1>8. OthersStay(t)
  BY <1>1, <1>4 DEF OthersStay, Domains, Return, Continue, Go
<1>9. CASE Continue(t, "populate")
  <2>1. pc'[t] = "populate"
    BY <1>1, <1>9 DEF Continue, Go, Domains
  <2>2. ThreadGood(revokedAt, pc'[t], kind'[t], cert'[t], now'[t], urls'[t], pos'[t], doc'[t], source'[t],
                   failures'[t], result'[t])
    BY <1>1, <1>2, <1>6, <1>7, <2>1 DEF ThreadGood
  <2> QED
    BY <1>1, <1>8, <2>2, OneThread, CacheStays DEF HInv
<1>10. CASE Return(t, Verdict(doc'[t], cert[t].serial, now[t]))
  <2>1. PICK v : v = Verdict(d, cert[t].serial, now[t])
    OBVIOUS
  <2>2. pc'[t] = "idle" /\ result'[t] = v
    BY <1>1, <1>6, <1>10, <2>1 DEF Return, Go, Domains
  <2>3. Sound(revokedAt, kind[t], cert[t], now[t], urls[t], pos[t], d, "network", failures[t], v)
    BY <1>3, <1>7, <2>1, VerdictIsSound DEF HInv
  <2>4. ThreadGood(revokedAt, pc'[t], kind'[t], cert'[t], now'[t], urls'[t], pos'[t], doc'[t], source'[t],
                   failures'[t], result'[t])
    BY <1>1, <1>6, <2>2, <2>3 DEF ThreadGood
  <2> QED
    BY <1>1, <1>8, <2>4, OneThread, CacheStays DEF HInv
<1> QED
  BY <1>4, <1>9, <1>10

\* What is stored is genuine for the serial number in its key.
LEMMA PopulateKeeps ==
  ASSUME HInv, NEW t \in Threads, Populate(t)
  PROVE  HInv'
<1>1. /\ Domains /\ pc[t] = "populate"
      /\ UNCHANGED <<clock, revokedAt, kind, cert, now, urls, pos, doc, source, failures>>
  BY DEF HInv, Populate, callData
<1>2. /\ UnderWay(cert[t], now[t], urls[t], pos[t], failures[t])
      /\ Genuine(revokedAt, doc[t], <<cert[t].serial, urls[t][pos[t]]>>) /\ source[t] = "network"
  BY <1>1 DEF HInv, Good, ThreadGood
<1>3. cert[t] \in Certificates /\ now[t] \in Int
  BY <1>2 DEF UnderWay
<1>4. OthersStay(t)
  BY <1>1 DEF Populate, OthersStay, Domains, Return, Go
<1>5. PICK v : v = Verdict(doc[t], cert[t].serial, now[t])
  OBVIOUS
<1>6. pc'[t] = "idle" /\ result'[t] = v
  BY <1>1, <1>5 DEF Populate, Return, Go, Domains
<1>7. Sound(revokedAt, kind[t], cert[t], now[t], urls[t], pos[t], doc[t], "network", failures[t], v)
  BY <1>2, <1>3, <1>5, VerdictIsSound DEF HInv
<1>8. CacheGood'
  <2>1. PICK key : key = Key(t)
    OBVIOUS
  <2>2. key = <<cert[t].serial, urls[t][pos[t]]>>
    BY <2>1 DEF Key, CacheKey, Url
  <2>3. CASE doc[t].form = "empty"
    BY <1>1, <2>3, CacheStays DEF Populate
  <2>4. CASE doc[t].form # "empty"
    <3>1. doc[t].form = "ok"
      BY <1>2, <2>4 DEF Genuine
    <3>2. cache' = [k \in DOMAIN cache \cup {key} |-> IF k = key THEN doc[t] ELSE cache[k]]
      BY <2>1, <2>4 DEF Populate
    <3>3. ASSUME NEW k \in DOMAIN cache'
          PROVE  \/ cache'[k].form = "unparsable"
                 \/ cache'[k].form = "ok" /\ Genuine(revokedAt, cache'[k], k)
      <4>1. CASE k = key
        <5>1. cache'[k] = doc[t]
          BY <3>2, <3>3, <4>1
        <5> QED
          BY <1>2, <2>2, <3>1, <4>1, <5>1
      <4>2. CASE k # key
        <5>1. k \in DOMAIN cache /\ cache'[k] = cache[k]
          BY <3>2, <3>3, <4>2
        <5> QED
          BY <5>1 DEF HInv, CacheGood
      <4> QED
        BY <4>1, <4>2
    <3> QED
      BY <1>1, <3>3 DEF CacheGood
  <2> QED
    BY <2>3, <2>4
<1>9. ThreadGood(revokedAt, pc'[t], kind'[t], cert'[t], now'[t], urls'[t], pos'[t], doc'[t], source'[t],
                 failures'[t], result'[t])
  BY <1>1, <1>2, <1>6, <1>7 DEF ThreadGood
<1> QED
  BY <1>1, <1>4, <1>8, <1>9, OneThread DEF HInv

\* A corrupted entry is one that no longer decodes.
LEMMA CorruptKeeps ==
  ASSUME HInv, Corrupt
  PROVE  HInv'
<1>1. PICK k \in DOMAIN cache : cache' = [cache EXCEPT ![k] = [form |-> "unparsable", lead |-> @.lead]]
  BY DEF Corrupt
<1>2. UNCHANGED <<clock, revokedAt, pc, kind, cert, now, urls, pos, doc, source, failures, result>>
  BY DEF Corrupt, thread
<1>3. ASSUME NEW j \in DOMAIN cache'
      PROVE  cache'[j].form = "unparsable" \/ (j \in DOMAIN cache /\ cache'[j] = cache[j])
  BY <1>1
<1>4. CacheGood'
  BY <1>2, <1>3 DEF HInv, CacheGood
<1> QED
  BY <1>2, <1>4 DEF HInv, Domains, Good

\* Time passes, or nothing happens.
LEMMA IdleKeeps ==
  ASSUME HInv, Tick \/ UNCHANGED fetchersVars
  PROVE  HInv'
<1>1. UNCHANGED <<revokedAt, cache, pc, kind, cert, now, urls, pos, doc, source, failures, result>>
  BY DEF Tick, fetchersVars, thread
<1>2. clock' \in Int
  BY DEF HInv, Tick, fetchersVars
<1> QED
  BY <1>1, <1>2 DEF HInv, CacheGood, Domains, Good

\* The initial state.
LEMMA InitKeeps == FetchersInit => HInv
<1> SUFFICES ASSUME FetchersInit PROVE HInv
  OBVIOUS
<1>1. CacheGood
  BY DEF FetchersInit, CacheGood
<1>2. ASSUME NEW t \in Threads PROVE Good(t)
  <2>1. pc[t] = "idle" /\ result[t] = "none" /\ source[t] = "none"
    BY DEF FetchersInit
  <2> QED
    BY <2>1 DEF Good, ThreadGood, Sound
<1>3. DOMAIN kind = Threads
  BY FetchersAssumption DEF FetchersInit
<1>4. Domains
  BY <1>3 DEF FetchersInit, Domains
<1> QED
  BY <1>1, <1>2, <1>4 DEF HInv, FetchersInit

\* Every step keeps the invariant.
LEMMA StepKeeps == HInv /\ [FetchersNext]_fetchersVars => HInv'
<1> SUFFICES ASSUME HInv, [FetchersNext]_fetchersVars PROVE HInv'
  OBVIOUS
<1>1. CASE \E t \in Threads, c \in Certificates, n \in (clock - MaxSkew) .. clock : Call(t, c, n)
  <2>1. PICK t \in Threads, c \in Certificates, n \in (clock - MaxSkew) .. clock : Call(t, c, n)
    BY <1>1
  <2>2. Begin(t, c, n)
    BY <2>1 DEF Call, HttpCrlFetcher, HttpOcspFetcher, AsyncHttpCrlFetcher, AsyncHttpOcspFetcher,
                CachedHttpOcspFetcher
  <2> QED
    BY <2>2, BeginKeeps
<1>2. CASE \E t \in Threads : Step(t)
  BY <1>2, LookupKeeps, InvalidateKeeps, FetchFailsKeeps, FetchKeeps, PopulateKeeps DEF Step
<1>3. CASE Corrupt
  BY <1>3, CorruptKeeps
<1>4. CASE Tick \/ UNCHANGED fetchersVars
  BY <1>4, IdleKeeps
<1> QED
  BY <1>1, <1>2, <1>3, <1>4 DEF FetchersNext

\* Both properties are about calls that have returned.
LEMMA SoundMeans == HInv => VerdictsHaveGrounds /\ CacheServesTheCaller
<1> SUFFICES ASSUME HInv PROVE VerdictsHaveGrounds /\ CacheServesTheCaller
  OBVIOUS
<1>1. \A t \in Threads :
        pc[t] = "idle" =>
          Sound(revokedAt, kind[t], cert[t], now[t], urls[t], pos[t], doc[t], source[t], failures[t], result[t])
  BY DEF HInv, Good, ThreadGood
<1>2. VerdictsHaveGrounds
  BY <1>1 DEF VerdictsHaveGrounds, OkHasEvidence, FailureTriedEveryServer, Sound
<1>3. CacheServesTheCaller
  BY <1>1 DEF CacheServesTheCaller, CachedAnswersWereAskedFor, CachedResponsesAreCurrent, Sound, Url
<1> QED
  BY <1>2, <1>3

(***************************************************************************)
(* For every number of threads, certificates and servers, whatever the     *)
(* servers answer, late, damaged or not at all: each of the five fetchers  *)
(* answers Ok only on a whole document about the certificate it was asked  *)
(* about, valid on its own clock and issued before a revocation, or for a  *)
(* certificate without HTTP servers, and gives up only after every server  *)
(* has failed it in this call.                                             *)
(***************************************************************************)
THEOREM Grounds == FetchersSpec => []VerdictsHaveGrounds
BY InitKeeps, StepKeeps, SoundMeans, PTL DEF FetchersSpec

(***************************************************************************)
(* Whichever thread stored it, and however lookups, invalidations and      *)
(* stores of other threads interleave: what CachedHttpOcspFetcher takes    *)
(* from the OCSP cache is what that server answered to a request for the   *)
(* certificate of the call, and it is not expired unless the time the      *)
(* cache goes by is not its own.  Whether it speaks of the certificate is  *)
(* for the checker to see: responders may mix up requests.                 *)
(***************************************************************************)
THEOREM CacheIsolation == FetchersSpec => []CacheServesTheCaller
BY InitKeeps, StepKeeps, SoundMeans, PTL DEF FetchersSpec

=============================================================================
