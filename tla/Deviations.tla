------------------------------ MODULE Deviations ------------------------------
(***************************************************************************)
(* pkix-lint/src/deviation.rs: waivers of lint findings, the store that    *)
(* holds them and the choice among them.                                   *)
(*                                                                         *)
(* A deviation is [id, target, scope, start, end, action, just, auth,      *)
(* evidence, priority]; a scope is [kind, props], each property a          *)
(* [type, value] of type "Text", "Bytes" or "absent".  A distinguished     *)
(* name is a sequence of letters, a serial number one of bytes.            *)
(***************************************************************************)
EXTENDS Checks, SequencesExt

CONSTANT CaseFold   \* what str::to_lowercase makes of a letter

Dotted == Seq(STRING)   \* of a lint or a parameter: the parts between its dots
Letters == Seq(DOMAIN CaseFold)
Octets == Seq(0..255)
Times64 == Nat \cup {None}
Severities == {"info", "notice", "warn", "error", "fatal"}

\* ScopePropValue: a property that is not there, of its own type or of another.
ScopeProp(values) == [type : {"absent"}] \cup [type : {"Text", "Bytes"}, value : values]
DeviationScope ==
  [kind : STRING, props : [substring : ScopeProp(Letters), der : ScopeProp(Letters),
                           start : ScopeProp(Octets), end : ScopeProp(Octets)]]
DeviationAction == [kind : {"suppress"}] \cup [kind : {"downgrade"}, to : Severities]
Deviation ==
  [id : STRING, target : Dotted, scope : DeviationScope, start : Times64, end : Times64,
   action : DeviationAction, just : STRING, auth : STRING, evidence : STRING, priority : Int]
Cert == [sha : STRING, issuer : Letters, serial : Octets, notBefore : Nat]

\* Iterator::filter: what is at the given positions of s, in order.
Kept(s, at) ==
  LET kept[n \in 0..Len(s)] ==
        IF n = 0 THEN <<>> ELSE IF n \in at THEN Append(kept[n - 1], s[n]) ELSE kept[n - 1]
  IN  kept[Len(s)]

ScopeKinds == {"any", "contains", "exact", "range"}
ScopeProps == {"substring", "der", "start", "end"}

\* Bytes that are not the encoding of a name.
Garbage == <<"?">>

ToLowercase(s) == [i \in DOMAIN s |-> CaseFold[s[i]]]
NamesMatch(a, b) == ToLowercase(a) = ToLowercase(b)
Occurs(sub, s) == \E i \in 0 .. (Len(s) - Len(sub)) : SubSeq(s, i + 1, i + Len(sub)) = sub
FromDer(der) == der # <<>> /\ der # Garbage

\* strip_leading_zeros
StripLeadingZeros(bytes) ==
  LET zeros == {n \in 0..Len(bytes) : \A i \in 1..n : bytes[i] = 0}
  IN  SubSeq(bytes, (CHOOSE n \in zeros : \A k \in zeros : k <= n) + 1, Len(bytes))

\* Serial numbers compared as the byte strings they are stored in.
Mut_SerialLe(x, y) ==
  \/ Len(x) < Len(y)
  \/ /\ Len(x) = Len(y)
     /\ \/ x = y
        \/ \E i \in DOMAIN x : x[i] < y[i] /\ \A j \in 1..(i - 1) : x[j] = y[j]

\* serial_cmp is not greater: shorter first, then byte by byte.
SerialLe(x, y) ==
  LET a == StripLeadingZeros(x)
      b == StripLeadingZeros(y)
  IN  \/ Len(a) < Len(b)
      \/ /\ Len(a) = Len(b)
         /\ \/ a = b
            \/ \E i \in DOMAIN a : a[i] < b[i] /\ \A j \in 1..(i - 1) : a[j] = b[j]

\* DeviationScope::matches: a property that is absent or of another type, and
\* a kind nobody knows, match nothing.
ScopeMatches(scope, cert) ==
  LET p == scope.props
      Is(name, type) == p[name].type = type
      Issuer == /\ Is("der", "Bytes") /\ FromDer(p["der"].value)
                /\ NamesMatch(p["der"].value, cert.issuer)
  IN  CASE scope.kind = "any"      -> TRUE
        [] scope.kind = "contains" -> /\ Is("substring", "Text")
                                      /\ Occurs(p["substring"].value, ToLowercase(cert.issuer))
        [] scope.kind = "exact"    -> Issuer
        [] scope.kind = "range"    -> /\ Issuer /\ Is("start", "Bytes") /\ Is("end", "Bytes")
                                      /\ SerialLe(p["start"].value, cert.serial)
                                      /\ SerialLe(cert.serial, p["end"].value)
        [] OTHER -> FALSE

\* is_active_at and applies_to
IsActiveAt(d, now) == (d.start = None \/ now >= d.start) /\ (d.end = None \/ now < d.end)
AppliesTo(d, cert, now) == IsActiveAt(d, now) /\ ScopeMatches(d.scope, cert)

-----------------------------------------------------------------------------
\* Deviation::new
NewChecks(d) ==
  << <<d.id = "", "EmptyField">>, <<d.target = <<>>, "EmptyField">>,
     <<d.just = "", "EmptyField">>, <<d.auth = "", "EmptyField">> >>

\* validate_scope
ScopeWellFormed(scope) ==
  LET Typed(name, type) == scope.props[name].type = type
  IN  CASE scope.kind = "contains" -> Typed("substring", "Text")
        [] scope.kind = "exact"    -> Typed("der", "Bytes")
        [] scope.kind = "range"    -> \A n \in {"der", "start", "end"} : Typed(n, "Bytes")
        [] OTHER -> TRUE

\* DeviationStore::add
AddChecks(store, d) ==
  << <<d.just = "", "EmptyField">>,
     <<d.auth = "", "EmptyField">>,
     <<\E i \in DOMAIN store : store[i].id = d.id, "DuplicateId">>,
     <<~ScopeWellFormed(d.scope), "MalformedScope">> >>

\* The substring of a "contains" scope is kept in lower case.
Normalized(d) ==
  IF d.scope.kind = "contains"
    THEN [d EXCEPT !.scope.props["substring"].value = ToLowercase(@)] ELSE d

Add(store, d) == Append(store, Normalized(d))

\* The highest priority, and the first of those.
Best(matching, store) ==
  CHOOSE i \in matching : \A j \in matching :
    store[i].priority > store[j].priority \/ (store[i].priority = store[j].priority /\ i <= j)

\* find_deviation and find_deviation_for_chain: the position in the store, 0
\* if there is none.  A path is one item with all of its certificates.
FindDeviation(store, lint, certs, now) ==
  LET matching == {i \in DOMAIN store :
                     store[i].target = lint /\ \E c \in certs : AppliesTo(store[i], c, now)}
  IN  IF matching = {} THEN 0 ELSE Best(matching, store)

\* active_at, active_for_lint and expired_at
ActiveAt(store, now) == Kept(store, {i \in DOMAIN store : IsActiveAt(store[i], now)})
ActiveForLint(store, lint, now) ==
  LET active == ActiveAt(store, now) IN Kept(active, {i \in DOMAIN active : active[i].target = lint})
ExpiredAt(store, now) == Kept(store, {i \in DOMAIN store : store[i].end # None /\ now >= store[i].end})

-----------------------------------------------------------------------------
\* is_finding
IsFinding(f) == f.result \in {"Warn", "Error", "Fatal"}

\* make_deviated
MakeDeviated(f, d) ==
  [lint |-> f.lint, result |-> f.result, index |-> f.index, at |-> f.at,
   deviation |-> d.id, action |-> d.action, just |-> d.just, evidence |-> d.evidence]

\* apply_deviations, and its form for a path: [findings, deviated].
ApplyDeviations(store, raw, certs, now) ==
  LET Found(f) == IF IsFinding(f) THEN FindDeviation(store, f.lint, certs, now) ELSE 0
      waived == Kept(raw, {i \in DOMAIN raw : Found(raw[i]) # 0})
  IN  [findings |-> Kept(raw, {i \in DOMAIN raw : Found(raw[i]) = 0}),
       deviated |-> [i \in DOMAIN waived |-> MakeDeviated(waived[i], store[Found(waived[i])])]]

=============================================================================
