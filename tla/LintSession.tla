------------------------------ MODULE LintSession -----------------------------
(***************************************************************************)
(* pkix-lint: a caller composes a LintRunner from a registry of lints and  *)
(* an OSCAL profile, fills a DeviationStore, evaluates certificates,       *)
(* chains and paths, and reports what was found.                           *)
(*                                                                         *)
(* What a lint says of a certificate is any of Results: the rules are the  *)
(* subject of LeafRules.  Times are numbers of quarters of a day.          *)
(***************************************************************************)
EXTENDS Oscal, FiniteSets

CONSTANTS
  Registry,      \* the lints of the program, a sequence
  Profiles,      \* profiles a caller may load
  Sources,       \* the profiles and catalogs they import, by href
  Offered,       \* deviations a caller may add
  Risks,         \* risk arrays a caller may load
  Chains,        \* chains of certificates [sha, issuer, serial, notBefore]: [certs, kinds]
  Times,         \* times of evaluation
  Results,       \* what a lint may say
  Days,          \* days a report may be made on
  MaxDeviations  \* bound on the size of the store

\* A lint; a runner has no two with the same id (check_unique_ids).
IsLint(l) ==
  l \in [id : Dotted \ {<<>>}, scope : {"Certificate", "Path"}, kind : STRING,
         params : SUBSET Dotted, values : [l.params -> STRING]]

ASSUME SessionAssumption ==
  /\ CaseFold \in [DOMAIN CaseFold -> DOMAIN CaseFold]
  /\ \A c \in DOMAIN CaseFold : CaseFold[CaseFold[c]] = CaseFold[c]
  /\ Registry \in Seq(ToSet(Registry))
  /\ \A i, j \in DOMAIN Registry : Registry[i].id = Registry[j].id => i = j
  /\ \A i \in DOMAIN Registry : IsLint(Registry[i])
  /\ IsFiniteSet(DOMAIN Sources)
  /\ \A p \in Profiles \cup {Sources[h] : h \in DOMAIN Sources} : IsSource(p)
  \* "absent" stands for a field that is not there: nobody's text.
  /\ \A d \in Offered : d \in Deviation /\ "absent" \notin {d.id, d.just, d.auth} /\ d.target # <<"absent">>
  /\ \A json \in Risks : json.form = "array" =>
       IsArray(json) /\ \A i \in DOMAIN json.items : IsRisk(json.items[i])
  /\ \A c \in Chains : /\ c.certs \in Seq(Cert)
                      /\ c.kinds \in Seq(STRING) /\ Len(c.kinds) = Len(c.certs)
  /\ Times \subseteq Nat /\ Days \subseteq Nat /\ Results \subseteq STRING

VARIABLES
  lints,    \* LintRunner::lints
  store,    \* DeviationStore::deviations
  written,  \* the same deviations as their authors wrote them
  plan,     \* the profile resolved, and how far it is applied
  out       \* the last call and what it returned

vars == <<lints, store, written, plan, out>>

\* SubjectKind::matches
KindMatches(kind, filter) ==
  CASE filter = "Any" -> TRUE
    [] filter = "IntermediateCa" -> kind \in {"IntermediateCa", "AnchorIssued"}
    [] OTHER -> kind = filter

-----------------------------------------------------------------------------
(***************************************************************************)
(* The runner.  said[lint][item] is what a lint says of an item.           *)
(***************************************************************************)
\* A runner that goes on after a fatal finding.
Mut_GoesOn(results) == Len(results)

\* Where the loop over the lints ends: at the first fatal result.
StopsAt(results) ==
  LET fatal == {i \in DOMAIN results : results[i] = "Fatal"}
  IN  IF fatal = {} THEN Len(results) ELSE CHOOSE i \in fatal : \A j \in fatal : i <= j

\* The part common to run_cert and run_path: results[i] is what mine[i] says.
Evaluate(mine, results, index, sha, now) ==
  [i \in 1..StopsAt(results) |->
     [lint |-> mine[i].id, result |-> results[i], index |-> index, sha |-> sha, at |-> now]]

OfScope(scope) == Kept(lints, {i \in DOMAIN lints : lints[i].scope = scope})

\* run_cert
RunCert(said, cert, kind, index, now) ==
  LET mine == OfScope("Certificate")
      Says(l) == IF KindMatches(kind, l.kind) THEN said[l.id][cert.sha] ELSE "NotApplicable"
  IN  Evaluate(mine, [i \in DOMAIN mine |-> Says(mine[i])], index, cert.sha, now)

\* run_path: the findings belong to no certificate.
RunPath(said, now) ==
  LET mine == OfScope("Path")
  IN  Evaluate(mine, [i \in DOMAIN mine |-> said[mine[i].id]["path"]], None, "none", now)

\* check_shape
CheckShape(raw) ==
  IF \E i \in DOMAIN raw : raw[i].result \in {"Error", "Fatal"} THEN "Err" ELSE "Ok"

-----------------------------------------------------------------------------
(***************************************************************************)
(* emit.rs: assessment_results.  A UUID is the hash of a namespace and a   *)
(* seed: the pair of them.                                                 *)
(***************************************************************************)
UuidV8(namespace, seed) == <<namespace, seed>>
EvidenceKey(f) == <<f.sha, f.index>>

\* Positions of the first findings of each certificate, or of the path.
EvidenceIndex(findings) ==
  Kept([i \in DOMAIN findings |-> i],
       {i \in DOMAIN findings : \A j \in 1..(i - 1) : EvidenceKey(findings[j]) # EvidenceKey(findings[i])})

FindingSeed(seed, i, f) == <<seed, i, f.lint, f.result, f.index, f.sha>>
RiskSeed(seed, i, df) == <<seed, i, df.lint, df.deviation, df.action.kind>>

\* civil_from_days, in unix_to_rfc3339.
CivilFromDays(days) ==
  LET z == days + 719468
      era == z \div 146097
      doe == z - era * 146097
      yoe == (doe - (doe \div 1460) + (doe \div 36524) - (doe \div 146096)) \div 365
      doy == doe - (365 * yoe + (yoe \div 4) - (yoe \div 100))
      mp == (5 * doy + 2) \div 153
      d == doy - ((153 * mp + 2) \div 5) + 1
      m == IF mp < 10 THEN mp + 3 ELSE mp - 9
  IN  <<IF m <= 2 THEN yoe + era * 400 + 1 ELSE yoe + era * 400, m, d>>

UnixToRfc3339(unix) == [date |-> CivilFromDays(unix \div 4), hour |-> (unix % 4) * 6]

AssessmentResults(length, at, findings, deviated) ==
  LET seed == <<length, at>>
      index == EvidenceIndex(findings)
      Observation(f) == UuidV8("observation", <<seed, EvidenceKey(f)>>)
  IN  [uuid |-> UuidV8("report", seed), result |-> UuidV8("result", seed),
       modified |-> UnixToRfc3339(at),
       observations |-> [k \in DOMAIN index |->
          [uuid |-> Observation(findings[index[k]]), evidence |-> EvidenceKey(findings[index[k]])]],
       findings |-> [i \in DOMAIN findings |->
          [uuid |-> UuidV8("finding", FindingSeed(seed, i, findings[i])),
           lint |-> findings[i].lint, observation |-> Observation(findings[i]),
           state |-> IF IsFinding(findings[i]) THEN "not-satisfied" ELSE "satisfied"]],
       risks |-> [i \in DOMAIN deviated |->
          [uuid |-> UuidV8("risk", RiskSeed(seed, i, deviated[i])), lint |-> deviated[i].lint,
           deviation |-> deviated[i].deviation]]]

\* report.rs: has_findings and findings_at_or_above
SeverityRank(result) == CASE result = "Warn" -> 30 [] result = "Error" -> 40 [] result = "Fatal" -> 50 [] OTHER -> 0
FindingsAtOrAbove(findings, min) == Kept(findings, {i \in DOMAIN findings : SeverityRank(findings[i].result) >= min})

-----------------------------------------------------------------------------
NoPlan == [at |-> "none"]

Init ==
  /\ lints = Registry
  /\ store = <<>> /\ written = <<>>
  /\ plan = NoPlan
  /\ out = [op |-> "none"]

Busy == out.op \in {"run", "report"}

\* resolve_profile, filter_to_ids and apply_parameter_overrides are called one
\* after the other; an error ends the composition.
Resolve(p) ==
  /\ ~Busy /\ plan = NoPlan /\ store = <<>>
  /\ LET r == ResolveProfile(p, Sources)
     IN  /\ plan' = [at |-> IF r.result = "Ok" THEN "resolved" ELSE "failed",
                     profile |-> p, ids |-> r.ids, overrides |-> r.overrides]
         /\ out' = [op |-> "resolve", result |-> r.result]
  /\ UNCHANGED <<lints, store, written>>

Filter ==
  /\ plan.at = "resolved"
  /\ LET r == FilterToIds(lints, plan.ids)
     IN  /\ lints' = r.lints
         /\ plan' = [plan EXCEPT !.at = IF r.result = "Ok" THEN "filtered" ELSE "failed"]
         /\ out' = [op |-> "filter", result |-> r.result]
  /\ UNCHANGED <<store, written>>

Override ==
  /\ plan.at = "filtered"
  /\ LET r == ApplyParameterOverrides(lints, plan.overrides)
     IN  /\ lints' = r.lints
         /\ plan' = [plan EXCEPT !.at = IF r.result = "Ok" THEN "applied" ELSE "failed"]
         /\ out' = [op |-> "override", result |-> r.result, before |-> lints]
  /\ UNCHANGED <<store, written>>

\* A runner composed of nothing but the ids of its own catalog.
ReloadCatalog ==
  /\ ~Busy /\ out.op # "catalog" /\ store = <<>>
  /\ LET doc == CatalogFromLints(lints)
         r == FilterToIds(lints, LintIdsFromCatalog(doc))
     IN  /\ FirstError(CatalogChecks(doc)) = "Ok"
         /\ lints' = r.lints
         /\ out' = [op |-> "catalog", result |-> r.result, before |-> lints]
  /\ UNCHANGED <<store, written, plan>>

\* filter_to_ids consumes the runner: a composition that fails ends the session.
Settled == plan.at \in {"none", "applied"}

\* Deviation::new and DeviationStore::add
AddDeviation(d) ==
  /\ ~Busy /\ Settled /\ Len(store) < MaxDeviations
  /\ LET result == FirstError(NewChecks(d) \o AddChecks(store, d))
     IN  /\ store' = IF result = "Ok" THEN Add(store, d) ELSE store
         /\ written' = IF result = "Ok" THEN Append(written, d) ELSE written
         /\ out' = [op |-> "add", result |-> result]
  /\ UNCHANGED <<lints, plan>>

\* risks_from_store, and deviation_store_from_risks of what it wrote.
SaveAndLoad ==
  /\ ~Busy /\ Settled /\ store # <<>> /\ out.op # "load"
  /\ LET r == StoreFromRisks(RisksFromStore(store))
     IN  /\ store' = IF r.result = "Ok" THEN r.store ELSE store
         /\ out' = [op |-> "load", result |-> r.result]
  /\ UNCHANGED <<lints, written, plan>>

\* deviation_store_from_risks of a file somebody wrote.
LoadRisks(json) ==
  /\ ~Busy /\ Settled /\ store = <<>>
  /\ LET r == StoreFromRisks(json)
     IN  /\ store' = r.store
         /\ written' = IF r.result # "Ok" THEN <<>>
                       ELSE [i \in DOMAIN json.items |-> ParseRisk(json.items[i])]
         /\ out' = [op |-> "read", result |-> r.result]
  /\ UNCHANGED <<lints, plan>>

\* What the lints of a scope say, item by item.
Opinions(scope, items) ==
  [{l.id : l \in {k \in ToSet(lints) : k.scope = scope}} -> [items -> Results]]

RunOf(api, chain, kinds, now, raw, done) ==
  /\ out' = [op |-> "run", api |-> api, chain |-> chain, kinds |-> kinds, now |-> now, raw |-> raw,
             findings |-> done.findings, deviated |-> done.deviated, shape |-> CheckShape(raw)]
  /\ UNCHANGED <<lints, store, written, plan>>

Ready == ~Busy /\ Settled

\* DeviationRunner::run_chain; with one certificate run_cert.
RunChain(chain, kinds, now) ==
  /\ Ready
  /\ \E said \in Opinions("Certificate", {chain[i].sha : i \in DOMAIN chain}) :
       LET Raw(i) == RunCert(said, chain[i], kinds[i], i, now)
           Done(i) == ApplyDeviations(store, Raw(i), {chain[i]}, now)
       IN  RunOf("chain", chain, kinds, now,
                 FlattenSeq([i \in DOMAIN chain |-> Raw(i)]),
                 [findings |-> FlattenSeq([i \in DOMAIN chain |-> Done(i).findings]),
                  deviated |-> FlattenSeq([i \in DOMAIN chain |-> Done(i).deviated])])

\* run_cert_at_issuance: the time is the notBefore of the certificate.
RunCertAtIssuance(cert, kind) ==
  /\ Ready
  /\ \E said \in Opinions("Certificate", {cert.sha}) :
       LET raw == RunCert(said, cert, kind, 1, cert.notBefore)
       IN  RunOf("issuance", <<cert>>, <<kind>>, cert.notBefore, raw,
                 ApplyDeviations(store, raw, {cert}, cert.notBefore))

\* DeviationRunner::run_path
RunWholePath(chain, now) ==
  /\ Ready
  /\ \E said \in Opinions("Path", {"path"}) :
       LET raw == RunPath(said, now)
       IN  RunOf("path", chain, <<>>, now, raw, ApplyDeviations(store, raw, ToSet(chain), now))

\* EvaluationReport::new and assessment_results
EmitReport ==
  /\ out.op = "run"
  /\ out' = [op |-> "report", run |-> out,
             doc |-> AssessmentResults(Len(out.chain), out.now, out.findings, out.deviated)]
  /\ UNCHANGED <<lints, store, written, plan>>

Next ==
  \/ \E p \in Profiles : Resolve(p)
  \/ Filter
  \/ Override
  \/ ReloadCatalog
  \/ \E d \in Offered : AddDeviation(d)
  \/ SaveAndLoad
  \/ \E json \in Risks : LoadRisks(json)
  \/ \E c \in Chains, now \in Times : RunChain(c.certs, c.kinds, now) \/ RunWholePath(c.certs, now)
  \/ \E c \in Chains : c.certs # <<>> /\ RunCertAtIssuance(c.certs[1], c.kinds[1])
  \/ EmitReport

Spec == Init /\ [][Next]_vars

-----------------------------------------------------------------------------
(***************************************************************************)
(* What a deviation covers, as its author wrote it.                        *)
(***************************************************************************)
Number(bytes) ==
  LET val[n \in 0..Len(bytes)] == IF n = 0 THEN 0 ELSE val[n - 1] * 256 + bytes[n]
  IN  val[Len(bytes)]

Covers(d, cert) ==
  LET p == d.scope.props
  IN  CASE d.scope.kind = "any" -> TRUE
        [] d.scope.kind = "contains" ->
             Occurs(ToLowercase(p["substring"].value), ToLowercase(cert.issuer))
        [] d.scope.kind \in {"exact", "range"} ->
             /\ FromDer(p["der"].value) /\ ToLowercase(p["der"].value) = ToLowercase(cert.issuer)
             /\ d.scope.kind = "range" =>
                  /\ Number(p["start"].value) <= Number(cert.serial)
                  /\ Number(cert.serial) <= Number(p["end"].value)
        [] OTHER -> FALSE

\* The certificates a finding of the run is about.
About(run, f) == IF f.index = None THEN ToSet(run.chain) ELSE {run.chain[f.index]}

\* The deviations that waive a finding, by their places in the store.
Waivers(run, f) ==
  {k \in DOMAIN written :
     /\ written[k].target = f.lint
     /\ written[k].start <= run.now /\ (written[k].end = None \/ run.now < written[k].end)
     /\ \E c \in About(run, f) : Covers(written[k], c)}

(***************************************************************************)
(* Deviations waive what their authors wrote and nothing else: a finding   *)
(* of the raw run is deviated exactly if a deviation that was added or     *)
(* loaded targets its lint, is in time and covers a certificate of the     *)
(* item, and of several the one with the highest priority, then the oldest *)
(* is named.  About add, the store's normalisation, saving and loading,    *)
(* scope matching, serial_cmp and find_deviation(_for_chain).              *)
(***************************************************************************)
DeviationsAreExact ==
  out.op = "run" =>
    \A i \in DOMAIN out.raw :
      LET f == out.raw[i]
          W == Waivers(out, f)
          named == {out.deviated[k].deviation :
                      k \in {n \in DOMAIN out.deviated :
                               out.deviated[n].lint = f.lint /\ out.deviated[n].index = f.index}}
      IN  IF IsFinding(f) /\ W # {}
            THEN \E k \in W :
                   /\ named = {written[k].id}
                   /\ \A j \in W : written[j].priority <= written[k].priority
                   /\ \A j \in W : written[j].priority = written[k].priority => k <= j
                   /\ \E n \in DOMAIN ActiveForLint(store, f.lint, out.now) :
                        ActiveForLint(store, f.lint, out.now)[n].id = written[k].id
                   /\ \A n \in DOMAIN ExpiredAt(store, out.now) :
                        ExpiredAt(store, out.now)[n].id # written[k].id
            ELSE named = {} /\ f \in ToSet(out.findings)

(***************************************************************************)
(* Nothing is laundered: every lint of the runner has one result for every *)
(* item of its scope, unless a fatal one came before it on the same item,  *)
(* and each result is in exactly one of the two lists that are reported.   *)
(* About the loops of run_cert, run_path and apply_deviations.             *)
(***************************************************************************)
NothingVanishes ==
  out.op = "run" =>
    /\ Len(out.findings) + Len(out.deviated) = Len(out.raw)
    /\ LET Items == IF out.api = "path" THEN {None} ELSE DOMAIN out.chain
           scope == IF out.api = "path" THEN "Path" ELSE "Certificate"
           At(i, l) == {k \in DOMAIN out.raw : out.raw[k].index = i /\ out.raw[k].lint = l}
       IN  \A i \in Items, l \in {n \in DOMAIN lints : lints[n].scope = scope} :
             LET fatalBefore == \E n \in 1..(l - 1) : \E k \in At(i, lints[n].id) : out.raw[k].result = "Fatal"
             IN  Cardinality(At(i, lints[l].id)) = IF fatalBefore THEN 0 ELSE 1

(***************************************************************************)
(* A saved store loads, unless a scope in it is of a kind of its own or    *)
(* names an issuer that does not decode.  About risks_from_store and       *)
(* deviation_store_from_risks.                                             *)
(***************************************************************************)
SavedStoresLoad ==
  (out.op = "load" /\ out.result # "Ok") =>
    \E i \in DOMAIN store :
      \/ store[i].scope.kind \notin ScopeKinds
      \/ store[i].scope.kind \in {"exact", "range"} /\ ~FromDer(store[i].scope.props["der"].value)

\* Profiles reached from a source, and the ones on a cycle.
Imports(p) == {p.imports.items[i].href : i \in DOMAIN p.imports.items}
IsProfile(href) == href \in DOMAIN Sources /\ Sources[href].form = "object" /\ Sources[href].wrapper = "profile"
Reached(hrefs) ==
  LET step[n \in 0..Cardinality(DOMAIN Sources)] ==
        IF n = 0 THEN {h \in hrefs : IsProfile(h)}
        ELSE step[n - 1] \cup {h \in UNION {Imports(Sources[g]) : g \in step[n - 1]} : IsProfile(h)}
  IN  step[Cardinality(DOMAIN Sources)]

(***************************************************************************)
(* A profile is refused for a cycle exactly if one of the profiles it      *)
(* imports, directly or not, imports itself: the same profile reached      *)
(* along two ways is no cycle.  About the stack of resolve_profile_inner;  *)
(* for profiles with no other fault.                                       *)
(***************************************************************************)
CyclesAreCycles ==
  (out.op = "resolve" /\ out.result \in {"Ok", "ProfileImportCycle"}) =>
    (out.result = "ProfileImportCycle" <=>
       \E h \in Reached(Imports(plan.profile)) : h \in Reached(Imports(Sources[h])))

(***************************************************************************)
(* Overrides are applied as a whole or not at all: each parameter that the *)
(* outermost profile sets has in the end the value it sets last, in the    *)
(* lint with the longest id that its name starts with, and no parameter    *)
(* changes but those the overrides name.  About apply_parameter_overrides  *)
(* and the order of resolve_profile's overrides.                           *)
(***************************************************************************)
OverridesAreAtomic ==
  out.op = "override" =>
    IF out.result # "Ok" THEN lints = out.before
    ELSE /\ plan.profile.modify.form = "array" =>
              LET own == plan.profile.modify.items
              IN  \A k \in DOMAIN own : (\A j \in DOMAIN own : k < j => own[j].id # own[k].id) =>
                    \E i \in DOMAIN lints : \E name \in lints[i].params :
                      /\ own[k].id = lints[i].id \o name
                      /\ lints[i].values[name] = own[k].values
                      /\ \A j \in DOMAIN lints : IsStrictPrefix(lints[j].id, own[k].id) =>
                           Len(lints[j].id) <= Len(lints[i].id)
         /\ \A i \in DOMAIN lints : \A name \in lints[i].params :
              lints[i].values[name] # out.before[i].values[name] =>
                \E n \in DOMAIN plan.overrides :
                  /\ plan.overrides[n].param = lints[i].id \o name
                  /\ plan.overrides[n].value = lints[i].values[name]

(***************************************************************************)
(* A runner rebuilt from its own catalog is the same runner, parameters    *)
(* and order included.  About filter_to_ids, which goes through a hash     *)
(* map.                                                                    *)
(***************************************************************************)
CatalogIsFaithful == out.op = "catalog" => out.result = "Ok" /\ lints = out.before

(***************************************************************************)
(* A report is consistent: no two of its parts share a UUID, every finding *)
(* refers to the observation of its own evidence, and it counts as         *)
(* unsatisfied exactly the findings at or above the lowest severity.       *)
(***************************************************************************)
ReportIsConsistent ==
  out.op = "report" =>
    LET doc == out.doc
        parts == doc.observations \o doc.findings \o doc.risks
        uuids == {parts[i].uuid : i \in DOMAIN parts}
    IN  /\ Cardinality(uuids) = Len(parts)
        /\ \A i \in DOMAIN doc.findings : \E k \in DOMAIN doc.observations :
             /\ doc.findings[i].observation = doc.observations[k].uuid
             /\ doc.observations[k].evidence = EvidenceKey(out.run.findings[i])
        /\ Len(Kept(doc.findings, {i \in DOMAIN doc.findings : doc.findings[i].state = "not-satisfied"}))
             = Len(FindingsAtOrAbove(out.run.findings, 30))

\* The Gregorian calendar.
Leap(y) == y % 4 = 0 /\ (y % 100 # 0 \/ y % 400 = 0)
MonthDays(y, m) ==
  CASE m \in {4, 6, 9, 11} -> 30 [] m = 2 -> IF Leap(y) THEN 29 ELSE 28 [] OTHER -> 31
DayNumber(date) ==
  LET years == 1970..(date[1] - 1)
      months[m \in 0..12] == IF m = 0 THEN 0 ELSE months[m - 1] + MonthDays(date[1], m)
  IN  365 * Cardinality(years) + Cardinality({y \in years : Leap(y)})
        + months[date[2] - 1] + date[3] - 1

(***************************************************************************)
(* The date in a report is the day it was made on, leap days and the ends  *)
(* of centuries included.  About unix_to_rfc3339.                          *)
(***************************************************************************)
DatesAreRight ==
  out.op = "none" =>
    \A day \in Days :
      LET date == UnixToRfc3339(4 * day + 3).date
      IN  /\ date[2] \in 1..12 /\ date[3] \in 1..MonthDays(date[1], date[2])
          /\ DayNumber(date) = day

(***************************************************************************)
(* A profile gives a runner what it says, or is refused for what is wrong  *)
(* with it: cycles, overrides and the runner rebuilt from its own catalog. *)
(***************************************************************************)
ProfilesResolveExactly == CyclesAreCycles /\ OverridesAreAtomic /\ CatalogIsFaithful

(***************************************************************************)
(* The documents a session writes say what the session did and can be read *)
(* again: stored deviations, reports and their dates.                      *)
(***************************************************************************)
DocumentsAreExact == SavedStoresLoad /\ ReportIsConsistent /\ DatesAreRight

=============================================================================
