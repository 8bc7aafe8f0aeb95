--------------------------------- MODULE Oscal --------------------------------
(***************************************************************************)
(* pkix-lint/src/oscal: deviations saved as risks and read back, lints     *)
(* published as a catalog, and profiles resolved into a selection of lints *)
(* and the parameters to set.                                              *)
(*                                                                         *)
(* A JSON value is a record: "form" tells an object or an array from       *)
(* anything else, and a field that is absent has the form, or the value,   *)
(* "absent".  A lint is [id, scope, kind, params, values]; its id and the  *)
(* names of its parameters are sequences, the parts between the dots.      *)
(***************************************************************************)
EXTENDS Deviations

CONSTANT Accepts   \* whether a lint takes a value for a parameter

IsArray(json) == json.items \in Seq(ToSet(json.items))

\* What the fields of a document hold when they are of their own form.
IsSubject(s) ==
  s.form = "object" =>
    /\ s.kind \in STRING
    /\ \A n \in CASE s.kind = "contains" -> {"substring"} [] s.kind = "exact" -> {"der"}
               [] s.kind = "range" -> {"der", "start", "end"} [] OTHER -> {} :
         /\ s.props[n].form \in {"absent", "hex", "text"}
         /\ s.props[n].form # "absent" =>
              s.props[n].value \in IF n \in {"start", "end"} THEN Octets ELSE Letters

IsRisk(r) ==
  r.form = "object" =>
    /\ {r.id, r.auth, r.description, r.evidence} \subseteq STRING /\ r.target \in Dotted
    /\ {r.start, r.end} \subseteq Times64 \cup {Malformed}
    /\ r.action \in [kind : STRING \ {"downgrade"}] \cup [kind : {"downgrade"}, to : STRING]
    /\ r.priority \in [form : {"absent", "malformed"}] \cup [form : {"number"}, value : Int]
    /\ r.subjects.form = "array" =>
         IsArray(r.subjects) /\ \A i \in DOMAIN r.subjects.items : IsSubject(r.subjects.items[i])

IsControl(c) == c.form = "object" => c.id \in Dotted
IsSetParameter(p) == p.form = "object" => p.id \in Dotted /\ p.values \in STRING
IsSource(d) ==
  d.form = "object" =>
    /\ d.wrapper = "catalog" /\ d.controls.form = "array" =>
         IsArray(d.controls) /\ \A i \in DOMAIN d.controls.items : IsControl(d.controls.items[i])
    /\ d.wrapper = "profile" /\ d.imports.form = "array" => IsArray(d.imports)
    /\ d.wrapper = "profile" /\ d.modify.form = "array" =>
         IsArray(d.modify) /\ \A i \in DOMAIN d.modify.items : IsSetParameter(d.modify.items[i])

-----------------------------------------------------------------------------
(***************************************************************************)
(* emit.rs: risk_for_deviation and encode_scope                            *)
(***************************************************************************)
\* Hexadecimal digits, or the text: a property of a risk is untyped.
EncodeScope(scope) ==
  [form |-> "object", kind |-> scope.kind,
   props |-> [n \in ScopeProps |->
      IF scope.props[n].type = "absent" THEN [form |-> "absent"]
      ELSE [form |-> IF scope.props[n].type = "Bytes" THEN "hex" ELSE "text",
            value |-> scope.props[n].value]]]

\* A risk with a property for a time that is not given.
Mut_RiskWithNullTimes(d) ==
  [form |-> "object", status |-> "deviation-approved", description |-> d.just,
   id |-> d.id, target |-> d.target, action |-> d.action, auth |-> d.auth,
   start |-> IF d.start = None THEN Malformed ELSE d.start, end |-> d.end,
   priority |-> [form |-> "absent"],
   subjects |-> [form |-> "array", items |-> <<EncodeScope(d.scope)>>], evidence |-> d.evidence]

\* A priority of 0 is left out, and so are times that are not given.
RiskForDeviation(d) ==
  [form |-> "object", status |-> "deviation-approved", description |-> d.just,
   id |-> d.id, target |-> d.target, action |-> d.action, auth |-> d.auth,
   start |-> d.start, end |-> d.end,
   priority |-> IF d.priority = 0 THEN [form |-> "absent"]
                ELSE [form |-> "number", value |-> d.priority],
   subjects |-> [form |-> "array", items |-> <<EncodeScope(d.scope)>>], evidence |-> d.evidence]

RisksFromStore(store) ==
  [form |-> "array", items |-> [i \in DOMAIN store |-> RiskForDeviation(store[i])]]

-----------------------------------------------------------------------------
(***************************************************************************)
(* parse.rs: parse_risk and parse_subject                                  *)
(***************************************************************************)
\* hex_decode and decode_name of one property; a name must be one.
BytesChecks(s, name) ==
  << <<s.props[name].form = "absent", "MissingSubjectProp">>,
     <<s.props[name].form # "hex", "MalformedHex">>,
     <<name = "der" /\ s.props[name].form = "hex" /\ ~FromDer(s.props[name].value), "MalformedDer">> >>

SubjectChecks(s) ==
  IF s.form # "object" THEN << <<TRUE, "SubjectNotObject">> >>
  ELSE CASE s.kind = "absent"   -> << <<TRUE, "SubjectMissingType">> >>
         [] s.kind = "any"      -> <<>>
         [] s.kind = "contains" -> << <<s.props["substring"].form = "absent", "MissingSubjectProp">> >>
         [] s.kind = "exact"    -> BytesChecks(s, "der")
         [] s.kind = "range"    -> BytesChecks(s, "der") \o BytesChecks(s, "start") \o BytesChecks(s, "end")
         [] OTHER               -> << <<TRUE, "UnknownSubjectType">> >>

\* The scope of a subject: only what its kind has is read.
ParseSubject(s) ==
  LET Wanted == CASE s.kind = "contains" -> {"substring"} [] s.kind = "exact" -> {"der"}
                  [] s.kind = "range" -> {"der", "start", "end"} [] OTHER -> {}
  IN  [kind |-> s.kind,
       props |-> [n \in ScopeProps |->
          IF n \in Wanted
            THEN [type |-> IF n = "substring" THEN "Text" ELSE "Bytes", value |-> s.props[n].value]
            ELSE [type |-> "absent"]]]

\* required_nonempty_prop
Required(isAbsent, isEmpty) == << <<isAbsent, "MissingProp">>, <<isEmpty, "EmptyProp">> >>

RiskChecks(r) ==
  IF r.form # "object" THEN << <<TRUE, "RiskNotObject">> >>
  ELSE << <<r.status # "deviation-approved", "InvalidStatus">>,
          <<r.description = "absent", "MissingDescription">> >>
       \o Required(r.id = "absent", r.id = "")
       \o Required(r.target = <<"absent">>, r.target = <<>>)
       \o Required(r.action.kind = "absent", r.action.kind = "")
       \o << <<r.action.kind \notin {"suppress", "downgrade"}, "UnknownAction">>,
             <<r.action.kind = "downgrade" /\ r.action.to \notin Severities, "UnknownAction">> >>
       \o Required(r.auth = "absent", r.auth = "")
       \o << <<r.start = Malformed, "InvalidU64">>, <<r.end = Malformed, "InvalidU64">>,
             <<r.priority.form = "malformed", "InvalidI32">>,
             <<r.subjects.form # "array", "SubjectsNotArray">>,
             <<r.subjects.form = "array" /\ r.subjects.items = <<>>, "MissingSubject">> >>
       \o IF r.subjects.form = "array" /\ r.subjects.items # <<>>
            THEN SubjectChecks(Head(r.subjects.items)) ELSE <<>>

ParseRisk(r) ==
  [id |-> r.id, target |-> r.target, scope |-> ParseSubject(Head(r.subjects.items)),
   start |-> r.start, end |-> r.end, action |-> r.action, just |-> r.description,
   auth |-> r.auth, evidence |-> r.evidence,
   priority |-> IF r.priority.form = "absent" THEN 0 ELSE r.priority.value]

\* deviation_store_from_risks: the first risk that is refused ends it.  The
\* result is [result, store].
StoreFromRisks(json) ==
  LET At[n \in 0..Len(json.items)] ==
        IF n = 0 THEN [result |-> "Ok", store |-> <<>>]
        ELSE IF At[n - 1].result # "Ok" THEN At[n - 1]
        ELSE LET parsed == FirstError(RiskChecks(json.items[n]))
                 d == ParseRisk(json.items[n])
             IN  IF parsed # "Ok" THEN [result |-> parsed, store |-> <<>>]
                 ELSE IF FirstError(AddChecks(At[n - 1].store, d)) # "Ok"
                        THEN [result |-> "AddFailed", store |-> <<>>]
                 ELSE [result |-> "Ok", store |-> Add(At[n - 1].store, d)]
  IN  IF json.form # "array" THEN [result |-> "NotArray", store |-> <<>>]
      ELSE At[Len(json.items)]

-----------------------------------------------------------------------------
(***************************************************************************)
(* catalog.rs and lint_ids_from_catalog                                    *)
(***************************************************************************)
Supported == {"1.1.2"}

CatalogFromLints(lints) ==
  [form |-> "object", wrapper |-> "catalog", version |-> "1.1.2",
   controls |-> [form |-> "array",
                 items |-> [i \in DOMAIN lints |->
                    [form |-> "object", idForm |-> "string", id |-> lints[i].id,
                     params |-> {lints[i].id \o p : p \in lints[i].params}]]]]

\* check_oscal_version
VersionChecks(doc) ==
  << <<doc.version = "absent", "MissingOscalVersion">>,
     <<doc.version \notin Supported, "UnsupportedOscalVersion">> >>

ControlChecks(c) ==
  IF c.form # "object" THEN << <<TRUE, "ControlNotObject">> >>
  ELSE << <<c.idForm = "absent", "ControlMissingId">>,
          <<c.idForm # "string", "ControlIdNotString">>,
          <<c.id = <<>>, "ControlIdEmpty">> >>

CatalogChecks(doc) ==
  IF doc.form # "object" THEN << <<TRUE, "CatalogNotObject">> >>
  ELSE IF doc.wrapper # "catalog" THEN << <<TRUE, "CatalogMissingWrapper">> >>
  ELSE VersionChecks(doc)
       \o IF doc.controls.form # "array" THEN << <<TRUE, "ControlsNotArray">> >>
          ELSE FlattenSeq([i \in DOMAIN doc.controls.items |-> ControlChecks(doc.controls.items[i])])

LintIdsFromCatalog(doc) == [i \in DOMAIN doc.controls.items |-> doc.controls.items[i].id]

-----------------------------------------------------------------------------
(***************************************************************************)
(* profile.rs.  An import is [form, href, all, include, exclude]; include  *)
(* and exclude are [form, ids].  A parameter of a profile is [form, id,    *)
(* values].                                                                *)
(***************************************************************************)
\* Each element once, where it comes first, and none that was seen.
Fresh(s, seen) == Kept(s, {i \in DOMAIN s : s[i] \notin seen /\ \A j \in 1..(i - 1) : s[j] # s[i]})

\* The directives of one import, read in order.
ImportChecks(imp, sources) ==
  IF imp.form # "object" THEN << <<TRUE, "ProfileImportNotObject">> >>
  ELSE << <<imp.href = "absent", "ProfileImportMissingHref">>,
          <<imp.href = "malformed", "ProfileImportHrefNotString">>,
          <<imp.href = "", "ProfileImportHrefEmpty">>,
          <<imp.href \notin DOMAIN sources, "ProfileImportUnresolved">> >>

DirectiveChecks(imp) ==
  << <<~imp.all /\ imp.include.form = "malformed", "ProfileIncludeControlsNotArray">>,
     <<~imp.all /\ imp.include.form = "badEntry", "ProfileWithIdsEntryNotObject">>,
     <<~imp.all /\ imp.include.form = "badIds", "ProfileWithIdsNotArray">>,
     <<imp.exclude.form = "malformed", "ProfileExcludeControlsNotArray">>,
     <<imp.exclude.form = "badEntry", "ProfileWithIdsEntryNotObject">>,
     <<imp.exclude.form = "badIds", "ProfileWithIdsNotArray">> >>

\* Everything, or what is listed, and then without what is excluded.
Selected(imp, available) ==
  LET Wanted(id) == imp.all \/ (imp.include.form = "array" /\ id \in imp.include.ids)
      Excluded(id) == imp.exclude.form = "array" /\ id \in imp.exclude.ids
  IN  Kept(available, {i \in DOMAIN available : Wanted(available[i]) /\ ~Excluded(available[i])})

SetParameterChecks(p) ==
  IF p.form # "object" THEN << <<TRUE, "ProfileSetParameterNotObject">> >>
  ELSE << <<p.id = <<"absent">>, "ProfileSetParameterMissingId">>,
          <<p.id = <<>>, "ProfileSetParameterIdEmpty">>,
          <<p.values = "absent", "ProfileSetParameterValuesNotArray">>,
          <<p.values = "", "ProfileSetParameterValuesEmpty">>,
          <<p.values = "malformed", "ProfileSetParameterValueNotString">> >>

ProfileChecks(p) ==
  IF p.form # "object" THEN << <<TRUE, "ProfileNotObject">> >>
  ELSE IF p.wrapper # "profile" THEN << <<TRUE, "ProfileMissingWrapper">> >>
  ELSE VersionChecks(p) \o << <<p.imports.form # "array", "ProfileImportsNotArray">> >>

\* The hrefs that are being resolved when the profile imported by href is done.
Popped(stack, href) == stack \ {href}

Resolved(ids, overrides) == [result |-> "Ok", ids |-> ids, overrides |-> overrides]
Refused(error) == [result |-> error, ids |-> <<>>, overrides |-> <<>>]

IsA(source, wrapper) == source.form = "object" /\ source.wrapper = wrapper

\* What an import brings: a catalog its controls, a profile what it resolves
\* to, nested[stack][href], with the hrefs that are being resolved then.
Imported(imp, sources, stack, nested) ==
  LET checked == FirstError(ImportChecks(imp, sources))
      source == sources[imp.href]
      catalog == FirstError(CatalogChecks(source))
  IN  IF checked # "Ok" THEN Refused(checked)
      ELSE IF IsA(source, "profile")
        THEN IF imp.href \in stack THEN Refused("ProfileImportCycle")
             ELSE nested[stack \cup {imp.href}][imp.href]
      ELSE IF IsA(source, "catalog")
        THEN IF catalog = "Ok" THEN Resolved(LintIdsFromCatalog(source), <<>>) ELSE Refused(catalog)
      ELSE Refused("ProfileImportSourceUnknown")

\* One import more, after the ones that brought acc.
ResolveImport(imp, inner, acc) ==
  LET bad == IF inner.result = "Ok" THEN FirstError(DirectiveChecks(imp)) ELSE inner.result
  IN  IF bad # "Ok" THEN Refused(bad)
      ELSE Resolved(acc.ids \o Fresh(Selected(imp, inner.ids), ToSet(acc.ids)),
                    acc.overrides \o inner.overrides)

ParameterChecks(modify) ==
  IF modify.form = "array"
    THEN FlattenSeq([i \in DOMAIN modify.items |-> SetParameterChecks(modify.items[i])])
  ELSE << <<modify.form # "absent", "ProfileSetParametersNotArray">> >>

\* The loop over the imports of a profile.
ResolveImports(imports, sources, stack, nested) ==
  LET At[n \in 0..Len(imports)] ==
        IF n = 0 THEN [stack |-> stack, acc |-> Resolved(<<>>, <<>>)]
        ELSE IF At[n - 1].acc.result # "Ok" THEN At[n - 1]
        ELSE LET imp == imports[n]
                 open == At[n - 1].stack
                 acc == ResolveImport(imp, Imported(imp, sources, open, nested), At[n - 1].acc)
             IN  [stack |-> IF acc.result = "Ok" /\ IsA(sources[imp.href], "profile")
                              THEN Popped(open \cup {imp.href}, imp.href) ELSE open,
                  acc |-> acc]
  IN  At[Len(imports)].acc

\* resolve_profile_inner: the overrides of the imports, then its own.
ResolveInner(p, sources, stack, nested) ==
  LET checked == FirstError(ProfileChecks(p))
      imported == ResolveImports(p.imports.items, sources, stack, nested)
      params == FirstError(ParameterChecks(p.modify))
  IN  IF checked # "Ok" THEN Refused(checked)
      ELSE IF imported.result # "Ok" THEN imported
      ELSE IF params # "Ok" THEN Refused(params)
      ELSE IF p.modify.form = "absent" THEN imported
      ELSE [imported EXCEPT !.overrides =
              @ \o [i \in DOMAIN p.modify.items |->
                      [param |-> p.modify.items[i].id, value |-> p.modify.items[i].values]]]

\* What the profiles among the sources resolve to, stack being resolved already.
\* An import that is followed is one more on the stack: none is deeper than
\* there are sources, and the last level is never asked.
Nested(sources) ==
  LET level[n \in 0..Cardinality(DOMAIN sources)] ==
        [stack \in SUBSET DOMAIN sources |-> [href \in DOMAIN sources |->
           IF n = 0 THEN Refused("ProfileImportCycle")
           ELSE ResolveInner(sources[href], sources, stack, level[n - 1])]]
  IN  level[Cardinality(DOMAIN sources)]

ResolveProfile(p, sources) == ResolveInner(p, sources, {}, Nested(sources))

-----------------------------------------------------------------------------
(***************************************************************************)
(* lib.rs: filter_to_ids and apply_parameter_overrides                     *)
(***************************************************************************)
\* filter_to_ids: in the order of the ids, each lint once.
FilterToIds(lints, ids) ==
  LET once == Fresh(ids, {})
      Lint(id) == CHOOSE l \in ToSet(lints) : l.id = id
  IN  IF \E i \in DOMAIN ids : \A j \in DOMAIN lints : lints[j].id # ids[i]
        THEN [result |-> "UnknownLintId", lints |-> lints]
        ELSE [result |-> "Ok", lints |-> [i \in DOMAIN once |-> Lint(once[i])]]

\* The lint with the longest such id, 0 if there is none.
OwnerOf(lints, param) ==
  LET owners == {i \in DOMAIN lints : IsStrictPrefix(lints[i].id, param)}
  IN  IF owners = {} THEN 0
      ELSE CHOOSE i \in owners : \A j \in owners : Len(lints[i].id) >= Len(lints[j].id)

Unqualified(lints, param) ==
  SubSeq(param, Len(lints[OwnerOf(lints, param)].id) + 1, Len(param))

\* Lint::set_parameter
SetParameterError(lint, name, value) ==
  FirstError(<< <<name \notin lint.params, "UnknownParameter">>,
                <<~Accepts[value], "InvalidValue">> >>)

\* Overrides applied to the lints themselves, up to the first that fails.
Mut_AppliedInPlace(old, new, result) == new

\* The clones take the place of the lints only if every override worked.
Committed(old, new, result) == IF result = "Ok" THEN new ELSE old

\* Those of the first overrides that set a parameter of a lint.
Setters(lints, overrides, last, i, name) ==
  {n \in 1..last : OwnerOf(lints, overrides[n].param) = i /\ Unqualified(lints, overrides[n].param) = name}

\* The last of them decides.
Value(lints, overrides, last, i, name) ==
  LET S == Setters(lints, overrides, last, i, name)
  IN  IF S = {} THEN lints[i].values[name] ELSE overrides[CHOOSE n \in S : \A k \in S : k <= n].value

Clones(lints, overrides, last) ==
  [i \in DOMAIN lints |->
     [lints[i] EXCEPT !.values = [name \in DOMAIN @ |-> Value(lints, overrides, last, i, name)]]]

ApplyParameterOverrides(lints, overrides) ==
  LET Owner(o) == OwnerOf(lints, o.param)
      Sets(o) == SetParameterError(lints[Owner(o)], Unqualified(lints, o.param), o.value)
      bad == {n \in DOMAIN overrides : Sets(overrides[n]) # "Ok"}
      last == IF bad = {} THEN Len(overrides) ELSE (CHOOSE n \in bad : \A k \in bad : n <= k) - 1
      result == IF bad = {} THEN "Ok" ELSE "InvalidParameterOverride"
  IN  IF \E n \in DOMAIN overrides : Owner(overrides[n]) = 0
        THEN [result |-> "UnknownParameterOverride", lints |-> lints]
        ELSE [result |-> result, lints |-> Committed(lints, Clones(lints, overrides, last), result)]

=============================================================================
