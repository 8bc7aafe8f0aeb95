---------------------------- MODULE MCLintSession ----------------------------
(***************************************************************************)
(* Small instances of LintSession: three lints, of which the id of one     *)
(* starts the id of another, two certificates of issuers that differ in    *)
(* case only, and deviations of every scope that overlap in pairs.         *)
(***************************************************************************)
EXTENDS LintSession, TLC

MCCaseFold == [c \in {"a", "A", "b", "B", "?"} |-> CASE c = "A" -> "a" [] c = "B" -> "b" [] OTHER -> c]
MCAccepts == [v \in {"lax", "strict", "odd", "malformed", "absent", ""} |-> v \in {"lax", "strict"}]

Lint(id, scope, kind, params) ==
  [id |-> id, scope |-> scope, kind |-> kind, params |-> params, values |-> [p \in params |-> "lax"]]

MCRegistry == << Lint(<<"x">>, "Certificate", "Any", {<<"y", "limit">>}),
                 Lint(<<"x", "y">>, "Certificate", "IntermediateCa", {<<"limit">>, <<"mode">>}),
                 Lint(<<"p">>, "Path", "Any", {}) >>

-----------------------------------------------------------------------------
Absent == [form |-> "absent"]
NoIds == [form |-> "absent", ids |-> {}]
Ids(S) == [form |-> "array", ids |-> S]
Import(href, all, include, exclude) ==
  [form |-> "object", href |-> href, all |-> all, include |-> include, exclude |-> exclude]
All(href) == Import(href, TRUE, NoIds, NoIds)
Set(id, v) == [form |-> "object", id |-> id, values |-> v]

Profile(version, imports, modify) ==
  [form |-> "object", wrapper |-> "profile", version |-> version,
   imports |-> [form |-> "array", items |-> imports], modify |-> modify]
Own(items) == [form |-> "array", items |-> items]

Control(id) == [form |-> "object", idForm |-> "string", id |-> id, params |-> {}]
Catalog(version, controls) ==
  [form |-> "object", wrapper |-> "catalog", version |-> version,
   controls |-> [form |-> "array", items |-> controls]]

\* "base" sets a parameter; "left" and "right" both import it; "loop" and
\* "pool" import each other.
MCSources ==
  [all   |-> CatalogFromLints(MCRegistry),
   newer |-> Catalog("1.1.2", <<Control(<<"x">>), Control(<<"z">>)>>),
   old   |-> Catalog("1.0.0", <<>>),
   bare  |-> Catalog("1.1.2", <<[form |-> "other"]>>),
   noid  |-> Catalog("1.1.2", <<[form |-> "object", idForm |-> "absent", id |-> <<>>]>>),
   numid |-> Catalog("1.1.2", <<[form |-> "object", idForm |-> "number", id |-> <<>>]>>),
   emptyid |-> Catalog("1.1.2", <<Control(<<>>)>>),
   noctl |-> [Catalog("1.1.2", <<>>) EXCEPT !.controls.form = "absent"],
   text  |-> [form |-> "other"],
   plain |-> [form |-> "object", wrapper |-> "absent"],
   base  |-> Profile("1.1.2", <<All("all")>>, Own(<<Set(<<"x", "y", "limit">>, "strict")>>)),
   left  |-> Profile("1.1.2", <<Import("base", FALSE, Ids({<<"x">>, <<"p">>}), NoIds)>>, Absent),
   right |-> Profile("1.1.2", <<All("base")>>, Own(<<Set(<<"x", "y", "mode">>, "strict")>>)),
   loop  |-> Profile("1.1.2", <<All("pool")>>, Absent),
   pool  |-> Profile("1.1.2", <<All("all"), All("loop")>>, Absent)]

Faulty(imp) == Profile("1.1.2", <<imp>>, Absent)

MCProfiles ==
  { Profile("1.1.2", <<All("all")>>, Absent),
    Profile("1.1.2", <<All("base"), All("base")>>, Own(<<Set(<<"x", "y", "limit">>, "lax")>>)),
    Profile("1.1.2", <<All("left"), All("right")>>, Own(<<Set(<<"x", "y", "mode">>, "lax"),
                                                         Set(<<"x", "y", "limit">>, "odd")>>)),
    Profile("1.1.2", <<Import("base", TRUE, NoIds, Ids({<<"x">>}))>>,
            Own(<<Set(<<"x", "y", "limit">>, "strict"), Set(<<"x", "y", "limit">>, "lax")>>)),
    Profile("1.1.2", <<Import("base", TRUE, NoIds, Ids({<<"x">>, <<"x", "y">>}))>>, Absent),
    Profile("1.1.2", <<All("all")>>, Own(<<Set(<<"x", "y", "limit">>, "strict")>>)),
    Profile("1.1.2", <<All("loop")>>, Absent), Profile("1.1.2", <<All("base"), All("pool")>>, Absent),
    Profile("1.1.2", <<All("newer")>>, Absent), Profile("1.1.2", <<>>, Absent),
    Profile("absent", <<>>, Absent), Profile("2.0.0", <<>>, Absent), [form |-> "other"],
    [form |-> "object", wrapper |-> "absent"],
    [Profile("1.1.2", <<>>, Absent) EXCEPT !.imports.form = "absent"],
    Faulty([form |-> "other"]), Faulty(All("absent")), Faulty(All("malformed")), Faulty(All("")),
    Faulty(All("gone")), Faulty(All("text")), Faulty(All("plain")), Faulty(All("old")),
    Faulty(All("bare")), Faulty(All("noid")), Faulty(All("numid")), Faulty(All("emptyid")),
    Faulty(All("noctl")),
    Faulty(Import("all", FALSE, NoIds, NoIds)) }
  \cup {Faulty(Import("all", FALSE, [form |-> f, ids |-> {}], NoIds)) : f \in {"malformed", "badEntry", "badIds"}}
  \cup {Faulty(Import("all", TRUE, NoIds, [form |-> f, ids |-> {}])) : f \in {"malformed", "badEntry", "badIds"}}
  \cup {Profile("1.1.2", <<All("all")>>, m) : m \in
          { [form |-> "malformed"], Own(<<[form |-> "other"]>>), Own(<<Set(<<"absent">>, "lax")>>),
            Own(<<Set(<<>>, "lax")>>), Own(<<Set(<<"p", "none">>, "lax")>>), Own(<<Set(<<"x">>, "lax")>>) }
          \cup {Own(<<Set(<<"x", "y", "limit">>, v)>>) : v \in {"absent", "", "malformed"}}}

-----------------------------------------------------------------------------
NoProps == [n \in ScopeProps |-> [type |-> "absent"]]
Text(v) == [type |-> "Text", value |-> v]
Bytes(v) == [type |-> "Bytes", value |-> v]
Scope(kind, props) == [kind |-> kind, props |-> props @@ NoProps]
ByIssuer(der) == Scope("exact", "der" :> Bytes(der))
InRange(from, to) ==
  Scope("range", "der" :> Bytes(<<"a", "b">>) @@ "start" :> Bytes(from) @@ "end" :> Bytes(to))

Suppress == [kind |-> "suppress"]
Downgrade(s) == [kind |-> "downgrade", to |-> s]
Dev(id, target, scope, start, end, priority) ==
  [id |-> id, target |-> target, scope |-> scope, start |-> start, end |-> end, priority |-> priority,
   action |-> IF priority > 0 THEN Downgrade("info") ELSE Suppress, just |-> "memo", auth |-> "ciso",
   evidence |-> IF priority > 0 THEN "uri" ELSE "absent"]

MCOffered ==
  { Dev("d1", <<"x">>, Scope("any", <<>>), None, 8, 0),
    Dev("d2", <<"x">>, Scope("contains", "substring" :> Text(<<"A">>)), 4, None, 0),
    Dev("d3", <<"x">>, ByIssuer(<<"a", "b">>), None, None, 1),
    Dev("d4", <<"x">>, InRange(<<2>>, <<0, 3>>), None, None, -1),
    Dev("d5", <<"x">>, Scope("custom", <<>>), None, None, 2),
    Dev("d6", <<"x">>, ByIssuer(Garbage), None, None, 0),
    Dev("d7", <<"p">>, Scope("contains", "substring" :> Text(<<"b", "B">>)), None, None, 0),
    Dev("d7", <<"p">>, InRange(<<0, 0, 1>>, <<1, 0>>), 4, 8, 0),
    Dev("d8", <<"x">>, Scope("contains", "substring" :> Bytes(<<"a">>)), None, None, 0),
    Dev("d8", <<"x">>, Scope("range", "der" :> Bytes(<<"a">>)), None, None, 0),
    Dev("d8", <<"x">>, Scope("exact", <<>>), None, None, 0),
    Dev("", <<"x">>, Scope("any", <<>>), None, None, 0) }

Good == RiskForDeviation(Dev("d1", <<"x">>, Scope("contains", "substring" :> Text(<<"A">>)), None, 8, 1))
Ranged == RiskForDeviation(Dev("d9", <<"x">>, InRange(<<0>>, <<1, 3>>), None, None, 0))
Subject(s) == [Good EXCEPT !.subjects.items = <<s>>]
Holding(r) == [form |-> "array", items |-> <<r>>]

MCRisks ==
  { [form |-> "other"], [form |-> "array", items |-> <<Good, Ranged>>],
    [form |-> "array", items |-> <<Good, Good>>],
    Holding([form |-> "other"]), Holding([Good EXCEPT !.status = "open"]),
    Holding([Good EXCEPT !.description = "absent"]), Holding([Good EXCEPT !.description = ""]),
    Holding([Good EXCEPT !.id = ""]), Holding([Good EXCEPT !.id = "absent"]),
    Holding([Good EXCEPT !.action = [kind |-> "waive"]]), Holding([Good EXCEPT !.action = Downgrade("none")]),
    Holding([Good EXCEPT !.auth = "absent"]), Holding([Good EXCEPT !.start = Malformed]),
    Holding([Good EXCEPT !.end = Malformed]), Holding([Good EXCEPT !.priority = [form |-> "malformed"]]),
    Holding([Good EXCEPT !.subjects = [form |-> "absent"]]), Holding([Good EXCEPT !.subjects.items = <<>>]),
    Holding(Subject([form |-> "other"])), Holding(Subject([form |-> "object", kind |-> "absent"])),
    Holding(Subject([form |-> "object", kind |-> "custom"])),
    Holding(Subject(EncodeScope(Scope("contains", <<>>)))),
    Holding(Subject(EncodeScope(Scope("exact", "der" :> Text(<<"a">>))))),
    Holding(Subject(EncodeScope(ByIssuer(<<>>)))),
    Holding(Subject(EncodeScope(Scope("range", "der" :> Bytes(<<"a">>))))) }

Leaf == [sha |-> "leaf", issuer |-> <<"A", "b">>, serial |-> <<0, 3>>, notBefore |-> 4]
Ca == [sha |-> "ca", issuer |-> <<"b">>, serial |-> <<1, 0>>, notBefore |-> 0]
MCChains ==
  { [certs |-> <<Ca>>, kinds |-> <<"AnchorIssued">>],
    [certs |-> <<Leaf, Ca>>, kinds |-> <<"Leaf", "IntermediateCa">>] }

\* Every day of the first four years, and around the ends of centuries.
MCDays == (0 .. 1500) \cup (10950 .. 11400) \cup (47480 .. 47550) \cup (157040 .. 157120)

=============================================================================
