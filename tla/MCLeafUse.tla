------------------------------- MODULE MCLeafUse -------------------------------
(***************************************************************************)
(* LeafUse for TLC.                                                        *)
(*                                                                         *)
(* Certificates differ from a good one in one or two of the things that    *)
(* some rule reads together; moduli of up to three octets stand for those  *)
(* of 256, and 16 bits for 2048.  Every way to leave pieces of an IPv6     *)
(* text of up to ten pieces empty is tried, each piece with a value of its *)
(* own.                                                                    *)
(***************************************************************************)
EXTENDS LeafUse

MCOctets == {0, 1, 19, 21, 22}
MCKinds == {"Leaf", "IntermediateCa"}

Piece == [size |-> 1, ascii |-> TRUE, star |-> FALSE, ldh |-> TRUE, lower |-> "", alabel |-> "",
          decimal |-> None, padded |-> FALSE, hex |-> None, local |-> "dotAtom",
          octet |-> None, group |-> None, signed |-> FALSE]
Label(l, a) == [Piece EXCEPT !.lower = l, !.alabel = a]
Digit(p, d) == [Piece EXCEPT !.lower = p, !.alabel = p, !.decimal = d, !.hex = d, !.octet = d, !.group = d]

MCPieces ==
  ("" :> [Piece EXCEPT !.size = 0, !.local = "bad"])
  @@ ("a" :> [Label("a", "a") EXCEPT !.hex = 10, !.group = 10]) @@ ("A" :> [Label("a", "a") EXCEPT !.hex = 10, !.group = 10])
  @@ ("x" :> Label("x", "x")) @@ ("X" :> Label("x", "x"))
  @@ ("-x" :> [Label("-x", "-x") EXCEPT !.ldh = FALSE, !.size = 2])
  @@ ("a b" :> [Label("a b", "!") EXCEPT !.ldh = FALSE, !.local = "bad", !.size = 3])
  @@ ("*" :> [Label("*", "*") EXCEPT !.star = TRUE, !.ldh = FALSE])
  @@ ("x*" :> [Label("x*", "x*") EXCEPT !.star = TRUE, !.ldh = FALSE, !.size = 2])
  @@ ("u" :> [Label("u", "xn--u") EXCEPT !.ascii = FALSE, !.ldh = FALSE, !.local = "utf8", !.size = 2])
  @@ ("U" :> [Label("U", "xn--u") EXCEPT !.ascii = FALSE, !.ldh = FALSE, !.local = "utf8", !.size = 2])
  @@ ("?" :> [Label("?", "!") EXCEPT !.ascii = FALSE, !.ldh = FALSE, !.local = "bad", !.size = 3])
  @@ ("xn--u" :> [Label("xn--u", "xn--u") EXCEPT !.size = 5])
  @@ ("Xn--U" :> [Label("xn--u", "xn--u") EXCEPT !.size = 5])
  @@ ("l63" :> [Label("l63", "l63") EXCEPT !.size = 63]) @@ ("l64" :> [Label("l64", "l64") EXCEPT !.size = 64])
  @@ ("1" :> Digit("1", 1)) @@ ("2" :> Digit("2", 2)) @@ ("3" :> Digit("3", 3)) @@ ("4" :> Digit("4", 4))
  @@ ("5" :> Digit("5", 5)) @@ ("6" :> Digit("6", 6)) @@ ("7" :> Digit("7", 7)) @@ ("8" :> Digit("8", 8))
  @@ ("9" :> Digit("9", 9)) @@ ("0" :> Digit("0", 0))
  @@ ("255" :> [Digit("255", 255) EXCEPT !.size = 3, !.hex = 597, !.group = 597])
  @@ ("256" :> [Digit("256", 256) EXCEPT !.size = 3, !.hex = 598, !.group = 598, !.octet = None])
  @@ ("01" :> [Digit("01", 1) EXCEPT !.size = 2, !.padded = TRUE, !.octet = None])
  @@ ("+2" :> [Digit("+2", 2) EXCEPT !.size = 2, !.ldh = FALSE, !.signed = TRUE, !.octet = None, !.group = None])
  @@ ("00001" :> [Digit("00001", 1) EXCEPT !.size = 5, !.padded = TRUE, !.octet = None, !.group = None])

-----------------------------------------------------------------------------
(* What a caller asks about. *)
Text(by, pieces) == [by |-> by, pieces |-> pieces, bracketed |-> FALSE, zone |-> FALSE]

Hosts ==
  {<<>> \o h : h \in {<<"">>, <<"", "">>, <<"x">>, <<"*", "a", "x">>, <<"x", "", "a">>, <<"-x", "a">>, <<"?", "a">>,
                      <<"l64">>, <<"l63", "l63", "l63", "x">>, <<"l63", "l63", "l63", "l63">>}}
  \cup {s \o d : s \in {<<"x", "a">>, <<"X", "A">>, <<"u", "a">>, <<"U", "a">>, <<"Xn--U", "a">>,
                        <<"x", "x", "a">>, <<"u", "X", "a">>, <<"x", "x", "x", "a">>}, d \in {<<>>, <<"">>}}
Quads == {<<"1", "2", "3", "4">>, <<"1", "2", "3", "4", "">>, <<"1", "2", "3", "256">>, <<"1", "2", "3", "255">>,
          <<"1", "2", "3", "01">>, <<"1", "2", "3">>, <<"+2", "2", "3", "4">>, <<"1", "2", "3", "x">>}

Nth == <<"1", "2", "3", "4", "5", "6", "7", "8", "9", "0">>
Colons == UNION {{[i \in 1..n |-> IF i \in empty THEN "" ELSE Nth[i]] : empty \in SUBSET (1..n)} : n \in 2..10}
  \cup {<<"a", "", "x">>, <<"", "", "00001">>, <<"", "", "+2">>, <<"", "", "255">>}

HostTexts == {Text(".", h) : h \in Hosts \cup Quads}
MCServers == HostTexts \cup {Text(":", c) : c \in Colons}
  \cup {[Text(":", <<"1", "", "2">>) EXCEPT !.bracketed = TRUE], [Text(":", <<"1", "", "2">>) EXCEPT !.zone = TRUE],
        [Text(".", <<"1", "2", "3", "4">>) EXCEPT !.bracketed = TRUE], [Text(".", <<"x", "a">>) EXCEPT !.bracketed = TRUE]}

Mail(local, domain) == [ats |-> 1, local |-> local, domain |-> domain]
MCMailboxes == {Mail(l, d) : l \in {"x", "X", "u", "a b", ""}, d \in {<<"x", "a">>, <<"X", "a", "">>, <<"u", "a">>, <<"xn--u", "a">>, Empty}}
  \cup {[Mail("x", <<"x", "a">>) EXCEPT !.ats = 0], [Mail("x", <<"x", "a">>) EXCEPT !.ats = 2]}

-----------------------------------------------------------------------------
(* Certificates. *)
Ext(has) == [form |-> "ok", has |-> has]
AbsentExt == [form |-> "absent", has |-> {}]
MalformedExt == [form |-> "malformed", has |-> {}]
San(names) == [form |-> "ok", critical |-> FALSE, names |-> names]
AbsentSan == [form |-> "absent", critical |-> FALSE, names |-> <<>>]

Name(type) == [type |-> type, ats |-> 1, local |-> "x", domain |-> <<"x", "a">>, utf8 |-> TRUE, octets |-> <<>>]
Dns(d) == [Name("dns") EXCEPT !.domain = d]
Ip(o) == [Name("ip") EXCEPT !.octets = o]
Rfc822(l, d) == [Name("rfc822") EXCEPT !.local = l, !.domain = d]
Smtp(l, d) == [Name("smtp") EXCEPT !.local = l, !.domain = d]

Rsa(modulus) == [alg |-> "rsa", form |-> "ok", modulus |-> modulus]

Good == [not_before |-> 20550, not_after |-> 20640, alg |-> "sha256Rsa", tbs_alg |-> "sha256Rsa",
         key |-> Rsa(<<0, 128, 0, 0>>), subject |-> {"commonName"}, san |-> San(<<Dns(<<"x", "a">>)>>),
         eku |-> Ext({"serverAuth"}), cp |-> AbsentExt, bc |-> AbsentExt, serial |-> 8]
GoodMail == [Good EXCEPT !.san = San(<<Rfc822("x", <<"x", "a">>)>>), !.eku = Ext({"emailProtection"})]

Named == {[Good EXCEPT !.san = San(<<Dns(d)>>)] :
            d \in {<<"X", "a">>, <<"x", "a", "">>, <<"*", "a">>, <<"*", "x", "a">>, <<"*", "x", "a", "">>,
                   <<"*", "X", "A">>, <<"*", "*", "a">>, <<"x*", "x", "a">>, <<"x", "*", "a">>, <<"*">>, <<"*", "">>,
                   Empty, <<"Xn--U", "a">>, <<"xn--u", "x", "a">>, <<"1", "2", "3", "4">>}}
  \cup {[Good EXCEPT !.san = San(<<Ip(<<1, 2, 3, 4>>), Ip(<<1, 0, 0, 0, 0, 0, 0, 2>>)>>)]}

Mailed == {[GoodMail EXCEPT !.san = San(<<r, u>>)] :
             r \in {Rfc822(l, d) : l \in {"x", "X", ""}, d \in {<<"x", "a">>, <<"X", "A">>, <<"xn--u", "a">>, Empty}},
             u \in {Smtp(l, d) : l \in {"x", "u"}, d \in {<<"x", "a">>, <<"u", "a">>, <<"?", "a">>}}
                     \cup {[Smtp("x", <<"x", "a">>) EXCEPT !.utf8 = FALSE], [Smtp("x", <<"x", "a">>) EXCEPT !.ats = 0]}}
  \cup {[GoodMail EXCEPT !.san = San(<<Rfc822("x", <<"x", "a">>), Smtp("x", <<"x", "a">>), Smtp("X", d)>>)] :
          d \in {<<"x", "a">>, <<"u", "a">>}}

Keyed == {[Good EXCEPT !.key = k, !.eku = Ext({p})] :
            k \in {Rsa(m) : m \in UNION {[1..n -> {0, 1, 127, 128, 255}] : n \in 0..3}}
                  \cup {[Rsa(<<1>>) EXCEPT !.form = "broken"], [Rsa(<<>>) EXCEPT !.alg = "ec"]},
            p \in {"serverAuth", "codeSigning"}}

Dated == {[Good EXCEPT !.not_before = b, !.not_after = a] :
            b \in {20526, 20527, 20891, 20892, 21622, 21623}, a \in {20500, 20599, 20600, 20924, 20925, 21724, 21725}}
  \cup {[Good EXCEPT !.not_before = b, !.not_after = b + d] :
          b \in {20526, 20527, 20891, 20892, 21622, 21623}, d \in {46, 47, 48, 99, 100, 101, 199, 200, 201, 397, 398, 399, 461, 826}}

Shaped == {[c EXCEPT !.eku = e, !.san = s] :
             c \in {Good, [Good EXCEPT !.subject = {}]},
             e \in {AbsentExt, MalformedExt, Ext({"serverAuth", "emailProtection"}), Ext({"clientAuth"}), Ext({"timeStamping"}), Ext({"ocspSigning"})},
             s \in {AbsentSan, San(<<>>), [AbsentSan EXCEPT !.form = "malformed"], San(<<Name("uri")>>),
                    [San(<<Dns(<<"x", "a">>)>>) EXCEPT !.critical = TRUE], San(<<Rfc822("x", <<"x", "a">>), Dns(<<"x", "a">>)>>)}}
  \cup {[Good EXCEPT !.bc = b, !.serial = n] : b \in {MalformedExt, Ext({}), Ext({"ca"})}, n \in {19, 20, 21, 22}}
  \cup {[Good EXCEPT !.alg = a, !.tbs_alg = t] : a \in {"sha256Rsa", "sha1Rsa", "sha1Ecdsa", "ed25519"}, t \in {"sha256Rsa", "sha1Rsa"}}

Tiered == {[GoodMail EXCEPT !.cp = c, !.subject = s] :
             c \in {MalformedExt} \cup {Ext(o) : o \in SUBSET TierOids},
             s \in SUBSET {"pseudonym", "givenName", "surname", "organizationName", "organizationIdentifier"}}

Topic(certs) == [certs |-> certs, servers |-> {}, mailboxes |-> {}, octets |-> {}]
MCTopics ==
  [hosts |-> [Topic(Named \cup {[Good EXCEPT !.san = s] : s \in {AbsentSan, [AbsentSan EXCEPT !.form = "malformed"]}})
                EXCEPT !.servers = HostTexts],
   addresses |-> [Topic({[Good EXCEPT !.san = San(<<Ip(<<1, 2, 0, 0, 0, 0, 0, 0>>), Ip(<<1, 2, 3, 255>>)>>)],
                         [Good EXCEPT !.san = San(<<Dns(<<"1", "2", "3", "4">>), Ip(<<1, 2, 0, 4, 5, 6, 7, 8>>)>>)]}) EXCEPT !.servers = MCServers],
   mail |-> [Topic(Mailed) EXCEPT !.mailboxes = MCMailboxes],
   keys |-> Topic(Keyed), dates |-> Topic(Dated), tiers |-> Topic(Tiered),
   shapes |-> [Topic(Shaped) EXCEPT !.octets = MCOctets]]

=============================================================================
