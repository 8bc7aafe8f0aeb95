------------------------------- MODULE LeafUse --------------------------------
(***************************************************************************)
(* A caller of the profiles and of pkix-identity: it takes a certificate,  *)
(* takes the lints of a profile and configures them, and asks whether the  *)
(* certificate has the profile's shape, whether it is valid under the      *)
(* profile's policy and whether it speaks for a server or a mailbox.       *)
(*                                                                         *)
(* The lints of a profile live in a static that is filled once; what they  *)
(* keep of the parameter max-octets is kept in boxes: one of each static,  *)
(* and the caller's own.                                                   *)
(***************************************************************************)
EXTENDS LeafRules, FiniteSets

CONSTANTS
  Topics,   \* by name: [certs, servers, mailboxes, octets], what a caller has at hand and asks
            \* about: certificates, texts that name servers and mailboxes, values of max-octets
  Kinds,    \* SubjectKinds a certificate is linted as
  Now       \* the clock

Labels == DOMAIN Pieces

ASSUME TopicsAssumption ==
  \A t \in DOMAIN Topics :
    /\ \A c \in Topics[t].certs :
         /\ c.not_before \in Int /\ c.not_after \in Int
         /\ c.key.modulus \in Seq(0..255)
         /\ \A i \in DOMAIN c.san.names : c.san.names[i].domain \in Seq(Labels) \ {<<>>}
    /\ \A text \in Topics[t].servers : text.pieces \in Seq(Labels) \ {<<>>}

VARIABLES
  topic,       \* a member of DOMAIN Topics
  cert,        \* the certificate at hand
  boxes,       \* Rfc5280MaxSerialLengthLint::max_octets by box, None in an empty one
  runner,      \* the caller's LintRunner: [profile, box], and chosen, a history variable:
               \* the value the caller has set in it
  seen         \* the last call and its answer

vars == <<topic, cert, boxes, runner, seen>>

DefaultMaxOctets == 20
Linted == {profile \in DOMAIN Policy : Lints(profile) # {}}
NoRunner == [profile |-> "none", box |-> "none", chosen |-> None]

\* The runner works on the lints of the static.
Mut_Shared(profile) == profile
\* self.lints().to_vec(): the lints of a runner are clones (WebPki makes new ones).
ToVec(profile) == "own"

Answer(call, answer) ==
  [call |-> call, answer |-> answer, profile |-> "Rfc5280", kind |-> "Leaf", findings |-> {},
   server |-> [by |-> ".", pieces |-> Empty, bracketed |-> FALSE, zone |-> FALSE],
   mailbox |-> [ats |-> 0, local |-> "", domain |-> Empty]]

Accepts(profile) == FirstError(PolicyErrors(Policy[profile], cert, Now)) = "Ok"

\* run_cert: the lints of a profile that find an error; none of them is Fatal.
Findings(profile, kind, octets) ==
  {lint \in Lints(profile) : AppliesTo(lint, kind) /\ CheckCert(lint, cert, octets) = "Error"}

\* A bound: one question, and of the questions only those to lints with a runner at hand.
Fresh == seen.call = "none"
Asking == seen.call \in {"none", "runner", "set"}

-----------------------------------------------------------------------------
Init ==
  /\ topic \in DOMAIN Topics
  /\ cert \in Topics[topic].certs
  /\ boxes = [box \in Linted \cup {"own"} |-> IF box = "own" THEN None ELSE DefaultMaxOctets]
  /\ runner = NoRunner
  /\ seen = Answer("none", "Ok")

\* profile.lint_runner(), also a second time.
MakeRunner ==
  /\ seen.call \in {"none", "set"}
  /\ \E profile \in Linted :
       /\ boxes' = [boxes EXCEPT ![ToVec(profile)] = boxes[profile]]
       /\ runner' = [profile |-> profile, box |-> ToVec(profile), chosen |-> DefaultMaxOctets]
  /\ seen' = Answer("runner", "Ok")
  /\ UNCHANGED <<topic, cert>>

\* Lint::set_parameter on a lint of the runner: refused values change nothing.
SetParameter ==
  /\ seen.call = "runner" /\ "MaxSerialLength" \in Lints(runner.profile)
  /\ \E value \in Topics[topic].octets :
       IF value \in 1..21
       THEN /\ boxes' = [boxes EXCEPT ![runner.box] = value]
            /\ runner' = [runner EXCEPT !.chosen = value]
            /\ seen' = Answer("set", "Ok")
       ELSE seen' = Answer("set", "InvalidValue") /\ UNCHANGED <<boxes, runner>>
  /\ UNCHANGED <<topic, cert>>

Run ==
  /\ Asking /\ runner # NoRunner
  /\ \E kind \in Kinds :
       seen' = [Answer("run", "Ok")
                  EXCEPT !.profile = runner.profile, !.kind = kind,
                         !.findings = Findings(runner.profile, kind, boxes[runner.box])]
  /\ UNCHANGED <<topic, cert, boxes, runner>>

\* check_shape runs a runner of its own, with the lints as the static has them now.
ShapeFindings(profile) == Findings(profile, "Leaf", boxes[profile])

CheckShape ==
  /\ Asking
  /\ \E profile \in Linted :
       LET findings == ShapeFindings(profile)
       IN  seen' = [Answer("shape", IF findings = {} THEN "Ok" ELSE "Err")
                      EXCEPT !.profile = profile, !.findings = findings]
  /\ UNCHANGED <<topic, cert, boxes, runner>>

Validate ==
  /\ Fresh
  /\ \E profile \in DOMAIN Policy :
       /\ seen' = [Answer("validate", FirstError(PolicyErrors(Policy[profile], cert, Now)))
                     EXCEPT !.profile = profile]
  /\ UNCHANGED <<topic, cert, boxes, runner>>

VerifyServer ==
  /\ Fresh
  /\ \E text \in Topics[topic].servers :
       LET name == ParseServerName(text)
       IN  /\ seen' = [Answer("server", IF name = NoName THEN "MalformedInput" ELSE VerifyDnsName(cert.san, name))
                         EXCEPT !.server = text]
  /\ UNCHANGED <<topic, cert, boxes, runner>>

VerifyMail ==
  /\ Fresh
  /\ \E text \in Topics[topic].mailboxes :
       LET name == ParseMailbox(text)
       IN  /\ seen' = [Answer("mailbox", IF name = NoMailbox THEN "MalformedInput" ELSE VerifyMailbox(cert.san, name))
                         EXCEPT !.mailbox = text]
  /\ UNCHANGED <<topic, cert, boxes, runner>>

Next == MakeRunner \/ SetParameter \/ Run \/ CheckShape \/ Validate \/ VerifyServer \/ VerifyMail

Spec == Init /\ [][Next]_vars

-----------------------------------------------------------------------------
(***************************************************************************)
(* What a text spells, by the RFCs.                                        *)
(***************************************************************************)
\* RFC 6125: a name of the certificate and the host a caller spelled, label by label.
Canonical(label) == IF Pieces[label].ascii THEN Pieces[label].lower ELSE Pieces[label].alabel
NoFinalDot(name) == IF Len(name) > 1 /\ name[Len(name)] = "" THEN SubSeq(name, 1, Len(name) - 1) ELSE name

NamesHost(entry, spelled) ==
  LET e == NoFinalDot(entry)
      t == NoFinalDot(spelled)
  IN  /\ Len(e) = Len(t)
      /\ \A i \in DOMAIN t :
           \/ i = 1 /\ e[1] = "*" /\ Len(e) >= 3
           \/ ~Pieces[e[i]].star /\ Pieces[e[i]].lower = Canonical(t[i])

\* RFC 4291, section 2.2: eight groups, or two lists of groups around a double colon.
Groups(pieces) == \A i \in DOMAIN pieces : Pieces[pieces[i]].group # None
Values(pieces) == [i \in DOMAIN pieces |-> Pieces[pieces[i]].group]
Side(pieces) == IF pieces = <<>> THEN Empty ELSE pieces
Zeros(n) == [i \in 1..n |-> 0]

LeftOf(pieces, l) == SubSeq(pieces, 1, l)
RightOf(pieces, r) == SubSeq(pieces, Len(pieces) - r + 1, Len(pieces))

\* l groups before a double colon and r groups after it.
Around(pieces, l, r) ==
  /\ l + r <= 7 /\ l <= Len(pieces) /\ r <= Len(pieces)
  /\ Groups(LeftOf(pieces, l)) /\ Groups(RightOf(pieces, r))
  /\ pieces = Side(LeftOf(pieces, l)) \o Empty \o Side(RightOf(pieces, r))

SpelledIpv6(pieces) ==
  IF Len(pieces) = 8 /\ Groups(pieces) THEN {Values(pieces)}
  ELSE {Values(LeftOf(pieces, a[1])) \o Zeros(8 - a[1] - a[2]) \o Values(RightOf(pieces, a[2])) :
          a \in {b \in (0..7) \X (0..7) : Around(pieces, b[1], b[2])}}

\* A dotted quad: four numbers of one octet.
SpelledIpv4(pieces) ==
  IF Len(pieces) = 4 /\ \A i \in 1..4 : Pieces[pieces[i]].octet # None
  THEN {[i \in 1..4 |-> Pieces[pieces[i]].octet]} ELSE {}

Spelled(text) == IF text.by = ":" THEN SpelledIpv6(text.pieces) ELSE SpelledIpv4(text.pieces)
HasSign(text) == \E i \in DOMAIN text.pieces : Pieces[text.pieces[i]].signed

\* A text that ends in one colon, without it and with a second one.
Mended(text) ==
  LET pieces == text.pieces
      n == Len(pieces)
  IN  IF text.by = ":" /\ n > 1 /\ pieces[n] = "" /\ pieces[n - 1] # ""
      THEN {[text EXCEPT !.pieces = SubSeq(pieces, 1, n - 1)], [text EXCEPT !.pieces = pieces \o Empty]}
      ELSE {text}

\* RFC 5321 and RFC 8398: an entry of the certificate is the mailbox a caller spelled, the local
\* part to the letter, the domain label by label.
NamesMailbox(entry, spelled) ==
  LET domain == NoFinalDot(spelled.domain)
      SameLabel(e, t) == CASE entry.type = "rfc822" -> Pieces[e].lower = Canonical(t)
                           [] entry.type = "smtp" -> Pieces[e].alabel = Canonical(t)
  IN  /\ entry.type = "smtp" => entry.utf8
      /\ entry.ats > 0 /\ entry.local = spelled.local
      /\ Len(entry.domain) = Len(domain)
      /\ \A i \in DOMAIN domain : SameLabel(entry.domain[i], domain[i])

\* The size of a key: how many bits its modulus has, up to the highest that is set.
Bit(octets, b) == (octets[Len(octets) - b \div 8] \div PowersOfTwo[(b % 8) + 1]) % 2
NumberOfBits(octets) ==
  CHOOSE n \in 0..8 * Len(octets) :
    /\ n > 0 => Bit(octets, n - 1) = 1
    /\ \A b \in n..8 * Len(octets) - 1 : Bit(octets, b) = 0

TierOids == {"individualStrict", "individualMultipurpose", "sponsorStrict", "sponsorMultipurpose"}
Tiers == {"SmimeIndividual", "SmimeIndividualMultipurpose", "SmimeSponsor", "SmimeSponsorMultipurpose"}

-----------------------------------------------------------------------------
(***************************************************************************)
(* Properties.                                                             *)
(***************************************************************************)
\* A certificate speaks for a host exactly when one of its dNSNames names it as RFC 6125 has it:
\* label for label whatever the case, the spelling of an international label or a final dot, a
\* leftmost asterisk standing for one label above two others (verify_dns_name, matches_dns_san).
HostsMatchExactly ==
  (seen.call = "server" /\ ParseServerName(seen.server).kind = "Dns" /\ cert.san.form = "ok")
    => (seen.answer = "Ok" <=>
          \E i \in DOMAIN cert.san.names :
            /\ cert.san.names[i].type = "dns"
            /\ NamesHost(cert.san.names[i].domain, seen.server.pieces))

\* A text that is taken for an address is the one RFC 4291, or four decimal numbers, make of it; a
\* text that spells an address is taken for it, and speaks for the iPAddress entries that have its
\* octets (parse_ipv4, parse_ipv6: splitting, the place and the length of the run of zeros; then
\* verify_dns_name).  Two kinds of texts the parsers let pass are not addresses: one with a single
\* colon at its end is taken as if it had none or two, and a number with a plus sign (left out
\* here) as if it had none.
AddressesAreExact ==
  (seen.call = "server" /\ ~seen.server.zone /\ ~HasSign(seen.server))
    => LET address == IpAddress(seen.server)
           spelled == Spelled(seen.server)
       IN  /\ address # NoName => address.name \in UNION {Spelled(text) : text \in Mended(seen.server)}
           /\ spelled # {} => address # NoName
           /\ (spelled # {} /\ cert.san.form = "ok")
                => (seen.answer = "Ok" <=>
                      \E i \in DOMAIN cert.san.names :
                        cert.san.names[i].type = "ip" /\ cert.san.names[i].octets \in spelled)

\* A certificate speaks for a mailbox exactly when one of its rfc822Name or SmtpUTF8Mailbox entries
\* names it (verify_mailbox).  That holds for a mailbox of ASCII too: the code looks for it among
\* the SmtpUTF8Mailbox entries as well, where its documentation says rfc822Name only.
MailboxesMatchExactly ==
  (seen.call = "mailbox" /\ seen.answer # "MalformedInput" /\ cert.san.form = "ok")
    => (seen.answer = "Ok" <=>
          \E i \in DOMAIN cert.san.names :
            /\ cert.san.names[i].type \in {"rfc822", "smtp"}
            /\ NamesMailbox(cert.san.names[i], seen.mailbox))

\* Where the lint finds the rfc822Name and the SmtpUTF8Mailbox entries of a certificate
\* equivalent, verify_mailbox finds a mailbox with an ASCII local part in both or in neither.
EquivalentEntriesAgree ==
  LET target == ParseMailbox(seen.mailbox)
      Found(type) == \E i \in DOMAIN cert.san.names :
                       cert.san.names[i].type = type /\ SanEntryMatchesMailbox(cert.san.names[i], target)
  IN  /\ seen.call = "mailbox" /\ seen.answer # "MalformedInput" /\ ~target.is_internationalized
      /\ MailboxEquivalence(cert) = "Pass"
      /\ HasName(cert, {"rfc822"}) /\ HasName(cert, {"smtp"})
      => (Found("rfc822") <=> Found("smtp"))

\* The lint measures the modulus to the bit and the policy to the octet: they disagree on a key
\* only if the policy cannot read it, or within the last octet (RsaMinKeySizeLint, check_min_rsa_bits).
KeySizesAgree ==
  LET lint == RsaModulusBitLen(cert.key)
      policy == RsaPublicKeyBits(cert.key)
  IN  (cert.key.alg = "rsa" /\ cert.key.form = "ok" /\ lint # None)
        => /\ lint = NumberOfBits(cert.key.modulus)
           /\ policy # None => policy \in lint..(lint + 7)

\* A leaf that a profile's policy accepts has no finding but those the policy leaves to the lints:
\* neither the key purpose nor the presence of a name (WebPki, BasicTls, BasicSmime).
PoliciesBackTheirLints ==
  (seen.call = "validate" /\ seen.answer = "Ok")
    => /\ ShapeFindings(seen.profile) \cap
            {"SanRequired", "CabfEkuServerAuth", "EkuServerAuth", "Sha1Prohibited",
             "EkuEmailProtection", "SmimeSan"} = {}
       /\ "RsaMinKeySize" \in ShapeFindings(seen.profile)
            => RsaPublicKeyBits(cert.key) = None \/ RsaModulusBitLen(cert.key) > MinBits - 8

\* No certificate passes for two tiers of S/MIME unless it asserts both of their policies, and
\* what passes for a tier passes for a plain mailbox (the tier profiles of pkix-profiles-cabf).
TiersAreApart ==
  LET passed == {tier \in Tiers : Accepts(tier)}
  IN  /\ passed # {} => Accepts("Smime")
      /\ Cardinality(passed) <= Cardinality(cert.cp.has \cap TierOids)

\* A parameter set on the lints of a runner is that runner's: neither the shape of a certificate
\* nor a runner made later depends on it (lint_runner cloning the lints of the static, check_shape).
ParametersStayWithTheirRunner ==
  LET cap == IF seen.call = "run" THEN runner.chosen ELSE DefaultMaxOctets
  IN  seen.call \in {"run", "shape"} =>
        ("MaxSerialLength" \in seen.findings <=>
           "MaxSerialLength" \in Lints(seen.profile) /\ cert.serial > cap)

\* A server name given as text is the host or the address it spells, and no other (verify_dns_name,
\* matches_dns_san, parse_ipv6).
NamesMatchExactly == HostsMatchExactly /\ AddressesAreExact

\* What a mailbox is matched with, and what the lint of the equivalence says of the same entries.
MailboxesAgree == MailboxesMatchExactly /\ EquivalentEntriesAgree

\* The two halves of a profile, its lints and its policy, and the two crates that know the same
\* rules say the same of a certificate, whatever a caller did to a runner of its own.
ProfilesAreConsistent ==
  /\ KeySizesAgree
  /\ PoliciesBackTheirLints
  /\ TiersAreApart
  /\ ParametersStayWithTheirRunner

=============================================================================
