------------------------------- MODULE Identity -------------------------------
(***************************************************************************)
(* pkix-identity: does a certificate speak for a server or for a mailbox?  *)
(*                                                                         *)
(* A text is the sequence of the pieces between its dots (its colons, for  *)
(* a text that has one), so <<"">> is the empty text and a last piece ""   *)
(* is a final dot.  Pieces tells what the code can see of a piece:         *)
(*   size     its length in octets                                         *)
(*   ascii    it is ASCII                                                  *)
(*   star     it contains an asterisk                                      *)
(*   ldh      validate_ascii_label's rules for its characters              *)
(*   lower    it in lower case (ASCII only)                                *)
(*   alabel   what IDNA makes of it, "!" if IDNA refuses it                *)
(*   decimal  what str::parse::<u32> makes of it, None if nothing          *)
(*   padded   it starts with a zero that is not all of it                  *)
(*   hex      what u16::from_str_radix makes of it, None if nothing        *)
(*   local    what it may be as a local part: "dotAtom", "utf8" or "bad"   *)
(* and, for the properties only, what the RFCs read in it:                 *)
(*   octet    a number of a dotted quad, None if it is none                *)
(*   group    one to four hexadecimal digits (RFC 4291), None otherwise    *)
(*   signed   it starts with a plus sign, which Rust's integers may        *)
(***************************************************************************)
EXTENDS Checks, SequencesExt

CONSTANTS Pieces

\* Lower case and IDNA change what they are given once, and IDNA leaves ASCII as it is.
ASSUME PiecesAssumption ==
  /\ {"", "*"} \subseteq DOMAIN Pieces /\ Pieces["*"].star /\ Pieces[""].hex = None /\ Pieces[""].decimal = None
  /\ \A p \in DOMAIN Pieces :
       LET facts == Pieces[p]
       IN  /\ facts.size \in Nat /\ (facts.size = 0 <=> p = "")
           /\ facts.lower \in DOMAIN Pieces
           /\ Pieces[facts.lower].lower = facts.lower /\ Pieces[facts.lower].size = facts.size
           /\ facts.signed => facts.group = None /\ facts.octet = None
           /\ ~facts.signed =>
                /\ facts.group = (IF facts.size \in 1..4 THEN facts.hex ELSE None)
                /\ facts.octet = (IF facts.decimal \in 0..255 /\ ~facts.padded THEN facts.decimal ELSE None)
           /\ facts.alabel # "!" =>
                /\ facts.alabel \in DOMAIN Pieces /\ Pieces[facts.alabel].lower = facts.alabel
                /\ facts.ascii => facts.alabel = facts.lower

DNS_LABEL_MAX_LEN == 63
DNS_NAME_MAX_LEN == 253
Bad == <<>>   \* IdentityError::MalformedInput, or None
Empty == <<"">>

-----------------------------------------------------------------------------
(***************************************************************************)
(* Host names.                                                             *)
(***************************************************************************)
StripDot(name) ==
  IF Len(name) > 1 /\ name[Len(name)] = "" THEN Front(name) ELSE name

HasStar(name) == \E i \in DOMAIN name : Pieces[name[i]].star
IsAscii(name) == \A i \in DOMAIN name : Pieces[name[i]].ascii
Lower(name) == [i \in DOMAIN name |-> Pieces[name[i]].lower]
EqIgnoreAsciiCase(a, b) == Lower(a) = Lower(b)

DomainToAscii(name) ==
  IF \E i \in DOMAIN name : Pieces[name[i]].alabel = "!" THEN Bad
  ELSE [i \in DOMAIN name |-> Pieces[name[i]].alabel]

SizeOf(name) == FoldSeq(LAMBDA piece, n : n + Pieces[piece].size, Len(name) - 1, name)

ValidateAsciiDns(name) ==
  /\ SizeOf(name) <= DNS_NAME_MAX_LEN
  /\ \A i \in DOMAIN name : /\ Pieces[name[i]].size \in 1..DNS_LABEL_MAX_LEN
                            /\ Pieces[name[i]].ldh

NormalizeDnsName(name) ==
  LET trimmed == StripDot(name)
      ascii == IF IsAscii(trimmed) THEN Lower(trimmed) ELSE DomainToAscii(trimmed)
  IN  IF name = Empty \/ HasStar(name) \/ trimmed = Empty \/ ascii = Bad \/ ~ValidateAsciiDns(ascii)
      THEN Bad ELSE ascii

MatchesDnsSan(san_entry, target) ==
  LET san == StripDot(san_entry)
      rest == Tail(san)
  IN  IF san = Empty THEN FALSE
      ELSE IF Len(san) > 1 /\ san[1] = "*"
      THEN /\ ~HasStar(rest)
           /\ Len(rest) > 1
           /\ Len(target) > 1 /\ target[1] # ""
           /\ EqIgnoreAsciiCase(Tail(target), rest)
      ELSE ~HasStar(san) /\ EqIgnoreAsciiCase(san, target)

-----------------------------------------------------------------------------
(***************************************************************************)
(* Addresses: four numbers or eight.                                       *)
(***************************************************************************)
ParseIpv4(text) ==
  IF /\ Len(text) = 4
     /\ \A i \in 1..4 : /\ text[i] # "" /\ ~Pieces[text[i]].padded
                        /\ Pieces[text[i]].decimal \in 0..255
  THEN [i \in 1..4 |-> Pieces[text[i]].decimal]
  ELSE Bad

\* The groups after the run of zeros moved one place up.
Mut_RunTooShort(groups, at) ==
  [i \in 1..8 |-> IF i <= at THEN groups[i]
                  ELSE IF i > 7 - Len(groups) + at /\ i < 8 THEN groups[i - (7 - Len(groups))] ELSE 0]

\* groups, with the run of zeros that stands for what is missing after the first at.
Expand(groups, at) ==
  LET elided == 8 - Len(groups)
  IN  [i \in 1..8 |-> IF i <= at THEN groups[i] ELSE IF i > at + elided THEN groups[i - elided] ELSE 0]

(* An empty piece opens the run; one more is let pass where the text ends. *)
ParseIpv6(text) ==
  LET opens == Len(text) > 2 /\ text[1] = "" /\ text[2] = ""
      parts == IF opens THEN SubSeq(text, 3, Len(text)) ELSE text
      size == Len(parts)
      empty == {i \in DOMAIN parts : parts[i] = ""}
      run == IF opens THEN 0
             ELSE IF empty = {} THEN size + 1 ELSE CHOOSE i \in empty : \A j \in empty : i <= j
      groups == SubSeq(parts, 1, run - 1)
                  \o SubSeq(parts, run + 1, IF parts[size] = "" THEN size - 1 ELSE size)
      values == [i \in DOMAIN groups |-> Pieces[groups[i]].hex]
  IN  IF text = <<"", "", "">> THEN [i \in 1..8 |-> 0]
      ELSE IF \/ ~opens /\ text[1] = ""
              \/ \E i \in DOMAIN groups : Pieces[groups[i]].size > 4 \/ values[i] = None
              \/ IF run > size THEN Len(groups) # 8 ELSE Len(groups) >= 8
      THEN Bad
      ELSE IF run > size THEN values ELSE Expand(values, IF opens THEN 0 ELSE run - 1)

-----------------------------------------------------------------------------
(***************************************************************************)
(* ServerName: what a caller asks for.  A text is [by, pieces, bracketed,  *)
(* zone]: what its pieces were split at, and whether it stands in brackets *)
(* and holds a percent sign.                                               *)
(***************************************************************************)
NoName == [kind |-> "MalformedInput", name |-> Bad]

IpAddress(text) ==
  LET parsed == IF text.by = ":" THEN ParseIpv6(text.pieces) ELSE ParseIpv4(text.pieces)
  IN  IF text.zone \/ parsed = Bad THEN NoName ELSE [kind |-> "Ip", name |-> parsed]

\* A colon, a bracket or a percent sign is in no label.
DnsName(text) ==
  LET normalized == NormalizeDnsName(text.pieces)
  IN  IF text.by = ":" \/ text.bracketed \/ text.zone \/ normalized = Bad THEN NoName
      ELSE [kind |-> "Dns", name |-> normalized]

ParseServerName(text) ==
  IF IpAddress(text) = NoName THEN DnsName(text) ELSE IpAddress(text)

-----------------------------------------------------------------------------
(***************************************************************************)
(* MailboxName.  A mailbox is [ats, local, domain]: how many at-signs it   *)
(* has, what stands before the last and what after it.                     *)
(***************************************************************************)
NoMailbox == [local |-> "", domain |-> Bad, is_internationalized |-> FALSE]

ParseMailbox(mailbox) ==
  LET kind == Pieces[mailbox.local].local
      domain == NormalizeDnsName(mailbox.domain)
  IN  IF mailbox.ats # 1 \/ mailbox.local = "" \/ mailbox.domain = Empty \/ kind = "bad" \/ domain = Bad
      THEN NoMailbox
      ELSE [local |-> mailbox.local, domain |-> domain, is_internationalized |-> kind = "utf8"]

MatchesRfc822Mailbox(entry, target) ==
  entry.ats > 0 /\ entry.local = target.local /\ EqIgnoreAsciiCase(entry.domain, target.domain)

MatchesSmtpUtf8Mailbox(entry, target) ==
  /\ entry.ats > 0 /\ entry.local = target.local
  /\ DomainToAscii(entry.domain) # Bad
  /\ EqIgnoreAsciiCase(DomainToAscii(entry.domain), target.domain)

SanEntryMatchesMailbox(entry, target) ==
  CASE entry.type = "rfc822" -> ~target.is_internationalized /\ MatchesRfc822Mailbox(entry, target)
    [] entry.type = "smtp" -> entry.utf8 /\ MatchesSmtpUtf8Mailbox(entry, target)
    [] OTHER -> FALSE

-----------------------------------------------------------------------------
(***************************************************************************)
(* The verdicts, on a subjectAltName [form, critical, names].              *)
(***************************************************************************)
FindSan(san) ==
  << <<san.form = "absent", "MissingSan">>, <<san.form = "malformed", "MalformedSan">> >>

VerifyDnsName(san, target) ==
  LET Matches(entry) ==
        IF target.kind = "Dns" THEN entry.type = "dns" /\ MatchesDnsSan(entry.domain, target.name)
        ELSE entry.type = "ip" /\ entry.octets = target.name
  IN  FirstError(FindSan(san) \o << <<\A i \in DOMAIN san.names : ~Matches(san.names[i]), "NoMatchingSan">> >>)

VerifyMailbox(san, target) ==
  FirstError(FindSan(san) \o
    << <<\A i \in DOMAIN san.names : ~SanEntryMatchesMailbox(san.names[i], target), "NoMatchingSan">> >>)

=============================================================================
