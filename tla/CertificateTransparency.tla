------------------------ MODULE CertificateTransparency ------------------------
(***************************************************************************)
(* pkix-ct among logs that come and go: logs pass through the states of    *)
(* the log list, sign SCTs while they accept submissions, and a client     *)
(* that read the list at some moment verifies SCTs later.                  *)
(*                                                                         *)
(* The logs are the environment and honest: they sign what was submitted,  *)
(* with the time of the submission.  What is presented to the client is    *)
(* not: SCTs of other logs, times, certificates, issuers and channels.     *)
(***************************************************************************)
EXTENDS CtVerifier, FiniteSets

CONSTANTS
  Logs,        \* the logs
  Keys,        \* log -> [name, form]: its key as the list has it
  Starts,      \* log -> states it may be in at first
  Damages,     \* what may be wrong with the JSON
  Submitted,   \* contents of certificates that are submitted to logs
  Bodies,      \* contents of certificates that are presented
  Leaves,      \* forms [form, exts, long] of certificates that are presented
  Issuers,     \* [form, key]: certificates presented as the issuer's
  MaxIssued,   \* bound on signed SCTs
  MaxFaults,   \* bound on what is wrong with one presentation
  MaxTime,     \* bound on time
  MaxTree,     \* bound on the size of trees
  Dates        \* dates <<year, month, day>> in lists

(* A log is known by the hash of its key; days_from_civil is defined for   *)
(* years after Christ.                                                     *)
ASSUME CtAssumption ==
  /\ IsFiniteSet(Logs)
  /\ \A l \in Logs : Keys[l].name = l /\ Starts[l] \subseteq LogStates
  /\ MaxTime \in Nat /\ MaxTree \in Nat
  /\ \A f \in Leaves : f.long \in BOOLEAN
  /\ \A d \in Dates : d[1] \in Nat \ {0} /\ d[2] \in Nat /\ d[3] \in Nat

VARIABLES
  now,      \* the time
  history,  \* log -> the states [state, at] it went through
  issued,   \* the SCTs signed so far: [log, time, kind, entry]
  list,     \* the list the client holds: [from, logs, known]; "known" is
            \* the history when the list was read, and not in it
  answer    \* what the last call returned

vars == <<now, history, issued, list, answer>>

NoLogs == [from |-> "none"]
NoAnswer == [call |-> "none"]

StateOf(log) == history[log][Len(history[log])].state

\* The states that may follow one.
Successors ==
  [qualified |-> {"usable", "rejected"}, usable |-> {"readonly", "retired"},
   readonly |-> {"retired"}, retired |-> {}, rejected |-> {}, pending |-> {"qualified", "rejected"},
   absent |-> {}]

-----------------------------------------------------------------------------
Init ==
  /\ now = 0
  /\ \E start \in [Logs -> LogStates] :
       /\ \A l \in Logs : start[l] \in Starts[l]
       /\ history = [l \in Logs |-> << [state |-> start[l], at |-> 0] >>]
  /\ issued = {}
  /\ list = NoLogs
  /\ answer = NoAnswer

Tick ==
  /\ now < MaxTime /\ answer = NoAnswer
  /\ now' = now + 1
  /\ UNCHANGED <<history, issued, list, answer>>

ChangeState(log) ==
  /\ answer = NoAnswer
  /\ \E s \in Successors[StateOf(log)] :
       history' = [history EXCEPT ![log] = Append(@, [state |-> s, at |-> now])]
  /\ UNCHANGED <<now, issued, list, answer>>

\* A log signs a final certificate or a precertificate.
Issue(log) ==
  /\ answer = NoAnswer /\ Cardinality(issued) < MaxIssued
  /\ StateOf(log) \in {"pending", "qualified", "usable"}
  /\ \E body \in Submitted :
       \E e \in {[kind |-> "x509", entry |-> <<body, "k1", <<>>>>],
                 [kind |-> "precert", entry |-> <<body, "k1">>]} :
         issued' = issued \cup {[log |-> log, time |-> now, kind |-> e.kind, entry |-> e.entry]}
  /\ UNCHANGED <<now, history, list, answer>>

-----------------------------------------------------------------------------
(***************************************************************************)
(* The list, from the JSON of the moment or built by the client from what  *)
(* it knows of the windows.                                                *)
(***************************************************************************)
JsonLog(log, damage) ==
  [id |-> IF damage = "id" THEN "x" ELSE log, key |-> Keys[log],
   idForm |-> IF damage = "idForm" THEN "bad" ELSE "base64",
   keyForm |-> IF damage = "keyForm" THEN "bad" ELSE "base64",
   state |-> StateOf(log), at |-> history[log][Len(history[log])].at,
   atForm |-> IF damage = "time" THEN "bad" ELSE "rfc3339"]

LoadList(damage) ==
  /\ list = NoLogs /\ answer = NoAnswer
  /\ LET json == [form |-> IF damage = "json" THEN "bad" ELSE "object",
                  logs |-> SetToSeq({JsonLog(l, damage) : l \in Logs})]
         result == FirstError(ListChecks(json))
     IN  IF result = "Ok"
           THEN /\ list' = [from |-> "json", logs |-> FromGoogleLogList(json),
                            known |-> history]
                /\ UNCHANGED answer
           ELSE answer' = [call |-> "load", result |-> result] /\ UNCHANGED list
  /\ UNCHANGED <<now, history, issued>>

\* When the log entered the first of the states S, None if it did not.
TimeOf(log, S) ==
  LET at == {i \in DOMAIN history[log] : history[log][i].state \in S}
  IN  IF at = {} THEN None
      ELSE history[log][CHOOSE i \in at : \A j \in at : i <= j].at

BuildList ==
  /\ list = NoLogs /\ answer = NoAnswer
  /\ list' = [from |-> "client", known |-> history,
              logs |-> [l \in Logs |-> [id |-> l, key |-> Keys[l],
                                        usable_from |-> TimeOf(l, {"usable"}),
                                        retired_at |-> TimeOf(l, {"readonly", "retired"})]]]
  /\ UNCHANGED <<now, history, issued, answer>>

-----------------------------------------------------------------------------
(***************************************************************************)
(* What is presented: an SCT as it was signed, or altered.                 *)
(***************************************************************************)
SctOf(s) ==
  [form |-> "ok", version |-> 0, log |-> s.log, time |-> s.time, alg |-> "ecdsaSha256",
   sig |-> [key |-> s.log, alg |-> "ecdsaSha256",
            input |-> [kind |-> s.kind, time |-> s.time, entry |-> s.entry]]]

Honest == {SctOf(s) : s \in issued}

Presented ==
  Honest \cup UNION {
    {[t EXCEPT !.log = l] : l \in Logs} \cup {[t EXCEPT !.time = x] : x \in 0..MaxTime}
    \cup {[t EXCEPT !.alg = a] : a \in {"ecdsaSha384", "anonymous"}}
    \cup {[t EXCEPT !.version = 1], [t EXCEPT !.form = "short"]} : t \in Honest}

CertOf(f, body, scts) ==
  [form |-> f.form, body |-> body, issuerKey |-> "k1", exts |-> f.exts, scts |-> scts, long |-> f.long]

SctLists == {<<>>} \cup {<<s, t>> : s \in Presented, t \in Honest}

\* At most so much is wrong.
Few(faults) == Cardinality({i \in DOMAIN faults : faults[i]}) <= MaxFaults

Ordinary == [form |-> "ok", exts |-> "ok", long |-> FALSE]
Issuer == [form |-> "ok", key |-> "k1"]

Readable(f) == f.form = "ok" /\ f.exts # "absent" /\ ~f.long

Ready == list # NoLogs /\ answer = NoAnswer

Answer(a) == answer' = a /\ UNCHANGED <<now, history, issued, list>>

\* A verdict on one SCT: for which entry it was presented, whether that could
\* be made out of the certificates, and the result.
Verdict(sct, kind, entry, sound, result) ==
  [sct |-> sct, kind |-> kind, entry |-> entry, sound |-> sound, result |-> result]

VerifyCert ==
  /\ Ready
  /\ \E sct \in Presented, f \in Leaves, body \in Bodies :
       /\ Few(<<sct \notin Honest, f # Ordinary, body # sct.sig.input.entry[1]>>)
       /\ LET cert == CertOf(f, body, <<>>)
          IN  Answer([call |-> "cert",
                      verdicts |-> <<Verdict(sct, "x509", <<body, "k1", <<>>>>, ~f.long,
                                             VerifySctForCert(list.logs, sct, cert))>>])

VerifyPrecert ==
  /\ Ready
  /\ \E sct \in Presented, f \in Leaves, body \in Bodies, issuer \in Issuers :
       /\ Few(<<sct \notin Honest, f # Ordinary, body # sct.sig.input.entry[1], issuer # Issuer>>)
       /\ LET leaf == CertOf(f, body, <<sct>>)
          IN  Answer([call |-> "precert",
                      verdicts |-> <<Verdict(sct, "precert", <<body, issuer.key>>,
                                             Readable(f) /\ issuer.form = "ok",
                                             VerifySctForPrecert(list.logs, sct, leaf, issuer))>>])

\* verify_embedded_scts, which is given certificates that were parsed.
VerifyEmbedded ==
  /\ Ready
  /\ \E scts \in SctLists, f \in Leaves, body \in Bodies, issuer \in Issuers :
       LET leaf == CertOf(f, body, scts)
           all == VerifyEmbeddedScts(list.logs, leaf, issuer)
       IN  /\ f.form = "ok" /\ issuer.form = "ok"
           /\ Few(<<f # Ordinary, scts # <<>> /\ body # scts[1].sig.input.entry[1], issuer # Issuer>>)
           /\ Answer([call |-> "embedded", result |-> all.result,
                      verdicts |-> IF all.result # "Ok" THEN <<>>
                                   ELSE [i \in DOMAIN scts |->
                                           Verdict(scts[i], "precert", <<body, issuer.key>>, Readable(f),
                                                   IF i \in all.valid THEN "Ok" ELSE "skipped")]])

\* A list of SCTs in an OCSP response, where the channel says.
ResponseOver(channel, l) ==
  [form |-> IF channel \in {"noBasic", "malformed"} THEN channel ELSE "ok",
   status |-> IF channel = "tryLater" THEN channel ELSE "successful",
   singles |-> IF channel = "single" THEN <<NoList, l>> ELSE <<NoList>>,
   exts |-> IF channel = "single" THEN NoList ELSE l]

\* What comes out of the channel: SCTs, if the list and the response parse.
Delivered(channel, l) ==
  LET ocsp == ResponseOver(channel, l)
      result == FirstError(IF channel = "tls" THEN SerializedListChecks(l) ELSE OcspListChecks(ocsp))
  IN  [result |-> result,
       scts |-> IF result # "Ok" THEN <<>> ELSE IF channel = "tls" THEN l.scts ELSE OcspList(ocsp).scts]

\* A certificate without SCTs of its own.
Bare == [form |-> "ok", exts |-> "absent", long |-> FALSE]

\* SCTs out of the handshake or out of an OCSP response, each verified for the
\* certificate that was presented with them.
VerifyDelivered ==
  /\ Ready
  /\ \E scts \in SctLists, form \in {"ok", "truncated", "notOctets"}, body \in Bodies,
       channel \in {"tls", "single", "response", "tryLater", "noBasic", "malformed"} :
       LET out == Delivered(channel, [form |-> form, scts |-> scts])
       IN  /\ form # "notOctets" \/ channel # "tls"
           /\ Few(<<form # "ok", scts # <<>> /\ body # scts[1].sig.input.entry[1], channel \notin {"tls", "single"}>>)
           /\ Answer([call |-> "delivered", result |-> out.result,
                      verdicts |-> [i \in DOMAIN out.scts |->
                        Verdict(out.scts[i], "x509", <<body, "k1", <<>>>>, TRUE,
                                VerifySctForCert(list.logs, out.scts[i], CertOf(Bare, body, <<>>)))]])

\* Tree heads are the log's own, or say something else than it signed.
VerifyTreeHead ==
  /\ Ready
  /\ \E log \in Logs, by \in Logs, size \in 1..2, alg \in {"ecdsaSha256", "anonymous"} :
       LET signed == TreeHeadInput(now, 1, "root")
           sth == [time |-> now, size |-> size, root |-> "root", alg |-> alg,
                   sig |-> [key |-> by, alg |-> "ecdsaSha256", input |-> signed]]
       IN  Answer([call |-> "sth", true |-> log = by /\ size = 1,
                   result |-> VerifySth(list.logs, log, sth)])

-----------------------------------------------------------------------------
(***************************************************************************)
(* Trees.  MTH and PATH of RFC 6962 section 2.1 over n hashes from         *)
(* position i on, the path that of the m-th of them; the entries of a log  *)
(* are certificates and precertificates in turn.                           *)
(***************************************************************************)
EntryAt(i) ==
  LET cert == CertOf(Ordinary, "b1", <<>>)
  IN  IF i % 2 = 0 THEN LeafForCert([time |-> i], cert) ELSE LeafForPrecert([time |-> i], cert, Issuer)

\* The largest power of two below n: twice that below half of n, rounded up.
Split[n \in Nat] == IF n <= 2 THEN 1 ELSE 2 * Split[(n + 1) \div 2]

Trees(leaf) ==
  LET mth[n \in 1..MaxTree] ==
        [i \in Nat |-> IF n = 1 THEN leaf[i]
                       ELSE InnerHash(mth[Split[n]][i], mth[n - Split[n]][i + Split[n]])]
  IN  mth

AuditPaths(leaf) ==
  LET path[n \in 1..MaxTree] ==
        [i \in Nat |-> [m \in 0..n - 1 |->
          LET k == Split[n]
          IN  IF n = 1 THEN <<>>
              ELSE IF m < k THEN Append(path[k][i][m], Trees(leaf)[n - k][i + k])
              ELSE Append(path[n - k][i + k][m - k], Trees(leaf)[k][i])]]
  IN  path

LeafHashes == [i \in Nat |-> MerkleLeafHash(EntryAt(i))]

MTH  == Trees(LeafHashes)
PATH == AuditPaths(LeafHashes)

\* Entries nobody logged: one of another position, and one that reads like the
\* two children of an inner node.
FalseEntries(n) == {EntryAt(n)} \cup {<<MTH[k][0], MTH[n - k][k]>> : k \in {Split[n]}}

\* Nothing of the above plays a part in these.
Start == list = NoLogs /\ answer = NoAnswer /\ now = 0 /\ issued = {} /\ \A l \in Logs : Len(history[l]) = 1

\* An honest proof, an honest proof offered for another entry, index or size,
\* and one that is too short or too long.
VerifyInclusionProof ==
  /\ Start
  /\ \E n \in 1..MaxTree : \E m \in 0..n - 1 :
       \E index \in 0..n, size \in 0..n + 1,
          path \in {PATH[n][0][m], SubSeq(PATH[n][0][m], 2, Len(PATH[n][0][m])), Append(PATH[n][0][m], MTH[1][0])},
          e \in {EntryAt(m)} \cup (IF n > 1 THEN FalseEntries(n) ELSE {}) :
         Answer([call |-> "inclusion", entry |-> e, n |-> n, index |-> index, size |-> size,
                 honest |-> e = EntryAt(m) /\ index = m /\ size = n /\ path = PATH[n][0][m],
                 result |-> VerifyInclusion(MerkleLeafHash(e),
                              [index |-> index, size |-> size, path |-> path], MTH[n][0])])

\* A timestamp of the list, in days.
ReadTimestamp ==
  /\ Start
  /\ \E d \in Dates :
       Answer([call |-> "time", date |-> d,
               days |-> IF CivilAccepted(d[2], d[3]) THEN DaysFromCivil(d[1], d[2], d[3]) ELSE None])

Next ==
  \/ Tick \/ (\E log \in Logs : ChangeState(log) \/ Issue(log))
  \/ (\E damage \in Damages : LoadList(damage)) \/ BuildList
  \/ VerifyCert \/ VerifyPrecert \/ VerifyEmbedded \/ VerifyDelivered \/ VerifyTreeHead
  \/ VerifyInclusionProof \/ ReadTimestamp

Spec == Init /\ [][Next]_vars

-----------------------------------------------------------------------------
\* The log was usable at time t, by what was known when the list was read.
UsableAt(log, t) ==
  LET h == list.known[log]
  IN  \E i \in DOMAIN h : /\ h[i].state = "usable" /\ h[i].at <= t
                          /\ i = Len(h) \/ t < h[i + 1].at

\* What the log would have signed.
Claim(v) == [log |-> v.sct.log, time |-> v.sct.time, kind |-> v.kind, entry |-> v.entry]

\* The log signed exactly this.
Signed(v) == Claim(v) \in issued

Verdicts == IF "verdicts" \in DOMAIN answer THEN ToSet(answer.verdicts) ELSE {}

KnownState(log) == list.known[log][Len(list.known[log])].state

\* The list says what the history does about this log: it was built by the
\* client, or it was read while the log was usable.
Informed(log) == list.from = "client" \/ KnownState(log) = "usable"

(***************************************************************************)
(* An SCT that is accepted was signed by a log of the list, for the        *)
(* certificate, the issuer and the channel it was presented with, at its   *)
(* time, and the log was usable then by what the list could know.  About   *)
(* verify_sct_for_cert, verify_sct_for_precert and verify_embedded_scts:   *)
(* what the signatures bind, with a list that may be older than the SCT.   *)
(***************************************************************************)
AcceptedSctsAreGenuine ==
  \A v \in Verdicts : v.result = "Ok" => Signed(v) /\ UsableAt(v.sct.log, v.sct.time)

(***************************************************************************)
(* An SCT presented as it was signed by a log that was usable then is      *)
(* accepted and counted, whatever else is in the list of SCTs with it,     *)
(* when the client knows of the log.  About the window of a log, and about *)
(* verify_embedded_scts skipping the SCTs that do not verify.              *)
(***************************************************************************)
GenuineSctsAreAccepted ==
  \A v \in Verdicts :
    (/\ Signed(v) /\ v.sct = SctOf(Claim(v)) /\ v.sound
     /\ UsableAt(v.sct.log, v.sct.time) /\ Informed(v.sct.log) /\ Keys[v.sct.log].form = "ok")
    => v.result = "Ok"

(***************************************************************************)
(* A tree head is accepted exactly if the log signed it as presented.      *)
(* About verify_sth: heads of the other logs and heads of another size.    *)
(***************************************************************************)
TreeHeadsAreExact ==
  answer.call = "sth" /\ answer.result \in {"Ok", "InvalidSignature"}
    => (answer.result = "Ok" <=> answer.true)

(***************************************************************************)
(* An inclusion proof that verifies against the root of a tree proves that *)
(* the entry is in the tree, and, with the size of that tree, that it is   *)
(* at the index.  About verify_inclusion: entries are never confused with  *)
(* inner nodes and no proof works for an entry of another tree.            *)
(***************************************************************************)
InclusionIsSound ==
  answer.call = "inclusion" /\ answer.result = "Ok"
    => /\ \E i \in 0..answer.n - 1 : answer.entry = EntryAt(i)
       /\ answer.size = answer.n => answer.entry = EntryAt(answer.index)

(***************************************************************************)
(* The audit path of every entry of every tree verifies.  About            *)
(* verify_inclusion in trees that are not full, where the last entry skips *)
(* levels.                                                                 *)
(***************************************************************************)
HonestProofsVerify == answer.call = "inclusion" /\ answer.honest => answer.result = "Ok"

\* The days of a month, and those before it since 1970, counted one by one.
LeapYear(y) == y % 4 = 0 /\ (y % 100 # 0 \/ y % 400 = 0)
DaysIn(y, m) == CASE m = 2 -> (IF LeapYear(y) THEN 29 ELSE 28)
                  [] m \in {4, 6, 9, 11} -> 30
                  [] OTHER -> 31

(***************************************************************************)
(* The times in a list are those of the calendar: the first day of a month *)
(* is the day after the last of the one before, and 1970 begins with day   *)
(* zero.  About days_from_civil around centuries and leap years.           *)
(***************************************************************************)
TimesAreRight ==
  answer.call = "time" /\ answer.days # None =>
    LET y == answer.date[1]  m == answer.date[2]  d == answer.date[3]
    IN  /\ DaysFromCivil(1970, 1, 1) = 0
        /\ d = 1 /\ m = 1 => answer.days = DaysFromCivil(y - 1, 12, 31) + 1
        /\ d = 1 /\ m > 1 => answer.days = DaysFromCivil(y, m - 1, DaysIn(y, m - 1)) + 1
        /\ d > 1 => answer.days = DaysFromCivil(y, m, d - 1) + 1

(***************************************************************************)
(* SCTs are accepted exactly if they are genuine, by a list whose times    *)
(* are read by the calendar.                                               *)
(***************************************************************************)
SctVerdictsAreExact == AcceptedSctsAreGenuine /\ GenuineSctsAreAccepted /\ TimesAreRight

(***************************************************************************)
(* What a log says of its tree is accepted exactly if it is so: signed     *)
(* heads, proofs of entries and nothing that only resembles them.          *)
(***************************************************************************)
TreeProofsAreExact == TreeHeadsAreExact /\ InclusionIsSound /\ HonestProofsVerify

=============================================================================
