---------------------------- MODULE MCHttpFetchers ----------------------------
(***************************************************************************)
(* HttpFetchers for TLC.                                                   *)
(*                                                                         *)
(* Two threads and two certificates with the same servers make every race  *)
(* on one cache entry and every mix-up of two.  Three instants and a       *)
(* lifetime of one show a document before, in, at the end of and after its *)
(* validity.                                                               *)
(***************************************************************************)
EXTENDS HttpFetchers

CONSTANTS t1, t2

\* Two threads share the cache; the other fetchers share nothing.
MCFetchers ==
  {[t \in Threads |-> "cached_ocsp"]} \cup
  {(t1 :> k) @@ (t2 :> "none") : k \in {"crl", "async_crl", "ocsp", "async_ocsp"}}
MCRevocations == {<<2, None>>}

\* Asked about the certificate that gets revoked, a responder speaks of the other.
MCMixUps == {[asked |-> 1, about |-> 2, shape |-> [form |-> "ok", life |-> Life, lead |-> Life]]}

Name(scheme, url) == [scheme |-> scheme, url |-> url]
Point(form, names) == [form |-> form, names |-> names]
Access(method, name) == [method |-> method, name |-> name]

TwoServers ==
  [serial |-> 1,
   cdp |-> [form |-> "present",
            points |-> <<Point("none", <<>>), Point("relative", <<>>),
                         Point("full", <<Name("ldap", "u0"), Name("http", "u1")>>)>>],
   aia |-> [form |-> "present",
            descriptions |-> <<Access("ca_issuers", Name("http", "u3")),
                               Access("ocsp", Name("http", "u1")),
                               Access("ocsp", Name("https", "u2"))>>]]
OneServer ==
  [serial |-> 2, cdp |-> [form |-> "malformed", points |-> <<>>],
   aia |-> [form |-> "present", descriptions |-> <<Access("ocsp", Name("http", "u1"))>>]]
NoServer ==
  [serial |-> 2, cdp |-> [form |-> "absent", points |-> <<>>],
   aia |-> [form |-> "present", descriptions |-> <<Access("ocsp", Name("ldap", "u0"))>>]]

MCCerts == {TwoServers, OneServer, NoServer}

Reply(status, hint, size, broken) ==
  [status |-> status, hint |-> hint, size |-> size, broken |-> broken]
MCReplies == {Reply(200, 1, 1, FALSE), Reply(200, 9, 1, TRUE), Reply(200, None, 2, FALSE),
              Reply(404, 1, 1, FALSE), Reply(0, None, 0, TRUE)}

=============================================================================
