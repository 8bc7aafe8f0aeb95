----------------------------- MODULE HttpFetchers -----------------------------
(***************************************************************************)
(* pkix-revocation-http without the CRL half of its cache: threads and     *)
(* tasks that check certificates with HttpCrlFetcher, HttpOcspFetcher,     *)
(* their async forms and CachedHttpOcspFetcher, the last of which share    *)
(* the OCSP half of a RevocationCache.                                     *)
(*                                                                         *)
(* A step is one use of the network or of the shared cache.  Servers may   *)
(* answer with any document issued so far (proxies cache, replicas lag),   *)
(* also with one about another certificate, with a damaged one, with an    *)
(* HTTP error or not at all.                                               *)
(***************************************************************************)
EXTENDS Checks, SequencesExt

CONSTANTS
  Threads,      \* threads or tasks
  Certificates, \* certificates [serial, cdp, aia] of one issuer
  Fetchers,     \* who uses which fetcher: functions from Threads; "none": none
  Replies,      \* what may come back for a request
  MixUps,       \* answers to a request for one serial number about another one
  Revocations,  \* when certificates are revoked, by serial number; None: never
  Life,         \* how long a document is valid
  MaxSkew,      \* how much the clock of a fetcher may be behind
  MaxClock,     \* bound on time
  MaxCalls,     \* bound on the calls of one thread
  BodyLimit     \* max_response_size

VARIABLES
  clock, revokedAt,     \* time; when each certificate is revoked, None: never
  cache,                \* OcspCacheKey -> entry
  pc, kind, cert, now,  \* where a thread is, and the call it makes
  urls, pos,            \* the URLs of the call and the one it is at
  doc, source,          \* the document in hand and where it is from
  failures, result, calls

thread == <<pc, kind, cert, now, urls, pos, doc, source, failures, result, calls>>
fetchersVars == <<clock, revokedAt, cache, thread>>

-----------------------------------------------------------------------------
(***************************************************************************)
(* extract.rs.  A distribution point is [form, names], an access           *)
(* description [method, name], a name [scheme, url].                       *)
(***************************************************************************)
\* is_http_uri and push_if_http_uri
HttpUrls(names) ==
  LET Http(n) == n.scheme \in {"http", "https"}
      found == SelectSeq(names, Http)
  IN  [i \in DOMAIN found |-> found[i].url]

\* extract_cdp_http_urls: only full names count.
CdpUrls(c) ==
  LET full == SelectSeq(c.cdp.points, LAMBDA dp : dp.form = "full")
  IN  HttpUrls(FlattenSeq([i \in DOMAIN full |-> full[i].names]))

\* extract_aia_http_urls: AiaUrls, by access method.
AiaUrls(c, method) ==
  LET found == SelectSeq(c.aia.descriptions, LAMBDA ad : ad.method = method)
  IN  HttpUrls([i \in DOMAIN found |-> found[i].name])

CrlKind(k) == k \in {"crl", "async_crl"}
ExtensionOf(k, c) == IF CrlKind(k) THEN c.cdp.form ELSE c.aia.form
UrlsOf(k, c) == IF CrlKind(k) THEN CdpUrls(c) ELSE AiaUrls(c, "ocsp")

\* The shapes a document may have: nextUpdate after "life", the one of the
\* first single response after "lead".
Shapes == {[form |-> "ok", life |-> Life, lead |-> Life],
           [form |-> "ok", life |-> Life, lead |-> Life + 1],
           [form |-> "ok", life |-> None, lead |-> None],
           [form |-> "empty", life |-> Life, lead |-> Life],
           [form |-> "unparsable", life |-> Life, lead |-> Life]}

\* Times and sizes are numbers, a responder mixes up certificates of its issuer, and
\* what extract.rs finds is a list of strings.
ASSUME FetchersAssumption ==
  /\ Life \in Nat /\ MaxSkew \in Nat /\ BodyLimit \in Nat
  /\ \A f \in Fetchers : DOMAIN f = Threads
  /\ \A r \in Replies : r.size \in Nat /\ r.broken \in BOOLEAN
  /\ \A rev \in Revocations, c \in Certificates : rev[c.serial] \in Int
  /\ \A m \in MixUps : m.shape \in Shapes /\ \E c \in Certificates : m.about = c.serial
  /\ \A c \in Certificates : CdpUrls(c) \in Seq(STRING) /\ AiaUrls(c, "ocsp") \in Seq(STRING)

-----------------------------------------------------------------------------
(***************************************************************************)
(* Documents: a CRL, or an OCSP response.  "serial" is the serial number   *)
(* it speaks of, "lead" the nextUpdate of the first single response, which *)
(* need not be the one that was asked for.  "asked" is history that no     *)
(* code reads: the serial number and the URL of the request it came for.   *)
(***************************************************************************)
NoDoc == [form |-> "absent"]

\* Of which serial number a document may speak, and in which shape: a CRL says of
\* each whether it is revoked, a responder may have mixed up two requests.
Contents(k, c) ==
  IF CrlKind(k) THEN {<<c.serial, sh>> : sh \in {x \in Shapes : x.form # "empty"}}
  ELSE {<<c.serial, sh>> : sh \in Shapes}
       \cup {<<m.about, m.shape>> : m \in {x \in MixUps : x.asked = c.serial}}

\* What may come back from "url" for the request about c (build_ocsp_request).
Served(k, c, url) ==
  {[form |-> x[2].form, serial |-> x[1], this |-> t,
    next |-> IF x[2].life = None THEN None ELSE t + x[2].life,
    lead |-> IF x[2].lead = None THEN None ELSE t + x[2].lead,
    revoked |-> revokedAt[x[1]] # None /\ revokedAt[x[1]] <= t,
    asked |-> <<c.serial, url>>] : x \in Contents(k, c), t \in 1..clock}

\* OcspChecker and CrlChecker on a document that parses and is signed.
Verdict(d, serial, t) ==
  FirstError(<< <<d.form = "empty", "StatusUnknown">>,
                <<d.serial # serial, "StatusUnknown">>,
                <<t < d.this, "NotYetValid">>,
                <<d.next = None \/ t > d.next, "Expired">>,
                <<d.revoked, "Revoked">> >>)

-----------------------------------------------------------------------------
(***************************************************************************)
(* clients/ureq.rs and clients/reqwest.rs.  A reply is [status, hint,      *)
(* size, broken]: "size" bytes arrive, then the connection breaks or the   *)
(* body ends; "hint" is the Content-Length.                                *)
(***************************************************************************)
\* A client that reads up to the limit and takes that for the body.
Mut_UreqCutsOff(r) ==
  FirstError(<< <<r.status = 0, "Transport">>, <<r.status # 200, "HttpStatus">>,
                <<r.broken /\ r.size <= BodyLimit, "Transport">> >>)

\* UreqFetcher::fetch reads at most one byte more than the limit.
UreqFetch(r) ==
  FirstError(<< <<r.status = 0, "Transport">>,
                <<r.status # 200, "HttpStatus">>,
                <<r.broken /\ r.size <= BodyLimit, "Transport">>,
                <<r.size > BodyLimit, "TooLarge">> >>)

\* ReqwestFetcher::fetch looks at the length announced and counts chunks.
ReqwestFetch(r) ==
  FirstError(<< <<r.status = 0, "Transport">>,
                <<r.status # 200, "HttpStatus">>,
                <<r.hint # None /\ r.hint > BodyLimit, "TooLarge">>,
                <<r.size > BodyLimit, "TooLarge">>,
                <<r.broken, "Transport">> >>)

\* The async fetchers await a ReqwestFetcher, the others block on ureq.
Fetched(k, r) == IF k \in {"async_crl", "async_ocsp"} THEN ReqwestFetch(r) ELSE UreqFetch(r)

-----------------------------------------------------------------------------
\* One key for all certificates of an issuer.
Mut_KeyWithoutSerial(c, url) == <<0, url>>

\* OcspCacheKey, of the CertID in the request: the issuer is always the same.
CacheKey(c, url) == <<c.serial, url>>

\* is_live of the metadata parse_ocsp_metadata found.
IsLive(d, t) == d.lead = None \/ d.lead > t

Url(t) == urls[t][pos[t]]
Key(t) == CacheKey(cert[t], Url(t))

FetchersInit ==
  /\ clock = 1
  /\ revokedAt \in Revocations
  /\ cache = << >>
  /\ pc = [t \in Threads |-> "idle"]
  /\ kind \in Fetchers
  /\ cert = [t \in Threads |-> CHOOSE c \in Certificates : TRUE]
  /\ now = [t \in Threads |-> 0]
  /\ urls = [t \in Threads |-> <<>>]
  /\ pos = [t \in Threads |-> 0]
  /\ doc = [t \in Threads |-> NoDoc]
  /\ source = [t \in Threads |-> "none"]
  /\ failures = [t \in Threads |-> {}]
  /\ result = [t \in Threads |-> "none"]
  /\ calls = [t \in Threads |-> 0]

Go(t, where) == pc' = [pc EXCEPT ![t] = where]
Return(t, r) == Go(t, "idle") /\ result' = [result EXCEPT ![t] = r]
Continue(t, where) == Go(t, where) /\ UNCHANGED result

\* A call begins: the URLs of the certificate, and Ok if it has none.
Begin(t, c, n) ==
  /\ pc[t] = "idle" /\ calls[t] < MaxCalls
  /\ cert' = [cert EXCEPT ![t] = c]
  /\ now' = [now EXCEPT ![t] = n]
  /\ urls' = [urls EXCEPT ![t] = UrlsOf(kind[t], c)]
  /\ pos' = [pos EXCEPT ![t] = 1]
  /\ doc' = [doc EXCEPT ![t] = NoDoc]
  /\ source' = [source EXCEPT ![t] = "none"]
  /\ failures' = [failures EXCEPT ![t] = {}]
  /\ calls' = [calls EXCEPT ![t] = @ + 1]
  /\ \/ /\ ExtensionOf(kind[t], c) = "malformed"
        /\ Return(t, "RevocationFetchFailed")
     \/ /\ ExtensionOf(kind[t], c) # "malformed" /\ UrlsOf(kind[t], c) = <<>>
        /\ Return(t, "Ok")
     \/ /\ ExtensionOf(kind[t], c) # "malformed" /\ UrlsOf(kind[t], c) # <<>>
        /\ Go(t, IF kind[t] = "cached_ocsp" THEN "lookup" ELSE "fetch")
        /\ result' = [result EXCEPT ![t] = "none"]
  /\ UNCHANGED <<clock, revokedAt, kind, cache>>

\* check_revocation of each fetcher.
HttpCrlFetcher(t, c, n) == kind[t] = "crl" /\ Begin(t, c, n)
HttpOcspFetcher(t, c, n) == kind[t] = "ocsp" /\ Begin(t, c, n)
AsyncHttpCrlFetcher(t, c, n) == kind[t] = "async_crl" /\ Begin(t, c, n)
AsyncHttpOcspFetcher(t, c, n) == kind[t] = "async_ocsp" /\ Begin(t, c, n)
CachedHttpOcspFetcher(t, c, n) == kind[t] = "cached_ocsp" /\ Begin(t, c, n)

Call(t, c, n) ==
  \/ HttpCrlFetcher(t, c, n)
  \/ HttpOcspFetcher(t, c, n)
  \/ AsyncHttpCrlFetcher(t, c, n)
  \/ AsyncHttpOcspFetcher(t, c, n)
  \/ CachedHttpOcspFetcher(t, c, n)

callData == <<kind, cert, now, urls, calls>>

\* get_ocsp, and the answer of a live entry that decodes.
Lookup(t) ==
  /\ pc[t] = "lookup"
  /\ LET hit == Key(t) \in DOMAIN cache /\ IsLive(cache[Key(t)], now[t])
         d == cache[Key(t)]
     IN  \/ /\ hit /\ d.form # "unparsable"
            /\ doc' = [doc EXCEPT ![t] = d]
            /\ source' = [source EXCEPT ![t] = "cache"]
            /\ Return(t, Verdict(d, cert[t].serial, now[t]))
         \/ hit /\ d.form = "unparsable" /\ Continue(t, "invalidate") /\ UNCHANGED <<doc, source>>
         \/ ~hit /\ Continue(t, "fetch") /\ UNCHANGED <<doc, source>>
  /\ UNCHANGED <<clock, revokedAt, cache, callData, pos, failures>>

\* invalidate_ocsp: whatever the entry is by now.
Invalidate(t) ==
  /\ pc[t] = "invalidate"
  /\ cache' = [k \in DOMAIN cache \ {Key(t)} |-> cache[k]]
  /\ failures' = [failures EXCEPT ![t] = @ \cup {<<pos[t], "cache">>}]
  /\ Continue(t, "fetch")
  /\ UNCHANGED <<clock, revokedAt, callData, pos, doc, source>>

\* A loop that stays at the URL that failed.
Mut_SameUrl(t) ==
  Continue(t, IF kind[t] = "cached_ocsp" THEN "lookup" ELSE "fetch") /\ UNCHANGED pos

\* The next URL, or the end of the list.
NextUrl(t) ==
  IF pos[t] < Len(urls[t])
    THEN /\ pos' = [pos EXCEPT ![t] = @ + 1]
         /\ Continue(t, IF kind[t] = "cached_ocsp" THEN "lookup" ELSE "fetch")
    ELSE Return(t, "RevocationFetchFailed") /\ UNCHANGED pos

\* The fetch fails, or what it brought does not decode.
FetchFails(t) ==
  /\ pc[t] = "fetch"
  /\ \/ \E r \in Replies : Fetched(kind[t], r) # "Ok"
     \/ \E r \in Replies, d \in Served(kind[t], cert[t], Url(t)) :
          Fetched(kind[t], r) = "Ok" /\ d.form = "unparsable"
  /\ failures' = [failures EXCEPT ![t] = @ \cup {<<pos[t], "fetch">>}]
  /\ NextUrl(t)
  /\ UNCHANGED <<clock, revokedAt, cache, callData, doc, source>>

\* A document that decodes decides the call, whatever the verdict is.  The
\* cached fetcher stores it first.  A body that broke off is a document of
\* its own: here, one that names nothing.
Fetch(t) ==
  /\ pc[t] = "fetch"
  /\ \E r \in Replies, d \in Served(kind[t], cert[t], Url(t)) :
       /\ Fetched(kind[t], r) = "Ok" /\ d.form # "unparsable"
       /\ doc' = [doc EXCEPT ![t] = IF r.broken \/ r.size > BodyLimit
                                      THEN [d EXCEPT !.form = "truncated"] ELSE d]
       /\ source' = [source EXCEPT ![t] = "network"]
       /\ IF kind[t] = "cached_ocsp" THEN Continue(t, "populate")
          ELSE Return(t, Verdict(doc'[t], cert[t].serial, now[t]))
  /\ UNCHANGED <<clock, revokedAt, cache, callData, pos, failures>>

\* maybe_populate_cache: put_ocsp, unless the response has no single response.
Populate(t) ==
  /\ pc[t] = "populate"
  /\ cache' = IF doc[t].form = "empty" THEN cache
              ELSE [k \in DOMAIN cache \cup {Key(t)} |->
                      IF k = Key(t) THEN doc[t] ELSE cache[k]]
  /\ Return(t, Verdict(doc[t], cert[t].serial, now[t]))
  /\ UNCHANGED <<clock, revokedAt, callData, pos, doc, source, failures>>

Step(t) == Lookup(t) \/ Invalidate(t) \/ FetchFails(t) \/ Fetch(t) \/ Populate(t)

\* A persistent cache behind the trait loses the bytes of an entry, not
\* its metadata.
Corrupt ==
  \E k \in DOMAIN cache :
    /\ cache[k].form # "unparsable"
    /\ cache' = [cache EXCEPT ![k] = [form |-> "unparsable", lead |-> @.lead]]
    /\ UNCHANGED <<clock, revokedAt, thread>>

Tick ==
  /\ clock < MaxClock
  /\ clock' = clock + 1
  /\ UNCHANGED <<revokedAt, cache, thread>>

FetchersNext ==
  \/ \E t \in Threads, c \in Certificates, n \in (clock - MaxSkew) .. clock : Call(t, c, n)
  \/ \E t \in Threads : Step(t)
  \/ Corrupt
  \/ Tick

\* A fetch ends: both clients give up after DEFAULT_TIMEOUT.
FetchersSpec == FetchersInit /\ [][FetchersNext]_fetchersVars /\ \A t \in Threads : WF_fetchersVars(Step(t))

-----------------------------------------------------------------------------
(***************************************************************************)
(* A call answers Ok about its own certificate, on a complete document     *)
(* that was valid on its clock and that was issued before the certificate  *)
(* was revoked, or else the certificate names no HTTP server.  About every *)
(* fetcher: empty URL lists, the failover loop, the window of the checker, *)
(* and the OCSP cache, whose entries are neither verified when they are    *)
(* stored nor compared with the ones they replace.                         *)
(***************************************************************************)
OkHasEvidence ==
  \A t \in Threads :
    (pc[t] = "idle" /\ result[t] = "Ok") =>
      \/ urls[t] = <<>>
      \/ /\ doc[t].form = "ok" /\ doc[t].serial = cert[t].serial
         /\ doc[t].this <= now[t] /\ now[t] <= doc[t].this + Life
         /\ revokedAt[cert[t].serial] = None \/ doc[t].this < revokedAt[cert[t].serial]

(***************************************************************************)
(* What the cache hands to a call is what this server answered to a        *)
(* request for this certificate, whichever thread asked: two certificates  *)
(* or two servers are never mixed up.  About OcspCacheKey; a responder     *)
(* that mixed up two requests itself is believed until its answer ends.    *)
(***************************************************************************)
CachedAnswersWereAskedFor ==
  \A t \in Threads :
    (pc[t] = "idle" /\ source[t] = "cache") => doc[t].asked = <<cert[t].serial, Url(t)>>

(***************************************************************************)
(* A cached response is not served after its end: a call fails as expired  *)
(* from the cache only if the response has no nextUpdate, or if its first  *)
(* single response, of which the cache keeps the time, is another one.     *)
(* About is_live and parse_ocsp_metadata.                                  *)
(***************************************************************************)
CachedResponsesAreCurrent ==
  \A t \in Threads :
    (pc[t] = "idle" /\ source[t] = "cache" /\ result[t] = "Expired") =>
      doc[t].lead # doc[t].next \/ doc[t].next = None

(***************************************************************************)
(* RevocationFetchFailed is returned only after every URL failed in this   *)
(* call, or without any request if the extension does not decode.          *)
(***************************************************************************)
FailureTriedEveryServer ==
  \A t \in Threads :
    (pc[t] = "idle" /\ result[t] = "RevocationFetchFailed") =>
      ExtensionOf(kind[t], cert[t]) = "malformed"
        \/ \A i \in DOMAIN urls[t] : <<i, "fetch">> \in failures[t]

\* Every call returns: the loops go through finite lists and every fetch ends.
EveryCallEnds == \A t \in Threads : pc[t] # "idle" ~> pc[t] = "idle"

(***************************************************************************)
(* No verdict without its grounds: Ok rests on a document, and failure on  *)
(* every server having failed.                                             *)
(***************************************************************************)
VerdictsHaveGrounds == OkHasEvidence /\ FailureTriedEveryServer

(***************************************************************************)
(* What the OCSP cache serves is an answer to the caller's own request and *)
(* still current, whichever thread stored it.                              *)
(***************************************************************************)
CacheServesTheCaller == CachedAnswersWereAskedFor /\ CachedResponsesAreCurrent

=============================================================================
