--------------------------- MODULE RevocationCache ---------------------------
(***************************************************************************)
(* pkix-revocation-http/src/cache.rs: threads that check one certificate   *)
(* with a CachedHttpCrlFetcher, all sharing one RevocationCache.           *)
(*                                                                         *)
(* A call walks the CRL URLs of the certificate.  For each it looks in the *)
(* cache, and on a miss fetches, stores what it fetched and returns the    *)
(* verdict of what it fetched.  A step of this specification is one use of *)
(* the shared cache or of the network; the rest of a call is local.        *)
(*                                                                         *)
(* The store is either an InMemoryCache, which tests and inserts under one *)
(* write lock, or a cache behind `dyn RevocationCache`, for which the test *)
(* and the insert are two calls.  All threads check the same certificate   *)
(* of the same issuer, so a cache key is its URL.                          *)
(*                                                                         *)
(* The CA and the servers are the environment: the CA numbers its CRLs,    *)
(* never takes the certificate off one and moves nextUpdate forward; a     *)
(* server may answer with any CRL ever published (mirrors lag), with a CRL *)
(* nobody signed, which may carry any number and any dates, with bytes     *)
(* that are no CRL, or not at all.                                         *)
(***************************************************************************)
EXTENDS Integers, Sequences, FiniteSets

CONSTANTS
  Threads,    \* threads that share the cache
  Uris,       \* CRL distribution point URLs
  UrlLists,   \* the URL lists a certificate may carry
  Backend,    \* "in_memory" or "dyn"
  Unsigned,   \* CRLs whose signature does not fit, as a server may send them
  Scopes,     \* how the CRLs of the CA relate to the certificate
  Lifetimes,  \* how long a CRL is valid; None: it has no nextUpdate
  Numbering,  \* {TRUE}: every CRL has a CRLNumber; FALSE: it may lack one
  MaxLag,     \* how much older than the clock now_unix of a fetcher may be
  MaxClock,   \* bound on time
  MaxCrls,    \* bound on the CRLs the CA publishes
  MaxCalls    \* bound on the calls of one thread

\* Option::None of a number or a time.
None == -1

Backends == {"in_memory", "dyn"}
AllDamages == {"unparsable", "signature"}
AllScopes == {"match", "issuer", "scope"}

(***************************************************************************)
(* A CRL: CachedCrl's metadata, and of the bytes what the checker tells    *)
(* apart.  "revoked" says that the certificate is listed; "scope" whether  *)
(* issuer name and cRLSign ("issuer") or the issuing distribution point    *)
(* ("scope") speak against using it for the certificate; "damage" whether  *)
(* the bytes parse and their signature verifies.                           *)
(***************************************************************************)
Crl == [number : Nat \cup {None}, this : Nat, next : Nat \cup {None},
        revoked : BOOLEAN, scope : AllScopes, damage : AllDamages \cup {"none"}]

NoCrl == [number |-> None, this |-> 0, next |-> None, revoked |-> FALSE,
          scope |-> "match", damage |-> "absent"]

\* Bytes that are no CRL.
Unreadable == [NoCrl EXCEPT !.damage = "unparsable"]

ASSUME ConstantsAssumption ==
  /\ UrlLists \subseteq Seq(Uris)
  /\ Backend \in Backends
  /\ Unsigned \subseteq {d \in Crl : d.damage = "signature"}
  /\ Scopes \subseteq AllScopes
  /\ Lifetimes \subseteq Nat \cup {None}
  /\ Numbering \subseteq BOOLEAN
  /\ MaxLag \in Nat /\ MaxClock \in Nat /\ MaxCrls \in Nat /\ MaxCalls \in Nat

Entry == Crl \cup {NoCrl}

Verdicts == {"Ok", "Revoked", "CrlIssuerMismatch", "CrlExpired",
             "CrlSignatureInvalid", "OutOfScope", "RevocationFetchFailed"}

\* The verdicts that decide whether the certificate is revoked.
Decisive == {"Ok", "Revoked"}

VARIABLES
  clock,      \* time, in seconds
  published,  \* every CRL the CA has published
  cache,      \* the shared cache: URL -> entry
  pc,         \* where the thread is in check_revocation
  now,        \* now_unix of the fetcher the thread uses
  urls,       \* URLs of the certificate
  pos,        \* index of the URL the loop is at
  failures,   \* the failures collected so far: <<URL index, what failed>>
  doc,        \* the CRL in hand
  source,     \* where the CRL in hand is from
  result,     \* what the call returned
  calls,      \* calls the thread has made
  decided,    \* history: highest CRLNumber that decided a finished call, per URL
  tainted,    \* history: URLs under which a CRL that nobody signed was stored
  floor       \* history: "decided" as it was when the thread's call began

thread == <<pc, now, urls, pos, failures, doc, source, result, calls, floor>>
vars == <<clock, published, cache, thread, decided, tainted>>

Pcs == {"idle", "lookup", "invalidate", "fetch", "populate", "put", "done"}
Sources == {"none", "cache", "network"}

(***************************************************************************)
(* Helpers of cache.rs and the verdict of pkix-revocation's CrlChecker.    *)
(***************************************************************************)
\* CrlChecker::new: the bytes decode.
Parses(d) == d.damage # "unparsable"

\* The validity window of the checker: a CRL without nextUpdate has expired.
CurrentAt(d, t) == d.this <= t /\ d.next # None /\ t <= d.next

\* A checker that does not verify signatures.
Mut_VerdictUnsigned(d, t) ==
  IF d.scope = "issuer" THEN "CrlIssuerMismatch"
  ELSE IF ~CurrentAt(d, t) THEN "CrlExpired"
  ELSE IF d.scope = "scope" THEN "OutOfScope"
  ELSE IF d.revoked THEN "Revoked"
  ELSE "Ok"

\* CrlChecker::check_revocation, in the order of its checks.
Verdict(d, t) ==
  IF d.scope = "issuer" THEN "CrlIssuerMismatch"
  ELSE IF ~CurrentAt(d, t) THEN "CrlExpired"
  ELSE IF d.damage = "signature" THEN "CrlSignatureInvalid"
  ELSE IF d.scope = "scope" THEN "OutOfScope"
  ELSE IF d.revoked THEN "Revoked"
  ELSE "Ok"

\* A cache whose entries never expire.
Mut_AlwaysLive(next, t) == next = None \/ next >= 0

\* is_live
IsLive(next, t) == next = None \/ next > t

\* get_crl followed by the filter of the caller.
Hit(u, t) == cache[u] # NoCrl /\ IsLive(cache[u].next, t)

\* No rollback guard.
Mut_NoGuard(prior, incoming) == FALSE

\* is_rollback and crl_number_gt
IsRollback(prior, incoming) ==
  /\ prior # NoCrl
  /\ prior.number # None /\ incoming.number # None
  /\ prior.number > incoming.number

Url(t) == urls[t][pos[t]]

\* The insert, and what is remembered of it.
Store(u, d) ==
  /\ cache' = [cache EXCEPT ![u] = d]
  /\ tainted' = IF d.damage = "signature" THEN tainted \cup {u} ELSE tainted

(***************************************************************************)
(* Returning.                                                              *)
(***************************************************************************)
Decide(u, d, v) ==
  decided' = IF v \in Decisive /\ d.number > decided[u]
               THEN [decided EXCEPT ![u] = d.number] ELSE decided

\* The first CRL that parses decides the call, whatever it says.
ReturnVerdict(t, d) ==
  /\ result' = [result EXCEPT ![t] = Verdict(d, now[t])]
  /\ Decide(Url(t), d, Verdict(d, now[t]))
  /\ pc' = [pc EXCEPT ![t] = "done"]

\* A loop that runs past the last URL, one that gives up at the first failure and
\* one that retries the same URL.
Mut_GiveUpAtOnce(t, what) ==
  /\ failures' = [failures EXCEPT ![t] = Append(@, <<pos[t], what>>)]
  /\ pc' = [pc EXCEPT ![t] = "done"]
  /\ result' = [result EXCEPT ![t] = "RevocationFetchFailed"]
  /\ UNCHANGED pos

Mut_RetrySameUrl(t, what) ==
  /\ pc' = [pc EXCEPT ![t] = "lookup"]
  /\ UNCHANGED <<failures, pos, result>>

\* `continue`, or the error after the last URL.
NextUrl(t, what) ==
  /\ failures' = [failures EXCEPT ![t] = Append(@, <<pos[t], what>>)]
  /\ IF pos[t] < Len(urls[t])
       THEN /\ pos' = [pos EXCEPT ![t] = @ + 1]
            /\ pc' = [pc EXCEPT ![t] = "lookup"]
            /\ UNCHANGED result
       ELSE /\ pc' = [pc EXCEPT ![t] = "done"]
            /\ result' = [result EXCEPT ![t] = "RevocationFetchFailed"]
            /\ UNCHANGED pos

(***************************************************************************)
(* The steps of check_revocation.                                          *)
(***************************************************************************)
\* A call begins with a fetcher that was built at some earlier time.
BeginCall(t, n) ==
  /\ pc[t] \in {"idle", "done"} /\ calls[t] < MaxCalls
  /\ n <= clock /\ clock <= n + MaxLag
  /\ now' = [now EXCEPT ![t] = n]
  /\ pos' = [pos EXCEPT ![t] = 1]
  /\ failures' = [failures EXCEPT ![t] = <<>>]
  /\ doc' = [doc EXCEPT ![t] = NoCrl]
  /\ source' = [source EXCEPT ![t] = "none"]
  /\ calls' = [calls EXCEPT ![t] = @ + 1]
  /\ floor' = [floor EXCEPT ![t] = decided]
  /\ UNCHANGED <<clock, published, cache, decided, tainted>>

\* The certificate names at least one URL.
Begin(t, n, list) ==
  /\ list # <<>>
  /\ BeginCall(t, n)
  /\ urls' = [urls EXCEPT ![t] = list]
  /\ pc' = [pc EXCEPT ![t] = "lookup"]
  /\ result' = [result EXCEPT ![t] = "none"]

\* It names none, or its extension does not parse: the call returns at once.
BeginWithoutUrls(t, n, v) ==
  /\ v \in {"Ok", "RevocationFetchFailed"}
  /\ BeginCall(t, n)
  /\ urls' = [urls EXCEPT ![t] = <<>>]
  /\ pc' = [pc EXCEPT ![t] = "done"]
  /\ result' = [result EXCEPT ![t] = v]

\* A live entry that parses decides.
LookupHit(t) ==
  /\ pc[t] = "lookup" /\ Hit(Url(t), now[t])
  /\ Parses(cache[Url(t)])
  /\ doc' = [doc EXCEPT ![t] = cache[Url(t)]]
  /\ source' = [source EXCEPT ![t] = "cache"]
  /\ ReturnVerdict(t, cache[Url(t)])
  /\ UNCHANGED <<clock, published, cache, now, urls, pos, failures, calls, floor, tainted>>

\* A live entry that does not parse is on its way out.
LookupCorrupt(t) ==
  /\ pc[t] = "lookup" /\ Hit(Url(t), now[t])
  /\ ~Parses(cache[Url(t)])
  /\ pc' = [pc EXCEPT ![t] = "invalidate"]
  /\ UNCHANGED <<clock, published, cache, now, urls, pos, failures, doc, source,
                 result, calls, decided, floor, tainted>>

\* No entry, or an expired one.
LookupMiss(t) ==
  /\ pc[t] = "lookup" /\ ~Hit(Url(t), now[t])
  /\ pc' = [pc EXCEPT ![t] = "fetch"]
  /\ UNCHANGED <<clock, published, cache, now, urls, pos, failures, doc, source,
                 result, calls, decided, floor, tainted>>

\* invalidate_crl: removes whatever the cache holds by now.
Invalidate(t) ==
  /\ pc[t] = "invalidate"
  /\ cache' = [cache EXCEPT ![Url(t)] = NoCrl]
  /\ failures' = [failures EXCEPT ![t] = Append(@, <<pos[t], "cached">>)]
  /\ pc' = [pc EXCEPT ![t] = "fetch"]
  /\ UNCHANGED <<clock, published, now, urls, pos, doc, source, result, calls,
                 decided, floor, tainted>>

\* What a server may answer with.
Served == published \cup Unsigned \cup {Unreadable}

\* The request fails.
FetchFails(t) ==
  /\ pc[t] = "fetch"
  /\ NextUrl(t, "fetch")
  /\ UNCHANGED <<clock, published, cache, now, urls, doc, source, calls, decided, floor,
                 tainted>>

\* The answer is no CRL.
FetchUnparsable(t, d) ==
  /\ pc[t] = "fetch" /\ ~Parses(d)
  /\ NextUrl(t, "parse")
  /\ UNCHANGED <<clock, published, cache, now, urls, doc, source, calls, decided, floor,
                 tainted>>

\* The answer is a CRL; it is stored before anything else is known of it.
FetchCrl(t, d) ==
  /\ pc[t] = "fetch" /\ Parses(d)
  /\ doc' = [doc EXCEPT ![t] = d]
  /\ source' = [source EXCEPT ![t] = "network"]
  /\ pc' = [pc EXCEPT ![t] = "populate"]
  /\ UNCHANGED <<clock, published, cache, now, urls, pos, failures, result, calls,
                 decided, floor, tainted>>

\* put_crl_if_not_rollback: test and insert under one write lock.
PopulateAtomically(t) ==
  /\ pc[t] = "populate" /\ Backend = "in_memory"
  /\ IF IsRollback(cache[Url(t)], doc[t]) THEN UNCHANGED <<cache, tainted>>
                                          ELSE Store(Url(t), doc[t])
  /\ ReturnVerdict(t, doc[t])
  /\ UNCHANGED <<clock, published, now, urls, pos, failures, doc, source, calls, floor>>

\* The fallback for trait objects: the test ...
CompareBeforePut(t) ==
  /\ pc[t] = "populate" /\ Backend = "dyn"
  /\ IF IsRollback(cache[Url(t)], doc[t])
       THEN ReturnVerdict(t, doc[t])
       ELSE /\ pc' = [pc EXCEPT ![t] = "put"]
            /\ UNCHANGED <<result, decided>>
  /\ UNCHANGED <<clock, published, cache, now, urls, pos, failures, doc, source, calls,
                 floor, tainted>>

\* ... and the insert.
Put(t) ==
  /\ pc[t] = "put"
  /\ Store(Url(t), doc[t])
  /\ ReturnVerdict(t, doc[t])
  /\ UNCHANGED <<clock, published, now, urls, pos, failures, doc, source, calls, floor>>

(***************************************************************************)
(* The environment.                                                        *)
(***************************************************************************)
Tick ==
  /\ clock < MaxClock
  /\ clock' = clock + 1
  /\ UNCHANGED <<published, cache, thread, decided, tainted>>

\* The next CRL of the CA.
NextCrl(life, numbered, scope, revoked) ==
  [number  |-> IF numbered THEN Cardinality(published) + 1 ELSE None,
   this    |-> clock,
   next    |-> IF life = None THEN None ELSE clock + life,
   revoked |-> revoked, scope |-> scope, damage |-> "none"]

\* The CA publishes it: who is on one list stays on the next, and nextUpdate moves on.
Publish(life, numbered, scope, revoked) ==
  /\ Cardinality(published) < MaxCrls
  /\ \A old \in published :
       /\ old.revoked => revoked
       /\ life # None => clock + life > old.next
  /\ published' = published \cup {NextCrl(life, numbered, scope, revoked)}
  /\ UNCHANGED <<clock, cache, thread, decided, tainted>>

\* Damage to the bytes of an entry: they no longer parse, or the signature no longer
\* fits them, and what else they say does not matter.  Number and nextUpdate are
\* kept apart from the bytes.
Damaged(d) == {[d EXCEPT !.damage = k] : k \in AllDamages}

\* A cache kept outside of the process damages an entry.
Corrupt(u, d) ==
  /\ Backend = "dyn"
  /\ cache[u] # NoCrl /\ d \in Damaged(cache[u])
  /\ cache' = [cache EXCEPT ![u] = d]
  /\ UNCHANGED <<clock, published, thread, decided, tainted>>

(***************************************************************************)
(* The specification.                                                      *)
(***************************************************************************)
Init ==
  /\ clock = 0
  /\ published = {}
  /\ cache = [u \in Uris |-> NoCrl]
  /\ pc = [t \in Threads |-> "idle"]
  /\ now = [t \in Threads |-> 0]
  /\ urls = [t \in Threads |-> <<>>]
  /\ pos = [t \in Threads |-> 1]
  /\ failures = [t \in Threads |-> <<>>]
  /\ doc = [t \in Threads |-> NoCrl]
  /\ source = [t \in Threads |-> "none"]
  /\ result = [t \in Threads |-> "none"]
  /\ calls = [t \in Threads |-> 0]
  /\ decided = [u \in Uris |-> 0]
  /\ tainted = {}
  /\ floor = [t \in Threads |-> [u \in Uris |-> 0]]

\* What a thread does once its call has begun.
Step(t) ==
  \/ LookupHit(t) \/ LookupCorrupt(t) \/ LookupMiss(t)
  \/ Invalidate(t)
  \/ FetchFails(t)
  \/ \E d \in Served : FetchUnparsable(t, d) \/ FetchCrl(t, d)
  \/ PopulateAtomically(t) \/ CompareBeforePut(t) \/ Put(t)

Call(t) ==
  \E n \in 0..MaxClock :
    \/ \E list \in UrlLists : Begin(t, n, list)
    \/ \E v \in Verdicts : BeginWithoutUrls(t, n, v)

Environment ==
  \/ Tick
  \/ \E life \in Lifetimes, numbered \in Numbering, scope \in Scopes,
        revoked \in BOOLEAN : Publish(life, numbered, scope, revoked)
  \/ \E u \in Uris : \E d \in Damaged(cache[u]) : Corrupt(u, d)

Next == Environment \/ \E t \in Threads : Call(t) \/ Step(t)

Spec == Init /\ [][Next]_vars

\* The scheduler runs every thread, and a fetch ends: the HTTP clients have timeouts.
FairSpec == Spec /\ \A t \in Threads : WF_vars(Step(t))

-----------------------------------------------------------------------------
(***************************************************************************)
(* Properties.                                                             *)
(***************************************************************************)
\* Types of the variables, and where the loop may be: check_revocation never
\* indexes past the URLs, and has a CRL in hand when it stores one.
TypeOK ==
  /\ clock \in Nat
  /\ published \subseteq Crl /\ IsFiniteSet(published)
  /\ cache \in [Uris -> Entry]
  /\ pc \in [Threads -> Pcs]
  /\ now \in [Threads -> Nat]
  /\ urls \in [Threads -> Seq(Uris)]
  /\ pos \in [Threads -> Nat \ {0}]
  /\ failures \in [Threads -> Seq((Nat \ {0}) \X {"cached", "fetch", "parse"})]
  /\ doc \in [Threads -> Entry]
  /\ source \in [Threads -> Sources]
  /\ result \in [Threads -> Verdicts \cup {"none"}]
  /\ calls \in [Threads -> Nat]
  /\ decided \in [Uris -> Nat]
  /\ tainted \subseteq Uris
  /\ floor \in [Threads -> [Uris -> Nat]]
  /\ \A t \in Threads :
       /\ pc[t] \notin {"idle", "done"} => pos[t] <= Len(urls[t])
       /\ pc[t] \in {"populate", "put"} => doc[t] # NoCrl

\* A certificate with a CRL URL is reported as not revoked only on the word of
\* a CRL that its CA published, intact, in scope, current for the caller's
\* time and without the certificate, however many hands it went through in
\* between: check_revocation's verdict on cached and on fetched bytes.
OkIsBackedByTheCa ==
  \A t \in Threads :
    pc[t] = "done" /\ result[t] = "Ok" /\ urls[t] # <<>> =>
      \E d \in published : /\ d.this <= now[t] /\ now[t] <= d.next
                           /\ d.scope = "match" /\ ~d.revoked

\* Monotonic reads per URL: a call that begins after another one was decided
\* by CRL number n of this URL is not decided by an older one, so a revoked
\* certificate does not come back to life while a mirror lags behind.  This is
\* what put_crl_if_not_rollback and is_live together are for.  They are not
\* enough once the bytes of a server that nobody signed are in the cache:
\* maybe_populate_cache believes their number and nextUpdate before the
\* signature is looked at, so they evict the newer CRL, and when they have
\* ended a lagging mirror decides again.  What the guard keeps out of the cache
\* does no harm.
DecisionsDoNotGoBack ==
  \A t \in Threads :
    /\ pc[t] = "done" /\ result[t] \in Decisive /\ source[t] # "none"
    /\ Url(t) \notin tainted
    => doc[t].number >= floor[t][Url(t)]

\* The cache never replaces a numbered CRL by one with a lower number: the
\* rollback guard of maybe_populate_cache.
NoRollbackStep ==
  \A u \in Uris :
    /\ cache[u] # NoCrl /\ cache'[u] # NoCrl
    /\ cache[u].number # None /\ cache'[u].number # None
    => cache'[u].number >= cache[u].number
NoRollback == [][NoRollbackStep]_vars

\* The cache and the checker agree on what has expired: bytes from the cache are
\* refused as expired only for lack of a nextUpdate or for a thisUpdate that
\* is still to come (is_live against the window of CrlChecker).
CacheHitsAreCurrent ==
  \A t \in Threads :
    /\ pc[t] = "done" /\ source[t] = "cache" /\ result[t] = "CrlExpired"
    => doc[t].next = None \/ doc[t].this > now[t]

\* A call gives up only after every URL of the certificate was asked and
\* failed to deliver a CRL.
FailureTriedEveryUrl ==
  \A t \in Threads :
    pc[t] = "done" /\ result[t] = "RevocationFetchFailed" =>
      \A i \in 1..Len(urls[t]) :
        \E j \in 1..Len(failures[t]) : /\ failures[t][j][1] = i
                                       /\ failures[t][j][2] # "cached"

\* Every call of check_revocation returns.
CallsReturn == \A t \in Threads : pc[t] # "done" /\ pc[t] # "idle" ~> pc[t] = "done"

=============================================================================
