----------------------- MODULE RevocationCache_proofs -----------------------
(***************************************************************************)
(* Theorems about RevocationCache, for every number of threads, URLs, CRLs *)
(* and calls.                                                              *)
(*                                                                         *)
(* OkIsBackedByTheCa rests on the origin of whatever a thread or the cache *)
(* holds: when its signature fits it is a CRL the CA published.            *)
(*                                                                         *)
(* DecisionsDoNotGoBack rests on three facts about the in-memory store, a  *)
(* CA that numbers its CRLs and the URLs under which nothing unsigned was  *)
(* stored: later CRLs end later, the cache never holds a lower number than *)
(* one that decided a call, and a thread that goes to the network does so  *)
(* because a CRL at least as new as every earlier decision has already     *)
(* ended at the thread's time.                                             *)
(*                                                                         *)
(* FailureTriedEveryUrl rests on the URLs the loop has left behind, each   *)
(* of which has a failure of its own in the list (LoopInv), and            *)
(* CacheHitsAreCurrent on a cached CRL being judged in the step that       *)
(* found it live (HitInv).                                                 *)
(***************************************************************************)
EXTENDS RevocationCache, FiniteSetTheorems, TLAPS

\* If d is intact, it is one of the CRLs of P.
OriginIn(P, d) == d.damage = "none" => d \in P

\* Whatever is cached or about to be stored has an origin.
OriginInv ==
  /\ \A u \in Uris : cache[u] # NoCrl => OriginIn(published, cache[u])
  /\ \A t \in Threads :
       pc[t] \in {"populate", "put"} => OriginIn(published, doc[t]) /\ Parses(doc[t])

SoundInv == TypeOK /\ OriginInv /\ OkIsBackedByTheCa

\* The CRLs of the CA: numbered from 1, and a later one ends later.
PublishedInv ==
  /\ IsFiniteSet(published)
  /\ \A p \in published : p.number \in 1..Cardinality(published)
  /\ \A p, q \in published : p.number < q.number /\ q.next # None => p.next < q.next

\* Everything in the cache parses, and under a URL that took nothing unsigned it is
\* the CA's and never behind a decision.
CacheInv ==
  /\ \A u \in Uris : cache[u] # NoCrl => Parses(cache[u])
  /\ \A u \in Uris \ tainted :
       \/ cache[u] = NoCrl /\ decided[u] = 0
       \/ /\ cache[u] # NoCrl /\ cache[u].damage = "none"
          /\ decided[u] <= cache[u].number

FloorInv == \A t \in Threads, u \in Uris : floor[t][u] <= decided[u]

\* Why the thread is not served from the cache.
MissInv ==
  \A t \in Threads :
    /\ pc[t] \notin {"invalidate", "put"}
    /\ pc[t] \in {"fetch", "populate"} =>
         \/ Url(t) \in tainted
         \/ floor[t][Url(t)] = 0
         \/ \E p \in published : /\ p.number >= floor[t][Url(t)]
                                 /\ p.next # None /\ p.next <= now[t]

MonoInv ==
  /\ TypeOK /\ OriginInv /\ PublishedInv /\ CacheInv /\ FloorInv /\ MissInv
  /\ DecisionsDoNotGoBack

-----------------------------------------------------------------------------
(***************************************************************************)
(* Facts about CRLs.                                                       *)
(***************************************************************************)
\* No CRL is the absent entry: Option::None of the cache is not an entry.
LEMMA NoCrlIsNoCrl == NoCrl \notin Crl
BY DEF NoCrl, Crl, AllDamages

\* A damaged CRL is a CRL that is not intact.
LEMMA DamagedCrl ==
  ASSUME NEW d \in Crl, NEW e \in Damaged(d)
  PROVE  e \in Crl /\ e.damage # "none"
BY DEF Damaged, Crl, AllDamages

\* A server answers with CRLs, or with bytes that are none.
LEMMA ServedCrl ==
  ASSUME published \subseteq Crl, NEW d \in Served
  PROVE  /\ d \in Crl /\ d # NoCrl
         /\ d.damage = "none" => d \in published
<1>1. CASE d \in published
  BY <1>1, NoCrlIsNoCrl
<1>2. CASE d \in Unsigned
  BY <1>2, NoCrlIsNoCrl, ConstantsAssumption
<1>3. CASE d = Unreadable
  <2>1. d \in Crl /\ d.damage = "unparsable"
    BY <1>3 DEF Unreadable, NoCrl, Crl, AllDamages, AllScopes, None
  <2> QED
    BY <2>1, NoCrlIsNoCrl
<1> QED
  BY <1>1, <1>2, <1>3 DEF Served

\* The checker's verdict is one of its errors or a decision.
LEMMA VerdictType ==
  ASSUME NEW d, NEW t PROVE Verdict(d, t) \in Verdicts
BY DEF Verdict, Verdicts

\* Lists of URLs are sequences of URLs.
LEMMA UrlListsType == \A list \in UrlLists : list \in Seq(Uris)
BY ConstantsAssumption

\* A thread inside the loop is at one of its URLs.
LEMMA UrlType ==
  ASSUME TypeOK, NEW t \in Threads, pc[t] \notin {"idle", "done"}
  PROVE  Url(t) \in Uris
<1>1. urls[t] \in Seq(Uris) /\ pos[t] \in Nat \ {0} /\ pos[t] <= Len(urls[t])
  BY DEF TypeOK
<1>2. pos[t] \in 1..Len(urls[t])
  BY <1>1
<1> QED
  BY <1>1, <1>2 DEF Url

-----------------------------------------------------------------------------
(***************************************************************************)
(* Type correctness.                                                       *)
(***************************************************************************)
LEMMA TypeInit == Init => TypeOK
BY ConstantsAssumption, FS_EmptySet DEF Init, TypeOK, Entry, Pcs, Sources

\* Returning a verdict keeps the types of what it changes.
LEMMA ReturnVerdictType ==
  ASSUME TypeOK, NEW t \in Threads, NEW d \in Crl, ReturnVerdict(t, d),
         Url(t) \in Uris
  PROVE  /\ result' \in [Threads -> Verdicts \cup {"none"}]
         /\ decided' \in [Uris -> Nat]
         /\ pc' = [pc EXCEPT ![t] = "done"]
         /\ pc' \in [Threads -> Pcs]
<1>1. result' \in [Threads -> Verdicts \cup {"none"}]
  BY VerdictType DEF ReturnVerdict, TypeOK
<1>2. decided' \in [Uris -> Nat]
  BY DEF ReturnVerdict, Decide, TypeOK, Crl, None
<1> QED
  BY <1>1, <1>2 DEF ReturnVerdict, TypeOK, Pcs

\* Going on to the next URL keeps the types of what it changes.
LEMMA NextUrlType ==
  ASSUME TypeOK, NEW t \in Threads, NEW what \in {"cached", "fetch", "parse"},
         NextUrl(t, what), urls' = urls, doc' = doc
  PROVE  /\ failures' \in [Threads -> Seq((Nat \ {0}) \X {"cached", "fetch", "parse"})]
         /\ pc' \in [Threads -> Pcs]
         /\ pos' \in [Threads -> Nat \ {0}]
         /\ result' \in [Threads -> Verdicts \cup {"none"}]
         /\ \A s \in Threads :
              /\ pc'[s] \notin {"idle", "done"} => pos'[s] <= Len(urls'[s])
              /\ pc'[s] \in {"populate", "put"} => doc'[s] # NoCrl
<1> USE DEF TypeOK
<1>1. failures' \in [Threads -> Seq((Nat \ {0}) \X {"cached", "fetch", "parse"})]
  <2> DEFINE F == (Nat \ {0}) \X {"cached", "fetch", "parse"}
  <2>1. <<pos[t], what>> \in F /\ failures[t] \in Seq(F)
    OBVIOUS
  <2>2. Append(failures[t], <<pos[t], what>>) \in Seq(F)
    BY <2>1
  <2> QED
    BY <2>2 DEF NextUrl
<1>2. urls[t] \in Seq(Uris) /\ Len(urls[t]) \in Nat
  OBVIOUS
<1>3. CASE pos[t] < Len(urls[t])
  <2>1. /\ pos' = [pos EXCEPT ![t] = @ + 1]
        /\ pc' = [pc EXCEPT ![t] = "lookup"]
        /\ result' = result
    BY <1>3 DEF NextUrl
  <2> QED
    BY <1>1, <1>2, <1>3, <2>1, SMTT(30) DEF Pcs
<1>4. CASE ~(pos[t] < Len(urls[t]))
  <2>1. /\ pos' = pos
        /\ pc' = [pc EXCEPT ![t] = "done"]
        /\ result' = [result EXCEPT ![t] = "RevocationFetchFailed"]
    BY <1>4 DEF NextUrl
  <2> QED
    BY <1>1, <1>2, <2>1 DEF Pcs, Verdicts
<1> QED
  BY <1>3, <1>4

\* A call that has begun is at its first URL, or already over.
LEMMA BeginType ==
  ASSUME TypeOK, NEW t \in Threads, NEW n \in 0..MaxClock,
         \/ \E list \in UrlLists : Begin(t, n, list)
         \/ \E v \in Verdicts : BeginWithoutUrls(t, n, v)
  PROVE  TypeOK'
<1> USE DEF TypeOK
<1>0. n \in Nat
  BY ConstantsAssumption
<1>1. /\ BeginCall(t, n)
      /\ \/ \E list \in Seq(Uris) : /\ list # <<>>
                                    /\ urls' = [urls EXCEPT ![t] = list]
                                    /\ pc' = [pc EXCEPT ![t] = "lookup"]
                                    /\ result' = [result EXCEPT ![t] = "none"]
         \/ \E v \in Verdicts : /\ urls' = [urls EXCEPT ![t] = <<>>]
                                /\ pc' = [pc EXCEPT ![t] = "done"]
                                /\ result' = [result EXCEPT ![t] = v]
  BY UrlListsType DEF Begin, BeginWithoutUrls
<1>2. /\ now' \in [Threads -> Nat]
      /\ pos' = [pos EXCEPT ![t] = 1]
      /\ pos' \in [Threads -> Nat \ {0}]
      /\ failures' \in [Threads -> Seq((Nat \ {0}) \X {"cached", "fetch", "parse"})]
      /\ doc' = [doc EXCEPT ![t] = NoCrl]
      /\ doc' \in [Threads -> Entry]
      /\ source' \in [Threads -> Sources]
      /\ calls' \in [Threads -> Nat]
      /\ floor' \in [Threads -> [Uris -> Nat]]
      /\ UNCHANGED <<clock, published, cache, decided, tainted>>
  <2> DEFINE F == (Nat \ {0}) \X {"cached", "fetch", "parse"}
  <2>1. <<>> \in Seq(F)
    OBVIOUS
  <2>2. failures' = [failures EXCEPT ![t] = <<>>] /\ failures \in [Threads -> Seq(F)]
    BY <1>1 DEF BeginCall
  <2>3. failures' \in [Threads -> Seq(F)]
    BY <2>1, <2>2
  <2>4. floor' \in [Threads -> [Uris -> Nat]]
    BY <1>1 DEF BeginCall
  <2>5. now' \in [Threads -> Nat] /\ calls' \in [Threads -> Nat]
    BY <1>0, <1>1, SMTT(30) DEF BeginCall
  <2>6. pos' = [pos EXCEPT ![t] = 1] /\ pos' \in [Threads -> Nat \ {0}]
    BY <1>1 DEF BeginCall
  <2>7. doc' = [doc EXCEPT ![t] = NoCrl] /\ doc' \in [Threads -> Entry]
    BY <1>1 DEF BeginCall, Entry
  <2>8. source' \in [Threads -> Sources]
    BY <1>1 DEF BeginCall, Sources
  <2>9. UNCHANGED <<clock, published, cache, decided, tainted>>
    BY <1>1 DEF BeginCall
  <2> QED
    BY <2>3, <2>4, <2>5, <2>6, <2>7, <2>8, <2>9
<1>3. /\ urls' \in [Threads -> Seq(Uris)]
      /\ pc' \in [Threads -> Pcs]
      /\ result' \in [Threads -> Verdicts \cup {"none"}]
  <2>1. <<>> \in Seq(Uris)
    OBVIOUS
  <2>2. \E list \in Seq(Uris) : urls' = [urls EXCEPT ![t] = list]
    BY <1>1, <2>1
  <2>3. urls' \in [Threads -> Seq(Uris)]
    BY <2>2
  <2>4. \E p \in Pcs : pc' = [pc EXCEPT ![t] = p]
    BY <1>1 DEF Pcs
  <2>5. \E v \in Verdicts \cup {"none"} : result' = [result EXCEPT ![t] = v]
    BY <1>1
  <2> QED
    BY <2>3, <2>4, <2>5, SMTT(30)
<1>4. ASSUME NEW s \in Threads
      PROVE  /\ pc'[s] \notin {"idle", "done"} => pos'[s] <= Len(urls'[s])
             /\ pc'[s] \in {"populate", "put"} => doc'[s] # NoCrl
  <2>1. CASE s = t
    <3>1. ASSUME NEW list \in Seq(Uris), list # <<>> PROVE 1 <= Len(list)
      BY <3>1
    <3> QED
      BY <1>1, <1>2, <2>1, <3>1, SMTT(30)
  <2>2. CASE s # t
    BY <1>1, <1>2, <2>2, ZenonT(30)
  <2> QED
    BY <2>1, <2>2
<1> QED
  BY <1>2, <1>3, <1>4

\* The steps of a call, by what they touch.
LEMMA StepType ==
  ASSUME TypeOK, NEW t \in Threads, Step(t)
  PROVE  TypeOK'
<1> USE DEF TypeOK
<1>1. CASE LookupHit(t)
  <2>1. Url(t) \in Uris
    BY <1>1, UrlType DEF LookupHit
  <2>2. cache[Url(t)] \in Crl /\ cache[Url(t)] \in Entry
    BY <1>1, <2>1 DEF LookupHit, Hit, Entry
  <2>3. ReturnVerdict(t, cache[Url(t)])
    BY <1>1 DEF LookupHit
  <2>4. /\ result' \in [Threads -> Verdicts \cup {"none"}]
        /\ decided' \in [Uris -> Nat]
        /\ pc' = [pc EXCEPT ![t] = "done"]
        /\ pc' \in [Threads -> Pcs]
    BY <2>1, <2>2, <2>3, ReturnVerdictType
  <2>5. doc' = [doc EXCEPT ![t] = cache[Url(t)]] /\ doc' \in [Threads -> Entry]
    BY <1>1, <2>2 DEF LookupHit
  <2>6. source' \in [Threads -> Sources]
    BY <1>1 DEF LookupHit, Sources
  <2> QED
    BY <1>1, <2>4, <2>5, <2>6 DEF LookupHit
<1>2. CASE LookupCorrupt(t)
  BY <1>2 DEF LookupCorrupt, Pcs
<1>3. CASE LookupMiss(t)
  BY <1>3 DEF LookupMiss, Pcs
<1>4. CASE Invalidate(t)
  <2>1. Url(t) \in Uris
    BY <1>4, UrlType DEF Invalidate
  <2>2. cache' \in [Uris -> Entry]
    BY <1>4, <2>1 DEF Invalidate, Entry
  <2>3. failures' \in [Threads -> Seq((Nat \ {0}) \X {"cached", "fetch", "parse"})]
    BY <1>4 DEF Invalidate
  <2> QED
    BY <1>4, <2>2, <2>3 DEF Invalidate, Pcs
<1>5. CASE FetchFails(t)
  <2>1. NextUrl(t, "fetch") /\ urls' = urls /\ doc' = doc
    BY <1>5 DEF FetchFails
  <2> QED
    BY <1>5, <2>1, NextUrlType DEF FetchFails
<1>6. ASSUME NEW d \in Served, FetchUnparsable(t, d) PROVE TypeOK'
  <2>1. NextUrl(t, "parse") /\ urls' = urls /\ doc' = doc
    BY <1>6 DEF FetchUnparsable
  <2> QED
    BY <1>6, <2>1, NextUrlType DEF FetchUnparsable
<1>7. ASSUME NEW d \in Served, FetchCrl(t, d) PROVE TypeOK'
  <2>1. d \in Crl /\ d # NoCrl
    BY ServedCrl
  <2>2. doc' \in [Threads -> Entry] /\ source' \in [Threads -> Sources]
    BY <1>7, <2>1 DEF FetchCrl, Entry, Sources
  <2> QED
    BY <1>7, <2>1, <2>2 DEF FetchCrl, Pcs
<1>8. ASSUME pc[t] \in {"populate", "put"}, ReturnVerdict(t, doc[t]),
             Store(Url(t), doc[t]) \/ UNCHANGED <<cache, tainted>>,
             UNCHANGED <<clock, published, now, urls, pos, failures, doc, source,
                         calls, floor>>
      PROVE  TypeOK'
  <2>1. Url(t) \in Uris
    BY <1>8, UrlType
  <2>2. doc[t] \in Crl
    BY <1>8 DEF Entry
  <2>3. /\ result' \in [Threads -> Verdicts \cup {"none"}]
        /\ decided' \in [Uris -> Nat]
        /\ pc' = [pc EXCEPT ![t] = "done"]
        /\ pc' \in [Threads -> Pcs]
    BY <1>8, <2>1, <2>2, ReturnVerdictType
  <2>4. cache' \in [Uris -> Entry] /\ tainted' \subseteq Uris
    BY <1>8, <2>1, <2>2 DEF Entry, Store
  <2> QED
    BY <1>8, <2>3, <2>4
<1>9. CASE PopulateAtomically(t)
  BY <1>9, <1>8 DEF PopulateAtomically
<1>10. CASE CompareBeforePut(t)
  <2>1. CASE IsRollback(cache[Url(t)], doc[t])
    BY <1>10, <1>8, <2>1 DEF CompareBeforePut
  <2>2. CASE ~IsRollback(cache[Url(t)], doc[t])
    BY <1>10, <2>2 DEF CompareBeforePut, Pcs
  <2> QED
    BY <2>1, <2>2
<1>11. CASE Put(t)
  BY <1>11, <1>8 DEF Put
<1> QED
  BY <1>1, <1>2, <1>3, <1>4, <1>5, <1>6, <1>7, <1>9, <1>10, <1>11 DEF Step

\* What the CA publishes next is a CRL.
LEMMA PublishType ==
  ASSUME TypeOK, NEW life \in Lifetimes, NEW numbered \in Numbering,
         NEW scope \in Scopes, NEW revoked \in BOOLEAN,
         Publish(life, numbered, scope, revoked)
  PROVE  published' \subseteq Crl /\ IsFiniteSet(published')
<1>1. Cardinality(published) \in Nat
  BY FS_CardinalityType DEF TypeOK
<1>2. scope \in AllScopes /\ (life = None \/ life \in Nat)
  BY ConstantsAssumption
<1> DEFINE new == NextCrl(life, numbered, scope, revoked)
<1>3. new \in Crl
  BY <1>1, <1>2 DEF TypeOK, Crl, None, NextCrl
<1>4. published' = published \cup {new}
  BY DEF Publish
<1>5. IsFiniteSet(published')
  BY <1>4, FS_AddElement DEF TypeOK
<1> QED
  BY <1>3, <1>4, <1>5 DEF TypeOK

\* Damage to an entry of the cache leaves an entry.
LEMMA CorruptType ==
  ASSUME TypeOK, NEW u \in Uris, NEW d \in Damaged(cache[u]), Corrupt(u, d)
  PROVE  /\ cache[u] \in Crl /\ d \in Crl
         /\ cache' = [cache EXCEPT ![u] = d]
         /\ cache' \in [Uris -> Entry]
<1>1. cache[u] \in Crl
  BY DEF Corrupt, TypeOK, Entry
<1>2. d \in Crl
  BY <1>1, DamagedCrl
<1> QED
  BY <1>1, <1>2 DEF Corrupt, TypeOK, Entry

\* Every step of a thread, the CA or the clock preserves the types.
LEMMA TypeStep == TypeOK /\ [Next]_vars => TypeOK'
<1> SUFFICES ASSUME TypeOK, [Next]_vars PROVE TypeOK'
  OBVIOUS
<1>1. CASE Tick
  BY <1>1 DEF Tick, TypeOK, thread
<1>2. ASSUME NEW life \in Lifetimes, NEW numbered \in Numbering, NEW scope \in Scopes,
             NEW revoked \in BOOLEAN, Publish(life, numbered, scope, revoked)
      PROVE  TypeOK'
  BY <1>2, PublishType DEF Publish, TypeOK, thread
<1>3. ASSUME NEW u \in Uris, NEW d \in Damaged(cache[u]), Corrupt(u, d)
      PROVE  TypeOK'
  BY <1>3, CorruptType DEF Corrupt, TypeOK, thread
<1>4. ASSUME NEW t \in Threads, Call(t) PROVE TypeOK'
  BY <1>4, BeginType DEF Call
<1>5. ASSUME NEW t \in Threads, Step(t) PROVE TypeOK'
  BY <1>5, StepType
<1>6. CASE UNCHANGED vars
  BY <1>6 DEF vars, thread, TypeOK
<1> QED
  BY <1>1, <1>2, <1>3, <1>4, <1>5, <1>6 DEF Next, Environment

\* The state of the cache and of every call is well typed, the loop over the
\* URLs never leaves the list, and a thread that stores has something to store.
THEOREM TypeCorrect == Spec => []TypeOK
BY TypeInit, TypeStep, PTL DEF Spec

-----------------------------------------------------------------------------
(***************************************************************************)
(* The rollback guard of the in-memory store.                              *)
(***************************************************************************)
\* The in-memory store inserts in one step: no thread is ever between the
\* test and the insert.
NoPut == \A t \in Threads : pc[t] # "put"

\* With an InMemoryCache no thread is ever between the test and the insert.
LEMMA NoPutStep ==
  ASSUME Backend = "in_memory", TypeOK, NoPut, [Next]_vars
  PROVE  NoPut'
<1> USE DEF NoPut, TypeOK
<1>1. CASE Environment
  BY <1>1 DEF Environment, Tick, Publish, Corrupt, thread
<1>2. ASSUME NEW t \in Threads, Call(t) PROVE NoPut'
  BY <1>2 DEF Call, Begin, BeginWithoutUrls
<1>3. ASSUME NEW t \in Threads, Step(t) PROVE NoPut'
  <2>1. \E p \in Pcs \ {"put"} : pc' = [pc EXCEPT ![t] = p]
    BY <1>3 DEF Step, LookupHit, LookupCorrupt, LookupMiss, Invalidate, FetchFails,
      FetchUnparsable, FetchCrl, PopulateAtomically, CompareBeforePut, Put,
      ReturnVerdict, NextUrl, Pcs
  <2> QED
    BY <2>1
<1>4. CASE UNCHANGED vars
  BY <1>4 DEF vars, thread
<1> QED
  BY <1>1, <1>2, <1>3, <1>4 DEF Next

\* What a step may do to the in-memory cache: nothing, drop an entry, or insert
\* what the guard lets through.
LEMMA CacheStep ==
  ASSUME Backend = "in_memory", TypeOK, NoPut, [Next]_vars
  PROVE  \/ cache' = cache
         \/ \E u \in Uris : cache' = [cache EXCEPT ![u] = NoCrl]
         \/ \E u \in Uris, d \in Crl : /\ cache' = [cache EXCEPT ![u] = d]
                                       /\ ~IsRollback(cache[u], d)
<1>1. CASE Environment
  <2>1. ASSUME NEW u \in Uris, NEW d, Corrupt(u, d) PROVE FALSE
    BY <2>1 DEF Corrupt
  <2> QED
    BY <1>1, <2>1 DEF Environment, Tick, Publish
<1>2. ASSUME NEW t \in Threads, Call(t) PROVE cache' = cache
  BY <1>2 DEF Call, Begin, BeginWithoutUrls, BeginCall
<1>3. ASSUME NEW t \in Threads, PopulateAtomically(t)
      PROVE  \/ cache' = cache
             \/ \E u \in Uris, d \in Crl : /\ cache' = [cache EXCEPT ![u] = d]
                                           /\ ~IsRollback(cache[u], d)
  <2>1. pc[t] = "populate" /\ Url(t) \in Uris
    BY <1>3, UrlType DEF PopulateAtomically
  <2>2. doc[t] \in Crl
    BY <2>1 DEF TypeOK, Entry
  <2> QED
    BY <1>3, <2>1, <2>2 DEF PopulateAtomically, Store
<1>4. ASSUME NEW t \in Threads, Invalidate(t)
      PROVE  \E u \in Uris : cache' = [cache EXCEPT ![u] = NoCrl]
  <2>1. Url(t) \in Uris
    BY <1>4, UrlType DEF Invalidate
  <2> QED
    BY <1>4, <2>1 DEF Invalidate
<1>5. ASSUME NEW t \in Threads, Step(t), ~PopulateAtomically(t), ~Invalidate(t)
      PROVE  cache' = cache
  BY <1>5 DEF Step, LookupHit, LookupCorrupt, LookupMiss, FetchFails,
    FetchUnparsable, FetchCrl, CompareBeforePut, Put, NoPut
<1>6. CASE UNCHANGED vars
  BY <1>6 DEF vars
<1> QED
  BY <1>1, <1>2, <1>3, <1>4, <1>5, <1>6 DEF Next

\* Behind an InMemoryCache a CRL is never replaced by one with a lower number,
\* whatever the threads do at the same time (put_crl_if_not_rollback).
THEOREM RollbackGuard ==
  ASSUME Backend = "in_memory" PROVE Spec => NoRollback
<1>1. Init => NoPut
  BY DEF Init, NoPut
<1>2. TypeOK /\ NoPut /\ [Next]_vars => NoPut'
  BY NoPutStep
<1>3. TypeOK /\ NoPut /\ [Next]_vars => [NoRollbackStep]_vars
  <2> SUFFICES ASSUME TypeOK, NoPut, [Next]_vars, NEW u \in Uris,
                      cache[u] # NoCrl, cache'[u] # NoCrl,
                      cache[u].number # None, cache'[u].number # None
               PROVE  cache'[u].number >= cache[u].number
    BY DEF NoRollbackStep
  <2>1. cache[u] \in Crl
    BY DEF TypeOK, Entry
  <2>2. CASE cache'[u] = cache[u]
    BY <2>1, <2>2 DEF Crl, None
  <2>3. CASE cache'[u] # cache[u]
    <3>1. cache'[u] \in Crl /\ ~IsRollback(cache[u], cache'[u])
      BY <2>3, CacheStep DEF TypeOK
    <3> QED
      BY <2>1, <3>1 DEF IsRollback, Crl, None
  <2> QED
    BY <2>2, <2>3
<1> QED
  BY <1>1, <1>2, <1>3, TypeCorrect, PTL DEF Spec, NoRollback

-----------------------------------------------------------------------------
(***************************************************************************)
(* What an Ok is worth.                                                    *)
(***************************************************************************)
LEMMA PublishedGrows == [Next]_vars => published \subseteq published'
<1>1. ASSUME NEW t \in Threads, Step(t) PROVE published' = published
  BY <1>1 DEF Step, LookupHit, LookupCorrupt, LookupMiss, Invalidate, FetchFails,
    FetchUnparsable, FetchCrl, PopulateAtomically, CompareBeforePut, Put
<1>2. ASSUME NEW t \in Threads, Call(t) PROVE published' = published
  BY <1>2 DEF Call, Begin, BeginWithoutUrls, BeginCall
<1>3. Environment => published \subseteq published'
  BY DEF Environment, Tick, Publish, Corrupt
<1> QED
  BY <1>1, <1>2, <1>3 DEF Next, vars

\* Origins survive publication, and nothing damaged needs one.
LEMMA OriginFacts ==
  /\ \A P, Q, d : P \subseteq Q /\ OriginIn(P, d) => OriginIn(Q, d)
  /\ \A P : \A d \in Crl : \A e \in Damaged(d) : OriginIn(P, e)
BY DamagedCrl DEF OriginIn

\* What a server answers with is the CA's if it is intact.
LEMMA ServedOrigin ==
  ASSUME published \subseteq Crl, NEW d \in Served
  PROVE  OriginIn(published, d)
BY ServedCrl DEF OriginIn

\* An Ok of the checker about bytes that parse is the word of the CA.
LEMMA OkVerdict ==
  ASSUME NEW P, NEW d \in Crl, NEW n, OriginIn(P, d), Parses(d), Verdict(d, n) = "Ok"
  PROVE  \E p \in P : /\ p.this <= n /\ n <= p.next
                      /\ p.scope = "match" /\ ~p.revoked
<1>1. /\ CurrentAt(d, n) /\ d.damage # "signature" /\ d.scope # "scope"
      /\ d.scope # "issuer" /\ ~d.revoked
  BY DEF Verdict
<1>2. d.damage = "none" /\ d.scope = "match"
  BY <1>1 DEF Parses, Crl, AllDamages, AllScopes
<1> QED
  BY <1>1, <1>2 DEF OriginIn, CurrentAt

\* Every step keeps what is intact in the cache and in hand the CA's.
LEMMA OriginStep ==
  ASSUME TypeOK, OriginInv, [Next]_vars
  PROVE  OriginInv'
<1> USE DEF OriginInv
<1>1. \A d : OriginIn(published, d) => OriginIn(published', d)
  BY PublishedGrows, OriginFacts
<1>2. ASSUME cache' = cache, pc' = pc, doc' = doc PROVE OriginInv'
  BY <1>1, <1>2
<1>3. ASSUME NEW t \in Threads, cache' = cache, NEW p \in Pcs \ {"populate", "put"},
             pc' = [pc EXCEPT ![t] = p], NEW e, doc' = [doc EXCEPT ![t] = e]
      PROVE  OriginInv'
  BY <1>1, <1>3 DEF TypeOK
<1>4. CASE Tick
  BY <1>2, <1>4 DEF Tick, thread
<1>5. ASSUME NEW life \in Lifetimes, NEW numbered \in Numbering, NEW scope \in Scopes,
             NEW revoked \in BOOLEAN, Publish(life, numbered, scope, revoked)
      PROVE  OriginInv'
  BY <1>2, <1>5 DEF Publish, thread
<1>6. ASSUME NEW u \in Uris, NEW d \in Damaged(cache[u]), Corrupt(u, d)
      PROVE  OriginInv'
  <2>1. /\ cache[u] \in Crl /\ d \in Crl /\ cache[u] # NoCrl
        /\ cache' = [cache EXCEPT ![u] = d]
    BY <1>6, CorruptType DEF Corrupt
  <2>2. OriginIn(published, d)
    BY <2>1, OriginFacts
  <2>3. pc' = pc /\ doc' = doc
    BY <1>6 DEF Corrupt, thread
  <2> QED
    BY <1>1, <2>1, <2>2, <2>3 DEF TypeOK
<1>7. ASSUME NEW t \in Threads, Call(t) PROVE OriginInv'
  <2>1. /\ cache' = cache /\ doc' = [doc EXCEPT ![t] = NoCrl]
        /\ \E p \in Pcs \ {"populate", "put"} : pc' = [pc EXCEPT ![t] = p]
    BY <1>7 DEF Call, Begin, BeginWithoutUrls, BeginCall, Pcs
  <2> QED
    BY <1>3, <2>1
<1>8. ASSUME NEW t \in Threads, LookupHit(t) \/ LookupCorrupt(t) \/ LookupMiss(t)
      PROVE  OriginInv'
  <2>1. /\ cache' = cache
        /\ \E p \in Pcs \ {"populate", "put"} : pc' = [pc EXCEPT ![t] = p]
        /\ \E e : doc' = [doc EXCEPT ![t] = e]
    <3>1. doc = [doc EXCEPT ![t] = doc[t]]
      BY DEF TypeOK
    <3> QED
      BY <1>8, <3>1 DEF LookupHit, LookupCorrupt, LookupMiss, ReturnVerdict, Pcs
  <2> QED
    BY <1>3, <2>1
<1>9. ASSUME NEW t \in Threads, Invalidate(t) PROVE OriginInv'
  BY <1>1, <1>9 DEF Invalidate, TypeOK
<1>10. ASSUME NEW t \in Threads, NEW d \in Served, FetchUnparsable(t, d)
       PROVE  OriginInv'
  <2>1. /\ cache' = cache /\ doc' = doc
        /\ \E p \in Pcs \ {"populate", "put"} : pc' = [pc EXCEPT ![t] = p]
    BY <1>10 DEF FetchUnparsable, NextUrl, Pcs
  <2>2. doc' = [doc EXCEPT ![t] = doc[t]]
    BY <2>1 DEF TypeOK
  <2> QED
    BY <1>3, <2>1, <2>2
<1>11. ASSUME NEW t \in Threads, NEW d \in Served, FetchCrl(t, d) PROVE OriginInv'
  <2>1. OriginIn(published', d) /\ Parses(d)
    BY <1>1, <1>11, ServedOrigin DEF TypeOK, FetchCrl
  <2> QED
    BY <1>1, <1>11, <2>1 DEF FetchCrl, TypeOK
<1>12. ASSUME NEW t \in Threads, FetchFails(t) PROVE OriginInv'
  <2>1. /\ cache' = cache /\ doc' = doc
        /\ \E p \in Pcs \ {"populate", "put"} : pc' = [pc EXCEPT ![t] = p]
    BY <1>12 DEF FetchFails, NextUrl, Pcs
  <2>2. doc' = [doc EXCEPT ![t] = doc[t]]
    BY <2>1 DEF TypeOK
  <2> QED
    BY <1>3, <2>1, <2>2
<1>13. ASSUME NEW t \in Threads, PopulateAtomically(t) \/ Put(t) PROVE OriginInv'
  <2>1. /\ OriginIn(published', doc[t]) /\ doc' = doc
        /\ pc' = [pc EXCEPT ![t] = "done"]
        /\ cache' \in {cache, [cache EXCEPT ![Url(t)] = doc[t]]}
    BY <1>1, <1>13 DEF PopulateAtomically, Put, ReturnVerdict, Store
  <2> QED
    BY <1>1, <2>1 DEF TypeOK
<1>14. ASSUME NEW t \in Threads, CompareBeforePut(t) PROVE OriginInv'
  <2>1. /\ OriginIn(published', doc[t]) /\ Parses(doc[t])
        /\ doc' = doc /\ cache' = cache
        /\ pc' \in {[pc EXCEPT ![t] = "done"], [pc EXCEPT ![t] = "put"]}
    BY <1>1, <1>14 DEF CompareBeforePut, ReturnVerdict
  <2> QED
    BY <1>1, <2>1 DEF TypeOK
<1>15. CASE UNCHANGED vars
  BY <1>2, <1>15 DEF vars, thread
<1> QED
  BY <1>4, <1>5, <1>6, <1>7, <1>8, <1>9, <1>10, <1>11, <1>12, <1>13, <1>14, <1>15
    DEF Next, Environment, Step

\* A call of this step that returned Ok is backed; the others are as they were.
LEMMA BackedStep ==
  ASSUME TypeOK, OriginInv, OkIsBackedByTheCa, [Next]_vars
  PROVE  OkIsBackedByTheCa'
<1> DEFINE Backed(n, P) == \E p \in P : /\ p.this <= n /\ n <= p.next
                                        /\ p.scope = "match" /\ ~p.revoked
<1>1. published \subseteq published'
  BY PublishedGrows
<1>2. ASSUME NEW t \in Threads,
             pc'[t] = pc[t], result'[t] = result[t], urls'[t] = urls[t], now'[t] = now[t],
             pc'[t] = "done", result'[t] = "Ok", urls'[t] # <<>>
      PROVE  Backed(now'[t], published')
  BY <1>1, <1>2 DEF OkIsBackedByTheCa
<1>3. ASSUME NEW t \in Threads, NEW d \in Crl, ReturnVerdict(t, d), now' = now,
             OriginIn(published, d), Parses(d), result'[t] = "Ok"
      PROVE  Backed(now'[t], published')
  <2>1. Verdict(d, now[t]) = "Ok"
    BY <1>3 DEF ReturnVerdict, TypeOK
  <2> QED
    BY <1>1, <1>3, <2>1, OkVerdict
<1>4. ASSUME UNCHANGED <<pc, result, urls, now>> PROVE OkIsBackedByTheCa'
  BY <1>2, <1>4 DEF OkIsBackedByTheCa
<1>5. ASSUME NEW t \in Threads, NEW p, pc' = [pc EXCEPT ![t] = p],
             p # "done" \/ result' = [result EXCEPT ![t] = "RevocationFetchFailed"],
             \A s \in Threads \ {t} : result'[s] = result[s],
             UNCHANGED <<urls, now>>
      PROVE  OkIsBackedByTheCa'
  BY <1>2, <1>5, SMTT(30) DEF OkIsBackedByTheCa, TypeOK
<1>6. ASSUME NEW t \in Threads, NEW d \in Crl, ReturnVerdict(t, d), UNCHANGED <<urls, now>>,
             OriginIn(published, d), Parses(d)
      PROVE  OkIsBackedByTheCa'
  <2>1. /\ pc' = [pc EXCEPT ![t] = "done"]
        /\ result' = [result EXCEPT ![t] = Verdict(d, now[t])]
    BY <1>6 DEF ReturnVerdict
  <2> QED
    BY <1>2, <1>3, <1>6, <2>1 DEF OkIsBackedByTheCa, TypeOK
<1>7. CASE Environment
  BY <1>4, <1>7 DEF Environment, Tick, Publish, Corrupt, thread
<1>8. ASSUME NEW t \in Threads, Call(t) PROVE OkIsBackedByTheCa'
  <2>1. PICK n \in 0..MaxClock :
          \/ \E list \in UrlLists : Begin(t, n, list)
          \/ \E v \in Verdicts : BeginWithoutUrls(t, n, v)
    BY <1>8 DEF Call
  <2>2. /\ now' = [now EXCEPT ![t] = n]
        /\ \/ pc' = [pc EXCEPT ![t] = "lookup"] /\ \E l : urls' = [urls EXCEPT ![t] = l]
           \/ pc' = [pc EXCEPT ![t] = "done"] /\ urls' = [urls EXCEPT ![t] = <<>>]
        /\ \E v : result' = [result EXCEPT ![t] = v]
    BY <2>1 DEF Begin, BeginWithoutUrls, BeginCall
  <2> QED
    BY <1>2, <2>2, SMTT(30) DEF OkIsBackedByTheCa, TypeOK
<1>9. ASSUME NEW t \in Threads, LookupHit(t) PROVE OkIsBackedByTheCa'
  <2>1. Url(t) \in Uris
    BY <1>9, UrlType DEF LookupHit
  <2>2. cache[Url(t)] # NoCrl /\ cache[Url(t)] \in Crl
    BY <1>9, <2>1 DEF LookupHit, Hit, TypeOK, Entry
  <2> QED
    BY <1>6, <1>9, <2>1, <2>2 DEF LookupHit, OriginInv
<1>10. ASSUME NEW t \in Threads, LookupCorrupt(t) \/ LookupMiss(t) \/ Invalidate(t)
       PROVE  OkIsBackedByTheCa'
  BY <1>5, <1>10 DEF LookupCorrupt, LookupMiss, Invalidate
<1>11. ASSUME NEW t \in Threads, NextUrl(t, "fetch") \/ NextUrl(t, "parse"),
              UNCHANGED <<urls, now>>
       PROVE  OkIsBackedByTheCa'
  <2>1. \/ pc' = [pc EXCEPT ![t] = "lookup"] /\ result' = result
        \/ /\ pc' = [pc EXCEPT ![t] = "done"]
           /\ result' = [result EXCEPT ![t] = "RevocationFetchFailed"]
    BY <1>11 DEF NextUrl
  <2> QED
    BY <1>5, <1>11, <2>1 DEF TypeOK
<1>12. ASSUME NEW t \in Threads, FetchFails(t) PROVE OkIsBackedByTheCa'
  BY <1>11, <1>12 DEF FetchFails
<1>13. ASSUME NEW t \in Threads, NEW d, FetchUnparsable(t, d) PROVE OkIsBackedByTheCa'
  BY <1>11, <1>13 DEF FetchUnparsable
<1>14. ASSUME NEW t \in Threads, NEW d, FetchCrl(t, d) PROVE OkIsBackedByTheCa'
  BY <1>5, <1>14 DEF FetchCrl
<1>15. ASSUME NEW t \in Threads, PopulateAtomically(t) \/ Put(t) \/ CompareBeforePut(t)
       PROVE  OkIsBackedByTheCa'
  <2>1. /\ doc[t] \in Crl /\ OriginIn(published, doc[t]) /\ Parses(doc[t])
        /\ UNCHANGED <<urls, now>>
    BY <1>15 DEF PopulateAtomically, Put, CompareBeforePut, OriginInv, TypeOK, Entry
  <2>2. \/ ReturnVerdict(t, doc[t])
        \/ pc' = [pc EXCEPT ![t] = "put"] /\ result' = result
    BY <1>15 DEF PopulateAtomically, Put, CompareBeforePut
  <2> QED
    BY <1>5, <1>6, <2>1, <2>2
<1>16. CASE UNCHANGED vars
  BY <1>4, <1>16 DEF vars, thread
<1> QED
  BY <1>7, <1>8, <1>9, <1>10, <1>12, <1>13, <1>14, <1>15, <1>16 DEF Next, Step

\* Whatever the threads, the store, the servers and the network do, an Ok about a
\* certificate with a CRL URL is the word of its CA, current at the caller's time.
THEOREM Backing == Spec => []OkIsBackedByTheCa
<1>1. Init => SoundInv
  BY TypeInit DEF Init, SoundInv, OriginInv, OkIsBackedByTheCa
<1>2. SoundInv /\ [Next]_vars => SoundInv'
  BY TypeStep, OriginStep, BackedStep DEF SoundInv
<1>3. SoundInv => OkIsBackedByTheCa
  BY DEF SoundInv
<1> QED
  BY <1>1, <1>2, <1>3, PTL DEF Spec

-----------------------------------------------------------------------------
(***************************************************************************)
(* Decisions do not go back.                                               *)
(***************************************************************************)
\* The call of thread s is where it was.
SameCall(s) ==
  /\ pc'[s] = pc[s] /\ now'[s] = now[s] /\ urls'[s] = urls[s] /\ pos'[s] = pos[s]
  /\ doc'[s] = doc[s] /\ source'[s] = source[s] /\ result'[s] = result[s]
  /\ floor'[s] = floor[s]

\* A step belongs to one thread or to the environment.
LEMMA OthersStay ==
  ASSUME TypeOK, NEW t \in Threads, Call(t) \/ Step(t), NEW s \in Threads, s # t
  PROVE  SameCall(s)
<1> USE DEF TypeOK, SameCall
<1>1. CASE Call(t)
  BY <1>1, SMTT(30) DEF Call, Begin, BeginWithoutUrls, BeginCall
<1>2. CASE LookupHit(t) \/ LookupCorrupt(t) \/ LookupMiss(t) \/ Invalidate(t)
  BY <1>2 DEF LookupHit, LookupCorrupt, LookupMiss, Invalidate, ReturnVerdict
<1>3. CASE FetchFails(t) \/ \E d \in Served : FetchUnparsable(t, d) \/ FetchCrl(t, d)
  <2>1. CASE \E d \in Served : FetchCrl(t, d)
    BY <2>1 DEF FetchCrl
  <2>2. CASE \E what \in {"fetch", "parse"} : NextUrl(t, what)
    <3>1. \A v : [pc EXCEPT ![t] = v][s] = pc[s]
      OBVIOUS
    <3>2. pc'[s] = pc[s] /\ pos'[s] = pos[s] /\ result'[s] = result[s]
      BY <2>2, <3>1 DEF NextUrl
    <3>3. UNCHANGED <<now, urls, doc, source, floor>> \/ \E d \in Served : FetchCrl(t, d)
      BY <1>3 DEF FetchFails, FetchUnparsable
    <3> QED
      BY <2>1, <3>2, <3>3
  <2> QED
    BY <1>3, <2>1, <2>2 DEF FetchFails, FetchUnparsable
<1>4. CASE PopulateAtomically(t) \/ CompareBeforePut(t) \/ Put(t)
  BY <1>4 DEF PopulateAtomically, CompareBeforePut, Put, ReturnVerdict
<1> QED
  BY <1>1, <1>2, <1>3, <1>4 DEF Step

\* The environment leaves what the finished calls decided alone.
LEMMA EnvironmentStays ==
  ASSUME Environment \/ UNCHANGED vars
  PROVE  UNCHANGED <<thread, decided>>
BY DEF Environment, Tick, Publish, Corrupt, vars

\* The CA numbers its CRLs in order, and a later one ends later.
LEMMA PublishedStep ==
  ASSUME Numbering = {TRUE}, TypeOK, PublishedInv, [Next]_vars
  PROVE  PublishedInv'
<1>1. CASE published' = published
  BY <1>1 DEF PublishedInv
<1>2. ASSUME NEW life \in Lifetimes, NEW scope \in Scopes, NEW revoked \in BOOLEAN,
             Publish(life, TRUE, scope, revoked)
      PROVE  PublishedInv'
  <2> DEFINE new == NextCrl(life, TRUE, scope, revoked)
             n == Cardinality(published)
  <2>1. n \in Nat /\ IsFiniteSet(published)
    BY FS_CardinalityType DEF PublishedInv
  <2>2. new.number = n + 1 /\ published' = published \cup {new}
    BY <1>2 DEF Publish, NextCrl
  <2>3. new.next # None => \A p \in published : p.next < new.next
    <3> SUFFICES ASSUME new.next # None, NEW p \in published PROVE p.next < new.next
      OBVIOUS
    <3>1. life # None /\ new.next = clock + life
      BY DEF NextCrl
    <3>2. life \in Nat /\ clock \in Nat /\ p.next \in Nat \cup {None}
      BY <3>1, ConstantsAssumption DEF TypeOK, Crl
    <3>3. clock + life > p.next
      BY <1>2, <3>1 DEF Publish
    <3> QED
      BY <3>1, <3>2, <3>3 DEF None
  <2> HIDE DEF new, n
  <2>4. new \notin published
    <3>1. \A p \in published : p.number \in 1..n
      BY DEF PublishedInv, n
    <3> QED
      BY <2>1, <2>2, <3>1
  <2>5. IsFiniteSet(published') /\ Cardinality(published') = n + 1
    BY <2>1, <2>2, <2>4, FS_AddElement DEF n
  <2>6. \A p \in published' : p.number \in 1..(n + 1)
    <3>1. \A p \in published : p.number \in 1..n
      BY DEF PublishedInv, n
    <3> QED
      BY <2>1, <2>2, <3>1
  <2>7. ASSUME NEW p \in published', NEW q \in published', p.number < q.number,
               q.next # None
        PROVE  p.next < q.next
    <3>1. CASE p \in published /\ q \in published
      BY <2>7, <3>1 DEF PublishedInv
    <3>2. CASE p \in published /\ q = new
      BY <2>3, <2>7, <3>2
    <3>3. CASE p = new
      <4>1. q.number <= n + 1 /\ q.number \in Nat
        BY <2>1, <2>6
      <4> QED
        BY <2>1, <2>2, <2>7, <3>3, <4>1
    <3> QED
      BY <2>2, <3>1, <3>2, <3>3
  <2> QED
    BY <2>5, <2>6, <2>7 DEF PublishedInv
<1>3. ASSUME NEW t \in Threads, Step(t) PROVE published' = published
  BY <1>3 DEF Step, LookupHit, LookupCorrupt, LookupMiss, Invalidate, FetchFails,
    FetchUnparsable, FetchCrl, PopulateAtomically, CompareBeforePut, Put
<1>4. ASSUME NEW t \in Threads, Call(t) PROVE published' = published
  BY <1>4 DEF Call, Begin, BeginWithoutUrls, BeginCall
<1>5. CASE Environment
  <2>1. CASE Tick \/ \E u \in Uris : \E d \in Damaged(cache[u]) : Corrupt(u, d)
    BY <1>1, <2>1 DEF Tick, Corrupt
  <2> QED
    BY <1>2, <1>5, <2>1 DEF Environment
<1> QED
  BY <1>1, <1>3, <1>4, <1>5 DEF Next, vars

\* With a CA that numbers its CRLs, whatever is intact has a number.
LEMMA OriginNumber ==
  ASSUME PublishedInv, NEW d, OriginIn(published, d), d.damage = "none"
  PROVE  d.number \in Nat /\ d.number >= 1
<1>1. Cardinality(published) \in Nat
  BY FS_CardinalityType DEF PublishedInv
<1> QED
  BY <1>1 DEF PublishedInv, OriginIn

\* Only an intact CRL decides.
LEMMA DecisiveIsIntact ==
  ASSUME NEW d \in Crl, Parses(d), NEW n, Verdict(d, n) \in Decisive
  PROVE  d.damage = "none" /\ d.next # None /\ n <= d.next
BY DEF Verdict, Decisive, Parses, Crl, AllDamages, CurrentAt

\* What Decide does to the numbers.
LEMMA DecideFacts ==
  ASSUME TypeOK, NEW u \in Uris, NEW d \in Crl, NEW v, Decide(u, d, v)
  PROVE  /\ \A w \in Uris : decided'[w] >= decided[w]
         /\ \A w \in Uris \ {u} : decided'[w] = decided[w]
         /\ decided'[u] = decided[u] \/ decided'[u] = d.number
BY DEF Decide, TypeOK, Crl, None

\* A URL stays tainted.
LEMMA TaintStays == [Next]_vars => tainted \subseteq tainted'
<1>1. ASSUME NEW t \in Threads, Step(t) PROVE tainted \subseteq tainted'
  BY <1>1 DEF Step, LookupHit, LookupCorrupt, LookupMiss, Invalidate, FetchFails,
    FetchUnparsable, FetchCrl, PopulateAtomically, CompareBeforePut, Put, Store
<1>2. ASSUME NEW t \in Threads, Call(t) PROVE tainted' = tainted
  BY <1>2 DEF Call, Begin, BeginWithoutUrls, BeginCall
<1>3. Environment => tainted' = tainted
  BY DEF Environment, Tick, Publish, Corrupt
<1> QED
  BY <1>1, <1>2, <1>3 DEF Next, vars

\* Decisions only accumulate, and where they come from.
LEMMA DecidedStep ==
  ASSUME Backend = "in_memory", TypeOK, OriginInv, PublishedInv, MissInv, [Next]_vars
  PROVE  \/ decided' = decided
         \/ \E t \in Threads : LookupHit(t)
         \/ \E t \in Threads : PopulateAtomically(t)
<1>1. ASSUME NEW t \in Threads, Call(t) PROVE decided' = decided
  BY <1>1 DEF Call, Begin, BeginWithoutUrls, BeginCall
<1>2. ASSUME NEW t \in Threads, Step(t), ~LookupHit(t), ~PopulateAtomically(t)
      PROVE  decided' = decided
  BY <1>2 DEF Step, LookupCorrupt, LookupMiss, Invalidate, FetchFails,
    FetchUnparsable, FetchCrl, CompareBeforePut, Put, MissInv
<1> QED
  BY <1>1, <1>2, EnvironmentStays DEF Next

\* The two steps that decide, in one view: thread t returns the verdict about d.
LEMMA DecidingStep ==
  ASSUME TypeOK, OriginInv, CacheInv, NEW t \in Threads,
         LookupHit(t) \/ PopulateAtomically(t)
  PROVE  /\ Url(t) \in Uris /\ pc'[t] = "done"
         /\ urls' = urls /\ pos' = pos /\ now' = now /\ floor' = floor
         /\ doc'[t] \in Crl
         /\ OriginIn(published, doc'[t])
         /\ Parses(doc'[t])
         /\ result'[t] = Verdict(doc'[t], now[t])
         /\ Decide(Url(t), doc'[t], result'[t])
<1>1. Url(t) \in Uris
  BY UrlType DEF LookupHit, PopulateAtomically
<1>2. CASE LookupHit(t)
  <2>1. doc'[t] = cache[Url(t)] /\ cache[Url(t)] # NoCrl /\ cache[Url(t)] \in Crl
    BY <1>1, <1>2 DEF LookupHit, Hit, TypeOK, Entry
  <2>2. OriginIn(published, doc'[t])
    BY <1>1, <2>1 DEF OriginInv
  <2> QED
    BY <1>1, <1>2, <2>1, <2>2 DEF LookupHit, ReturnVerdict, TypeOK
<1>3. CASE PopulateAtomically(t)
  <2>1. doc'[t] = doc[t] /\ doc[t] \in Crl
    BY <1>3 DEF PopulateAtomically, TypeOK, Entry
  <2>2. OriginIn(published, doc'[t]) /\ Parses(doc'[t])
    BY <1>3, <2>1 DEF OriginInv, PopulateAtomically
  <2> QED
    BY <1>1, <1>3, <2>1, <2>2 DEF PopulateAtomically, ReturnVerdict, TypeOK
<1> QED
  BY <1>2, <1>3

\* The cache stays ahead of the decisions.
LEMMA CacheInvStep ==
  ASSUME Backend = "in_memory", TypeOK, OriginInv, PublishedInv, CacheInv, MissInv,
         [Next]_vars
  PROVE  CacheInv'
<1> DEFINE Ahead(w) == \/ cache[w] = NoCrl /\ decided[w] = 0
                       \/ /\ cache[w] # NoCrl /\ cache[w].damage = "none"
                          /\ decided[w] <= cache[w].number
<1>1. ASSUME NEW t \in Threads, LookupHit(t) PROVE CacheInv'
  <2> DEFINE u == Url(t)
  <2>1. /\ u \in Uris /\ cache' = cache /\ doc'[t] = cache[u] /\ cache[u] # NoCrl
        /\ cache[u] \in Crl /\ tainted' = tainted
        /\ Decide(u, cache[u], result'[t])
    BY <1>1, DecidingStep DEF LookupHit, Hit, TypeOK
  <2>2. /\ \A w \in Uris \ {u} : decided'[w] = decided[w]
        /\ decided'[u] = decided[u] \/ decided'[u] = cache[u].number
    BY <2>1, DecideFacts
  <2>3. cache[u].damage = "none" => cache[u].number \in Nat
    BY <2>1, OriginNumber DEF OriginInv
  <2> QED
    BY <2>1, <2>2, <2>3 DEF CacheInv, TypeOK
<1>2. ASSUME NEW t \in Threads, PopulateAtomically(t) PROVE CacheInv'
  <2> DEFINE u == Url(t)
             d == doc[t]
  <2>1. /\ u \in Uris /\ d \in Crl /\ Parses(d) /\ d # NoCrl
        /\ OriginIn(published, d) /\ Decide(u, d, result'[t])
    BY <1>2, DecidingStep, NoCrlIsNoCrl DEF PopulateAtomically
  <2>2. /\ \A w \in Uris \ {u} : decided'[w] = decided[w]
        /\ decided'[u] = decided[u] \/ decided'[u] = d.number
    BY <2>1, DecideFacts
  <2>3. \A w \in Uris \ {u} : cache'[w] = cache[w]
    BY <1>2, <2>1 DEF PopulateAtomically, TypeOK, Store
  <2>4. /\ decided[u] \in Nat
        /\ u \notin tainted /\ cache[u] # NoCrl => cache[u].number \in Nat
    BY <2>1, OriginNumber DEF TypeOK, OriginInv, CacheInv
  <2>5. d.number \in Nat \cup {None}
    BY <2>1 DEF Crl
  <2>6. tainted \subseteq tainted'
    BY TaintStays
  <2>7. ASSUME NEW w \in Uris \ tainted', w # u PROVE Ahead(w)'
    BY <2>2, <2>3, <2>6, <2>7 DEF CacheInv
  <2>8. cache'[u] # NoCrl => Parses(cache'[u])
    BY <1>2, <2>1 DEF PopulateAtomically, TypeOK, CacheInv, Store
  <2>9. IsRollback(cache[u], d) =>
          cache' = cache /\ cache[u] # NoCrl /\ cache[u].number > d.number
    BY <1>2 DEF PopulateAtomically, IsRollback
  <2>10. ~IsRollback(cache[u], d) =>
           /\ cache'[u] = d
           /\ d.damage = "signature" => u \in tainted'
           /\ cache[u] # NoCrl /\ cache[u].number \in Nat /\ d.number \in Nat =>
                cache[u].number <= d.number
    BY <1>2, <2>1 DEF PopulateAtomically, TypeOK, Store, IsRollback, None
  <2>11. d.damage = "none" => d.number \in Nat
    BY <2>1, OriginNumber
  <2>12. d.damage # "signature" => d.damage = "none"
    BY <2>1 DEF Parses, Crl, AllDamages
  <2>13. u \notin tainted => Ahead(u)
    BY <2>1 DEF CacheInv
  <2> HIDE DEF u, d
  <2>14. ASSUME NEW w \in Uris \ tainted', w = u PROVE Ahead(w)'
    <3>1. CASE IsRollback(cache[u], d)
      <4>1. /\ cache'[u] = cache[u] /\ cache[u] # NoCrl /\ cache[u].number \in Nat
            /\ decided[u] <= cache[u].number /\ d.number < cache[u].number
        BY <2>4, <2>6, <2>9, <2>13, <2>14, <3>1
      <4>2. decided'[u] <= cache[u].number
        BY <2>2, <2>4, <2>5, <4>1 DEF None
      <4>3. cache[u].damage = "none"
        BY <2>6, <2>13, <2>14, <4>1
      <4> QED
        BY <2>9, <2>14, <3>1, <4>1, <4>2, <4>3
    <3>2. CASE ~IsRollback(cache[u], d)
      <4>1. cache'[u] = d /\ d.damage = "none" /\ d.number \in Nat
        BY <2>10, <2>11, <2>12, <2>14, <3>2
      <4>2. decided[u] <= d.number
        BY <2>4, <2>6, <2>10, <2>13, <2>14, <3>2, <4>1
      <4>3. decided'[u] <= d.number
        BY <2>2, <4>1, <4>2
      <4> QED
        BY <2>1, <2>14, <4>1, <4>3
    <3> QED
      BY <3>1, <3>2
  <2> QED
    BY <2>3, <2>7, <2>8, <2>14 DEF CacheInv
<1>3. ASSUME ~\E t \in Threads : LookupHit(t), ~\E t \in Threads : PopulateAtomically(t)
      PROVE  CacheInv'
  <2>1. decided' = decided
    BY <1>3, DecidedStep
  <2>2. cache' = cache
    <3>1. ASSUME NEW t \in Threads, Step(t) PROVE cache' = cache
      BY <1>3, <3>1 DEF Step, LookupCorrupt, LookupMiss, Invalidate, FetchFails,
        FetchUnparsable, FetchCrl, CompareBeforePut, Put, MissInv
    <3>2. ASSUME NEW t \in Threads, Call(t) PROVE cache' = cache
      BY <3>2 DEF Call, Begin, BeginWithoutUrls, BeginCall
    <3>3. Environment => cache' = cache
      BY DEF Environment, Tick, Publish, Corrupt
    <3> QED
      BY <3>1, <3>2, <3>3 DEF Next, vars
  <2> QED
    BY <2>1, <2>2, TaintStays DEF CacheInv
<1> QED
  BY <1>1, <1>2, <1>3

\* A call starts from the decisions of its time, and those only grow.
LEMMA FloorStep ==
  ASSUME Backend = "in_memory", TypeOK, OriginInv, PublishedInv, CacheInv, MissInv,
         FloorInv, [Next]_vars
  PROVE  FloorInv'
<1>1. \A u \in Uris : decided'[u] >= decided[u] /\ decided'[u] \in Nat
  <2>1. ASSUME NEW t \in Threads, LookupHit(t) \/ PopulateAtomically(t)
        PROVE  \A u \in Uris : decided'[u] >= decided[u]
    BY <2>1, DecidingStep, DecideFacts
  <2>2. decided' \in [Uris -> Nat] /\ decided \in [Uris -> Nat]
    BY TypeStep DEF TypeOK
  <2> QED
    BY <2>1, <2>2, DecidedStep
<1>2. ASSUME floor' = floor PROVE FloorInv'
  BY <1>1, <1>2 DEF FloorInv, TypeOK
<1>3. ASSUME NEW t \in Threads, Call(t) PROVE FloorInv'
  <2>1. floor' = [floor EXCEPT ![t] = decided] /\ decided' = decided
    BY <1>3 DEF Call, Begin, BeginWithoutUrls, BeginCall
  <2> QED
    BY <2>1 DEF FloorInv, TypeOK
<1>4. ASSUME NEW t \in Threads, Step(t) PROVE floor' = floor
  BY <1>4 DEF Step, LookupHit, LookupCorrupt, LookupMiss, Invalidate, FetchFails,
    FetchUnparsable, FetchCrl, PopulateAtomically, CompareBeforePut, Put
<1> QED
  BY <1>2, <1>3, <1>4, EnvironmentStays DEF Next, thread

\* A thread goes to the network only past the end of what it could go back from.
LEMMA MissStep ==
  ASSUME Backend = "in_memory", TypeOK, OriginInv, PublishedInv, CacheInv, FloorInv,
         MissInv, [Next]_vars
  PROVE  MissInv'
<1> DEFINE Reason(f, n, P) == \/ f = 0
                              \/ \E p \in P : /\ p.number >= f
                                              /\ p.next # None /\ p.next <= n
           Fine(s) == /\ pc'[s] \notin {"invalidate", "put"}
                      /\ pc'[s] \in {"fetch", "populate"} =>
                           \/ Url(s)' \in tainted'
                           \/ Reason(floor'[s][Url(s)'], now'[s], published')
<1> SUFFICES ASSUME NEW s \in Threads PROVE Fine(s)
  BY DEF MissInv
<1>1. published \subseteq published' /\ tainted \subseteq tainted'
  BY PublishedGrows, TaintStays
<1>2. ASSUME SameCall(s) PROVE Fine(s)
  BY <1>1, <1>2 DEF SameCall, MissInv, Url
<1>3. CASE Environment \/ UNCHANGED vars
  BY <1>2, <1>3, EnvironmentStays DEF SameCall, thread
<1>4. ASSUME NEW t \in Threads, Call(t) \/ Step(t), t # s PROVE Fine(s)
  BY <1>2, <1>4, OthersStay
<1>5. CASE Call(s)
  BY <1>5 DEF Call, Begin, BeginWithoutUrls, TypeOK
<1>6. CASE LookupHit(s) \/ PopulateAtomically(s)
  BY <1>6 DEF LookupHit, PopulateAtomically, ReturnVerdict, TypeOK
<1>7. CASE LookupCorrupt(s)
  <2>1. Url(s) \in Uris
    BY <1>7, UrlType DEF LookupCorrupt
  <2> QED
    BY <1>7, <2>1 DEF LookupCorrupt, Hit, CacheInv
<1>8. CASE LookupMiss(s)
  <2> DEFINE u == Url(s)
  <2>1. u \in Uris
    BY <1>8, UrlType DEF LookupMiss
  <2>2. /\ pc'[s] = "fetch" /\ Url(s)' = u /\ floor' = floor /\ now' = now
        /\ ~Hit(u, now[s])
    BY <1>8 DEF LookupMiss, Url, TypeOK
  <2>3. floor[s][u] \in Nat /\ decided[u] \in Nat /\ floor[s][u] <= decided[u]
    BY <2>1 DEF FloorInv, TypeOK
  <2>4. CASE cache[u] = NoCrl
    BY <1>1, <2>1, <2>2, <2>3, <2>4 DEF CacheInv
  <2>5. CASE cache[u] # NoCrl /\ u \notin tainted
    <3>1. /\ cache[u] \in Crl /\ OriginIn(published, cache[u])
          /\ cache[u].damage = "none" /\ decided[u] <= cache[u].number
      BY <2>1, <2>5 DEF TypeOK, Entry, OriginInv, CacheInv
    <3>2. cache[u].next # None /\ cache[u].next <= now[s]
      BY <2>1, <2>2, <2>5, <3>1 DEF Hit, IsLive, Crl, None, TypeOK
    <3>3. cache[u].number \in Nat
      BY <3>1, OriginNumber
    <3>4. cache[u] \in published /\ cache[u].number >= floor[s][u]
      BY <2>3, <3>1, <3>3 DEF OriginIn
    <3> QED
      BY <1>1, <2>2, <3>2, <3>4
  <2> QED
    BY <1>1, <2>2, <2>4, <2>5
<1>9. CASE FetchFails(s) \/ \E d \in Served : FetchUnparsable(s, d)
  BY <1>9, SMTT(30) DEF FetchFails, FetchUnparsable, NextUrl, TypeOK
<1>10. ASSUME NEW d \in Served, FetchCrl(s, d) PROVE Fine(s)
  <2>1. /\ pc[s] = "fetch" /\ pc'[s] = "populate" /\ Url(s)' = Url(s)
        /\ floor' = floor /\ now' = now
    BY <1>10 DEF FetchCrl, Url, TypeOK
  <2> QED
    BY <1>1, <2>1 DEF MissInv
<1>11. CASE Invalidate(s) \/ Put(s) \/ CompareBeforePut(s)
  BY <1>11 DEF Invalidate, Put, CompareBeforePut, MissInv
<1> QED
  BY <1>3, <1>4, <1>5, <1>6, <1>7, <1>8, <1>9, <1>10, <1>11 DEF Next, Step

\* The argument: a decision on fetched bytes is about a CRL that has not ended,
\* the reason for the fetch one that has; so the fetched one is the later.
LEMMA DecisionStep ==
  ASSUME Backend = "in_memory", TypeOK, OriginInv, PublishedInv, CacheInv, FloorInv,
         MissInv, DecisionsDoNotGoBack, [Next]_vars
  PROVE  DecisionsDoNotGoBack'
<1> DEFINE Fine(s) == /\ pc'[s] = "done" /\ result'[s] \in Decisive /\ source'[s] # "none"
                      /\ Url(s)' \notin tainted'
                      => doc'[s].number >= floor'[s][Url(s)']
<1>0. tainted \subseteq tainted'
  BY TaintStays
<1> SUFFICES ASSUME NEW s \in Threads PROVE Fine(s)
  BY DEF DecisionsDoNotGoBack
<1>1. ASSUME SameCall(s) PROVE Fine(s)
  BY <1>0, <1>1 DEF SameCall, DecisionsDoNotGoBack, Url
<1>2. CASE Environment \/ UNCHANGED vars
  BY <1>1, <1>2, EnvironmentStays DEF SameCall, thread
<1>3. ASSUME NEW t \in Threads, Call(t) \/ Step(t), t # s PROVE Fine(s)
  BY <1>1, <1>3, OthersStay
<1>4. CASE Call(s)
  BY <1>4 DEF Call, Begin, BeginWithoutUrls, BeginCall, TypeOK
<1>5. ASSUME LookupHit(s) \/ PopulateAtomically(s),
             result'[s] \in Decisive, Url(s)' \notin tainted'
      PROVE  doc'[s].number >= floor'[s][Url(s)']
  <2> DEFINE u == Url(s)
             d == doc'[s]
             n == now[s]
  <2>1. /\ u \in Uris /\ Url(s)' = u /\ floor' = floor
        /\ d \in Crl /\ Parses(d) /\ OriginIn(published, d)
        /\ result'[s] = Verdict(d, n)
    BY <1>5, DecidingStep DEF Url
  <2>2. u \notin tainted
    BY <1>0, <1>5, <2>1
  <2>3. d.damage = "none" /\ d.next # None /\ n <= d.next
    BY <1>5, <2>1, DecisiveIsIntact
  <2>4. d \in published /\ d.number \in Nat
    BY <2>1, <2>3, OriginNumber DEF OriginIn
  <2>5. /\ floor[s][u] \in Nat /\ decided[u] \in Nat /\ floor[s][u] <= decided[u]
        /\ n \in Nat
    BY <2>1 DEF FloorInv, TypeOK
  <2>6. CASE LookupHit(s)
    <3>1. d = cache[u] /\ cache[u] # NoCrl
      BY <2>6 DEF LookupHit, Hit, TypeOK
    <3>2. decided[u] <= d.number
      BY <2>1, <2>2, <3>1 DEF CacheInv
    <3> QED
      BY <2>1, <2>4, <2>5, <3>2
  <2>7. CASE PopulateAtomically(s)
    <3>1. \/ floor[s][u] = 0
          \/ \E p \in published : p.number >= floor[s][u] /\ p.next # None /\ p.next <= n
      BY <2>2, <2>7 DEF MissInv, PopulateAtomically
    <3>2. ASSUME NEW p \in published, p.number >= floor[s][u], p.next # None, p.next <= n
          PROVE  d.number >= floor[s][u]
      <4>1. p.number \in Nat /\ p.next \in Nat /\ d.next \in Nat
        <5>1. Cardinality(published) \in Nat /\ p.number \in 1..Cardinality(published)
          BY FS_CardinalityType DEF PublishedInv
        <5> QED
          BY <2>1, <2>3, <3>2, <5>1 DEF TypeOK, Crl
      <4>2. ~(d.number < p.number)
        BY <2>3, <2>4, <2>5, <3>2, <4>1 DEF PublishedInv
      <4> QED
        BY <2>4, <2>5, <3>2, <4>1, <4>2
    <3> QED
      BY <2>1, <2>4, <2>5, <3>1, <3>2
  <2> QED
    BY <1>5, <2>6, <2>7
<1>6. CASE LookupHit(s) \/ PopulateAtomically(s)
  BY <1>5, <1>6
<1>7. CASE LookupCorrupt(s) \/ LookupMiss(s) \/ Invalidate(s) \/ Put(s) \/ CompareBeforePut(s)
  BY <1>7 DEF LookupCorrupt, LookupMiss, Invalidate, Put, CompareBeforePut, TypeOK, MissInv
<1>8. CASE FetchFails(s) \/ \E d \in Served : FetchUnparsable(s, d) \/ FetchCrl(s, d)
  BY <1>8 DEF FetchFails, FetchUnparsable, FetchCrl, NextUrl, TypeOK, Decisive
<1> QED
  BY <1>2, <1>3, <1>4, <1>6, <1>7, <1>8 DEF Next, Step

\* Behind an InMemoryCache, and with a CA that numbers its CRLs and moves
\* nextUpdate forward, a call is never decided by an older CRL of a URL than a
\* call that was over before it began, for any number of threads, stale mirrors and
\* CRLs that nobody signed, as long as none of those was stored under that URL.
THEOREM MonotonicReads ==
  ASSUME Backend = "in_memory", Numbering = {TRUE}
  PROVE  Spec => []DecisionsDoNotGoBack
<1>1. Init => MonoInv
  BY TypeInit, FS_EmptySet DEF Init, MonoInv, OriginInv, PublishedInv, CacheInv, FloorInv,
    MissInv, DecisionsDoNotGoBack
<1>2. MonoInv /\ [Next]_vars => MonoInv'
  BY TypeStep, OriginStep, PublishedStep, CacheInvStep, FloorStep, MissStep, DecisionStep
    DEF MonoInv
<1>3. MonoInv => DecisionsDoNotGoBack
  BY DEF MonoInv
<1> QED
  BY <1>1, <1>2, <1>3, PTL DEF Spec

-----------------------------------------------------------------------------
(***************************************************************************)
(* The loop over the URLs.                                                 *)
(***************************************************************************)
\* The failures f hold one of URL i that is not only a corrupt cache entry.
Blamed(f, i) == \E j \in 1..Len(f) : f[j][1] = i /\ f[j][2] # "cached"

\* Every URL the loop has left behind failed.
LoopInv ==
  \A t \in Threads :
    pc[t] \notin {"idle", "done"} =>
      \A i \in 1..Len(urls[t]) : i < pos[t] => Blamed(failures[t], i)

\* A call that is still at work has not returned what it found in the cache.
HitInv == \A t \in Threads : source[t] = "cache" => pc[t] = "done"

Failure == (Nat \ {0}) \X {"cached", "fetch", "parse"}

\* Collected failures stay, and the new one is among them.
LEMMA BlameStays ==
  ASSUME NEW f \in Seq(Failure), NEW e \in Failure
  PROVE  /\ \A i : Blamed(f, i) => Blamed(Append(f, e), i)
         /\ e[2] # "cached" => Blamed(Append(f, e), e[1])
<1>1. /\ Len(f) \in Nat /\ Len(Append(f, e)) = Len(f) + 1
      /\ Append(f, e)[Len(f) + 1] = e
      /\ \A j \in 1..Len(f) : Append(f, e)[j] = f[j]
  OBVIOUS
<1>2. \A j \in 1..Len(f) : j \in 1..(Len(f) + 1)
  BY <1>1
<1>3. Len(f) + 1 \in 1..(Len(f) + 1)
  BY <1>1
<1> QED
  BY <1>1, <1>2, <1>3 DEF Blamed

\* The checker never reports a failed fetch: that verdict is the loop's own.
LEMMA VerdictIsNoFetch ==
  ASSUME NEW d, NEW t PROVE Verdict(d, t) # "RevocationFetchFailed"
BY DEF Verdict

\* A step of one thread leaves the failures of the others alone.
LEMMA FailuresStay ==
  ASSUME TypeOK, NEW t \in Threads, Call(t) \/ Step(t), NEW s \in Threads, s # t
  PROVE  failures'[s] = failures[s]
BY DEF Call, Begin, BeginWithoutUrls, BeginCall, Step, LookupHit, LookupCorrupt,
  LookupMiss, Invalidate, FetchFails, FetchUnparsable, FetchCrl, PopulateAtomically,
  CompareBeforePut, Put, NextUrl, TypeOK

\* A URL that failed is behind the loop, or was the last one.
LEMMA NextUrlLoop ==
  ASSUME TypeOK, LoopInv, NEW t \in Threads, NEW what \in {"fetch", "parse"},
         pc[t] = "fetch", NextUrl(t, what), urls' = urls
  PROVE  /\ pc'[t] \notin {"idle", "done"} =>
              \A i \in 1..Len(urls'[t]) : i < pos'[t] => Blamed(failures'[t], i)
         /\ pc'[t] = "done" => \A i \in 1..Len(urls'[t]) : Blamed(failures'[t], i)
<1> DEFINE e == <<pos[t], what>>
<1>1. /\ urls[t] \in Seq(Uris) /\ Len(urls[t]) \in Nat
      /\ pos[t] \in Nat \ {0} /\ pos[t] <= Len(urls[t])
      /\ failures[t] \in Seq(Failure) /\ e \in Failure
  <2>1. urls[t] \in Seq(Uris) /\ pos[t] \in Nat \ {0} /\ pos[t] <= Len(urls[t])
    BY DEF TypeOK
  <2>2. failures[t] \in Seq(Failure)
    BY DEF TypeOK, Failure
  <2>3. e \in Failure
    BY <2>1 DEF Failure
  <2> QED
    BY <2>1, <2>2, <2>3
<1>2. failures'[t] = Append(failures[t], e)
  BY DEF NextUrl, TypeOK
<1>3. /\ \A i : Blamed(failures[t], i) => Blamed(failures'[t], i)
      /\ Blamed(failures'[t], pos[t])
  <2>1. e[1] = pos[t] /\ e[2] = what
    OBVIOUS
  <2>2. /\ \A i : Blamed(failures[t], i) => Blamed(Append(failures[t], e), i)
        /\ e[2] # "cached" => Blamed(Append(failures[t], e), e[1])
    BY <1>1, BlameStays
  <2> HIDE DEF e
  <2> QED
    BY <1>2, <2>1, <2>2
<1>4. \A i \in 1..Len(urls[t]) : i < pos[t] => Blamed(failures[t], i)
  BY DEF LoopInv
<1>5. \A i \in 1..Len(urls[t]) : i <= pos[t] => Blamed(failures'[t], i)
  <2> TAKE i \in 1..Len(urls[t])
  <2> HAVE i <= pos[t]
  <2>1. i = pos[t] \/ i < pos[t]
    BY <1>1
  <2> QED
    BY <1>3, <1>4, <2>1
<1>6. CASE pos[t] < Len(urls[t])
  <2>1. pos'[t] = pos[t] + 1 /\ pc'[t] = "lookup"
    BY <1>6 DEF NextUrl, TypeOK
  <2>2. \A i \in 1..Len(urls[t]) : i < pos'[t] => i <= pos[t]
    BY <1>1, <2>1
  <2> QED
    BY <1>5, <2>1, <2>2
<1>7. CASE ~(pos[t] < Len(urls[t]))
  <2>1. pc'[t] = "done"
    BY <1>7 DEF NextUrl, TypeOK
  <2>2. \A i \in 1..Len(urls[t]) : i <= pos[t]
    BY <1>1, <1>7
  <2> QED
    BY <1>5, <2>1, <2>2
<1> QED
  BY <1>6, <1>7

\* The other steps of a call leave the loop where it is, or return a verdict.
LEMMA LoopStep ==
  ASSUME TypeOK, LoopInv, FailureTriedEveryUrl, [Next]_vars
  PROVE  LoopInv' /\ FailureTriedEveryUrl'
<1> DEFINE Fine(t) ==
      /\ pc[t] \notin {"idle", "done"} =>
           \A i \in 1..Len(urls[t]) : i < pos[t] => Blamed(failures[t], i)
      /\ pc[t] = "done" /\ result[t] = "RevocationFetchFailed" =>
           \A i \in 1..Len(urls[t]) : Blamed(failures[t], i)
<1>1. \A t \in Threads : Fine(t)
  BY DEF LoopInv, FailureTriedEveryUrl, Blamed
<1>2. SUFFICES ASSUME NEW t \in Threads PROVE Fine(t)'
  BY <1>2 DEF LoopInv, FailureTriedEveryUrl, Blamed
<1>3. CASE UNCHANGED thread
  <2>1. Fine(t)
    BY <1>1
  <2> QED
    BY <1>3, <2>1 DEF thread, Blamed
<1>4. ASSUME NEW s \in Threads, s # t, Call(s) \/ Step(s) PROVE Fine(t)'
  <2>1. Fine(t)
    BY <1>1
  <2>2. failures'[t] = failures[t]
    BY <1>4, FailuresStay
  <2>3. pc'[t] = pc[t] /\ urls'[t] = urls[t] /\ pos'[t] = pos[t] /\ result'[t] = result[t]
    BY <1>4, OthersStay DEF SameCall
  <2> QED
    BY <2>1, <2>2, <2>3 DEF Blamed
<1>5. CASE Call(t)
  <2>1. CASE \E n \in 0..MaxClock, list \in UrlLists : Begin(t, n, list)
    <3>1. pc'[t] = "lookup" /\ pos'[t] = 1
      BY <2>1 DEF Begin, BeginCall, TypeOK
    <3> QED
      BY <3>1
  <2>2. CASE \E n \in 0..MaxClock, v \in Verdicts : BeginWithoutUrls(t, n, v)
    <3>1. pc'[t] = "done" /\ urls'[t] = <<>>
      BY <2>2 DEF BeginWithoutUrls, TypeOK
    <3>2. Len(urls'[t]) = 0
      BY <3>1
    <3> QED
      BY <3>1, <3>2
  <2> QED
    BY <1>5, <2>1, <2>2 DEF Call
<1>6. CASE LookupCorrupt(t) \/ LookupMiss(t) \/ \E d \in Served : FetchCrl(t, d)
  <2>1. /\ pc[t] \in {"lookup", "fetch"} /\ pc'[t] \in {"invalidate", "fetch", "populate"}
        /\ urls' = urls /\ pos' = pos /\ failures' = failures
    BY <1>6 DEF LookupCorrupt, LookupMiss, FetchCrl, TypeOK
  <2>2. Fine(t)
    BY <1>1
  <2> QED
    BY <2>1, <2>2 DEF Blamed
<1>7. CASE Invalidate(t)
  <2>1. /\ pc[t] = "invalidate" /\ pc'[t] = "fetch" /\ urls' = urls /\ pos' = pos
        /\ failures'[t] = Append(failures[t], <<pos[t], "cached">>)
    BY <1>7 DEF Invalidate, TypeOK
  <2>2. failures[t] \in Seq(Failure) /\ <<pos[t], "cached">> \in Failure
    BY DEF TypeOK, Failure
  <2>3. \A i : Blamed(failures[t], i) => Blamed(failures'[t], i)
    BY <2>1, <2>2, BlameStays
  <2>4. Fine(t)
    BY <1>1
  <2> QED
    BY <2>1, <2>3, <2>4
<1>8. CASE FetchFails(t) \/ \E d \in Served : FetchUnparsable(t, d)
  <2>1. \E what \in {"fetch", "parse"} : NextUrl(t, what)
    BY <1>8 DEF FetchFails, FetchUnparsable
  <2>2. pc[t] = "fetch" /\ urls' = urls
    BY <1>8 DEF FetchFails, FetchUnparsable
  <2> QED
    BY <2>1, <2>2, NextUrlLoop
<1>9. ASSUME NEW d, ReturnVerdict(t, d) PROVE Fine(t)'
  <2>1. pc'[t] = "done" /\ result'[t] = Verdict(d, now[t])
    BY <1>9 DEF ReturnVerdict, TypeOK
  <2> QED
    BY <2>1, VerdictIsNoFetch
<1>10. CASE LookupHit(t) \/ PopulateAtomically(t) \/ Put(t)
  BY <1>9, <1>10 DEF LookupHit, PopulateAtomically, Put
<1>11. CASE CompareBeforePut(t)
  <2>1. CASE ReturnVerdict(t, doc[t])
    BY <1>9, <2>1
  <2>2. CASE ~ReturnVerdict(t, doc[t])
    <3>1. /\ pc[t] = "populate" /\ pc'[t] = "put"
          /\ urls' = urls /\ pos' = pos /\ failures' = failures
      BY <1>11, <2>2 DEF CompareBeforePut, TypeOK
    <3>2. Fine(t)
      BY <1>1
    <3> QED
      BY <3>1, <3>2 DEF Blamed
  <2> QED
    BY <2>1, <2>2
<1>12. Environment => UNCHANGED thread
  BY DEF Environment, Tick, Publish, Corrupt
<1>13. UNCHANGED vars => UNCHANGED thread
  BY DEF vars
<1>14. Step(t) => Fine(t)'
  BY <1>6, <1>7, <1>8, <1>10, <1>11 DEF Step
<1> HIDE DEF Fine
<1> QED
  BY <1>3, <1>4, <1>5, <1>12, <1>13, <1>14 DEF Next

\* A call reports a failed fetch only after every URL of the certificate was asked
\* and failed, however often it was sent from one URL to the next by corrupt
\* entries of the cache, by the network or by damaged answers.
THEOREM NoUrlIsSkipped == Spec => []FailureTriedEveryUrl
<1> DEFINE IInv == TypeOK /\ LoopInv /\ FailureTriedEveryUrl
<1>1. Init => IInv
  <2>1. Init => LoopInv /\ FailureTriedEveryUrl
    BY DEF Init, LoopInv, FailureTriedEveryUrl
  <2> QED
    BY <2>1, TypeInit
<1>2. IInv /\ [Next]_vars => IInv'
  BY TypeStep, LoopStep
<1>3. IInv => FailureTriedEveryUrl
  OBVIOUS
<1> QED
  BY <1>1, <1>2, <1>3, PTL DEF Spec

-----------------------------------------------------------------------------
(***************************************************************************)
(* Cache and checker agree on what has expired.                            *)
(***************************************************************************)
\* A call that takes its bytes from the cache returns in the same step, so now_unix is
\* the time is_live was asked about.
LEMMA HitStep ==
  ASSUME TypeOK, HitInv, CacheHitsAreCurrent, [Next]_vars
  PROVE  HitInv' /\ CacheHitsAreCurrent'
<1> DEFINE Current(t) ==
      /\ source[t] = "cache" => pc[t] = "done"
      /\ pc[t] = "done" /\ source[t] = "cache" /\ result[t] = "CrlExpired" =>
           doc[t].next = None \/ doc[t].this > now[t]
<1>1. \A t \in Threads : Current(t)
  BY DEF HitInv, CacheHitsAreCurrent
<1>2. SUFFICES ASSUME NEW t \in Threads PROVE Current(t)'
  BY <1>2 DEF HitInv, CacheHitsAreCurrent
<1>3. CASE UNCHANGED thread
  BY <1>1, <1>3 DEF thread
<1>4. ASSUME NEW s \in Threads, s # t, Call(s) \/ Step(s) PROVE Current(t)'
  <2>1. /\ pc'[t] = pc[t] /\ source'[t] = source[t] /\ result'[t] = result[t]
        /\ doc'[t] = doc[t] /\ now'[t] = now[t]
    BY <1>4, OthersStay DEF SameCall
  <2> QED
    BY <1>1, <2>1
<1>5. CASE Call(t)
  <2>1. source'[t] = "none"
    BY <1>5 DEF Call, Begin, BeginWithoutUrls, BeginCall, TypeOK
  <2> QED
    BY <2>1
<1>6. CASE LookupHit(t)
  <2> DEFINE d == cache[Url(t)]
  <2>1. /\ pc'[t] = "done" /\ doc'[t] = d /\ now'[t] = now[t]
        /\ result'[t] = Verdict(d, now[t])
        /\ d # NoCrl /\ IsLive(d.next, now[t])
    BY <1>6 DEF LookupHit, ReturnVerdict, Hit, TypeOK
  <2>2. d \in Crl /\ now[t] \in Nat
    BY <1>6, <2>1, UrlType DEF LookupHit, TypeOK, Entry
  <2>3. d.this \in Nat /\ d.next \in Nat \cup {None}
    BY <2>2 DEF Crl
  <2> HIDE DEF d
  <2>4. Verdict(d, now[t]) = "CrlExpired" => ~CurrentAt(d, now[t])
    BY DEF Verdict
  <2>5. ~CurrentAt(d, now[t]) => d.next = None \/ d.this > now[t]
    BY <2>1, <2>2, <2>3 DEF CurrentAt, IsLive, None
  <2> QED
    BY <2>1, <2>4, <2>5
<1>7. ASSUME Step(t), ~LookupHit(t) PROVE Current(t)'
  <2>1. pc[t] # "done"
    BY <1>7 DEF Step, LookupCorrupt, LookupMiss, Invalidate, FetchFails,
      FetchUnparsable, FetchCrl, PopulateAtomically, CompareBeforePut, Put
  <2>2. source' = source \/ source'[t] = "network"
    BY <1>7 DEF Step, LookupCorrupt, LookupMiss, Invalidate, FetchFails,
      FetchUnparsable, FetchCrl, PopulateAtomically, CompareBeforePut, Put, TypeOK
  <2> QED
    BY <1>1, <2>1, <2>2
<1>8. Environment => UNCHANGED thread
  BY DEF Environment, Tick, Publish, Corrupt
<1>9. UNCHANGED vars => UNCHANGED thread
  BY DEF vars
<1> HIDE DEF Current
<1> QED
  BY <1>3, <1>4, <1>5, <1>6, <1>7, <1>8, <1>9 DEF Next

\* What the cache serves is refused as expired only for lack of a nextUpdate or for a
\* thisUpdate that is still to come: is_live and the checker's window never disagree
\* about the end of a CRL, whatever the lag of the caller's clock, as long as an
\* entry keeps the dates its bytes came with.
THEOREM HitsAreCurrent == Spec => []CacheHitsAreCurrent
<1> DEFINE IInv == TypeOK /\ HitInv /\ CacheHitsAreCurrent
<1>1. Init => IInv
  <2>1. Init => HitInv /\ CacheHitsAreCurrent
    BY DEF Init, HitInv, CacheHitsAreCurrent
  <2> QED
    BY <2>1, TypeInit
<1>2. IInv /\ [Next]_vars => IInv'
  BY TypeStep, HitStep
<1>3. IInv => CacheHitsAreCurrent
  OBVIOUS
<1> QED
  BY <1>1, <1>2, <1>3, PTL DEF Spec

=============================================================================
