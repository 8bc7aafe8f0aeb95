# Verification of the pkix crates

The repository is a Rust workspace that validates X.509 certificate chains: it
builds candidate chains from a pool of certificates, validates them after
RFC 5280, checks revocation over CRLs and OCSP, fetches and caches what it needs
over HTTP, verifies certificate transparency and names, and lints what it sees.
This directory holds TLA+ models of it, the TLC configurations that check them on
small instances, and TLAPS proofs of the properties that matter most.
`PROJECT.json` lists components, runs, mutants, the map from definitions to source
lines, findings, hazards and theorems.

Run a configuration with `tlc -config PathBuilder_search.cfg MCPathBuilder`, check
the proofs of a module with `tlapm PathBuilder_proofs.tla`.

## The system

```
             pkix-chain (Verifier)  --AIA-->  pkix-aia, pkix-aia-http
              |        |         |
   pkix-path-builder   |   pkix-revocation  <--  pkix-revocation-http
              |        |   (CRL, OCSP)           (clients, fetchers, shared cache)
              +--> pkix-path (validate_path)
   pkix-profiles, pkix-profiles-cabf -> ValidationPolicy + lints
   pkix-identity, pkix-ct: on the leaf      pkix-lint (runner, deviations, OSCAL)
                                              ^ pkix-lint-cabf, pkix-policy-zlint -> pkix-zlint-bridge -> zlint
```

| Component | State it keeps | Operations | What is hard | What makes it correct |
|---|---|---|---|---|
| `pkix-path-builder` | an iterator suspended between yields: path, stack of frames with cursors, budget | `next`, `build_path`, `build_first_valid_path` | resuming in the middle of a frame; loops of cross-certificates; two limits (depth, budget); a second search as a probe | yields exactly the good chains in tier order, each once; ends; the error says why |
| `pkix-path` | working state of a walk: key, name, counters, policy tree, constraint lists | `validate_path` over a list of anchors | one walk per anchor with fresh state; exemptions for self-issued and empty-subject CAs; order of the policy counters; a policy tree without parent links; intersection of subtrees | accepts only trusted chains; errors name the first fault; policies and names decide as RFC 5280 says |
| `pkix-chain` | pool grown by AIA, set of fetched URLs, depth | `verify_one`, purpose wrappers | rebuild after each batch; partial batches; an exemption by serial number applied to a chain built later | ends; accepts only what path and revocation accept, for the right CA; gives up only when nothing is left |
| `pkix-revocation` | parsed CRL and delta, parsed OCSP response | constructors, `check_revocation` | order of checks; delta over base; indirect CRLs whose entries inherit; delegated responders; key rollover of the signer | the answer is the CA's decision as of the document |
| `pkix-revocation-http` | URL -> CRL, certificate -> OCSP answer, behind a lock or a trait object | lookup, invalidate, guarded put, failover over URLs; two clients | threads racing on an entry; lagging mirrors; bytes stored before they are verified; size limits | never better news than the CA's; later calls do not go back in time; every call returns |
| `pkix-ct` | a log list read once | SCTs, tree heads, inclusion proofs | logs that change state after the list was read; trees that are not full | accepts exactly what the log signed while it was usable |
| `pkix-identity` | none | host, address and mailbox matching | wildcards, IPv6 text, two spellings of a mailbox | a certificate speaks for the names it lists and no others |
| `pkix-profiles`, `pkix-lint-cabf`, lint rules | parameters of shared lints | `policy`, `lints`, `check_shape` | one rule known to two crates | policy and lints of a profile agree |
| `pkix-lint` | lints and their parameters, a deviation store, a profile being resolved | resolve, override, run, deviate, report | fatal results, overlapping deviations, nested and cyclic imports, partial application | each finding reported or waived by the right deviation; documents mean what they say |
| `pkix-zlint-bridge` | a verdict cache, a child process, its pipes and scratch directory | `run_on_cert`, `run_on_certs`, `enumerate_lints` | full pipes, timeouts, a tool that stops at the first bad file | results stay with their inputs; children are reaped; every call returns |

Crates that are left out are listed under "Not modelled".

## Modules

**PathBuilder** models `pkix-path-builder/src/lib.rs`. The variables are the fields of
`PathCandidates` (`path`, `frames`, `budget`, `max_depth`) and the arguments of the
call; `api` is the entry point. One action is one turn of the loop in `next`: entering a
frame and charging the budget (`AnchorCheck`, `OutOfBudget`), trying the next
candidate (`TryCandidate`), leaving a frame (`LeaveFrame`), resuming after a yield
(`LeaveYieldedFrame`). The sorted candidate list with its cursor is the set of pool indices
already passed plus the rank order. The callers' loops are actions too:
`BuildPathYield`, `StartProbe`, `FinishProbe`, `FirstValidYield`, `FirstValidRejectedAll`.
Whether validation accepts a chain is a parameter, `ValidatePath`.

**ChainEnumeration** is the abstract specification of the builder: the chains of the call
are handed out in some order, none twice if no certificate was supplied twice, and a call that ends without one ends with an error
that says something true of the set of chains. `PathBuilder` instantiates it (`Enumeration`);
its state is the set of chains the arguments allow, those yielded so far, and the
outcome. `EnumeratesTheChains` is the claim that the search with its stack, cursors, key guard,
depth gate, budget and probe implements it: every step of the search is a stutter except the
yields and the ends.

**PathValidation** models `validate_path` and `chain_walk`. An action is one section of
the walk: input checks, the anchor loop (`SkipAnchor`, `BeginWalk`, `OutOfAnchors`),
the per-certificate checks in order (`CheckCert`), policies (`UpdatePolicies`), names
(`CheckNames`), then `CheckLeaf` or `CheckCa`, `MapPolicies`, `UpdateCounters`,
`ConstrainNames`, and `Finish`. A list of checks is a sequence of pairs
(condition, error) and the first that holds is returned, so the order of the code is
kept. Names, keys, signatures and extensions are abstract values; an extension is
absent, malformed or a value.
**PolicyTree** has the operators on the flat policy tree, **NameConstraints** those on
subtrees and names, one per Rust function. **PathPolicies** and **PathNames** add the
reference definitions of what RFC 5280 wants, written without tree and lists, and
the properties against them. **SampleCalls**, **TrustCalls**, **PolicyCalls** and **NameCalls**
are the callers of the model: what each passes in (`Callers`).

**ChainVerifier** models one call of a verify function of `pkix-chain/src/lib.rs`. `pc` is the
place in `verify_one`: `FastPath` validates the chain as given, `Build` to `BatchFetch` are
`build_with_aia` (`pool`, `tried_uris`, `last_aia_error` and `iteration` are its locals),
`ValidateBuilt` validates what was built, `SkipCheck`, `CheckRevocation` and `ChecksDone`
are `run_revocation_checks` behind the nocheck shim, `CheckPurpose` is the check on the leaf
that the purpose wrapper adds. Of the crates below it the module keeps the promise:
`validate_path` is the first fault of a walk under each anchor of the right name; the path
builder answers from the set of chains it can reach, which is `ChainEnumeration`; where the code takes the
builder's first chain to learn what is wrong with
it, the model takes any of them. Servers may serve any certificate that a URI stands for,
garbage or nothing; the revocation checker may say anything.

**CrlChecker** and **OcspChecker** are the decisions of `pkix-revocation` as operators: the
constructors and `check_revocation` as ordered lists of checks (**Checks**), the entries of an
indirect CRL folded with the issuer they inherit, delta before base, the scope of a distribution
point, the search for the signer of a CRL, the responder of an OCSP response and its
delegates. **RevocationSources** sets them among CAs with a history: `ledger` is the status
of every certificate at every time, `ChangeStatus` is the CA revoking, holding and releasing,
the constructors build a `checker` from documents of any time, `CheckRevocation` asks it.

**RevocationCache** models `CachedHttpCrlFetcher` of `pkix-revocation-http/src/cache.rs`:
threads that check one certificate and share one cache. A step is one use of the cache
or of the network; everything between two of them is local to the thread. `Backend` selects
`InMemoryCache` (test and insert under one lock) or the fallback for
`dyn RevocationCache` (two calls). The CA, the servers and the storage are the
environment: a server may answer with any CRL ever published, with a CRL that nobody signed and that
carries any number and any dates (`Unsigned`), with bytes that are no CRL, or not at all. What is fetched is stored as
its metadata say (`Store`) before its signature is looked at; `tainted` notes the URLs where that happened to
an unsigned one.

**HttpFetchers** models the rest of that crate: the plain and async fetchers, the two HTTP
clients with their size limits, the extraction of URLs, and `CachedHttpOcspFetcher` with its key, its
lifetime hint, its invalidation of what does not decode and its unconditional overwrite (`Lookup`,
`Invalidate`, `Fetch`, `FetchFails`, `Populate`). A responder may answer a request with a response about another
certificate (`MixUps`), which is stored before the checker refuses it; `asked` notes which request a response came for.

**CtVerifier** has the decisions of `pkix-ct` (log list, SCT lists, what a signature covers, inclusion
proofs), **CertificateTransparency** the logs that change state, sign and answer, and a client with
a list that was read at some moment.

**Deviations** and **Oscal** have the decisions of `pkix-lint` about waivers, profiles and
documents; **LintSession** has the session around them: `Resolve`, `Filter`, `Override`
(the steps of applying a profile), `AddDeviation`, `SaveAndLoad`, `LoadRisks`, the three ways to run
lints, `EmitReport`. What a single lint says is any result.

**Identity** has `pkix-identity`, **LeafRules** the lint rules and profiles as predicates on a leaf,
**LeafUse** a caller that makes runners, sets parameters, runs, validates and asks for names. The parameter of
a lint lives in a box (`boxes`): one for the static of each profile, one for the clones a runner is made of (`ToVec`). What a
text spells by the RFCs is defined beside the parsers and without them (`Spelled`, `NamesHost`, `NamesMailbox`).

**ZlintBridge** models `pkix-zlint-bridge`, and of `pkix-policy-zlint` what becomes of its answers. A
caller goes through `Lookup`, `Spawn`, the poll loop of `wait_for_child` (`PollExited`, `Deadline`,
`Reap`), `Join` and `Apply`; `Drain` is the two reader threads; the child is external and writes, blocks on a
full pipe, stops at a file it cannot parse, hangs or crashes in the middle of a line.

The `MC` modules give the constants values. The `_proofs` modules hold the theorems.

Definitions called `Mut_...` are wrong versions of the definition that follows them.
No specification uses them; putting one in the place of its neighbour makes the
property named in `PROJECT.json` fail, which shows that the property can fail.

## Runs

| Run | Configuration | Bounds | Result |
|---|---|---|---|
| builder_search | PathBuilder_search | all pools of up to 3 of 8 certificates, repetitions included, 4 anchor sets, depth 0..2, two budgets | `YieldsAreGoodChains`, `BudgetCountsFrames`, `YieldsFollowTiers`, `FirstValidVerdict`, `EnumeratesTheChains` (refinement), `EveryCallReturns` hold |
| validation_calls | PathValidation_calls | 95 thousand calls: chains of 1 to 3, up to 3 anchors; two policies and anyPolicy; three sources of constraints, 5 name types | `AcceptedChainIsTrusted`, `FirstTrustingAnchorWins`, `ErrorBlamesTheFault`, `PoliciesAreExact`, `NamesHonoured`, `NameRejectionJustified` hold |
| validation_rewiden | PathValidation_rewiden | the same | `PermittedOnlyNarrows` fails |
| cache_atomic | RevocationCache_atomic | 2 threads, 2 calls each, 1 URL, 2 CRLs of the CA, 3 unsigned ones, time 0..2 | `OkIsBackedByTheCa`, `DecisionsDoNotGoBack`, `CacheHitsAreCurrent`, `NoRollback` hold |
| cache_failover | RevocationCache_failover | 1 thread, 2 calls, 2 URLs, all scopes | `FailureTriedEveryUrl`, `CallsReturn` hold |
| chain_verify | ChainVerifier_verify | 11 certificates, 3 URIs, chains of up to 4, depth 2, budget 3, 2 fetch iterations | `AcceptedChainIsChecked`, `ResponderSpeaksForIssuer`, `UrisFetchedOnce`, `NothingOverlooked` hold |
| revocation_answers | RevocationSources_answers | 3 certificates of 2 CAs, 13 kinds of CRL, 3 instants, clocks up to 1 behind | `CrlAnswersTheLedger`, `OcspAnswersTheLedger`, `SignersAreRight` hold |
| http_calls | HttpFetchers_calls | 2 threads, 1 call each, 3 certificates, 5 kinds of reply, answers about another certificate, time up to 3 | `VerdictsHaveGrounds`, `CacheServesTheCaller`, `EveryCallEnds` hold |
| lint_session | LintSession_session | 3 lints, 2 certificates, up to 2 deviations, profiles with nested and cyclic imports | `DeviationsAreExact`, `NothingVanishes`, `ProfilesResolveExactly`, `DocumentsAreExact` hold |
| ct_logs | CertificateTransparency_logs | 2 logs, 1 SCT issued, one fault in what is presented, trees of up to 8 entries | `SctVerdictsAreExact`, `TreeProofsAreExact` hold |
| leaf_rules | LeafUse_rules | leaves that differ from a good one in one or two things; all IPv6 texts of up to 10 pieces, empty or not; one runner at a time, its parameter at and beyond its limits | `NamesMatchExactly`, `MailboxesAgree`, `ProfilesAreConsistent` hold |
| zlint_calls | ZlintBridge_calls | 2 threads, 1 call each, 4 certificates, batches of 3, pipes of 1 line | `ResultsAreExact`, `ChildrenAreSupervised`, `BridgeCallsEnd` hold |

A property whose name says "exact" or "right" is a conjunction of named parts that belong to one question:
`PoliciesAreExact` is the verdict and the surfaced policies, `NamesHonoured` permitted and excluded subtrees,
`SignersAreRight` who signed and whom discovery finds, `SctVerdictsAreExact` that accepted SCTs are genuine and
genuine ones accepted, and so on; each part has a comment of its own.

Why the bounds are enough. In the builder three pool entries give a branching, a loop
between two CAs and a dead end at once, and depth 2 has a certificate below, at and above
the limit. In the validator three certificates are the shortest chain with a CA that is
neither the top nor just above the leaf, which is where counters, flags and constraint lists
cross a certificate; the anchor is a third source of constraints. In the caches two
threads make every race on one entry and two CRLs are a stale and a current one; the unsigned CRLs are one that the guard
keeps out, one ahead of all others that is soon over, and one without number and end;
time 0..2 sees a document before, in, at the end of and after its window. In the verifier
`AIA_MAX_DEPTH` is 2 instead of 5 and the chain to be fetched is up to three
certificates long, so that the loop both ends in time and runs out; depth 2 and budget 3 are
small enough for a pool of four to exceed each. Three instants are a hold, its release and a
revocation after it. Two deviations are an overlap, and one store order against one priority. Eight
leaves have last entries that skip one and two levels of the tree. A batch of three has an input
before, at and after the one that zlint cannot parse, and a pipe of one line fills at the second.

Deadlock is checked for the builder, the validator and the verifier, which run until they return; in the
others the number of calls or the time is bounded and the system may stop.

## Fairness

`PathBuilder` is sequential: weak fairness of the next-state
relation says that the processor goes on; a caller of the iterator that stops calling is an
action of its own. `RevocationCache` and `HttpFetchers` have weak fairness of each thread's `Step`: the
scheduler runs every thread, a lock is held for a map operation only, and a fetch ends
because the HTTP clients of `clients/` set timeouts. `ZlintBridge` has weak fairness of `Progress`: some
of the caller, its readers, a child that is not slow, or the arrival of a kill goes on. A slow
child may hang for ever, which is what the deadline is for. Nothing is assumed of the CA, the
clock, the success of a fetch or of zlint. The other modules are checked for safety only and assume no
fairness; that no call of the validator or the verifier gets stuck before it returns is their deadlock check.

## Proofs

All theorems hold for every value of the constants under the named assumptions. The type
invariants (`TypeOK`) are proved and not run as properties of their own.

*PathBuilder_proofs*: `TypeCorrect`, `OnlyGoodChains` (every yield is a good chain),
`BoundedEnumeration` (at most `dfs_budget` yields). `YieldsAreGoodChains` speaks about finished
yields; the invariant needed adds `SearchInv`: the path under construction is itself linked
by name through CA certificates with distinct keys, there is one frame per certificate,
and a frame in the anchor check is the topmost.
That the search misses nothing is said of chains that it may never have looked at, so the argument
is about `Ahead`: a chain is ahead of the search when some frame is a prefix of it and its continuation is a
candidate that the frame's cursor has not passed. Trying a candidate, passing one over and backtracking change nothing in
what is ahead (`TryMoves`, `LeaveMoves`: a candidate is passed over only if no chain goes through it, a frame is
dropped only if it leads to none within the depth limit), and the anchor check takes off the path itself
and nothing else (`CheckMoves`). `SInv` adds what the callers have made of it: every chain to an anchor is ahead or was handed
out, what was handed out was refused, and a probe runs only when there was nothing. With the stack empty nothing
is ahead, which gives `FirstValid` (`FirstValidVerdict`), for every pool.
If no certificate is in the pool twice, a checked path is not ahead again: each certificate of the path has been passed by the
cursor of the frame below it (`Trail`), and what a cursor has passed ranks no worse than the rest (`Ranked`). So no chain is
handed out twice and they come in the order of the key identifiers (`Once`: `TierOrder`, `YieldsFollowTiers`), and the chains that are not
ahead grow by one with every unit of the budget (`Spent`: `BudgetIsExact`, `BudgetCountsFrames`; that there
are finitely many chains is `FiniteExplorable`). `ImplementsEnumeration` puts these together: every
step of the search is a step of `ChainEnumeration` or a stutter.

*PathValidation_proofs*: `TypeCorrect`, `Soundness` (what is accepted is a chain of trust).
The verdict is given at the leaf while links were checked certificate by certificate, so
`WalkInv` says that everything above the position of the walk has passed, and that the
working key, name and flag are those of the certificate just above it. `AnchorLoopIsComplete` and
`ErrorsAreTrue` are about the loop over the anchors, where a verdict depends on walks that are over, so a
second invariant `RInv` is kept on top of the first: `last_err` refutes the last anchor walked and the ones passed over
since were not eligible (`TriedInv`), no anchor before the present one trusts the chain (`BarredInv`), and for a
call that asks for nothing but trust the name constraint state is empty and `explicit_policy` lasts until the
leaf (`FreeInv`), so that no other check can refuse what an anchor trusts.
`ConstraintsAreHonoured` (`NamesHonoured`) and `NameErrorsAreTrue` (`NameRejectionJustified`) compare the two lists that the walk
rewrites at every CA with all the sources above a name. `Accumulated` says what the lists stand for: the excluded subtrees are
those of all sources; an entry that is left of a type at most two sources permit is under both (`Narrowed`); and a name
that every source permits still matches, if subtrees nest (`NothingLost`). That one base is matched against another as if it were a name is
justified by `MatchesCompose` (what matches a base matches what the base matches, for all five types) and `SubtreesNest`.
The step from one source to two needs that the list of the first is not empty, which is why
a third is not covered: an empty intersection looks like a type nobody constrains. `NamesAssumption`
says that paths are lists of labels and that the constraints of an anchor are decoded, as `TrustAnchor` holds them.
`PoliciesExact` (`PoliciesAreExact`) compares a flat tree and three counters with policy paths and with questions about the whole
chain. `PInv` says what each stands for. `TreeIs`: the lowest level of the tree has exactly a node for every policy at which a path
from the anchor down to this certificate may end (`Ends`), with the policies its mappings let the next one assert, and the tree is
NULL when there are none; `GrownIs` is the same before the certificate's mappings have been applied. The levels above may hold
less than RFC 5280's tree, since pruning goes by policies and depths alone; `LevelsAre` says that they lose no node of a path and gain
none off a path as long as no CA asserts anyPolicy, which is what the intersection with the initial set looks at, so the
promise is made for such chains (`SetIsExact`). `CounterIs`: a counter is at most v if and only if some constraint above takes hold
within v more certificates; this form survives decrementing and clamping (`CounterGoesDown`), and at v = 0 it is the question of the
reference definition. The tree's steps are `TreeGrows`, `TreeMaps` and `TreeUnmaps`, the end is `FinalTreeIs`. `prune_policy_tree`, the
mappings of a certificate and the top-down cascade are recursions over levels; that each has a solution is proved by taking the least
level without one (`KeptExists`, `ReachedExists`). `MappingsAssumption` says that a PolicyMappings value is a list. TLC has checked
`PInv` on the calls of `validation_calls` before it was proved.

*RevocationCache_proofs*: `TypeCorrect`; `RollbackGuard`, from the fact that with an
`InMemoryCache` no thread is ever between test and insert; `Backing`, from `OriginInv`:
what is cached or in hand is a CRL of the CA, a damaged copy of one or a CRL nobody signed, and the checker
refuses the last two whatever else they say; `MonotonicReads`, from `MonoInv`: numbers and nextUpdates
grow together, under a URL that is not `tainted` the cache holds at least the highest number that decided a call unless it
has expired, and a thread that missed after that cannot be decided by an expired CRL. For a tainted URL nothing of
the kind is true (see "Seen while modelling"); a URL whose server sends unsigned CRLs that the guard
keeps out is not tainted. `NoUrlIsSkipped`
rests on `LoopInv` (every URL the loop left behind has a failure of its own in the list) and on the checker
never returning the loop's verdict; `HitsAreCurrent` on `HitInv` (bytes from the cache are judged in
the step that found them live).

*ChainVerifier_proofs*: `TypeCorrect`; `Soundness` (what is accepted is trusted and checked as
a whole); `Delegation` (an accepted responder speaks for the CA it was presented for);
`FetchedOnce`. `StageInv` carries the facts from the place where they are established to the
verdict: from `validate` on the chain starts at the caller's leaf, from `revocation` on it has
passed validation under the anchor noted, and every position before the loop's index has
been checked or exempted. That an exempted position is the leaf needs validation's refusal of
two certificates with one issuer and serial number (`BypassedIsLeaf`): the shim alone would
not be safe. `Completeness` (`NothingOverlooked`) needs `MissingInv`: URIs are fetched only when the pool holds no
chain that validates, so a round that brings nothing leaves it so; that the second, deeper search finding nothing
means that the first found nothing is `DeeperReachesMore`.

*ZlintBridge_proofs*: `Supervision` (`ChildrenAreSupervised`). The property is inductive together
with `Shape`, the domains of the functions. The argument is `NeverStuck`: a pipe without room is not empty,
so while a caller waits one of its two readers can take something and the child is never stuck; a caller
that does not wait has no running child, because every way out of the wait has seen the exit or reaped.
`Exactness` (`ResultsAreExact`) is proved from `EInv`, which follows a batch through its rounds: the
cache files each report under its own certificate, an index is either filled with what zlint says of
it or pending, the pending ones are in order, and what a reader has in hand is a prefix of what the
child of this very round writes.

*Revocation_proofs*, about `RevocationSources`: `CrlExact`, `OcspExact` and `SignerSelection`: answers compared with the CA's own
history. The state machine is short (`IInv`: a checker was built from documents issued so far, and an
answer is the checker's), and the argument is about the functions: `ErrorOf` and `Joined` say which entry of a list of
checks decides, and a `...Passed` lemma per list says what is known once it has passed; `EffectiveIs` and `FindIs`
say what `find_matching_entry` returns although it carries the certificate issuer of the last entry along;
`ListingIs` that a CA's listing holds just what it lists, in any order; `CrlAnswers` puts base and delta together:
a certificate in the delta is decided by its status then, and one that is in neither kept its status since the
base. `SourcesAssumption` is about the environment: a direct CRL is about certificates of its issuer, what a
caller takes for an issuer and a responder it has certified may speak for its name, and a key identifier belongs to
one key.
The same module, about `HttpFetchers`: `Grounds` and `CacheIsolation`. Threads share nothing but the cache, so `HInv` is
one predicate per thread (`ThreadGood`) and one for the cache (`CacheGood`: an entry is unparsable or a genuine answer
to a request for the key, about whatever certificate). A call under way has failed at every URL before its position; what is
about to be stored is genuine and came from the network. `FetchersAssumption`
types the constants (lifetimes and sizes are numbers, a certificate lists URLs) and says that a responder mixes up
certificates that exist.

*CertificateTransparency_proofs*: `VerdictsAreExact` (`SctVerdictsAreExact`), and `TreeProofsHold` (`TreeProofsAreExact`) with
its parts `HeadsAreExact` and `InclusionJudged`. A verdict compares a list read at some moment with the histories of the logs, so
`IInv` says that a history only moves forward (`Course`: every state follows from the one before, and their ranks
grow, so a log is usable during one interval at most and retires after it), that what is signed names a log and a time
(`Issued`), and that the list agrees with the histories at its moment (`ListOk`: no window holds a time at which its log was not
usable, and the window of a log the list is informed of holds all times at which it was). That the entry of a log in the JSON is found again in the
list is `OneForEach`, because a log is known by the hash of its key (`CtAssumption`). `AnswerOk` is then
preserved by whatever is verified: an accepted SCT has a signature over just the input that this certificate, issuer and channel
give (`Accepted`), and signatures are those of SCTs in `issued`. `TimesAreRight` needs an identity
on days (`YearDays`) for every year, month and day.

`InclusionJudged` is about `verify_inclusion` with any entry, index, size and path. The walk goes level by level from the leaves up while
`MTH` and `PATH` split a tree from the top, so the two are first brought to one shape: pairing up the leaves of a tree of any size gives a
tree over the pairs with the same root (`TreePairs`), and the audit path of a leaf is that of its pair behind the hash of its
sibling, if it has one (`PathPairs`; it is no longer than the bit length of the size less one, `PathLength`). A round of the loop goes
to such a level above (`OneRound`), an inner loop that skips levels to several at once. Three invariants of the walk follow: with the size of the
tree, a walk that ends at the root began at the leaf of its index (`WalkFromLeaf`); whatever the size, a walk that ends at a hash of the tree
began at one (`WalkInTree`), and a leaf hash is never that of an inner node; and along the audit path of a leaf it ends
at the root (`WalkToRoot`). That the recursive functions of the model have values at all is `DescentExists` and, for those over
trees, `TreesIs` and `PathsAre`: each is built up from the smallest argument, with sets of numbers in place of an induction rule.
Hashes are free of collisions in the model, and sizes are numbers without a width: the code only halves them.

*LintSession_proofs*: `NothingLaundered` (`NothingVanishes`), `WaiversExact` (`DeviationsAreExact`), `ProfilesExact`
(`ProfilesResolveExactly`) and `DocumentsExact` (`DocumentsAreExact`). The invariant `SessionInv` has five parts. `Composed`: the lints
are a runner, no two with the same id, and a resolved plan ends with the overrides of the outermost profile. `RunsAreExact`: the last run
has one result for each lint and item up to a fatal one, every result is a finding or waived, and a waived one names what was found
for it. `StoreInv`: entry by entry, the store waives what was written (`Stored`), although `add` changes the case of a
substring and a saved store comes back through JSON; and what was saved loads. The other two are the properties about profiles
and reports themselves, which speak of the last call only. `RunsAreExact` and `StoreInv` together give `DeviationsAreExact`, since the
deviations that match in the store are the ones meant in what was written (`MatchingIs`), and the best of them is unique (`BestIs`).
The rest is about loops. What the filters keep of a list is described by positions (`KeptIs`); a list of checks is a list of questions of which none
must be answered (`RiskLists`); a file of risks is read whole or not at all (`LoadIs`); bytes with leading zeros stripped compare as
the numbers they stand for, of any length (`ByteByByte`, `ZerosAhead`). Profiles are resolved level by level (`Nested`): what a level says of
a profile, by what the level below says of its imports, is `InnerTells`; since a stack holds no profile twice, the number of sources bounds
the levels, and a cycle is reported exactly if one of the profiles that are reached reaches itself (`ResolveExact`; `ReachedIs` says that the
closure stops growing by then). `civil_from_days` is compared with the calendar for every day (`DateIs`): an era has 146097 days, of which
each is in one century, one cycle of four years and one year of it (`EveryDayOfEra`), and for such a day the divisions come out
(`YearOfEra`). `SessionAssumption` says that a runner starts with distinct ids (`check_unique_ids` panics otherwise), types what JSON
values hold when they are of their own form, and asks of lower case that it is lower case.

What proving has changed in the models. With `require_crl_sign_on_cas` a CA needs cRLSign too to be trusted
(`MaySign`); a delta has to be of the scope of its base for the answer to be the CA's, which the code does not test
(`WellPaired`); two responder certificates may have one key, and one of them has to be valid; discovery by name promises
nothing about keys, so `DiscoveryFindsTheSigner` asks for a CRL with a key identifier; CAs list entries in any order.
A pool may hold a certificate twice, and nothing in the builder looks: chains through it are then found twice, the budget
pays for them twice, and the order of the key identifiers starts again below the second copy. `DistinctPool` states what
the claims about count and order need; that nothing is missed, and what the callers conclude, does not need it.
A log may sign two entries at the same moment: `GenuineSctsAreAccepted` asked only that the log signed this entry at this time, and so
demanded that the SCT of the other entry be accepted for this one. It now asks that the SCT presented is the one for this entry. The run has one signed SCT and
could not show it; the proof is for any number.
The tree operators of `CtVerifier` and `CertificateTransparency` were written with powers of two and are now written by halving
(`BitLength`, `Bubble`, `Split`), as the code shifts; the prover knows nothing of `^`. `MTH` and `PATH` are over any leaves (`Trees`,
`AuditPaths`), which the proof uses for the levels above the leaves.
`PoliciesAreExact` was corrected in four places. `PolicyVerdict` said that a call ends in PolicyViolation if and only if policies forbid the
chain; a chain with another fault may end in that other error, so the verdict is two implications, about PolicyViolation and
about Ok. A mapping from or to anyPolicy is a PolicyViolation too, and no call had one. A mapping of a policy to itself is lost when another
mapping of that policy follows (`IdentitiesLast` leaves such pairs out). And anyPolicy as a member of the initial set is not the
wildcard that RFC 5280 makes it: a chain of one certificate shows this, and there were no such chains. The calls
now have those mappings and chains of one certificate, without which the materialising of the initial set was never reached where
`SetIsExact` holds.
`OverridesAreAtomic` promised that a parameter has the value the outermost profile gives to the id of its lint followed by its name. If
another lint's id is longer and the name starts with it too, the override goes to that lint instead: the longest id wins. The property now says
that each override of the outermost profile has gone to the lint with the longest id, and that nothing else has changed; the run has a profile
for which the two differ. `Deviations` and `Oscal` no longer use RECURSIVE operators or `SelectSeq`: a profile is resolved by levels,
and a filter is a loop (`Kept`), of which the prover can say something.

Only model-checked: the liveness properties (`EveryCallEnds` and the like) and what needs ENABLED,
and the properties of `LeafUse` (`NamesMatchExactly`, `MailboxesAgree`, `ProfilesAreConsistent`), which compare
decisions on small data and are exhausted by the run.

## Findings

`validation_rewiden` ends in a counterexample: the documentation says that permitted subtrees only narrow,
and a type whose permitted subtrees had an empty intersection is re-opened by a third source.

### Seen while modelling

Places where the models follow the code and a comment, a document or RFC 5280 says otherwise. They are
stated here and not as runs; the properties above are about what lies beside them.

Path building and validation. `build_path` reports `NoPathFound` for a path two or more
certificates too long (`pkix-path-builder/src/lib.rs:767-770`); the iterator never yields
chains above a certificate whose issuer name is an anchor name (604, against 465-466). With an initial
policy set, a leaf policy outside of the set survives when a CA asserts anyPolicy, since the anyPolicy node
was pruned before the intersection (`pkix-path/src/lib.rs:1809`, against 942); equal mailbox domains, URI hosts or
address blocks count as disjoint (3744); mapping P to P and then P to Q loses P (3617, against RFC 5280 6.1.4(b)(1)); anyPolicy as a member of the initial set
matches nothing and collapses the tree (3946-3974; the documented wildcard is the empty set, 962-963); a self-issued top certificate
signed by the old key is skipped under an anchor with the same name when its issuer differs (1454-1461).

The verifier. A wrong intermediate of the right name is not displaced by one fetched over AIA: the
builder's `NoValidPath` is final, and a name in the pool counts as resolved (`pkix-chain/src/lib.rs:641`,
against 1692); `Error::Aia` may report an earlier failed URI after others have succeeded; after the last AIA
iteration `DepthExceeded` and `BudgetExceeded` of the builder turn into `AiaDepthExceeded` (727).

Revocation. With a discovered signer a direct CRL of another CA is accepted, as the test of the issuer is
skipped (`pkix-revocation/src/crl.rs:575`, against 552-554); a delta is not held to the indirectCRL flag of its base (451);
`with_delta` takes a delta older than the CRL it is applied to, and a CRL without a number with any delta (432-434).
Behind a trait object the rollback guard is not atomic (`pkix-revocation-http/src/cache.rs:565`, against 735-737); after a
refused rollback the verdict is that of the stale CRL (704), where the comment says that the call proceeds with the cached one (590-594); a CRL with a bad
signature is cached before it is verified and decides later calls (703). Its number and nextUpdate are believed (743-759):
with a number no lower than the cached one, or none, and a nextUpdate soon over it evicts the newest CRL, and the next miss may be decided by
the older CRL of a lagging mirror, which the guard is there to prevent; `DecisionsDoNotGoBack` leaves out the URLs to which this has happened.
An OCSP response about another serial number is stored before the checker refuses it (878-880, 911-924) and
every call for the certificate then fails with StatusUnknown until its nextUpdate; an older response replaces a newer one (915). Entries are keyed by URL, so two URLs of one
certificate may give decisions from different CRLs; `now_unix` is fixed when the fetcher is built and grows stale.

Certificate transparency and names. A retired or read-only log read from JSON has no window, so SCTs from before its
retirement are refused (`pkix-ct/src/log_list.rs:275-280`, against 54-58 and 240-247); `verify_inclusion` answers
`MerkleProofMalformed` also to a path that is too long for its leaf though not for the tree (`verify.rs:685`, against 447). The documentation has
SCT times in the closed interval from `usable_from_ms` to `retired_at_ms` (`verify.rs:191-192`, 284-285), the code in the half-open one (879-900). A single
colon at the end of an IPv6 address is accepted (`pkix-identity/src/lib.rs:934-948`), and a plus sign before a group (955) or before a number of
an IPv4 address (902), as the parsers of the standard library do, against the strictness the comment claims (913-916): `::+2` is taken for `::2`.
An ASCII mailbox is said to match `rfc822Name` only, the two forms being disjoint (667-670, and `pkix-identity/CHANGELOG.md:32-35`); the code looks for
it among the SmtpUTF8Mailbox entries too (692-705), and `MailboxesMatchExactly` is about what the code does.

Lint. `run_path` is said to let the first matching deviation win (`pkix-lint/src/deviation.rs:1337`) where priority
decides; the round trip promised in `oscal/mod.rs:20-23` fails for scopes of a kind of
their own and for issuers that do not decode. A zlint killed by
a signal in `run_on_cert` is reported as `Error::Cert(Other)` (`pkix-zlint-bridge/src/lib.rs:540`, against 519-525), and after
a timeout the readers are not joined (813, against "we never leak threads").

## Not modelled

DER, PEM, JSON and TLS encodings, DN normalisation, address arithmetic and cryptography are
data: a signature is the key that made it. A poisoned lock, which switches a cache off for a
call, is left out. In the verifier every defect
that more certificates do not cure is one flag, and the identity and key usage checks of a
purpose are one attribute of the leaf. Of the lint rules and profiles those are modelled that share a
rule with another crate; the rest are single predicates on one decoded field, without state.

In the zlint bridge a panic of `thread::spawn` (810), which leaves the child unreaped, and
descendants of zlint that keep its pipes open, for which the join (817-837) would wait without a deadline, are left out.
The SC-081 table of `pkix-profiles-cabf` is a second copy of the one in `LintValidityCap`, written alike; the cross-validation test that is said to
pin the two (`pkix-lint-cabf/src/cabf_tls_br.rs:102-103`) is not in `pkix-profiles-cabf/tests`.

- `pkix-path` serde_der: a pure conversion between bytes and serde formats.
- `pkix-chain-simple`: two length checks and allow lists per certificate before one call of
  `validate_path`, which is `PathValidation`; no state and no loop but the one over the chain.
- `pkix-truststore`: reading files up to a cap and decoding them, all or nothing.
- `pkix-aia-http`: one GET with a scheme test and a read cap; the cap is the one modelled in `HttpFetchers`.
- `pkix-difftest`: a developer tool that runs other validators and compares verdicts.
- Stub crates: declared interfaces without an implementation.
