----------------------------- MODULE PathBuilder -----------------------------
(***************************************************************************)
(* pkix-path-builder: the resumable depth-first search PathCandidates, and *)
(* the three entry points over it (the iterator itself, build_path and     *)
(* build_first_valid_path), from an unordered pool of certificates to      *)
(* leaf-first chains that end below a trust anchor.                        *)
(*                                                                         *)
(* A certificate is a record of the fields the search reads.  Names, keys  *)
(* and key identifiers are opaque.  Frame::ranked and Frame::cursor, a     *)
(* lazily sorted list of pool indices and a position in it, appear as the  *)
(* set `passed' of the pool indices below the cursor: the next candidate   *)
(* is the first one of the rest in the rank order.                         *)
(***************************************************************************)
EXTENDS Naturals, Sequences, FiniteSets, SequencesExt

CONSTANTS
  Name,       \* distinguished names, up to names_match
  Key,        \* subject public keys, up to algorithm OID and key bits
  NoKeyId,    \* an absent (or undecodable) AKI / SKI key identifier
  MaxDepths,  \* the PathBuilderConfig::max_depth values callers use
  Budgets,    \* the PathBuilderConfig::dfs_budget values callers use
  Targets,    \* the certificates a caller may ask a path for
  Pools,      \* the certificate pools a caller may supply (sequences)
  AnchorSets, \* the trust anchor lists a caller may supply (sets)
  ValidatePath(_, _)  \* does pkix_path::validate_path accept this chain under
                      \* these anchors?  Any verdict: the crate only asks.

CaState == {"ca", "not_ca", "malformed"}

Cert == [subject : Name, issuer : Name, key : Key, signer : Key,
         aki : Key \cup {NoKeyId}, ski : Key \cup {NoKeyId}, bc : CaState]

(* signer, the key that made the signature, is never read by the search. *)

Anchor == [subject : Name, key : Key]

ASSUME InputsAssumption ==
  /\ NoKeyId \notin Key
  /\ MaxDepths \subseteq Nat
  /\ Budgets \subseteq Nat
  /\ Targets \subseteq Cert
  /\ Pools \subseteq Seq(Cert)
  /\ AnchorSets \subseteq SUBSET Anchor

(* The three public entry points that drive the search. *)
Apis == {"candidates", "build_path", "first_valid"}

(* What PathCandidates::next can hand back, and the errors of the crate. *)
Errors == {"NoPathFound", "DepthExceeded", "BudgetExceeded", "NoValidPath"}

VARIABLES
  api,        \* the entry point this call went through
  target, pool, anchors, config,   \* its arguments
  path,       \* PathCandidates::path, leaf first
  frames,     \* PathCandidates::frames, one per certificate of path
  budget,     \* PathCandidates::budget
  max_depth,  \* PathCandidates::max_depth
  pc,         \* "search": inside next(); "yielded": next() returned Ok;
              \* "none": next() returned None; "returned": the call is over
  probing,    \* the running iterator is the max_depth + 1 probe
  tried,      \* build_first_valid_path: candidates that failed to validate
  result,     \* what the call returned; with "Ok" goes the chain in path
  yields      \* history: the chains the primary iterator has yielded

inputs == <<api, target, pool, anchors, config>>
search == <<path, frames, budget, max_depth>>
vars == <<inputs, search, pc, probing, tried, result, yields>>

-----------------------------------------------------------------------------
(* Candidate selection. *)

NewFrame == [passed |-> {}, anchor_checked |-> FALSE, anchor_yielded |-> FALSE]

(* BasicConstraints decides; a decode failure counts as "not a CA" here. *)
CertIsCa(c) == c.bc = "ca"

(* Tier 0 when the AKI names the candidate's SKI, tier 1 otherwise. *)
Tier(cur, candidate) ==
  IF cur.aki # NoKeyId /\ cur.aki = candidate.ski THEN 0 ELSE 1

Mut_PoolOrder(cur, i, j) == i < j

(* The sort by tier is stable: equal tiers stay in pool order. *)
RankedBefore(cur, i, j) ==
  LET ti == Tier(cur, pool[i])
      tj == Tier(cur, pool[j])
  IN  ti < tj \/ (ti = tj /\ i < j)

(* No filter: key identifiers alone rank the pool. *)
Mut_WholePool(cur) == DOMAIN pool

(* The entries rank_candidates keeps: those the issuer name matches. *)
Candidates(cur) == {i \in DOMAIN pool : pool[i].subject = cur.issuer}

(* The cycle guard compares keys, never names. *)
SpkiAlreadyInPath(candidate, chain) ==
  \E k \in DOMAIN chain : chain[k].key = candidate.key

AnchorMatches(cert) == \E a \in anchors : a.subject = cert.issuer

-----------------------------------------------------------------------------
Mut_StartWithLeftoverBudget(depth) ==
  /\ path' = <<target>>
  /\ frames' = <<NewFrame>>
  /\ UNCHANGED budget
  /\ max_depth' = depth
  /\ pc' = "search"

(* PathCandidates::new *)
StartSearch(depth) ==
  /\ path' = <<target>>
  /\ frames' = <<NewFrame>>
  /\ budget' = config.dfs_budget
  /\ max_depth' = depth
  /\ pc' = "search"

Init ==
  /\ api \in Apis
  /\ target \in Targets
  /\ pool \in Pools
  /\ anchors \in AnchorSets
  /\ config \in [max_depth : MaxDepths, dfs_budget : Budgets]
  /\ path = <<target>>
  /\ frames = <<NewFrame>>
  /\ budget = config.dfs_budget
  /\ max_depth = config.max_depth
  /\ pc = "search"
  /\ probing = FALSE
  /\ tried = 0
  /\ result = "pending"
  /\ yields = <<>>

Top == Len(frames)

Backtrack ==
  /\ frames' = Front(frames)
  /\ path' = Front(path)

(* The loop of PathCandidates::next, one action per way round it. *)

Exhausted ==
  /\ pc = "search"
  /\ frames = <<>>
  /\ pc' = "none"
  /\ UNCHANGED <<inputs, search, probing, tried, result, yields>>

(* Resuming after a yield: the frame that matched an anchor is dropped     *)
(* without trying its pool candidates.                                     *)
LeaveYieldedFrame ==
  /\ pc = "search"
  /\ frames # <<>>
  /\ frames[Top].anchor_yielded
  /\ Backtrack
  /\ UNCHANGED <<inputs, budget, max_depth, pc, probing, tried, result, yields>>

EnteringFrame ==
  /\ pc = "search"
  /\ frames # <<>>
  /\ ~frames[Top].anchor_yielded
  /\ ~frames[Top].anchor_checked

HasBudget == budget > 0

(* The error is terminal for the iterator and every caller passes it on. *)
OutOfBudget ==
  /\ EnteringFrame
  /\ ~HasBudget
  /\ pc' = "returned"
  /\ result' = "BudgetExceeded"
  /\ UNCHANGED <<inputs, search, probing, tried, yields>>

AnchorCheck ==
  /\ EnteringFrame
  /\ HasBudget
  /\ budget' = budget - 1
  /\ IF AnchorMatches(Last(path))
     THEN /\ frames' = [frames EXCEPT ![Top].anchor_checked = TRUE,
                                      ![Top].anchor_yielded = TRUE]
          /\ pc' = "yielded"
          /\ yields' = IF probing THEN yields ELSE Append(yields, path)
     ELSE /\ frames' = [frames EXCEPT ![Top].anchor_checked = TRUE]
          /\ UNCHANGED <<pc, yields>>
  /\ UNCHANGED <<inputs, path, max_depth, probing, tried, result>>

InsideFrame ==
  /\ pc = "search"
  /\ frames # <<>>
  /\ frames[Top].anchor_checked
  /\ ~frames[Top].anchor_yielded

Untried == Candidates(Last(path)) \ frames[Top].passed

NextCandidate(i) ==
  /\ i \in Untried
  /\ \A j \in Untried \ {i} : RankedBefore(Last(path), i, j)

Mut_DepthGateOffByOne == Top >= max_depth

(* A frame exists at every depth up to max_depth + 1; the deepest one only *)
(* makes its anchor check.                                                 *)
DepthGate == Top > max_depth

(* The depth gate and the end of the candidate list both backtrack. *)
LeaveFrame ==
  /\ InsideFrame
  /\ \/ DepthGate
     \/ Untried = {}
  /\ Backtrack
  /\ UNCHANGED <<inputs, budget, max_depth, pc, probing, tried, result, yields>>

Mut_CursorStays(i) == frames

(* The cursor moves before the candidate is looked at. *)
CursorPast(i) == [frames EXCEPT ![Top].passed = @ \cup {i}]

TryCandidate ==
  /\ InsideFrame
  /\ ~DepthGate
  /\ \E i \in DOMAIN pool :
       /\ NextCandidate(i)
       /\ IF CertIsCa(pool[i]) /\ ~SpkiAlreadyInPath(pool[i], path)
          THEN /\ path' = Append(path, pool[i])
               /\ frames' = Append(CursorPast(i), NewFrame)
          ELSE /\ frames' = CursorPast(i)
               /\ UNCHANGED path
  /\ UNCHANGED <<inputs, budget, max_depth, pc, probing, tried, result, yields>>

-----------------------------------------------------------------------------
(* The callers. *)

Return(r) ==
  /\ pc' = "returned"
  /\ result' = r
  /\ UNCHANGED <<inputs, search, probing, yields>>

(* A caller of the bare iterator asks for the next chain, or stops. *)
ResumeCandidates ==
  /\ api = "candidates"
  /\ pc = "yielded"
  /\ pc' = "search"
  /\ UNCHANGED <<inputs, search, probing, tried, result, yields>>

StopCandidates ==
  /\ api = "candidates"
  /\ \/ pc = "yielded" /\ Return("Ok")
     \/ pc = "none" /\ Return("None")
  /\ UNCHANGED tried

(* build_path_with_config: the first yield is the answer. *)
BuildPathYield ==
  /\ api = "build_path"
  /\ pc = "yielded"
  /\ ~probing
  /\ Return("Ok")
  /\ UNCHANGED tried

Mut_FirstValidUncounted ==
  /\ api = "first_valid"
  /\ pc = "yielded"
  /\ ~probing
  /\ IF ValidatePath(path, anchors)
     THEN Return("Ok")
     ELSE /\ pc' = "search"
          /\ UNCHANGED <<inputs, search, probing, result, yields>>
  /\ UNCHANGED tried

(* build_first_valid_path_with_config: validate, or resume the search. *)
FirstValidYield ==
  /\ api = "first_valid"
  /\ pc = "yielded"
  /\ ~probing
  /\ IF ValidatePath(path, anchors)
     THEN Return("Ok") /\ UNCHANGED tried
     ELSE /\ tried' = tried + 1
          /\ pc' = "search"
          /\ UNCHANGED <<inputs, search, probing, result, yields>>

FirstValidRejectedAll ==
  /\ api = "first_valid"
  /\ pc = "none"
  /\ ~probing
  /\ tried > 0
  /\ Return("NoValidPath")
  /\ UNCHANGED tried

ProbeDepth == config.max_depth + 1

(* No candidate at all: probe one level deeper, with a fresh budget. *)
StartProbe ==
  /\ api \in {"build_path", "first_valid"}
  /\ pc = "none"
  /\ ~probing
  /\ tried = 0
  /\ StartSearch(ProbeDepth)
  /\ probing' = TRUE
  /\ UNCHANGED <<inputs, tried, result, yields>>

FinishProbe ==
  /\ probing
  /\ \/ pc = "yielded" /\ Return("DepthExceeded")
     \/ pc = "none" /\ Return("NoPathFound")
  /\ UNCHANGED tried

SearchStep ==
  \/ Exhausted
  \/ LeaveYieldedFrame
  \/ OutOfBudget
  \/ AnchorCheck
  \/ LeaveFrame
  \/ TryCandidate

CallerStep ==
  \/ ResumeCandidates
  \/ StopCandidates
  \/ BuildPathYield
  \/ FirstValidYield
  \/ FirstValidRejectedAll
  \/ StartProbe
  \/ FinishProbe

(* The call has returned: nothing more happens. *)
Done == pc = "returned" /\ UNCHANGED vars

Next == SearchStep \/ CallerStep \/ Done

Spec == Init /\ [][Next]_vars

(* The search runs on the caller's thread and never blocks. *)
FairSpec == Spec /\ WF_vars(SearchStep \/ CallerStep)

-----------------------------------------------------------------------------
(* Reference definitions: what the search is for, said without a search.   *)

Pooled == {pool[k] : k \in DOMAIN pool}

(* A leaf-first chain from the target over CA certificates of the pool,    *)
(* linked by name, no public key twice.                                    *)
Topological(chain) ==
  /\ chain # <<>>
  /\ chain[1] = target
  /\ \A k \in 2 .. Len(chain) :
       /\ chain[k] \in Pooled
       /\ CertIsCa(chain[k])
       /\ chain[k].subject = chain[k - 1].issuer
       /\ \A j \in 1 .. k - 1 : chain[j].key # chain[k].key

(* All of them with at most depth certificates above the target. *)
TopologicalChains(depth) ==
  {c \in {<<target>> \o above : above \in UNION {[1 .. n -> Pooled] : n \in 0 .. depth}} :
     Topological(c)}

(* The search never continues above a certificate whose issuer an anchor names. *)
Explorable(depth) ==
  {c \in TopologicalChains(depth) :
     \A k \in 1 .. Len(c) - 1 : ~AnchorMatches(c[k])}

Anchored(chains) == {c \in chains : AnchorMatches(Last(c))}

Reachable(depth) == Anchored(Explorable(depth))

-----------------------------------------------------------------------------
(* Properties. *)

TypeOK ==
  /\ api \in Apis
  /\ target \in Targets
  /\ pool \in Pools
  /\ anchors \in AnchorSets
  /\ config \in [max_depth : MaxDepths, dfs_budget : Budgets]
  /\ path \in Seq(Cert)
  /\ frames \in Seq([passed : SUBSET Nat, anchor_checked : BOOLEAN,
                     anchor_yielded : BOOLEAN])
  /\ budget \in Nat
  /\ max_depth \in Nat
  /\ pc \in {"search", "yielded", "none", "returned"}
  /\ probing \in BOOLEAN
  /\ tried \in Nat
  /\ yields \in Seq(Seq(Cert))
  /\ result \in {"pending", "Ok", "None"} \cup Errors

(* A chain handed to a caller is one validate_path can be run on: it       *)
(* starts at the target, every link matches by name, every certificate     *)
(* above the target is a CA of the pool, no key repeats, an anchor names   *)
(* the issuer of the top one, and it has at most max_depth intermediates.  *)
GoodChain(chain) ==
  /\ Topological(chain)
  /\ AnchorMatches(Last(chain))
  /\ Len(chain) <= config.max_depth + 1

(* PathCandidates::next yields only good chains, however often the search  *)
(* was suspended and resumed, and that is what every entry point returns.  *)
YieldsAreGoodChains ==
  /\ \A k \in DOMAIN yields : GoodChain(yields[k])
  /\ result = "Ok" => GoodChain(path)

(* The pool holds no certificate twice.  The crate does not look: with a    *)
(* certificate twice in the pool every chain through it is found twice.     *)
DistinctPool == IsInjective(pool)

(* The search, seen as an enumeration of chains. *)
Enumeration ==
  INSTANCE ChainEnumeration WITH
    distinct <- DistinctPool,
    all     <- Reachable(config.max_depth),
    deeper  <- Reachable(config.max_depth + 1),
    given   <- Range(yields),
    current <- IF result = "Ok" \/ (pc = "yielded" /\ ~probing) THEN path ELSE <<>>,
    phase   <- IF pc = "returned" THEN "over"
               ELSE IF pc = "yielded" /\ ~probing THEN "handed" ELSE "searching",
    outcome <- result

(* The resumable search is an enumeration (ChainEnumeration): however the  *)
(* calls of next() interrupt it, each step hands out a chain, none twice    *)
(* from a pool without repetitions, or is invisible; None and NoValidPath   *)
(* mean that every chain has been handed out, and the probe tells "too      *)
(* deep" from "nothing there".                                              *)
EnumeratesTheChains == Enumeration!Spec

(* dfs_budget counts frames entered, across all calls of next(): a finished *)
(* search has spent one unit per explorable chain, and BudgetExceeded is    *)
(* only reported when there are more of them than the budget (the probe     *)
(* starts with a full one), if the pool holds no certificate twice.         *)
BudgetCountsFrames ==
  DistinctPool =>
  /\ pc = "none" =>
       config.dfs_budget - budget = Cardinality(Explorable(max_depth))
  /\ result = "BudgetExceeded" =>
       Cardinality(Explorable(max_depth)) > config.dfs_budget

(* Of two yielded chains that part ways at some certificate, the earlier    *)
(* one follows the AKI/SKI match: rank_candidates is a stable tier order.   *)
(* Only if the pool holds no certificate twice: its second copy is a        *)
(* candidate of its own, below which the search starts again.               *)
YieldsFollowTiers ==
  DistinctPool =>
  \A m, n \in DOMAIN yields :
    m < n => \A k \in 2 .. Len(yields[m]) :
      (k <= Len(yields[n]) /\ SubSeq(yields[m], 1, k - 1) = SubSeq(yields[n], 1, k - 1))
        => Tier(yields[m][k - 1], yields[m][k]) <= Tier(yields[n][k - 1], yields[n][k])

(* build_first_valid_path returns the first candidate that validates, and   *)
(* says NoValidPath exactly when there were candidates and none did.        *)
FirstValidVerdict ==
  api = "first_valid" /\ pc = "returned" =>
    /\ result = "Ok" =>
         /\ ValidatePath(path, anchors)
         /\ \A k \in 1 .. Len(yields) - 1 : ~ValidatePath(yields[k], anchors)
    /\ result = "NoValidPath" =>
         /\ Reachable(config.max_depth) # {}
         /\ \A c \in Reachable(config.max_depth) : ~ValidatePath(c, anchors)
    /\ result \in {"NoPathFound", "DepthExceeded"} =>
         Reachable(config.max_depth) = {}

(* Every call returns: dfs_budget bounds the frames and the cursor of each  *)
(* frame only moves forward.                                                *)
EveryCallReturns == <>(pc = "returned")

=============================================================================
