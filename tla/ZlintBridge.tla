------------------------------ MODULE ZlintBridge ------------------------------
(***************************************************************************)
(* pkix-zlint-bridge and pkix-policy-zlint: threads share a bridge, which  *)
(* runs the zlint binary as a child process for them and remembers its     *)
(* verdicts by certificate.                                                *)
(*                                                                         *)
(* zlint itself is external: it writes one line per file, stops at the     *)
(* first file it cannot parse, may be chatty, slow or killed.  A line is   *)
(* what zlint reports, check by check; SHA-256 keys are the certificates.  *)
(* Time is a child being slow: a slow one may reach the deadline at any    *)
(* moment, another one only if it can never go on.                         *)
(***************************************************************************)
EXTENDS Naturals, Sequences, FiniteSets

CONSTANTS
  Threads,   \* the callers that share one bridge
  Certs,     \* certificates, as DER bytes
  Garbage,   \* those of them that zlint cannot parse
  Report,    \* what zlint prints for a certificate: Checks -> strings
  Catalog,   \* what zlint -list-lints-json prints: <<[id, prefix]>>
  Calls,     \* per thread, the calls it may make: [api, certs]
  Noise,     \* how many lines zlint writes to stderr before it starts
  PipeCap,   \* lines that fit into a pipe
  MaxCalls,  \* calls of a thread
  None       \* nothing there

ASSUME BridgeAssumption ==
  /\ Garbage \subseteq Certs
  /\ PipeCap \in Nat \ {0} /\ MaxCalls \in Nat /\ Noise \subseteq Nat
  /\ None \notin {"running", "exited", "cert"}
  /\ \A c \in UNION {Calls[t] : t \in Threads} :
       /\ c.api \in {"cert", "certs", "list"} /\ c.certs \in Seq(Certs)
       /\ c.api = "cert" => Len(c.certs) = 1
       /\ c.api = "list" => c.certs = <<>>

VARIABLES
  cache,   \* ZlintBridge::cache, None where there is no entry
  call,    \* per thread: the call it is in
  pc,      \* per thread: where it is, "idle" between calls
  child,   \* per thread: the process it waits for
  read,    \* per thread: what its two reader threads have collected
  scratch, \* per thread: its TempDir exists
  calls    \* per thread: how many calls it has made

vars == <<cache, call, pc, child, read, scratch, calls>>

NoChild == [state |-> None, files |-> FALSE, todo |-> <<>>, noise |-> 0, slow |-> FALSE, killed |-> FALSE,
            status |-> None, out |-> <<>>, err |-> <<>>]
NoCall == [api |-> None, certs |-> <<>>, at |-> 1, results |-> <<>>, pending |-> <<>>,
           spawned |-> 0, answer |-> None]
NothingRead == [out |-> <<>>, err |-> <<>>]

Init ==
  /\ cache = [c \in Certs |-> None]
  /\ call = [t \in Threads |-> NoCall]
  /\ pc = [t \in Threads |-> "idle"]
  /\ child = [t \in Threads |-> NoChild]
  /\ read = [t \in Threads |-> NothingRead]
  /\ scratch = [t \in Threads |-> FALSE]
  /\ calls = [t \in Threads |-> 0]

-----------------------------------------------------------------------------
(* Reading what zlint printed. *)

Strings == [NA |-> "NotApplicable", NE |-> "NotApplicable", pass |-> "Pass", notice |-> "Notice",
            warn |-> "Warn", error |-> "Error", fatal |-> "Fatal"]

Parses(line) == line # None /\ \A check \in DOMAIN line : line[check] \in DOMAIN Strings

VerdictMap(line) == [check \in DOMAIN line |-> Strings[line[check]]]

Severities == [e |-> "Error", w |-> "Warn", n |-> "Notice"]

Catalogued(lines) ==
  /\ lines # <<>>
  /\ \A i \in DOMAIN lines : lines[i] # None /\ lines[i].prefix \in DOMAIN Severities /\ lines[i].id # ""

LooksMalformed(err) == \E i \in DOMAIN err : err[i] = "malformed"

ClassifyExit(status) == IF status = "signal" THEN "SubprocessKilled" ELSE "SubprocessFailed"

ClassifyCertError(err) == IF LooksMalformed(err) THEN "MalformedDer" ELSE "Other"

-----------------------------------------------------------------------------
(* Calls. *)

Goto(t, where) == pc' = [pc EXCEPT ![t] = where]

(* Returning drops the scratch directory and, of the call, all but what is *)
(* answered; a child is never kept.                                        *)
Finish(t, results, answer) ==
  /\ call' = [call EXCEPT ![t] = [NoCall EXCEPT !.api = call[t].api, !.certs = call[t].certs,
                                   !.results = results, !.answer = answer]]
  /\ Goto(t, "idle")
  /\ scratch' = [scratch EXCEPT ![t] = FALSE]
  /\ child' = [child EXCEPT ![t] = IF @.state = "running" THEN @ ELSE NoChild]
  /\ read' = [read EXCEPT ![t] = NothingRead]
  /\ UNCHANGED calls

Return(t, answer) == Finish(t, [i \in DOMAIN call[t].certs |-> None], answer)

Begin(t, c) ==
  /\ pc[t] = "idle"
  /\ child[t] = NoChild
  /\ calls[t] < MaxCalls
  /\ calls' = [calls EXCEPT ![t] = @ + 1]
  /\ call' = [call EXCEPT ![t] = [NoCall EXCEPT !.api = c.api, !.certs = c.certs,
                                    !.results = [i \in DOMAIN c.certs |-> None],
                                    !.answer = IF c.api = "certs" /\ c.certs = <<>> THEN "Ok" ELSE None]]
  /\ CASE c.api = "list" -> Goto(t, "spawn")
       [] c.api = "certs" /\ c.certs = <<>> -> UNCHANGED pc
       [] OTHER -> Goto(t, "lookup")
  /\ UNCHANGED <<cache, child, read, scratch>>

CertAt(t, i) == call[t].certs[i]

Ok(verdicts) == [kind |-> "Ok", verdicts |-> verdicts]
Err(kind) == [kind |-> kind, verdicts |-> None]

(* cache_get for one certificate; each takes the lock for itself. *)
LookedUp(t) ==
  LET i == call[t].at
      hit == cache[CertAt(t, i)]
  IN  IF hit # None
      THEN [call[t] EXCEPT !.results[i] = Ok(hit), !.at = i + 1]
      ELSE [call[t] EXCEPT !.pending = Append(@, i), !.at = i + 1]

Lookup(t) ==
  /\ pc[t] = "lookup"
  /\ LET after == LookedUp(t)
     IN  IF after.at <= Len(after.certs)
         THEN /\ call' = [call EXCEPT ![t] = after]
              /\ UNCHANGED <<pc, child, read, scratch, calls>>
         ELSE IF after.pending = <<>>
         THEN Finish(t, after.results, "Ok")
         ELSE /\ call' = [call EXCEPT ![t] = after]
              /\ Goto(t, "spawn")
              /\ UNCHANGED <<child, read, scratch, calls>>
  /\ UNCHANGED cache

(* The scratch directory, the files in it and the child. *)
SpawnFails(t) ==
  /\ pc[t] = "spawn"
  /\ \E e \in {"BinaryNotFound", "BinaryNotExecutable", "SubprocessFailed"} : Return(t, e)
  /\ UNCHANGED cache

(* What the child works through: the files in the scratch directory, named *)
(* by what is in them, or its catalog.                                     *)
Input(t) ==
  IF call[t].api = "list" THEN Catalog
  ELSE [k \in DOMAIN call[t].pending |-> CertAt(t, call[t].pending[k])]

(* The number of children is counted up to one more than the inputs. *)
Spawn(t) ==
  /\ pc[t] = "spawn"
  /\ \E slow \in BOOLEAN, noise \in Noise :
       /\ child' = [child EXCEPT ![t] =
                      [NoChild EXCEPT !.state = "running", !.noise = noise, !.slow = slow,
                         !.files = call[t].api # "list", !.todo = Input(t)]]
       /\ call' = [call EXCEPT ![t].spawned = IF @ > Len(call[t].certs) THEN @ ELSE @ + 1]
  /\ read' = [read EXCEPT ![t] = NothingRead]
  /\ scratch' = [scratch EXCEPT ![t] = call[t].api # "list"]
  /\ Goto(t, "wait")
  /\ UNCHANGED <<cache, calls>>

-----------------------------------------------------------------------------
(* The child, as the bridge expects zlint to behave. *)

HasRoom(pipe) == Len(pipe) < PipeCap

Exit(c, status) == [c EXCEPT !.state = "exited", !.status = status]

Chat(t) ==
  /\ child[t].noise > 0 /\ HasRoom(child[t].err)
  /\ child' = [child EXCEPT ![t].noise = @ - 1, ![t].err = Append(@, "chat")]

Printed(item) == IF item \in Certs THEN Report[item] ELSE item

PrintLine(t) ==
  /\ child[t].noise = 0 /\ HasRoom(child[t].out)
  /\ child[t].todo # <<>> /\ Head(child[t].todo) \notin Garbage
  /\ child' = [child EXCEPT ![t].out = Append(@, Printed(Head(child[t].todo))), ![t].todo = Tail(@)]

RejectFile(t) ==
  /\ child[t].noise = 0 /\ HasRoom(child[t].err)
  /\ child[t].todo # <<>> /\ Head(child[t].todo) \in Garbage
  /\ child' = [child EXCEPT ![t] = Exit([child[t] EXCEPT !.err = Append(child[t].err, "malformed")], "failure")]

Complete(t) ==
  /\ child[t].noise = 0 /\ child[t].todo = <<>>
  /\ child' = [child EXCEPT ![t] = Exit(@, "success")]

ChildStep(t) ==
  /\ child[t].state = "running"
  /\ Chat(t) \/ PrintLine(t) \/ RejectFile(t) \/ Complete(t)
  /\ UNCHANGED <<cache, call, pc, read, scratch, calls>>

(* A fast child goes on whenever it can; a slow one need not. *)
FastChildStep(t) == ~child[t].slow /\ ChildStep(t)

(* It dies of a signal or fails for a reason of its own, perhaps in the    *)
(* middle of a line.                                                       *)
Crash(t) ==
  /\ child[t].state = "running"
  /\ \E status \in {"signal", "failure"}, torn \in BOOLEAN :
       /\ torn => HasRoom(child[t].out)
       /\ child' = [child EXCEPT ![t] =
                      Exit([child[t] EXCEPT !.out = IF torn THEN Append(child[t].out, None) ELSE child[t].out],
                           status)]
  /\ UNCHANGED <<cache, call, pc, read, scratch, calls>>

Dies(t) ==
  /\ child[t].state = "running" /\ child[t].killed
  /\ child' = [child EXCEPT ![t] = Exit(@, "signal")]
  /\ UNCHANGED <<cache, call, pc, read, scratch, calls>>

-----------------------------------------------------------------------------
(* run_subprocess: two reader threads, and the caller polling. *)

Mut_ReadAfterExit(t) == pc[t] = "join"

(* drain_pipe runs from before the caller waits until it joins. *)
Reading(t) == pc[t] \in {"wait", "kill", "join"}

Drain(t) ==
  /\ Reading(t)
  /\ \E pipe \in {"out", "err"} :
       /\ child[t][pipe] # <<>>
       /\ read' = [read EXCEPT ![t][pipe] = Append(@, Head(child[t][pipe]))]
       /\ child' = [child EXCEPT ![t][pipe] = Tail(@)]
  /\ UNCHANGED <<cache, call, pc, scratch, calls>>

CanGoOn(t) ==
  LET c == child[t]
  IN  IF c.noise > 0 THEN HasRoom(c.err)
      ELSE c.todo = <<>> \/ HasRoom(IF Head(c.todo) \in Garbage THEN c.err ELSE c.out)

Stuck(t) ==
  /\ child[t].state = "running"
  /\ ~CanGoOn(t)
  /\ ~(Reading(t) /\ (child[t].out # <<>> \/ child[t].err # <<>>))

(* try_wait sees the end. *)
PollExited(t) ==
  /\ pc[t] = "wait" /\ child[t].state = "exited"
  /\ Goto(t, "join")
  /\ UNCHANGED <<cache, call, child, read, scratch, calls>>

(* Somebody else in the process reaped the child. *)
PollFails(t) ==
  /\ pc[t] = "wait" /\ child[t].state = "exited"
  /\ Return(t, "SubprocessFailed")
  /\ UNCHANGED cache

(* As if every poll set the deadline anew. *)
Mut_DeadlineMoves(t) == FALSE

(* The deadline passes between two polls, whatever the child does then.    *)
Deadline(t) ==
  /\ pc[t] = "wait"
  /\ child[t].slow \/ Stuck(t)
  /\ child' = [child EXCEPT ![t].killed = TRUE]
  /\ Goto(t, "kill")
  /\ UNCHANGED <<cache, call, read, scratch, calls>>

(* kill, then wait: only then the error. *)
Reap(t) ==
  /\ pc[t] = "kill" /\ child[t].state = "exited"
  /\ Return(t, "SubprocessTimeout")
  /\ UNCHANGED cache

(* Both readers have seen the end of their pipes. *)
Join(t) ==
  /\ pc[t] = "join"
  /\ child[t].out = <<>> /\ child[t].err = <<>>
  /\ Goto(t, "apply")
  /\ UNCHANGED <<cache, call, child, read, scratch, calls>>

(* A reader failed. *)
JoinFails(t) ==
  /\ pc[t] = "join"
  /\ Return(t, "SubprocessFailed")
  /\ UNCHANGED cache

-----------------------------------------------------------------------------
(* What the callers make of the output. *)

Mut_SlotsByLine(pending, lines) == [k \in 1 .. Len(lines) |-> k]

(* Line k is about the k-th of the pending inputs. *)
Slots(pending, lines) == [k \in 1 .. Len(lines) |-> pending[k]]

(* Parsed lines go to the cache and to the results.  The cache is locked   *)
(* line by line; two threads only ever store the same map for a key.       *)
Stored(t, lines, slots) ==
  [c \in Certs |-> IF \E k \in DOMAIN lines : CertAt(t, slots[k]) = c
                   THEN VerdictMap(lines[CHOOSE k \in DOMAIN lines :
                          CertAt(t, slots[k]) = c /\ \A j \in DOMAIN lines : CertAt(t, slots[j]) = c => j <= k])
                   ELSE cache[c]]

Filled(results, lines, slots) ==
  [i \in DOMAIN results |-> IF \E k \in DOMAIN lines : slots[k] = i
                            THEN Ok(VerdictMap(lines[CHOOSE k \in DOMAIN lines : slots[k] = i]))
                            ELSE results[i]]

(* The successful prefix and the input that failed are done with. *)
Rest(pending, done) == SubSeq(pending, done + 2, Len(pending))

(* run_pending_batch, from the output on; the loop ends when nothing is    *)
(* pending any more.                                                       *)
ApplyBatch(t) ==
  LET lines == read[t].out
      pending == call[t].pending
      done == Len(lines)
      slots == Slots(pending, lines)
      results == Filled(call[t].results, lines, slots)
  IN  IF \E k \in DOMAIN lines : ~Parses(lines[k])
      THEN Return(t, "OutputParseError") /\ UNCHANGED cache
      ELSE IF child[t].status = "success" /\ done # Len(pending)
      THEN Return(t, "OutputParseError") /\ UNCHANGED cache
      ELSE IF child[t].status = "success"
      THEN /\ cache' = Stored(t, lines, slots)
           /\ Finish(t, results, "Ok")
      ELSE IF ~LooksMalformed(read[t].err)
      THEN Return(t, ClassifyExit(child[t].status)) /\ UNCHANGED cache
      ELSE IF done > Len(pending)
      THEN Return(t, "OutputParseError") /\ UNCHANGED cache
      ELSE /\ cache' = Stored(t, lines, slots)
           /\ IF done = Len(pending)
              THEN Return(t, "OutputParseError")
              ELSE LET rest == Rest(pending, done)
                       next == [call[t] EXCEPT !.pending = rest,
                                  !.results = [results EXCEPT ![pending[done + 1]] = Err("MalformedDer")]]
                   IN  IF rest = <<>>
                       THEN Finish(t, next.results, "Ok")
                       ELSE /\ call' = [call EXCEPT ![t] = next]
                            /\ Goto(t, "spawn")
                            /\ scratch' = [scratch EXCEPT ![t] = FALSE]
                            /\ child' = [child EXCEPT ![t] = NoChild]
                            /\ UNCHANGED <<read, calls>>

(* run_on_cert takes all of stdout as one value. *)
ApplyCert(t) ==
  LET lines == read[t].out
  IN  IF child[t].status # "success"
      THEN Return(t, ClassifyCertError(read[t].err)) /\ UNCHANGED cache
      ELSE IF Len(lines) # 1 \/ ~Parses(lines[1])
      THEN Return(t, "OutputParseError") /\ UNCHANGED cache
      ELSE /\ cache' = [cache EXCEPT ![CertAt(t, 1)] = VerdictMap(lines[1])]
           /\ Finish(t, <<Ok(VerdictMap(lines[1]))>>, "Ok")

(* enumerate_lints *)
ApplyList(t) ==
  /\ Return(t, IF child[t].status # "success" THEN ClassifyExit(child[t].status)
               ELSE IF Catalogued(read[t].out) THEN "Ok" ELSE "OutputParseError")
  /\ UNCHANGED cache

Apply(t) ==
  /\ pc[t] = "apply"
  /\ \/ call[t].api = "certs" /\ ApplyBatch(t)
     \/ call[t].api = "cert" /\ ApplyCert(t)
     \/ call[t].api = "list" /\ ApplyList(t)

CallerStep(t) ==
  \/ Lookup(t) \/ SpawnFails(t) \/ Spawn(t)
  \/ PollExited(t) \/ PollFails(t) \/ Deadline(t) \/ Reap(t)
  \/ Join(t) \/ JoinFails(t) \/ Apply(t)

Next ==
  \E t \in Threads :
    \/ \E c \in Calls[t] : Begin(t, c)
    \/ CallerStep(t)
    \/ ChildStep(t) \/ Crash(t) \/ Dies(t)
    \/ Drain(t)

(* The scheduler runs a caller, its readers and a child that is not slow,  *)
(* in whatever order, and a kill arrives.                                  *)
Progress(t) == CallerStep(t) \/ Drain(t) \/ FastChildStep(t) \/ Dies(t)

Spec == Init /\ [][Next]_vars /\ \A t \in Threads : WF_vars(Progress(t))

(* pkix-policy-zlint: one lint of the catalog on one certificate. *)
LintResult(answer, result, check) ==
  IF answer # "Ok" THEN "error"
  ELSE IF check \notin DOMAIN result.verdicts THEN "NotApplicable"
  ELSE [NotApplicable |-> "NotApplicable", Pass |-> "Pass", Notice |-> "warn", Warn |-> "warn",
        Error |-> "error", Fatal |-> "fatal"][result.verdicts[check]]

-----------------------------------------------------------------------------
(* Properties *)

Answered(t) == pc[t] = "idle" /\ call[t].answer # None

Right(c, result) ==
  \/ result = Err("MalformedDer") /\ c \in Garbage
  \/ result = Ok(VerdictMap(Report[c])) /\ c \notin Garbage

(* However other threads fill the cache meanwhile, and however often zlint *)
(* has to be run again because it stopped at a file it could not parse,    *)
(* run_on_certs answers Ok with every index filled, each with what zlint   *)
(* says of the certificate at that index and MalformedDer exactly for the  *)
(* unparsable ones (the "every index filled" of run_on_certs), from at     *)
(* most one child per unparsable input and one more; what is in the cache  *)
(* is zlint's report of the certificate it is filed under; and a check of  *)
(* pkix-policy-zlint passes only where zlint said "pass".                  *)
ResultsAreExact ==
  /\ \A c \in Certs : cache[c] # None => Right(c, Ok(cache[c]))
  /\ \A t \in Threads :
       /\ Answered(t) /\ call[t].answer = "Ok" =>
            \A i \in DOMAIN call[t].certs : Right(CertAt(t, i), call[t].results[i])
       /\ Answered(t) /\ call[t].api = "cert" =>
            /\ call[t].answer = "MalformedDer" => CertAt(t, 1) \in Garbage
            /\ \A check \in DOMAIN Report[CertAt(t, 1)] :
                 LintResult(call[t].answer, call[t].results[1], check) = "Pass"
                   => Report[CertAt(t, 1)][check] = "pass"
       /\ call[t].spawned <= 1 + Cardinality({i \in DOMAIN call[t].certs : CertAt(t, i) \in Garbage})

(* A child reads its files as long as it runs, so it never outlives the    *)
(* scratch directory of its call, and it never waits for a pipe that       *)
(* nobody empties: only a zlint that is slow itself is ever killed for     *)
(* SubprocessTimeout (run_subprocess and its two readers, wait_for_child   *)
(* reaping what it killed).                                                *)
ChildrenAreSupervised ==
  \A t \in Threads :
    /\ child[t].state = "running" => pc[t] \in {"wait", "kill"} /\ (child[t].files => scratch[t])
    /\ pc[t] = "kill" => child[t].slow

(* Every call returns: a child that hangs is killed at its deadline, and   *)
(* the loop of run_on_certs makes progress past every unparsable input.    *)
BridgeCallsEnd == \A t \in Threads : pc[t] # "idle" ~> pc[t] = "idle"
=============================================================================
