-------------------------- MODULE ZlintBridge_proofs --------------------------
(***************************************************************************)
(* ChildrenAreSupervised and ResultsAreExact for any number of threads,    *)
(* calls and certificates and pipes of any size.                           *)
(***************************************************************************)
EXTENDS ZlintBridge, FiniteSetTheorems, SequenceTheorems, WellFoundedInduction, TLAPS

ChildFields == {"state", "files", "todo", "noise", "slow", "killed", "status", "out", "err"}

Shape ==
  /\ DOMAIN pc = Threads
  /\ DOMAIN scratch = Threads
  /\ DOMAIN child = Threads
  /\ \A t \in Threads : DOMAIN child[t] = ChildFields

IInv == Shape /\ ChildrenAreSupervised

(* A pipe without room is not empty, so a reader has something to do.  A   *)
(* child that a caller waits for is never stuck.                           *)
LEMMA NeverStuck ==
  ASSUME NEW t \in Threads, pc[t] = "wait"
  PROVE  ~Stuck(t)
<1>1. Reading(t)
  BY DEF Reading
<1>2. ASSUME NEW p, ~HasRoom(p)
      PROVE  p # <<>>
  <2>1. PipeCap \in Nat \ {0}
    BY BridgeAssumption
  <2>2. Len(<<>>) = 0
    OBVIOUS
  <2> QED
    BY <1>2, <2>1, <2>2 DEF HasRoom
<1>3. ~CanGoOn(t) => ~HasRoom(child[t].out) \/ ~HasRoom(child[t].err)
  BY DEF CanGoOn
<1> QED
  BY <1>1, <1>2, <1>3 DEF Stuck

(* The child of a caller that has none is not running. *)
LEMMA NoChildFacts ==
  NoChild.state # "running" /\ DOMAIN NoChild = ChildFields
<1>1. NoChild.state = None
  BY DEF NoChild
<1>2. DOMAIN NoChild = ChildFields
  BY DEF NoChild, ChildFields
<1> QED
  BY <1>1, <1>2, BridgeAssumption

(* The initial state. *)
LEMMA InitEstablishes == Init => IInv
<1> SUFFICES ASSUME Init PROVE IInv
  OBVIOUS
<1>1. Shape
  BY NoChildFacts DEF Init, Shape
<1>2. ChildrenAreSupervised
  BY NoChildFacts DEF Init, ChildrenAreSupervised
<1> QED
  BY <1>1, <1>2 DEF IInv

(* A call that returns leaves no running child behind. *)
LEMMA ReturnKeeps ==
  ASSUME IInv, NEW t \in Threads, NEW results, NEW answer,
         child[t].state # "running", Finish(t, results, answer)
  PROVE  IInv'
<1>1. /\ pc' = [pc EXCEPT ![t] = "idle"]
      /\ scratch' = [scratch EXCEPT ![t] = FALSE]
      /\ child' = [child EXCEPT ![t] = NoChild]
  BY DEF Finish, Goto, IInv, Shape
<1>2. Shape'
  BY <1>1, NoChildFacts DEF IInv, Shape
<1> QED
  BY <1>1, <1>2, NoChildFacts DEF IInv, Shape, ChildrenAreSupervised

(* What the child and its readers do keeps what matters: whether it reads  *)
(* files and is slow, and that an ended child does not run again.          *)
OnlyChild(t) ==
  /\ UNCHANGED <<pc, scratch>>
  /\ DOMAIN child' = Threads
  /\ DOMAIN child'[t] = ChildFields
  /\ \A u \in Threads \ {t} : child'[u] = child[u]
  /\ child'[t].state = "running" => child[t].state = "running"
  /\ child'[t].files = child[t].files
  /\ child'[t].slow = child[t].slow

(* What a child does to itself leaves its caller, its files and its speed as they are. *)
LEMMA OnlyChildKeeps ==
  ASSUME IInv, NEW t \in Threads, OnlyChild(t)
  PROVE  IInv'
<1>1. Shape'
  BY DEF IInv, Shape, OnlyChild
<1>2. ChildrenAreSupervised'
  BY DEF IInv, Shape, OnlyChild, ChildrenAreSupervised
<1> QED
  BY <1>1, <1>2 DEF IInv

(* Steps of a child, its end and the readers of its pipes. *)
LEMMA EnvironmentKeeps ==
  ASSUME IInv, NEW t \in Threads, ChildStep(t) \/ Crash(t) \/ Dies(t) \/ Drain(t)
  PROVE  IInv'
<1> USE DEF IInv, Shape, ChildFields, OnlyChild
<1>1. CASE ChildStep(t)
  <2>1. UNCHANGED <<pc, scratch>>
    BY <1>1 DEF ChildStep
  <2>2. CASE Chat(t)
    BY <2>1, <2>2, OnlyChildKeeps DEF Chat
  <2>3. CASE PrintLine(t)
    BY <2>1, <2>3, OnlyChildKeeps DEF PrintLine
  <2>4. CASE RejectFile(t)
    BY <2>1, <2>4, OnlyChildKeeps DEF RejectFile, Exit
  <2>5. CASE Complete(t)
    BY <2>1, <2>5, OnlyChildKeeps DEF Complete, Exit
  <2> QED
    BY <1>1, <2>2, <2>3, <2>4, <2>5 DEF ChildStep
<1>2. CASE Crash(t)
  <2>1. PICK status \in {"signal", "failure"}, torn \in BOOLEAN :
          child' = [child EXCEPT ![t] =
                      Exit([child[t] EXCEPT !.out = IF torn THEN Append(child[t].out, None) ELSE child[t].out],
                           status)]
    BY <1>2 DEF Crash
  <2>2. UNCHANGED <<pc, scratch>>
    BY <1>2 DEF Crash
  <2> QED
    BY <2>1, <2>2, OnlyChildKeeps DEF Exit
<1>3. CASE Dies(t)
  BY <1>3, OnlyChildKeeps DEF Dies, Exit
<1>4. CASE Drain(t)
  <2>1. PICK pipe \in {"out", "err"} : child' = [child EXCEPT ![t][pipe] = Tail(@)]
    BY <1>4 DEF Drain
  <2>2. UNCHANGED <<pc, scratch>>
    BY <1>4 DEF Drain
  <2> QED
    BY <2>1, <2>2, OnlyChildKeeps
<1> QED
  BY <1>1, <1>2, <1>3, <1>4

(* The caller moves on with its child as it is. *)
LEMMA MoveKeeps ==
  ASSUME IInv, NEW t \in Threads, NEW where, Goto(t, where), UNCHANGED <<child, scratch>>,
         where \in {"kill", "wait"} \/ child[t].state # "running",
         where = "kill" => child[t].slow
  PROVE  IInv'
<1>1. Shape'
  BY DEF IInv, Shape, Goto
<1>2. ChildrenAreSupervised'
  BY DEF IInv, Shape, Goto, ChildrenAreSupervised
<1> QED
  BY <1>1, <1>2 DEF IInv

(* A step that changes neither callers nor children nor directories. *)
LEMMA Untouched ==
  ASSUME IInv, UNCHANGED <<pc, child, scratch>>
  PROVE  IInv'
  BY DEF IInv, Shape, ChildrenAreSupervised

(* A caller that is not waiting has no running child. *)
LEMMA NotRunning ==
  ASSUME IInv, NEW t \in Threads, pc[t] \notin {"wait", "kill"}
  PROVE  child[t].state # "running"
  BY DEF IInv, ChildrenAreSupervised

(* A new child starts with its files written and its caller waiting. *)
LEMMA SpawnKeeps ==
  ASSUME IInv, NEW t \in Threads, Spawn(t)
  PROVE  IInv'
<1>1. PICK slow \in BOOLEAN, noise \in Noise :
        child' = [child EXCEPT ![t] =
                    [NoChild EXCEPT !.state = "running", !.noise = noise, !.slow = slow,
                       !.files = call[t].api # "list", !.todo = Input(t)]]
  BY DEF Spawn
<1>2. /\ pc' = [pc EXCEPT ![t] = "wait"]
      /\ scratch' = [scratch EXCEPT ![t] = call[t].api # "list"]
  BY DEF Spawn, Goto
<1>3. DOMAIN child'[t] = ChildFields /\ child'[t].files = (call[t].api # "list")
  BY <1>1, NoChildFacts DEF IInv, Shape, ChildFields
<1>4. Shape'
  BY <1>1, <1>2, <1>3 DEF IInv, Shape
<1>5. ChildrenAreSupervised'
  BY <1>1, <1>2, <1>3 DEF IInv, Shape, ChildrenAreSupervised
<1> QED
  BY <1>4, <1>5 DEF IInv

(* The deadline is only met by a child that is slow. *)
LEMMA DeadlineKeeps ==
  ASSUME IInv, NEW t \in Threads, Deadline(t)
  PROVE  IInv'
<1>1. child[t].slow
  BY NeverStuck DEF Deadline
<1>2. /\ pc' = [pc EXCEPT ![t] = "kill"]
      /\ child' = [child EXCEPT ![t].killed = TRUE]
      /\ scratch' = scratch
  BY DEF Deadline, Goto
<1>3. Shape'
  BY <1>2 DEF IInv, Shape, ChildFields
<1>4. ChildrenAreSupervised'
  BY <1>1, <1>2 DEF IInv, Shape, ChildFields, ChildrenAreSupervised, Deadline
<1> QED
  BY <1>3, <1>4 DEF IInv

(* Applying the output ends the call or gives up the ended child.          *)
LEMMA ApplyKeeps ==
  ASSUME IInv, NEW t \in Threads, Apply(t)
  PROVE  IInv'
<1>1. child[t].state # "running"
  BY NotRunning DEF Apply
<1>2. ASSUME NEW results, NEW answer, Finish(t, results, answer)
      PROVE  IInv'
  BY <1>1, <1>2, ReturnKeeps
<1>3. ASSUME NEW answer, Return(t, answer)
      PROVE  IInv'
  BY <1>2, <1>3 DEF Return
<1>4. ASSUME /\ Goto(t, "spawn")
             /\ scratch' = [scratch EXCEPT ![t] = FALSE]
             /\ child' = [child EXCEPT ![t] = NoChild]
      PROVE  IInv'
  <2>1. Shape'
    BY <1>4, NoChildFacts DEF IInv, Shape, Goto
  <2>2. ChildrenAreSupervised'
    BY <1>4, NoChildFacts DEF IInv, Shape, Goto, ChildrenAreSupervised
  <2> QED
    BY <2>1, <2>2 DEF IInv
<1>5. CASE ApplyBatch(t)
  BY <1>2, <1>3, <1>4, <1>5 DEF ApplyBatch
<1>6. CASE ApplyCert(t)
  BY <1>2, <1>3, <1>6 DEF ApplyCert
<1>7. CASE ApplyList(t)
  BY <1>3, <1>7 DEF ApplyList
<1> QED
  BY <1>5, <1>6, <1>7 DEF Apply

(* A look into the cache goes on to a child or ends the call. *)
LEMMA LookupKeeps ==
  ASSUME IInv, NEW t \in Threads, Lookup(t)
  PROVE  IInv'
<1>1. child[t].state # "running"
  BY NotRunning DEF Lookup
<1>2. ASSUME NEW results, NEW answer, Finish(t, results, answer)
      PROVE  IInv'
  BY <1>1, <1>2, ReturnKeeps
<1>3. ASSUME Goto(t, "spawn"), UNCHANGED <<child, scratch>>
      PROVE  IInv'
  BY <1>1, <1>3, MoveKeeps
<1> QED
  BY <1>2, <1>3, Untouched DEF Lookup

(* One case for each step of a caller. *)
LEMMA CallerKeeps ==
  ASSUME IInv, NEW t \in Threads, CallerStep(t)
  PROVE  IInv'
<1>1. CASE Lookup(t)
  BY <1>1, LookupKeeps
<1>2. CASE SpawnFails(t)
  BY <1>2, NotRunning, ReturnKeeps DEF SpawnFails, Return
<1>3. CASE Spawn(t)
  BY <1>3, SpawnKeeps
<1>4. CASE PollExited(t)
  BY <1>4, MoveKeeps DEF PollExited
<1>5. CASE PollFails(t)
  BY <1>5, ReturnKeeps DEF PollFails, Return
<1>6. CASE Deadline(t)
  BY <1>6, DeadlineKeeps
<1>7. CASE Reap(t)
  BY <1>7, ReturnKeeps DEF Reap, Return
<1>8. CASE Join(t)
  BY <1>8, NotRunning, MoveKeeps DEF Join
<1>9. CASE JoinFails(t)
  BY <1>9, NotRunning, ReturnKeeps DEF JoinFails, Return
<1>10. CASE Apply(t)
  BY <1>10, ApplyKeeps
<1> QED
  BY <1>1, <1>2, <1>3, <1>4, <1>5, <1>6, <1>7, <1>8, <1>9, <1>10 DEF CallerStep

(* A call begins without a child. *)
LEMMA BeginKeeps ==
  ASSUME IInv, NEW t \in Threads, NEW c, Begin(t, c)
  PROVE  IInv'
<1>1. child[t].state # "running" /\ UNCHANGED <<child, scratch>>
  BY NotRunning DEF Begin
<1>2. Goto(t, "spawn") \/ Goto(t, "lookup") \/ UNCHANGED pc
  BY DEF Begin
<1> QED
  BY <1>1, <1>2, MoveKeeps, Untouched

(* Every step keeps the invariant. *)
LEMMA StepKeeps == IInv /\ [Next]_vars => IInv'
<1> SUFFICES ASSUME IInv, [Next]_vars PROVE IInv'
  OBVIOUS
<1>1. CASE Next
  <2>1. PICK t \in Threads :
          \/ \E c \in Calls[t] : Begin(t, c)
          \/ CallerStep(t)
          \/ ChildStep(t) \/ Crash(t) \/ Dies(t) \/ Drain(t)
    BY <1>1 DEF Next
  <2> QED
    BY <2>1, BeginKeeps, CallerKeeps, EnvironmentKeeps
<1>2. CASE UNCHANGED vars
  BY <1>2, Untouched DEF vars
<1> QED
  BY <1>1, <1>2

(***************************************************************************)
(* For every number of threads, calls, files and lines and every size of   *)
(* the pipes: no child of run_subprocess runs after its call or without    *)
(* the scratch directory it reads from, and wait_for_child kills none that *)
(* was only waiting for its own output to be read.                         *)
(***************************************************************************)
THEOREM Supervision == Spec => []ChildrenAreSupervised
<1>1. IInv => ChildrenAreSupervised
  BY DEF IInv
<1> QED
  BY InitEstablishes, StepKeeps, <1>1, PTL DEF Spec

-----------------------------------------------------------------------------
(* What the answers rest on.                                               *)
(*                                                                         *)
(* A line of zlint's output carries no name: the bridge files it by its    *)
(* number.  StreamOK ties the lines under way, in the pipe and with the    *)
(* reader, to the inputs they are about; CallOK ties the results of a call *)
(* and the positions still pending to its certificates; CacheOK is what    *)
(* the other threads rely on.                                              *)

CallFields == {"api", "certs", "at", "results", "pending", "spawned", "answer"}

Lines == {Report[c] : c \in Certs} \cup {None}

ErrLines == {"chat", "malformed"}

OkEntry(c, result) ==
  result = Ok(VerdictMap(Report[c])) /\ c \notin Garbage /\ Parses(Report[c])

RightEntry(c, result) ==
  OkEntry(c, result) \/ (result = Err("MalformedDer") /\ c \in Garbage)

CacheOK ==
  /\ DOMAIN cache = Certs
  /\ \A c \in Certs : cache[c] # None => OkEntry(c, Ok(cache[c]))

InPending(q, i) == \E n \in DOMAIN q.pending : q.pending[n] = i

(* The unparsable inputs of call q that are done with. *)
Handled(q) == {i \in DOMAIN q.certs : q.certs[i] \in Garbage /\ ~InPending(q, i)}

(* What a call that returns may answer. *)
Answers(q, results, answer) ==
  /\ answer = "Ok" =>
       \A i \in DOMAIN q.certs :
         RightEntry(q.certs[i], results[i]) /\ (q.api = "cert" => OkEntry(q.certs[i], results[i]))
  /\ (answer = "MalformedDer" /\ q.api = "cert") => q.certs[1] \in Garbage

PendingOK(q) ==
  /\ q.pending \in Seq(Nat)
  /\ \A n \in DOMAIN q.pending : q.pending[n] \in DOMAIN q.certs
  /\ \A m, n \in DOMAIN q.pending : m < n => q.pending[m] < q.pending[n]

LookupOK(q) ==
  /\ q.api # "list"
  /\ q.at \in DOMAIN q.certs
  /\ q.spawned = 0
  /\ Len(q.pending) < q.at
  /\ \A n \in DOMAIN q.pending : q.pending[n] < q.at
  /\ \A i \in 1 .. q.at - 1 : InPending(q, i) \/ OkEntry(q.certs[i], q.results[i])

RunOK(q, runs) ==
  /\ \A i \in DOMAIN q.certs : InPending(q, i) \/ RightEntry(q.certs[i], q.results[i])
  /\ q.api = "cert" => Len(q.pending) = 1 /\ q.pending[1] = 1
  /\ q.spawned <= runs + Cardinality(Handled(q))

ChildPhases == {"wait", "kill", "join", "apply"}

CallOK(q, p) ==
  /\ p \in {"idle", "lookup", "spawn"} \cup ChildPhases
  /\ DOMAIN q = CallFields
  /\ q.certs \in Seq(Certs) /\ q.at \in Nat /\ q.spawned \in Nat
  /\ q.api = "cert" => Len(q.certs) = 1
  /\ q.api = "list" => q.certs = <<>>
  /\ DOMAIN q.results = DOMAIN q.certs
  /\ PendingOK(q)
  /\ p = "idle" => q.spawned = 0 /\ Answers(q, q.results, q.answer)
  /\ p = "lookup" => LookupOK(q)
  /\ p = "spawn" => RunOK(q, 0)
  /\ p \in ChildPhases => RunOK(q, 1)

(* The k-th line of a child that has printed n of its inputs; one more is  *)
(* torn.                                                                   *)
Line(inp, n, k) == IF k <= n THEN Report[inp[k]] ELSE None

(* Of inp, n inputs are printed and todo is left; out is in the pipe and   *)
(* got is with the reader.                                                 *)
Flow(inp, n, todo, out, got) ==
  /\ inp \in Seq(Certs) /\ todo \in Seq(Certs) /\ out \in Seq(Lines) /\ got \in Seq(Lines)
  /\ Len(inp) = n + Len(todo)
  /\ \A k \in 1 .. Len(todo) : todo[k] = inp[n + k]
  /\ \A k \in 1 .. n : inp[k] \notin Garbage
  /\ \A k \in 1 .. Len(got) : got[k] = Line(inp, n, k)
  /\ \A k \in 1 .. Len(out) : out[k] = Line(inp, n, Len(got) + k)

(* Every line under way is there, or one torn line more. *)
Whole(n, out, got) == Len(got) + Len(out) = n
Torn(n, out, got) == Len(got) + Len(out) = n + 1

Complained(c, r) == LooksMalformed(c.err) \/ LooksMalformed(r.err)

(* c is a child that was given inp, r what was read of its output. *)
StreamOK(inp, c, r) ==
  \E n \in Nat :
    /\ Flow(inp, n, c.todo, c.out, r.out)
    /\ r.err \in Seq(ErrLines) /\ c.err \in Seq(ErrLines)
    /\ \/ Whole(n, c.out, r.out)
       \/ /\ Torn(n, c.out, r.out)
          /\ c.state # "running" /\ ~Complained(c, r) /\ c.status # "success"
    /\ c.state = "running" => ~Complained(c, r)
    /\ Complained(c, r) => c.todo # <<>> /\ c.todo[1] \in Garbage
    /\ (c.state = "exited" /\ c.status = "success") => c.todo = <<>>

(* What the child of call q is to work through, as Input. *)
InputOf(q) ==
  IF q.api = "list" THEN Catalog ELSE [k \in DOMAIN q.pending |-> q.certs[q.pending[k]]]

(* A thread at p in call q, with child c and what was read of its output. *)
ThreadIs(q, p, c, r) ==
  /\ CallOK(q, p)
  /\ DOMAIN r = {"out", "err"}
  /\ (p \in ChildPhases /\ q.api # "list") => StreamOK(InputOf(q), c, r)
  /\ p \in {"join", "apply"} => c.state = "exited"
  /\ p = "apply" => c.out = <<>> /\ c.err = <<>>

ThreadOK(t) == ThreadIs(call[t], pc[t], child[t], read[t])

EInv ==
  /\ CacheOK
  /\ DOMAIN call = Threads /\ DOMAIN read = Threads
  /\ \A t \in Threads : ThreadOK(t)

\* A function on 1 .. n is a sequence of length n.
LEMMA FunctionIsSeq ==
  ASSUME NEW n \in Nat, NEW S, NEW f \in [1 .. n -> S]
  PROVE  f \in Seq(S) /\ Len(f) = n
<1>1. f \in Seq(S)
  BY SeqDef
<1>2. DOMAIN f = 1 .. n /\ DOMAIN f = 1 .. Len(f) /\ Len(f) \in Nat
  BY <1>1, LenProperties
<1> QED
  BY <1>1, <1>2

\* The child of run_on_cert and run_on_certs works on the certificates still pending, in order.
LEMMA InputIs ==
  ASSUME NEW q, NEW p, CallOK(q, p), q.api # "list"
  PROVE  /\ InputOf(q) \in Seq(Certs)
         /\ Len(InputOf(q)) = Len(q.pending)
         /\ Len(InputOf(q)) \in Nat
         /\ \A k \in 1 .. Len(q.pending) : InputOf(q)[k] = q.certs[q.pending[k]]
<1> DEFINE n == Len(q.pending)
<1>1. n \in Nat /\ DOMAIN q.pending = 1 .. n /\ q.certs \in Seq(Certs)
  BY DEF CallOK, PendingOK
<1>2. \A k \in 1 .. n : q.pending[k] \in DOMAIN q.certs /\ q.certs[q.pending[k]] \in Certs
  <2> TAKE k \in 1 .. n
  <2>1. q.pending[k] \in DOMAIN q.certs
    BY <1>1 DEF CallOK, PendingOK
  <2> QED
    BY <1>1, <2>1, ElementOfSeq, LenProperties
<1>3. InputOf(q) = [k \in 1 .. n |-> q.certs[q.pending[k]]]
  BY <1>1 DEF InputOf
<1>4. InputOf(q) \in [1 .. n -> Certs]
  BY <1>2, <1>3
<1> QED
  BY <1>1, <1>3, <1>4, FunctionIsSeq

-----------------------------------------------------------------------------
(* Queues. *)

Extended(q, x, longer) ==
  /\ Len(longer) = Len(q) + 1
  /\ \A k \in 1 .. Len(q) : longer[k] = q[k]
  /\ longer[Len(q) + 1] = x

Shortened(q, rest) ==
  /\ Len(q) = Len(rest) + 1
  /\ \A k \in 1 .. Len(rest) : rest[k] = q[k + 1]

\* What Append does, position by position.
LEMMA AppendExtends ==
  ASSUME NEW S, NEW q \in Seq(S), NEW x \in S
  PROVE  Append(q, x) \in Seq(S) /\ Extended(q, x, Append(q, x))
BY AppendProperties DEF Extended

\* What Tail does, position by position.
LEMMA TailShortens ==
  ASSUME NEW S, NEW q \in Seq(S), q # <<>>
  PROVE  /\ Tail(q) \in Seq(S) /\ Shortened(q, Tail(q)) /\ Head(q) = q[1] /\ Head(q) \in S
         /\ Len(q) \in Nat /\ Len(q) >= 1
<1>1. Tail(q) \in Seq(S) /\ Len(Tail(q)) = Len(q) - 1 /\ Head(q) \in S
  BY HeadTailProperties
<1>2. \A k \in 1 .. Len(Tail(q)) : Tail(q)[k] = q[k + 1]
  BY HeadTailProperties
<1>3. Len(q) \in Nat /\ Len(q) >= 1 /\ Head(q) = q[1]
  BY EmptySeq
<1> QED
  BY <1>1, <1>2, <1>3 DEF Shortened

-----------------------------------------------------------------------------
(* One lemma for each thing that can happen to the output of a child.      *)

\* A child that has just been started has printed nothing.
LEMMA FlowStarts ==
  ASSUME NEW inp \in Seq(Certs)
  PROVE  Flow(inp, 0, inp, <<>>, <<>>) /\ Whole(0, <<>>, <<>>)
BY DEF Flow, Whole

\* A line printed is the report of the next input.
LEMMA FlowPrints ==
  ASSUME NEW inp, NEW n \in Nat, NEW todo, NEW out, NEW got, Flow(inp, n, todo, out, got),
         Whole(n, out, got), todo[1] \notin Garbage,
         NEW rest \in Seq(Certs), Shortened(todo, rest),
         NEW more \in Seq(Lines), Extended(out, Report[todo[1]], more)
  PROVE  Flow(inp, n + 1, rest, more, got) /\ Whole(n + 1, more, got)
<1>0. /\ Len(todo) \in Nat /\ Len(out) \in Nat /\ Len(got) \in Nat /\ Len(rest) \in Nat
      /\ Len(inp) = n + Len(todo) /\ Len(todo) = Len(rest) + 1 /\ Len(more) = Len(out) + 1
      /\ Len(got) + Len(out) = n
  BY DEF Flow, Shortened, Extended, Whole
<1>1. inp \in Seq(Certs) /\ got \in Seq(Lines)
  BY DEF Flow
<1>2. todo[1] = inp[n + 1]
  <2>1. 1 \in 1 .. Len(todo)
    BY <1>0
  <2> QED
    BY <2>1 DEF Flow
<1>3. \A k \in 1 .. Len(rest) : rest[k] = inp[n + 1 + k]
  <2> TAKE k \in 1 .. Len(rest)
  <2>1. k + 1 \in 1 .. Len(todo) /\ n + (k + 1) = n + 1 + k
    BY <1>0
  <2>2. rest[k] = todo[k + 1]
    BY DEF Shortened
  <2>3. todo[k + 1] = inp[n + (k + 1)]
    BY <2>1 DEF Flow
  <2> QED
    BY <2>1, <2>2, <2>3
<1>4. \A k \in 1 .. n + 1 : inp[k] \notin Garbage
  BY <1>2 DEF Flow
<1>5. \A k \in 1 .. Len(got) : got[k] = Line(inp, n + 1, k)
  <2> TAKE k \in 1 .. Len(got)
  <2>1. k <= n /\ k <= n + 1
    BY <1>0, SMTT(30)
  <2> QED
    BY <2>1 DEF Flow, Line
<1>6. \A k \in 1 .. Len(more) : more[k] = Line(inp, n + 1, Len(got) + k)
  <2> TAKE k \in 1 .. Len(more)
  <2>1. CASE k \in 1 .. Len(out)
    <3>1. Len(got) + k <= n /\ Len(got) + k <= n + 1
      BY <1>0, <2>1
    <3>2. more[k] = out[k] /\ out[k] = Line(inp, n, Len(got) + k)
      BY <2>1 DEF Extended, Flow
    <3> QED
      BY <3>1, <3>2 DEF Line
  <2>2. CASE k = Len(out) + 1
    <3>1. Len(got) + k = n + 1
      BY <1>0, <2>2, SMTT(30)
    <3>2. more[k] = Report[todo[1]]
      BY <2>2 DEF Extended
    <3>3. Line(inp, n + 1, n + 1) = Report[inp[n + 1]]
      BY DEF Line
    <3> QED
      BY <1>2, <3>1, <3>2, <3>3
  <2>3. k \in 1 .. Len(out) \/ k = Len(out) + 1
    BY <1>0
  <2> QED
    BY <2>1, <2>2, <2>3
<1>7. Len(inp) = n + 1 + Len(rest) /\ Len(got) + Len(more) = n + 1
  BY <1>0, SMTT(30)
<1> QED
  BY <1>1, <1>3, <1>4, <1>5, <1>6, <1>7 DEF Flow, Whole

\* A torn line comes after all the others.
LEMMA FlowTears ==
  ASSUME NEW inp, NEW n \in Nat, NEW todo, NEW out, NEW got, Flow(inp, n, todo, out, got),
         Whole(n, out, got), NEW more \in Seq(Lines), Extended(out, None, more)
  PROVE  Flow(inp, n, todo, more, got) /\ Torn(n, more, got)
<1>1. /\ out \in Seq(Lines) /\ got \in Seq(Lines) /\ Len(out) \in Nat /\ Len(got) \in Nat
      /\ Len(more) = Len(out) + 1 /\ Len(got) + Len(out) = n
  BY DEF Flow, Extended, Whole
<1>2. \A k \in 1 .. Len(more) : more[k] = Line(inp, n, Len(got) + k)
  <2> TAKE k \in 1 .. Len(more)
  <2>1. CASE k \in 1 .. Len(out)
    BY <2>1 DEF Flow, Extended
  <2>2. CASE k = Len(out) + 1
    <3>1. ~(Len(got) + k <= n) /\ more[k] = None
      BY <1>1, <2>2 DEF Extended
    <3> QED
      BY <3>1 DEF Line
  <2> QED
    BY <1>1, <2>1, <2>2
<1>3. Len(got) + Len(more) = n + 1
  BY <1>1
<1> QED
  BY <1>2, <1>3 DEF Flow, Torn

\* A reader moves the first line of the pipe behind what it has.
LEMMA FlowDrains ==
  ASSUME NEW inp, NEW n \in Nat, NEW todo, NEW out, NEW got, Flow(inp, n, todo, out, got),
         NEW rest \in Seq(Lines), Shortened(out, rest),
         NEW more \in Seq(Lines), Extended(got, out[1], more)
  PROVE  /\ Flow(inp, n, todo, rest, more)
         /\ Whole(n, out, got) => Whole(n, rest, more)
         /\ Torn(n, out, got) => Torn(n, rest, more)
<1>1. /\ Len(out) \in Nat /\ Len(got) \in Nat /\ Len(rest) \in Nat
      /\ Len(more) = Len(got) + 1 /\ Len(out) = Len(rest) + 1
  BY DEF Flow, Extended, Shortened
<1>2. out[1] = Line(inp, n, Len(got) + 1)
  BY <1>1 DEF Flow
<1>3. \A k \in 1 .. Len(more) : more[k] = Line(inp, n, k)
  <2> TAKE k \in 1 .. Len(more)
  <2>1. k \in 1 .. Len(got) \/ k = Len(got) + 1
    BY <1>1
  <2> QED
    BY <1>2, <2>1 DEF Flow, Extended
<1>4. \A k \in 1 .. Len(rest) : rest[k] = Line(inp, n, Len(more) + k)
  <2> TAKE k \in 1 .. Len(rest)
  <2>1. k + 1 \in 1 .. Len(out) /\ Len(got) + (k + 1) = Len(more) + k
    BY <1>1
  <2>2. rest[k] = out[k + 1]
    BY DEF Shortened
  <2>3. out[k + 1] = Line(inp, n, Len(got) + (k + 1))
    BY <2>1 DEF Flow
  <2> QED
    BY <2>1, <2>2, <2>3
<1>5. Len(more) + Len(rest) = Len(got) + Len(out)
  BY <1>1
<1> QED
  BY <1>3, <1>4, <1>5 DEF Flow, Whole, Torn

\* Only the complaint itself makes stderr look malformed.
LEMMA ChatIsHarmless ==
  ASSUME NEW e \in Seq(ErrLines)
  PROVE  /\ Append(e, "chat") \in Seq(ErrLines) /\ Append(e, "malformed") \in Seq(ErrLines)
         /\ LooksMalformed(Append(e, "chat")) => LooksMalformed(e)
<1>1. "chat" \in ErrLines /\ "malformed" \in ErrLines /\ "chat" # "malformed"
  BY DEF ErrLines
<1>2. /\ Append(e, "chat") \in Seq(ErrLines) /\ Append(e, "malformed") \in Seq(ErrLines)
      /\ Extended(e, "chat", Append(e, "chat"))
  BY <1>1, AppendExtends
<1>3. PICK longer \in Seq(ErrLines) : longer = Append(e, "chat")
  BY <1>2
<1>4. LooksMalformed(longer) => LooksMalformed(e)
  <2> SUFFICES ASSUME NEW i \in DOMAIN longer, longer[i] = "malformed"
               PROVE  \E j \in DOMAIN e : e[j] = "malformed"
    BY DEF LooksMalformed
  <2>1. i \in 1 .. Len(longer) /\ Len(longer) = Len(e) + 1 /\ longer[Len(e) + 1] = "chat"
        /\ Len(e) \in Nat /\ DOMAIN e = 1 .. Len(e)
    BY <1>2, <1>3 DEF Extended
  <2>2. i \in 1 .. Len(e)
    BY <1>1, <2>1
  <2>3. e[i] = "malformed"
    BY <1>2, <1>3, <2>2 DEF Extended
  <2> QED
    BY <2>1, <2>2, <2>3
<1> QED
  BY <1>2, <1>3, <1>4

\* A reader of stderr neither invents nor repeats a complaint.
LEMMA ReadingIsHarmless ==
  ASSUME NEW e \in Seq(ErrLines), NEW got \in Seq(ErrLines), e # <<>>
  PROVE  /\ Tail(e) \in Seq(ErrLines) /\ Append(got, Head(e)) \in Seq(ErrLines)
         /\ LooksMalformed(Tail(e)) => LooksMalformed(e)
         /\ LooksMalformed(Append(got, Head(e))) => LooksMalformed(e) \/ LooksMalformed(got)
<1>1. /\ Tail(e) \in Seq(ErrLines) /\ Shortened(e, Tail(e)) /\ Head(e) = e[1] /\ Head(e) \in ErrLines
      /\ Len(e) \in Nat /\ Len(e) >= 1
  BY TailShortens
<1>2. Append(got, Head(e)) \in Seq(ErrLines) /\ Extended(got, e[1], Append(got, Head(e)))
  BY <1>1, AppendExtends
<1>3. PICK rest \in Seq(ErrLines) : rest = Tail(e)
  BY <1>1
<1>4. PICK more \in Seq(ErrLines) : more = Append(got, Head(e))
  BY <1>2
<1>5. LooksMalformed(rest) => LooksMalformed(e)
  <2> SUFFICES ASSUME NEW i \in DOMAIN rest, rest[i] = "malformed"
               PROVE  \E j \in DOMAIN e : e[j] = "malformed"
    BY DEF LooksMalformed
  <2>1. i \in 1 .. Len(rest) /\ Len(e) = Len(rest) + 1 /\ rest[i] = e[i + 1] /\ Len(rest) \in Nat
        /\ DOMAIN e = 1 .. Len(e)
    BY <1>1, <1>3 DEF Shortened
  <2>2. i + 1 \in DOMAIN e
    BY <2>1
  <2> QED
    BY <2>1, <2>2
<1>6. LooksMalformed(more) => LooksMalformed(e) \/ LooksMalformed(got)
  <2> SUFFICES ASSUME NEW i \in DOMAIN more, more[i] = "malformed"
               PROVE  (\E j \in DOMAIN e : e[j] = "malformed") \/ (\E j \in DOMAIN got : got[j] = "malformed")
    BY DEF LooksMalformed
  <2>1. i \in 1 .. Len(more) /\ Len(more) = Len(got) + 1 /\ more[Len(got) + 1] = e[1]
        /\ Len(got) \in Nat /\ DOMAIN got = 1 .. Len(got)
    BY <1>2, <1>4 DEF Extended
  <2>2. CASE i = Len(got) + 1
    <3>1. 1 \in DOMAIN e
      BY <1>1
    <3> QED
      BY <2>1, <2>2, <3>1
  <2>3. CASE i \in 1 .. Len(got)
    BY <1>2, <1>4, <2>1, <2>3 DEF Extended
  <2> QED
    BY <2>1, <2>2, <2>3
<1> QED
  BY <1>1, <1>2, <1>3, <1>4, <1>5, <1>6

\* A child that has just been started is in step with its readers.
LEMMA StreamStarts ==
  ASSUME NEW inp \in Seq(Certs), NEW c, NEW r, c.todo = inp, c.out = <<>>, c.err = <<>>,
         c.state = "running", r.out = <<>>, r.err = <<>>
  PROVE  StreamOK(inp, c, r)
<1>1. PICK n \in Nat : Flow(inp, n, c.todo, c.out, r.out) /\ Whole(n, c.out, r.out)
  <2>1. Flow(inp, 0, c.todo, c.out, r.out) /\ Whole(0, c.out, r.out) /\ 0 \in Nat
    BY FlowStarts
  <2> QED
    BY <2>1
<1>2. ~Complained(c, r) /\ r.err \in Seq(ErrLines) /\ c.err \in Seq(ErrLines)
  BY EmptySeq DEF Complained, LooksMalformed
<1>3. c.state # "exited"
  OBVIOUS
<1> QED
  BY <1>1, <1>2, <1>3, Zenon DEF StreamOK

\* Nothing but these fields of a child matters to the stream.
LEMMA StreamKept ==
  ASSUME NEW inp, NEW c, NEW d, NEW r, StreamOK(inp, c, r),
         d.todo = c.todo, d.out = c.out, d.err = c.err, d.state = c.state, d.status = c.status
  PROVE  StreamOK(inp, d, r)
BY Zenon DEF StreamOK, Complained

\* Chatter leaves the stream in step.
LEMMA ChatStreams ==
  ASSUME NEW inp, NEW c, NEW d, NEW r, StreamOK(inp, c, r), c.state = "running",
         d.todo = c.todo, d.out = c.out, d.err = Append(c.err, "chat"),
         d.state = c.state, d.status = c.status
  PROVE  StreamOK(inp, d, r)
<1>1. PICK n \in Nat : /\ Flow(inp, n, c.todo, c.out, r.out) /\ Whole(n, c.out, r.out)
                       /\ r.err \in Seq(ErrLines) /\ c.err \in Seq(ErrLines) /\ ~Complained(c, r)
  BY Zenon DEF StreamOK
<1>2. d.err \in Seq(ErrLines) /\ ~Complained(d, r)
  BY <1>1, ChatIsHarmless DEF Complained
<1>3. d.state # "exited"
  OBVIOUS
<1> QED
  BY <1>1, <1>2, <1>3, Zenon DEF StreamOK

\* Printing the report of the next input leaves the stream in step.
LEMMA PrintStreams ==
  ASSUME NEW inp, NEW c, NEW d, NEW r, StreamOK(inp, c, r), c.state = "running",
         c.todo[1] \notin Garbage, d.todo \in Seq(Certs), Shortened(c.todo, d.todo),
         d.out \in Seq(Lines), Extended(c.out, Report[c.todo[1]], d.out), d.err = c.err,
         d.state = c.state, d.status = c.status
  PROVE  StreamOK(inp, d, r)
<1>1. PICK n \in Nat : /\ Flow(inp, n, c.todo, c.out, r.out) /\ Whole(n, c.out, r.out)
                       /\ r.err \in Seq(ErrLines) /\ c.err \in Seq(ErrLines) /\ ~Complained(c, r)
  BY Zenon DEF StreamOK
<1>2. Flow(inp, n + 1, d.todo, d.out, r.out) /\ Whole(n + 1, d.out, r.out)
  BY <1>1, FlowPrints
<1>3. n + 1 \in Nat /\ ~Complained(d, r) /\ d.state # "exited"
  BY <1>1 DEF Complained
<1> QED
  BY <1>1, <1>2, <1>3, Zenon DEF StreamOK

\* A complaint is about the input at which the child stops.
LEMMA RejectStreams ==
  ASSUME NEW inp, NEW c, NEW d, NEW r, StreamOK(inp, c, r), c.state = "running",
         c.todo # <<>>, Head(c.todo) \in Garbage,
         d.todo = c.todo, d.out = c.out, d.err = Append(c.err, "malformed"),
         d.state = "exited", d.status = "failure"
  PROVE  StreamOK(inp, d, r)
<1>1. PICK n \in Nat : /\ Flow(inp, n, c.todo, c.out, r.out) /\ Whole(n, c.out, r.out)
                       /\ r.err \in Seq(ErrLines) /\ c.err \in Seq(ErrLines)
  BY Zenon DEF StreamOK
<1>2. c.todo \in Seq(Certs)
  BY <1>1 DEF Flow
<1>3. d.todo # <<>> /\ d.todo[1] \in Garbage
  BY <1>2, TailShortens
<1>4. d.err \in Seq(ErrLines) /\ d.status # "success" /\ d.state # "running"
  BY <1>1, ChatIsHarmless
<1> QED
  BY <1>1, <1>3, <1>4, Zenon DEF StreamOK

\* A child that ends well has printed everything.
LEMMA CompleteStreams ==
  ASSUME NEW inp, NEW c, NEW d, NEW r, StreamOK(inp, c, r), c.state = "running",
         c.todo = <<>>, d.todo = c.todo, d.out = c.out, d.err = c.err, d.state = "exited"
  PROVE  StreamOK(inp, d, r)
<1>1. PICK n \in Nat : /\ Flow(inp, n, c.todo, c.out, r.out) /\ Whole(n, c.out, r.out)
                       /\ r.err \in Seq(ErrLines) /\ c.err \in Seq(ErrLines) /\ ~Complained(c, r)
  BY Zenon DEF StreamOK
<1>2. ~Complained(d, r) /\ d.state # "running"
  BY <1>1 DEF Complained
<1> QED
  BY <1>1, <1>2, Zenon DEF StreamOK

\* A child that ends badly leaves whole lines, or whole lines and a torn one.
LEMMA CrashStreams ==
  ASSUME NEW inp, NEW c, NEW d, NEW r, StreamOK(inp, c, r), c.state = "running",
         d.todo = c.todo, d.err = c.err, d.state = "exited", d.status # "success",
         d.out = c.out \/ (d.out \in Seq(Lines) /\ Extended(c.out, None, d.out))
  PROVE  StreamOK(inp, d, r)
<1>1. PICK n \in Nat : /\ Flow(inp, n, c.todo, c.out, r.out) /\ Whole(n, c.out, r.out)
                       /\ r.err \in Seq(ErrLines) /\ c.err \in Seq(ErrLines) /\ ~Complained(c, r)
  BY Zenon DEF StreamOK
<1>2. ~Complained(d, r) /\ d.state # "running"
  BY <1>1 DEF Complained
<1>3. CASE d.out = c.out
  BY <1>1, <1>2, <1>3, Zenon DEF StreamOK
<1>4. CASE d.out \in Seq(Lines) /\ Extended(c.out, None, d.out)
  <2>1. Flow(inp, n, d.todo, d.out, r.out) /\ Torn(n, d.out, r.out)
    BY <1>1, <1>4, FlowTears
  <2> QED
    BY <1>1, <1>2, <2>1, Zenon DEF StreamOK
<1> QED
  BY <1>3, <1>4

\* The reader of stdout keeps the lines in order.
LEMMA DrainOutStreams ==
  ASSUME NEW inp, NEW c, NEW d, NEW r, NEW s, StreamOK(inp, c, r),
         d.todo = c.todo, d.out \in Seq(Lines), Shortened(c.out, d.out), d.err = c.err, d.state = c.state, d.status = c.status,
         s.out \in Seq(Lines), Extended(r.out, c.out[1], s.out), s.err = r.err
  PROVE  StreamOK(inp, d, s)
<1>1. PICK n \in Nat :
        /\ Flow(inp, n, c.todo, c.out, r.out)
        /\ r.err \in Seq(ErrLines) /\ c.err \in Seq(ErrLines)
        /\ \/ Whole(n, c.out, r.out)
           \/ /\ Torn(n, c.out, r.out)
              /\ c.state # "running" /\ ~Complained(c, r) /\ c.status # "success"
        /\ c.state = "running" => ~Complained(c, r)
        /\ Complained(c, r) => c.todo # <<>> /\ c.todo[1] \in Garbage
        /\ (c.state = "exited" /\ c.status = "success") => c.todo = <<>>
  BY Zenon DEF StreamOK
<1>2. /\ Flow(inp, n, d.todo, d.out, s.out)
      /\ Whole(n, c.out, r.out) => Whole(n, d.out, s.out)
      /\ Torn(n, c.out, r.out) => Torn(n, d.out, s.out)
  <2>1. Flow(inp, n, c.todo, c.out, r.out)
    BY <1>1
  <2> QED
    BY <2>1, FlowDrains, ZenonT(60)
<1>3. Complained(d, s) <=> Complained(c, r)
  BY DEF Complained
<1> QED
  BY <1>1, <1>2, <1>3, Zenon DEF StreamOK

\* The reader of stderr leaves stdout alone.
LEMMA DrainErrStreams ==
  ASSUME NEW inp, NEW c, NEW d, NEW r, NEW s, StreamOK(inp, c, r), c.err # <<>>,
         d.todo = c.todo, d.err = Tail(c.err), d.out = c.out, d.state = c.state, d.status = c.status,
         s.err = Append(r.err, Head(c.err)), s.out = r.out
  PROVE  StreamOK(inp, d, s)
<1>1. r.err \in Seq(ErrLines) /\ c.err \in Seq(ErrLines)
  BY Zenon DEF StreamOK
<1>2. s.err \in Seq(ErrLines) /\ d.err \in Seq(ErrLines) /\ (Complained(d, s) => Complained(c, r))
  BY <1>1, ReadingIsHarmless DEF Complained
<1> QED
  BY <1>2, Zenon DEF StreamOK
-----------------------------------------------------------------------------
(* What a step of one thread has to keep. *)

OthersStay(t) ==
  /\ DOMAIN call' = Threads /\ DOMAIN read' = Threads
  /\ \A u \in Threads \ {t} :
       call'[u] = call[u] /\ pc'[u] = pc[u] /\ child'[u] = child[u] /\ read'[u] = read[u]

\* A thread shares nothing but the cache with the others.
LEMMA OneThread ==
  ASSUME EInv, NEW t \in Threads, OthersStay(t), CacheOK', ThreadIs(call'[t], pc'[t], child'[t], read'[t])
  PROVE  EInv'
<1>1. ASSUME NEW u \in Threads PROVE ThreadIs(call'[u], pc'[u], child'[u], read'[u])
  <2>1. CASE u = t
    BY <2>1
  <2>2. CASE u # t
    BY <2>2 DEF OthersStay, EInv, ThreadOK
  <2> QED
    BY <2>1, <2>2
<1> QED
  BY <1>1 DEF EInv, ThreadOK, OthersStay

\* A step that leaves the cache alone leaves what is in it right.
LEMMA CacheStays ==
  ASSUME EInv, UNCHANGED cache
  PROVE  CacheOK'
BY DEF EInv, CacheOK

\* A child runs only while its caller waits or kills.
LEMMA RunningPhases ==
  ASSUME IInv, NEW t \in Threads, child[t].state = "running"
  PROVE  pc[t] \in {"wait", "kill"}
BY DEF IInv, ChildrenAreSupervised

\* What the child does is right for its thread if it is for the stream.
LEMMA ChildSteps ==
  ASSUME IInv, EInv, NEW t \in Threads, child[t].state = "running", UNCHANGED <<cache, call, pc, read>>,
         NEW d, child'[t] = d, \A u \in Threads \ {t} : child'[u] = child[u],
         \A inp : StreamOK(inp, child[t], read[t]) => StreamOK(inp, d, read[t])
  PROVE  EInv'
<1>1. pc[t] \in {"wait", "kill"}
  BY RunningPhases
<1>2. OthersStay(t)
  BY DEF OthersStay, EInv, IInv, Shape
<1>3. ThreadIs(call[t], pc[t], child[t], read[t]) /\ child'[t] = d
  BY DEF EInv, ThreadOK, IInv, Shape
<1>4. ThreadIs(call[t], pc[t], d, read[t])
  BY <1>1, <1>3 DEF ThreadIs
<1> QED
  BY <1>2, <1>3, <1>4, CacheStays, OneThread

\* The kinds of things in a stream.
LEMMA StreamTypes ==
  ASSUME NEW inp, NEW c, NEW r, StreamOK(inp, c, r)
  PROVE  c.todo \in Seq(Certs) /\ c.out \in Seq(Lines) /\ r.out \in Seq(Lines)
<1>1. PICK n \in Nat : Flow(inp, n, c.todo, c.out, r.out)
  BY Zenon DEF StreamOK
<1> QED
  BY <1>1 DEF Flow

\* Steps of a running child.
LEMMA ChildStepExact ==
  ASSUME IInv, EInv, NEW t \in Threads, ChildStep(t)
  PROVE  EInv'
<1>1. child[t].state = "running" /\ UNCHANGED <<cache, call, pc, read>>
  BY DEF ChildStep
<1>2. PICK c : c = child[t]
  OBVIOUS
<1>3. DOMAIN c = ChildFields /\ t \in DOMAIN child
  BY <1>2 DEF IInv, Shape
<1>4. ASSUME NEW d, child'[t] = d, \A u \in Threads \ {t} : child'[u] = child[u],
             \A inp : StreamOK(inp, c, read[t]) => StreamOK(inp, d, read[t])
      PROVE  EInv'
  BY <1>1, <1>2, <1>4, ChildSteps
<1>5. CASE Chat(t)
  <2>1. PICK d : d = [c EXCEPT !.noise = @ - 1, !.err = Append(@, "chat")]
    OBVIOUS
  <2>2. child'[t] = d /\ (\A u \in Threads \ {t} : child'[u] = child[u])
    BY <1>2, <1>3, <1>5, <2>1 DEF Chat, IInv, Shape
  <2>3. /\ d.todo = c.todo /\ d.out = c.out /\ d.err = Append(c.err, "chat")
        /\ d.state = c.state /\ d.status = c.status
    BY <1>3, <2>1 DEF ChildFields
  <2> QED
    BY <1>1, <1>2, <1>4, <2>2, <2>3, ChatStreams
<1>6. CASE PrintLine(t)
  <2>1. PICK d : d = [c EXCEPT !.out = Append(@, Printed(Head(c.todo))), !.todo = Tail(@)]
    OBVIOUS
  <2>2. child'[t] = d /\ (\A u \in Threads \ {t} : child'[u] = child[u]) /\ c.todo # <<>> /\ Head(c.todo) \notin Garbage
    BY <1>2, <1>3, <1>6, <2>1 DEF PrintLine, IInv, Shape
  <2>3. /\ d.todo = Tail(c.todo) /\ d.out = Append(c.out, Printed(Head(c.todo))) /\ d.err = c.err
        /\ d.state = c.state /\ d.status = c.status
    BY <1>3, <2>1 DEF ChildFields
  <2>4. ASSUME NEW inp, StreamOK(inp, c, read[t])
        PROVE  StreamOK(inp, d, read[t])
    <3>1. c.todo \in Seq(Certs) /\ c.out \in Seq(Lines)
      BY <2>4, StreamTypes
    <3>2. /\ d.todo \in Seq(Certs) /\ Shortened(c.todo, d.todo) /\ Head(c.todo) = c.todo[1]
          /\ Head(c.todo) \in Certs
      BY <2>2, <2>3, <3>1, TailShortens
    <3>3. Printed(Head(c.todo)) = Report[c.todo[1]] /\ Report[c.todo[1]] \in Lines
      BY <3>2 DEF Printed, Lines
    <3>4. d.out \in Seq(Lines) /\ Extended(c.out, Report[c.todo[1]], d.out)
      BY <2>3, <3>1, <3>3, AppendExtends
    <3> QED
      BY <1>1, <1>2, <2>2, <2>3, <2>4, <3>2, <3>4, PrintStreams
  <2> QED
    BY <1>4, <2>2, <2>4
<1>7. CASE RejectFile(t)
  <2>1. PICK d : d = child'[t]
    OBVIOUS
  <2>2. (\A u \in Threads \ {t} : child'[u] = child[u]) /\ c.todo # <<>> /\ Head(c.todo) \in Garbage
    BY <1>2, <1>3, <1>7 DEF RejectFile, IInv, Shape
  <2>3. /\ d.todo = c.todo /\ d.out = c.out /\ d.err = Append(c.err, "malformed")
        /\ d.state = "exited" /\ d.status = "failure"
    BY <1>2, <1>3, <1>7, <2>1 DEF ChildFields, RejectFile, Exit, IInv, Shape
  <2> QED
    BY <1>1, <1>2, <1>4, <2>1, <2>2, <2>3, RejectStreams
<1>8. CASE Complete(t)
  <2>1. PICK d : d = Exit(c, "success")
    OBVIOUS
  <2>2. child'[t] = d /\ (\A u \in Threads \ {t} : child'[u] = child[u]) /\ c.todo = <<>>
    BY <1>2, <1>3, <1>8, <2>1 DEF Complete, IInv, Shape
  <2>3. d.todo = c.todo /\ d.out = c.out /\ d.err = c.err /\ d.state = "exited"
    BY <1>3, <2>1 DEF ChildFields, Exit
  <2> QED
    BY <1>1, <1>2, <1>4, <2>2, <2>3, CompleteStreams
<1> QED
  BY <1>5, <1>6, <1>7, <1>8 DEF ChildStep

\* A child that dies.
LEMMA DeathExact ==
  ASSUME IInv, EInv, NEW t \in Threads, Crash(t) \/ Dies(t)
  PROVE  EInv'
<1>1. child[t].state = "running" /\ UNCHANGED <<cache, call, pc, read>>
  BY DEF Crash, Dies
<1>2. PICK c : c = child[t]
  OBVIOUS
<1>3. DOMAIN c = ChildFields /\ t \in DOMAIN child
  BY <1>2 DEF IInv, Shape
<1>4. ASSUME NEW d, child'[t] = d, \A u \in Threads \ {t} : child'[u] = child[u],
             \A inp : StreamOK(inp, c, read[t]) => StreamOK(inp, d, read[t])
      PROVE  EInv'
  BY <1>1, <1>2, <1>4, ChildSteps
<1>5. CASE Crash(t)
  <2>1. PICK status \in {"signal", "failure"}, torn \in BOOLEAN :
          child' = [child EXCEPT ![t] =
                      Exit([child[t] EXCEPT !.out = IF torn THEN Append(child[t].out, None) ELSE child[t].out],
                           status)]
    BY <1>5 DEF Crash
  <2>2. PICK d : d = child'[t]
    OBVIOUS
  <2>3. \A u \in Threads \ {t} : child'[u] = child[u]
    BY <2>1 DEF IInv, Shape
  <2>4. /\ d.todo = c.todo /\ d.err = c.err /\ d.state = "exited" /\ d.status # "success"
        /\ d.out = IF torn THEN Append(c.out, None) ELSE c.out
    BY <1>2, <1>3, <2>1, <2>2 DEF ChildFields, Exit, IInv, Shape
  <2>5. ASSUME NEW inp, StreamOK(inp, c, read[t])
        PROVE  StreamOK(inp, d, read[t])
    <3>1. c.out \in Seq(Lines) /\ None \in Lines
      BY <2>5, StreamTypes DEF Lines
    <3>2. d.out = c.out \/ (d.out \in Seq(Lines) /\ Extended(c.out, None, d.out))
      BY <2>4, <3>1, AppendExtends
    <3> QED
      BY <1>1, <1>2, <2>4, <2>5, <3>2, CrashStreams
  <2> QED
    BY <1>4, <2>2, <2>3, <2>5
<1>6. CASE Dies(t)
  <2>1. PICK d : d = Exit(c, "signal")
    OBVIOUS
  <2>2. child'[t] = d /\ (\A u \in Threads \ {t} : child'[u] = child[u])
    BY <1>2, <1>3, <1>6, <2>1 DEF Dies, IInv, Shape
  <2>3. d.todo = c.todo /\ d.out = c.out /\ d.err = c.err /\ d.state = "exited" /\ d.status # "success"
    BY <1>3, <2>1 DEF ChildFields, Exit
  <2> QED
    BY <1>1, <1>2, <1>4, <2>2, <2>3, CrashStreams
<1> QED
  BY <1>5, <1>6

\* The readers empty the pipes in order.
LEMMA DrainExact ==
  ASSUME IInv, EInv, NEW t \in Threads, Drain(t)
  PROVE  EInv'
<1>1. pc[t] \in {"wait", "kill", "join"} /\ UNCHANGED <<cache, call, pc>>
  BY DEF Drain, Reading
<1>2. PICK c : c = child[t]
  OBVIOUS
<1>3. PICK r : r = read[t]
  OBVIOUS
<1>4. /\ DOMAIN c = ChildFields /\ t \in DOMAIN child /\ t \in DOMAIN read
      /\ ThreadIs(call[t], pc[t], c, r) /\ DOMAIN r = {"out", "err"}
  BY <1>2, <1>3 DEF IInv, Shape, EInv, ThreadOK, ThreadIs
<1>5. PICK pipe \in {"out", "err"} :
        /\ c[pipe] # <<>>
        /\ read' = [read EXCEPT ![t][pipe] = Append(@, Head(c[pipe]))]
        /\ child' = [child EXCEPT ![t][pipe] = Tail(@)]
  BY <1>2 DEF Drain
<1>6. PICK d : d = [c EXCEPT ![pipe] = Tail(@)]
  OBVIOUS
<1>7. PICK s : s = [r EXCEPT ![pipe] = Append(@, Head(c[pipe]))]
  OBVIOUS
<1>8. /\ child' = [child EXCEPT ![t] = d] /\ read' = [read EXCEPT ![t] = s]
      /\ child'[t] = d /\ read'[t] = s /\ d.state = c.state /\ DOMAIN s = {"out", "err"}
  BY <1>2, <1>3, <1>4, <1>5, <1>6, <1>7 DEF ChildFields
<1>9. ASSUME NEW inp, StreamOK(inp, c, r)
      PROVE  StreamOK(inp, d, s)
  <2>1. c.out \in Seq(Lines) /\ r.out \in Seq(Lines)
    BY <1>9, StreamTypes
  <2>2. CASE pipe = "out"
    <3>1. /\ d.todo = c.todo /\ d.out = Tail(c.out) /\ d.err = c.err /\ d.state = c.state
          /\ d.status = c.status /\ s.out = Append(r.out, Head(c.out)) /\ s.err = r.err /\ c.out # <<>>
      BY <1>4, <1>5, <1>6, <1>7, <2>2 DEF ChildFields
    <3>2. d.out \in Seq(Lines) /\ Shortened(c.out, d.out) /\ Head(c.out) = c.out[1] /\ Head(c.out) \in Lines
      BY <2>1, <3>1, TailShortens
    <3>3. s.out \in Seq(Lines) /\ Extended(r.out, c.out[1], s.out)
      BY <2>1, <3>1, <3>2, AppendExtends
    <3> QED
      BY <1>9, <3>1, <3>2, <3>3, DrainOutStreams
  <2>3. CASE pipe = "err"
    <3>1. /\ d.todo = c.todo /\ d.err = Tail(c.err) /\ d.out = c.out /\ d.state = c.state
          /\ d.status = c.status /\ s.err = Append(r.err, Head(c.err)) /\ s.out = r.out /\ c.err # <<>>
      BY <1>4, <1>5, <1>6, <1>7, <2>3 DEF ChildFields
    <3> QED
      BY <1>9, <3>1, DrainErrStreams
  <2> QED
    BY <2>2, <2>3
<1>10. ThreadIs(call[t], pc[t], d, s)
  BY <1>1, <1>4, <1>8, <1>9 DEF ThreadIs
<1>11. OthersStay(t)
  BY <1>1, <1>8 DEF OthersStay, EInv, IInv, Shape
<1> QED
  BY <1>1, <1>8, <1>10, <1>11, CacheStays, OneThread

-----------------------------------------------------------------------------
(* The caller. *)

\* The call of a thread, as a value.
LEMMA CallShape ==
  ASSUME IInv, EInv, NEW t \in Threads
  PROVE  /\ ThreadIs(call[t], pc[t], child[t], read[t])
         /\ DOMAIN call = Threads /\ DOMAIN read = Threads /\ DOMAIN pc = Threads /\ DOMAIN child = Threads
         /\ DOMAIN child[t] = ChildFields /\ DOMAIN call[t] = CallFields
         /\ call[t].certs \in Seq(Certs) /\ Len(call[t].certs) \in Nat
         /\ DOMAIN call[t].certs = 1 .. Len(call[t].certs)
         /\ DOMAIN call[t].results = DOMAIN call[t].certs
         /\ CallOK(call[t], pc[t])
<1>1. ThreadIs(call[t], pc[t], child[t], read[t]) /\ CallOK(call[t], pc[t])
  BY DEF EInv, ThreadOK, ThreadIs
<1>2. call[t].certs \in Seq(Certs)
  BY <1>1 DEF CallOK
<1>3. Len(call[t].certs) \in Nat /\ DOMAIN call[t].certs = 1 .. Len(call[t].certs)
  BY <1>2, LenProperties
<1>4. DOMAIN call[t] = CallFields /\ DOMAIN call[t].results = DOMAIN call[t].certs
  BY <1>1 DEF CallOK
<1>5. /\ DOMAIN call = Threads /\ DOMAIN read = Threads /\ DOMAIN pc = Threads /\ DOMAIN child = Threads
      /\ DOMAIN child[t] = ChildFields
  BY DEF EInv, IInv, Shape
<1> QED
  BY <1>1, <1>2, <1>3, <1>4, <1>5

\* A call that has returned keeps its inputs, its results and its answer.
LEMMA AnsweredCall ==
  ASSUME NEW q, NEW p, CallOK(q, p), NEW results, NEW answer,
         DOMAIN results = DOMAIN q.certs, Answers(q, results, answer)
  PROVE  CallOK([NoCall EXCEPT !.api = q.api, !.certs = q.certs, !.results = results, !.answer = answer], "idle")
<1>1. PICK a : a = [NoCall EXCEPT !.api = q.api, !.certs = q.certs, !.results = results, !.answer = answer]
  OBVIOUS
<1>2. /\ DOMAIN a = CallFields /\ a.api = q.api /\ a.certs = q.certs /\ a.at = 1 /\ a.results = results
      /\ a.pending = <<>> /\ a.spawned = 0 /\ a.answer = answer
  BY <1>1 DEF NoCall, CallFields
<1>3. /\ q.certs \in Seq(Certs)
      /\ q.api = "cert" => Len(q.certs) = 1
      /\ q.api = "list" => q.certs = <<>>
  BY DEF CallOK
<1>4. a.pending \in Seq(Nat) /\ DOMAIN a.pending = {}
  BY <1>2, EmptySeq
<1>5. PendingOK(a)
  BY <1>4 DEF PendingOK
<1>6. Answers(a, a.results, a.answer)
  BY <1>2 DEF Answers
<1>7. CallOK(a, "idle")
  BY <1>2, <1>3, <1>5, <1>6 DEF CallOK, ChildPhases
<1> QED
  BY <1>1, <1>7

\* Returning.
LEMMA FinishExact ==
  ASSUME IInv, EInv, NEW t \in Threads, NEW results, NEW answer, Finish(t, results, answer),
         DOMAIN results = DOMAIN call[t].certs, Answers(call[t], results, answer), CacheOK'
  PROVE  EInv'
<1>1. PICK q : q = call[t]
  OBVIOUS
<1>2. PICK a : a = [NoCall EXCEPT !.api = q.api, !.certs = q.certs, !.results = results, !.answer = answer]
  OBVIOUS
<1>3. CallOK(a, "idle")
  BY <1>1, <1>2, CallShape, AnsweredCall
<1>4. /\ DOMAIN call = Threads /\ DOMAIN read = Threads /\ DOMAIN pc = Threads /\ DOMAIN child = Threads
  BY CallShape
<1>5. call'[t] = a /\ pc'[t] = "idle" /\ read'[t] = NothingRead
  BY <1>1, <1>2, <1>4 DEF Finish, Goto
<1>6. OthersStay(t)
  BY <1>4 DEF Finish, Goto, OthersStay
<1>7. DOMAIN NothingRead = {"out", "err"}
  BY DEF NothingRead
<1>8. ThreadIs(call'[t], pc'[t], child'[t], read'[t])
  BY <1>3, <1>5, <1>7 DEF ThreadIs, ChildPhases
<1> QED
  BY <1>6, <1>8, OneThread

\* Returning an error that says nothing about a certificate.
LEMMA ReturnExact ==
  ASSUME IInv, EInv, NEW t \in Threads, NEW answer, Return(t, answer), answer # "Ok",
         (answer = "MalformedDer" /\ call[t].api = "cert") => call[t].certs[1] \in Garbage, CacheOK'
  PROVE  EInv'
<1>1. PICK results : results = [i \in DOMAIN call[t].certs |-> None]
  OBVIOUS
<1>2. DOMAIN results = DOMAIN call[t].certs /\ Finish(t, results, answer)
  BY <1>1 DEF Return
<1>3. Answers(call[t], results, answer)
  BY DEF Answers
<1> QED
  BY <1>2, <1>3, FinishExact

\* The caller moves on with its child and its call as they are.
LEMMA MoveExact ==
  ASSUME IInv, EInv, NEW t \in Threads, NEW where, Goto(t, where), UNCHANGED <<cache, call, child, read>>,
         ThreadIs(call[t], where, child[t], read[t])
  PROVE  EInv'
<1>1. DOMAIN call = Threads /\ DOMAIN read = Threads /\ DOMAIN pc = Threads
  BY CallShape
<1>2. OthersStay(t) /\ pc'[t] = where
  BY <1>1 DEF Goto, OthersStay
<1>3. ThreadIs(call'[t], pc'[t], child'[t], read'[t])
  BY <1>2
<1> QED
  BY <1>2, <1>3, CacheStays, OneThread

\* What is known of a call while its child is there does not depend on how far the child is.
LEMMA PhaseOfCall ==
  ASSUME NEW q, NEW p \in ChildPhases, CallOK(q, p), NEW s \in ChildPhases
  PROVE  CallOK(q, s)
BY DEF CallOK, ChildPhases

\* Polling, joining and the deadline.
LEMMA WaitExact ==
  ASSUME IInv, EInv, NEW t \in Threads, PollExited(t) \/ Deadline(t) \/ Join(t)
  PROVE  EInv'
<1>1. ThreadIs(call[t], pc[t], child[t], read[t])
  BY CallShape
<1>2. CASE PollExited(t)
  <2>1. pc[t] = "wait" /\ child[t].state = "exited"
    BY <1>2 DEF PollExited
  <2>2. CallOK(call[t], "join")
    BY <1>1, <2>1, PhaseOfCall DEF ThreadIs, ChildPhases
  <2>3. ThreadIs(call[t], "join", child[t], read[t])
    BY <1>1, <2>1, <2>2 DEF ThreadIs, ChildPhases
  <2> QED
    BY <1>2, <2>3, MoveExact DEF PollExited
<1>3. CASE Join(t)
  <2>1. pc[t] = "join" /\ child[t].out = <<>> /\ child[t].err = <<>>
    BY <1>3 DEF Join
  <2>2. CallOK(call[t], "apply")
    BY <1>1, <2>1, PhaseOfCall DEF ThreadIs, ChildPhases
  <2>3. ThreadIs(call[t], "apply", child[t], read[t])
    BY <1>1, <2>1, <2>2 DEF ThreadIs, ChildPhases
  <2> QED
    BY <1>3, <2>3, MoveExact DEF Join
<1>4. CASE Deadline(t)
  <2>1. pc[t] = "wait" /\ UNCHANGED <<cache, call, read>>
    BY <1>4 DEF Deadline
  <2>2. PICK c : c = child[t]
    OBVIOUS
  <2>3. PICK d : d = child'[t]
    OBVIOUS
  <2>4. d.todo = c.todo /\ d.out = c.out /\ d.err = c.err /\ d.state = c.state /\ d.status = c.status
    BY <1>4, <2>2, <2>3, CallShape DEF Deadline, ChildFields
  <2>5. pc'[t] = "kill" /\ OthersStay(t)
    BY <1>4, CallShape DEF Deadline, Goto, OthersStay
  <2>6. CallOK(call[t], "kill")
    BY <1>1, <2>1, PhaseOfCall DEF ThreadIs, ChildPhases
  <2>7. \A inp : StreamOK(inp, c, read[t]) => StreamOK(inp, d, read[t])
    BY <2>4, StreamKept
  <2>8. ThreadIs(call[t], "kill", d, read[t])
    BY <1>1, <2>1, <2>2, <2>6, <2>7 DEF ThreadIs, ChildPhases
  <2> QED
    BY <2>1, <2>3, <2>5, <2>8, CacheStays, OneThread
<1> QED
  BY <1>2, <1>3, <1>4

\* The number of inputs that are done with is a number.
LEMMA HandledIsFinite ==
  ASSUME NEW q, q.certs \in Seq(Certs)
  PROVE  IsFiniteSet(Handled(q)) /\ Cardinality(Handled(q)) \in Nat
<1>1. DOMAIN q.certs = 1 .. Len(q.certs) /\ Len(q.certs) \in Nat
  BY LenProperties
<1>2. IsFiniteSet(1 .. Len(q.certs))
  BY <1>1, FS_Interval
<1>3. Handled(q) \subseteq 1 .. Len(q.certs)
  BY <1>1 DEF Handled
<1>4. IsFiniteSet(Handled(q))
  BY <1>2, <1>3, FS_Subset
<1> QED
  BY <1>4, FS_CardinalityType

\* A new child.
LEMMA SpawnExact ==
  ASSUME IInv, EInv, NEW t \in Threads, Spawn(t)
  PROVE  EInv'
<1>1. PICK q : q = call[t]
  OBVIOUS
<1>2. PICK a : a = call'[t]
  OBVIOUS
<1>3. PICK c : c = child'[t]
  OBVIOUS
<1>4. /\ DOMAIN call = Threads /\ DOMAIN read = Threads /\ DOMAIN pc = Threads /\ DOMAIN child = Threads
      /\ DOMAIN q = CallFields /\ pc[t] = "spawn" /\ CallOK(q, "spawn")
  BY <1>1, CallShape DEF Spawn
<1>5. PICK slow \in BOOLEAN, noise \in Noise :
       /\ child' = [child EXCEPT ![t] =
                      [NoChild EXCEPT !.state = "running", !.noise = noise, !.slow = slow,
                         !.files = call[t].api # "list", !.todo = Input(t)]]
       /\ call' = [call EXCEPT ![t].spawned = IF @ > Len(call[t].certs) THEN @ ELSE @ + 1]
  BY DEF Spawn
<1>6. /\ DOMAIN a = CallFields /\ a.api = q.api /\ a.certs = q.certs /\ a.at = q.at /\ a.results = q.results
      /\ a.pending = q.pending /\ a.answer = q.answer
      /\ a.spawned = IF q.spawned > Len(q.certs) THEN q.spawned ELSE q.spawned + 1
  BY <1>1, <1>2, <1>4, <1>5 DEF CallFields
<1>7. c.state = "running" /\ c.todo = Input(t) /\ c.out = <<>> /\ c.err = <<>>
  BY <1>3, <1>4, <1>5 DEF NoChild
<1>8. pc'[t] = "wait" /\ read'[t] = NothingRead /\ OthersStay(t) /\ UNCHANGED cache
  BY <1>4, <1>5 DEF Spawn, Goto, OthersStay
<1>9. Input(t) = InputOf(a) /\ InputOf(q) = InputOf(a)
  BY <1>1, <1>6 DEF Input, InputOf, CertAt
<1>10. a.api # "list" => StreamOK(InputOf(a), c, NothingRead)
  <2> SUFFICES ASSUME a.api # "list" PROVE StreamOK(InputOf(a), c, NothingRead)
    OBVIOUS
  <2>1. InputOf(q) \in Seq(Certs)
    BY <1>4, <1>6, InputIs
  <2>2. NothingRead.out = <<>> /\ NothingRead.err = <<>>
    BY DEF NothingRead
  <2> QED
    BY <1>7, <1>9, <2>1, <2>2, StreamStarts
<1>11. /\ q.certs \in Seq(Certs) /\ q.at \in Nat /\ q.spawned \in Nat
       /\ q.api = "cert" => Len(q.certs) = 1
       /\ q.api = "list" => q.certs = <<>>
       /\ DOMAIN q.results = DOMAIN q.certs
       /\ PendingOK(q) /\ RunOK(q, 0)
  BY <1>4 DEF CallOK
<1>12. PendingOK(a) /\ Handled(a) = Handled(q)
  BY <1>6, <1>11 DEF PendingOK, Handled, InPending
<1>13. a.spawned \in Nat /\ a.spawned <= 1 + Cardinality(Handled(a))
  <2>1. Cardinality(Handled(q)) \in Nat /\ q.spawned <= 0 + Cardinality(Handled(q))
    BY <1>11, HandledIsFinite DEF RunOK
  <2>2. a.spawned = q.spawned \/ a.spawned = q.spawned + 1
    BY <1>6
  <2> QED
    BY <1>11, <1>12, <2>1, <2>2
<1>14. RunOK(a, 1)
  BY <1>6, <1>11, <1>13 DEF RunOK, InPending
<1>15. CallOK(a, "wait")
  BY <1>6, <1>11, <1>12, <1>13, <1>14 DEF CallOK, ChildPhases
<1>16. ThreadIs(a, "wait", c, NothingRead)
  BY <1>10, <1>15 DEF ThreadIs, NothingRead
<1> QED
  BY <1>2, <1>3, <1>8, <1>16, CacheStays, OneThread

\* A new call has nothing yet.
LEMMA BeginExact ==
  ASSUME IInv, EInv, NEW t \in Threads, NEW c \in Calls[t], Begin(t, c)
  PROVE  EInv'
<1>1. PICK a : a = call'[t]
  OBVIOUS
<1>2. DOMAIN call = Threads /\ DOMAIN read = Threads /\ DOMAIN pc = Threads /\ DOMAIN child = Threads
  BY CallShape
<1>3. PICK results : results = [i \in DOMAIN c.certs |-> None]
  OBVIOUS
<1>4. PICK answer : answer = IF c.api = "certs" /\ c.certs = <<>> THEN "Ok" ELSE None
  OBVIOUS
<1>5. a = [NoCall EXCEPT !.api = c.api, !.certs = c.certs, !.results = results, !.answer = answer]
  BY <1>1, <1>2, <1>3, <1>4 DEF Begin
<1>6. /\ DOMAIN a = CallFields /\ a.api = c.api /\ a.certs = c.certs /\ a.at = 1 /\ a.results = results
      /\ a.pending = <<>> /\ a.spawned = 0 /\ a.answer = answer
  BY <1>5 DEF NoCall, CallFields
<1>7. /\ c.api \in {"cert", "certs", "list"} /\ c.certs \in Seq(Certs)
      /\ c.api = "cert" => Len(c.certs) = 1
      /\ c.api = "list" => c.certs = <<>>
  <2>1. c \in UNION {Calls[u] : u \in Threads}
    OBVIOUS
  <2> QED
    BY <2>1, BridgeAssumption, Zenon
<1>8. a.pending \in Seq(Nat) /\ DOMAIN a.pending = {} /\ Len(a.pending) = 0
  BY <1>6, EmptySeq
<1>9. PendingOK(a)
  BY <1>8 DEF PendingOK
<1>10. Cardinality(Handled(a)) \in Nat
  BY <1>6, <1>7, HandledIsFinite
<1>11. DOMAIN c.certs = 1 .. Len(c.certs) /\ Len(c.certs) \in Nat /\ (c.certs = <<>> <=> Len(c.certs) = 0)
  BY <1>7, LenProperties, EmptySeq
<1>12. UNCHANGED <<cache, child, read>> /\ OthersStay(t) /\ read'[t] = read[t]
  BY <1>2 DEF Begin, OthersStay, Goto
<1>13. ASSUME NEW p \in {"idle", "lookup", "spawn"}, pc'[t] = p, CallOK(a, p)
       PROVE  EInv'
  <2>1. DOMAIN read[t] = {"out", "err"}
    BY CallShape DEF ThreadIs
  <2>2. ThreadIs(a, p, child'[t], read'[t])
    BY <1>12, <1>13, <2>1 DEF ThreadIs, ChildPhases
  <2> QED
    BY <1>1, <1>12, <1>13, <2>2, CacheStays, OneThread
<1>14. CASE c.api = "list"
  <2>1. pc'[t] = "spawn"
    BY <1>2, <1>14 DEF Begin, Goto
  <2>2. RunOK(a, 0)
    BY <1>6, <1>7, <1>10, <1>11, <1>14 DEF RunOK
  <2>3. CallOK(a, "spawn")
    BY <1>3, <1>6, <1>7, <1>9, <2>2 DEF CallOK, ChildPhases
  <2> QED
    BY <1>13, <2>1, <2>3
<1>15. CASE c.api = "certs" /\ c.certs = <<>>
  <2>1. pc'[t] = "idle"
    BY <1>2, <1>15 DEF Begin
  <2>2. Answers(a, a.results, a.answer)
    BY <1>6, <1>11, <1>15 DEF Answers
  <2>3. CallOK(a, "idle")
    BY <1>3, <1>6, <1>7, <1>9, <2>2 DEF CallOK, ChildPhases
  <2> QED
    BY <1>13, <2>1, <2>3
<1>16. CASE c.api # "list" /\ c.certs # <<>>
  <2>1. pc'[t] = "lookup"
    BY <1>2, <1>16 DEF Begin, Goto
  <2>2. LookupOK(a)
    BY <1>6, <1>8, <1>11, <1>16 DEF LookupOK
  <2>3. CallOK(a, "lookup")
    BY <1>3, <1>6, <1>7, <1>9, <2>2 DEF CallOK, ChildPhases
  <2> QED
    BY <1>13, <2>1, <2>3
<1>17. c.api = "cert" => c.certs # <<>>
  <2> SUFFICES ASSUME c.api = "cert", c.certs = <<>> PROVE FALSE
    OBVIOUS
  <2>1. Len(c.certs) = 1 /\ Len(<<>>) = 0
    BY <1>7
  <2> QED
    BY <2>1
<1> QED
  BY <1>7, <1>14, <1>15, <1>16, <1>17

(* What is known of a call that has looked for the first at - 1 of its     *)
(* inputs.                                                                 *)
Looked(q, a) ==
  /\ DOMAIN a = CallFields /\ a.api = q.api /\ a.certs = q.certs /\ a.at = q.at + 1
  /\ a.spawned = q.spawned /\ DOMAIN a.results = DOMAIN q.results
  /\ PendingOK(a)
  /\ Len(a.pending) < a.at
  /\ \A n \in DOMAIN a.pending : a.pending[n] < a.at
  /\ \A i \in 1 .. a.at - 1 : InPending(a, i) \/ OkEntry(a.certs[i], a.results[i])

\* Two positions of a queue that has grown by one.
LEMMA TwoPositions ==
  ASSUME NEW l \in Nat, NEW m \in 1 .. l + 1, NEW n \in 1 .. l + 1, m < n
  PROVE  m \in 1 .. l /\ (n \in 1 .. l \/ n = l + 1)
OBVIOUS

\* A hit is what zlint said of this certificate; a miss is pending.
LEMMA LookupStep ==
  ASSUME IInv, EInv, NEW t \in Threads, pc[t] = "lookup"
  PROVE  Looked(call[t], LookedUp(t))
<1>1. PICK q : q = call[t]
  OBVIOUS
<1>2. PICK a : a = LookedUp(t)
  OBVIOUS
<1>3. PICK i : i = q.at
  OBVIOUS
<1>4. /\ DOMAIN q = CallFields /\ q.certs \in Seq(Certs) /\ DOMAIN q.certs = 1 .. Len(q.certs)
      /\ Len(q.certs) \in Nat /\ DOMAIN q.results = DOMAIN q.certs /\ CallOK(q, "lookup")
  BY <1>1, CallShape
<1>5. PendingOK(q) /\ LookupOK(q)
  BY <1>4 DEF CallOK
<1>6. i \in DOMAIN q.certs /\ i \in Nat /\ q.certs[i] \in Certs
  <2>1. i \in 1 .. Len(q.certs)
    BY <1>3, <1>4, <1>5 DEF LookupOK
  <2> QED
    BY <1>4, <2>1, ElementOfSeq
<1>7. PICK hit : hit = cache[q.certs[i]]
  OBVIOUS
<1>8. CASE hit # None
  <2>1. a = [q EXCEPT !.results[i] = Ok(hit), !.at = i + 1]
    BY <1>1, <1>2, <1>3, <1>7, <1>8 DEF LookedUp, CertAt
  <2>2. /\ DOMAIN a = CallFields /\ a.api = q.api /\ a.certs = q.certs /\ a.at = i + 1
        /\ a.spawned = q.spawned /\ a.pending = q.pending /\ DOMAIN a.results = DOMAIN q.results
        /\ a.results = [q.results EXCEPT ![i] = Ok(hit)]
    BY <1>4, <2>1 DEF CallFields
  <2>3. OkEntry(q.certs[i], Ok(hit))
    BY <1>6, <1>7, <1>8 DEF EInv, CacheOK
  <2>4. PendingOK(a)
    BY <1>5, <2>2 DEF PendingOK
  <2>5. Len(a.pending) < a.at /\ \A n \in DOMAIN a.pending : a.pending[n] < a.at
    <3>1. q.pending \in Seq(Nat)
      BY <1>5 DEF PendingOK
    <3>2. Len(q.pending) < i /\ Len(q.pending) \in Nat
      BY <1>3, <1>5, <3>1 DEF LookupOK
    <3>3. \A n \in DOMAIN q.pending : q.pending[n] \in Nat /\ q.pending[n] < i
      BY <1>3, <1>5, <3>1 DEF LookupOK
    <3> QED
      BY <1>6, <2>2, <3>2, <3>3
  <2>6. ASSUME NEW j \in 1 .. a.at - 1
        PROVE  InPending(a, j) \/ OkEntry(a.certs[j], a.results[j])
    <3>1. CASE j = i
      BY <1>4, <1>6, <2>2, <2>3, <3>1
    <3>2. CASE j # i
      <4>1. j \in 1 .. q.at - 1
        BY <1>3, <1>6, <2>2, <3>2
      <4>2. InPending(q, j) \/ OkEntry(q.certs[j], q.results[j])
        BY <1>5, <4>1 DEF LookupOK
      <4>3. j \in DOMAIN q.results
        BY <1>4, <1>6, <1>3, <4>1
      <4>4. a.results[j] = q.results[j]
        BY <2>2, <3>2, <4>3
      <4> QED
        BY <2>2, <4>2, <4>4 DEF InPending
    <3> QED
      BY <3>1, <3>2
  <2> QED
    BY <1>1, <1>2, <1>3, <2>2, <2>4, <2>5, <2>6 DEF Looked
<1>9. CASE hit = None
  <2>1. a = [q EXCEPT !.pending = Append(@, i), !.at = i + 1]
    BY <1>1, <1>2, <1>3, <1>7, <1>9 DEF LookedUp, CertAt
  <2>2. /\ DOMAIN a = CallFields /\ a.api = q.api /\ a.certs = q.certs /\ a.at = i + 1
        /\ a.spawned = q.spawned /\ a.results = q.results
        /\ a.pending = Append(q.pending, i)
    BY <1>4, <2>1 DEF CallFields
  <2>3. /\ q.pending \in Seq(Nat) /\ Len(q.pending) \in Nat /\ DOMAIN q.pending = 1 .. Len(q.pending)
    BY <1>5, LenProperties DEF PendingOK
  <2>4. PICK longer \in Seq(Nat) : longer = a.pending /\ Extended(q.pending, i, longer)
    BY <1>6, <2>2, <2>3, AppendExtends
  <2>5. /\ Len(longer) = Len(q.pending) + 1 /\ DOMAIN longer = 1 .. Len(q.pending) + 1
        /\ \A k \in 1 .. Len(q.pending) : longer[k] = q.pending[k]
        /\ longer[Len(q.pending) + 1] = i
    BY <2>3, <2>4, LenProperties DEF Extended
  <2>6. \A n \in 1 .. Len(q.pending) :
          q.pending[n] \in DOMAIN q.certs /\ q.pending[n] \in Nat /\ q.pending[n] < i
    <3> TAKE n \in 1 .. Len(q.pending)
    <3>1. q.pending[n] \in Nat /\ n \in DOMAIN q.pending
      BY <2>3, ElementOfSeq
    <3>2. q.pending[n] \in DOMAIN q.certs
      BY <1>5, <3>1, Zenon DEF PendingOK
    <3>3. q.pending[n] < i
      BY <1>3, <1>5, <3>1, Zenon DEF LookupOK
    <3> QED
      BY <3>1, <3>2, <3>3
  <2>7. PendingOK(a)
    <3>1. \A n \in DOMAIN longer : longer[n] \in DOMAIN q.certs
      <4> TAKE n \in DOMAIN longer
      <4>1. n \in 1 .. Len(q.pending) \/ n = Len(q.pending) + 1
        BY <2>3, <2>5
      <4>2. CASE n \in 1 .. Len(q.pending)
        BY <2>5, <2>6, <4>2, Zenon
      <4>3. CASE n = Len(q.pending) + 1
        BY <1>6, <2>5, <4>3, Zenon
      <4> QED
        BY <4>1, <4>2, <4>3
    <3>2. ASSUME NEW m \in DOMAIN longer, NEW n \in DOMAIN longer, m < n
          PROVE  longer[m] < longer[n]
      <4>1. m \in 1 .. Len(q.pending) /\ (n \in 1 .. Len(q.pending) \/ n = Len(q.pending) + 1)
        <5>1. m \in 1 .. Len(q.pending) + 1 /\ n \in 1 .. Len(q.pending) + 1 /\ Len(q.pending) \in Nat
          BY <2>3, <2>5
        <5> QED
          BY <3>2, <5>1, TwoPositions, Zenon
      <4>2. CASE n \in 1 .. Len(q.pending)
        BY <1>5, <2>3, <2>5, <3>2, <4>1, <4>2 DEF PendingOK
      <4>3. CASE n = Len(q.pending) + 1
        BY <2>5, <2>6, <4>1, <4>3
      <4> QED
        BY <4>1, <4>2, <4>3
    <3> QED
      BY <2>2, <2>4, <3>1, <3>2 DEF PendingOK
  <2>8. Len(a.pending) < a.at /\ \A n \in DOMAIN a.pending : a.pending[n] < a.at
    <3>1. Len(q.pending) < i
      BY <1>3, <1>5 DEF LookupOK
    <3>2. Len(longer) < i + 1
      BY <1>6, <2>3, <2>5, <3>1
    <3>3. ASSUME NEW n \in DOMAIN longer PROVE longer[n] < i + 1
      <4>1. n \in 1 .. Len(q.pending) \/ n = Len(q.pending) + 1
        BY <2>3, <2>5
      <4>2. CASE n \in 1 .. Len(q.pending)
        <5>1. longer[n] = q.pending[n] /\ q.pending[n] \in Nat /\ q.pending[n] < i
          BY <2>5, <2>6, <4>2, Zenon
        <5> QED
          BY <1>6, <5>1
      <4>3. CASE n = Len(q.pending) + 1
        <5>1. longer[n] = i
          BY <2>5, <4>3, Zenon
        <5> QED
          BY <1>6, <5>1
      <4> QED
        BY <4>1, <4>2, <4>3
    <3> QED
      BY <2>2, <2>4, <3>2, <3>3
  <2>9. ASSUME NEW j \in 1 .. a.at - 1
        PROVE  InPending(a, j) \/ OkEntry(a.certs[j], a.results[j])
    <3>1. CASE j = i
      <4>1. Len(q.pending) + 1 \in DOMAIN longer
        BY <2>3, <2>5
      <4> QED
        BY <2>4, <2>5, <3>1, <4>1 DEF InPending
    <3>2. CASE j # i
      <4>1. j \in 1 .. q.at - 1
        BY <1>3, <1>6, <2>2, <3>2
      <4>2. InPending(q, j) \/ OkEntry(q.certs[j], q.results[j])
        BY <1>5, <4>1 DEF LookupOK
      <4>3. InPending(q, j) => InPending(a, j)
        <5> SUFFICES ASSUME NEW n \in DOMAIN q.pending, q.pending[n] = j
                     PROVE  \E m \in DOMAIN longer : longer[m] = j
          BY <2>4 DEF InPending
        <5>1. n \in 1 .. Len(q.pending) /\ n \in 1 .. Len(q.pending) + 1
          BY <2>3
        <5> QED
          BY <2>5, <5>1, Zenon
      <4> QED
        BY <2>2, <4>2, <4>3
    <3> QED
      BY <3>1, <3>2
  <2> QED
    BY <1>1, <1>2, <1>3, <2>2, <2>7, <2>8, <2>9 DEF Looked
<1> QED
  BY <1>8, <1>9

\* After the last look the call is answered from the cache, or every input has a result or is pending.
LEMMA LookupExact ==
  ASSUME IInv, EInv, NEW t \in Threads, Lookup(t)
  PROVE  EInv'
<1>1. PICK q : q = call[t]
  OBVIOUS
<1>2. PICK a : a = LookedUp(t)
  OBVIOUS
<1>3. pc[t] = "lookup" /\ UNCHANGED cache
  BY DEF Lookup
<1>4. Looked(q, a)
  BY <1>1, <1>2, <1>3, LookupStep
<1>5. /\ DOMAIN call = Threads /\ DOMAIN read = Threads /\ DOMAIN pc = Threads /\ DOMAIN child = Threads
      /\ CallOK(q, "lookup") /\ q.certs \in Seq(Certs) /\ Len(q.certs) \in Nat
      /\ DOMAIN q.certs = 1 .. Len(q.certs) /\ DOMAIN q.results = DOMAIN q.certs
      /\ DOMAIN read[t] = {"out", "err"}
  BY <1>1, <1>3, CallShape DEF ThreadIs
<1>6. LookupOK(q)
  BY <1>5 DEF CallOK
<1>7. /\ a.certs = q.certs /\ a.api = q.api /\ a.at \in Nat /\ a.at = q.at + 1 /\ q.at \in 1 .. Len(q.certs)
      /\ DOMAIN a.results = DOMAIN q.certs /\ a.spawned = 0
  BY <1>4, <1>5, <1>6 DEF Looked, LookupOK
<1>8. /\ q.api = "cert" => Len(q.certs) = 1
      /\ q.api = "list" => q.certs = <<>>
  BY <1>5 DEF CallOK
<1>9. ASSUME NEW p \in {"lookup", "spawn"}, CallOK(a, p), call' = [call EXCEPT ![t] = a], pc'[t] = p,
             \A u \in Threads \ {t} : pc'[u] = pc[u], UNCHANGED <<child, read>>
      PROVE  EInv'
  <2>1. OthersStay(t) /\ call'[t] = a
    BY <1>5, <1>9 DEF OthersStay
  <2>2. ThreadIs(a, p, child'[t], read'[t])
    BY <1>5, <1>9 DEF ThreadIs, ChildPhases
  <2> QED
    BY <1>3, <1>9, <2>1, <2>2, CacheStays, OneThread
<1>10. CASE a.at <= Len(a.certs)
  <2>1. LookupOK(a)
    BY <1>4, <1>5, <1>6, <1>7, <1>10 DEF Looked, LookupOK
  <2>2. CallOK(a, "lookup")
    BY <1>4, <1>5, <1>7, <1>8, <2>1 DEF CallOK, ChildPhases, Looked
  <2>3. call' = [call EXCEPT ![t] = a] /\ UNCHANGED <<pc, child, read>>
    BY <1>2, <1>10 DEF Lookup
  <2> QED
    BY <1>3, <1>9, <2>2, <2>3
<1>11. CASE ~(a.at <= Len(a.certs))
  <2>1. q.at = Len(q.certs) /\ 1 .. a.at - 1 = DOMAIN q.certs
    BY <1>5, <1>7, <1>11
  <2>2. \A i \in DOMAIN q.certs : InPending(a, i) \/ OkEntry(q.certs[i], a.results[i])
    BY <1>4, <1>7, <2>1 DEF Looked
  <2>3. CASE a.pending = <<>>
    <3>1. Finish(t, a.results, "Ok")
      BY <1>2, <1>11, <2>3 DEF Lookup
    <3>2. \A i \in DOMAIN q.certs : OkEntry(q.certs[i], a.results[i])
      BY <2>2, <2>3, EmptySeq DEF InPending
    <3>3. Answers(q, a.results, "Ok")
      BY <3>2 DEF Answers, RightEntry
    <3> QED
      BY <1>1, <1>3, <1>7, <3>1, <3>3, CacheStays, FinishExact
  <2>4. CASE a.pending # <<>>
    <3>1. call' = [call EXCEPT ![t] = a] /\ pc' = [pc EXCEPT ![t] = "spawn"] /\ UNCHANGED <<child, read>>
      BY <1>2, <1>11, <2>4 DEF Lookup, Goto
    <3>2. PICK s \in Seq(Nat) : s = a.pending
      BY <1>4 DEF Looked, PendingOK
    <3>3. Len(s) \in Nat /\ Len(s) # 0 /\ DOMAIN s = 1 .. Len(s)
      BY <2>4, <3>2, EmptySeq, LenProperties
    <3>4. q.api = "cert" => Len(s) = 1 /\ s[1] = 1
      <4> SUFFICES ASSUME q.api = "cert" PROVE Len(s) = 1 /\ s[1] = 1
        OBVIOUS
      <4>1. Len(q.certs) = 1 /\ q.at = 1
        BY <1>8, <2>1
      <4>2. a.at = 2
        BY <1>7, <4>1
      <4>3. Len(s) < 2
        BY <1>4, <3>2, <4>2, Zenon DEF Looked
      <4>4. 1 \in DOMAIN s
        BY <3>3
      <4>5. s[1] \in DOMAIN q.certs
        BY <1>4, <1>7, <3>2, <4>4, Zenon DEF Looked, PendingOK
      <4> QED
        BY <1>5, <3>3, <4>1, <4>3, <4>5
    <3>5. Cardinality(Handled(a)) \in Nat
      BY <1>5, <1>7, HandledIsFinite
    <3>6. RunOK(a, 0)
      BY <1>7, <2>2, <3>2, <3>4, <3>5 DEF RunOK, RightEntry
    <3>7. CallOK(a, "spawn")
      BY <1>4, <1>5, <1>7, <1>8, <3>6 DEF CallOK, ChildPhases, Looked
    <3> QED
      BY <1>5, <1>9, <3>1, <3>7
  <2> QED
    BY <2>3, <2>4
<1> QED
  BY <1>10, <1>11

-----------------------------------------------------------------------------
(* What the caller makes of the output. *)

\* A non-empty set of positions has a last one.
LEMMA LastPosition ==
  ASSUME NEW n \in Nat, NEW S \in SUBSET (1 .. n), S # {}
  PROVE  \E x \in S : \A y \in S : y <= x
<1> DEFINE R == OpToRel(<, Nat)
           T == {n - x : x \in S}
<1>1. T \in SUBSET Nat /\ T # {}
  <2>1. \A x \in S : n - x \in Nat
    OBVIOUS
  <2>2. PICK x \in S : TRUE
    OBVIOUS
  <2>3. n - x \in T
    BY <2>2
  <2> QED
    BY <2>1, <2>3
<1>2. PICK m \in T : \A y \in T : ~(<<y, m>> \in R)
  <2>1. IsWellFoundedOn(R, Nat)
    BY NatLessThanWellFounded
  <2> HIDE DEF R, T
  <2> QED
    BY <1>1, <2>1, WFMin
<1>3. ASSUME NEW y \in T PROVE ~(y < m)
  <2>1. y < m => <<y, m>> \in R
    BY <1>1 DEF OpToRel
  <2> QED
    BY <1>2, <2>1
<1>4. PICK x \in S : m = n - x
  OBVIOUS
<1>5. \A y \in S : y <= x
  <2> TAKE y \in S
  <2>1. n - y \in T
    OBVIOUS
  <2>2. ~(n - y < n - x)
    BY <1>3, <1>4, <2>1
  <2>3. x \in Nat /\ y \in Nat
    OBVIOUS
  <2> QED
    BY <2>2, <2>3
<1> QED
  BY <1>5

(* Every line of lines is the report of the pending input with its number. *)
About(q, lines) ==
  /\ Len(lines) \in Nat /\ DOMAIN lines = 1 .. Len(lines) /\ Len(lines) <= Len(q.pending)
  /\ \A k \in 1 .. Len(lines) :
       lines[k] = Report[q.certs[q.pending[k]]] /\ q.certs[q.pending[k]] \notin Garbage

\* The output of a child that ended well, or that complained, is whole lines, and the complaint is
\* about the input after the last of them.
LEMMA OutputIs ==
  ASSUME NEW q, NEW c, NEW r, ThreadIs(q, "apply", c, r), q.api # "list",
         c.status = "success" \/ LooksMalformed(r.err)
  PROVE  /\ About(q, r.out)
         /\ c.status = "success" => Len(r.out) = Len(q.pending)
         /\ LooksMalformed(r.err) =>
              Len(r.out) + 1 \in 1 .. Len(q.pending) /\ q.certs[q.pending[Len(r.out) + 1]] \in Garbage
<1>1. /\ CallOK(q, "apply") /\ StreamOK(InputOf(q), c, r) /\ c.out = <<>> /\ c.state = "exited"
  BY DEF ThreadIs, ChildPhases
<1>2. PICK inp : inp = InputOf(q)
  OBVIOUS
<1>3. /\ inp \in Seq(Certs) /\ Len(inp) = Len(q.pending) /\ Len(inp) \in Nat
      /\ \A k \in 1 .. Len(q.pending) : inp[k] = q.certs[q.pending[k]]
  BY <1>1, <1>2, InputIs
<1>4. PICK n \in Nat :
        /\ Flow(inp, n, c.todo, c.out, r.out)
        /\ \/ Whole(n, c.out, r.out)
           \/ ~Complained(c, r) /\ c.status # "success"
        /\ Complained(c, r) => c.todo # <<>> /\ c.todo[1] \in Garbage
        /\ (c.state = "exited" /\ c.status = "success") => c.todo = <<>>
  BY <1>1, <1>2, Zenon DEF StreamOK
<1>5. PICK lines : lines = r.out
  OBVIOUS
<1>6. PICK todo : todo = c.todo
  OBVIOUS
<1>7. LooksMalformed(r.err) => Complained(c, r)
  BY DEF Complained
<1>8. Whole(n, <<>>, lines)
  BY <1>1, <1>4, <1>5, <1>7
<1>9. /\ todo \in Seq(Certs) /\ lines \in Seq(Lines) /\ Len(inp) = n + Len(todo)
      /\ \A k \in 1 .. Len(todo) : todo[k] = inp[n + k]
      /\ \A k \in 1 .. n : inp[k] \notin Garbage
      /\ \A k \in 1 .. Len(lines) : lines[k] = Line(inp, n, k)
  BY <1>4, <1>5, <1>6 DEF Flow
<1>10. Len(lines) \in Nat /\ Len(todo) \in Nat /\ DOMAIN lines = 1 .. Len(lines)
  BY <1>9, LenProperties
<1>11. Len(lines) = n
  <2>1. PICK none : none = Len(<<>>)
    OBVIOUS
  <2>2. none = 0
    BY <2>1
  <2>3. Len(lines) + 0 = n
    BY <1>8, <2>1, <2>2, Zenon DEF Whole
  <2>4. Len(lines) \in Nat
    BY <1>10
  <2> QED
    BY <2>3, <2>4
<1>12. n <= Len(q.pending)
  BY <1>3, <1>9, <1>10
<1>13. ASSUME NEW k \in 1 .. n
       PROVE  lines[k] = Report[q.certs[q.pending[k]]] /\ q.certs[q.pending[k]] \notin Garbage
  <2>1. k <= n /\ k \in 1 .. Len(q.pending)
    BY <1>3, <1>12
  <2>2. lines[k] = Line(inp, n, k) /\ inp[k] \notin Garbage
    BY <1>9, <1>11
  <2>3. Line(inp, n, k) = Report[inp[k]]
    BY <2>1 DEF Line
  <2> QED
    BY <1>3, <2>1, <2>2, <2>3
<1>14. About(q, lines)
  BY <1>10, <1>11, <1>12, <1>13 DEF About
<1>15. c.status = "success" => n = Len(q.pending)
  <2> SUFFICES ASSUME c.status = "success" PROVE n = Len(q.pending)
    OBVIOUS
  <2>1. todo = <<>>
    BY <1>1, <1>4, <1>6
  <2>2. Len(todo) = 0
    BY <2>1
  <2> QED
    BY <1>3, <1>9, <2>2
<1>16. LooksMalformed(r.err) => n + 1 \in 1 .. Len(q.pending) /\ q.certs[q.pending[n + 1]] \in Garbage
  <2> SUFFICES ASSUME LooksMalformed(r.err)
               PROVE  n + 1 \in 1 .. Len(q.pending) /\ q.certs[q.pending[n + 1]] \in Garbage
    OBVIOUS
  <2>1. todo # <<>> /\ todo[1] \in Garbage
    BY <1>4, <1>6, <1>7
  <2>2. Len(todo) >= 1
    BY <1>9, <2>1, TailShortens
  <2>3. n + 1 \in 1 .. Len(q.pending) /\ 1 \in 1 .. Len(todo)
    BY <1>3, <1>9, <1>10, <2>2
  <2>4. todo[1] = inp[n + 1]
    BY <1>9, <2>3
  <2> QED
    BY <1>3, <2>1, <2>3, <2>4
<1> QED
  BY <1>5, <1>11, <1>14, <1>15, <1>16

\* A line that parses is a good entry for the input it is about.
LEMMA LineIsEntry ==
  ASSUME NEW q, NEW lines, About(q, lines), \A k \in DOMAIN lines : Parses(lines[k]),
         NEW k \in DOMAIN lines
  PROVE  OkEntry(q.certs[q.pending[k]], Ok(VerdictMap(lines[k])))
<1>1. k \in 1 .. Len(lines)
  BY DEF About
<1>2. lines[k] = Report[q.certs[q.pending[k]]] /\ q.certs[q.pending[k]] \notin Garbage /\ Parses(lines[k])
  BY <1>1 DEF About
<1> QED
  BY <1>2 DEF OkEntry

\* What is stored is filed under the certificate it is about.
LEMMA StoreExact ==
  ASSUME EInv, NEW t \in Threads, NEW lines, About(call[t], lines),
         \A k \in DOMAIN lines : Parses(lines[k]),
         cache' = Stored(t, lines, Slots(call[t].pending, lines))
  PROVE  CacheOK'
<1>1. PICK q : q = call[t]
  OBVIOUS
<1>2. PICK slots : slots = Slots(q.pending, lines)
  OBVIOUS
<1>3. Len(lines) \in Nat /\ DOMAIN lines = 1 .. Len(lines)
  BY DEF About
<1>4. \A k \in DOMAIN lines : slots[k] = q.pending[k]
  BY <1>2, <1>3 DEF Slots
<1>5. DOMAIN cache' = Certs
  BY DEF Stored
<1>6. ASSUME NEW c \in Certs, cache'[c] # None
      PROVE  OkEntry(c, Ok(cache'[c]))
  <2> DEFINE K == {k \in DOMAIN lines : CertAt(t, slots[k]) = c}
  <2>1. CASE K # {}
    <3>1. \E k \in K : \A j \in K : j <= k
      BY <1>3, <2>1, LastPosition
    <3>2. \E k \in DOMAIN lines :
            CertAt(t, slots[k]) = c /\ \A j \in DOMAIN lines : CertAt(t, slots[j]) = c => j <= k
      BY <3>1
    <3>3. PICK k : k = CHOOSE m \in DOMAIN lines :
                      CertAt(t, slots[m]) = c /\ \A j \in DOMAIN lines : CertAt(t, slots[j]) = c => j <= m
      OBVIOUS
    <3>4. k \in DOMAIN lines /\ CertAt(t, slots[k]) = c
      BY <3>2, <3>3
    <3>5. cache'[c] = VerdictMap(lines[k])
      <4>1. \E j \in DOMAIN lines : CertAt(t, slots[j]) = c
        BY <3>2
      <4> QED
        BY <1>1, <1>2, <3>3, <4>1 DEF Stored
    <3>6. q.certs[q.pending[k]] = c
      BY <1>1, <1>4, <3>4 DEF CertAt
    <3> QED
      BY <1>1, <3>4, <3>5, <3>6, LineIsEntry
  <2>2. CASE K = {}
    <3>1. ~\E k \in DOMAIN lines : CertAt(t, slots[k]) = c
      BY <2>2
    <3>2. cache'[c] = cache[c]
      BY <1>1, <1>2, <3>1 DEF Stored
    <3> QED
      BY <1>6, <3>2 DEF EInv, CacheOK
  <2> QED
    BY <2>1, <2>2
<1> QED
  BY <1>5, <1>6 DEF CacheOK

\* The results after the output is filed: right for every line, as before elsewhere.
LEMMA FillExact ==
  ASSUME NEW q, NEW lines, About(q, lines), \A k \in DOMAIN lines : Parses(lines[k]),
         NEW results, results = Filled(q.results, lines, Slots(q.pending, lines))
  PROVE  /\ DOMAIN results = DOMAIN q.results
         /\ \A i \in DOMAIN q.results :
              \/ (\E k \in DOMAIN lines : q.pending[k] = i) /\ OkEntry(q.certs[i], results[i])
              \/ (~\E k \in DOMAIN lines : q.pending[k] = i) /\ results[i] = q.results[i]
<1>1. PICK slots : slots = Slots(q.pending, lines)
  OBVIOUS
<1>2. DOMAIN lines = 1 .. Len(lines)
  BY DEF About
<1>3. \A k \in DOMAIN lines : slots[k] = q.pending[k]
  BY <1>1, <1>2 DEF Slots
<1>4. ASSUME NEW i \in DOMAIN q.results, NEW j \in DOMAIN lines, q.pending[j] = i
      PROVE  OkEntry(q.certs[i], results[i])
  <2>1. \E k \in DOMAIN lines : slots[k] = i
    BY <1>3, <1>4
  <2>2. PICK k : k = CHOOSE m \in DOMAIN lines : slots[m] = i
    OBVIOUS
  <2>3. k \in DOMAIN lines /\ slots[k] = i
    BY <2>1, <2>2
  <2>4. results[i] = Ok(VerdictMap(lines[k]))
    BY <1>1, <2>1, <2>2 DEF Filled
  <2>5. q.pending[k] = i
    BY <1>3, <2>3
  <2> QED
    BY <2>3, <2>4, <2>5, LineIsEntry
<1>5. ASSUME NEW i \in DOMAIN q.results, ~\E k \in DOMAIN lines : q.pending[k] = i
      PROVE  results[i] = q.results[i]
  <2>1. ~\E k \in DOMAIN lines : slots[k] = i
    BY <1>3, <1>5
  <2> QED
    BY <1>1, <2>1 DEF Filled
<1>6. DOMAIN results = DOMAIN q.results
  BY DEF Filled
<1> QED
  BY <1>4, <1>5, <1>6

\* What is left of the pending positions after m of them and the next one are done with.
LEMMA RestIs ==
  ASSUME NEW s \in Seq(Nat), NEW m \in Nat, m + 1 \in 1 .. Len(s)
  PROVE  /\ Rest(s, m) \in Seq(Nat) /\ Len(Rest(s, m)) \in Nat
         /\ Len(Rest(s, m)) + m + 1 = Len(s)
         /\ DOMAIN Rest(s, m) = 1 .. Len(Rest(s, m))
         /\ \A k \in 1 .. Len(Rest(s, m)) : Rest(s, m)[k] = s[m + 1 + k]
<1>1. Len(s) \in Nat
  BY LenProperties
<1>2. \A i \in m + 2 .. Len(s) : s[i] \in Nat
  BY <1>1, ElementOfSeq
<1>3. PICK rest : rest = SubSeq(s, m + 2, Len(s))
  OBVIOUS
<1>4. /\ rest \in Seq(Nat)
      /\ Len(rest) = IF m + 2 <= Len(s) THEN Len(s) - (m + 2) + 1 ELSE 0
      /\ \A i \in 1 .. Len(s) - (m + 2) + 1 : rest[i] = s[m + 2 + i - 1]
  BY <1>1, <1>2, <1>3, SubSeqProperties
<1>5. Len(rest) \in Nat /\ DOMAIN rest = 1 .. Len(rest)
  BY <1>4, LenProperties
<1>6. Len(rest) + m + 1 = Len(s)
  BY <1>1, <1>4, <1>5
<1>7. ASSUME NEW k \in 1 .. Len(rest)
      PROVE  rest[k] = s[m + 1 + k]
  <2>1. k \in 1 .. Len(s) - (m + 2) + 1 /\ m + 2 + k - 1 = m + 1 + k
    BY <1>1, <1>5, <1>6
  <2> QED
    BY <1>4, <2>1
<1> QED
  BY <1>3, <1>4, <1>5, <1>6, <1>7 DEF Rest

(* Call q after m lines and a complaint: the lines are filed, the input    *)
(* after them is malformed, the others stay pending.                       *)
Continued(q, results, m) ==
  [q EXCEPT !.pending = Rest(q.pending, m),
            !.results = [results EXCEPT ![q.pending[m + 1]] = Err("MalformedDer")]]

\* The loop of run_on_certs keeps what it has, and has one more unparsable input behind it.
LEMMA ContinueExact ==
  ASSUME NEW q, CallOK(q, "apply"), q.api = "certs", NEW lines, About(q, lines),
         \A k \in DOMAIN lines : Parses(lines[k]), NEW m, m = Len(lines),
         m + 1 \in 1 .. Len(q.pending), q.certs[q.pending[m + 1]] \in Garbage,
         NEW results, results = Filled(q.results, lines, Slots(q.pending, lines)),
         NEW a, a = Continued(q, results, m)
  PROVE  /\ CallOK(a, "spawn") /\ DOMAIN a.results = DOMAIN q.certs
         /\ a.pending = <<>> => Answers(q, a.results, "Ok")
<1>1. /\ DOMAIN q = CallFields /\ q.certs \in Seq(Certs) /\ q.at \in Nat /\ q.spawned \in Nat
      /\ DOMAIN q.results = DOMAIN q.certs
      /\ PendingOK(q) /\ RunOK(q, 1)
  BY DEF CallOK, ChildPhases
<1>2. PICK s : s = q.pending
  OBVIOUS
<1>3. PICK g : g = s[m + 1]
  OBVIOUS
<1>4. m \in Nat /\ DOMAIN lines = 1 .. m
  BY DEF About
<1>5. s \in Seq(Nat) /\ Len(s) \in Nat /\ DOMAIN s = 1 .. Len(s)
  BY <1>1, <1>2, LenProperties DEF PendingOK
<1>6. PICK rest : rest = Rest(s, m)
  OBVIOUS
<1>7. /\ rest \in Seq(Nat) /\ Len(rest) \in Nat /\ Len(rest) + m + 1 = Len(s)
      /\ DOMAIN rest = 1 .. Len(rest) /\ \A k \in 1 .. Len(rest) : rest[k] = s[m + 1 + k]
  BY <1>2, <1>4, <1>5, <1>6, RestIs, ZenonT(30)
<1>len. m \in Nat /\ Len(s) \in Nat /\ Len(rest) \in Nat /\ Len(rest) + m + 1 = Len(s)
  BY <1>4, <1>5, <1>7, Zenon
<1>8. /\ DOMAIN a = CallFields /\ a.api = q.api /\ a.certs = q.certs /\ a.at = q.at /\ a.spawned = q.spawned
      /\ a.pending = rest /\ a.results = [results EXCEPT ![g] = Err("MalformedDer")]
  BY <1>1, <1>2, <1>3, <1>6 DEF Continued, CallFields
<1>9. /\ DOMAIN results = DOMAIN q.certs
      /\ \A i \in DOMAIN q.certs :
           \/ (\E k \in DOMAIN lines : s[k] = i) /\ OkEntry(q.certs[i], results[i])
           \/ (~\E k \in DOMAIN lines : s[k] = i) /\ results[i] = q.results[i]
  <2>1. /\ DOMAIN results = DOMAIN q.results
        /\ \A i \in DOMAIN q.results :
             \/ (\E k \in DOMAIN lines : q.pending[k] = i) /\ OkEntry(q.certs[i], results[i])
             \/ (~\E k \in DOMAIN lines : q.pending[k] = i) /\ results[i] = q.results[i]
    BY FillExact
  <2>2. DOMAIN q.results = DOMAIN q.certs
    BY <1>1
  <2> QED
    BY <1>2, <2>1, <2>2, Zenon
<1>10. DOMAIN a.results = DOMAIN q.certs
  BY <1>8, <1>9
<1>11. /\ \A k \in 1 .. Len(s) : s[k] \in DOMAIN q.certs /\ s[k] \in Nat
       /\ \A j, k \in 1 .. Len(s) : j < k => s[j] < s[k]
  <2>1. \A k \in 1 .. Len(s) : s[k] \in Nat
    BY <1>5, ElementOfSeq
  <2> QED
    BY <1>1, <1>2, <1>5, <2>1 DEF PendingOK
<1>12. \A k \in 1 .. Len(rest) : m + 1 + k \in 1 .. Len(s) /\ m + 1 + k \in Nat
  BY <1>len
<1>13. PendingOK(a)
  <2>1. \A k \in DOMAIN rest : rest[k] \in DOMAIN q.certs
    BY <1>7, <1>11, <1>12
  <2>2. ASSUME NEW j \in DOMAIN rest, NEW k \in DOMAIN rest, j < k
        PROVE  rest[j] < rest[k]
    <3>1. j \in 1 .. Len(rest) /\ k \in 1 .. Len(rest) /\ m + 1 + j < m + 1 + k
      BY <1>4, <1>7, <2>2
    <3>2. s[m + 1 + j] < s[m + 1 + k]
      BY <1>11, <1>12, <3>1
    <3> QED
      BY <1>7, <3>1, <3>2
  <2> QED
    BY <1>7, <1>8, <2>1, <2>2 DEF PendingOK
<1>14. g \in DOMAIN q.certs /\ q.certs[g] \in Garbage /\ InPending(q, g) /\ ~InPending(a, g)
  <2>1. g \in DOMAIN q.certs /\ q.certs[g] \in Garbage
    BY <1>2, <1>3, <1>11
  <2>2. InPending(q, g)
    BY <1>2, <1>3, <1>5 DEF InPending
  <2>3. ASSUME NEW k \in DOMAIN rest PROVE rest[k] # g
    <3>1. k \in 1 .. Len(rest) /\ m + 1 < m + 1 + k
      BY <1>4, <1>7
    <3>2. s[m + 1] < s[m + 1 + k]
      BY <1>2, <1>11, <1>12, <3>1
    <3>3. s[m + 1] \in Nat
      BY <1>2, <1>11
    <3> QED
      BY <1>3, <1>7, <3>1, <3>2, <3>3
  <2> QED
    BY <1>8, <2>1, <2>2, <2>3 DEF InPending
<1>15. ASSUME NEW i \in DOMAIN q.certs
       PROVE  InPending(a, i) \/ RightEntry(q.certs[i], a.results[i])
  <2>1. CASE i = g
    <3>1. a.results[i] = Err("MalformedDer")
      BY <1>8, <1>9, <2>1
    <3> QED
      BY <1>14, <2>1, <3>1 DEF RightEntry
  <2>2. CASE i # g
    <3>1. a.results[i] = results[i]
      BY <1>8, <1>9, <2>2
    <3>2. CASE \E k \in DOMAIN lines : s[k] = i
      BY <1>9, <3>1, <3>2 DEF RightEntry
    <3>3. CASE ~\E k \in DOMAIN lines : s[k] = i
      <4>1. a.results[i] = q.results[i]
        BY <1>9, <3>1, <3>3
      <4>2. InPending(q, i) => InPending(a, i)
        <5> SUFFICES ASSUME NEW n \in DOMAIN s, s[n] = i
                     PROVE  \E k \in DOMAIN rest : rest[k] = i
          BY <1>2, <1>8 DEF InPending
        <5>1. n \in 1 .. Len(s) /\ ~(n \in 1 .. m) /\ n # m + 1
          BY <1>3, <1>4, <1>5, <2>2, <3>3
        <5>2. n - (m + 1) \in 1 .. Len(rest) /\ m + 1 + (n - (m + 1)) = n
          BY <1>len, <5>1, SMTT(30)
        <5>3. rest[n - (m + 1)] = s[n]
          BY <1>7, <5>2
        <5> QED
          BY <1>7, <5>2, <5>3
      <4>3. InPending(q, i) \/ RightEntry(q.certs[i], q.results[i])
        BY <1>1 DEF RunOK
      <4> QED
        BY <4>1, <4>2, <4>3
    <3> QED
      BY <3>2, <3>3
  <2> QED
    BY <2>1, <2>2
<1>16. a.spawned <= 0 + Cardinality(Handled(a))
  <2>1. IsFiniteSet(Handled(q)) /\ Cardinality(Handled(q)) \in Nat
    BY <1>1, HandledIsFinite
  <2>2. IsFiniteSet(Handled(a)) /\ Cardinality(Handled(a)) \in Nat
    BY <1>1, <1>8, HandledIsFinite
  <2>3. g \notin Handled(q) /\ g \in Handled(a)
    BY <1>8, <1>14 DEF Handled
  <2>4. Handled(q) \subseteq Handled(a)
    <3>1. ASSUME NEW i, InPending(a, i) PROVE InPending(q, i)
      <4>1. PICK k \in DOMAIN rest : rest[k] = i
        BY <1>8, <3>1 DEF InPending
      <4>2. m + 1 + k \in DOMAIN s /\ s[m + 1 + k] = i
        BY <1>5, <1>7, <1>12, <4>1
      <4> QED
        BY <1>2, <4>2 DEF InPending
    <3> QED
      BY <1>8, <3>1 DEF Handled
  <2>5. Cardinality(Handled(q) \cup {g}) = Cardinality(Handled(q)) + 1
    BY <2>1, <2>3, FS_AddElement
  <2>6. Handled(q) \cup {g} \subseteq Handled(a)
    BY <2>3, <2>4
  <2>7. Cardinality(Handled(q) \cup {g}) <= Cardinality(Handled(a))
    BY <2>2, <2>6, FS_Subset
  <2>8. q.spawned <= 1 + Cardinality(Handled(q))
    BY <1>1 DEF RunOK
  <2> QED
    BY <1>1, <1>8, <2>1, <2>2, <2>5, <2>7, <2>8
<1>17. RunOK(a, 0)
  BY <1>8, <1>15, <1>16 DEF RunOK
<1>18. CallOK(a, "spawn")
  BY <1>1, <1>8, <1>10, <1>13, <1>17 DEF CallOK, ChildPhases
<1>19. a.pending = <<>> => Answers(q, a.results, "Ok")
  <2> SUFFICES ASSUME a.pending = <<>> PROVE Answers(q, a.results, "Ok")
    OBVIOUS
  <2>1. \A i : ~InPending(a, i)
    BY EmptySeq DEF InPending
  <2> QED
    BY <1>15, <2>1 DEF Answers
<1> QED
  BY <1>10, <1>18, <1>19

\* run_pending_batch.
LEMMA ApplyBatchExact ==
  ASSUME IInv, EInv, NEW t \in Threads, pc[t] = "apply", call[t].api = "certs", ApplyBatch(t)
  PROVE  EInv'
<1>1. PICK q : q = call[t]
  OBVIOUS
<1>2. PICK lines : lines = read[t].out
  OBVIOUS
<1>3. PICK results : results = Filled(q.results, lines, Slots(q.pending, lines))
  OBVIOUS
<1>4. PICK c : c = child[t]
  OBVIOUS
<1>5. PICK r : r = read[t]
  OBVIOUS
<1>6. /\ ThreadIs(q, "apply", c, r) /\ q.api # "list" /\ CallOK(q, "apply")
      /\ DOMAIN q.results = DOMAIN q.certs
      /\ DOMAIN call = Threads /\ DOMAIN read = Threads /\ DOMAIN pc = Threads /\ DOMAIN child = Threads
  BY <1>1, <1>4, <1>5, CallShape
<1>7. ASSUME NEW answer \in {"OutputParseError", "SubprocessKilled", "SubprocessFailed"},
             Return(t, answer), CacheOK'
      PROVE  EInv'
  BY <1>7, ReturnExact
<1>8. ASSUME UNCHANGED cache PROVE CacheOK'
  BY <1>8, CacheStays
<1>9. CASE \E k \in DOMAIN lines : ~Parses(lines[k])
  BY <1>2, <1>7, <1>8, <1>9 DEF ApplyBatch
<1>10. CASE ~(\E k \in DOMAIN lines : ~Parses(lines[k])) /\ c.status = "success"
  <2>1. About(q, lines) /\ Len(lines) = Len(q.pending)
    BY <1>2, <1>5, <1>6, <1>10, OutputIs
  <2>2. cache' = Stored(t, lines, Slots(q.pending, lines)) /\ Finish(t, results, "Ok")
    BY <1>1, <1>2, <1>3, <1>4, <1>10, <2>1 DEF ApplyBatch
  <2>3. CacheOK'
    BY <1>1, <1>10, <2>1, <2>2, StoreExact
  <2>4. /\ DOMAIN results = DOMAIN q.certs
        /\ \A i \in DOMAIN q.certs :
             \/ (\E k \in DOMAIN lines : q.pending[k] = i) /\ OkEntry(q.certs[i], results[i])
             \/ (~\E k \in DOMAIN lines : q.pending[k] = i) /\ results[i] = q.results[i]
    BY <1>3, <1>6, <1>10, <2>1, FillExact
  <2>5. ASSUME NEW i \in DOMAIN q.certs PROVE RightEntry(q.certs[i], results[i])
    <3>1. DOMAIN q.pending = DOMAIN lines
      <4>1. q.pending \in Seq(Nat)
        BY <1>6 DEF CallOK, PendingOK
      <4>2. DOMAIN q.pending = 1 .. Len(q.pending)
        BY <4>1, LenProperties
      <4> QED
        BY <2>1, <4>2 DEF About
    <3>2. InPending(q, i) \/ RightEntry(q.certs[i], q.results[i])
      BY <1>6 DEF CallOK, RunOK, ChildPhases
    <3> QED
      BY <2>4, <3>1, <3>2 DEF InPending, RightEntry
  <2>6. Answers(q, results, "Ok")
    BY <1>1, <2>5 DEF Answers
  <2> QED
    BY <1>1, <2>2, <2>3, <2>4, <2>6, FinishExact
<1>11. CASE ~(\E k \in DOMAIN lines : ~Parses(lines[k])) /\ c.status # "success" /\ ~LooksMalformed(r.err)
  BY <1>2, <1>4, <1>5, <1>7, <1>8, <1>11 DEF ApplyBatch, ClassifyExit
<1>12. CASE ~(\E k \in DOMAIN lines : ~Parses(lines[k])) /\ c.status # "success" /\ LooksMalformed(r.err)
  <2>1. PICK m : m = Len(lines)
    OBVIOUS
  <2>2. /\ About(q, lines) /\ m + 1 \in 1 .. Len(q.pending) /\ q.certs[q.pending[m + 1]] \in Garbage
    BY <1>2, <1>5, <1>6, <1>12, <2>1, OutputIs
  <2>3. m \in Nat /\ Len(q.pending) \in Nat
    <3>1. q.pending \in Seq(Nat)
      BY <1>6 DEF CallOK, PendingOK
    <3> QED
      BY <2>1, <2>2, <3>1, LenProperties DEF About
  <2>4. ~(m > Len(q.pending)) /\ m # Len(q.pending)
    BY <2>2, <2>3
  <2>5. PICK a : a = Continued(q, results, m)
    OBVIOUS
  <2>6. /\ CallOK(a, "spawn") /\ DOMAIN a.results = DOMAIN q.certs
        /\ a.pending = <<>> => Answers(q, a.results, "Ok")
    BY <1>1, <1>3, <1>6, <1>12, <2>1, <2>2, <2>5, ContinueExact, SMTT(30)
  <2>7. DOMAIN q = CallFields
    BY <1>6 DEF CallOK
  <2>8. a.pending = Rest(q.pending, m)
    BY <2>5, <2>7 DEF Continued, CallFields
  <2>9. cache' = Stored(t, lines, Slots(q.pending, lines))
    BY <1>1, <1>2, <1>4, <1>5, <1>12, <2>1, <2>4 DEF ApplyBatch
  <2>10. CacheOK'
    BY <1>1, <1>12, <2>2, <2>9, StoreExact
  <2>11. CASE a.pending = <<>>
    <3>1. Finish(t, a.results, "Ok")
      BY <1>1, <1>2, <1>3, <1>4, <1>5, <1>12, <2>1, <2>4, <2>5, <2>8, <2>11 DEF ApplyBatch, Continued
    <3> QED
      BY <1>1, <2>6, <2>10, <2>11, <3>1, FinishExact
  <2>12. CASE a.pending # <<>>
    <3>1. /\ call' = [call EXCEPT ![t] = a] /\ pc' = [pc EXCEPT ![t] = "spawn"]
          /\ child' = [child EXCEPT ![t] = NoChild] /\ UNCHANGED read
      BY <1>1, <1>2, <1>3, <1>4, <1>5, <1>12, <2>1, <2>4, <2>5, <2>8, <2>12 DEF ApplyBatch, Continued, Goto
    <3>2. OthersStay(t) /\ call'[t] = a /\ pc'[t] = "spawn" /\ read'[t] = r
      BY <1>5, <1>6, <3>1 DEF OthersStay
    <3>3. DOMAIN r = {"out", "err"}
      BY <1>6 DEF ThreadIs
    <3>4. ThreadIs(a, "spawn", child'[t], r)
      BY <2>6, <3>3 DEF ThreadIs, ChildPhases
    <3> QED
      BY <2>10, <3>2, <3>4, OneThread
  <2> QED
    BY <2>11, <2>12
<1> QED
  BY <1>9, <1>10, <1>11, <1>12

\* run_on_cert.
LEMMA ApplyCertExact ==
  ASSUME IInv, EInv, NEW t \in Threads, pc[t] = "apply", call[t].api = "cert", ApplyCert(t)
  PROVE  EInv'
<1>1. PICK q : q = call[t]
  OBVIOUS
<1>2. PICK lines : lines = read[t].out
  OBVIOUS
<1>3. PICK c : c = child[t]
  OBVIOUS
<1>4. PICK r : r = read[t]
  OBVIOUS
<1>5. /\ ThreadIs(q, "apply", c, r) /\ q.api = "cert" /\ CallOK(q, "apply") /\ lines = r.out
      /\ q.certs \in Seq(Certs) /\ DOMAIN q.certs = 1 .. Len(q.certs)
  BY <1>1, <1>2, <1>3, <1>4, CallShape
<1>6. Len(q.certs) = 1 /\ Len(q.pending) = 1 /\ q.pending[1] = 1
  BY <1>5 DEF CallOK, RunOK, ChildPhases
<1>7. UNCHANGED cache => CacheOK'
  BY CacheStays
<1>8. CASE c.status # "success"
  <2>1. PICK answer : answer = ClassifyCertError(r.err)
    OBVIOUS
  <2>2. Return(t, answer) /\ UNCHANGED cache
    BY <1>3, <1>4, <1>8, <2>1 DEF ApplyCert
  <2>3. answer # "Ok" /\ (answer = "MalformedDer" => LooksMalformed(r.err))
    BY <2>1 DEF ClassifyCertError
  <2>4. LooksMalformed(r.err) => q.certs[1] \in Garbage
    <3> SUFFICES ASSUME LooksMalformed(r.err) PROVE q.certs[1] \in Garbage
      OBVIOUS
    <3>1. /\ Len(lines) + 1 \in 1 .. Len(q.pending) /\ q.certs[q.pending[Len(lines) + 1]] \in Garbage
          /\ Len(lines) \in Nat
      BY <1>5, OutputIs DEF About
    <3>2. Len(lines) + 1 = 1
      BY <1>6, <3>1
    <3> QED
      BY <1>6, <3>1, <3>2
  <2> QED
    BY <1>1, <1>7, <2>2, <2>3, <2>4, ReturnExact
<1>9. CASE c.status = "success" /\ (Len(lines) # 1 \/ ~Parses(lines[1]))
  <2>1. Return(t, "OutputParseError") /\ UNCHANGED cache
    BY <1>2, <1>3, <1>9 DEF ApplyCert
  <2> QED
    BY <1>7, <2>1, ReturnExact
<1>10. CASE c.status = "success" /\ Len(lines) = 1 /\ Parses(lines[1])
  <2>1. PICK v : v = VerdictMap(lines[1])
    OBVIOUS
  <2>2. cache' = [cache EXCEPT ![q.certs[1]] = v] /\ Finish(t, <<Ok(v)>>, "Ok")
    BY <1>1, <1>2, <1>3, <1>10, <2>1 DEF ApplyCert, CertAt
  <2>3. About(q, lines) /\ DOMAIN lines = 1 .. 1
    BY <1>5, <1>10, OutputIs DEF About
  <2>4. 1 \in DOMAIN lines /\ \A k \in DOMAIN lines : Parses(lines[k])
    BY <1>10, <2>3
  <2>5. OkEntry(q.certs[1], Ok(v))
    BY <1>6, <2>1, <2>3, <2>4, LineIsEntry
  <2>6. CacheOK'
    BY <2>2, <2>5 DEF EInv, CacheOK
  <2>7. PICK results : results = <<Ok(v)>>
    OBVIOUS
  <2>8. DOMAIN results = 1 .. 1 /\ results[1] = Ok(v)
    BY <2>7
  <2>9. Answers(q, results, "Ok")
    BY <1>5, <1>6, <2>5, <2>8 DEF Answers, RightEntry
  <2> QED
    BY <1>1, <1>5, <1>6, <2>2, <2>6, <2>7, <2>8, <2>9, FinishExact
<1> QED
  BY <1>8, <1>9, <1>10

\* enumerate_lints is about no certificate.
LEMMA ApplyListExact ==
  ASSUME IInv, EInv, NEW t \in Threads, call[t].api = "list", ApplyList(t)
  PROVE  EInv'
<1>1. PICK answer : Return(t, answer)
  BY DEF ApplyList
<1>2. CacheOK'
  BY CacheStays DEF ApplyList
<1>3. call[t].certs = <<>>
  BY CallShape DEF CallOK
<1>4. PICK results : results = [i \in DOMAIN call[t].certs |-> None]
  OBVIOUS
<1>5. DOMAIN results = DOMAIN call[t].certs /\ Finish(t, results, answer)
  BY <1>1, <1>4 DEF Return
<1>6. Answers(call[t], results, answer)
  BY <1>3, EmptySeq DEF Answers
<1> QED
  BY <1>2, <1>5, <1>6, FinishExact

-----------------------------------------------------------------------------
\* One case for each step of a caller.
LEMMA CallerExact ==
  ASSUME IInv, EInv, NEW t \in Threads, CallerStep(t)
  PROVE  EInv'
<1>1. CASE Lookup(t)
  BY <1>1, LookupExact
<1>2. CASE Spawn(t)
  BY <1>2, SpawnExact
<1>3. CASE PollExited(t) \/ Deadline(t) \/ Join(t)
  BY <1>3, WaitExact
<1>4. CASE SpawnFails(t) \/ PollFails(t) \/ Reap(t) \/ JoinFails(t)
  <2>1. PICK answer : Return(t, answer) /\ answer \notin {"Ok", "MalformedDer"}
    BY <1>4 DEF SpawnFails, PollFails, Reap, JoinFails
  <2>2. CacheOK'
    BY <1>4, CacheStays DEF SpawnFails, PollFails, Reap, JoinFails
  <2> QED
    BY <2>1, <2>2, ReturnExact
<1>5. CASE Apply(t)
  BY <1>5, ApplyBatchExact, ApplyCertExact, ApplyListExact DEF Apply
<1> QED
  BY <1>1, <1>2, <1>3, <1>4, <1>5 DEF CallerStep

\* The initial state.
LEMMA InitExact == Init => EInv
<1> SUFFICES ASSUME Init PROVE EInv
  OBVIOUS
<1>1. CacheOK
  BY DEF Init, CacheOK
<1>2. /\ DOMAIN NoCall = CallFields /\ NoCall.api = None /\ NoCall.certs = <<>> /\ NoCall.at = 1
      /\ NoCall.results = <<>> /\ NoCall.pending = <<>> /\ NoCall.spawned = 0 /\ NoCall.answer = None
  BY DEF NoCall, CallFields
<1>3. NoCall.certs \in Seq(Certs) /\ NoCall.pending \in Seq(Nat) /\ DOMAIN <<>> = {}
  BY <1>2, EmptySeq
<1>4. PendingOK(NoCall) /\ Answers(NoCall, NoCall.results, NoCall.answer)
  BY <1>2, <1>3 DEF PendingOK, Answers
<1>5. CallOK(NoCall, "idle")
  <2>1. None # "cert" /\ DOMAIN NoCall.results = DOMAIN NoCall.certs
    BY <1>2, BridgeAssumption
  <2> QED
    BY <1>2, <1>3, <1>4, <2>1 DEF CallOK, ChildPhases
<1>6. DOMAIN NothingRead = {"out", "err"}
  BY DEF NothingRead
<1>7. ASSUME NEW t \in Threads PROVE ThreadOK(t)
  <2>1. call[t] = NoCall /\ pc[t] = "idle" /\ read[t] = NothingRead
    BY DEF Init
  <2> QED
    BY <1>5, <1>6, <2>1 DEF ThreadOK, ThreadIs, ChildPhases
<1> QED
  BY <1>1, <1>7 DEF EInv, Init

\* Every step keeps the lines, the results and the cache in step.
LEMMA StepExact == IInv /\ EInv /\ [Next]_vars => EInv'
<1> SUFFICES ASSUME IInv, EInv, [Next]_vars PROVE EInv'
  OBVIOUS
<1>1. CASE Next
  <2>1. PICK t \in Threads :
          \/ \E c \in Calls[t] : Begin(t, c)
          \/ CallerStep(t)
          \/ ChildStep(t) \/ Crash(t) \/ Dies(t) \/ Drain(t)
    BY <1>1 DEF Next
  <2> QED
    BY <2>1, BeginExact, CallerExact, ChildStepExact, DeathExact, DrainExact
<1>2. CASE UNCHANGED vars
  BY <1>2 DEF vars, EInv, CacheOK, ThreadOK
<1> QED
  BY <1>1, <1>2

\* A check passes only on zlint's "pass".
LEMMA PassMeansPass ==
  ASSUME NEW c, NEW result, OkEntry(c, result), NEW check \in DOMAIN Report[c],
         LintResult("Ok", result, check) = "Pass"
  PROVE  Report[c][check] = "pass"
<1>1. PICK line : line = Report[c]
  OBVIOUS
<1>2. result.verdicts = VerdictMap(line) /\ Parses(line)
  BY <1>1 DEF OkEntry, Ok
<1>3. PICK said : said = line[check]
  OBVIOUS
<1>4. said \in {"NA", "NE", "pass", "notice", "warn", "error", "fatal"}
  BY <1>1, <1>2, <1>3 DEF Parses, Strings
<1>5. check \in DOMAIN result.verdicts /\ result.verdicts[check] = Strings[said]
  BY <1>1, <1>2, <1>3 DEF VerdictMap
<1>6. PICK verdict : verdict = Strings[said]
  OBVIOUS
<1>7. [NotApplicable |-> "NotApplicable", Pass |-> "Pass", Notice |-> "warn", Warn |-> "warn",
       Error |-> "error", Fatal |-> "fatal"][verdict] = "Pass"
  BY <1>5, <1>6 DEF LintResult
<1>8. said # "pass" => verdict \in {"NotApplicable", "Notice", "Warn", "Error", "Fatal"}
  BY <1>4, <1>6 DEF Strings
<1>9. verdict \notin {"NotApplicable", "Notice", "Warn", "Error", "Fatal"}
  BY <1>7
<1> QED
  BY <1>1, <1>3, <1>8, <1>9

\* At any time a call has started at most one child more than it has unparsable inputs.
LEMMA FewChildren ==
  ASSUME NEW q, NEW p, CallOK(q, p)
  PROVE  q.spawned <= 1 + Cardinality({i \in DOMAIN q.certs : q.certs[i] \in Garbage})
<1> DEFINE G == {i \in DOMAIN q.certs : q.certs[i] \in Garbage}
<1>1. q.certs \in Seq(Certs) /\ q.spawned \in Nat
  BY DEF CallOK
<1>2. DOMAIN q.certs = 1 .. Len(q.certs) /\ Len(q.certs) \in Nat
  BY <1>1, LenProperties
<1>3. IsFiniteSet(G)
  <2>1. IsFiniteSet(1 .. Len(q.certs)) /\ G \subseteq 1 .. Len(q.certs)
    BY <1>2, FS_Interval
  <2> QED
    BY <2>1, FS_Subset
<1>4. Cardinality(G) \in Nat /\ Cardinality(Handled(q)) \in Nat
  BY <1>1, <1>3, FS_CardinalityType, HandledIsFinite
<1>5. Cardinality(Handled(q)) <= Cardinality(G)
  <2>1. Handled(q) \subseteq G
    BY DEF Handled
  <2> QED
    BY <1>3, <2>1, FS_Subset
<1>6. q.spawned = 0 \/ q.spawned <= 0 + Cardinality(Handled(q)) \/ q.spawned <= 1 + Cardinality(Handled(q))
  BY DEF CallOK, LookupOK, RunOK
<1> QED
  BY <1>1, <1>4, <1>5, <1>6

\* The invariant says what the callers rely on.
LEMMA ExactMeans == IInv /\ EInv => ResultsAreExact
<1> SUFFICES ASSUME IInv, EInv PROVE ResultsAreExact
  OBVIOUS
<1>1. \A c \in Certs : cache[c] # None => Right(c, Ok(cache[c]))
  BY DEF EInv, CacheOK, OkEntry, Right
<1>2. ASSUME NEW t \in Threads, Answered(t)
      PROVE  Answers(call[t], call[t].results, call[t].answer)
  BY <1>2, CallShape DEF Answered, CallOK
<1>3. ASSUME NEW t \in Threads, Answered(t), call[t].answer = "Ok", NEW i \in DOMAIN call[t].certs
      PROVE  Right(CertAt(t, i), call[t].results[i])
  <2>1. RightEntry(call[t].certs[i], call[t].results[i])
    BY <1>2, <1>3 DEF Answers
  <2> QED
    BY <2>1 DEF RightEntry, OkEntry, Right, CertAt
<1>4. ASSUME NEW t \in Threads, Answered(t), call[t].api = "cert"
      PROVE  /\ call[t].answer = "MalformedDer" => CertAt(t, 1) \in Garbage
             /\ \A check \in DOMAIN Report[CertAt(t, 1)] :
                  LintResult(call[t].answer, call[t].results[1], check) = "Pass"
                    => Report[CertAt(t, 1)][check] = "pass"
  <2>1. call[t].answer = "MalformedDer" => CertAt(t, 1) \in Garbage
    BY <1>2, <1>4 DEF Answers, CertAt
  <2>2. ASSUME NEW check \in DOMAIN Report[CertAt(t, 1)],
               LintResult(call[t].answer, call[t].results[1], check) = "Pass"
        PROVE  Report[CertAt(t, 1)][check] = "pass"
    <3>1. call[t].answer = "Ok"
      BY <2>2 DEF LintResult
    <3>2. Len(call[t].certs) = 1
      BY <1>4, CallShape DEF CallOK
    <3>3. 1 \in DOMAIN call[t].certs
      BY <3>2, CallShape
    <3>4. OkEntry(CertAt(t, 1), call[t].results[1])
      BY <1>2, <1>4, <3>1, <3>3 DEF Answers, CertAt
    <3> QED
      BY <2>2, <3>1, <3>4, PassMeansPass
  <2> QED
    BY <2>1, <2>2
<1>5. ASSUME NEW t \in Threads
      PROVE  call[t].spawned <= 1 + Cardinality({i \in DOMAIN call[t].certs : CertAt(t, i) \in Garbage})
  BY CallShape, FewChildren DEF CertAt
<1> QED
  BY <1>1, <1>3, <1>4, <1>5 DEF ResultsAreExact

(***************************************************************************)
(* For every number of threads and of calls, every batch and every way in  *)
(* which the threads, the children and the readers of their output         *)
(* interleave: what run_on_certs and run_on_cert answer, and what they     *)
(* leave in the cache they share, is zlint's report of the certificate it  *)
(* is filed under; MalformedDer is answered exactly for what zlint cannot  *)
(* parse; no more children are run than there are such inputs, and one     *)
(* more; and a lint of pkix-policy-zlint passes only where zlint said so.  *)
(***************************************************************************)
THEOREM Exactness == Spec => []ResultsAreExact
<1>1. Init => IInv /\ EInv
  BY InitEstablishes, InitExact
<1>2. (IInv /\ EInv) /\ [Next]_vars => (IInv /\ EInv)'
  BY StepKeeps, StepExact
<1> QED
  BY <1>1, <1>2, ExactMeans, PTL DEF Spec
=============================================================================
