--------------------------- MODULE ChainEnumeration ---------------------------
(***************************************************************************)
(* What pkix-path-builder promises its callers, without a search: the      *)
(* chains that lead from a certificate to an anchor are handed out one at  *)
(* a time, in some order, none twice if no certificate was supplied twice; *)
(* a call that ends without a chain ends for a reason its caller can rely  *)
(* on.                                                                     *)
(***************************************************************************)
EXTENDS Sequences

VARIABLES
  distinct, \* no certificate was supplied twice
  all,      \* the chains there are, for the arguments of this call
  deeper,   \* those there would be with one more certificate allowed
  given,    \* those handed out so far
  current,  \* the one the caller is looking at, <<>> for none
  phase,    \* "searching", "handed" or "over"
  outcome   \* what the call returned, "pending" before

inputs == <<distinct, all, deeper>>
vars == <<inputs, given, current, phase, outcome>>

Init ==
  /\ given = {}
  /\ current = <<>>
  /\ phase = "searching"
  /\ outcome = "pending"

Hand ==
  /\ phase = "searching"
  /\ \E c \in all :
       /\ distinct => c \notin given
       /\ given' = given \cup {c}
       /\ current' = c
  /\ phase' = "handed"
  /\ UNCHANGED <<inputs, outcome>>

(* The caller wants another one. *)
Refuse ==
  /\ phase = "handed"
  /\ phase' = "searching"
  /\ current' = <<>>
  /\ UNCHANGED <<inputs, given, outcome>>

(* What each way to end a call says of the chains there are. *)
Justified(o) ==
  CASE o = "Ok"             -> phase = "handed"
    [] o = "None"           -> phase = "searching" /\ given = all
    [] o = "NoValidPath"    -> phase = "searching" /\ given = all /\ all # {}
    [] o = "NoPathFound"    -> all = {} /\ deeper = {}
    [] o = "DepthExceeded"  -> all = {} /\ deeper # {}
    [] o = "BudgetExceeded" -> phase = "searching"

End(o) ==
  /\ phase # "over"
  /\ Justified(o)
  /\ phase' = "over"
  /\ outcome' = o
  /\ UNCHANGED <<inputs, given, current>>

Next ==
  \/ Hand
  \/ Refuse
  \/ \E o \in {"Ok", "None", "NoValidPath", "NoPathFound", "DepthExceeded", "BudgetExceeded"} : End(o)

Spec == Init /\ [][Next]_vars
=============================================================================
