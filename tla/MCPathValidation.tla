---------------------------- MODULE MCPathValidation ----------------------------
(***************************************************************************)
(* PathValidation for TLC: three kinds of caller, each with chains, anchor *)
(* lists and policies that exercise one part of the walk.                  *)
(***************************************************************************)
EXTENDS PathPolicies, PathNames

CONSTANTS p1, p2

Trust  == INSTANCE TrustCalls
Policy == INSTANCE PolicyCalls
Naming == INSTANCE NameCalls

MCCallers == {Trust!Calls, Policy!Calls, Naming!Calls}
=============================================================================
