-------------------------------- MODULE Checks --------------------------------
(***************************************************************************)
(* Rust functions that return at the first condition that fails: a list of *)
(* checks, each a pair of what fails and the error it returns.             *)
(***************************************************************************)
EXTENDS Integers, Sequences

\* Option::None of a number, a time or an identifier; a value that does not decode.
None == -1
Malformed == -2

\* The error of the first check that fails, "Ok" if none does.
FirstError(checks) ==
  LET failing == {i \in DOMAIN checks : checks[i][1]}
  IN  IF failing = {} THEN "Ok"
      ELSE checks[CHOOSE i \in failing : \A j \in failing : i <= j][2]

=============================================================================
