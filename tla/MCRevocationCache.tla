------------------------- MODULE MCRevocationCache --------------------------
(***************************************************************************)
(* RevocationCache for TLC.                                                *)
(*                                                                         *)
(* Two threads are needed for every race on one entry, two calls of a      *)
(* thread for what one call leaves to the next.  With time up to 2 and     *)
(* lifetimes of 1 and 2 a CRL is seen before, in and after its window and  *)
(* exactly at its end; two CRLs are a stale one and a current one.         *)
(***************************************************************************)
EXTENDS RevocationCache, TLC

CONSTANTS u1, u2

MCOneUrl == {<<u1>>}
MCTwoUrls == {<<u1, u2>>}
MCNoNextUpdate == {None, 1}

\* CRLs nobody signed: older than the CA's and never ahead of them, ahead of all
\* of them but soon over, and without a number and an end.
Forged(n, next) == [number |-> n, this |-> 0, next |-> next, revoked |-> FALSE,
                    scope |-> "match", damage |-> "signature"]
MCUnsigned == {Forged(1, 2), Forged(3, 1), Forged(None, None)}

ThreadSymmetry == Permutations(Threads)

=============================================================================
