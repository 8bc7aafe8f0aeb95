----------------------------- MODULE MCZlintBridge -----------------------------
(* Two threads on one bridge: batches with an unparsable certificate in    *)
(* every place, a duplicate, a certificate zlint gives an unknown verdict. *)
EXTENDS ZlintBridge, TLC

CONSTANTS good, other, broken, odd

MCCerts == {good, other, broken, odd}

MCReport ==
  [c \in {good, other, odd} |->
     [e_check |-> CASE c = good -> "pass" [] c = other -> "error" [] c = odd -> "maybe",
      w_check |-> "NE"]]
    @@ (broken :> [e_check |-> "fatal", w_check |-> "fatal"])

MCCatalog == <<[prefix |-> "e", id |-> "check"], [prefix |-> "w", id |-> "check"]>>

(* One thread makes every kind of call; the other shares the cache with it. *)
Batches == {<<>>, <<other, broken, good>>}

MCCalls ==
  [batch  |-> {[api |-> "certs", certs |-> cs] : cs \in Batches}
                \union {[api |-> "cert", certs |-> <<c>>] : c \in {broken, odd}}
                \union {[api |-> "list", certs |-> <<>>]},
   single |-> {[api |-> "cert", certs |-> <<good>>]}]
=============================================================================
