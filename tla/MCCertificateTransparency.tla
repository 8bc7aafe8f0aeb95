---------------------- MODULE MCCertificateTransparency ----------------------
(***************************************************************************)
(* CertificateTransparency for TLC.                                        *)
(*                                                                         *)
(* Two logs; the key of the second does not decode.  Two instants are what *)
(* an SCT before, within and after the time a log is usable needs, as      *)
(* states also change between two SCTs of one instant; trees of up to      *)
(* eight entries have last entries that skip one and two levels.           *)
(***************************************************************************)
EXTENDS CertificateTransparency

MCLogs == {"l1", "l2"}
MCKeys == [l1 |-> [name |-> "l1", form |-> "ok"], l2 |-> [name |-> "l2", form |-> "bad"]]
MCStarts == [l1 |-> {"pending", "absent"}, l2 |-> {"usable"}]
MCDamages == {"none", "json", "id", "idForm", "keyForm", "time"}
MCSubmitted == {"b1"}
MCBodies == {"b1", "b2"}
Plain == [form |-> "ok", exts |-> "ok", long |-> FALSE]
MCLeaves == {Plain, [Plain EXCEPT !.exts = "absent"], [Plain EXCEPT !.exts = "trailing"],
             [Plain EXCEPT !.long = TRUE], [Plain EXCEPT !.form = "bad"]}
MCIssuers == {[form |-> "ok", key |-> "k1"], [form |-> "ok", key |-> "k2"], [form |-> "bad", key |-> "k1"]}
MCDates == {1970, 1972, 1999, 2000, 2100, 2101} \X (0..13) \X {0, 1, 28, 29, 31, 32}

=============================================================================
