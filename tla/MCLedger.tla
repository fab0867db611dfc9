------------------------------ MODULE MCLedger ------------------------------
(***************************************************************************)
(* Two devices as long as all borrowers have one plain name, for what two  *)
(* writers can do to each other's tables; and one device, while the other  *)
(* shows nothing, with a name that as a path continues the plain one and   *)
(* one that is no path.                                                    *)
(***************************************************************************)
EXTENDS Ledger, TLC

CONSTANTS d1, d2

MCComponents == "Al" :> <<"Al">> @@ "Al/Jr" :> <<"Al", "Jr">> @@ "Al Jr." :> <<>>

InScene ==
  \/ \A i \in 1..Len(writes) : writes[i].name = "Al"
  \/ \A s \in Screen : ~IsOpen(tables[d2][s])
=============================================================================
