---------------------------- MODULE MCLifecycle ----------------------------
(* Two versions of a library, of the contract it is linked into and of the  *)
(* markets' logic, upgraded together and apart.                             *)
EXTENDS Lifecycle

EditedArtifacts == {"Liquidation", "Escrow", "CashMarket"}
Lists == {{"Escrow"}, {"Liquidation", "Escrow"}, {"CashMarket"}}
=============================================================================
