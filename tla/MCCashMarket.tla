----------------------------- MODULE MCCashMarket -----------------------------
(* CashMarket with pools and amounts small enough to enumerate, zero and     *)
(* amounts larger than a pool included.                                      *)
EXTENDS CashMarket

MCAmounts == 0 .. 5
=============================================================================
