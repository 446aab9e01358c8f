----------------------------- MODULE MCPortfolios -----------------------------
(* Portfolios with two accounts and either one group with a cash market or   *)
(* one idiosyncratic group.                                                  *)
EXTENDS Portfolios

MCAccounts == {"alice", "bob"}
MarketGroup == {1}
PairsGroup == {2}
NoGroup == {}
ZeroAndOne == 0 .. 1
UpToTwo == 0 .. 2
=============================================================================
