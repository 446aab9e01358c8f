------------------------------ MODULE MCNotional ------------------------------
(* The system with two accounts, in a cash group of ether.                   *)
EXTENDS Notional, TLC

MCAccounts == {"alice", "bob"}
NoAnswers  == {}
UpToTwo    == 0 .. 2
UpToThree  == 0 .. 3
=============================================================================
