------------------------------- MODULE MCBatch -------------------------------
(* Batches of up to two trades, with a deposit in the cash group's currency *)
(* or ether sent along, and withdrawals of either currency.                 *)
EXTENDS ERC1155Trade, TLC

Symmetry   == Permutations(Accounts)
LowAndHigh == {0, 1, 4}
UpToTwo    == 0 .. 2
NoneOrOne  == {0, 1}

Of(c, n) == [currency |-> c, amount |-> n]

MCDeposits  == {<< >>, <<Of(Local, 2)>>}
MCTrades    == {<< >>} \cup { <<t>> : t \in TradeTypes }
                 \cup { <<"AddLiquidity", "TakeCurrentCash">>, <<"RemoveLiquidity", "TakefCash">>,
                        <<"TakefCash", "TakeCurrentCash">> }
MCWithdraws == {<<Of(Local, 0)>>, <<Of(Ether, 1)>>}
=============================================================================
