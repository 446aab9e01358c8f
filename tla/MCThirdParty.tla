----------------------------- MODULE MCThirdParty -----------------------------
(* Two currencies, each with a cash group and its market, and Ether, of which *)
(* a debtor may hold some.  The portfolios are those of a borrower and        *)
(* liquidity provider.                                                        *)
EXTENDS ThirdParty, TLC

MCCurrencies    == {"eth", "dai", "usdc"}
MCGroupCurrency == 1 :> "dai" @@ 2 :> "usdc"
MCMarketOf      == 1 :> "daiMarket" @@ 2 :> "usdcMarket"
MCPool  == [totalfCash |-> 120, totalCurrentCash |-> 100, totalLiquidity |-> 100]
MCPools == [k \in {1, 2} \X {2, 4} |-> IF k \in {<<1, 2>>, <<2, 4>>} THEN MCPool ELSE EmptyMarket]

Entry(group, maturity, n) ==
  IF n = 0 THEN << >>
  ELSE << Asset(group, maturity, IF n > 0 THEN CashReceiver ELSE CashPayer, IF n > 0 THEN n ELSE -n) >>

Tokens(group, maturity, n) ==
  IF n = 0 THEN << >> ELSE << Asset(group, maturity, LiquidityToken, n) >>

\* A large debt of ether goes with much of the other collateral.
MCStarts ==
  { s \in { [cash |-> "eth" :> e @@ "dai" :> d @@ "usdc" :> u,
             assets |-> Entry(1, 2, fd) \o Tokens(1, 2, td) \o Entry(2, 4, fu) \o Tokens(2, 4, tu)] :
              e \in {-250, 0, 40}, d \in {-100, 50}, u \in {-40, 0, 130},
              fd \in {-90, 0, 70}, td \in {0, 60}, fu \in {-30, 0, 90}, tu \in {0, 60} } :
      s.cash["eth"] < 0 => s.cash["dai"] < 0 /\ s.cash["usdc"] > 0 }

PlainOrFee   == {"ERC20", "FeeERC20"}
OnlyERC777   == {"ERC777"}
MCAnswers    == {50, 200}
MCValues     == {33, 100}
MCMaxAmounts == {0, 10}
=============================================================================
