------------------------------ MODULE Liquidation ------------------------------
(****************************************************************************)
(* The Liquidation library: how much of an account's collateral is bought,  *)
(* at which discount and from where, to settle its debt in a local currency *)
(* or to bring it back to free collateral.                                  *)
(*                                                                          *)
(* Every currency and rate has the decimals of Decimals here, and           *)
(* successive quotients are one by the product.  A trade is a record: what  *)
(* the payer's local balance gains, what the liquidator pays for it (earns, *)
(* if negative), the collateral the liquidator takes and the payer's new    *)
(* collateral balance.                                                      *)
(*                                                                          *)
(* An operator whose name starts with Faulty is the definition after it     *)
(* with a plausible slip; the properties are checked to notice each one.    *)
(****************************************************************************)
EXTENDS RaiseCash

CONSTANTS
  LiquidationDiscount,  \* a liquidator's price, over Decimals; above one
  SettlementDiscount,
  RepoIncentive         \* one, and the liquidator's share of redeemed tokens

ASSUME DiscountsAssumption ==
  /\ LiquidityHaircut \in 1 .. Decimals - 1
  /\ LiquidationDiscount \in Decimals .. Buffer - 1
  /\ SettlementDiscount \in Decimals .. Buffer - 1
  /\ RepoIncentive \in Nat /\ RepoIncentive >= Decimals

(****************************************************************************)
(* Conversions.                                                             *)
(****************************************************************************)
LiquidationBuffer == (Decimals * 101) \div 100

\* _exchangeRate, from local to collateral currency.
CrossRate(local, collateral, rates) ==
  IF collateral = Ether THEN rates[local] ELSE (rates[local] * Decimals) \div rates[collateral]

\* The rate to ether where the rate from ether is meant.
FaultyFromEth(currency, n, rates) == (rates[currency] * n) \div Decimals

\* _convertETHTo, for an oracle listed without mustInvert.
FromEth(currency, n, rates) ==
  (((Decimals * Decimals) \div rates[currency]) * n) \div Decimals

\* _fcAggregateToLocal
Shortfall(aggregate, local, rates) ==
  FromEth(local, (-aggregate * LiquidationBuffer) \div Decimals, rates)

CollateralToSell(discount, local, rate) ==
  (rate * local * discount) \div (Decimals * Decimals)

LocalCurrencyAmount(discount, collateral, rate) ==
  (collateral * Decimals * Decimals) \div (rate * discount)

\* The debt itself is no limit.
FaultyLocalCurrencyToTrade(required, discount, debt) ==
  (required * Decimals) \div (Buffer - discount)

\* Each unit of local currency that covers debt frees the buffer and costs the
\* discount.
LocalCurrencyToTrade(required, discount, debt) ==
  LowerOf((required * Decimals) \div (Buffer - discount), debt)

(****************************************************************************)
(* Local currency out of the payer's own liquidity tokens.                  *)
(****************************************************************************)
OutsideHaircut(claim) == (claim * (Decimals - LiquidityHaircut)) \div Decimals

\* _calculatePostTradeFactors
Extracted(withdrawn, raised) ==
  LET incentive == OutsideHaircut(withdrawn) - raised
  IN  [payer |-> withdrawn - incentive, liquidator |-> -incentive]

\* _liquidateLocalLiquidityTokens: the trade so far and what is still required.
LiquidateLocalTokens(w, payer, local, required, localNet) ==
  LET claims == (required * RepoIncentive) \div (Decimals - LiquidityHaircut)
      raised(r) == IF r.remaining = 0 THEN required
                   ELSE ((claims - r.remaining) * (Decimals - LiquidityHaircut)) \div RepoIncentive
  IN  { [world |-> r.world, required |-> required - raised(r), localNet |-> localNet + raised(r),
         payer |-> Extracted(claims - r.remaining, raised(r)).payer,
         liquidator |-> Extracted(claims - r.remaining, raised(r)).liquidator] :
          r \in {x \in RaiseViaLiquidityToken(w, payer, local, claims) :
                   OutsideHaircut(claims - x.remaining) >= raised(x)} }

(****************************************************************************)
(* The purchase of collateral.                                              *)
(****************************************************************************)

\* _calculatePostfCashValue: fCash of the collateral currency is not for sale
\* here; it only offsets a negative balance.
PostfCashValue(net, claim, balance) ==
  LET value == net - balance - claim
  IN  CASE value <= 0 -> [net |-> net, adjustment |-> 0]
        [] value > 0 /\ balance >= 0 -> [net |-> net - value, adjustment |-> 0]
        [] value > 0 /\ balance < 0 /\ balance + value > 0 ->
             [net |-> net - (balance + value), adjustment |-> -balance]
        [] OTHER -> [net |-> net, adjustment |-> value]

HaircutClaim(claim) == (claim * Decimals) \div LiquidityHaircut - claim

PreHaircut(n) == (n * Decimals) \div (Decimals - LiquidityHaircut)

\* The share of the tokens below their haircut is always there to sell.
FaultyPurchase(required, discount, haircutClaim, net, rate) ==
  LET toSell == CollateralToSell(discount, required, rate)
  IN  [raise |-> 0, local |-> required, sell |-> toSell]

\* _calculatePurchaseAmounts
Purchase(required, discount, haircutClaim, net, rate) ==
  LET toSell == CollateralToSell(discount, required, rate)
  IN  CASE net >= toSell -> [raise |-> 0, local |-> required, sell |-> toSell]
        [] net < toSell /\ net + haircutClaim >= toSell ->
             [raise |-> PreHaircut(toSell - net), local |-> required, sell |-> toSell]
        [] OTHER ->
             [raise |-> PreHaircut(haircutClaim), sell |-> net + haircutClaim,
              local |-> LocalCurrencyAmount(discount, net + haircutClaim, rate)]

\* Cash raised beyond what is sold is not credited back.
FaultyDrawn(balance, sell, raise) ==
  IF balance >= sell THEN [balance |-> balance - sell, raise |-> raise, tolerance |-> raise]
  ELSE [balance |-> 0, raise |-> IF raise > sell - balance THEN raise ELSE sell - balance,
        tolerance |-> 1]

\* Where the collateral comes from: the balance, or tokens for what it lacks,
\* any more that they are to raise being credited back.  Tokens raised only
\* for that may fall short; others by one unit.
Drawn(balance, sell, raise) ==
  LET lacking == sell - balance
  IN  CASE balance >= sell -> [balance |-> balance - sell + raise, raise |-> raise, tolerance |-> raise]
        [] balance < sell /\ raise > lacking ->
             [balance |-> raise - lacking, raise |-> raise, tolerance |-> 1]
        [] OTHER -> [balance |-> 0, raise |-> lacking, tolerance |-> 1]

\* _calculateCollateralBalances
CollateralBalances(w, payer, balance, collateral, sell, raise) ==
  LET drawn == Drawn(balance, sell, raise)
  IN  IF drawn.raise = 0 THEN {[world |-> w, balance |-> drawn.balance]}
      ELSE { [world |-> r.world, balance |-> drawn.balance - r.remaining] :
               r \in {x \in RaiseViaLiquidityToken(w, payer, collateral, drawn.raise) :
                        x.remaining <= drawn.tolerance} }

\* _tradeCollateralCurrency; t is the trade so far.
TradeCollateralCurrency(t, payer, required, discount, collateral, net, claim, rate) ==
  LET post   == PostfCashValue(net, claim, t.balance)
      bought == Purchase(required, discount, HaircutClaim(claim), post.net, rate)
  IN  CASE CollateralToSell(discount, required, rate) = 0 -> {t}
        [] CollateralToSell(discount, required, rate) > 0 /\ post.net <= 0 -> {}
        [] OTHER ->
             { [world |-> b.world, payer |-> t.payer + bought.local,
                liquidator |-> t.liquidator + bought.local,
                collateral |-> bought.sell, balance |-> b.balance - post.adjustment] :
                 b \in CollateralBalances(t.world, payer, t.balance + post.adjustment,
                                          collateral, bought.sell, bought.raise) }

(****************************************************************************)
(* liquidate and settle.  fc holds the payer's free collateral and, for     *)
(* both currencies, its net position and the claim of its tokens.           *)
(****************************************************************************)
Capped(n, max) == IF max > 0 THEN LowerOf(n, max) ELSE n

Liquidate(w, payer, local, collateral, balance, fc, maxAmount, rates) ==
  LET required == Shortfall(fc.aggregate, local, rates)
      first == IF fc.localClaim > 0
               THEN LiquidateLocalTokens(w, payer, local, required, fc.localNet)
               ELSE {[world |-> w, required |-> required, localNet |-> fc.localNet,
                      payer |-> 0, liquidator |-> 0]}
      trade(x) == [world |-> x.world, payer |-> x.payer, liquidator |-> x.liquidator,
                   collateral |-> 0, balance |-> balance]
      amount(x) == Capped(LocalCurrencyToTrade(x.required, LiquidationDiscount, -x.localNet),
                          maxAmount)
  IN  UNION { IF x.required > 0 /\ x.localNet < 0
              THEN TradeCollateralCurrency(trade(x), payer, amount(x), LiquidationDiscount,
                                           collateral, fc.collateralNet, fc.collateralClaim,
                                           CrossRate(local, collateral, rates))
              ELSE {trade(x)} : x \in first }

\* The tokens are redeemed at par; the payer must have free collateral, with
\* what their haircut adds to it, before any collateral is sold.
Settle(w, payer, local, collateral, balance, fc, value, rates) ==
  LET first == IF fc.localClaim > 0
               THEN RaiseViaLiquidityToken(w, payer, local, value)
               ELSE {[world |-> w, remaining |-> value]}
      paid(x) == value - x.remaining
      added(x) == IF fc.localClaim > 0 /\ paid(x) > fc.localClaim
                  THEN ToEth(local, paid(x) - fc.localClaim,
                             IF fc.localNet < 0 THEN Buffer ELSE Decimals, rates)
                  ELSE 0
      trade(x) == [world |-> x.world, payer |-> paid(x), liquidator |-> 0,
                   collateral |-> 0, balance |-> balance]
  IN  UNION { IF x.remaining > 0 /\ fc.aggregate + added(x) >= 0
              THEN TradeCollateralCurrency(trade(x), payer, x.remaining, SettlementDiscount,
                                           collateral, fc.collateralNet, fc.collateralClaim,
                                           CrossRate(local, collateral, rates))
              ELSE {trade(x)} : x \in first }

(****************************************************************************)
(* _tradefCash: entitlements in the collateral currency against local       *)
(* currency, for settlefCash and liquidatefCash.                            *)
(****************************************************************************)
TradefCash(w, payer, liquidator, required, net, discount, local, collateral, rates) ==
  LET rate    == CrossRate(local, collateral, rates)
      wanted  == CollateralToSell(discount, required, rate)
      toSell  == LowerOf(wanted, net)
      covered == IF wanted > net THEN LocalCurrencyAmount(discount, net, rate) ELSE required
      short(r) == IF r.remaining > 0 THEN LocalCurrencyAmount(discount, r.remaining, rate) ELSE 0
  IN  IF net <= 0 THEN {}
      ELSE { [world |-> r.world, payer |-> covered - short(r),
              collateral |-> r.payment - (toSell - r.remaining)] :
               r \in {x \in RaiseViaCashReceiver(w, payer, liquidator, collateral, toSell) :
                        short(x) <= covered} }
=============================================================================
