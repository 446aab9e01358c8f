------------------------------- MODULE RaiseCash -------------------------------
(****************************************************************************)
(* How Portfolios turns an account's assets into cash for Escrow's calls    *)
(* that settle or liquidate the account: it redeems liquidity tokens, or    *)
(* sells fCash receivers to the liquidator.                                 *)
(*                                                                          *)
(* As in Notional, the state within a transaction is a world record, and a  *)
(* step that may revert is the set of worlds it can leave.                  *)
(****************************************************************************)
EXTENDS RiskFramework, CashBalances

CONSTANTS
  Now,            \* block time
  GroupCurrency,  \* cash group -> its currency
  MarketOf        \* cash group -> its market's account in Escrow

ASSUME GroupsAssumption ==
  /\ IsFiniteSet(DOMAIN GroupCurrency) /\ DOMAIN GroupCurrency \subseteq Nat
  /\ DOMAIN MarketOf = DOMAIN GroupCurrency
  /\ Now \in Nat

\* The order that _sortPortfolio brings an account's assets in.
Before(x, y) ==
  \/ x.cashGroupId < y.cashGroupId
  \/ x.cashGroupId = y.cashGroupId /\ x.maturity < y.maturity

IsIn(asset, currency) == GroupCurrency[asset.cashGroupId] = currency

(****************************************************************************)
(* raiseCurrentCashViaLiquidityToken                                        *)
(****************************************************************************)

\* What the redemption of tokens does to the portfolio.
TokenChanges(asset, fCash, tokens) ==
  << Asset(asset.cashGroupId, asset.maturity, CashReceiver, fCash),
     Asset(asset.cashGroupId, asset.maturity, LiquidityPayer, tokens) >>

\* One turn of _tradePortfolio's loop, with _tradeLiquidityToken and the cash
\* it unlocks.  The loop ends once nothing remains to be raised.
TradeToken(s, asset) ==
  LET k        == <<asset.cashGroupId, asset.maturity>>
      mk       == s.world.markets[k]
      currency == GroupCurrency[asset.cashGroupId]
      tokens   == TokensToRaise(mk, s.remaining, asset.notional)
      cash     == CashClaim(mk, tokens)
  IN  CASE s.ended -> {s}
        [] ~s.ended /\ ~CanRedeem(mk, tokens) -> {}
        [] OTHER ->
             { [world |-> [s.world EXCEPT !.markets[k] = RedeemFrom(mk, tokens),
                                          !.cash[currency] = book],
                remaining |-> s.remaining - cash,
                changes   |-> s.changes \o TokenChanges(asset, fCashClaim(mk, tokens), tokens),
                ended     |-> s.remaining = cash] :
                  book \in DebitNoNeg(s.world.cash[currency], MarketOf[asset.cashGroupId], cash) }

\* The worlds and what remains of amount.  The tokens are redeemed in the sorted
\* order: the fold comes to the last of a set after the others.
RaiseViaLiquidityToken(w, account, currency, amount) ==
  LET p       == w.assets[account]
      tokens  == {i \in DOMAIN p : IsLiquidityToken(p[i].assetType) /\ IsIn(p[i], currency)}
      last(S) == CHOOSE i \in S : \A j \in S : ~Before(p[i], p[j])
      sales   == MapThenFoldSet(LAMBDA i, ss : UNION {TradeToken(s, p[i]) : s \in ss},
                                {[world |-> w, remaining |-> amount, changes |-> << >>, ended |-> FALSE]},
                                LAMBDA i : i, last, tokens)
  IN  UNION { { [world |-> [s.world EXCEPT !.assets[account] = q], remaining |-> s.remaining] :
                  q \in UpsertAssets(s.world.assets[account], s.changes, TRUE) } : s \in sales }

(****************************************************************************)
(* raiseCurrentCashViaCashReceiver                                          *)
(****************************************************************************)

\* _calculateNotionalToTransfer: an entitlement is sold at its value to the
\* free collateral check, and only as much of it as is needed.
NotionalToTransfer(asset, value, amount) ==
  IF value >= amount THEN (asset.notional * amount) \div value ELSE asset.notional

\* One turn of _tradefCashLiquidator's loop.  The length is that of the
\* payer's array at the start, less one for each entry removed since.
SellReceiver(s, payer, liquidator, currency) ==
  LET portfolio == s.world.assets[payer]
      asset == portfolio[s.i]
      value == ReceiverValue(asset.notional, asset.maturity, Now)
      sold  == NotionalToTransfer(asset, value, s.remaining)
      paid  == LowerOf(value, s.remaining)
      whole == sold = asset.notional
      given == [s.world EXCEPT !.assets[payer] = ReduceAsset(portfolio, s.i, sold)]
  IN  CASE s.i > s.length \/ s.remaining = 0 -> {s}
        [] OTHER ->
             IF asset.assetType # CashReceiver \/ ~IsIn(asset, currency)
             THEN {[s EXCEPT !.i = @ + 1]}
             ELSE IF value < 0 THEN {}
             ELSE { [world     |-> [given EXCEPT !.assets[liquidator] = p],
                     i         |-> IF whole THEN s.i ELSE s.i + 1,
                     length    |-> IF whole THEN s.length - 1 ELSE s.length,
                     remaining |-> s.remaining - paid,
                     payment   |-> s.payment + paid] :
                       p \in UpsertAsset(given.assets[liquidator],
                                         [asset EXCEPT !.notional = sold], FALSE) }

\* The worlds, what remains of amount, and what the liquidator owes.
RaiseViaCashReceiver(w, payer, liquidator, currency, amount) ==
  LET portfolio == w.assets[payer]
      allowed   == /\ amount > 0
                   /\ \A i \in DOMAIN portfolio : ~IsLiquidityToken(portfolio[i].assetType)
                   /\ \E i \in DOMAIN portfolio : portfolio[i].assetType = CashReceiver
  IN  IF allowed
      THEN FoldLeft(LAMBDA ss, x : UNION {SellReceiver(s, payer, liquidator, currency) : s \in ss},
                    {[world |-> w, i |-> 1, length |-> Len(portfolio),
                      remaining |-> amount, payment |-> 0]},
                    portfolio)
      ELSE {}
=============================================================================
