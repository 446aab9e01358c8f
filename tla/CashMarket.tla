------------------------------ MODULE CashMarket ------------------------------
(****************************************************************************)
(* One CashMarket contract: the liquidity pools of a cash group, one per    *)
(* maturity, and every entry point that changes them.  The price of a trade *)
(* and its slippage limits are the environment's choice within the bounds   *)
(* the curve guarantees; what the contract asks Escrow and Portfolios to do *)
(* is composed in module Notional.                                          *)
(****************************************************************************)
EXTENDS LiquidityPool

CONSTANTS
  MaturityLength,   \* G_MATURITY_LENGTH
  NumMaturities,    \* G_NUM_MATURITIES
  MaxTradeSize,     \* G_MAX_TRADE_SIZE
  Amounts,          \* the cash, fCash and token amounts callers pass
  MaxTotal,         \* bound of the model: no pool total exceeds it
  MaxTime           \* bound of the model: the last block time

ASSUME MaturityLengthAssumption == MaturityLength \in Nat \ {0}
ASSUME NumMaturitiesAssumption  == NumMaturities \in Nat
ASSUME MaxTradeSizeAssumption   == MaxTradeSize \in Nat
ASSUME AmountsAssumption        == Amounts \subseteq Nat
ASSUME MaxTotalAssumption       == MaxTotal \in Nat
ASSUME MaxTimeAssumption        == MaxTime \in Nat

VARIABLES
  blockTime,        \* block.timestamp
  markets           \* the mapping from maturity to Market

vars == <<blockTime, markets>>

\* Every maturity that can become tradeable before MaxTime.
Maturities == 1 .. MaxTime + MaturityLength * NumMaturities

TypeOK ==
  /\ blockTime \in 0 .. MaxTime
  /\ markets \in [Maturities -> Market]

Init ==
  /\ blockTime = 0
  /\ markets = [m \in Maturities |-> EmptyMarket]

Tradeable(m) == IsValidBlock(blockTime, m, MaturityLength, NumMaturities)

\* The model's own bound: keeps the state space finite.
Bounded(mk) ==
  /\ mk.totalfCash <= MaxTotal
  /\ mk.totalCurrentCash <= MaxTotal
  /\ mk.totalLiquidity <= MaxTotal

UpdateMarket(m, mk) ==
  /\ Bounded(mk)
  /\ markets' = [markets EXCEPT ![m] = mk]
  /\ UNCHANGED blockTime

(****************************************************************************)
(* addLiquidity, addLiquidityOnBehalf                                       *)
(****************************************************************************)
OpenMarket(m, cash, maxfCash) ==
  /\ Tradeable(m)
  /\ markets[m].totalLiquidity = 0
  /\ HasImpliedRate(FirstLiquidity(cash, maxfCash))
  /\ UpdateMarket(m, FirstLiquidity(cash, maxfCash))

JoinMarket(m, cash, maxfCash) ==
  /\ Tradeable(m)
  /\ markets[m].totalLiquidity # 0
  /\ markets[m].totalCurrentCash > 0
  /\ fCashOwed(markets[m], cash) <= maxfCash
  /\ UpdateMarket(m, AddLiquidityTo(markets[m], cash))

AddLiquidity(m, cash, maxfCash) ==
  OpenMarket(m, cash, maxfCash) \/ JoinMarket(m, cash, maxfCash)

(****************************************************************************)
(* removeLiquidity, removeLiquidityOnBehalf: only before maturity, but with *)
(* no check that the maturity is still on the cadence.                      *)
(****************************************************************************)
RemoveLiquidity(m, tokens) ==
  /\ blockTime < m
  /\ CanRedeem(markets[m], tokens)
  /\ UpdateMarket(m, RedeemFrom(markets[m], tokens))

(****************************************************************************)
(* settleLiquidityToken: called by Portfolios for a matured token.  The     *)
(* contract itself does not look at the maturity; _settleMaturedAssets, its *)
(* only caller, does.                                                       *)
(****************************************************************************)
SettleLiquidityToken(m, tokens) ==
  /\ m <= blockTime
  /\ CanRedeem(markets[m], tokens)
  /\ UpdateMarket(m, RedeemFrom(markets[m], tokens))

(****************************************************************************)
(* tradeLiquidityToken: called by Portfolios while an account is being      *)
(* liquidated, to turn at most maxTokens into at most cashRequired.         *)
(****************************************************************************)
TradeLiquidityToken(m, cashRequired, maxTokens) ==
  LET tokens == TokensToRaise(markets[m], cashRequired, maxTokens)
  IN  /\ markets[m].totalLiquidity > 0
      /\ CanRedeem(markets[m], tokens)
      /\ UpdateMarket(m, RedeemFrom(markets[m], tokens))

(****************************************************************************)
(* takeCurrentCash and takefCash, and their OnBehalf forms.                 *)
(****************************************************************************)
TakeCurrentCash(m, fCash, cash) ==
  /\ Tradeable(m)
  /\ fCash <= MaxTradeSize
  /\ CanBorrow(markets[m], fCash, cash)
  /\ UpdateMarket(m, BorrowFrom(markets[m], fCash, cash))

TakefCash(m, fCash, cash) ==
  /\ Tradeable(m)
  /\ fCash <= MaxTradeSize
  /\ CanLend(markets[m], fCash, cash)
  /\ UpdateMarket(m, LendTo(markets[m], fCash, cash))

\* A later block.
Tick ==
  /\ blockTime < MaxTime
  /\ blockTime' = blockTime + 1
  /\ UNCHANGED markets

ChangeLiquidity ==
  \E m \in Maturities : \E x, y \in Amounts :
    \/ AddLiquidity(m, x, y)
    \/ RemoveLiquidity(m, x)
    \/ SettleLiquidityToken(m, x)
    \/ TradeLiquidityToken(m, x, y)

Trade ==
  \E m \in Maturities : \E fCash, cash \in Amounts :
    TakeCurrentCash(m, fCash, cash) \/ TakefCash(m, fCash, cash)

Next == Tick \/ ChangeLiquidity \/ Trade

Spec == Init /\ [][Next]_vars

(****************************************************************************)
(* Safety.                                                                  *)
(****************************************************************************)

\* A pool either has liquidity, cash and fCash or none of the three: no run
\* of trades, partial redemptions and rounding drains one side of a pool that
\* still has token holders (their claims would divide by zero or be worth
\* nothing), and nothing is stranded in a pool nobody has a token of.
PoolConsistent == \A m \in Maturities : Consistent(markets[m])

\* Joining a pool and leaving it at once never pays: the cash claim is at most
\* the cash put in, the fCash claim at most the fCash owed for it
\* (_addLiquidity against _removeLiquidity, both of which round down).
RoundTripNoGain ==
  \A m \in Maturities, cash \in Amounts :
    markets[m].totalLiquidity > 0 =>
      LET joined == AddLiquidityTo(markets[m], cash)
          tokens == TokensMinted(markets[m], cash)
      IN  /\ CashClaim(joined, tokens) <= cash
          /\ fCashClaim(joined, tokens) <= fCashOwed(markets[m], cash)

\* Redeeming tokens in two lots never pays more than redeeming them at once,
\* so the order and the size of withdrawals cannot be used to gain by the
\* rounding of _removeLiquidity and _settleLiquidityToken.
SplitNoGain ==
  \A m \in Maturities : \A x, y \in Amounts :
    (x < markets[m].totalLiquidity /\ x + y <= markets[m].totalLiquidity) =>
      LET mk == markets[m]
      IN  /\ CashClaim(mk, x) + CashClaim(RedeemFrom(mk, x), y) <= CashClaim(mk, x + y)
          /\ fCashClaim(mk, x) + fCashClaim(RedeemFrom(mk, x), y) <= fCashClaim(mk, x + y)

\* Liquidation takes from a provider no more tokens than it has and no more
\* cash than it needs, and if the tokens could have covered the need it falls
\* short by less than one token's worth and one unit of rounding
\* (tradeLiquidityToken).
RaisesWhatIsRequired ==
  \A m \in Maturities : \A cashRequired, maxTokens \in Amounts :
    (0 < markets[m].totalLiquidity /\ maxTokens <= markets[m].totalLiquidity) =>
      LET mk     == markets[m]
          tokens == TokensToRaise(mk, cashRequired, maxTokens)
          raised == CashClaim(mk, tokens)
      IN  /\ tokens <= maxTokens
          /\ raised <= cashRequired
          /\ CashClaim(mk, maxTokens) >= cashRequired =>
               (cashRequired - raised) * mk.totalLiquidity
                 < mk.totalCurrentCash + mk.totalLiquidity

\* The maturities the contract advertises (getActiveMaturities) are exactly
\* those it accepts new trades for (_isValidBlock).
AdvertisedIsTradeable ==
  {m \in Maturities : Tradeable(m)}
    = ActiveMaturities(blockTime, MaturityLength, NumMaturities)

(****************************************************************************)
(* Action properties.                                                       *)
(****************************************************************************)

\* Other providers' entries and exits do not dilute a token: whenever the
\* supply changes, cash per token does not fall, and the fCash behind the
\* outstanding tokens falls by less than one unit, the rounding of fCashOwed.
UndilutedStep == \A m \in Maturities : NoDilution(markets[m], markets'[m])

ProvidersNotDiluted == [][UndilutedStep]_vars

\* After its maturity a pool is only paid out: no total ever grows again.
PayOutStep ==
  \A m \in Maturities : m <= blockTime =>
    /\ markets'[m].totalfCash <= markets[m].totalfCash
    /\ markets'[m].totalCurrentCash <= markets[m].totalCurrentCash
    /\ markets'[m].totalLiquidity <= markets[m].totalLiquidity

MaturedPoolOnlyPaysOut == [][PayOutStep]_vars
=============================================================================
