----------------------------- MODULE RiskFramework -----------------------------
(****************************************************************************)
(* What a portfolio is worth to the free collateral check: getRequirement   *)
(* of RiskFramework.sol, and the conversion of balances to ETH.  Sorting    *)
(* the portfolio only brings the assets of a group together, so the sums    *)
(* below range over a group's assets in any order.                          *)
(*                                                                          *)
(* All rates are integers over Decimals, the source's 1e18.  markets maps   *)
(* an instrument, a pair of a cash group and a maturity, to its pool.       *)
(*                                                                          *)
(* An operator whose name starts with Faulty is the definition after it     *)
(* with a plausible slip; the properties are checked to notice each one.    *)
(****************************************************************************)
EXTENDS LiquidityPool, AssetList

CONSTANTS
  Decimals,          \* 1e18
  SecondsInYear,
  MaturityLength,    \* maturityLength of every cash group
  NumMaturities,     \* numMaturities of every cash group
  FCashHaircut,      \* per year to maturity
  FCashMaxHaircut,   \* a receiver is never worth more than this share
  LiquidityHaircut,  \* the share of an unmatured token's claims that counts
  Buffer,            \* a debt counts this much more than an asset
  Ether              \* currency 0

ASSUME DecimalsAssumption == Decimals \in Nat \ {0}
ASSUME GroupAssumption    == MaturityLength \in Nat \ {0} /\ NumMaturities \in Nat
ASSUME RatesAssumption    ==
  /\ {FCashHaircut, FCashMaxHaircut, LiquidityHaircut, Buffer} \subseteq Nat
  /\ SecondsInYear \in Nat \ {0}

(****************************************************************************)
(* Claims of liquidity tokens.                                              *)
(****************************************************************************)
FaultyIgnoresMaturity(total, mk, asset, blockTime) ==
  (total * asset.notional * LiquidityHaircut) \div (Decimals * mk.totalLiquidity)
TokenClaim(total, mk, asset, blockTime) ==
  IF blockTime < asset.maturity
  THEN (total * asset.notional * LiquidityHaircut) \div (Decimals * mk.totalLiquidity)
  ELSE (total * asset.notional) \div mk.totalLiquidity

PoolOf(markets, asset) == markets[<<asset.cashGroupId, asset.maturity>>]

CashClaimOf(asset, markets, blockTime) ==
  IF IsLiquidityToken(asset.assetType)
  THEN TokenClaim(PoolOf(markets, asset).totalCurrentCash, PoolOf(markets, asset), asset, blockTime)
  ELSE 0

fCashOf(asset, markets, blockTime) ==
  IF IsLiquidityToken(asset.assetType)
  THEN TokenClaim(PoolOf(markets, asset).totalfCash, PoolOf(markets, asset), asset, blockTime)
  ELSE Signed(asset)

(****************************************************************************)
(* The cash ladder of one group: net fCash by distance from now.            *)
(****************************************************************************)
Offset(asset, blockTime) == (asset.maturity - blockTime) \div MaturityLength

\* Maturity of the ladder's slot j.
InitialMaturity(blockTime) ==
  IF blockTime % MaturityLength = 0
  THEN blockTime
  ELSE blockTime - (blockTime % MaturityLength) + MaturityLength

SlotMaturity(j, blockTime) == InitialMaturity(blockTime) + MaturityLength * j

LowerOf(x, y) == IF x < y THEN x ELSE y

ReceiverValue(fCash, maturity, blockTime) ==
  LowerOf(fCash - (fCash * FCashHaircut * (maturity - blockTime)) \div (SecondsInYear * Decimals),
          (fCash * FCashMaxHaircut) \div Decimals)

SlotValue(netfCash, j, blockTime) ==
  IF netfCash > 0
  THEN ReceiverValue(netfCash, SlotMaturity(j, blockTime), blockTime)
  ELSE netfCash

\* getRequirement for one group, whose assets are at the positions all of a
\* list: hasMarket tells a group traded on a market from an idiosyncratic one,
\* whose entitlements offset no obligation.
GroupValueAt(assets, all, hasMarket, markets, blockTime) ==
  LET matured == {i \in all : assets[i].maturity <= blockTime}
      claim   == [i \in all |-> CashClaimOf(assets[i], markets, blockTime)]
      fCash   == [i \in all |-> fCashOf(assets[i], markets, blockTime)]
      counted == [i \in all |-> IF hasMarket THEN fCash[i] ELSE LowerOf(fCash[i], 0)]
      netted(j) == MapThenSumSet(LAMBDA i : counted[i],
                                 {i \in all \ matured : Offset(assets[i], blockTime) = j})
      ladder  == [j \in 0 .. NumMaturities - 1 |-> SlotValue(netted(j), j, blockTime)]
  IN  MapThenSumSet(LAMBDA i : claim[i], all)
        + MapThenSumSet(LAMBDA i : fCash[i], matured)
        + MapThenSumSet(LAMBDA j : ladder[j], 0 .. NumMaturities - 1)

\* The same for a list of assets of one group.
GroupValue(assets, hasMarket, markets, blockTime) ==
  GroupValueAt(assets, DOMAIN assets, hasMarket, markets, blockTime)

\* The valuation reverts on an asset beyond the ladder and on a liquidity
\* token of an empty pool.
CanValue(portfolio, markets, blockTime) ==
  \A i \in DOMAIN portfolio :
    LET x == portfolio[i]
    IN  /\ blockTime < x.maturity => Offset(x, blockTime) < NumMaturities
        /\ IsLiquidityToken(x.assetType) => PoolOf(markets, x).totalLiquidity > 0

(****************************************************************************)
(* convertBalancesToETH: debts are buffered.  Every quotient truncates      *)
(* towards zero, and successive quotients are one by the product.  rates    *)
(* maps a currency to its oracle's answer, over Decimals.                   *)
(****************************************************************************)
ToEth(currency, n, buffer, rates) ==
  IF currency = Ether
  THEN (n * buffer) \div Decimals
  ELSE (rates[currency] * n * buffer) \div (Decimals * Decimals)

EthValue(currency, balance, rates) ==
  IF balance < 0
  THEN -ToEth(currency, -balance, Buffer, rates)
  ELSE ToEth(currency, balance, Decimals, rates)

\* An oracle without a positive answer makes the conversion revert, unless
\* there is nothing to convert.
CanConvert(currency, balance, rates) ==
  (currency # Ether /\ balance # 0) => rates[currency] > 0
=============================================================================
