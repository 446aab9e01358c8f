---------------------------- MODULE LiquidityPool ----------------------------
(****************************************************************************)
(* The arithmetic of one Market struct of CashMarket.sol: what joining,     *)
(* leaving and trading against a pool do to its three totals.  The rate     *)
(* fields (rateScalar, rateAnchor, lastImpliedRate) only choose the price   *)
(* of a trade; the price is an argument here and PriceBounds is all that    *)
(* the curve guarantees about it.                                           *)
(*                                                                          *)
(* An operator whose name starts with Faulty is the definition after it     *)
(* with a plausible slip; the properties are checked to notice each one.    *)
(****************************************************************************)
EXTENDS Integers

Market == [totalfCash : Nat, totalCurrentCash : Nat, totalLiquidity : Nat]

\* A maturity nobody has provided liquidity for: the zero value of the mapping.
EmptyMarket == [totalfCash |-> 0, totalCurrentCash |-> 0, totalLiquidity |-> 0]

\* _getExchangeRate needs cash in the pool, and the logarithm of the
\* proportion needs fCash in it; without either there is no implied rate and
\* the caller gives up.
HasImpliedRate(mk) == mk.totalfCash > 0 /\ mk.totalCurrentCash > 0

\* Numerator and denominator of the proportion _getExchangeRate prices at, the
\* fCash amount of a trade simulated on the numerator.
SimulatedfCash(mk, fCash) == mk.totalfCash + fCash
PoolSize(mk) == mk.totalfCash + mk.totalCurrentCash

(****************************************************************************)
(* Liquidity.                                                               *)
(****************************************************************************)

\* The first provider fixes the proportion and gets one token per unit of cash.
FirstLiquidity(cash, maxfCash) ==
  [totalfCash |-> maxfCash, totalCurrentCash |-> cash, totalLiquidity |-> cash]

\* Later providers join at the prevailing proportion; both quotients round down.
FaultyMintRoundsUp(mk, cash) == (mk.totalLiquidity * cash) \div mk.totalCurrentCash + 1
FaultyMintOneForOne(mk, cash) == cash
TokensMinted(mk, cash) == (mk.totalLiquidity * cash) \div mk.totalCurrentCash
fCashOwed(mk, cash)    == (mk.totalfCash * cash) \div mk.totalCurrentCash

AddLiquidityTo(mk, cash) ==
  [totalfCash       |-> mk.totalfCash + fCashOwed(mk, cash),
   totalCurrentCash |-> mk.totalCurrentCash + cash,
   totalLiquidity   |-> mk.totalLiquidity + TokensMinted(mk, cash)]

\* What an amount of tokens can claim from the pool, rounded down.
FaultyClaimRoundsUp(mk, tokens) ==
  (mk.totalCurrentCash * tokens + mk.totalLiquidity - 1) \div mk.totalLiquidity
CashClaim(mk, tokens)  == (mk.totalCurrentCash * tokens) \div mk.totalLiquidity
fCashClaim(mk, tokens) == (mk.totalfCash * tokens) \div mk.totalLiquidity

\* A redemption divides by totalLiquidity and subtracts with SafeUInt128.
FaultyRedeemUnissued(mk, tokens) == mk.totalLiquidity > 0
CanRedeem(mk, tokens) == mk.totalLiquidity > 0 /\ tokens <= mk.totalLiquidity

FaultyKeepsSupply(mk, tokens) ==
  [mk EXCEPT !.totalfCash = @ - fCashClaim(mk, tokens),
             !.totalCurrentCash = @ - CashClaim(mk, tokens)]
RedeemFrom(mk, tokens) ==
  [totalfCash       |-> mk.totalfCash - fCashClaim(mk, tokens),
   totalCurrentCash |-> mk.totalCurrentCash - CashClaim(mk, tokens),
   totalLiquidity   |-> mk.totalLiquidity - tokens]

\* tradeLiquidityToken: how many of maxTokens must go to raise cashRequired.
FaultyRaiseRoundsUp(mk, cashRequired, maxTokens) ==
  IF CashClaim(mk, maxTokens) > cashRequired
  THEN (cashRequired * mk.totalLiquidity) \div mk.totalCurrentCash + 1
  ELSE maxTokens
TokensToRaise(mk, cashRequired, maxTokens) ==
  IF CashClaim(mk, maxTokens) > cashRequired
  THEN (cashRequired * mk.totalLiquidity) \div mk.totalCurrentCash
  ELSE maxTokens

(****************************************************************************)
(* Trades.  The exchange rate is at least one, so the cash side of a trade  *)
(* is at most its fCash; a price of zero cash is a failed trade.            *)
(****************************************************************************)
PriceBounds(fCash, cash) == 0 < cash /\ cash <= fCash

\* Borrowing: the simulated proportion (totalfCash + fCash) / total must stay
\* below one, or "DECIMALS - proportion" reverts.
CanBorrow(mk, fCash, cash) ==
  /\ HasImpliedRate(mk)
  /\ SimulatedfCash(mk, fCash) < PoolSize(mk)
  /\ PriceBounds(fCash, cash)

BorrowFrom(mk, fCash, cash) ==
  [totalfCash       |-> mk.totalfCash + fCash,
   totalCurrentCash |-> mk.totalCurrentCash - cash,
   totalLiquidity   |-> mk.totalLiquidity]

\* Lending: the simulated proportion (totalfCash - fCash) / total must stay
\* above zero, or its logarithm fails.
FaultyLendEverything(mk, fCash, cash) ==
  /\ HasImpliedRate(mk)
  /\ SimulatedfCash(mk, -fCash) >= 0
  /\ PriceBounds(fCash, cash)
CanLend(mk, fCash, cash) ==
  /\ HasImpliedRate(mk)
  /\ SimulatedfCash(mk, -fCash) > 0
  /\ PriceBounds(fCash, cash)

LendTo(mk, fCash, cash) ==
  [totalfCash       |-> mk.totalfCash - fCash,
   totalCurrentCash |-> mk.totalCurrentCash + cash,
   totalLiquidity   |-> mk.totalLiquidity]

(****************************************************************************)
(* Maturities.                                                              *)
(****************************************************************************)

\* _isValidBlock: the maturities a cash group's market accepts new trades for.
FaultyAcceptsMatured(blockTime, maturity, maturityLength, numMaturities) ==
  /\ maturity % maturityLength = 0
  /\ numMaturities > 0
  /\ maturity <= blockTime - (blockTime % maturityLength)
                   + maturityLength * numMaturities
FaultyLastMaturity(blockTime, maturity, maturityLength, numMaturities) ==
  /\ blockTime < maturity
  /\ maturity % maturityLength = 0
  /\ maturity < blockTime - (blockTime % maturityLength)
                  + maturityLength * numMaturities
IsValidBlock(blockTime, maturity, maturityLength, numMaturities) ==
  /\ blockTime < maturity
  /\ maturity % maturityLength = 0
  /\ numMaturities > 0
  /\ maturity <= blockTime - (blockTime % maturityLength)
                   + maturityLength * numMaturities

\* getActiveMaturities: the maturities the contract advertises.
ActiveMaturities(blockTime, maturityLength, numMaturities) ==
  { blockTime - (blockTime % maturityLength) + maturityLength * i :
      i \in 1 .. numMaturities }

(****************************************************************************)
(* What the properties say of a pool, and of a pool before and after.       *)
(****************************************************************************)

\* All three totals are zero or none is.
Consistent(mk) ==
  /\ mk.totalLiquidity = 0 <=> mk.totalCurrentCash = 0
  /\ mk.totalLiquidity = 0 <=> mk.totalfCash = 0

\* Where the supply changes, a token has no less cash behind it than before and
\* the fCash behind the tokens falls short by less than one unit.
NoDilution(old, new) ==
  (old.totalLiquidity > 0 /\ new.totalLiquidity # old.totalLiquidity) =>
    /\ new.totalCurrentCash * old.totalLiquidity
         >= old.totalCurrentCash * new.totalLiquidity
    /\ (new.totalfCash + 1) * old.totalLiquidity
         >= old.totalfCash * new.totalLiquidity
=============================================================================
