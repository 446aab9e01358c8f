----------------------------- MODULE ERC1155Trade -----------------------------
(****************************************************************************)
(* Batches of deposits, trades and withdrawals in one transaction, and      *)
(* block trades of fCash.  The parts of a batch are placed without a check, *)
(* in states no other transaction sees; the check comes once, at the end,   *)
(* with the view of free collateral, after the account was settled at the   *)
(* start.  An operator may send a batch for an account; who does makes no   *)
(* difference here.                                                         *)
(*                                                                          *)
(* During a batch the state is a record: the world, the tokens Escrow holds *)
(* and the records of the trades placed.                                    *)
(****************************************************************************)
EXTENDS Notional

CONSTANTS
  EtherSent,      \* values of msg.value
  DepositLists,   \* lists of [currency, amount]
  TradeLists,     \* lists of trade types
  WithdrawLists   \* lists of [currency, amount], an amount of 0 for the residual

TradeTypes == {"TakeCurrentCash", "TakefCash", "AddLiquidity", "RemoveLiquidity"}

Orders == [currency : Currencies, amount : Nat]

ASSUME ListsAssumption ==
  /\ EtherSent \subseteq Nat
  /\ TradeLists \subseteq Seq(TradeTypes)
  /\ DepositLists \subseteq Seq(Orders) /\ WithdrawLists \subseteq Seq(Orders)

(****************************************************************************)
(* Deposits.  Ether sent along comes first.                                 *)
(****************************************************************************)
Received(s, a, c, n) == [s EXCEPT !.world.cash[c] = Credit(@, a, n), !.held[c] = @ + n]

\* The Ether is credited with each deposit.
FaultyDepositsOnBehalf(s, a, value, deposits) ==
  FoldLeft(LAMBDA t, d : Received([t EXCEPT !.world.cash[Ether] = Credit(@, a, value)],
                                  a, d.currency, d.amount),
           [s EXCEPT !.held[Ether] = @ + value], deposits)

DepositsOnBehalf(s, a, value, deposits) ==
  FoldLeft(LAMBDA t, d : Received(t, a, d.currency, d.amount), Received(s, a, Ether, value), deposits)

(****************************************************************************)
(* Trades.  A record holds the cash that moved in or out of the pool; the   *)
(* fee is not in it.                                                        *)
(****************************************************************************)
Record(type, cash) == [tradeType |-> type, cash |-> cash]

Placed(s, worlds, record) ==
  {[s EXCEPT !.world = w, !.records = Append(@, record)] : w \in worlds}

\* The amounts x and y are the caller's, or the market's price for x.
PlaceTrade(s, a, type, m, x, y) ==
  CASE type = "TakeCurrentCash" ->
         Placed(s, TakesCurrentCash(s.world, a, m, x, y), Record(type, y))
    [] type = "TakefCash" ->
         Placed(s, TakesfCash(s.world, a, m, x, y), Record(type, y))
    [] type = "AddLiquidity" ->
         Placed(s, AddsFirstLiquidity(s.world, a, m, x, y) \cup AddsLiquidity(s.world, a, m, x, y),
                Record(type, x))
    [] type = "RemoveLiquidity" /\ blockTime < m /\ CanRedeem(PoolIn(s.world, m), x) ->
         Placed(s, RemovesLiquidity(s.world, a, m, x),
                Record(type, CashClaim(PoolIn(s.world, m), x)))
    [] OTHER -> {}

BatchTrade(s, a, types) ==
  FoldLeft(LAMBDA ss, type :
             UNION { PlaceTrade(t, a, type, m, x, y) : t \in ss, m \in Maturities, x \in Amounts, y \in Amounts },
           {s}, types)

(****************************************************************************)
(* Withdrawals.                                                             *)
(****************************************************************************)
TakesOut == {"TakeCurrentCash", "RemoveLiquidity"}

\* The first deposit of the currency.
DepositOf(c, deposits) ==
  LET ofIt == {i \in DOMAIN deposits : deposits[i].currency = c}
  IN  IF ofIt = {} THEN 0 ELSE deposits[Min(ofIt)].amount

\* What a redemption returns is not withdrawn with the rest.
FaultyWithdrawAmount(c, records, deposits) ==
  FoldLeft(LAMBDA residual, r :
             IF r.tradeType = "TakeCurrentCash" THEN residual + r.cash
             ELSE IF residual < r.cash THEN 0 ELSE residual - r.cash,
           DepositOf(c, deposits), IF c = Local THEN records ELSE << >>)

\* _calculateWithdrawAmount: floored at zero trade by trade.
WithdrawAmount(c, records, deposits) ==
  FoldLeft(LAMBDA residual, r :
             IF r.tradeType \in TakesOut THEN residual + r.cash
             ELSE IF residual < r.cash THEN 0 ELSE residual - r.cash,
           DepositOf(c, deposits), IF c = Local THEN records ELSE << >>)

\* Without trades an amount of zero stays zero, and Escrow skips it.
AmountOf(withdraw, records, deposits) ==
  IF withdraw.amount = 0 /\ records # << >>
  THEN WithdrawAmount(withdraw.currency, records, deposits)
  ELSE withdraw.amount

WithdrawsOnBehalf(s, a, deposits, withdraws) ==
  FoldLeft(LAMBDA t, w :
             Received(t, a, w.currency,
                      -Withdrawn(t.world.cash[w.currency], a, AmountOf(w, s.records, deposits))),
           s, withdraws)

(****************************************************************************)
(* The batches.                                                             *)
(****************************************************************************)
Begin(a) == {[world |-> w, held |-> custody, records |-> << >>] : w \in Settled(World, a)}

\* The states before any withdrawal.
AfterTrades(a, value, deposits, types) ==
  UNION {BatchTrade(DepositsOnBehalf(s, a, value, deposits), a, types) : s \in Begin(a)}

\* Deposits alone are not checked.
BatchOperation(s, a, types) ==
  /\ types # << >> => IsCollateralized(s.world, a)
  /\ CommitTokens(s.world, s.held)

\* The check comes before the withdrawals.
FaultyBatchOperationWithdraw(s, a, deposits, withdraws) ==
  LET t == WithdrawsOnBehalf(s, a, deposits, withdraws)
  IN  IsCollateralized(s.world, a) /\ CommitTokens(t.world, t.held)

BatchOperationWithdraw(s, a, deposits, withdraws) ==
  LET t == WithdrawsOnBehalf(s, a, deposits, withdraws)
  IN  IsCollateralized(t.world, a) /\ CommitTokens(t.world, t.held)

\* A block trade: deposits for the payer, then a pair that checks the payer.
SafeTransferFrom(payer, receiver, deposits, m, notional) ==
  LET s == DepositsOnBehalf([world |-> World, held |-> custody, records |-> << >>],
                            payer, 0, deposits)
  IN  \E w \in MintsfCashPair(s.world, payer, receiver, m, notional) :
        \E x \in Checked(w, payer) : CommitTokens(x, s.held)

BatchCall ==
  \E a \in Accounts, value \in EtherSent, deposits \in DepositLists, types \in TradeLists :
    \E s \in AfterTrades(a, value, deposits, types) :
      \/ BatchOperation(s, a, types)
      \/ \E withdraws \in WithdrawLists : BatchOperationWithdraw(s, a, deposits, withdraws)

BlockTrade ==
  \E payer, receiver \in Accounts, deposits \in DepositLists, m \in Maturities, n \in Amounts :
    SafeTransferFrom(payer, receiver, deposits, m, n)

\* An account's other calls for itself are batches of one part.
BatchNext == Tick \/ RateMoves \/ PortfoliosCall \/ BatchCall \/ BlockTrade

BatchSpec == Init /\ [][BatchNext]_vars

(****************************************************************************)
(* Properties.                                                              *)
(****************************************************************************)
World2 == [assets |-> accountAssets', markets |-> markets', cash |-> cashBalances']

HoldsTokens(a) ==
  \E i \in DOMAIN accountAssets[a] : IsLiquidityToken(accountAssets[a][i].assetType)

\* Whoever was collateralized and provides no liquidity is not below zero after the step.
PricesStep ==
  UNCHANGED <<blockTime, ethRate>> =>
    \A a \in Accounts :
      (~HoldsTokens(a) /\ IsCollateralized(World, a) /\ IsValued(World2, a))
        => FreeCollateral(World2, a) >= 0

\* Only time and the oracles put an account under water, and trades by others
\* if it provides liquidity: no transaction, its own or another's, checked
\* once at the end or not at all, takes free collateral from zero or above to
\* below (the checks of batchOperation, batchOperationWithdraw, withdraw and
\* the market's calls, and their absence for receivers and deposits).
OnlyPricesEndanger == [][PricesStep]_vars

HigherOf(x, y) == IF x < y THEN y ELSE x

OneDepositEach(deposits) ==
  \A i, j \in DOMAIN deposits : deposits[i].currency = deposits[j].currency => i = j

\* A withdrawal of zero takes out all that the batch brought in: whatever was
\* deposited and traded, the balance is no higher afterwards than when the
\* batch began (_calculateWithdrawAmount; no currency is deposited twice, and no
\* Ether sent along).
ResidualsLeaveNothing ==
  \A a \in Accounts, types \in TradeLists \ {<< >>} :
    \A deposits \in {ds \in DepositLists : OneDepositEach(ds)}, begun \in Begin(a) :
      \A s \in BatchTrade(DepositsOnBehalf(begun, a, 0, deposits), a, types) :
        LET t == WithdrawsOnBehalf(s, a, deposits, <<[currency |-> Local, amount |-> 0]>>)
        IN  t.world.cash[Local][a] <= HigherOf(begun.world.cash[Local][a], 0)
=============================================================================
