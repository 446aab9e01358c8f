------------------------------ MODULE Portfolios ------------------------------
(****************************************************************************)
(* The Portfolios contract: every account's asset array and the entry       *)
(* points that edit it for the cash markets, the ERC1155 token and trade    *)
(* contracts, and anyone who settles an account.                            *)
(*                                                                          *)
(* The free collateral check at the end of an entry point can only revert   *)
(* it; whether it does depends on contracts outside this module, so here a  *)
(* call may or may not go through.  That the check settles the account      *)
(* first changes this contract's state and is modelled.                     *)
(****************************************************************************)
EXTENDS AssetList

CONSTANTS
  Accounts,
  Groups,           \* cash group ids
  AMMGroups,        \* the groups with a cash market; the others are idiosyncratic
  MaturityLength,   \* maturityLength of every group
  NumMaturities,    \* numMaturities of every group
  Amounts,          \* the notional amounts callers pass
  MaxNotional,      \* bound of the model: no entry exceeds it
  MaxTime           \* bound of the model: the last block time

ASSUME GroupsAssumption  == AMMGroups \subseteq Groups
ASSUME AmountsAssumption == Amounts \subseteq Nat
ASSUME MaxTimeAssumption == MaxTime \in Nat

VARIABLES
  blockTime,
  accountAssets,    \* _accountAssets
  settledCash,      \* account, instrument -> cash sent to
                    \* Escrow.portfolioSettleCash for its cash assets, in total
  redeemed          \* account, instrument -> tokens handed to
                    \* CashMarket.settleLiquidityToken, in total

vars == <<blockTime, accountAssets, settledCash, redeemed>>

Maturities == 1 .. MaxTime + MaturityLength * NumMaturities

Instruments == Groups \X Maturities

Entry == [cashGroupId : Groups, maturity : Maturities,
          assetType : AssetTypes \ {LiquidityPayer}, notional : Nat]

\* _upsertAsset compares the length before it appends: one entry more than
\* MaxAssets fits, and no sequence of calls makes it two.
TypeOK ==
  /\ blockTime \in 0 .. MaxTime
  /\ accountAssets \in [Accounts -> Seq(Entry)]
  /\ \A a \in Accounts : Len(accountAssets[a]) <= MaxAssets + 1
  /\ settledCash \in [Accounts -> [Instruments -> Int]]
  /\ redeemed \in [Accounts -> [Instruments -> Nat]]

Positions(entries, types) == [k \in Instruments |-> Position(entries, types, k)]

CashTypes      == {CashPayer, CashReceiver}
LiquidityTypes == {LiquidityToken}

Init ==
  /\ blockTime = 0
  /\ accountAssets = [a \in Accounts |-> << >>]
  /\ settledCash = [a \in Accounts |-> Positions(<< >>, CashTypes)]
  /\ redeemed = [a \in Accounts |-> Positions(<< >>, LiquidityTypes)]

\* The positions the arrays stand for.
fCashPositions     == [a \in Accounts |-> Positions(accountAssets[a], CashTypes)]
LiquidityPositions == [a \in Accounts |-> Positions(accountAssets[a], LiquidityTypes)]

Bounded(portfolio) == \A i \in DOMAIN portfolio : portfolio[i].notional <= MaxNotional

(****************************************************************************)
(* Settlement.                                                              *)
(****************************************************************************)

Plus(x, y) == [k \in Instruments |-> x[k] + y[k]]

\* Store the portfolios a call leaves, account a's after _settleMaturedAssets.
StoreSettled(portfolios, a) ==
  LET loop == SettleLoop(portfolios[a], blockTime)
  IN  /\ accountAssets' = [portfolios EXCEPT ![a] = loop.portfolio]
      /\ settledCash' = [settledCash EXCEPT ![a] = Plus(@, Positions(loop.settled, CashTypes))]
      /\ redeemed' = [redeemed EXCEPT ![a] = Plus(@, Positions(loop.settled, LiquidityTypes))]
      /\ \A b \in Accounts : Bounded(portfolios[b])
      /\ UNCHANGED blockTime

StoreUnsettled(portfolios) ==
  /\ accountAssets' = portfolios
  /\ \A b \in Accounts : Bounded(portfolios[b])
  /\ UNCHANGED <<blockTime, settledCash, redeemed>>

\* settleMaturedAssets: anyone may settle any account.
SettleMaturedAssets(a) ==
  /\ \E i \in DOMAIN accountAssets[a] : accountAssets[a][i].maturity <= blockTime
  /\ StoreSettled(accountAssets, a)

(****************************************************************************)
(* upsertAccountAsset and upsertAccountAssetBatch, called by the market of  *)
(* group g, which names an unmatured maturity.  checkFreeCollateral is      *)
(* false for the trades of a batch operation.                               *)
(****************************************************************************)
MarketAssets(g, m, x, y) ==
  { <<Asset(g, m, LiquidityToken, x), Asset(g, m, CashPayer, y)>>,     \* addLiquidity
    <<Asset(g, m, LiquidityPayer, x), Asset(g, m, CashReceiver, y)>>,  \* removeLiquidity
    <<Asset(g, m, CashPayer, y)>>,                                     \* takeCurrentCash
    <<Asset(g, m, CashReceiver, y)>> }                                 \* takefCash

UpsertAccountAssetBatch(a, assets, checkFreeCollateral) ==
  \E portfolio \in UpsertAssets(accountAssets[a], assets, FALSE) :
    LET portfolios == [accountAssets EXCEPT ![a] = portfolio]
    IN  IF checkFreeCollateral
        THEN StoreSettled(portfolios, a)
        ELSE StoreUnsettled(portfolios)

(****************************************************************************)
(* transferAccountAsset, called by ERC1155Token._transfer, which admits     *)
(* unmatured entitlements only.                                             *)
(****************************************************************************)
TransferAccountAsset(from, to, asset) ==
  LET i == SearchAsset(accountAssets[from], asset, FALSE)
  IN  /\ IsReceiver(asset.assetType)
      /\ blockTime < asset.maturity
      /\ i # NotFound
      /\ asset.notional <= accountAssets[from][i].notional
      /\ LET reduced == [accountAssets EXCEPT ![from] = ReduceAsset(@, i, asset.notional)]
         IN  \E portfolio \in UpsertAsset(reduced[to], asset, FALSE) :
               StoreSettled([reduced EXCEPT ![to] = portfolio], from)

(****************************************************************************)
(* mintfCashPair, called by ERC1155Trade.safeTransferFrom.                  *)
(****************************************************************************)
Mintable(g, m) ==
  /\ blockTime < m
  /\ IF g \in AMMGroups
     THEN /\ m % MaturityLength = 0
          /\ m <= blockTime - (blockTime % MaturityLength) + MaturityLength * NumMaturities
     ELSE m <= blockTime + MaturityLength

MintfCashPair(payer, receiver, g, m, notional) ==
  /\ Mintable(g, m)
  /\ \E p \in UpsertAsset(accountAssets[payer], Asset(g, m, CashPayer, notional), FALSE) :
     LET paid == [accountAssets EXCEPT ![payer] = p]
     IN  \E r \in UpsertAsset(paid[receiver], Asset(g, m, CashReceiver, notional), FALSE) :
           StoreSettled([paid EXCEPT ![receiver] = r], payer)

Tick ==
  /\ blockTime < MaxTime
  /\ blockTime' = blockTime + 1
  /\ UNCHANGED <<accountAssets, settledCash, redeemed>>

MarketCall ==
  \E a \in Accounts, g \in AMMGroups, m \in Maturities : \E x, y \in Amounts :
    \E assets \in MarketAssets(g, m, x, y), checkFreeCollateral \in BOOLEAN :
      /\ Mintable(g, m)
      /\ UpsertAccountAssetBatch(a, assets, checkFreeCollateral)

Transfer ==
  \E from, to \in Accounts, g \in Groups, m \in Maturities,
     type \in AssetTypes, value \in Amounts :
    TransferAccountAsset(from, to, Asset(g, m, type, value))

Mint ==
  \E payer, receiver \in Accounts, g \in Groups, m \in Maturities, notional \in Amounts :
    MintfCashPair(payer, receiver, g, m, notional)

Settle == \E a \in Accounts : SettleMaturedAssets(a)

Next == Tick \/ MarketCall \/ Transfer \/ Mint \/ Settle

Spec == Init /\ [][Next]_vars

(****************************************************************************)
(* Safety.                                                                  *)
(****************************************************************************)

\* No two entries of a portfolio are for the same instrument with the same or
\* the opposite side.  _searchAsset edits the first match only, so a second
\* one would be out of reach of netting and of transfers.
NoDuplicateEntries ==
  \A a \in Accounts : \A i, j \in DOMAIN accountAssets[a] :
    LET x == accountAssets[a][i]
        y == accountAssets[a][j]
    IN  i # j => ~(/\ SameInstrument(x, y)
                   /\ IsLiquidityToken(x.assetType) = IsLiquidityToken(y.assetType))

(****************************************************************************)
(* The arrays implement the ledger of positions.                            *)
(****************************************************************************)
Ledger == INSTANCE PositionLedger WITH
  fCash <- fCashPositions, liquidity <- LiquidityPositions

\* Appending, aggregating, netting, flipping, swapping out and settling in a
\* loop that shrinks the array it walks change positions as the ledger says
\* and nothing else.
ImplementsLedger == Ledger!Spec
=============================================================================
