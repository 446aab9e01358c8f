------------------------------ MODULE AssetList ------------------------------
(****************************************************************************)
(* An account's portfolio as Portfolios.sol stores it, an array of assets,  *)
(* and the internal functions that search and edit it.  An operation that   *)
(* may revert is the set of portfolios it can leave: empty when it reverts. *)
(* Instrument ids are always zero and the rate field is never read, so both *)
(* are left out.                                                            *)
(*                                                                          *)
(* An operator whose name starts with Faulty is the definition after it     *)
(* with a plausible slip; the properties are checked to notice each one.    *)
(****************************************************************************)
EXTENDS Integers, Sequences, FiniteSetsExt, SequencesExt

CONSTANT MaxAssets        \* G_MAX_ASSETS

ASSUME MaxAssetsAssumption == MaxAssets \in Nat

(****************************************************************************)
(* Asset types.  A payer liquidity token exists in memory only, to mark the *)
(* removal of liquidity.                                                    *)
(****************************************************************************)
CashPayer      == "CASH_PAYER"
CashReceiver   == "CASH_RECEIVER"
LiquidityToken == "LIQUIDITY_TOKEN"
LiquidityPayer == "LIQUIDITY_PAYER"

AssetTypes == {CashPayer, CashReceiver, LiquidityToken, LiquidityPayer}

MakeCounterparty(type) ==
  CASE type = CashPayer      -> CashReceiver
    [] type = CashReceiver   -> CashPayer
    [] type = LiquidityToken -> LiquidityPayer
    [] type = LiquidityPayer -> LiquidityToken

IsLiquidityToken(type) == type \in {LiquidityToken, LiquidityPayer}
FaultyAnySide(type)    == type \in AssetTypes
IsReceiver(type)       == type \in {CashReceiver, LiquidityToken}

Asset(cashGroupId, maturity, assetType, notional) ==
  [cashGroupId |-> cashGroupId, maturity |-> maturity,
   assetType |-> assetType, notional |-> notional]

SameInstrument(x, y) == x.cashGroupId = y.cashGroupId /\ x.maturity = y.maturity

(****************************************************************************)
(* Searching and removing.                                                  *)
(****************************************************************************)

\* _searchAsset: the first entry that matches, or NotFound.
NotFound == 0

SearchAsset(portfolio, asset, findCounterparty) ==
  LET matches == { i \in DOMAIN portfolio :
                     /\ SameInstrument(portfolio[i], asset)
                     /\ \/ portfolio[i].assetType = asset.assetType
                        \/ /\ findCounterparty
                           /\ portfolio[i].assetType = MakeCounterparty(asset.assetType) }
  IN  IF matches = {} THEN NotFound ELSE Min(matches)

\* _removeAsset: the last entry takes the place of the removed one.
FaultyRemoveLast(portfolio, i) == Front(portfolio)
RemoveAsset(portfolio, i) == Front([portfolio EXCEPT ![i] = Last(portfolio)])

\* _reduceAsset, for value <= portfolio[i].notional.
ReduceAsset(portfolio, i, value) ==
  IF portfolio[i].notional = value
  THEN RemoveAsset(portfolio, i)
  ELSE [portfolio EXCEPT ![i].notional = @ - value]

(****************************************************************************)
(* _upsertAsset                                                             *)
(****************************************************************************)
AppendAsset(portfolio, asset, liquidateAllowAdd) ==
  IF /\ Len(portfolio) <= MaxAssets \/ liquidateAllowAdd
     /\ asset.assetType # LiquidityPayer
  THEN {Append(portfolio, asset)}
  ELSE {}

FaultyOverdraw(portfolio, i, asset) ==
  IF portfolio[i].notional >= asset.notional
  THEN {ReduceAsset(portfolio, i, asset.notional)}
  ELSE {[portfolio EXCEPT ![i].notional = asset.notional - @,
                          ![i].assetType = asset.assetType]}
NetAgainst(portfolio, i, asset) ==
  IF portfolio[i].notional >= asset.notional
  THEN {ReduceAsset(portfolio, i, asset.notional)}
  ELSE IF IsLiquidityToken(asset.assetType)
  THEN {}
  ELSE {[portfolio EXCEPT ![i].notional = asset.notional - @,
                          ![i].assetType = asset.assetType]}

FaultyAppendCounterparty(portfolio, asset, liquidateAllowAdd) ==
  LET i == SearchAsset(portfolio, asset, FALSE)
  IN  IF i = NotFound
      THEN AppendAsset(portfolio, asset, liquidateAllowAdd)
      ELSE {[portfolio EXCEPT ![i].notional = @ + asset.notional]}
UpsertAsset(portfolio, asset, liquidateAllowAdd) ==
  LET i == SearchAsset(portfolio, asset, TRUE)
  IN  CASE i = NotFound ->
             AppendAsset(portfolio, asset, liquidateAllowAdd)
        [] i # NotFound /\ portfolio[i].assetType = asset.assetType ->
             {[portfolio EXCEPT ![i].notional = @ + asset.notional]}
        [] OTHER ->
             NetAgainst(portfolio, i, asset)

\* The loop of upsertAccountAssetBatch and of _tradePortfolio.
UpsertAssets(portfolio, assets, liquidateAllowAdd) ==
  FoldLeft(LAMBDA portfolios, asset :
             UNION {UpsertAsset(p, asset, liquidateAllowAdd) : p \in portfolios},
           {portfolio}, assets)

(****************************************************************************)
(* The loop of _settleMaturedAssets.  Every pass either moves past entry i  *)
(* or removes it and looks again at what took its place, so the loop makes  *)
(* one pass per entry; it reports the assets it took, in order.             *)
(****************************************************************************)
FaultySkipsSwapped(s, blockTime) ==
  IF s.i > Len(s.portfolio)
  THEN s
  ELSE IF s.portfolio[s.i].maturity <= blockTime
  THEN [portfolio |-> RemoveAsset(s.portfolio, s.i), i |-> s.i + 1,
        settled |-> Append(s.settled, s.portfolio[s.i])]
  ELSE [s EXCEPT !.i = @ + 1]
SettlePass(s, blockTime) ==
  IF s.portfolio[s.i].maturity <= blockTime
  THEN [s EXCEPT !.portfolio = RemoveAsset(@, s.i),
                 !.settled = Append(@, s.portfolio[s.i])]
  ELSE [s EXCEPT !.i = @ + 1]

SettleLoop(portfolio, blockTime) ==
  FoldLeft(LAMBDA s, pass : SettlePass(s, blockTime),
           [portfolio |-> portfolio, i |-> 1, settled |-> << >>],
           portfolio)

\* What an account owes (-) or is owed (+) for an entry.
Signed(asset) ==
  IF asset.assetType \in {CashPayer, LiquidityPayer} THEN -asset.notional ELSE asset.notional

\* What an entry of one of the given types adds to the position in instrument k.
Share(asset, types, k) ==
  IF <<asset.cashGroupId, asset.maturity>> = k /\ asset.assetType \in types
  THEN Signed(asset)
  ELSE 0

\* The signed notional in instrument k of a list's entries of the given types.
Position(entries, types, k) ==
  LET share == [i \in DOMAIN entries |-> Share(entries[i], types, k)]
  IN  MapThenSumSet(LAMBDA i : share[i], DOMAIN entries)
=============================================================================
