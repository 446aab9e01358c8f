------------------------------- MODULE Notional -------------------------------
(****************************************************************************)
(* The system: one cash group, its market, the portfolios and the cash      *)
(* balances, changed by whole transactions.  A transaction goes through     *)
(* CashMarket, Escrow and Portfolios in the order of the source and ends,   *)
(* where the source says so, with the free collateral check, which settles  *)
(* the account's matured assets first.  It commits entirely or not at all.  *)
(*                                                                          *)
(* Within a transaction the state is a world record, and a step that may    *)
(* revert is the set of worlds it can leave.                                *)
(*                                                                          *)
(* An operator whose name starts with Faulty is the definition after it     *)
(* with a plausible slip; the properties are checked to notice each one.    *)
(****************************************************************************)
EXTENDS RiskFramework, CashBalances

CONSTANTS
  Accounts,         \* users; the reserve account is not one of them
  MarketAccount,    \* the CashMarket contract's account in Escrow
  Currencies,       \* listed currencies, Ether among them
  Local,            \* the cash group's currency
  TransactionFee,   \* G_TRANSACTION_FEE, over Decimals
  MaxTradeSize,     \* G_MAX_TRADE_SIZE
  Answers,          \* the answers the rate oracles may give, over Decimals
  Amounts,          \* the amounts callers pass
  MaxTotal,         \* bound of the model: on a pool's totals and an entry's notional
  MaxCustody,       \* bound of the model: on the tokens deposited, per currency
  MaxTime           \* bound of the model: the last block time

ASSUME AccountsAssumption == IsFiniteSet(Accounts)
ASSUME CurrenciesAssumption == IsFiniteSet(Currencies) /\ {Ether, Local} \subseteq Currencies
ASSUME AnswersAssumption == Answers \subseteq Nat
ASSUME AmountsAssumption == Amounts \subseteq Nat
ASSUME FeeAssumption     == TransactionFee \in Nat
ASSUME MaxTimeAssumption == MaxTime \in Nat
ASSUME HoldersAssumption ==
  MarketAccount # Reserve /\ {MarketAccount, Reserve} \cap Accounts = {}

VARIABLES
  blockTime,
  accountAssets,    \* Portfolios: account -> array of assets
  markets,          \* CashMarket: instrument -> pool
  ethRate,          \* currency -> latestAnswer of its oracle
  cashBalances,     \* Escrow: currency, holder -> balance
  custody           \* currency -> tokens Escrow holds

vars == <<blockTime, ethRate, accountAssets, markets, cashBalances, custody>>

CashGroup   == 1
Maturities  == {m \in 1 .. MaxTime + MaturityLength * NumMaturities : m % MaturityLength = 0}
Instruments == {CashGroup} \X Maturities
Holders     == Accounts \cup {MarketAccount, Reserve}

Entry == [cashGroupId : {CashGroup}, maturity : Maturities,
          assetType : {CashPayer, CashReceiver, LiquidityToken}, notional : Nat]

TypeOK ==
  /\ blockTime \in 0 .. MaxTime
  /\ ethRate \in [Currencies \ {Ether} -> Answers]
  /\ accountAssets \in [Accounts -> Seq(Entry)]
  /\ \A a \in Accounts : Len(accountAssets[a]) <= MaxAssets + 1
  /\ markets \in [Instruments -> Market]
  /\ cashBalances \in [Currencies -> [Holders -> Int]]
  /\ custody \in [Currencies -> Nat]

Init ==
  /\ blockTime = 0
  /\ ethRate \in [Currencies \ {Ether} -> Answers]
  /\ accountAssets = [a \in Accounts |-> << >>]
  /\ markets = [k \in Instruments |-> EmptyMarket]
  /\ cashBalances = [c \in Currencies |-> [h \in Holders |-> 0]]
  /\ custody = [c \in Currencies |-> 0]

World == [assets |-> accountAssets, markets |-> markets, cash |-> cashBalances]

Bounded(w) ==
  /\ \A a \in Accounts : \A i \in DOMAIN w.assets[a] : w.assets[a][i].notional <= MaxTotal
  /\ \A k \in Instruments :
       /\ w.markets[k].totalfCash <= MaxTotal
       /\ w.markets[k].totalCurrentCash <= MaxTotal
       /\ w.markets[k].totalLiquidity <= MaxTotal

\* Commit world w and the tokens Escrow then holds, none of which may be less
\* than nothing.
CommitTokens(w, held) ==
  /\ Bounded(w)
  /\ \A c \in Currencies : held[c] \in 0 .. MaxCustody
  /\ accountAssets' = w.assets
  /\ markets' = w.markets
  /\ cashBalances' = w.cash
  /\ custody' = held
  /\ UNCHANGED <<blockTime, ethRate>>

\* Commit world w, with n tokens of currency c entering custody (leaving, if
\* negative).
Commit(w, c, n) == CommitTokens(w, [custody EXCEPT ![c] = @ + n])

(****************************************************************************)
(* Settlement.  Portfolios sums what the matured assets come to and posts   *)
(* it at the end; a token's cash comes out of the market as it is redeemed. *)
(****************************************************************************)
FaultyDropsfCash(w, a, asset) ==
  LET k  == <<asset.cashGroupId, asset.maturity>>
      mk == w.markets[k]
  IN  IF CanRedeem(mk, asset.notional)
      THEN { [w EXCEPT !.markets[k] = RedeemFrom(mk, asset.notional), !.cash[Local] = book] :
               book \in WithdrawFromMarket(w.cash[Local], MarketAccount, a,
                                           CashClaim(mk, asset.notional), 0) }
      ELSE {}
SettleToken(w, a, asset) ==
  LET k    == <<asset.cashGroupId, asset.maturity>>
      mk   == w.markets[k]
      owed == fCashClaim(mk, asset.notional)
  IN  IF CanRedeem(mk, asset.notional)
      THEN { [w EXCEPT !.markets[k] = RedeemFrom(mk, asset.notional),
                       !.cash[Local] = Credit(book, a, owed)] :
               book \in WithdrawFromMarket(w.cash[Local], MarketAccount, a,
                                           CashClaim(mk, asset.notional), 0) }
      ELSE {}

SettleAsset(w, a, asset) ==
  IF IsLiquidityToken(asset.assetType)
  THEN SettleToken(w, a, asset)
  ELSE {[w EXCEPT !.cash[Local] = Credit(@, a, Signed(asset))]}

Settled(w, a) ==
  LET loop == SettleLoop(w.assets[a], blockTime)
  IN  FoldLeft(LAMBDA worlds, asset : UNION {SettleAsset(v, a, asset) : v \in worlds},
               {[w EXCEPT !.assets[a] = loop.portfolio]},
               loop.settled)

(****************************************************************************)
(* Free collateral, in ETH.                                                 *)
(****************************************************************************)
\* The total of a table of numbers.
Total(f) == MapThenSumSet(LAMBDA x : f[x], DOMAIN f)

NetBalance(w, a, c) ==
  w.cash[c][a] + IF c = Local THEN GroupValue(w.assets[a], TRUE, w.markets, blockTime) ELSE 0

IsValued(w, a) ==
  /\ CanValue(w.assets[a], w.markets, blockTime)
  /\ \A c \in Currencies : CanConvert(c, NetBalance(w, a, c), ethRate)

FreeCollateral(w, a) ==
  Total([c \in Currencies |-> EthValue(c, NetBalance(w, a, c), ethRate)])

IsCollateralized(w, a) == IsValued(w, a) /\ FreeCollateral(w, a) >= 0

\* freeCollateral and the requirement that follows it.
Checked(w, a) == {s \in Settled(w, a) : IsCollateralized(s, a)}

(****************************************************************************)
(* Deposits and withdrawals.                                                *)
(****************************************************************************)
\* The reserve account is funded like any other.
Deposit(h, c, n) ==
  Commit([World EXCEPT !.cash[c] = Credit(@, h, n)], c, n)

\* The token named is listed; module Escrow has the other case.
Withdraw(a, c, n) ==
  \E s \in Settled(World, a) :
    LET paid  == Withdrawn(s.cash[c], a, n)
        after == [s EXCEPT !.cash[c] = Credit(@, a, -paid)]
    IN  /\ s.cash[c][a] > 0
        /\ IsCollateralized(after, a)
        /\ Commit(after, c, -paid)

WithdrawEth(a, n) ==
  \E book \in DebitNoNeg(cashBalances[Ether], a, n) :
    \E s \in Checked([World EXCEPT !.cash[Ether] = book], a) : Commit(s, Ether, -n)

(****************************************************************************)
(* The market.  Its pool changes first, then the cash moves, then the       *)
(* assets are posted and the account is checked.                            *)
(****************************************************************************)
Upserted(w, a, assets) ==
  {[w EXCEPT !.assets[a] = portfolio] : portfolio \in UpsertAssets(w.assets[a], assets, FALSE)}

Traded(w, a, m, mk, books, assets) ==
  UNION { Upserted([w EXCEPT !.markets[<<CashGroup, m>>] = mk, !.cash[Local] = book], a, assets) :
            book \in books }

PoolIn(w, m) == w.markets[<<CashGroup, m>>]
Pool(m)      == PoolIn(World, m)

Tradeable(m) == IsValidBlock(blockTime, m, MaturityLength, NumMaturities)

\* _calculateTransactionFee
Fee(cash, m) ==
  (cash * TransactionFee * (m - blockTime)) \div (MaturityLength * Decimals)

Paying(w, a, value, fee)    == DepositIntoMarket(w.cash[Local], MarketAccount, a, value, fee)
Receiving(w, a, value, fee) == WithdrawFromMarket(w.cash[Local], MarketAccount, a, value, fee)

\* The worlds that the market's functions leave of w, before any check.
AddsFirstLiquidity(w, a, m, cash, maxfCash) ==
  IF Tradeable(m) /\ PoolIn(w, m).totalLiquidity = 0
       /\ HasImpliedRate(FirstLiquidity(cash, maxfCash))
  THEN Traded(w, a, m, FirstLiquidity(cash, maxfCash), Paying(w, a, cash, 0),
              <<Asset(CashGroup, m, LiquidityToken, cash),
                Asset(CashGroup, m, CashPayer, maxfCash)>>)
  ELSE {}

CanJoin(mk, cash, maxfCash) ==
  /\ mk.totalLiquidity # 0
  /\ mk.totalCurrentCash > 0
  /\ fCashOwed(mk, cash) <= maxfCash

FaultyOwesMaximum(w, a, m, cash, maxfCash) ==
  LET mk == PoolIn(w, m)
  IN  IF Tradeable(m) /\ CanJoin(mk, cash, maxfCash)
      THEN Traded(w, a, m, AddLiquidityTo(mk, cash), Paying(w, a, cash, 0),
                  <<Asset(CashGroup, m, LiquidityToken, TokensMinted(mk, cash)),
                    Asset(CashGroup, m, CashPayer, maxfCash)>>)
      ELSE {}

AddsLiquidity(w, a, m, cash, maxfCash) ==
  LET mk == PoolIn(w, m)
  IN  IF Tradeable(m) /\ CanJoin(mk, cash, maxfCash)
      THEN Traded(w, a, m, AddLiquidityTo(mk, cash), Paying(w, a, cash, 0),
                  <<Asset(CashGroup, m, LiquidityToken, TokensMinted(mk, cash)),
                    Asset(CashGroup, m, CashPayer, fCashOwed(mk, cash))>>)
      ELSE {}

RemovesLiquidity(w, a, m, tokens) ==
  LET mk == PoolIn(w, m)
  IN  IF blockTime < m /\ CanRedeem(mk, tokens)
      THEN Traded(w, a, m, RedeemFrom(mk, tokens), Receiving(w, a, CashClaim(mk, tokens), 0),
                  <<Asset(CashGroup, m, LiquidityPayer, tokens),
                    Asset(CashGroup, m, CashReceiver, fCashClaim(mk, tokens))>>)
      ELSE {}

\* A fee that takes all the cash leaves no rate to compare with the limit.
TakesCurrentCash(w, a, m, fCash, cash) ==
  LET mk == PoolIn(w, m)
  IN  IF Tradeable(m) /\ fCash <= MaxTradeSize /\ CanBorrow(mk, fCash, cash) /\ Fee(cash, m) < cash
      THEN Traded(w, a, m, BorrowFrom(mk, fCash, cash), Receiving(w, a, cash, Fee(cash, m)),
                  <<Asset(CashGroup, m, CashPayer, fCash)>>)
      ELSE {}

CanTakefCash(mk, m, fCash, cash) ==
  /\ Tradeable(m)
  /\ fCash <= MaxTradeSize
  /\ CanLend(mk, fCash, cash)
  /\ cash + Fee(cash, m) <= fCash

FaultyFeeToMarket(w, a, m, fCash, cash) ==
  LET mk == PoolIn(w, m)
  IN  IF CanTakefCash(mk, m, fCash, cash)
      THEN Traded(w, a, m, LendTo(mk, fCash, cash), Paying(w, a, cash + Fee(cash, m), 0),
                  <<Asset(CashGroup, m, CashReceiver, fCash)>>)
      ELSE {}

\* A lender who would pay more than the fCash has a negative rate: it reverts.
TakesfCash(w, a, m, fCash, cash) ==
  LET mk == PoolIn(w, m)
  IN  IF CanTakefCash(mk, m, fCash, cash)
      THEN Traded(w, a, m, LendTo(mk, fCash, cash), Paying(w, a, cash, Fee(cash, m)),
                  <<Asset(CashGroup, m, CashReceiver, fCash)>>)
      ELSE {}

\* A call made by the account itself ends with its check.
Completes(worlds, a) == \E w \in worlds : \E s \in Checked(w, a) : Commit(s, Local, 0)

OpenMarket(a, m, cash, maxfCash)  == Completes(AddsFirstLiquidity(World, a, m, cash, maxfCash), a)
JoinMarket(a, m, cash, maxfCash)  == Completes(AddsLiquidity(World, a, m, cash, maxfCash), a)
RemoveLiquidity(a, m, tokens)     == Completes(RemovesLiquidity(World, a, m, tokens), a)
TakeCurrentCash(a, m, fCash, cash) == Completes(TakesCurrentCash(World, a, m, fCash, cash), a)
TakefCash(a, m, fCash, cash)       == Completes(TakesfCash(World, a, m, fCash, cash), a)

(****************************************************************************)
(* Portfolios.                                                              *)
(****************************************************************************)
SettleMaturedAssets(a) ==
  /\ \E i \in DOMAIN accountAssets[a] : accountAssets[a][i].maturity <= blockTime
  /\ \E s \in Settled(World, a) : Commit(s, Local, 0)

TransferAccountAsset(from, to, asset) ==
  LET i == SearchAsset(accountAssets[from], asset, FALSE)
  IN  /\ IsReceiver(asset.assetType)
      /\ blockTime < asset.maturity
      /\ i # NotFound
      /\ asset.notional <= accountAssets[from][i].notional
      /\ \E w \in Upserted([World EXCEPT !.assets[from] = ReduceAsset(@, i, asset.notional)],
                           to, <<asset>>) :
           \E s \in Checked(w, from) : Commit(s, Local, 0)

MintsfCashPair(w, payer, receiver, m, notional) ==
  IF Tradeable(m)
  THEN UNION { Upserted(v, receiver, <<Asset(CashGroup, m, CashReceiver, notional)>>) :
                 v \in Upserted(w, payer, <<Asset(CashGroup, m, CashPayer, notional)>>) }
  ELSE {}

MintfCashPair(payer, receiver, m, notional) ==
  Completes(MintsfCashPair(World, payer, receiver, m, notional), payer)

(****************************************************************************)
(* settleReserve                                                            *)
(****************************************************************************)
SettleReserve(a, c) ==
  \E s \in Settled(World, a) :
    /\ \A d \in Currencies : s.cash[d][a] <= 0
    /\ \A i \in DOMAIN s.assets[a] : ~IsReceiver(s.assets[a][i].assetType)
    /\ s.cash[c][a] < 0
    /\ Commit([s EXCEPT !.cash[c] = SettleAgainstReserve(@, a)], c, 0)

Tick ==
  /\ blockTime < MaxTime
  /\ blockTime' = blockTime + 1
  /\ UNCHANGED <<ethRate, accountAssets, markets, cashBalances, custody>>

\* The oracle of one currency gives another answer.
RateMoves ==
  /\ \E c \in Currencies \ {Ether}, answer \in Answers :
       ethRate' = [ethRate EXCEPT ![c] = answer]
  /\ UNCHANGED <<blockTime, accountAssets, markets, cashBalances, custody>>

CashCall ==
  \E n \in Amounts :
    \/ \E h \in Accounts \cup {Reserve}, c \in Currencies : Deposit(h, c, n)
    \/ \E a \in Accounts, c \in Currencies : Withdraw(a, c, n)
    \/ \E a \in Accounts : WithdrawEth(a, n)

LiquidityCall ==
  \E a \in Accounts, m \in Maturities, x, y \in Amounts :
    \/ OpenMarket(a, m, x, y)
    \/ JoinMarket(a, m, x, y)
    \/ RemoveLiquidity(a, m, x)

TradeCall ==
  \E a \in Accounts, m \in Maturities, fCash, cash \in Amounts :
    TakeCurrentCash(a, m, fCash, cash) \/ TakefCash(a, m, fCash, cash)

PortfoliosCall ==
  \/ \E a \in Accounts : SettleMaturedAssets(a)
  \/ \E x, y \in Accounts, m \in Maturities, n \in Amounts :
       \/ MintfCashPair(x, y, m, n)
       \/ \E type \in AssetTypes : TransferAccountAsset(x, y, Asset(CashGroup, m, type, n))

ReserveCall == \E a \in Accounts, c \in Currencies : SettleReserve(a, c)

Next == Tick \/ RateMoves \/ CashCall \/ LiquidityCall \/ TradeCall \/ PortfoliosCall \/ ReserveCall

Spec == Init /\ [][Next]_vars

(****************************************************************************)
(* Safety.                                                                  *)
(****************************************************************************)

CashTypes  == {CashPayer, CashReceiver}
TokenTypes == {LiquidityToken, LiquidityPayer}

\* What the portfolios hold of an instrument in entries of some types, obligations
\* counted against entitlements.
HeldBy(assets, types, k) == Total([a \in Accounts |-> Position(assets[a], types, k)])

\* What the portfolios and the pool hold of one maturity's fCash, net.
NetfCash(m) == Pool(m).totalfCash + HeldBy(accountAssets, CashTypes, <<CashGroup, m>>)

\* Until it matures, a maturity's fCash nets to zero between the accounts and
\* the pool: every trade posts to the portfolio what it takes from the pool.
fCashNetsToZero == \A m \in Maturities : blockTime < m => NetfCash(m) = 0

\* The tokens in the portfolios are the pool's supply, before and after
\* maturity, however few of the accounts have been settled.
TokensMatchSupply ==
  \A m \in Maturities :
    HeldBy(accountAssets, TokenTypes, <<CashGroup, m>>) = Pool(m).totalLiquidity

\* The market's cash balance in Escrow is the cash its pools think they have.
PoolsHoldTheirCash ==
  cashBalances[Local][MarketAccount] = Total([m \in Maturities |-> Pool(m).totalCurrentCash])

\* Escrow's tokens back the balances: all the balances of a currency and the
\* matured fCash that is still to be settled into it sum to the tokens held,
\* in whatever order the accounts are settled.
Solvent ==
  \A c \in Currencies :
    custody[c] = Total(cashBalances[c])
                   + IF c = Local
                     THEN Total([m \in {x \in Maturities : x <= blockTime} |-> NetfCash(m)])
                     ELSE 0

\* "An account's free collateral position will remain unchanged after
\* settlement" (portfolioSettleCash): what the view counts for matured assets
\* and claims is what settlement turns them into.
SettlementNeutral ==
  \A a \in Accounts : \A s \in Settled(World, a) :
    IsValued(World, a) => FreeCollateral(s, a) = FreeCollateral(World, a)

\* How often an array holds an asset.
Times(list, x) == Total([i \in DOMAIN list |-> IF list[i] = x THEN 1 ELSE 0])

\* Settlement takes exactly the matured assets, although its loop swaps the
\* last asset into each gap: the check that follows values the rest, and would
\* count a matured one as a claim on cash or trip over a lost one.
SettlesExactlyMatured ==
  \A a \in Accounts : \A s \in Settled(World, a) :
    LET before == accountAssets[a]
        after  == s.assets[a]
    IN  \A x \in ToSet(before) \cup ToSet(after) :
          Times(after, x) = IF blockTime < x.maturity THEN Times(before, x) ELSE 0

\* "Receivers of transfers do not need to pass a free collateral check [...]
\* their free collateral position will always increase": an entitlement that
\* an account can be sent, netted into its portfolio, costs it nothing.
ReceiversNeverLose ==
  \A a \in Accounts, type \in AssetTypes, m \in Maturities, n \in Amounts :
    (IsReceiver(type) /\ blockTime < m) =>
      \A w \in Upserted(World, a, <<Asset(CashGroup, m, type, n)>>) :
        (IsValued(World, a) /\ IsValued(w, a)) =>
          FreeCollateral(w, a) >= FreeCollateral(World, a)

\* A balance falls below zero, or further below, by no more than the account's
\* matured obligations: neither a trade, its fee, a withdrawal nor the order
\* in which a call moves cash and settles can overdraw an account.
MaturedPayer(x) == x.maturity <= blockTime /\ x.assetType = CashPayer

MaturedDebt(a) ==
  LET assets == accountAssets[a]
  IN  Total([i \in DOMAIN assets |-> IF MaturedPayer(assets[i]) THEN assets[i].notional ELSE 0])

DebtStep ==
  \A c \in Currencies, a \in Accounts :
    cashBalances'[c][a] >=
      LowerOf(cashBalances[c][a], 0) - IF c = Local THEN MaturedDebt(a) ELSE 0

DebtOnlyFromMaturedAssets == [][DebtStep]_vars

(****************************************************************************)
(* Claims of the source that the code does not keep.                        *)
(****************************************************************************)

\* "Gets the maturities for all the active markets" (getActiveMaturities): an
\* account may hold an asset of a maturity the market advertises.  When the
\* block time is a maturity itself, the furthest one is beyond the ladder.
ActiveMaturitiesValued ==
  \A m \in ActiveMaturities(blockTime, MaturityLength, NumMaturities) :
    CanValue(<<Asset(CashGroup, m, CashReceiver, 1)>>, markets, blockTime)

\* "Anyone may settle the assets in any account" (settleMaturedAssets): it
\* never reverts.  A token of zero notional outlives the pool's last holder
\* and its claim then divides by zero.
EveryAccountSettles == \A a \in Accounts : Settled(World, a) # {}
=============================================================================
