------------------------------ MODULE ThirdParty ------------------------------
(****************************************************************************)
(* Escrow's calls that let a third party settle or liquidate an account:    *)
(* settleCashBalance, liquidate, settlefCash and liquidatefCash, with what  *)
(* they make of the account's portfolio, the markets, the balances and the  *)
(* tokens held, while the oracles move between calls.                       *)
(*                                                                          *)
(* Nothing is matured here: each call settles the payer first, which module *)
(* Notional has.  A batch is its single calls with one payment at the end.  *)
(*                                                                          *)
(* An operator whose name starts with Faulty is the definition after it     *)
(* with a plausible slip; the properties are checked to notice each one.    *)
(****************************************************************************)
EXTENDS Liquidation

CONSTANTS
  Payer, Liquidator,
  Others,         \* all other holders of balances, as one
  Currencies,     \* Ether among them
  Kinds,          \* the kinds of token the currencies may have
  PayerStarts,    \* records of the payer's cash, by currency, and its assets
  LiquidatorCash, \* the balance of the liquidator in every currency
  OthersCash,     \* and of the others
  Pools,          \* the pools at the start, by group and maturity
  Answers,        \* an oracle's answers, as the price of one Decimals in ether
  Values,         \* amounts to settle
  MaxAmounts,     \* limits on a liquidation; 0 for none
  MaxCalls        \* bound on the calls

VARIABLES
  accountAssets,  \* account -> portfolio
  markets,        \* group and maturity -> pool
  cashBalances,   \* currency -> holder -> balance
  custody,        \* currency -> tokens the contract holds
  kind,           \* currency -> kind of its token
  ethRate,        \* currency -> answer of its oracle
  calls

vars == <<accountAssets, markets, cashBalances, custody, kind, ethRate, calls>>

Accounts == {Payer, Liquidator}
MarketAccounts == {MarketOf[g] : g \in DOMAIN MarketOf}
Priced   == Currencies \ {Ether}

\* Every maturity of a cash group has a pool, if an empty one.
Groups     == DOMAIN GroupCurrency
Maturities == {k[2] : k \in DOMAIN Pools}

ASSUME PartiesAssumption ==
  /\ Payer # Liquidator
  /\ Accounts \cap MarketAccounts = {}

ASSUME CurrenciesAssumption ==
  /\ IsFiniteSet(Currencies) /\ Ether \in Currencies
  /\ \A g \in Groups : GroupCurrency[g] \in Currencies
  /\ Kinds \subseteq {"ERC20", "FeeERC20", "ERC777"}

ASSUME PoolsAssumption ==
  /\ IsFiniteSet(DOMAIN Pools) /\ DOMAIN Pools = Groups \X Maturities /\ Maturities \subseteq Nat
  /\ Pools \in [DOMAIN Pools -> Market] /\ \A k \in DOMAIN Pools : Consistent(Pools[k])

HeldAsset ==
  [cashGroupId : Groups, maturity : Maturities,
   assetType : AssetTypes \ {LiquidityPayer}, notional : Nat]

\* An account has one entry, on one side, for an instrument (see Portfolios).
OneEntryEach(p) ==
  \A i, j \in DOMAIN p : i # j =>
    ~( /\ SameInstrument(p[i], p[j])
       /\ IsLiquidityToken(p[i].assetType) = IsLiquidityToken(p[j].assetType) )

ASSUME StartsAssumption ==
  \A start \in PayerStarts :
    /\ start.cash \in [Currencies -> Int]
    /\ start.assets \in Seq(HeldAsset) /\ OneEntryEach(start.assets)

ASSUME AmountsAssumption ==
  /\ LiquidatorCash \in Int /\ OthersCash \in Int
  /\ Answers \subseteq Nat \ {0}
  /\ Values \subseteq Nat /\ MaxAmounts \subseteq Nat /\ MaxCalls \in Nat

World == [assets |-> accountAssets, markets |-> markets,
          cash |-> cashBalances, custody |-> custody]

World2 == [assets |-> accountAssets', markets |-> markets',
           cash |-> cashBalances', custody |-> custody']

(****************************************************************************)
(* Free collateral.                                                         *)
(****************************************************************************)
GroupsOf(currency) == {g \in DOMAIN GroupCurrency : GroupCurrency[g] = currency}

CashClaims(w, a, currency) ==
  LET p     == w.assets[a]
      claim == [i \in DOMAIN p |-> CashClaimOf(p[i], w.markets, Now)]
  IN  MapThenSumSet(LAMBDA i : claim[i], {i \in DOMAIN p : IsIn(p[i], currency)})

NetAvailable(w, a, currency) ==
  LET p       == w.assets[a]
      of(g)   == {i \in DOMAIN p : p[i].cashGroupId = g}
      value   == [g \in GroupsOf(currency) |-> GroupValueAt(p, of(g), TRUE, w.markets, Now)]
  IN  w.cash[currency][a] + MapThenSumSet(LAMBDA g : value[g], GroupsOf(currency))

FreeCollateral(w, a) ==
  LET value == [c \in Currencies |-> EthValue(c, NetAvailable(w, a, c), ethRate)]
  IN  MapThenSumSet(LAMBDA c : value[c], Currencies)

\* freeCollateralFactors
Factors(w, a, local, collateral) ==
  [aggregate       |-> FreeCollateral(w, a),
   localNet        |-> NetAvailable(w, a, local),
   collateralNet   |-> NetAvailable(w, a, collateral),
   localClaim      |-> CashClaims(w, a, local),
   collateralClaim |-> CashClaims(w, a, collateral)]

HasCollateral(w, a) == \E c \in Currencies : w.cash[c][a] > 0

(****************************************************************************)
(* _finishLiquidateSettle.  A token with a transfer fee is paid for from    *)
(* the caller's balance; another comes from the caller's wallet, and an     *)
(* ERC777 token announces itself to tokensReceived, which credits it.       *)
(****************************************************************************)
TokensReceived(currency, n) == IF kind[currency] = "ERC777" THEN n ELSE 0

FinishLiquidateSettle(w, caller, currency, n) ==
  CASE n > 0 /\ kind[currency] = "FeeERC20" ->
         { x \in {[w EXCEPT !.cash[currency] = book] :
                     book \in DebitNoNeg(w.cash[currency], caller, n)} :
             FreeCollateral(x, caller) >= 0 }
    [] n > 0 /\ kind[currency] # "FeeERC20" ->
         {[w EXCEPT !.custody[currency] = @ + n,
                    !.cash[currency] = Credit(@, caller, TokensReceived(currency, n))]}
    [] OTHER ->
         IF w.custody[currency] + n >= 0 THEN {[w EXCEPT !.custody[currency] = @ + n]} ELSE {}

\* The end of a call: both currencies change hands.
Finish(w, caller, local, localPaid, collateral, collateralPaid) ==
  \E x \in FinishLiquidateSettle(w, caller, local, localPaid) :
    \E y \in FinishLiquidateSettle(x, caller, collateral, collateralPaid) :
      /\ accountAssets' = y.assets
      /\ markets' = y.markets
      /\ cashBalances' = y.cash
      /\ custody' = y.custody
      /\ calls' = calls + 1
      /\ UNCHANGED <<kind, ethRate>>

Valid(local, collateral) ==
  /\ calls < MaxCalls
  /\ local # collateral
  /\ CanValue(accountAssets[Payer], markets, Now)

\* The payer's balances after a trade.
Booked(t, local, collateral) ==
  [t.world EXCEPT !.cash[collateral][Payer] = t.balance, !.cash[local][Payer] = @ + t.payer]

(****************************************************************************)
(* settleCashBalance and liquidate, for any caller but the payer.           *)
(****************************************************************************)
SettleCashBalance(local, collateral, value) ==
  /\ Valid(local, collateral)
  /\ value > 0
  /\ cashBalances[local][Payer] <= -value
  /\ \E t \in Settle(World, Payer, local, collateral, cashBalances[collateral][Payer],
                     Factors(World, Payer, local, collateral), value, ethRate) :
       Finish(Booked(t, local, collateral), Liquidator,
              local, t.liquidator, collateral, -t.collateral)

LiquidateAccount(local, collateral, maxAmount) ==
  /\ Valid(local, collateral)
  /\ FreeCollateral(World, Payer) < 0
  /\ \E t \in Liquidate(World, Payer, local, collateral, cashBalances[collateral][Payer],
                        Factors(World, Payer, local, collateral), maxAmount, ethRate) :
       Finish(Booked(t, local, collateral), Liquidator,
              local, t.liquidator, collateral, -t.collateral)

(****************************************************************************)
(* settlefCash and liquidatefCash: the payer has no cash and no tokens, and *)
(* may be the caller.  The balance is read again after the sale.            *)
(****************************************************************************)
Paid(w, local, n) == [w EXCEPT !.cash[local] = Credit(@, Payer, n)]

SettleLocalfCash(caller, local, value) ==
  /\ calls < MaxCalls
  /\ CanValue(accountAssets[Payer], markets, Now)
  /\ FreeCollateral(World, Payer) >= 0
  /\ value > 0
  /\ cashBalances[local][Payer] <= -value
  /\ ~HasCollateral(World, Payer)
  /\ \E r \in RaiseViaCashReceiver(World, Payer, caller, local, value) :
       Finish(Paid(r.world, local, value - r.remaining), caller, local, r.payment, local, 0)

SettlefCash(caller, local, collateral, value) ==
  /\ Valid(local, collateral)
  /\ FreeCollateral(World, Payer) >= 0
  /\ value > 0
  /\ cashBalances[local][Payer] <= -value
  /\ ~HasCollateral(World, Payer)
  /\ \E t \in TradefCash(World, Payer, caller, value, NetAvailable(World, Payer, collateral),
                         SettlementDiscount, local, collateral, ethRate) :
       Finish(Paid(t.world, local, t.payer), caller, local, t.payer, collateral, t.collateral)

LiquidatefCash(caller, local, collateral) ==
  LET fc == Factors(World, Payer, local, collateral)
  IN  /\ Valid(local, collateral)
      /\ ~HasCollateral(World, Payer)
      /\ fc.aggregate < 0
      /\ fc.localNet < 0
      /\ \E t \in TradefCash(World, Payer, caller,
                             LocalCurrencyToTrade(Shortfall(fc.aggregate, local, ethRate),
                                                  LiquidationDiscount, -fc.localNet),
                             fc.collateralNet, LiquidationDiscount, local, collateral, ethRate) :
           Finish(Paid(t.world, local, t.payer), caller, local, t.payer, collateral, t.collateral)

(****************************************************************************)
(* The state machine.                                                       *)
(****************************************************************************)

\* The oracles answer anew.
RateMoves(currency) ==
  /\ calls > 0 /\ calls < MaxCalls
  /\ \E answer \in Answers : ethRate' = [ethRate EXCEPT ![currency] = answer]
  /\ UNCHANGED <<accountAssets, markets, cashBalances, custody, kind, calls>>

PoolCash(m) ==
  LET cash == [k \in DOMAIN Pools |-> Pools[k].totalCurrentCash]
  IN  MapThenSumSet(LAMBDA k : cash[k], {k \in DOMAIN Pools : MarketOf[k[1]] = m})

Holdings(start, currency) ==
  [h \in Accounts \cup MarketAccounts \cup {Others} |->
     CASE h = Payer      -> start.cash[currency]
       [] h = Liquidator -> LiquidatorCash
       [] h = Others     -> OthersCash
       [] OTHER -> IF \E g \in GroupsOf(currency) : MarketOf[g] = h THEN PoolCash(h) ELSE 0]

Sum(book) == MapThenSumSet(LAMBDA h : book[h], DOMAIN book)

\* The tokens held are what the balances, debts included, sum to.
Init ==
  \E start \in PayerStarts :
    /\ accountAssets = [a \in Accounts |-> IF a = Payer THEN start.assets ELSE << >>]
    /\ markets = Pools
    /\ cashBalances = [c \in Currencies |-> Holdings(start, c)]
    /\ custody = [c \in Currencies |-> Sum(cashBalances[c])]
    /\ \E k \in Kinds : kind = [c \in Currencies |-> IF c = Ether THEN "ERC20" ELSE k]
    /\ ethRate \in [Priced -> Answers]
    /\ calls = 0

Next ==
  \/ \E local \in Priced, collateral \in Currencies :
       \/ \E value \in Values : SettleCashBalance(local, collateral, value)
       \/ \E maxAmount \in MaxAmounts : LiquidateAccount(local, collateral, maxAmount)
       \/ \E caller \in Accounts :
            \/ \E value \in Values : SettlefCash(caller, local, collateral, value)
            \/ LiquidatefCash(caller, local, collateral)
  \/ \E caller \in Accounts, local \in Currencies, value \in Values :
       SettleLocalfCash(caller, local, value)
  \/ \E currency \in Priced : RateMoves(currency)

Spec == Init /\ [][Next]_vars

\* The variables have their types: what is redeemed and what is sold nets with
\* the entry its holder has of the same instrument, and a pool has either all
\* of fCash, cash and tokens or none (upsertAccountAsset, _tradePortfolio).
TypeOK ==
  /\ accountAssets \in [Accounts -> Seq(HeldAsset)]
  /\ \A a \in Accounts : OneEntryEach(accountAssets[a])
  /\ markets \in [DOMAIN Pools -> Market]
  /\ \A k \in DOMAIN Pools : Consistent(markets[k])
  /\ cashBalances \in [Currencies -> [Accounts \cup MarketAccounts \cup {Others} -> Int]]
  /\ custody \in [Currencies -> Int]
  /\ kind \in [Currencies -> {"ERC20", "FeeERC20", "ERC777"}]
  /\ ethRate \in [Priced -> Nat \ {0}]
  /\ calls \in 0 .. MaxCalls

(****************************************************************************)
(* Properties of the steps.                                                 *)
(****************************************************************************)

\* Amounts round down at every conversion; the rates make at most two units of
\* one in another.
Dust == 2

IsCall == calls' = calls + 1

\* No call creates or destroys cash: what the balances of a currency sum to
\* changes by the tokens that come and go (_finishLiquidateSettle), although
\* the payer's side, the market's and the liquidator's are computed apart.
\* Nor fCash or tokens: what leaves a portfolio is in a pool or in another one.
Held(w, types, k) ==
  LET held == [a \in Accounts |-> Position(w.assets[a], types, k)]
  IN  MapThenSumSet(LAMBDA a : held[a], Accounts)

Undivided(w, k) ==
  [fCash  |-> w.markets[k].totalfCash + Held(w, {CashPayer, CashReceiver}, k),
   tokens |-> w.markets[k].totalLiquidity - Held(w, {LiquidityToken, LiquidityPayer}, k)]

NothingCreated ==
  [][ /\ \A c \in Currencies :
           custody'[c] - Sum(cashBalances'[c]) = custody[c] - Sum(cashBalances[c])
      /\ \A k \in DOMAIN Pools : Undivided(World2, k) = Undivided(World, k) ]_vars

\* A third party never leaves an account worse off in free collateral: below
\* zero, whatever it does; otherwise as long as no currency's position is
\* raised above zero, where no buffer is freed for the discount that is paid.
\* The cap of the debt in _calculateLocalCurrencyToTrade and the haircut of
\* redeemed tokens (_calculatePostTradeFactors, _calculatePurchaseAmounts) are
\* what keeps it so.
NetRises(c) == NetAvailable(World2, Payer, c) > NetAvailable(World, Payer, c)

NeverWorse ==
  [][ IsCall /\ ( \/ FreeCollateral(World, Payer) < 0
                  \/ \A c \in Currencies : NetRises(c) => NetAvailable(World2, Payer, c) <= 0 )
        => FreeCollateral(World2, Payer) >= FreeCollateral(World, Payer) - Dust ]_vars

\* "Net currency available cannot dip below zero after trading": a currency
\* that is sold stays positive, the fCash and the tokens that are not sold
\* included.
CollateralStaysPositive ==
  [][ IsCall => \A c \in Currencies :
        NetAvailable(World2, Payer, c) < NetAvailable(World, Payer, c)
          => NetAvailable(World2, Payer, c) >= -1 ]_vars

\* A liquidation without a limit goes all the way: the account has free
\* collateral again, or has no debt in the local currency left, or no more of
\* the collateral that liquidate sells.
Sellable(w, c) ==
  PostfCashValue(NetAvailable(w, Payer, c), CashClaims(w, Payer, c), w.cash[c][Payer]).net

LiquidationSuffices ==
  [][ \A local \in Priced, collateral \in Currencies :
        LiquidateAccount(local, collateral, 0)
          => \/ FreeCollateral(World2, Payer) >= -Dust
             \/ NetAvailable(World2, Payer, local) >= -Dust
             \/ custody[collateral] - custody'[collateral]
                  >= Sellable(World, collateral) - Dust ]_vars

\* "Tokens will be deposited and withdrawn from the liquidator's wallet
\* balances": a call credits the liquidator with no balance here.
PaidFromWallet ==
  [][ \A c \in Currencies : cashBalances'[c][Liquidator] <= cashBalances[c][Liquidator] ]_vars
=============================================================================
