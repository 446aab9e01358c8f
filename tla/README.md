# Verification of the Notional contracts

TLA+ models of the contracts under `src/contracts` (a Notional v1 deployment: fixed rate lending
of fCash against liquidity pools) and of the scripts under `src/scripts` that deploy and upgrade
them, checked with TLC on small instances. The invariants of the pools, the portfolios, the balances,
the whole transactions and the lifecycle are also proved with TLAPS, for every value of the parameters.

Line numbers refer to files under `src/contracts`, or `src/scripts` for the files in TypeScript.
`PROJECT.json` maps every definition to the lines it models.

## 1. The system

| Component | State it keeps | Operations | Talks to |
|---|---|---|---|
| **CashMarket** (`CashMarket.sol`), one per cash group | a `Market` per maturity: `totalfCash`, `totalCurrentCash`, `totalLiquidity` and the rate fields | add and remove liquidity, take cash (borrow), take fCash (lend), each with an `OnBehalf` form; `settleLiquidityToken`, `tradeLiquidityToken` for Portfolios | Escrow moves the cash, Portfolios stores the assets |
| **Portfolios** (`Portfolios.sol`) | an array of `Asset` per account; cash groups; risk parameters | post (`upsertAccountAsset[Batch]`), transfer, mint a pair, settle what has matured, free collateral; raise cash for a liquidation | calls CashMarket to redeem tokens, Escrow to post cash and convert to ETH; called by all the others |
| **Escrow** (`Escrow.sol`) | a signed balance per currency and account; the tokens themselves; listed tokens and oracles | deposit, withdraw, market transfers, settlement postings, `settleReserve`; liquidate, settle debts for a third party | calls Portfolios for settlement and free collateral; token contracts call back (`tokensReceived`) |
| **RiskFramework**, **ExchangeRate** (`utils/`) | none | value a portfolio, convert to ETH | read the market's pools and the oracles |
| **Liquidation** (`utils/Liquidation.sol`) | none (a library that Escrow delegates to) | purchase of collateral, settlement of cash debts, purchase of fCash | CashMarket and Portfolios, to redeem tokens and move fCash |
| **ERC1155Token** | operator approvals | transfer entitlements | `Portfolios.transferAccountAsset` |
| **ERC1155Trade** | operator approvals | batches of deposits, trades and withdrawals; block trades | Escrow, CashMarket, Portfolios |
| **Directory**, **Governed** (`utils/`) | the address of each core contract; in each contract, its owner and the addresses it was told | `setContract`, `setDependencies`, `initializeDependencies` | tells the contracts of one another |
| **Owner setters** of Escrow, Portfolios, CashMarket | discounts, haircuts, currencies and their rates, cash groups, a market's parameters | `setDiscounts`, `setHaircuts`, `listCurrency`, `addExchangeRate`, `createCashGroup`, `setFee`, ... | each other: haircuts and currencies are kept twice |
| **Proxies** (`upgradeable/`) | for each proxy its logic contract and its admin; the owner of the `ProxyAdmin` | create, upgrade, hand over | all contracts but the libraries stand behind one |
| **NotionalDeployer** (`NotionalDeployer.ts`) | in memory: addresses, bytecode hashes, the markets' logic; the same in a JSON file | `deploy`, `listCurrency`, `deployCashMarket`, `transferOwner`, the `upgrade...` methods, `saveAddresses`, `restoreFromFile` | sends transactions through a provider |
| **deploy.ts**, **upgrade.ts** | the step they are at | one run from start to end | the NotionalDeployer, git, the build directory |
| **RetryProvider** (`RetryProvider.ts`) | attempts made for one request | ask again when the node answers 429 | the node |

A transaction is atomic: it runs through several contracts and commits or reverts as a whole, and
checked arithmetic reverts instead of wrapping. Within the contracts there are no threads and no
messages in flight, so the hard parts are elsewhere:

* **order of transactions**: anyone may trade, settle and transfer at any block, so the same
  positions are reached by many routes and settled in any order after maturity;
* **three contracts, one fact**: a trade is posted as pool totals, as cash balances and as assets,
  with the amounts computed in the first and passed to the others;
* **time**: an asset matures between two blocks with no transaction of its own; a check may see it
  before anyone has settled it;
* **rounding**: every quotient truncates, in pools, valuations and conversions;
* **arrays edited in place**: a settlement loop shrinks the array it walks;
* **tokens**: some keep a fee, some call back, some are not listed;
* **oracles**: the answer moves and may be missing;
* **liquidation**: how much to sell comes out of several rounded rates, discounts and haircuts, from
  up to three sources (balance, tokens, fCash), possibly between an account and itself.

The scripts are processes outside the chain. A deployment is about fifty transactions, each of which
needs what an earlier one left; the node may refuse a request, the process may die between any two,
and what it has learnt is in its memory until it writes the file. The next run, perhaps by another
wallet and after the contracts have been edited, works from that file.

What makes each component correct:

* a pool has all three totals or none; no rounding pays anyone; a matured pool only pays out;
* a portfolio has one entry per instrument and side, and stands for the signed positions that were
  posted to it;
* balances are backed by tokens; only a matured obligation makes an account a debtor;
* together: the fCash of a maturity nets to zero, token entries add up to the supply, the market's
  balance is the cash of its pools, and the view of free collateral agrees with settlement;
* a third party's call creates nothing, does not leave the account worse off, and a liquidation goes
  as far as the account's means allow;
* a deployment that was saved is complete; there is one admin; the power to upgrade moves last; the
  file tells what is on the chain; an upgrade that ends has taken effect; every run ends.

The hazards behind these, each at its line, are in `PROJECT.json`.

## 2. The modules

```
LiquidityPool ──── CashMarket ──── MCCashMarket
      │                └───────── CashMarketProofs
      │
      ├── RiskFramework ─┬─────────────── Notional ──── MCNotional
AssetList ──┘            │                   │  └────── ERC1155Trade ──── MCBatch
   │        CashBalances ┼───────────────────┘
   │             │       └── RaiseCash ── Liquidation ── ThirdParty ── MCThirdParty
   │             └──── Escrow ──── MCEscrow
   └── Portfolios ──── MCPortfolios
           └─ INSTANCE PositionLedger

Governance ──── NotionalDeployer ──── Lifecycle ──── MCLifecycle
```

The theorems have modules of their own, each extending the module it is about and the lemmas it needs:

```
FoldProofs ──┬── OperatorProofs ──────────────┬── CashMarketProofs   (CashMarket)
             │   (LiquidityPool, AssetList)   ├── PortfoliosProofs   (Portfolios)
             │                                ├── NotionalProofs     (Notional, ERC1155Trade, RiskFramework)
             │                                └── ThirdPartyProofs   (ThirdParty, Liquidation, RaiseCash)
             ├── EscrowProofs (Escrow)
             └── LifecycleProofs (Lifecycle)
```

Lines are `EXTENDS`. `LiquidityPool`, `AssetList`, `RiskFramework`, `CashBalances`, `RaiseCash` and
`Liquidation` hold pure operators. The state machines `CashMarket`, `Portfolios` and `Escrow` are one
contract each, its neighbours reduced to the choices they leave it; `Notional`, `ERC1155Trade`
and `ThirdParty` are whole transactions across all of them, and `Lifecycle` is the administration around them.

**LiquidityPool** is the arithmetic of one `Market` struct. The rate curve (`_getExchangeRate`,
the logarithm, anchors and scalars) is reduced to what it guarantees of a trade's price: the rate
is at least one (1089), so `0 < cash <= fCash` (`PriceBounds`); it exists only with cash and fCash
in the pool (`HasImpliedRate`), borrowing needs a simulated proportion below one and lending one
above zero (`CanBorrow`, `CanLend`). Within these bounds the price is the environment's choice, so
every curve, fee and slippage limit is covered.

**CashMarket** has `markets` and `blockTime` and one action per entry point; an `OnBehalf` form
differs from its original only in who calls it and has no action of its own. `AddLiquidity` has its
two cases, `OpenMarket` and `JoinMarket`. `RemoveLiquidity` requires only an unmatured maturity,
as the code does. Amounts the caller picks range over `Amounts`.

**AssetList** is the array of one account: `_searchAsset`, `_upsertAsset`, `_reduceAsset`,
`_removeAsset` and the loop of `_settleMaturedAssets`, which both `Portfolios` and `Notional` use.
A function that may revert is written as the set of arrays it can leave, empty if it reverts.

**Portfolios** has `accountAssets`, `blockTime`, and two history variables that record what
settlement has sent out (`settledCash`, `redeemed`). Whether the free collateral check at the end
of a call passes depends on the other contracts: a call may or may not go through, but when it
does the account it checks has been settled first (`StoreSettled`). A batch's trade is posted
without the check and without settling (`StoreUnsettled`).

**PositionLedger** is what Portfolios promises: signed positions per account and instrument, posts
that add to them, settlement that turns matured fCash into cash. `Portfolios!Ledger` maps the
arrays to positions and `ImplementsLedger` is the abstract specification as a property.

**CashBalances** is one currency's book of balances and what Escrow's calls do to it, reads and
writes in the order of the source.

**Escrow** has the books, the tokens in custody, the listed tokens, the kind of each token and a
history variable for the cash that settlement has posted. The kind (plain, with a transfer fee,
ERC777) is chosen at the start; `ListCurrency` may come at any time. Settlement postings and the
outcome of free collateral checks are the environment's choice. A withdrawal names a token and
looks up its currency as `_withdraw` does.

**RiskFramework** gives `getRequirement` and `convertBalancesToETH` as operators. `CanValue` and
`CanConvert` say when the code does not revert.

**Notional** composes them: one cash group with a market in currency `Local`, balances in all
currencies, oracle answers, tokens in custody. A transaction builds a world record step by step, in
the order of the source, and commits it: a trade is pool, then cash, then assets (`Traded`), then
settlement and the free collateral check (`Completes`); `Withdraw` settles, pays and checks; `WithdrawEth` pays, settles and
checks; a transfer or a pair checks the sender or payer only.

**ERC1155Trade** is `batchOperation`, `batchOperationWithdraw` and `safeTransferFrom` over the same
worlds. A batch settles, deposits and trades without a check (the `OnBehalf` functions), keeps the
records from which the residual of a zero withdrawal is computed, and is checked once at the end, with
the view. Its specification has batches instead of the account's single calls, which are batches of one
part.

**RaiseCash** is what Portfolios does for Escrow's calls: `_tradePortfolio` over the sorted tokens of
a currency until nothing remains to be raised, and `_tradefCashLiquidator`, whose loop shrinks the
array it walks.

**Liquidation** is the library of that name: conversions with their roundings, the redemption of the
payer's own local tokens, the purchase of collateral (`Purchase` for what is bought, `Drawn` for where
it comes from) and of fCash. A trade is a record of what either side gains and pays.

**ThirdParty** has portfolios, pools, balances, tokens and oracle answers, and `settleCashBalance`,
`liquidate`, `settlefCash` (its two cases) and `liquidatefCash` as whole transactions, ending with
`_finishLiquidateSettle`. Oracles move between calls.

**Governance** is the chain as the scripts see it: contracts created, proxies, owners, the directory
and what it told each contract, and the parameters. A transaction is a record; `Permitted` collects the
conditions under which it does not revert, contract by contract, and each operation is an action
on the variables it assigns.

**NotionalDeployer** is the object of that name, its lists of requests in the order of the source, and
the file. Bytecode is an artifact, its version and the library linked into it, and stands for its own
hash.

**Lifecycle** runs `deploy.ts` and `upgrade.ts`. A step is one request: answered, reverted, throttled
(up to `Attempts` times, then the run gives up) or never answered because the process dies, before or
after the transaction was mined. Between runs contracts are compiled and committed, and the owner of
the `ProxyAdmin` may make by hand an upgrade that a run left to it.

Definitions that begin with `Faulty` are the definition after them with a plausible slip. No
specification uses them; substituted for that definition, each makes the property it is listed with
in `PROJECT.json` fail.

## 3. The runs

`tlc -config X.cfg MC` with the module and configuration named. The first six of the table check for
deadlock as well: time stops at `MaxTime`, but deposits, settlements and zero amounts keep every
system live. `Lifecycle.cfg` and `ThirdParty.cfg` (and the two that share their modules) switch the
check off: the systems may stop there, when nobody starts another run or no call is left.

| Run | Module, configuration | Shows |
|---|---|---|
| `cash_market` | MCCashMarket, CashMarket | pools stay consistent; no gain from rounding; no dilution; matured pools only pay out |
| `portfolios_market` | MCPortfolios, PortfoliosMarket | the array of assets implements the ledger, for a group with a market |
| `portfolios_pairs` | MCPortfolios, PortfoliosPairs | the same for an idiosyncratic group, where every pair nets to zero |
| `escrow` | MCEscrow, Escrow | tokens of every kind back the balances; debts come from settlement only |
| `notional_ether` | MCNotional, NotionalEther | pools, portfolios, balances and tokens agree across whole transactions; settlement is exact and neutral |
| `batches` | MCBatch, Batch | no transaction endangers a collateralized account, residual withdrawals are complete, solvency; with a second currency, ether as collateral and a moving, failing oracle |
| `third_party` | MCThirdParty, ThirdParty | settlement and liquidation create nothing, leave nobody worse off, and suffice |
| `lifecycle` | MCLifecycle, Lifecycle | deployments and upgrades through throttling and crashes: what holds of the chain and the file at every moment, and that every run ends |

Four runs check a statement of the source that the code does not keep, and TLC finds the
counterexample (`findings` in `PROJECT.json`):

* `notional_settles`: "anyone may settle the assets in any account" (Portfolios 570). A liquidity
  token of zero notional in an emptied pool makes settlement divide by zero.
* `notional_active`: the advertised maturities are "active" (CashMarket 987). In a block whose time
  is a maturity the furthest one is beyond the cash ladder, and any check of it reverts.
* `liquidator_pays`: a liquidator's tokens come "from the liquidator's wallet balances" (Escrow
  845). When the token is ERC777, `tokensReceived` credits the payment to the liquidator, too.
* `upgrade_owner`: "Cannot upgrade proxy, must use proxyAdmin owner address" (NotionalDeployer.ts
  620). The run has stored the new hash by then (605), so the run with the owner's address finds the
  bytecode unchanged and upgrades nothing.

Smaller disagreements that need no run to see:

* the proportion "is always less than DECIMALS" (CashMarket 1207): not when the fCash asked for is as
  large as the pool's cash, and the quote reverts instead of returning zero;
* a portfolio does not "grow past the max assets parameter" (Portfolios 1025): `index <= G_MAX_ASSETS`
  lets one more in, and `TypeOK` of `Portfolios` says so;
* `withdraw` rejects a token that "is not a valid currency" (Escrow 440): it takes the amount from the
  caller's Ether balance (457);
* a settlement does not change the payer's free collateral for the worse (Escrow 240-242): it does
  when the net local position is positive, which frees no buffer for the discount paid (`NeverWorse`
  excepts exactly that);
* the amount of a zero withdrawal in a batch is the residual of its deposits and trades, not "the
  account's entire balance" (ERC1155Trade 105); the record of a trade is without its fee (222, 231),
  so that the fee comes out of the rest of the balance, and only the first deposit of a currency in the
  list counts (290);
* `_convertETHTo` inverts an inverted oracle twice (ExchangeRate 102); the deployment lists none.

### Bounds

Each model's own bounds are named: `MaxTotal` (a pool's totals, an entry's notional), `MaxNotional`,
`MaxBalance`, `MaxCustody`, `MaxTime`. A step beyond a bound is not taken; nothing else in a guard
comes from the model.

* Pools up to 6 and amounts up to 4 include pools of one unit, proportions on both sides of one, and
  every way a quotient can round. The theorems of section 4 need no bound.
* Time up to 2 or 3 with a maturity length of 1 or 2 has a maturity pass, the next become tradeable, and
  blocks that fall on a maturity and between two. Portfolios with matured and unmatured assets at
  once occur in the `portfolios` runs, whose ledger settles position by position.
* Two accounts are two sides of every transfer, pair and trade, or the same side twice; the pool is
  the third party. Escrow has one user, the market and the reserve: its calls involve at most these.
* Batches have up to two trades, in the pairs that interact: liquidity and a borrowing against it, a
  redemption lent again, a loan and a borrowing in one. Up to one deposit, ether sent along, and a
  withdrawal of either currency. The two accounts are symmetric, and that run uses the symmetry.
* `MaxAssets` of 1 and 2 is reached, and exceeded by one; `ThirdParty` leaves room (6), since its question is not about the limit.
* Haircuts, fee and buffer are a half, a whole and one and a half (over `Decimals = 2`), so that
  every product is rounded. Oracle answers are none (0), low and high.
* Oracle answers, prices and settlement amounts are chosen freely, which includes every market move.
* `ThirdParty` has one payer, one liquidator, all others as one, two currencies with a cash group and
  market each, and Ether; amounts are tens to hundreds over `Decimals = 100`, so that discounts and
  haircuts have the values `deploy.ts` sets (the incentive is 1.1 for its 1.01). `PayerStarts` are cash, fCash and tokens of either sign in each
  currency, all reachable by deposits, trades and settlements. Two calls (`MaxCalls`) with a
  move of an oracle between them have a liquidation follow a settlement, or itself.
  `Dust = 2` is the rounding that the properties allow.
* `Lifecycle` has three markets in two currencies, as `deploy.ts` lists, and four kinds of bounds: two
  runs of each script, one run that dies or gives up (`MaxFailures`), two versions of three artifacts
  (a library, the contract that links it, the markets' logic), three attempts per request. One death
  at every possible point, followed by one more run, is what the recovery code can meet at once; two
  versions are what a hash tells apart. Upgrades start after the hand-over (`HandedOver`), edits
  after a deployment has been saved.

### What is assumed

* The contracts have no fairness: nothing in them is scheduled, every call is somebody's decision.
  What could be read as liveness there, that an account can always be settled, is checked as the
  absence of a revert (`EveryAccountSettles`).
* `Lifecycle` has `WF_vars(ScriptStep)`: a node process that runs takes its next step or ends, since
  every request is awaited and either answered, refused or lost with the process. Nobody is obliged
  to start a run, compile, commit or upgrade by hand. `DeploymentCompletes` and `EveryRunEnds` rest on
  it. A node that never answers is not covered; one that answers 429 for ever is.
* A transaction is atomic. Calls made from inside a token's hook are not modelled.
* The reserve account is funded by fees and deposits and has no portfolio.
* Tokens sent to Escrow past its functions after they are listed are left out; they only add to
  the custody side of an inequality. In `Notional` custody counts the deposited tokens only and
  calls name listed tokens.
* In `ThirdParty` nothing has matured (settlement comes first in every call, and `Notional` has it),
  oracles answer a positive number (`batches` has the failing one), all priced currencies have
  tokens of one kind and the same decimals, and no oracle is inverted.
* In `Lifecycle` a hash identifies bytecode, transactions of one run are mined in the order sent (the
  scripts await each), and the environment (chain, addresses of tokens and oracles) is what the
  scripts are given.
* The fixed widths (`uint128`, `uint32`) are far above the bounds, and conversions that do not fit
  revert.

## 4. The proofs

Every theorem is about the specification that the runs check, for all values of its constants that
satisfy the `ASSUME`s of its modules, which TLC evaluates on every run:

* amounts, oracle answers, the fee and the bounds are natural numbers; `MaturityLength` and `Decimals`
  are not zero;
* haircuts and the buffer are natural numbers, and a year has seconds (`RatesAssumption`); there are
  finitely many listed currencies;
* accounts are finitely many, which the chain's are, since sums are taken over them; the market and
  the reserve are two further holders (contract addresses, which nobody trades from);
* Ether and the market's currency are listed; in `ThirdParty`, so are those of the cash groups, each of
  which has a pool, if an empty one, for every maturity; the payer and the liquidator are two, and no
  market; an account starts with one entry per instrument and side, and a pool with all totals or none;
* a liquidator's price is no better than one for one and short of what the buffer frees, the haircut of
  tokens is between none and whole, the incentive leaves the payer a part (`DiscountsAssumption`:
  `deploy.ts` sets 1.06 and 1.02 against 1.4, a haircut of 0.8 and an incentive of 1.01, and the
  contracts' quotients need these differences; the run takes 1.1, which whole amounts can show);
* of the scripts' two wallets, `Deployer` and `NewOwner`, neither is nobody and they differ; a request
  is attempted at least once; what is edited and what an upgrade names are artifacts, and an upgrade
  does not name the Directory, which `upgrade.ts` would not look for.

Three theorems have a hypothesis of their own.

* `ReceiversDoNotLose` and `OnlyPricesEndangerAccounts` assume `HaircutWithinFace`: the fCash haircut per
  year, over the whole length of the ladder, is at most one. Beyond that a claim far enough away counts
  as *less than nothing*, and whoever is sent one loses collateral; TLC finds that at once with such a
  haircut. `deploy.ts` sets 50% a year over ladders of one and of six months (120), which is well within
  it, but `setHaircuts` (Portfolios 100) accepts any number.
* `NothingIsCreated` assumes that no currency is an ERC777. With one it is false, which is the finding of
  `liquidator_pays`; `third_party` checks the property for the other two kinds as well.

### What is proved

| Module | Theorem | States |
|---|---|---|
| `CashMarketProofs` | `TypeCorrect` | totals of a pool stay natural numbers: nothing is taken that is not there |
| | `PoolsStayConsistent` | a pool has liquidity, cash and fCash or none of them |
| | `NoGainFromRoundTrip`, `NoGainFromSplitting` | neither joining and leaving nor redeeming in lots pays |
| | `RaisesEnough` | a liquidation never raises more than it needs from a provider's tokens, and falls short by less than one token's worth and a unit if the tokens suffice |
| | `TokensNotDiluted` | a change of supply never lowers the cash behind a token, and lowers the fCash by less than a unit |
| | `MaturedPoolsPayOut` | no total of a matured pool grows |
| | `AdvertisedAccepted` | the advertised maturities are exactly the accepted ones |
| `PortfoliosProofs` | `PortfoliosTypeCorrect` | arrays hold assets of known groups, never an obligation to deliver tokens, at most one more than the bound |
| | `OneEntryPerSide` | no two entries are for one side of an instrument |
| | `ArraysImplementLedger` | the arrays refine `PositionLedger` |
| `EscrowProofs` | `EscrowTypeCorrect` | balances belong to the holders; the market's and the reserve's, and the custody, are never negative |
| | `Custody` | tokens back the balances, up to what settlement posted |
| | `Debts` | a balance gets below zero, or further below, by settlement only |
| `NotionalProofs` | `NotionalTypeCorrect` | the types of the whole state |
| | `FCashNets` | fCash of every maturity nets to zero until it matures |
| | `SupplyMatchesTokens` | the tokens in the portfolios are the pools' supply |
| | `PoolsHoldCash` | the market's balance is the cash of its pools |
| | `Solvency` | Escrow's tokens are the balances and the matured fCash still to be settled |
| | `SettlementIsExact` | settlement takes the matured assets and no other |
| | `NobodyIsOverdrawn` | a balance gets below zero, or further below, by the account's matured obligations only |
| | `BatchSolvency`, `BatchOverdrawsNobody` | the same two of `BatchSpec`, for lists of deposits, trades and withdrawals of any length |
| | `ResidualsAlwaysLeaveNothing` | a withdrawal of zero takes out all that a batch brought in, whatever its trades, if no currency is deposited twice and no Ether sent along |
| | `SettlementIsNeutral` | settling what has matured leaves the free collateral as it was valued before |
| | `ReceiversDoNotLose` | the unchecked receiver of an asset or of a pair never loses free collateral by it |
| | `OnlyPricesEndangerAccounts` | no transaction, checked or not, takes an account without liquidity tokens from collateralized to below zero |
| `ThirdPartyProofs` | `ThirdPartyTypes` | through settlement and liquidation portfolios keep one entry per instrument and side, of a notional that is never negative, and pools all totals or none |
| | `NothingIsCreated` | no settlement or liquidation creates or destroys cash, fCash or tokens |
| `LifecycleProofs` | `LifecycleTypeCorrect` | the types of chain, object, file and run |
| | `OneAdminAlways` | all proxies answer to one `ProxyAdmin`, whichever run created them |
| | `UpgradePowerAlwaysMovesLast` | who may upgrade owns every contract |
| | `SavedIsAlwaysComplete` | a deployment that was saved is complete |
| | `FileAlwaysTellsTheChain` | between runs the file tells what is behind each proxy, at each library and at the markets' logic |
| | `UpgradeAlwaysTakesEffect` | a run of `upgrade.ts` that reaches its end has the build of what it names behind the proxies, or left to the admin's owner, whatever runs died before |
| | `LibrariesAlwaysGoForward` | unless a run was lost, no upgrade of a proxy, by a script or by hand, links an older library |
| | `LifecycleInvariant` | the inductive invariant of these |

### How: pools

The inductive invariant of `CashMarket` is `TypeOK /\ PoolConsistent`. Neither part is inductive
without the other: the type needs the denominators to be positive, which consistency gives (a pool
with tokens has cash); consistency needs the totals to be natural numbers, because a quotient of a
negative number rounds the other way. The arithmetic rests on two lemmas of `OperatorProofs`
about truncating division, `QuotientBounds` (`b * (a \div b) <= a < b * (a \div b) + b`) and `ProRata` (a
share is at most the total, is the total for all the tokens, and is less than it for a strict part
of them). Each pool operation has one lemma from these (`RedeemFacts`, `JoinFacts`, `OpenFacts`,
`TradeFacts`, `RaiseFacts`), which the steps of both `CashMarket` and `Notional` cite.

### How: sums and loops

What the properties add up, they add up with the folds of the community modules, over sets of accounts
and arrays of any size; the loops of the code are folds, too. The library's induction theorems take the
property as an operator, which the provers cannot instantiate. `FoldProofs` takes it as a set instead:
from the least element of a set of naturals (`NatLessThanWellFounded`) it derives `NaturalInduction`, and
from that `SubsetInduction` over the subsets of a finite set (`RemovalInduction`, when the code says
which element comes last). `SumTable` then says that there is a
function from the subsets to the sums that obeys the recursive equations, whence the sums of a
table with one entry changed (`SumAdd`), of a smaller table (`SumOrder`), over one element more
(`SumInsert`), and over the elements that are not zero (`SumSupport`). `ChainExists` does the same
for a fold that walks a sequence: the states it passes through are a sequence, each a step after the last.

`OperatorProofs` applies these to the array of an account: what an `_upsertAsset`, a reduction or a
swap-and-pop adds to the sum of any weight given to the entries, and that it leaves one entry per
instrument and side. The settlement loop, which shrinks the array that it walks and steps back, is
shown to keep this in every pass (`HalfSettled`): what it has passed and left is not matured, what it has
taken is, the two lists together have the length and, for any weight, the sum they started with, and
no two of the entries that are left are for one side of an instrument.

### How: one contract

* `Portfolios`: the inductive invariant is `TypeOK /\ NoDuplicateEntries /\ TokensInMarketsOnly`. Netting
  an entry against its counterparty is only right when there is one of each, so that the refinement
  rests on the second part; the third, that a group without a market has no liquidity tokens, is what lets
  its obligations be settled as fCash only. Every step is then shown to map to one of the ledger, or
  to a stutter when what is posted is nothing.
* `Escrow`: the invariant is `TypeOK /\ CustodyBacksBalances` with `UnlistedUnused` (what is not listed has
  no balances), since a withdrawal that names a token which is not listed takes another's balance. Every
  call stores one book; `SoundEntry` says of such a book what both theorems need.

### How: whole transactions

Within a transaction the properties do not hold: a trade changes the pool before it posts the asset,
and settlement takes the assets before it pays for them, redeeming from pools and crediting balances on
the way. The proof therefore speaks of a world `w` and of what is under way:
`Accounted(w, t, B, dT, dF)` says that at time `t` the tokens `B` back the balances and the fCash
of `w`, that fCash nets out, that token entries match the supply and that the market has its cash, *once
the entries that the tables `dT` (tokens) and `dF` (fCash) count are added*, and, as `Proper`, that arrays
have one entry per instrument and side, that pools are consistent and that the reserve is not negative. The
inductive invariant of the system is `Accounted` of the current world with both tables empty, and
the types of the rest. It needs all its parts: backing needs the pools' cash, since that is counted among
the balances; a redemption's arithmetic needs consistent pools and tokens that are no more than the
supply; netting needs single entries; and a reserve below zero would turn `settleReserve` into a debit.

The two steps everything is made of are `AssetsStep` (one portfolio changes, the tables change by the
opposite) and `MarketStep` (one pool changes, with the market's cash and the account's). Settling an
account is a chain of them, one for each matured asset (`PaymentChain`), along which the tables count down
from what the loop has taken to nothing (`LeftFacts`, `SettledStep`). A trade has a pool step and a
posting that brings the table back to zero (`OpenStep` to `LendStep`), a transfer two postings,
so that each call ends in a world that is accounted for, and `CommitStep` makes it the next state.

`NobodyIsOverdrawn` is proved along with it. `Bears` says of the world in which a call ends that no
balance is below what it was (or zero), less what the account's matured obligations come to; settling
bears this by `SettledBears` (each asset debits at most what it owes), paying and posting do not
debit anyone further (`Keeps`), and the two compose in the order in which each call does them.

A batch is a sequence of such steps without a commit in between. `Reached(u)` are the states of a
batch that are accounted for and overdraw nobody since its first world `u`; each deposit, trade and
withdrawal leads from one of them to another (`ReceivedStep`, `PlaceTradeStep`, `PaidOutStep`), hence so
does a list of them (`ChainStays`), and the last may be committed because `u`, the settled world, bears.
A withdrawal of the residual needs one more induction, that the residual is floored at every record
and so never negative (`ResidualFacts`): a negative one would be a credit.

`ResidualsAlwaysLeaveNothing` is about the balance itself. `WithinResidual` are the states of `Reached`
whose balance has grown, since the batch began, by no more than the residual of the records so far. The
deposit of the withdrawn currency is where the residual starts, and is the only one (`DepositsCash`); a trade
moves what its record says, and the fee is paid on top (`PlacedCash`); a record changes the residual by what it
moved or, at the floor, by more (`ResidualAfter`, `TradesWithin`). So the withdrawal takes the whole growth, or
everything there is (`ResidualWithdrawn`).

### How: valuation

`GroupValue` adds up an array position by position: claims on cash, matured fCash, and one haircut value for each slot of
the ladder. `GroupFacts` says that, where every token can be redeemed, this is `Valued`, in which each part is the sum of a
weight over the *list*: of `Claims`, of `Dues` (fCash that has matured) and, for each slot, of `Nets`. With that,
what `OperatorProofs` says about the sum of any weight applies to valuations.

For `ReceiversDoNotLose` each weight is shown to be `Rising` in the notional of an entitlement and falling in that of an obligation
(`ClaimOrder`, `ValueRises`, `PartsRise`), so that upserting an entitlement, which adds an entry, enlarges
one or nets one away, lowers no sum. Truncation makes the rest delicate: more of a claim is not obviously worth
more after a haircut that rounds, nor in ETH after two quotients. `CutOrder` has it for `n - (n * r) \div Y` as long as
`r <= Y`, which is `HaircutWithinFace`; `SlotOrder` adds the other cap and the sign, and `EthOrder` the conversion,
across the change of rounding direction and of the buffer at zero.

`SettlementIsNeutral` is an induction along the loop. Each matured asset pays in cash exactly what `Claims` and `Dues` say of it
(`PaysWorth`), at the pools that the assets before it have left: with one entry per instrument and side no
two of them redeem from one pool for the same tokens, and the pools of assets not yet matured are not touched (`SettlementPays`). The
ladder counts only what has not matured, which the loop has left alone (`ValuedSplit`, `ValuedSame`), so that what the
portfolio loses in value is what the balance gains. This is why the invariants of the system are needed here.

`OnlyPricesEndangerAccounts` puts these together. A transaction starts by settling its account, which is neutral
(`SettledHarmless`), and ends by checking it, which the property asks for (`CheckedHarmless`). It remains to say what can happen to
everyone else, for a batch of any length. Such an account is `Aside`: its assets are the same and its balances no lower.
A trade moves the pools, but without liquidity tokens an account's value does not depend on them
(`TokenlessSame`), which is why the property is about such accounts. Deposits only pay (`DepositsPaid`). Or it `Gains`: a transfer or
a pair sends it an entitlement, which is `ReceiversDoNotLose` once more. Trades and withdrawals are
`Private` to whoever makes them, and chains of them stay so (`TradesPrivate`, `WithdrawalsPrivate`). A step is
`Harmless` if it spares every account, and what is committed at the end of each call is shown to be.

### How: third parties

A call of a third party computes what each side gains in different places: the pools give cash and fCash for
tokens, the market's balance is debited, the payer's array is upserted with changes that were noted on the way,
the payer's new balances come from `Drawn` and `Purchase`, and `_finishLiquidateSettle` moves the tokens.
`NothingIsCreated` is that all these amounts fit together. Nothing is said of how large they are (that is for
`NeverWorse` and the other properties), only that they are integers, which needs that no quotient has a
denominator of zero: `NetAvailableInt`, `FreeCollateralInt` and `ShortfallNat` have that from consistent pools,
positive oracle answers and the discounts, and `TradefCashFacts` from the sale itself, which reverts when
there is nothing to sell.

The invariant is the types (`Worlds`); no run repeats `ThirdPartyTypes`, which holds for all constants. One entry per instrument and side is what makes a redemption debit the
entry that is redeemed; consistent pools are what lets a redemption divide. For a step, `Surplus(w, c)` is what the tokens held of
a currency exceed its balances by, and `Undivided` what there is of an instrument in pools and portfolios. `Shifts(u, v, c, n)`
says that from `u` to `v` the surplus of `c` rises by `n` and nothing else changes, and adds up along a call (`ShiftsChain`):

* the redemptions: one turn of `_tradePortfolio`'s loop takes from the pool what it notes as changes and frees what
  it takes off the amount (`TradeTokenKeeps`). `Raising(u, c, amount)` are the states of that loop, kept along the
  tokens in their sorted order (`SalesEnd`), until the changes are posted (`RaiseTokensFacts`);
* the sale of receivers: a turn of `_tradefCashLiquidator` moves an entry, or a part of it, from one array to another or back
  to the same one, if the caller is the payer (`TransferFacts`), and `Selling` are the states of that loop, whose length shrinks with the
  array (`RaiseReceiversFacts`). Only assets move;
* the trade: `Sound(u, local, collateral, t)` says that the world of a trade `t` has what `t` has still to book. What
  the balance lacks is raised, what is raised beyond it is credited (`CollateralBalancesFacts`), and the adjustment of a negative
  balance is taken back (`TradeCollateralFacts`);
* the end: booking a sound trade leaves what the liquidator owes (`BookedOwes`), and paying brings just that in
  (`FinishBalances`), as tokens or out of a balance.

### How: the lifecycle

These theorems are for any number of runs, deaths, versions and attempts. What has to be known at a step
of `deploy.ts` is what the steps before it have done, so that the invariant follows the script: tables give each
contract, currency and market the place in `DeployMain` at which it is created, told of the
others, listed, given its parameters and handed over (`ProxyStep`, `ToldStep`, `GroupStep`, `OwnerStep`, ...),
and `Built(s, a)` is the chain as a run with the admin `a` finds it before its request `s`. One lemma says
what each request is (`Scheduled`), one what a transaction changes (`Effects`, for all of the chain's
variables), and from these each part of `Built(s, a)` leads to that of `Built(s + 1, a)`.

The inductive invariant is `IInv == SystemOK /\ RunOK`. `SystemOK` is what outlives a run:
without the Directory's proxy nothing has been set up; the proxies that exist share its
admin; a saved system is built and its admin is the file's; an admin is given away after the owners. `RunOK` is
about the object: what it remembers is on the chain, a run of `deploy.ts` past its sixth request has
built what comes before its place, one of `upgrade.ts` works on a saved system. `OneAdmin`
needs the first part because of the run that comes after one that died: the proxy of the Directory is created first, at
an address that the bytecode determines, so the second run, with an admin of its own, reverts there and
creates none.
`SavedIsComplete` needs the second, since the file is written by a run, and `UpgradePowerMovesLast` both:
the transfers come after the save, in the same run.

`FileTellsTheChain` needs a second invariant on top, `FileTells`, because the file is written at the end of a
run that has upgraded some proxies and not others. The hashes in the object and in the file are of the
code at the addresses they go with (`HashesOK`). While a run of `upgrade.ts` is under way each proxy
is `Settled` by the object (it has the code of the object's hash, or that is left to the admin's owner), or it is
its turn (`Turn`): the hash is replaced in memory before the proxy is upgraded. For the markets, which
share one hash, the turn lasts until the last of them, and those to come have not the run's new logic
yet (`Awaits`), so that the comparison of addresses in `upgradeCashMarket` (553) cannot mistake them for done. A dry run
changes nothing that it could save (`StagesOK`). At the save the object's words become the file's.

The two theorems about upgrades need more of the runs that do not save. `FileTells` says of those as well
what is behind a proxy: it is `Accounted` for, which means that it has the code of the file's hash, or that a run was lost and the
next one will find the contract `Behind`: its hash is older than the build, or it links a library,
whose address the next run may change. On that, three invariants follow one another:

* `FormOK`: every hash is of its own artifact, of a version no newer than the build, and linked with
  code that is there. Versions only grow, so two hashes that are equal are of the same compilation.
* `BuildInEffect`, for `UpgradeAlwaysTakesEffect`: at each place of `UpgradeMain` the contracts before it that the
  run names have the build's hash (`HashCurrent`), and a contract whose library the run has deployed
  either has been upgraded already or has a hash with the old link, so that the comparison of hashes will not skip
  it (`Renewed`). This is where the order of `upgrade.ts`, libraries first, is needed. A run that does not
  name the library of a contract takes it from the file, which is the exception `Misled`.
* `LinksForward`, for `LibrariesAlwaysGoForward`: the library behind a proxy is no newer than the one the object
  or the file tells, and code that was left to the owner has a library between the two. The owner may make that
  upgrade after later runs, which is why both bounds have to be kept.

All of these were checked by TLC on the instance of `lifecycle` before they were proved.

### What is only checked

* **Liveness** (`DeploymentCompletes`, `EveryRunEnds`): fairness and `ENABLED` are out of the prover's reach.
* **How much third parties take** (`NeverWorse`, `CollateralStaysPositive`, `LiquidationSuffices`): they compare
  free collateral before and after, through all the conversions, up to `Dust`. How far the quotients of a
  call can be off depends on the rates, so that for all rates there is no such number to prove.
* The four runs that find counterexamples.

## 5. What is not modelled

* **Batches of third party calls** (`liquidateBatch`, `settleCashBalanceBatch` in Escrow): the single
  calls with one payment at the end.
* **Changes of a running system**: `updateCashGroup`, `setMaxAssets`, `setReserveAccount`, new discounts.
  No script makes them. Idiosyncratic cash groups are in `Portfolios` but no script creates one.
* **Operator approvals** and the receiver hooks of ERC1155; calls from inside a token's hook, other
  than the credit `tokensReceived` gives.
* `_sortPortfolio` and `_quickSort`: valuation sums over a group in any order; `RaiseCash` takes the
  sorted order as given.
* `tradeCashReceiver` (CashMarket 859): no contract calls it.
* Of the proxies: `changeAdmin`, minimal and signed proxies, the delegation of calls.
* Of the scripts: the environment's mock tokens and oracles, `checkDeployedLibraries` (no script calls
  it), verification on a block explorer, the table of error codes.
* Storage layout, interfaces, mocks, gas profile.

## 6. Plan

1. **Governance of a running system**: cash groups and discounts that change under existing assets.
2. **Sorting**: `_quickSort` against a reference definition over bounded inputs, in a module only
   TLC uses.
