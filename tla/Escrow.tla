-------------------------------- MODULE Escrow --------------------------------
(****************************************************************************)
(* The Escrow contract as custodian: the tokens it lists, their deposits    *)
(* and withdrawals, the movements the cash markets and Portfolios ask for,  *)
(* and the reserve.  A call settles the account first where the source      *)
(* does; what settlement posts, and whether the free collateral check lets  *)
(* the call through, is the environment's choice here.                      *)
(****************************************************************************)
EXTENDS CashBalances, FiniteSetsExt

CONSTANTS
  Accounts,      \* users
  MarketAccount, \* the CashMarket contract's own account
  Ether,         \* WETH, currency 0
  Tokens,        \* token contracts, Ether among them
  Amounts,       \* the amounts callers pass
  MaxBalance     \* bound of the model: no balance, owed or held, exceeds it

\* What a token's contract does on a transfer; Ether is a plain ERC20.
Kinds == {"ERC20", "FeeERC20", "ERC777"}

Holders == Accounts \cup {MarketAccount, Reserve}

ASSUME TokensAssumption == Ether \in Tokens
ASSUME AccountsAssumption == IsFiniteSet(Accounts)
ASSUME AmountsAssumption == Amounts \subseteq Nat
ASSUME HoldersAssumption == MarketAccount # Reserve /\ {MarketAccount, Reserve} \cap Accounts = {}

VARIABLES
  kind,          \* token -> its kind, which its listing states (TokenOptions)
  listed,        \* tokens with a currency id
  cashBalances,  \* token, holder -> balance in the token's currency
  custody,       \* token -> tokens the contract holds
  settledCash    \* token -> cash that settlement has posted, net

vars == <<kind, listed, cashBalances, custody, settledCash>>

TypeOK ==
  /\ kind \in [Tokens -> Kinds]
  /\ Ether \in listed /\ listed \subseteq Tokens
  /\ cashBalances \in [Tokens -> [Holders -> Int]]
  /\ \A c \in Tokens : {cashBalances[c][MarketAccount], cashBalances[c][Reserve]} \subseteq Nat
  /\ custody \in [Tokens -> Nat]
  /\ settledCash \in [Tokens -> Int]

Init ==
  /\ kind \in {k \in [Tokens -> Kinds] : k[Ether] = "ERC20"}
  /\ listed = {Ether}
  /\ cashBalances = [c \in Tokens |-> [h \in Holders |-> 0]]
  /\ custody = [c \in Tokens |-> 0]
  /\ settledCash = [c \in Tokens |-> 0]

Bounded(n) == -MaxBalance <= n /\ n <= MaxBalance

\* Store currency c's book, posted cash of it coming from settlement, and move
\* arriving tokens of t (leaving, if negative).  A transfer of more than the
\* contract holds reverts.
Store(c, book, posted, t, arriving) ==
  /\ custody[t] + arriving \in 0 .. MaxBalance
  /\ \A h \in Holders : Bounded(book[h])
  /\ Bounded(settledCash[c] + posted)
  /\ cashBalances' = [cashBalances EXCEPT ![c] = book]
  /\ custody' = [custody EXCEPT ![t] = @ + arriving]
  /\ settledCash' = [settledCash EXCEPT ![c] = @ + posted]
  /\ UNCHANGED <<kind, listed>>

(****************************************************************************)
(* listCurrency, and tokens sent to the contract before they are listed: an *)
(* ERC777 token then calls tokensReceived, which reverts.  Tokens sent past *)
(* the contract's functions later on only add to what backs the balances.   *)
(****************************************************************************)
ListCurrency(t) ==
  /\ t \notin listed
  /\ listed' = listed \cup {t}
  /\ UNCHANGED <<kind, cashBalances, custody, settledCash>>

Arriving(t, amount) ==
  IF kind[t] = "FeeERC20" /\ amount > 0 THEN amount - 1 ELSE amount

DirectTransfer(t, amount) ==
  /\ t \notin listed
  /\ kind[t] # "ERC777"
  /\ Store(t, cashBalances[t], 0, t, Arriving(t, amount))

(****************************************************************************)
(* Deposits.  Of a fee token one unit stays behind on every transfer.  An   *)
(* ERC777 token calls tokensReceived, which credits the sender, on a send   *)
(* to the contract as on a deposit.                                         *)
(****************************************************************************)
TokensReceived(c, amount) == IF kind[c] = "ERC777" THEN amount ELSE 0

FaultyCreditsSent(c, amount) == IF kind[c] = "ERC777" THEN 0 ELSE amount
DepositCredit(c, amount) == IF kind[c] = "ERC777" THEN 0 ELSE Arriving(c, amount)

Deposit(c, a, amount) ==
  /\ c \in listed
  /\ Store(c, Credit(cashBalances[c], a, TokensReceived(c, amount) + DepositCredit(c, amount)),
           0, c, Arriving(c, amount))

(****************************************************************************)
(* Withdrawals.  withdraw settles first; withdrawEth takes from the balance *)
(* before its free collateral check settles; withdrawsOnBehalf does not     *)
(* settle, passes over a debtor and names a currency, not a token.  A token *)
(* that is not listed has currency id 0, the id of Ether.                   *)
(****************************************************************************)
AddressToCurrency(t) == IF t \in listed THEN t ELSE Ether

Withdraw(t, a, amount, posted) ==
  LET c    == AddressToCurrency(t)
      book == Credit(cashBalances[c], a, posted)
      paid == Withdrawn(book, a, amount)
  IN  /\ book[a] > 0
      /\ Store(c, Credit(book, a, -paid), posted, t, -paid)

WithdrawEth(a, amount, posted) ==
  \E book \in DebitNoNeg(cashBalances[Ether], a, amount) :
    Store(Ether, Credit(book, a, posted), posted, Ether, -amount)

WithdrawsOnBehalf(c, a, amount) ==
  LET paid == Withdrawn(cashBalances[c], a, amount)
  IN  /\ c \in listed
      /\ Store(c, Credit(cashBalances[c], a, -paid), 0, c, -paid)

(****************************************************************************)
(* Calls from the cash market and from Portfolios, in a listed currency.    *)
(****************************************************************************)
MarketDeposit(c, a, amount, fee) ==
  \E book \in DepositIntoMarket(cashBalances[c], MarketAccount, a, amount, fee) :
    Store(c, book, 0, c, 0)

MarketWithdrawal(c, a, amount, fee) ==
  /\ fee <= amount
  /\ \E book \in WithdrawFromMarket(cashBalances[c], MarketAccount, a, amount, fee) :
       Store(c, book, 0, c, 0)

PortfolioSettleCash(c, a, posted) ==
  Store(c, Credit(cashBalances[c], a, posted), posted, c, 0)

(****************************************************************************)
(* settleReserve, for an account without entitlements or tokens.            *)
(****************************************************************************)
SettleReserve(c, a, posted) ==
  LET book == Credit(cashBalances[c], a, posted)
  IN  /\ \A d \in Tokens \ {c} : cashBalances[d][a] <= 0
      /\ book[a] < 0
      /\ Store(c, SettleAgainstReserve(book, a), posted, c, 0)

Signed == Amounts \cup {-n : n \in Amounts}

TokenCall ==
  \E t \in Tokens, amount \in Amounts : ListCurrency(t) \/ DirectTransfer(t, amount)

UserCall ==
  \E c \in Tokens, a \in Accounts \cup {Reserve}, amount \in Amounts :
    Deposit(c, a, amount) \/ WithdrawsOnBehalf(c, a, amount)

SettlingCall ==
  \E a \in Accounts, amount \in Amounts, posted \in Signed :
    \/ WithdrawEth(a, amount, posted)
    \/ \E t \in Tokens : Withdraw(t, a, amount, posted)

MarketCall ==
  \E c \in listed, a \in Accounts \cup {Reserve}, amount, fee \in Amounts :
    MarketDeposit(c, a, amount, fee) \/ MarketWithdrawal(c, a, amount, fee)

PortfoliosCall ==
  \E c \in listed, a \in Accounts, posted \in Signed :
    PortfolioSettleCash(c, a, posted)

ReserveCall ==
  \E c \in listed, a \in Accounts, posted \in Signed : SettleReserve(c, a, posted)

Next == TokenCall \/ UserCall \/ SettlingCall \/ MarketCall \/ PortfoliosCall \/ ReserveCall

Spec == Init /\ [][Next]_vars

(****************************************************************************)
(* Safety.                                                                  *)
(****************************************************************************)

\* In every currency the balances of all accounts, the market and the reserve
\* sum to no more than the tokens the contract holds and what settlement has
\* posted: no kind of token is credited twice or for more than arrived, and
\* fees, market moves and defaults create no cash.
TotalBalance(c) == MapThenSumSet(LAMBDA h : cashBalances[c][h], Holders)

CustodyBacksBalances ==
  \A c \in Tokens : TotalBalance(c) <= custody[c] + settledCash[c]

\* An account falls into debt, or deeper into it, only because a matured
\* obligation is settled: no deposit, withdrawal, trade or fee overdraws it.
DebtStep ==
  \A c \in Tokens, h \in Holders :
    (cashBalances'[c][h] < 0 /\ cashBalances'[c][h] < cashBalances[c][h])
      => settledCash'[c] < settledCash[c]

DebtOnlyFromSettlement == [][DebtStep]_vars
=============================================================================
