----------------------------- MODULE CashBalances -----------------------------
(****************************************************************************)
(* The cash balances Escrow keeps in one currency, a book of signed         *)
(* balances, and what its calls do to them.  A call that may revert is the  *)
(* set of books it can leave: empty when it reverts.  The order of the      *)
(* reads and writes is the source's, so that an account that appears in two *)
(* roles is treated as there.                                               *)
(*                                                                          *)
(* An operator whose name starts with Faulty is the definition after it     *)
(* with a plausible slip; the properties are checked to notice each one.    *)
(****************************************************************************)
EXTENDS Integers

CONSTANT Reserve      \* G_RESERVE_ACCOUNT

Credit(book, holder, n) == [book EXCEPT ![holder] = @ + n]

\* subNoNeg
DebitNoNeg(book, holder, n) ==
  IF book[holder] - n >= 0 THEN {Credit(book, holder, -n)} ELSE {}

FaultyMayOwe(book, market, account, value, fee) ==
  {Credit(Credit(Credit(book, Reserve, fee), market, value), account, -(value + fee))}
DepositIntoMarket(book, market, account, value, fee) ==
  DebitNoNeg(Credit(Credit(book, Reserve, fee), market, value), account, value + fee)

WithdrawFromMarket(book, market, account, value, fee) ==
  DebitNoNeg(Credit(Credit(book, Reserve, fee), account, value - fee), market, value)

\* _withdraw: as much of amount as the balance has, and nothing from a debtor.
FaultyUnclamped(book, account, amount) ==
  IF book[account] <= 0 THEN 0 ELSE amount
Withdrawn(book, account, amount) ==
  IF book[account] <= 0 THEN 0
  ELSE IF book[account] < amount THEN book[account] ELSE amount

\* settleReserve: the reserve pays a debt it exceeds, or else all it has.
FaultyOverpays(book, account) ==
  [book EXCEPT ![account] = 0, ![Reserve] = @ + book[account]]
SettleAgainstReserve(book, account) ==
  IF -book[account] < book[Reserve]
  THEN [book EXCEPT ![account] = 0, ![Reserve] = @ + book[account]]
  ELSE [book EXCEPT ![account] = @ + book[Reserve], ![Reserve] = 0]
=============================================================================
