----------------------------- MODULE EscrowProofs -----------------------------
(****************************************************************************)
(* Theorems about Escrow, for any tokens, finitely many accounts and any    *)
(* amounts.  Every call stores one book; what makes a book sound is         *)
(* collected in SoundEntry, established call by call from lemmas on         *)
(* CashBalances, and used once for the invariant and once for the debts.    *)
(****************************************************************************)
EXTENDS Escrow, FoldProofs

Book == [Holders -> Int]

Total(book) == SumOf(book, Holders)

\* The holders are finitely many, and the market, the reserve and the users are different ones.
LEMMA HoldersFinite == /\ IsFiniteSet(Holders) /\ MarketAccount \in Holders /\ Reserve \in Holders
                       /\ Accounts \subseteq Holders /\ MarketAccount # Reserve
                       /\ MarketAccount \notin Accounts /\ Reserve \notin Accounts
  <1>1. IsFiniteSet({MarketAccount, Reserve})
    <2>1. IsFiniteSet({MarketAccount})
      BY FS_Singleton
    <2>2. IsFiniteSet({MarketAccount} \cup {Reserve})
      BY <2>1, FS_AddElement
    <2>3. {MarketAccount, Reserve} = {MarketAccount} \cup {Reserve}
      OBVIOUS
    <2> QED
      BY <2>2, <2>3
  <1> QED
    BY <1>1, AccountsAssumption, HoldersAssumption, FS_Union DEF Holders

(****************************************************************************)
(* What the operators of CashBalances do to a book.                         *)
(****************************************************************************)

\* A credit changes one balance, and the total by as much.
LEMMA CreditFacts ==
  ASSUME NEW book \in Book, NEW h \in Holders, NEW n \in Int
  PROVE  /\ Credit(book, h, n) \in Book
         /\ Credit(book, h, n)[h] = book[h] + n
         /\ \A x \in Holders \ {h} : Credit(book, h, n)[x] = book[x]
         /\ \A x \in Holders : book[x] \in Int /\ Credit(book, h, n)[x] \in Int
         /\ Total(book) \in Int
         /\ Total(Credit(book, h, n)) = Total(book) + n
  <1>1. Total(Credit(book, h, n)) = Total(book) + n
    BY HoldersFinite, SumAdd DEF Total, Credit, Book
  <1>2. Total(book) \in Int
    BY HoldersFinite, SumType DEF Total, Book
  <1> QED
    BY <1>1, <1>2 DEF Credit, Book

\* A credit of a natural number lowers no balance.
LEMMA CreditUp ==
  ASSUME NEW book \in Book, NEW h \in Holders, NEW n \in Nat
  PROVE  /\ Credit(book, h, n) \in Book
         /\ Total(Credit(book, h, n)) = Total(book) + n
         /\ Total(book) \in Int
         /\ \A x \in Holders : Credit(book, h, n)[x] >= book[x] /\ Credit(book, h, n)[x] \in Int
  <1> DEFINE after == Credit(book, h, n)
  <1>1. /\ after \in Book /\ after[h] = book[h] + n /\ Total(after) = Total(book) + n
        /\ \A x \in Holders \ {h} : after[x] = book[x]
        /\ \A x \in Holders : book[x] \in Int /\ after[x] \in Int
        /\ Total(book) \in Int
    <2>1. n \in Int
      OBVIOUS
    <2> QED
      BY <2>1, CreditFacts
  <1> HIDE DEF after
  <1>2. \A x \in Holders : after[x] >= book[x]
    BY <1>1
  <1> QED
    BY <1>1, <1>2 DEF after

\* A debit leaves the other balances alone.
LEMMA CreditDown ==
  ASSUME NEW book \in Book, NEW h \in Holders, NEW n \in Nat
  PROVE  /\ Credit(book, h, -n) \in Book
         /\ Total(Credit(book, h, -n)) = Total(book) - n
         /\ Total(book) \in Int
         /\ \A x \in Holders : x # h => Credit(book, h, -n)[x] = book[x]
  <1>1. -n \in Int
    OBVIOUS
  <1>2. Total(book) + (-n) = Total(book) - n
    BY CreditFacts
  <1> QED
    BY <1>1, <1>2, CreditFacts

\* A guarded debit leaves nothing negative that was not.
LEMMA DebitFacts ==
  ASSUME NEW book \in Book, NEW h \in Holders, NEW n \in Int, NEW left \in DebitNoNeg(book, h, n)
  PROVE  left = Credit(book, h, -n) /\ left[h] >= 0
  <1>1. book[h] - n >= 0 /\ left = Credit(book, h, -n)
    BY DEF DebitNoNeg
  <1> QED
    BY <1>1, CreditFacts DEF Book

(****************************************************************************)
(* The inductive invariant.  The backing of a currency is disturbed when a  *)
(* withdrawal names one token and takes another's balance; it then matters  *)
(* that a token which is not listed backs nothing.                          *)
(****************************************************************************)
UnlistedUnused ==
  \A c \in Tokens \ listed : cashBalances[c] = [h \in Holders |-> 0] /\ settledCash[c] = 0

IInv == TypeOK /\ UnlistedUnused /\ CustodyBacksBalances

\* The total that backing is about is the sum of the book.
LEMMA TotalOfBook == \A c : TotalBalance(c) = Total(cashBalances[c])
  BY DEF TotalBalance, Total, SumOf

\* A book that a call may store for currency c, with posted cash from settlement and arriving
\* tokens of t: market and reserve are not overdrawn, the total grows by no more than was posted
\* and arrived, and whoever sinks below zero does so by settlement.
SoundEntry(c, book, posted, t, arriving) ==
  /\ book \in Book /\ posted \in Int /\ arriving \in Int
  /\ book[MarketAccount] >= 0 /\ book[Reserve] >= 0
  /\ t \in Tokens /\ (t = c \/ t \notin listed)
  /\ \/ c \in listed
     \/ t = c /\ book = cashBalances[c] /\ posted = 0 /\ arriving >= 0
  /\ Total(book) <= Total(cashBalances[c]) + posted + IF t = c THEN arriving ELSE 0
  /\ \A h \in Holders : book[h] < 0 /\ book[h] < cashBalances[c][h] => posted < 0

\* What the invariant says of one currency.
LEMMA BookFacts ==
  ASSUME IInv, NEW c \in Tokens
  PROVE  /\ cashBalances[c] \in Book /\ \A h \in Holders : cashBalances[c][h] \in Int
         /\ cashBalances[c][MarketAccount] >= 0 /\ cashBalances[c][Reserve] >= 0
         /\ custody[c] \in Nat /\ settledCash[c] \in Int
         /\ Total(cashBalances[c]) \in Int
         /\ Total(cashBalances[c]) <= custody[c] + settledCash[c]
         /\ c \notin listed => Total(cashBalances[c]) = 0 /\ settledCash[c] = 0
  <1>1. cashBalances[c] \in Book /\ custody[c] \in Nat /\ settledCash[c] \in Int
    BY DEF IInv, TypeOK, Book
  <1>2. Total(cashBalances[c]) \in Int
    BY <1>1, HoldersFinite, SumType DEF Book, Total
  <1>3. c \notin listed => Total(cashBalances[c]) = 0 /\ settledCash[c] = 0
    BY <1>1, HoldersFinite, SumType DEF IInv, UnlistedUnused, Book, Total
  <1> QED
    BY <1>1, <1>2, <1>3, TotalOfBook DEF IInv, TypeOK, Book, CustodyBacksBalances

\* Storing a sound entry keeps the invariant and indebts nobody but by settlement.
LEMMA SoundStore ==
  ASSUME IInv, NEW c \in Tokens, NEW book, NEW posted, NEW t, NEW arriving,
         SoundEntry(c, book, posted, t, arriving), Store(c, book, posted, t, arriving)
  PROVE  IInv' /\ DebtStep
  <1>1. /\ cashBalances' = [cashBalances EXCEPT ![c] = book]
        /\ custody' = [custody EXCEPT ![t] = @ + arriving]
        /\ settledCash' = [settledCash EXCEPT ![c] = @ + posted]
        /\ kind' = kind /\ listed' = listed
        /\ custody[t] + arriving \in Nat
    BY DEF Store
  <1>2. book \in Book /\ posted \in Int /\ arriving \in Int /\ t \in Tokens
    BY DEF SoundEntry
  <1>3. /\ cashBalances'[c] = book /\ settledCash'[c] = settledCash[c] + posted
        /\ \A d \in Tokens \ {c} : /\ cashBalances'[d] = cashBalances[d]
                                  /\ settledCash'[d] = settledCash[d]
        /\ custody'[t] = custody[t] + arriving
        /\ \A d \in Tokens \ {t} : custody'[d] = custody[d]
    BY <1>1, <1>2 DEF IInv, TypeOK
  <1>4. TypeOK'
    <2>1. cashBalances' \in [Tokens -> Book] /\ settledCash' \in [Tokens -> Int]
      BY <1>1, <1>2 DEF IInv, TypeOK, Book
    <2>2. custody' \in [Tokens -> Nat]
      BY <1>1, <1>2 DEF IInv, TypeOK
    <2>3. ASSUME NEW d \in Tokens
          PROVE  cashBalances'[d][MarketAccount] >= 0 /\ cashBalances'[d][Reserve] >= 0
      BY <1>3, BookFacts DEF SoundEntry
    <2>4. ASSUME NEW d \in Tokens
          PROVE  {cashBalances'[d][MarketAccount], cashBalances'[d][Reserve]} \subseteq Nat
      BY <2>1, <2>3, HoldersFinite DEF Book
    <2> QED
      BY <1>1, <2>1, <2>2, <2>4 DEF IInv, TypeOK, Book
  <1>5. UnlistedUnused'
    BY <1>1, <1>3, BookFacts DEF IInv, UnlistedUnused, SoundEntry
  <1>6. CustodyBacksBalances'
    <2> SUFFICES ASSUME NEW d \in Tokens
                 PROVE  Total(cashBalances'[d]) <= custody'[d] + settledCash'[d]
      <3>1. (\A d : TotalBalance(d) = Total(cashBalances[d]))'
        BY DEF TotalBalance, Total, SumOf, MapThenSumSet, MapThenFoldSet
      <3> QED
        BY <3>1 DEF CustodyBacksBalances
    <2>1. CASE d = c /\ t = c
      <3>1. Total(book) <= Total(cashBalances[c]) + posted + arriving
        BY <2>1 DEF SoundEntry
      <3>2. Total(book) \in Int
        BY <1>2, HoldersFinite, SumType DEF Book, Total
      <3> QED
        BY <1>2, <1>3, <2>1, <3>1, <3>2, BookFacts
    <2>2. CASE d = c /\ t # c
      <3>1. Total(book) <= Total(cashBalances[c]) + posted
        BY <1>2, <2>2, BookFacts DEF SoundEntry
      <3>2. Total(book) \in Int
        BY <1>2, HoldersFinite, SumType DEF Book, Total
      <3> QED
        BY <1>2, <1>3, <2>2, <3>1, <3>2, BookFacts
    <2>3. CASE d # c /\ d # t
      BY <1>3, <2>3, BookFacts
    <2>4. CASE d # c /\ d = t
      <3>1. t \notin listed
        BY <2>4 DEF SoundEntry
      <3>2. /\ cashBalances'[d] = cashBalances[d] /\ settledCash'[d] = settledCash[d]
            /\ custody'[d] \in Nat
        BY <1>1, <1>3, <2>4
      <3> QED
        BY <2>4, <3>1, <3>2, BookFacts
    <2> QED
      BY <2>1, <2>2, <2>3, <2>4
  <1>7. DebtStep
    BY <1>1, <1>3, BookFacts DEF SoundEntry, DebtStep
  <1> QED
    BY <1>4, <1>5, <1>6, <1>7 DEF IInv

(****************************************************************************)
(* Each call stores a sound entry.                                          *)
(****************************************************************************)

\* Tokens arrive in full or but for the fee, and never fewer than none.
LEMMA ArrivingFacts ==
  ASSUME NEW t, NEW amount \in Nat
  PROVE  /\ Arriving(t, amount) \in Nat
         /\ TokensReceived(t, amount) + DepositCredit(t, amount) = Arriving(t, amount)
  BY DEF Arriving, TokensReceived, DepositCredit

\* A withdrawal pays no more than the balance, and nothing to a debtor.
LEMMA WithdrawnFacts ==
  ASSUME NEW book \in Book, NEW a \in Holders, NEW amount \in Nat
  PROVE  LET paid == Withdrawn(book, a, amount)
         IN  /\ paid \in Nat
             /\ book[a] > 0 => paid <= book[a]
             /\ book[a] <= 0 => paid = 0
  BY DEF Withdrawn, Book

\* Two credits of one holder are one credit of the sum.
LEMMA CreditTwice ==
  ASSUME NEW book \in Book, NEW h \in Holders, NEW m \in Int, NEW n \in Int
  PROVE  Credit(Credit(book, h, m), h, n) = Credit(book, h, m + n)
  <1> DEFINE twice == Credit(Credit(book, h, m), h, n)
             once == Credit(book, h, m + n)
  <1>1. twice \in Book /\ once \in Book
    BY CreditFacts
  <1>2. twice[h] = once[h] /\ \A x \in Holders \ {h} : twice[x] = once[x]
    BY DEF Credit, Book
  <1> HIDE DEF twice, once
  <1>3. \A x \in Holders : twice[x] = once[x]
    BY <1>2
  <1> QED
    BY <1>1, <1>3 DEF Book, twice, once

\* Settlement posts to an account, and tokens leave if it has as much, or arrive.
LEMMA CreditEntry ==
  ASSUME IInv, NEW c \in listed, NEW t \in Tokens, t = c \/ t \notin listed,
         NEW a \in Accounts \cup {Reserve}, NEW posted \in Int, a = Reserve => posted = 0,
         NEW paid \in Int,
         posted < 0 \/ paid <= 0 \/ cashBalances[c][a] + posted - paid >= 0,
         t # c => paid >= 0
  PROVE  SoundEntry(c, Credit(cashBalances[c], a, posted - paid), posted, t, -paid)
  <1> DEFINE book == Credit(cashBalances[c], a, posted - paid)
  <1>1. c \in Tokens /\ a \in Holders /\ a # MarketAccount /\ posted - paid \in Int /\ -paid \in Int
    BY HoldersFinite DEF IInv, TypeOK
  <1>2. /\ cashBalances[c] \in Book /\ \A h \in Holders : cashBalances[c][h] \in Int
        /\ cashBalances[c][MarketAccount] >= 0 /\ cashBalances[c][Reserve] >= 0
        /\ Total(cashBalances[c]) \in Int
    BY <1>1, BookFacts
  <1>3. /\ book \in Book /\ book[a] = cashBalances[c][a] + (posted - paid)
        /\ \A x \in Holders \ {a} : book[x] = cashBalances[c][x]
        /\ Total(book) = Total(cashBalances[c]) + (posted - paid)
    <2> DEFINE old == cashBalances[c]
               n == posted - paid
    <2>1. old \in Book /\ a \in Holders /\ n \in Int
      BY <1>1, <1>2
    <2> HIDE DEF old, n
    <2>2. /\ Credit(old, a, n) \in Book /\ Credit(old, a, n)[a] = old[a] + n
          /\ \A x \in Holders \ {a} : Credit(old, a, n)[x] = old[x]
          /\ Total(Credit(old, a, n)) = Total(old) + n
      BY <2>1, CreditFacts
    <2> QED
      BY <2>2 DEF old, n
  <1> HIDE DEF book
  <1>4. book[MarketAccount] >= 0 /\ book[Reserve] >= 0
    BY <1>1, <1>2, <1>3, HoldersFinite
  <1>5. Total(book) <= Total(cashBalances[c]) + posted + IF t = c THEN -paid ELSE 0
    BY <1>2, <1>3
  <1>6. \A h \in Holders : book[h] < 0 /\ book[h] < cashBalances[c][h] => posted < 0
    BY <1>1, <1>2, <1>3
  <1>7. SoundEntry(c, book, posted, t, -paid)
    BY <1>1, <1>3, <1>4, <1>5, <1>6 DEF SoundEntry
  <1> QED
    BY <1>7 DEF book

\* A listing brings no balances, and tokens sent to the contract only add to its custody.
LEMMA TokenStep ==
  ASSUME IInv, TokenCall
  PROVE  IInv' /\ DebtStep
  <1> PICK t \in Tokens, amount \in Amounts : ListCurrency(t) \/ DirectTransfer(t, amount)
    BY DEF TokenCall
  <1>1. CASE ListCurrency(t)
    <2>1. TypeOK'
      BY <1>1 DEF IInv, TypeOK, ListCurrency
    <2>2. UnlistedUnused'
      BY <1>1 DEF IInv, UnlistedUnused, ListCurrency
    <2>3. CustodyBacksBalances'
      <3>1. /\ cashBalances' = cashBalances /\ custody' = custody
            /\ settledCash' = settledCash
        BY <1>1 DEF ListCurrency
      <3>2. \A d : TotalBalance(d)' = TotalBalance(d)
        BY <3>1 DEF TotalBalance, MapThenSumSet, MapThenFoldSet
      <3> QED
        BY <3>1, <3>2 DEF IInv, CustodyBacksBalances
    <2>4. DebtStep
      BY <1>1, BookFacts DEF ListCurrency, DebtStep
    <2> QED
      BY <2>1, <2>2, <2>3, <2>4 DEF IInv
  <1>2. CASE DirectTransfer(t, amount)
    <2>1. Arriving(t, amount) \in Nat
      BY AmountsAssumption, ArrivingFacts
    <2>2. SoundEntry(t, cashBalances[t], 0, t, Arriving(t, amount))
      BY <2>1, BookFacts DEF SoundEntry
    <2> QED
      BY <1>2, <2>2, SoundStore DEF DirectTransfer
  <1> QED
    BY <1>1, <1>2

\* A deposit credits what arrived, a withdrawal debits what leaves.
LEMMA UserStep ==
  ASSUME IInv, UserCall
  PROVE  IInv' /\ DebtStep
  <1> PICK c \in Tokens, a \in Accounts \cup {Reserve}, amount \in Amounts :
         Deposit(c, a, amount) \/ WithdrawsOnBehalf(c, a, amount)
    BY DEF UserCall
  <1>1. a \in Holders /\ a # MarketAccount /\ amount \in Nat
    BY HoldersFinite, AmountsAssumption
  <1>2. CASE Deposit(c, a, amount)
    <2> DEFINE n == Arriving(c, amount)
               book == Credit(cashBalances[c], a, n)
    <2>1. n \in Nat
      BY <1>1, ArrivingFacts
    <2>2. Store(c, book, 0, c, n) /\ c \in listed
      BY <1>1, <1>2, ArrivingFacts DEF Deposit
    <2>3. SoundEntry(c, book, 0, c, n)
      <3> DEFINE out == -n
      <3>1. out \in Int /\ out <= 0 /\ 0 - out = n /\ -out = n
        BY <2>1
      <3> HIDE DEF out, n
      <3>2. 0 \in Int
        OBVIOUS
      <3>3. SoundEntry(c, Credit(cashBalances[c], a, 0 - out), 0, c, -out)
        BY <2>2, <3>1, <3>2, CreditEntry
      <3> QED
        BY <3>1, <3>3
    <2> QED
      BY <2>2, <2>3, SoundStore
  <1>3. CASE WithdrawsOnBehalf(c, a, amount)
    <2> DEFINE paid == Withdrawn(cashBalances[c], a, amount)
               book == Credit(cashBalances[c], a, -paid)
    <2>1. c \in listed /\ Store(c, book, 0, c, -paid)
      BY <1>3 DEF WithdrawsOnBehalf
    <2>2. /\ paid \in Nat
          /\ cashBalances[c][a] > 0 => paid <= cashBalances[c][a]
          /\ cashBalances[c][a] <= 0 => paid = 0
          /\ cashBalances[c][a] \in Int
      BY <1>1, BookFacts, WithdrawnFacts
    <2> HIDE DEF paid
    <2>3. SoundEntry(c, Credit(cashBalances[c], a, 0 - paid), 0, c, -paid)
      <3>1. paid <= 0 \/ cashBalances[c][a] + 0 - paid >= 0
        BY <2>2
      <3> QED
        BY <2>1, <2>2, <3>1, CreditEntry
    <2>4. 0 - paid = -paid
      BY <2>2
    <2> QED
      BY <2>1, <2>3, <2>4, SoundStore
  <1> QED
    BY <1>2, <1>3

\* The calls that settle first: the postings and the payment are one entry.  A token that is not
\* listed is paid for out of Ether, but the contract then holds all the more of it.
LEMMA SettlingStep ==
  ASSUME IInv, SettlingCall
  PROVE  IInv' /\ DebtStep
  <1> PICK a \in Accounts, amount \in Amounts, posted \in Signed :
         WithdrawEth(a, amount, posted) \/ \E t \in Tokens : Withdraw(t, a, amount, posted)
    BY DEF SettlingCall
  <1>1. /\ a \in Holders /\ a # Reserve /\ amount \in Nat /\ posted \in Int
        /\ Ether \in listed /\ listed \subseteq Tokens
    BY HoldersFinite, AmountsAssumption DEF Signed, IInv, TypeOK
  <1>2. CASE WithdrawEth(a, amount, posted)
    <2> DEFINE old == cashBalances[Ether]
    <2>1. old \in Book /\ old[a] \in Int
      BY <1>1, BookFacts
    <2>2. PICK book \in DebitNoNeg(old, a, amount) :
                 Store(Ether, Credit(book, a, posted), posted, Ether, -amount)
      BY <1>2 DEF WithdrawEth
    <2>3. book = Credit(old, a, -amount) /\ old[a] - amount >= 0
      BY DEF DebitNoNeg
    <2>4. Credit(book, a, posted) = Credit(old, a, posted - amount)
      BY <1>1, <2>1, <2>3, CreditTwice
    <2>5. posted < 0 \/ old[a] + posted - amount >= 0
      BY <1>1, <2>1, <2>3
    <2>6. SoundEntry(Ether, Credit(old, a, posted - amount), posted, Ether, -amount)
      BY <1>1, <2>5, CreditEntry
    <2> QED
      BY <1>1, <2>2, <2>4, <2>6, SoundStore
  <1>3. ASSUME NEW t \in Tokens, Withdraw(t, a, amount, posted)
        PROVE  IInv' /\ DebtStep
    <2> DEFINE c == AddressToCurrency(t)
               old == cashBalances[c]
               book == Credit(old, a, posted)
               paid == Withdrawn(book, a, amount)
    <2>1. c \in listed /\ c \in Tokens /\ (t = c \/ t \notin listed)
      BY <1>1 DEF AddressToCurrency
    <2>2. old \in Book /\ old[a] \in Int
      BY <1>1, <2>1, BookFacts
    <2>3. book[a] > 0 /\ Store(c, Credit(book, a, -paid), posted, t, -paid)
      BY <1>3 DEF Withdraw
    <2>4. book \in Book /\ book[a] = old[a] + posted
      BY <1>1, <2>2, CreditFacts
    <2>5. paid \in Nat /\ paid <= book[a]
      BY <1>1, <2>3, <2>4, WithdrawnFacts
    <2> HIDE DEF paid, c
    <2>6. Credit(book, a, -paid) = Credit(old, a, posted - paid)
      BY <1>1, <2>2, <2>5, CreditTwice
    <2>7. SoundEntry(c, Credit(old, a, posted - paid), posted, t, -paid)
      <3>1. old[a] + posted - paid >= 0
        BY <1>1, <2>2, <2>4, <2>5
      <3> QED
        BY <1>1, <2>1, <2>5, <3>1, CreditEntry
    <2> QED
      BY <1>1, <2>1, <2>3, <2>6, <2>7, SoundStore
  <1> QED
    BY <1>2, <1>3

\* A book that moves balances about, the market's and the reserve's not below zero, and nobody
\* else's down to less than zero.
LEMMA MovingEntry ==
  ASSUME IInv, NEW c \in listed, NEW book \in Book, Total(book) = Total(cashBalances[c]),
         \A h \in Holders : book[h] >= cashBalances[c][h] \/ book[h] >= 0
  PROVE  SoundEntry(c, book, 0, c, 0)
  <1>1. c \in Tokens
    BY DEF IInv, TypeOK
  <1>2. \A h \in Holders : book[h] \in Int
    BY DEF Book
  <1> QED
    BY <1>1, <1>2, BookFacts, HoldersFinite DEF SoundEntry

\* A fee and a payment go to the reserve and the market, or the other way, and the total stays.
LEMMA MarketStep ==
  ASSUME IInv, MarketCall
  PROVE  IInv' /\ DebtStep
  <1> PICK c \in listed, a \in Accounts \cup {Reserve}, amount \in Amounts, fee \in Amounts :
         MarketDeposit(c, a, amount, fee) \/ MarketWithdrawal(c, a, amount, fee)
    BY DEF MarketCall
  <1> DEFINE old == cashBalances[c]
             fees == Credit(old, Reserve, fee)
  <1>1. /\ a \in Holders /\ amount \in Nat /\ fee \in Nat /\ c \in Tokens
        /\ Reserve \in Holders /\ MarketAccount \in Holders
    BY HoldersFinite, AmountsAssumption DEF IInv, TypeOK
  <1>2. old \in Book /\ \A h \in Holders : old[h] \in Int
    BY <1>1, BookFacts
  <1> HIDE DEF old
  <1>3. /\ fees \in Book /\ Total(fees) = Total(old) + fee /\ Total(old) \in Int
        /\ \A h \in Holders : fees[h] >= old[h] /\ fees[h] \in Int
    BY <1>1, <1>2, CreditUp
  <1> HIDE DEF fees
  <1>4. CASE MarketDeposit(c, a, amount, fee)
    <2> DEFINE paidIn == Credit(fees, MarketAccount, amount)
    <2>1. /\ paidIn \in Book /\ Total(paidIn) = Total(fees) + amount
          /\ \A h \in Holders : paidIn[h] >= fees[h] /\ paidIn[h] \in Int
      BY <1>1, <1>3, CreditUp
    <2>2. PICK book \in DebitNoNeg(paidIn, a, amount + fee) : Store(c, book, 0, c, 0)
      BY <1>4 DEF MarketDeposit, DepositIntoMarket, fees, old
    <2>3. book = Credit(paidIn, a, -(amount + fee)) /\ book[a] >= 0
      BY <1>1, <2>1, DebitFacts
    <2> HIDE DEF paidIn
    <2>4. /\ book \in Book /\ Total(book) = Total(old)
          /\ \A h \in Holders : book[h] >= old[h] \/ book[h] >= 0
      <3>1. amount + fee \in Nat
        BY <1>1
      <3>2. /\ book \in Book /\ Total(book) = Total(paidIn) - (amount + fee)
            /\ \A h \in Holders : h # a => book[h] = paidIn[h]
        BY <1>1, <2>1, <2>3, <3>1, CreditDown
      <3> QED
        BY <1>1, <1>2, <1>3, <2>1, <2>3, <3>2
    <2> QED
      BY <1>1, <2>2, <2>4, MovingEntry, SoundStore DEF old
  <1>5. CASE MarketWithdrawal(c, a, amount, fee)
    <2> DEFINE paidOut == Credit(fees, a, amount - fee)
    <2>1. fee <= amount
      BY <1>5 DEF MarketWithdrawal
    <2>2. /\ paidOut \in Book /\ Total(paidOut) = Total(fees) + (amount - fee)
          /\ \A h \in Holders : paidOut[h] >= fees[h] /\ paidOut[h] \in Int
      <3>1. amount - fee \in Nat
        BY <1>1, <2>1
      <3> QED
        BY <1>1, <1>3, <3>1, CreditUp
    <2>3. PICK book \in DebitNoNeg(paidOut, MarketAccount, amount) : Store(c, book, 0, c, 0)
      BY <1>5 DEF MarketWithdrawal, WithdrawFromMarket, fees, old
    <2>4. book = Credit(paidOut, MarketAccount, -amount) /\ book[MarketAccount] >= 0
      BY <1>1, <2>2, DebitFacts
    <2> HIDE DEF paidOut
    <2>5. /\ book \in Book /\ Total(book) = Total(old)
          /\ \A h \in Holders : book[h] >= old[h] \/ book[h] >= 0
      <3>1. /\ book \in Book /\ Total(book) = Total(paidOut) - amount
            /\ \A h \in Holders : h # MarketAccount => book[h] = paidOut[h]
        BY <1>1, <2>2, <2>4, CreditDown
      <3> QED
        BY <1>1, <1>2, <1>3, <2>2, <2>4, <3>1
    <2> QED
      BY <1>1, <2>3, <2>5, MovingEntry, SoundStore DEF old
  <1> QED
    BY <1>4, <1>5

\* What Portfolios posts is settlement by definition.
LEMMA PortfoliosStep ==
  ASSUME IInv, PortfoliosCall
  PROVE  IInv' /\ DebtStep
  <1> PICK c \in listed, a \in Accounts, posted \in Signed : PortfolioSettleCash(c, a, posted)
    BY DEF PortfoliosCall
  <1>1. c \in Tokens /\ a # Reserve /\ posted \in Int
    BY HoldersFinite, AmountsAssumption DEF IInv, TypeOK, Signed
  <1>2. PICK none \in Int : none = 0
    OBVIOUS
  <1> DEFINE back == -none
  <1>3. back \in Int /\ none + back = 0 /\ none <= 0 /\ posted - none = posted
    BY <1>1, <1>2
  <1>4. SoundEntry(c, Credit(cashBalances[c], a, posted - none), posted, c, back)
    BY <1>1, <1>3, CreditEntry
  <1> HIDE DEF back
  <1>5. back = 0
    BY <1>2, <1>3
  <1> QED
    BY <1>1, <1>3, <1>4, <1>5, SoundStore DEF PortfolioSettleCash

\* The reserve covers a debt as far as it goes and is not overdrawn.
LEMMA ReserveStep ==
  ASSUME IInv, ReserveCall
  PROVE  IInv' /\ DebtStep
  <1> PICK c \in listed, a \in Accounts, posted \in Signed : SettleReserve(c, a, posted)
    BY DEF ReserveCall
  <1> DEFINE old == cashBalances[c]
             book == Credit(old, a, posted)
             covered == IF -book[a] < book[Reserve] THEN -book[a] ELSE book[Reserve]
             after == Credit(Credit(book, a, covered), Reserve, -covered)
  <1>1. /\ c \in Tokens /\ a \in Holders /\ a # Reserve /\ a # MarketAccount /\ posted \in Int
        /\ Reserve \in Holders /\ MarketAccount \in Holders /\ Reserve # MarketAccount
    BY HoldersFinite, AmountsAssumption DEF IInv, TypeOK, Signed
  <1>2. /\ old \in Book /\ \A h \in Holders : old[h] \in Int
        /\ old[Reserve] >= 0 /\ old[MarketAccount] >= 0
    BY <1>1, BookFacts
  <1>3. /\ book \in Book /\ book[a] = old[a] + posted /\ Total(book) = Total(old) + posted
        /\ \A h \in Holders \ {a} : book[h] = old[h]
        /\ Total(old) \in Int
    <2>1. /\ a \in Holders /\ posted \in Int /\ old \in Book
      BY <1>1, <1>2
    <2> HIDE DEF old
    <2> QED
      BY <2>1, CreditFacts
  <1>4. /\ book[a] < 0
        /\ Store(c, SettleAgainstReserve(book, a), posted, c, 0)
    BY DEF SettleReserve
  <1> HIDE DEF book
  <1>5. covered \in Nat /\ covered <= book[Reserve] /\ book[a] + covered <= 0
    BY <1>1, <1>2, <1>3, <1>4
  <1>6. \A h \in Holders : book[h] \in Int
    BY <1>3 DEF Book
  <1>7. SettleAgainstReserve(book, a) = after
    <2>1. CASE -book[a] < book[Reserve]
      <3>1. /\ covered = -book[a] /\ book[a] + covered = 0
            /\ book[Reserve] + (-covered) = book[Reserve] + book[a]
        BY <1>1, <1>6, <2>1
      <3> HIDE DEF covered
      <3> QED
        BY <1>1, <1>3, <2>1, <3>1 DEF SettleAgainstReserve, Credit, Book
    <2>2. CASE ~(-book[a] < book[Reserve])
      <3>1. covered = book[Reserve] /\ book[Reserve] + (-covered) = 0
        BY <1>1, <1>6, <2>2
      <3> HIDE DEF covered
      <3> QED
        BY <1>1, <1>3, <2>2, <3>1 DEF SettleAgainstReserve, Credit, Book
    <2> QED
      BY <2>1, <2>2
  <1> HIDE DEF covered
  <1>8. /\ after \in Book /\ Total(after) = Total(old) + posted
        /\ after[a] = book[a] + covered /\ after[Reserve] + covered = book[Reserve] /\ after[Reserve] \in Int
        /\ \A h \in Holders \ {a, Reserve} : after[h] = old[h]
    <2> DEFINE credited == Credit(book, a, covered)
    <2>1. /\ credited \in Book /\ credited[a] = book[a] + covered
          /\ \A h \in Holders \ {a} : credited[h] = book[h]
          /\ Total(credited) = Total(book) + covered
      <3>1. covered \in Int
        BY <1>5
      <3> QED
        BY <1>1, <1>3, <3>1, CreditFacts
    <2> HIDE DEF credited
    <2> DEFINE n == -covered
    <2>2. n \in Int /\ covered + n = 0
      BY <1>5
    <2> HIDE DEF n
    <2>3. /\ Credit(credited, Reserve, n) \in Book
          /\ Credit(credited, Reserve, n)[Reserve] = credited[Reserve] + n
          /\ \A h \in Holders \ {Reserve} : Credit(credited, Reserve, n)[h] = credited[h]
          /\ Total(Credit(credited, Reserve, n)) = Total(credited) + n
      BY <1>1, <2>1, <2>2, CreditFacts
    <2>4. Credit(credited, Reserve, n) = after
      BY DEF n, credited
    <2> QED
      BY <1>1, <1>2, <1>3, <1>5, <1>6, <2>1, <2>2, <2>3, <2>4
  <1> HIDE DEF after
  <1>9. SoundEntry(c, after, posted, c, 0)
    <2>1. after[Reserve] >= 0 /\ after[MarketAccount] >= 0
      BY <1>1, <1>2, <1>3, <1>5, <1>8
    <2>2. \A h \in Holders : after[h] < 0 /\ after[h] < old[h] => posted < 0
      BY <1>1, <1>2, <1>3, <1>5, <1>8, <2>1
    <2> QED
      BY <1>1, <1>3, <1>8, <2>1, <2>2 DEF SoundEntry
  <1> QED
    BY <1>1, <1>4, <1>7, <1>9, SoundStore

(****************************************************************************)
(* The theorems.                                                            *)
(****************************************************************************)

\* A new contract owes nobody anything.
LEMMA EscrowInit == Init => IInv
  <1> SUFFICES ASSUME Init PROVE IInv
    OBVIOUS
  <1>1. TypeOK
    BY TokensAssumption, HoldersFinite DEF Init, TypeOK
  <1>2. UnlistedUnused
    BY DEF Init, UnlistedUnused
  <1>3. \A c \in Tokens : Total(cashBalances[c]) = 0 /\ custody[c] + settledCash[c] = 0
    BY HoldersFinite, SumType DEF Init, Total
  <1> QED
    BY <1>1, <1>2, <1>3, TotalOfBook DEF IInv, CustodyBacksBalances

\* No step of the specification breaks the invariant, or puts anybody in debt but by settlement.
LEMMA EscrowStep ==
  ASSUME IInv, [Next]_vars
  PROVE  IInv' /\ [DebtStep]_vars
  <1>1. CASE Next
    BY <1>1, TokenStep, UserStep, SettlingStep, MarketStep, PortfoliosStep, ReserveStep DEF Next
  <1>2. CASE UNCHANGED vars
    <2>1. TypeOK' /\ UnlistedUnused'
      BY <1>2 DEF IInv, TypeOK, UnlistedUnused, vars
    <2>2. CustodyBacksBalances'
      <3>1. (\A d : TotalBalance(d) = Total(cashBalances[d]))'
        BY DEF TotalBalance, Total, SumOf, MapThenSumSet, MapThenFoldSet
      <3> QED
        BY <1>2, <3>1, TotalOfBook DEF IInv, CustodyBacksBalances, vars
    <2> QED
      BY <1>2, <2>1, <2>2 DEF IInv
  <1> QED
    BY <1>1, <1>2

\* The invariant holds in every reachable state.
LEMMA EscrowInvariance == Spec => []IInv
  <1>1. IInv /\ [Next]_vars => IInv'
    BY EscrowStep
  <1> QED
    BY <1>1, EscrowInit, PTL DEF Spec

\* The contract never pays out tokens it does not hold, and neither the market nor the reserve is
\* ever overdrawn.
THEOREM EscrowTypeCorrect == Spec => []TypeOK
  <1>1. IInv => TypeOK
    BY DEF IInv
  <1> QED
    BY <1>1, EscrowInvariance, PTL

\* The balances of a currency are backed by the tokens in custody and what settlement posted:
\* whatever the kinds of the tokens, no call credits more than arrives.
THEOREM Custody == Spec => []CustodyBacksBalances
  <1>1. IInv => CustodyBacksBalances
    BY DEF IInv
  <1> QED
    BY <1>1, EscrowInvariance, PTL

\* Nobody falls into debt, or deeper, in a call in which settlement posts no loss.
THEOREM Debts == Spec => DebtOnlyFromSettlement
  <1>1. IInv /\ [Next]_vars => [DebtStep]_vars
    BY EscrowStep
  <1> QED
    BY <1>1, EscrowInvariance, PTL DEF Spec, DebtOnlyFromSettlement
=============================================================================
