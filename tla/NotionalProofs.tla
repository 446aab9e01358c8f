---------------------------- MODULE NotionalProofs ----------------------------
(****************************************************************************)
(* Theorems about the system, for finitely many accounts, any currencies,   *)
(* amounts and bounds: what is accounted for, and, in the second half, what *)
(* the free collateral check values.                                        *)
(*                                                                          *)
(* What the properties say of the state is said of a world, of the tokens   *)
(* that back it and of what is on its way: within a call the pool has       *)
(* changed before the assets are posted, and settlement has removed the     *)
(* assets before it pays for them.  Accounted is that statement; it is      *)
(* shown step by step through settlement and through each call.             *)
(****************************************************************************)
EXTENDS ERC1155Trade, OperatorProofs

(****************************************************************************)
(* The constants.                                                           *)
(****************************************************************************)

\* The accounts, the holders and the maturities are finitely many.
LEMMA ConstantFacts ==
  /\ IsFiniteSet(Accounts) /\ IsFiniteSet(Holders) /\ IsFiniteSet(Maturities)
  /\ Accounts \subseteq Holders /\ MarketAccount \in Holders /\ Reserve \in Holders
  /\ MarketAccount # Reserve /\ MarketAccount \notin Accounts /\ Reserve \notin Accounts
  /\ Maturities \subseteq Nat /\ Local \in Currencies /\ Ether \in Currencies
  <1>1. IsFiniteSet({MarketAccount, Reserve})
    <2>1. IsFiniteSet({MarketAccount})
      BY FS_Singleton
    <2>2. {MarketAccount, Reserve} = {MarketAccount} \cup {Reserve}
      OBVIOUS
    <2> QED
      BY <2>1, <2>2, FS_AddElement
  <1>2. IsFiniteSet(Holders)
    BY <1>1, AccountsAssumption, FS_Union DEF Holders
  <1>3. IsFiniteSet(Maturities) /\ Maturities \subseteq Nat
    <2> DEFINE last == MaxTime + MaturityLength * NumMaturities
    <2>1. last \in Nat
      BY MaxTimeAssumption, GroupAssumption, ProductNat
    <2>2. IsFiniteSet(1 .. last)
      BY <2>1, FS_Interval
    <2>3. Maturities \subseteq 1 .. last
      BY DEF Maturities
    <2> HIDE DEF last
    <2>4. 1 .. last \subseteq Nat
      BY <2>1
    <2> QED
      BY <2>2, <2>3, <2>4, FS_Subset
  <1> QED
    BY <1>2, <1>3, AccountsAssumption, HoldersAssumption, CurrenciesAssumption DEF Holders

(****************************************************************************)
(* Books.                                                                   *)
(****************************************************************************)
Book == [Holders -> Int]

\* A credit changes one balance, and the total by as much.
Credited(book, h, n, after) ==
  /\ after \in Book
  /\ after[h] = book[h] + n
  /\ \A x \in Holders : x # h => after[x] = book[x]
  /\ \A x \in Holders : book[x] \in Int
  /\ SumOf(book, Holders) \in Int
  /\ SumOf(after, Holders) = SumOf(book, Holders) + n

LEMMA CreditFacts ==
  ASSUME NEW book \in Book, NEW h \in Holders, NEW n \in Int
  PROVE  Credited(book, h, n, Credit(book, h, n))
  <1>1. SumOf(Credit(book, h, n), Holders) = SumOf(book, Holders) + n
    BY ConstantFacts, SumAdd DEF Credit, Book
  <1>2. SumOf(book, Holders) \in Int
    BY ConstantFacts, SumType DEF Book
  <1> QED
    BY <1>1, <1>2 DEF Credited, Credit, Book

\* What a book becomes when n leaves the market for account a, or enters it if negative, with a
\* fee to the reserve.
Moves(book, a, n, fee, after) ==
  /\ after \in Book /\ SumOf(after, Holders) = SumOf(book, Holders)
  /\ after[MarketAccount] = book[MarketAccount] - n
  /\ after[a] = book[a] + n - fee
  /\ after[Reserve] = book[Reserve] + fee
  /\ \A h \in Accounts : h # a => after[h] = book[h]

\* depositIntoMarket leaves the account with nothing less than zero.
LEMMA PayingFacts ==
  ASSUME NEW book \in Book, NEW a \in Accounts, NEW n \in Int, NEW fee \in Int,
         NEW after \in DepositIntoMarket(book, MarketAccount, a, n, fee)
  PROVE  Moves(book, a, -n, fee, after) /\ after[a] >= 0
  <1> DEFINE b1 == Credit(book, Reserve, fee)
             b2 == Credit(b1, MarketAccount, n)
             out == -(n + fee)
             b3 == Credit(b2, a, out)
  <1>1. /\ a \in Holders /\ MarketAccount \in Holders /\ Reserve \in Holders
        /\ a # MarketAccount /\ a # Reserve /\ MarketAccount # Reserve
        /\ \A h \in Accounts : h \in Holders /\ h # MarketAccount /\ h # Reserve
    BY ConstantFacts
  <1>2. after = b3 /\ b2[a] - (n + fee) >= 0
    BY DEF DepositIntoMarket, DebitNoNeg
  <1>3. /\ b1 \in Book /\ b1[Reserve] = book[Reserve] + fee
        /\ \A x \in Holders : x # Reserve => b1[x] = book[x]
        /\ \A x \in Holders : book[x] \in Int
        /\ SumOf(book, Holders) \in Int
        /\ SumOf(b1, Holders) = SumOf(book, Holders) + fee
    <2>1. Credited(book, Reserve, fee, b1)
      BY <1>1, CreditFacts
    <2> QED
      BY <2>1 DEF Credited
  <1> HIDE DEF b1
  <1>4. /\ b2 \in Book /\ b2[MarketAccount] = b1[MarketAccount] + n
        /\ \A x \in Holders : x # MarketAccount => b2[x] = b1[x]
        /\ SumOf(b2, Holders) = SumOf(b1, Holders) + n
    <2>1. Credited(b1, MarketAccount, n, b2)
      BY <1>1, <1>3, CreditFacts
    <2> QED
      BY <2>1 DEF Credited
  <1> HIDE DEF b2
  <1>5. /\ b3 \in Book /\ b3[a] = b2[a] + out
        /\ \A x \in Holders : x # a => b3[x] = b2[x]
        /\ SumOf(b3, Holders) = SumOf(b2, Holders) + out
    <2>1. out \in Int
      OBVIOUS
    <2> HIDE DEF out
    <2>2. Credited(b2, a, out, b3)
      BY <1>1, <1>4, <2>1, CreditFacts
    <2> QED
      BY <2>2 DEF Credited
  <1> HIDE DEF b3
  <1>6. SumOf(b3, Holders) = SumOf(book, Holders)
    BY <1>3, <1>4, <1>5
  <1>7. b3[MarketAccount] = book[MarketAccount] - (-n)
    BY <1>1, <1>3, <1>4, <1>5
  <1>8. b3[a] = book[a] + (-n) - fee /\ b3[a] >= 0
    BY <1>1, <1>2, <1>3, <1>4, <1>5
  <1>9. \A h \in Accounts : h # a => b3[h] = book[h]
    BY <1>1, <1>3, <1>4, <1>5
  <1>10. b3[Reserve] = book[Reserve] + fee
    BY <1>1, <1>3, <1>4, <1>5
  <1> QED
    BY <1>2, <1>5, <1>6, <1>7, <1>8, <1>9, <1>10 DEF Moves

\* withdrawFromMarket.
LEMMA ReceivingFacts ==
  ASSUME NEW book \in Book, NEW a \in Accounts, NEW n \in Int, NEW fee \in Int,
         NEW after \in WithdrawFromMarket(book, MarketAccount, a, n, fee)
  PROVE  Moves(book, a, n, fee, after)
  <1> DEFINE b1 == Credit(book, Reserve, fee)
             b2 == Credit(b1, a, n - fee)
             out == -n
             b3 == Credit(b2, MarketAccount, out)
  <1>1. /\ a \in Holders /\ MarketAccount \in Holders /\ Reserve \in Holders
        /\ a # MarketAccount /\ a # Reserve /\ MarketAccount # Reserve
        /\ \A h \in Accounts : h \in Holders /\ h # MarketAccount /\ h # Reserve
    BY ConstantFacts
  <1>2. after = b3
    BY DEF WithdrawFromMarket, DebitNoNeg
  <1>3. /\ b1 \in Book /\ b1[Reserve] = book[Reserve] + fee
        /\ \A x \in Holders : x # Reserve => b1[x] = book[x]
        /\ \A x \in Holders : book[x] \in Int
        /\ SumOf(book, Holders) \in Int
        /\ SumOf(b1, Holders) = SumOf(book, Holders) + fee
    <2>1. Credited(book, Reserve, fee, b1)
      BY <1>1, CreditFacts
    <2> QED
      BY <2>1 DEF Credited
  <1> HIDE DEF b1
  <1>4. /\ b2 \in Book /\ b2[a] = b1[a] + (n - fee)
        /\ \A x \in Holders : x # a => b2[x] = b1[x]
        /\ SumOf(b2, Holders) = SumOf(b1, Holders) + (n - fee)
    <2>1. n - fee \in Int
      OBVIOUS
    <2>2. Credited(b1, a, n - fee, b2)
      BY <1>1, <1>3, <2>1, CreditFacts
    <2> QED
      BY <2>2 DEF Credited
  <1> HIDE DEF b2
  <1>5. /\ b3 \in Book /\ b3[MarketAccount] = b2[MarketAccount] + out
        /\ \A x \in Holders : x # MarketAccount => b3[x] = b2[x]
        /\ SumOf(b3, Holders) = SumOf(b2, Holders) + out
    <2>1. out \in Int
      OBVIOUS
    <2>2. MarketAccount \in Holders /\ b2 \in Book
      BY <1>1, <1>4
    <2> HIDE DEF out
    <2>3. Credited(b2, MarketAccount, out, b3)
      BY <2>1, <2>2, CreditFacts
    <2> QED
      BY <2>3 DEF Credited
  <1> HIDE DEF b3
  <1>6. SumOf(b3, Holders) = SumOf(book, Holders)
    BY <1>3, <1>4, <1>5
  <1>7. b3[MarketAccount] = book[MarketAccount] - n
    BY <1>1, <1>3, <1>4, <1>5
  <1>8. b3[a] = book[a] + n - fee
    BY <1>1, <1>3, <1>4, <1>5
  <1>9. \A h \in Accounts : h # a => b3[h] = book[h]
    BY <1>1, <1>3, <1>4, <1>5
  <1>10. b3[Reserve] = book[Reserve] + fee
    BY <1>1, <1>3, <1>4, <1>5
  <1> QED
    BY <1>2, <1>5, <1>6, <1>7, <1>8, <1>9, <1>10 DEF Moves

(****************************************************************************)
(* Worlds, and what a step of a call makes of one.                          *)
(****************************************************************************)
Portfolio == Seq(Entries({CashGroup}, Maturities))

Worlds == [assets : [Accounts -> Portfolio], markets : [Instruments -> Market],
           cash : [Currencies -> Book]]

Key(m) == <<CashGroup, m>>

\* v is w with q as the portfolio of a.
EditsAssets(w, v, a, q) ==
  /\ v \in Worlds /\ v.markets = w.markets /\ v.cash = w.cash
  /\ v.assets[a] = q /\ \A b \in Accounts : b # a => v.assets[b] = w.assets[b]

\* v is w with mk as the pool of m and book as the local book.
EditsMarket(w, v, m, mk, book) ==
  /\ v \in Worlds /\ v.assets = w.assets
  /\ v.markets[Key(m)] = mk
  /\ \A n \in Maturities : n # m => v.markets[Key(n)] = w.markets[Key(n)]
  /\ v.cash[Local] = book /\ \A d \in Currencies : d # Local => v.cash[d] = w.cash[d]

\* v is w with book as the book of currency c.
EditsBook(w, v, c, book) ==
  /\ v \in Worlds /\ v.assets = w.assets /\ v.markets = w.markets
  /\ v.cash[c] = book /\ \A d \in Currencies : d # c => v.cash[d] = w.cash[d]

WithAssets(w, a, q) == [w EXCEPT !.assets[a] = q]
WithBook(w, c, book) == [w EXCEPT !.cash[c] = book]
WithMarket(w, k, mk, book) == [w EXCEPT !.markets[k] = mk, !.cash[Local] = book]

\* The parts of a world.
LEMMA WorldParts ==
  ASSUME NEW w \in Worlds
  PROVE  /\ w.assets \in [Accounts -> Portfolio] /\ w.markets \in [Instruments -> Market]
         /\ w.cash \in [Currencies -> Book]
         /\ \A a \in Accounts : w.assets[a] \in Portfolio
         /\ \A m \in Maturities : Key(m) \in Instruments /\ w.markets[Key(m)] \in Market
         /\ \A c \in Currencies : w.cash[c] \in Book
  <1>1. /\ w.assets \in [Accounts -> Portfolio] /\ w.markets \in [Instruments -> Market]
        /\ w.cash \in [Currencies -> Book]
    BY DEF Worlds
  <1>2. \A m \in Maturities : Key(m) \in Instruments
    BY DEF Key, Instruments
  <1> QED
    BY <1>1, <1>2

\* A function at the points that an assignment changes, and at the others.
LEMMA AssignFacts ==
  ASSUME NEW D, NEW R, NEW f \in [D -> R], NEW x \in D, NEW y, NEW g, g = [f EXCEPT ![x] = y]
  PROVE  g[x] = y /\ \A z \in D : z # x => g[z] = f[z]
  OBVIOUS

\* The updates that calls make are such edits.
LEMMA EditFacts ==
  ASSUME NEW w \in Worlds
  PROVE  /\ \A a \in Accounts, q \in Portfolio : EditsAssets(w, WithAssets(w, a, q), a, q)
         /\ \A m \in Maturities, mk \in Market, book \in Book :
              EditsMarket(w, WithMarket(w, Key(m), mk, book), m, mk, book)
         /\ \A c \in Currencies, book \in Book : EditsBook(w, WithBook(w, c, book), c, book)
  <1>1. ASSUME NEW a \in Accounts, NEW q \in Portfolio
        PROVE  EditsAssets(w, WithAssets(w, a, q), a, q)
    <2> DEFINE v == WithAssets(w, a, q)
    <2>1. /\ v \in Worlds /\ v.assets = [w.assets EXCEPT ![a] = q]
          /\ v.markets = w.markets /\ v.cash = w.cash
      BY DEF Worlds, WithAssets
    <2> HIDE DEF v
    <2>2. v.assets[a] = q /\ \A b \in Accounts : b # a => v.assets[b] = w.assets[b]
      BY <2>1, WorldParts, AssignFacts
    <2> QED
      BY <2>1, <2>2 DEF EditsAssets, v
  <1>2. ASSUME NEW m \in Maturities, NEW mk \in Market, NEW book \in Book
        PROVE  EditsMarket(w, WithMarket(w, Key(m), mk, book), m, mk, book)
    <2> DEFINE v == WithMarket(w, Key(m), mk, book)
    <2>1. Key(m) \in Instruments /\ Local \in Currencies
      BY WorldParts, ConstantFacts
    <2>2. /\ v \in Worlds /\ v.markets = [w.markets EXCEPT ![Key(m)] = mk]
          /\ v.assets = w.assets /\ v.cash = [w.cash EXCEPT ![Local] = book]
      BY <2>1 DEF Worlds, WithMarket
    <2> HIDE DEF v
    <2>3. \A n \in Maturities : Key(n) \in Instruments /\ (Key(n) = Key(m) => n = m)
      BY WorldParts DEF Key
    <2>4. v.markets[Key(m)] = mk /\ \A k \in Instruments : k # Key(m) => v.markets[k] = w.markets[k]
      BY <2>1, <2>2, WorldParts, AssignFacts
    <2>5. v.cash[Local] = book /\ \A d \in Currencies : d # Local => v.cash[d] = w.cash[d]
      BY <2>1, <2>2, WorldParts, AssignFacts
    <2> QED
      BY <2>2, <2>3, <2>4, <2>5 DEF EditsMarket, v
  <1>3. ASSUME NEW c \in Currencies, NEW book \in Book
        PROVE  EditsBook(w, WithBook(w, c, book), c, book)
    <2> DEFINE v == WithBook(w, c, book)
    <2>1. /\ v \in Worlds /\ v.cash = [w.cash EXCEPT ![c] = book]
          /\ v.assets = w.assets /\ v.markets = w.markets
      BY DEF Worlds, WithBook
    <2> HIDE DEF v
    <2>2. v.cash[c] = book /\ \A d \in Currencies : d # c => v.cash[d] = w.cash[d]
      BY <2>1, WorldParts, AssignFacts
    <2> QED
      BY <2>1, <2>2 DEF EditsBook, v
  <1> QED
    BY <1>1, <1>2, <1>3

(****************************************************************************)
(* What the portfolios hold.                                                *)
(****************************************************************************)
\* A total is the sum over the domain.
LEMMA TotalSum ==
  ASSUME NEW D, NEW R, NEW f \in [D -> R]
  PROVE  Total(f) = SumOf(f, D)
  BY DEF Total, SumOf

Row(assets, types, k) == [a \in Accounts |-> Position(assets[a], types, k)]

\* It is a sum of integers over the accounts.
LEMMA HeldFacts ==
  ASSUME NEW w \in Worlds, NEW types, NEW k
  PROVE  /\ Row(w.assets, types, k) \in [Accounts -> Int]
         /\ \A a \in Accounts : Position(w.assets[a], types, k) \in Int
         /\ HeldBy(w.assets, types, k) = SumOf(Row(w.assets, types, k), Accounts)
         /\ HeldBy(w.assets, types, k) \in Int
  <1>1. \A a \in Accounts : Position(w.assets[a], types, k) \in Int
    BY WorldParts, PositionFacts DEF Portfolio
  <1>2. Row(w.assets, types, k) \in [Accounts -> Int]
    BY <1>1 DEF Row
  <1>3. HeldBy(w.assets, types, k) = SumOf(Row(w.assets, types, k), Accounts)
    BY <1>2, TotalSum DEF HeldBy, Row
  <1> QED
    BY <1>1, <1>2, <1>3, ConstantFacts, SumType

\* It changes by what one portfolio changes by.
LEMMA HeldEdit ==
  ASSUME NEW w \in Worlds, NEW a \in Accounts, NEW q \in Portfolio, NEW v,
         EditsAssets(w, v, a, q), NEW types, NEW k
  PROVE  /\ Position(q, types, k) \in Int /\ Position(w.assets[a], types, k) \in Int
         /\ HeldBy(w.assets, types, k) \in Int
         /\ HeldBy(v.assets, types, k)
              = HeldBy(w.assets, types, k) + (Position(q, types, k) - Position(w.assets[a], types, k))
  <1> DEFINE f == Row(w.assets, types, k)
             new == Position(q, types, k)
             n == new - Position(w.assets[a], types, k)
             g == Row(v.assets, types, k)
             e == [f EXCEPT ![a] = @ + n]
  <1>1. /\ f \in [Accounts -> Int] /\ \A b \in Accounts : f[b] = Position(w.assets[b], types, k)
        /\ HeldBy(w.assets, types, k) = SumOf(f, Accounts)
        /\ HeldBy(w.assets, types, k) \in Int
    BY HeldFacts DEF Row
  <1>2. new \in Int
    BY PositionFacts DEF Portfolio
  <1>3. v \in Worlds /\ v.assets[a] = q /\ \A b \in Accounts : b # a => v.assets[b] = w.assets[b]
    BY DEF EditsAssets
  <1>4. /\ g \in [Accounts -> Int] /\ \A b \in Accounts : g[b] = Position(v.assets[b], types, k)
        /\ HeldBy(v.assets, types, k) = SumOf(g, Accounts)
    BY <1>3, HeldFacts DEF Row
  <1>5. n \in Int
    BY <1>1, <1>2
  <1> HIDE DEF f, g
  <1>6. g[a] = f[a] + n /\ \A b \in Accounts : b # a => g[b] = f[b]
    BY <1>1, <1>2, <1>3, <1>4
  <1> HIDE DEF n
  <1>7. g = e
    BY <1>1, <1>4, <1>5, <1>6
  <1>8. SumOf(e, Accounts) = SumOf(f, Accounts) + n
    BY <1>1, <1>5, ConstantFacts, SumAdd
  <1> QED
    BY <1>1, <1>2, <1>4, <1>7, <1>8 DEF n

(****************************************************************************)
(* What holds of a world w at time t that the tokens B back, when the       *)
(* entries that the tables dT and dF count are still to be paid for.        *)
(****************************************************************************)
Tables == [Maturities -> Int]

CashTable(w) == [m \in Maturities |-> w.markets[Key(m)].totalCurrentCash]

NetOf(w, dF, m) == w.markets[Key(m)].totalfCash + HeldBy(w.assets, CashTypes, Key(m)) + dF[m]
NetTable(w, dF) == [m \in Maturities |-> NetOf(w, dF, m)]

Proper(w) ==
  /\ \A a \in Accounts : NoDuplicates(w.assets[a]) /\ Len(w.assets[a]) <= MaxAssets + 1
  /\ \A m \in Maturities : Consistent(w.markets[Key(m)])
  /\ \A c \in Currencies : w.cash[c][Reserve] >= 0

SupplyMatches(w, dT) ==
  \A m \in Maturities :
    HeldBy(w.assets, TokenTypes, Key(m)) + dT[m] = w.markets[Key(m)].totalLiquidity

CashMatches(w) == w.cash[Local][MarketAccount] = SumOf(CashTable(w), Maturities)

NetsOut(w, t, dF) == \A m \in Maturities : t < m => NetOf(w, dF, m) = 0

Backing(w, dF, c) ==
  SumOf(w.cash[c], Holders) + IF c = Local THEN SumOf(NetTable(w, dF), Maturities) ELSE 0

Backed(w, B, dF) == \A c \in Currencies : B[c] = Backing(w, dF, c)

Accounted(w, t, B, dT, dF) ==
  /\ w \in Worlds /\ Proper(w) /\ SupplyMatches(w, dT) /\ CashMatches(w)
  /\ NetsOut(w, t, dF) /\ Backed(w, B, dF)

\* The tables and sums are of integers.
LEMMA TableFacts ==
  ASSUME NEW w \in Worlds, NEW dF \in Tables
  PROVE  /\ CashTable(w) \in Tables /\ NetTable(w, dF) \in Tables
         /\ SumOf(CashTable(w), Maturities) \in Int
         /\ SumOf(NetTable(w, dF), Maturities) \in Int
         /\ \A c \in Currencies : SumOf(w.cash[c], Holders) \in Int
  <1>1. \A m \in Maturities : /\ w.markets[Key(m)].totalfCash \in Int
                              /\ w.markets[Key(m)].totalCurrentCash \in Int
                              /\ dF[m] \in Int
    BY WorldParts DEF Market, Tables
  <1>2. CashTable(w) \in Tables /\ NetTable(w, dF) \in Tables
    <2>1. \A m \in Maturities : NetOf(w, dF, m) \in Int
      <3>1. \A m \in Maturities : HeldBy(w.assets, CashTypes, Key(m)) \in Int
        BY HeldFacts
      <3> QED
        BY <1>1, <3>1 DEF NetOf
    <2> QED
      BY <1>1, <2>1 DEF CashTable, NetTable, Tables
  <1>3. \A c \in Currencies : w.cash[c] \in [Holders -> Int]
    BY WorldParts DEF Book
  <1> HIDE DEF CashTable, NetTable
  <1>4. /\ SumOf(CashTable(w), Maturities) \in Int
        /\ SumOf(NetTable(w, dF), Maturities) \in Int
    BY <1>2, ConstantFacts, SumType DEF Tables
  <1> QED
    BY <1>2, <1>3, <1>4, ConstantFacts, SumType

\* The account of a table when one of its numbers changes.
LEMMA TableStep ==
  ASSUME NEW f \in Tables, NEW g \in Tables, NEW m \in Maturities, NEW n \in Int,
         g[m] = f[m] + n, \A k \in Maturities : k # m => g[k] = f[k]
  PROVE  SumOf(g, Maturities) = SumOf(f, Maturities) + n
  <1> DEFINE e == [f EXCEPT ![m] = @ + n]
  <1>1. g = e
    BY DEF Tables
  <1>2. SumOf(e, Maturities) = SumOf(f, Maturities) + n
    BY ConstantFacts, SumAdd DEF Tables
  <1> QED
    BY <1>1, <1>2

\* A portfolio changes, and what is on its way by as much.
Offsets(p, q, types, d, e) ==
  \A m \in Maturities : Position(q, types, Key(m)) + e[m] = Position(p, types, Key(m)) + d[m]

\* A change of one portfolio moves the account of the world by what it adds.
LEMMA AssetsStep ==
  ASSUME NEW w, NEW t, NEW B, NEW dT \in Tables, NEW dF \in Tables, Accounted(w, t, B, dT, dF),
         NEW v, NEW a \in Accounts, NEW q \in Portfolio, EditsAssets(w, v, a, q), NoDuplicates(q),
         Len(q) <= MaxAssets + 1, NEW eT \in Tables, NEW eF \in Tables,
         Offsets(w.assets[a], q, TokenTypes, dT, eT), Offsets(w.assets[a], q, CashTypes, dF, eF)
  PROVE  Accounted(v, t, B, eT, eF)
  <1>1. /\ w \in Worlds /\ Proper(w) /\ SupplyMatches(w, dT) /\ CashMatches(w)
        /\ NetsOut(w, t, dF) /\ Backed(w, B, dF)
    BY DEF Accounted
  <1>2. /\ v \in Worlds /\ v.markets = w.markets /\ v.cash = w.cash
        /\ v.assets[a] = q /\ \A b \in Accounts : b # a => v.assets[b] = w.assets[b]
    BY DEF EditsAssets
  <1>3. Proper(v)
    BY <1>1, <1>2 DEF Proper
  <1>4. SupplyMatches(v, eT)
    <2> SUFFICES ASSUME NEW m \in Maturities
                 PROVE  HeldBy(v.assets, TokenTypes, Key(m)) + eT[m]
                          = v.markets[Key(m)].totalLiquidity
      BY DEF SupplyMatches
    <2> DEFINE x == Position(w.assets[a], TokenTypes, Key(m))
               y == Position(q, TokenTypes, Key(m))
               h == HeldBy(w.assets, TokenTypes, Key(m))
    <2>1. x \in Int /\ y \in Int /\ h \in Int /\ HeldBy(v.assets, TokenTypes, Key(m)) = h + (y - x)
      BY <1>1, HeldEdit
    <2>2. eT[m] \in Int /\ dT[m] \in Int /\ y + eT[m] = x + dT[m]
      BY DEF Tables, Offsets
    <2>3. h + dT[m] = w.markets[Key(m)].totalLiquidity
      BY <1>1 DEF SupplyMatches
    <2> HIDE DEF x, y, h
    <2>4. (h + (y - x)) + eT[m] = h + dT[m]
      <3> DEFINE e == eT[m]
                 d == dT[m]
      <3>1. e \in Int /\ d \in Int /\ y + e = x + d
        BY <2>2
      <3> HIDE DEF e, d
      <3>2. (h + (y - x)) + e = h + d
        BY <2>1, <3>1
      <3> QED
        BY <3>2 DEF e, d
    <2>5. v.markets[Key(m)].totalLiquidity = h + dT[m]
      BY <1>2, <2>3
    <2>6. HeldBy(v.assets, TokenTypes, Key(m)) = h + (y - x)
      BY <2>1
    <2> QED
      BY <2>4, <2>5, <2>6
  <1>5. CashMatches(v)
    BY <1>1, <1>2 DEF CashMatches, CashTable
  <1>6. \A m \in Maturities : NetOf(v, eF, m) = NetOf(w, dF, m)
    <2> SUFFICES ASSUME NEW m \in Maturities
                 PROVE  NetOf(v, eF, m) = NetOf(w, dF, m)
      OBVIOUS
    <2> DEFINE x == Position(w.assets[a], CashTypes, Key(m))
               y == Position(q, CashTypes, Key(m))
               h == HeldBy(w.assets, CashTypes, Key(m))
               f == w.markets[Key(m)].totalfCash
    <2>1. x \in Int /\ y \in Int /\ h \in Int /\ HeldBy(v.assets, CashTypes, Key(m)) = h + (y - x)
      BY <1>1, HeldEdit
    <2>2. eF[m] \in Int /\ dF[m] \in Int /\ y + eF[m] = x + dF[m]
      BY DEF Tables, Offsets
    <2>3. f \in Int
      BY <1>1, WorldParts DEF Market
    <2>4. NetOf(w, dF, m) = f + h + dF[m] /\ NetOf(v, eF, m) = f + (h + (y - x)) + eF[m]
      BY <1>2, <2>1 DEF NetOf
    <2> HIDE DEF x, y, h, f
    <2>5. f + (h + (y - x)) + eF[m] = f + h + dF[m]
      BY <2>1, <2>2, <2>3
    <2> QED
      BY <2>4, <2>5
  <1>7. NetsOut(v, t, eF)
    BY <1>1, <1>6 DEF NetsOut
  <1>8. Backed(v, B, eF)
    <2>1. NetTable(v, eF) = NetTable(w, dF)
      BY <1>6 DEF NetTable
    <2>2. \A c \in Currencies : Backing(v, eF, c) = Backing(w, dF, c)
      BY <1>2, <2>1 DEF Backing
    <2> QED
      BY <1>1, <2>2 DEF Backed
  <1> QED
    BY <1>2, <1>3, <1>4, <1>5, <1>7, <1>8 DEF Accounted

\* A pool changes and cash moves: the market's cash by as much as the pool's, the tokens on their
\* way by as much as the supply, and the fCash on its way makes up for what the accounts gain.
PoolMoves(w, t, m, mk, book, dT, dF, eT, eF, n) ==
  /\ book[MarketAccount] - w.cash[Local][MarketAccount]
       = mk.totalCurrentCash - w.markets[Key(m)].totalCurrentCash
  /\ eT[m] - dT[m] = mk.totalLiquidity - w.markets[Key(m)].totalLiquidity
  /\ (mk.totalfCash + eF[m]) - (w.markets[Key(m)].totalfCash + dF[m]) = n
  /\ SumOf(book, Holders) = SumOf(w.cash[Local], Holders) - n
  /\ t < m => n = 0
  /\ book[Reserve] >= 0
  /\ \A k \in Maturities : k # m => eT[k] = dT[k] /\ eF[k] = dF[k]

\* So does a change of one pool, with the market's cash.
LEMMA MarketStep ==
  ASSUME NEW w, NEW t, NEW B, NEW dT \in Tables, NEW dF \in Tables, Accounted(w, t, B, dT, dF),
         NEW v, NEW m \in Maturities, NEW mk \in Market, NEW book \in Book,
         EditsMarket(w, v, m, mk, book), Consistent(mk),
         NEW eT \in Tables, NEW eF \in Tables, NEW n \in Int,
         PoolMoves(w, t, m, mk, book, dT, dF, eT, eF, n)
  PROVE  Accounted(v, t, B, eT, eF)
  <1> DEFINE old == w.markets[Key(m)]
  <1>0. /\ book[MarketAccount] - w.cash[Local][MarketAccount]
             = mk.totalCurrentCash - old.totalCurrentCash
        /\ eT[m] - dT[m] = mk.totalLiquidity - old.totalLiquidity
        /\ (mk.totalfCash + eF[m]) - (old.totalfCash + dF[m]) = n
        /\ SumOf(book, Holders) = SumOf(w.cash[Local], Holders) - n
        /\ t < m => n = 0
        /\ book[Reserve] >= 0
        /\ \A k \in Maturities : k # m => eT[k] = dT[k] /\ eF[k] = dF[k]
    BY DEF PoolMoves
  <1>1. /\ w \in Worlds /\ Proper(w) /\ SupplyMatches(w, dT) /\ CashMatches(w)
        /\ NetsOut(w, t, dF) /\ Backed(w, B, dF)
    BY DEF Accounted
  <1>2. /\ v \in Worlds /\ v.assets = w.assets
        /\ v.markets[Key(m)] = mk
        /\ \A k \in Maturities : k # m => v.markets[Key(k)] = w.markets[Key(k)]
        /\ v.cash[Local] = book /\ \A d \in Currencies : d # Local => v.cash[d] = w.cash[d]
    BY DEF EditsMarket
  <1>3. Proper(v)
    BY <1>0, <1>1, <1>2 DEF Proper
  <1>4. /\ old \in Market /\ old.totalfCash \in Int /\ old.totalCurrentCash \in Int
        /\ old.totalLiquidity \in Int /\ mk.totalfCash \in Int /\ mk.totalCurrentCash \in Int
        /\ mk.totalLiquidity \in Int
    BY <1>1, WorldParts DEF Market
  <1>5. dT[m] \in Int /\ dF[m] \in Int /\ eT[m] \in Int /\ eF[m] \in Int
    BY DEF Tables
  <1>6. SupplyMatches(v, eT)
    <2> SUFFICES ASSUME NEW k \in Maturities
                 PROVE  HeldBy(v.assets, TokenTypes, Key(k)) + eT[k]
                          = v.markets[Key(k)].totalLiquidity
      BY DEF SupplyMatches
    <2>1. HeldBy(w.assets, TokenTypes, Key(k)) + dT[k] = w.markets[Key(k)].totalLiquidity
      BY <1>1 DEF SupplyMatches
    <2>2. HeldBy(w.assets, TokenTypes, Key(k)) \in Int
      BY <1>1, HeldFacts
    <2>3. CASE k = m
      <3> DEFINE h == HeldBy(w.assets, TokenTypes, Key(m))
                 x == old.totalLiquidity
                 y == mk.totalLiquidity
                 d == dT[m]
                 e == eT[m]
      <3>1. h \in Int /\ h + d = x
        BY <2>1, <2>2, <2>3
      <3>2. x \in Int /\ y \in Int /\ d \in Int /\ e \in Int /\ e - d = y - x
        BY <1>0, <1>4, <1>5
      <3> HIDE DEF h, x, y, d, e
      <3>3. h + e = y
        BY <3>1, <3>2
      <3> QED
        BY <1>2, <2>3, <3>3 DEF h, y, e
    <2>4. CASE k # m
      BY <1>0, <1>2, <2>1, <2>4
    <2> QED
      BY <2>3, <2>4
  <1>7. CashMatches(v)
    <2> DEFINE f == CashTable(w)
               g == CashTable(v)
               d == mk.totalCurrentCash - old.totalCurrentCash
    <2>1. f \in Tables /\ g \in Tables /\ d \in Int /\ SumOf(f, Maturities) \in Int
      BY <1>1, <1>2, <1>4, TableFacts
    <2>2. g[m] = f[m] + d /\ \A k \in Maturities : k # m => g[k] = f[k]
      BY <1>2, <1>4 DEF CashTable
    <2> HIDE DEF f, g
    <2>3. SumOf(g, Maturities) = SumOf(f, Maturities) + d
      <3> HIDE DEF d
      <3> QED
        BY <2>1, <2>2, TableStep
    <2>4. w.cash[Local][MarketAccount] = SumOf(f, Maturities)
      BY <1>1 DEF CashMatches, f
    <2>5. book[MarketAccount] \in Int
      BY ConstantFacts DEF Book
    <2>6. book[MarketAccount] = SumOf(g, Maturities)
      BY <1>0, <2>1, <2>3, <2>4, <2>5
    <2> QED
      BY <1>2, <2>6 DEF CashMatches, g
  <1>8. NetOf(v, eF, m) = NetOf(w, dF, m) + n /\ \A k \in Maturities : k # m => NetOf(v, eF, k) = NetOf(w, dF, k)
    <2>1. HeldBy(w.assets, CashTypes, Key(m)) \in Int
      BY <1>1, HeldFacts
    <2>2. NetOf(v, eF, m) = NetOf(w, dF, m) + n
      BY <1>0, <1>2, <1>4, <1>5, <2>1 DEF NetOf
    <2> QED
      BY <1>0, <1>2, <2>2 DEF NetOf
  <1>9. NetsOut(v, t, eF)
    <2>1. \A k \in Maturities : t < k => NetOf(w, dF, k) = 0
      BY <1>1 DEF NetsOut
    <2>2. t < m => NetOf(v, eF, m) = 0
      BY <1>0, <1>8, <2>1
    <2> QED
      BY <1>8, <2>1, <2>2 DEF NetsOut
  <1>10. Backed(v, B, eF)
    <2> DEFINE f == NetTable(w, dF)
               g == NetTable(v, eF)
    <2>1. f \in Tables /\ g \in Tables /\ SumOf(f, Maturities) \in Int
      BY <1>1, <1>2, TableFacts
    <2>2. g[m] = f[m] + n /\ \A k \in Maturities : k # m => g[k] = f[k]
      BY <1>8 DEF NetTable
    <2> HIDE DEF f, g
    <2>3. SumOf(g, Maturities) = SumOf(f, Maturities) + n
      BY <2>1, <2>2, TableStep
    <2>4. SumOf(w.cash[Local], Holders) \in Int
      BY <1>1, TableFacts, ConstantFacts
    <2>5. Backing(v, eF, Local) = Backing(w, dF, Local)
      BY <1>0, <1>2, <2>1, <2>3, <2>4 DEF Backing, f, g
    <2>6. \A c \in Currencies : c # Local => Backing(v, eF, c) = Backing(w, dF, c)
      BY <1>2 DEF Backing
    <2> QED
      BY <1>1, <2>5, <2>6 DEF Backed
  <1> QED
    BY <1>2, <1>3, <1>6, <1>7, <1>9, <1>10 DEF Accounted

\* Cash enters or leaves the balances with the tokens that back it; the market keeps its own.
LEMMA BookStep ==
  ASSUME NEW w, NEW t, NEW B, NEW dT \in Tables, NEW dF \in Tables, Accounted(w, t, B, dT, dF),
         NEW v, NEW c \in Currencies, NEW book \in Book, EditsBook(w, v, c, book),
         book[MarketAccount] = w.cash[c][MarketAccount], book[Reserve] >= 0, NEW E,
         \A d \in Currencies : d # c => E[d] = B[d],
         E[c] = B[c] + (SumOf(book, Holders) - SumOf(w.cash[c], Holders))
  PROVE  Accounted(v, t, E, dT, dF)
  <1>1. /\ w \in Worlds /\ Proper(w) /\ SupplyMatches(w, dT) /\ CashMatches(w)
        /\ NetsOut(w, t, dF) /\ Backed(w, B, dF)
    BY DEF Accounted
  <1>2. /\ v \in Worlds /\ v.assets = w.assets /\ v.markets = w.markets
        /\ v.cash[c] = book /\ \A d \in Currencies : d # c => v.cash[d] = w.cash[d]
    BY DEF EditsBook
  <1>3. Proper(v) /\ SupplyMatches(v, dT)
    BY <1>1, <1>2 DEF Proper, SupplyMatches
  <1>4. CashMatches(v)
    <2>1. v.cash[Local][MarketAccount] = w.cash[Local][MarketAccount]
      BY <1>2, ConstantFacts
    <2>2. CashTable(v) = CashTable(w)
      BY <1>2 DEF CashTable
    <2> QED
      BY <1>1, <2>1, <2>2 DEF CashMatches
  <1>5. \A m \in Maturities : NetOf(v, dF, m) = NetOf(w, dF, m)
    BY <1>2 DEF NetOf
  <1>6. NetsOut(v, t, dF)
    BY <1>1, <1>5 DEF NetsOut
  <1>7. Backed(v, E, dF)
    <2>1. NetTable(v, dF) = NetTable(w, dF)
      BY <1>5 DEF NetTable
    <2>2. \A d \in Currencies : d # c => Backing(v, dF, d) = Backing(w, dF, d)
      BY <1>2, <2>1 DEF Backing
    <2>3. /\ SumOf(w.cash[c], Holders) \in Int /\ SumOf(book, Holders) \in Int
          /\ SumOf(NetTable(w, dF), Maturities) \in Int
      BY <1>1, ConstantFacts, TableFacts, SumType DEF Book
    <2>4. Backing(v, dF, c)
            = Backing(w, dF, c) + (SumOf(book, Holders) - SumOf(w.cash[c], Holders))
      BY <1>2, <2>1, <2>3 DEF Backing
    <2>5. \A d \in Currencies : B[d] = Backing(w, dF, d)
      BY <1>1 DEF Backed
    <2> QED
      BY <2>2, <2>4, <2>5 DEF Backed
  <1> QED
    BY <1>2, <1>3, <1>4, <1>6, <1>7 DEF Accounted

(****************************************************************************)
(* Settlement of one asset.                                                 *)
(****************************************************************************)
Stored == Entries({CashGroup}, Maturities)

\* What settling an entry may cost its account.
Owed(x) == IF x.assetType = CashPayer THEN x.notional ELSE 0

\* What a step of a settlement leaves alone, and what it may cost account a.
Spares(w, v, a, debt) ==
  /\ v.assets = w.assets
  /\ \A c \in Currencies : c # Local => v.cash[c] = w.cash[c]
  /\ \A b \in Accounts : b # a => v.cash[Local][b] = w.cash[Local][b]
  /\ v.cash[Local][a] >= w.cash[Local][a] - debt

\* What is on its way once entry x is paid for.
Without(d, x, types, e) == \A m \in Maturities : e[m] = d[m] - Share(x, types, Key(m))

\* A stored entry counts at its own maturity, as a token or as cash.
LEMMA StoredFacts ==
  ASSUME NEW x \in Stored
  PROVE  /\ x.maturity \in Maturities /\ <<x.cashGroupId, x.maturity>> = Key(x.maturity)
         /\ x.notional \in Nat /\ x.maturity \in Int
         /\ \A m \in Maturities : \A types : m # x.maturity => Share(x, types, Key(m)) = 0
         /\ x.assetType \in {CashPayer, CashReceiver, LiquidityToken}
         /\ IsLiquidityToken(x.assetType) <=> x.assetType = LiquidityToken
         /\ x.assetType = LiquidityToken =>
              /\ Share(x, TokenTypes, Key(x.maturity)) = x.notional
              /\ Share(x, CashTypes, Key(x.maturity)) = 0 /\ Owed(x) = 0
         /\ x.assetType # LiquidityToken =>
              /\ Share(x, TokenTypes, Key(x.maturity)) = 0
              /\ Share(x, CashTypes, Key(x.maturity)) = Signed(x)
         /\ Signed(x) \in Int /\ Signed(x) >= -Owed(x)
  <1>0. /\ x.maturity \in Maturities /\ x.cashGroupId = CashGroup /\ x.notional \in Nat
        /\ x.assetType \in {CashPayer, CashReceiver, LiquidityToken}
    BY DEF Stored, Entries, AssetTypes
  <1>1. /\ x.maturity \in Maturities /\ x.cashGroupId = CashGroup /\ x.notional \in Nat
        /\ x.assetType \in {CashPayer, CashReceiver, LiquidityToken} /\ x.maturity \in Int
    <2>1. \A m \in Maturities : m \in Int
      BY DEF Maturities
    <2> QED
      BY <1>0, <2>1
  <1>2. <<x.cashGroupId, x.maturity>> = Key(x.maturity) /\ \A m \in Maturities : Key(m) = Key(x.maturity) => m = x.maturity
    BY <1>1 DEF Key
  <1>3. \A m \in Maturities : \A types : m # x.maturity => Share(x, types, Key(m)) = 0
    BY <1>2 DEF Share
  <1>4. IsLiquidityToken(x.assetType) <=> x.assetType = LiquidityToken
    BY <1>1 DEF IsLiquidityToken, CashPayer, CashReceiver, LiquidityToken, LiquidityPayer
  <1>5. Signed(x) \in Int /\ Signed(x) >= -Owed(x)
    BY <1>1 DEF Signed, Owed, CashPayer, CashReceiver, LiquidityToken, LiquidityPayer
  <1>6. CASE x.assetType = LiquidityToken
    <2>1. /\ x.assetType \in TokenTypes /\ x.assetType \notin CashTypes
          /\ Signed(x) = x.notional /\ Owed(x) = 0
      BY <1>6 DEF TokenTypes, CashTypes, Signed, Owed, CashPayer, CashReceiver, LiquidityToken,
                  LiquidityPayer
    <2>2. Share(x, TokenTypes, Key(x.maturity)) = x.notional /\ Share(x, CashTypes, Key(x.maturity)) = 0
      BY <1>2, <2>1 DEF Share
    <2> QED
      BY <1>1, <1>2, <1>3, <1>4, <1>5, <1>6, <2>1, <2>2
  <1>7. CASE x.assetType # LiquidityToken
    <2>1. x.assetType \notin TokenTypes /\ x.assetType \in CashTypes
      BY <1>1, <1>7 DEF TokenTypes, CashTypes, CashPayer, CashReceiver, LiquidityToken, LiquidityPayer
    <2>2. Share(x, TokenTypes, Key(x.maturity)) = 0 /\ Share(x, CashTypes, Key(x.maturity)) = Signed(x)
      BY <1>2, <2>1 DEF Share
    <2> QED
      BY <1>1, <1>2, <1>3, <1>4, <1>5, <1>7, <2>2
  <1> QED
    BY <1>6, <1>7

\* A token is redeemed: its cash leaves the market and its fCash is paid out as cash.
LEMMA SettleTokenStep ==
  ASSUME NEW w, NEW t \in Int, NEW B, NEW dT \in Tables, NEW dF \in Tables,
         Accounted(w, t, B, dT, dF), NEW a \in Accounts,
         NEW x \in Stored, x.maturity <= t, x.assetType = LiquidityToken,
         NEW v \in SettleToken(w, a, x), NEW eT \in Tables, NEW eF \in Tables,
         Without(dT, x, TokenTypes, eT), Without(dF, x, CashTypes, eF)
  PROVE  Accounted(v, t, B, eT, eF) /\ Spares(w, v, a, Owed(x))
  <1> DEFINE m == x.maturity
             k == <<x.cashGroupId, x.maturity>>
             mk == w.markets[k]
             owed == fCashClaim(mk, x.notional)
             claim == CashClaim(mk, x.notional)
             new == RedeemFrom(mk, x.notional)
  <1>1. w \in Worlds /\ Proper(w)
    BY DEF Accounted
  <1>2. m \in Maturities /\ k = Key(m) /\ x.notional \in Nat
    BY StoredFacts
  <1>3. mk \in Market /\ w.cash[Local] \in Book
    BY <1>1, <1>2, WorldParts, ConstantFacts
  <1>4. CanRedeem(mk, x.notional)
    BY DEF SettleToken
  <1>5. PICK book \in WithdrawFromMarket(w.cash[Local], MarketAccount, a, claim, 0) :
          v = WithMarket(w, k, new, Credit(book, a, owed))
    BY <1>4 DEF SettleToken, WithMarket
  <1>6. new \in Market /\ Consistent(new)
    <2>1. Consistent(mk)
      BY <1>1, <1>2 DEF Proper
    <2> QED
      BY <1>2, <1>3, <1>4, <2>1, RedeemFacts
  <1>7. /\ owed \in Nat /\ claim \in Nat
        /\ new.totalfCash = mk.totalfCash - owed
        /\ new.totalCurrentCash = mk.totalCurrentCash - claim
        /\ new.totalLiquidity = mk.totalLiquidity - x.notional
        /\ mk.totalfCash \in Nat /\ mk.totalCurrentCash \in Nat /\ mk.totalLiquidity \in Nat
    <2>1. mk.totalfCash \in Nat /\ mk.totalCurrentCash \in Nat /\ mk.totalLiquidity \in Nat
      BY <1>3 DEF Market
    <2>2. owed \in Nat /\ claim \in Nat
      BY <1>2, <1>4, <2>1, ProRata DEF CanRedeem, CashClaim, fCashClaim
    <2> QED
      BY <2>1, <2>2 DEF RedeemFrom
  <1> HIDE DEF k, mk, owed, claim, new
  <1>8. Moves(w.cash[Local], a, claim, 0, book)
    <2>1. claim \in Int /\ 0 \in Int
      BY <1>7
    <2> QED
      BY <1>3, <2>1, ReceivingFacts
  <1> DEFINE paid == Credit(book, a, owed)
  <1>9. /\ a \in Holders /\ a # MarketAccount /\ MarketAccount \in Holders
        /\ Accounts \subseteq Holders
    BY ConstantFacts
  <1>10. /\ paid \in Book /\ paid[a] = book[a] + owed
         /\ \A h \in Holders : h # a => paid[h] = book[h]
         /\ SumOf(paid, Holders) = SumOf(book, Holders) + owed
    <2>1. book \in Book /\ owed \in Int
      BY <1>7, <1>8 DEF Moves
    <2>2. Credited(book, a, owed, paid)
      BY <1>9, <2>1, CreditFacts
    <2> QED
      BY <2>2 DEF Credited
  <1> HIDE DEF paid
  <1>11. EditsMarket(w, v, m, new, paid)
    <2>1. EditsMarket(w, WithMarket(w, Key(m), new, paid), m, new, paid)
      BY <1>1, <1>2, <1>6, <1>10, EditFacts
    <2> QED
      BY <1>2, <1>5, <2>1 DEF paid
  <1>12. /\ SumOf(book, Holders) = SumOf(w.cash[Local], Holders)
         /\ book[MarketAccount] = w.cash[Local][MarketAccount] - claim
         /\ book[a] = w.cash[Local][a] + claim - 0
         /\ book[Reserve] = w.cash[Local][Reserve] + 0
         /\ \A h \in Accounts : h # a => book[h] = w.cash[Local][h]
    BY <1>8 DEF Moves
  <1>13. /\ w.cash[Local][MarketAccount] \in Int /\ w.cash[Local][a] \in Int
         /\ SumOf(w.cash[Local], Holders) \in Int
    BY <1>1, <1>3, <1>9, ConstantFacts, TableFacts DEF Book
  <1> DEFINE n == -owed
  <1>14. PoolMoves(w, t, m, new, paid, dT, dF, eT, eF, n)
    <2>1. mk = w.markets[Key(m)]
      BY <1>2 DEF mk
    <2>2. paid[MarketAccount] - w.cash[Local][MarketAccount] = new.totalCurrentCash - mk.totalCurrentCash
      BY <1>7, <1>9, <1>10, <1>12, <1>13
    <2>3. /\ Share(x, TokenTypes, Key(m)) = x.notional /\ Share(x, CashTypes, Key(m)) = 0
          /\ \A j \in Maturities : j # m => /\ Share(x, TokenTypes, Key(j)) = 0
                                            /\ Share(x, CashTypes, Key(j)) = 0
      BY StoredFacts
    <2>4. \A j \in Maturities : dT[j] \in Int /\ dF[j] \in Int
      BY DEF Tables
    <2>5. eT[m] = dT[m] - x.notional /\ eF[m] = dF[m]
          /\ \A j \in Maturities : j # m => eT[j] = dT[j] /\ eF[j] = dF[j]
      BY <1>2, <2>3, <2>4 DEF Without
    <2>6. eT[m] - dT[m] = new.totalLiquidity - mk.totalLiquidity
      BY <1>2, <1>7, <2>4, <2>5
    <2>7. (new.totalfCash + eF[m]) - (mk.totalfCash + dF[m]) = n
      BY <1>2, <1>7, <2>4, <2>5
    <2>8. SumOf(paid, Holders) = SumOf(w.cash[Local], Holders) - n
      BY <1>7, <1>10, <1>12, <1>13
    <2>9. ~(t < m)
      <3>1. m \in Int /\ m <= t
        BY StoredFacts
      <3> HIDE DEF m
      <3> QED
        BY <3>1
    <2>10. paid[Reserve] >= 0
      <3>1. w.cash[Local][Reserve] >= 0 /\ w.cash[Local][Reserve] \in Int
        BY <1>1, <1>3, ConstantFacts DEF Proper, Book
      <3>2. paid[Reserve] = w.cash[Local][Reserve] + 0
        BY <1>10, <1>12, ConstantFacts
      <3> QED
        BY <3>1, <3>2
    <2> HIDE DEF n, m
    <2> QED
      BY <2>1, <2>2, <2>5, <2>6, <2>7, <2>8, <2>9, <2>10 DEF PoolMoves
  <1>15. Accounted(v, t, B, eT, eF)
    <2>1. n \in Int
      BY <1>7
    <2> HIDE DEF n, m
    <2> QED
      BY <1>2, <1>6, <1>10, <1>11, <1>14, <2>1, MarketStep
  <1>16. Spares(w, v, a, Owed(x))
    <2>1. Owed(x) = 0
      BY StoredFacts
    <2>2. paid[a] >= w.cash[Local][a] - 0
      BY <1>7, <1>10, <1>12, <1>13
    <2>3. \A b \in Accounts : b # a => paid[b] = w.cash[Local][b]
      BY <1>9, <1>10, <1>12
    <2> QED
      BY <1>11, <2>1, <2>2, <2>3 DEF Spares, EditsMarket
  <1> QED
    BY <1>15, <1>16

\* fCash is paid out as cash, and an obligation collected.
LEMMA SettleCashStep ==
  ASSUME NEW w, NEW t \in Int, NEW B, NEW dT \in Tables, NEW dF \in Tables,
         Accounted(w, t, B, dT, dF), NEW a \in Accounts,
         NEW x \in Stored, x.maturity <= t, x.assetType # LiquidityToken,
         NEW v, v = WithBook(w, Local, Credit(w.cash[Local], a, Signed(x))),
         NEW eT \in Tables, NEW eF \in Tables,
         Without(dT, x, TokenTypes, eT), Without(dF, x, CashTypes, eF)
  PROVE  Accounted(v, t, B, eT, eF) /\ Spares(w, v, a, Owed(x))
  <1> DEFINE m == x.maturity
             mk == w.markets[Key(m)]
             s == Signed(x)
             paid == Credit(w.cash[Local], a, s)
  <1>1. w \in Worlds /\ Proper(w)
    BY DEF Accounted
  <1>2. m \in Maturities /\ s \in Int /\ s >= -Owed(x)
    BY StoredFacts
  <1>3. mk \in Market /\ w.cash[Local] \in Book /\ Local \in Currencies
    BY <1>1, <1>2, WorldParts, ConstantFacts
  <1>4. /\ a \in Holders /\ a # MarketAccount /\ MarketAccount \in Holders
        /\ Accounts \subseteq Holders
    BY ConstantFacts
  <1> HIDE DEF s
  <1>5. /\ paid \in Book /\ paid[a] = w.cash[Local][a] + s
        /\ \A h \in Holders : h # a => paid[h] = w.cash[Local][h]
        /\ \A h \in Holders : w.cash[Local][h] \in Int
        /\ SumOf(w.cash[Local], Holders) \in Int
        /\ SumOf(paid, Holders) = SumOf(w.cash[Local], Holders) + s
    <2>1. Credited(w.cash[Local], a, s, paid)
      BY <1>2, <1>3, <1>4, CreditFacts
    <2> QED
      BY <2>1 DEF Credited
  <1>6. v = WithBook(w, Local, paid)
    BY DEF s
  <1> HIDE DEF paid
  <1>7. EditsBook(w, v, Local, paid)
    BY <1>1, <1>3, <1>5, <1>6, EditFacts
  <1>8. EditsMarket(w, v, m, mk, paid)
    BY <1>7 DEF EditsBook, EditsMarket
  <1> DEFINE n == -s
  <1>9. PoolMoves(w, t, m, mk, paid, dT, dF, eT, eF, n)
    <2>1. paid[MarketAccount] - w.cash[Local][MarketAccount] = mk.totalCurrentCash - mk.totalCurrentCash
      BY <1>3, <1>4, <1>5 DEF Market
    <2>2. /\ Share(x, TokenTypes, Key(m)) = 0 /\ Share(x, CashTypes, Key(m)) = s
          /\ \A j \in Maturities : j # m => /\ Share(x, TokenTypes, Key(j)) = 0
                                            /\ Share(x, CashTypes, Key(j)) = 0
      BY StoredFacts DEF s
    <2>3. \A j \in Maturities : dT[j] \in Int /\ dF[j] \in Int
      BY DEF Tables
    <2>4. eT[m] = dT[m] /\ eF[m] = dF[m] - s
          /\ \A j \in Maturities : j # m => eT[j] = dT[j] /\ eF[j] = dF[j]
      BY <1>2, <2>2, <2>3 DEF Without
    <2>5. mk.totalfCash \in Int /\ mk.totalLiquidity \in Int
      BY <1>3 DEF Market
    <2>6. eT[m] - dT[m] = mk.totalLiquidity - mk.totalLiquidity
      BY <1>2, <2>3, <2>4, <2>5
    <2>7. (mk.totalfCash + eF[m]) - (mk.totalfCash + dF[m]) = n
      BY <1>2, <2>3, <2>4, <2>5
    <2>8. SumOf(paid, Holders) = SumOf(w.cash[Local], Holders) - n
      BY <1>2, <1>5
    <2>9. ~(t < m)
      <3>1. m \in Int /\ m <= t
        BY StoredFacts
      <3> HIDE DEF m
      <3> QED
        BY <3>1
    <2>10. paid[Reserve] >= 0
      BY <1>1, <1>3, <1>5, ConstantFacts DEF Proper
    <2> HIDE DEF n, m
    <2> QED
      BY <2>1, <2>4, <2>6, <2>7, <2>8, <2>9, <2>10 DEF PoolMoves
  <1>10. Accounted(v, t, B, eT, eF)
    <2>1. n \in Int /\ Consistent(mk)
      BY <1>1, <1>2 DEF Proper
    <2> HIDE DEF n, m, mk
    <2> QED
      BY <1>2, <1>3, <1>5, <1>8, <1>9, <2>1, MarketStep
  <1>11. Spares(w, v, a, Owed(x))
    <2>1. Owed(x) \in Int /\ w.cash[Local][a] \in Int
      BY <1>4, <1>5, StoredFacts DEF Owed
    <2>2. paid[a] >= w.cash[Local][a] - Owed(x)
      BY <1>2, <1>5, <2>1
    <2>3. \A b \in Accounts : b # a => paid[b] = w.cash[Local][b]
      BY <1>4, <1>5
    <2> QED
      BY <1>7, <2>2, <2>3 DEF Spares, EditsBook
  <1> QED
    BY <1>10, <1>11

\* Settling one matured asset pays for what the tables counted of it, and debits at most what
\* the asset owes.
LEMMA SettleAssetStep ==
  ASSUME NEW w, NEW t \in Int, NEW B, NEW dT \in Tables, NEW dF \in Tables,
         Accounted(w, t, B, dT, dF), NEW a \in Accounts,
         NEW x \in Stored, x.maturity <= t,
         NEW v \in SettleAsset(w, a, x), NEW eT \in Tables, NEW eF \in Tables,
         Without(dT, x, TokenTypes, eT), Without(dF, x, CashTypes, eF)
  PROVE  Accounted(v, t, B, eT, eF) /\ Spares(w, v, a, Owed(x))
  <1>1. IsLiquidityToken(x.assetType) <=> x.assetType = LiquidityToken
    BY StoredFacts
  <1>2. CASE x.assetType = LiquidityToken
    <2>1. v \in SettleToken(w, a, x)
      BY <1>1, <1>2 DEF SettleAsset
    <2> QED
      BY <1>2, <2>1, SettleTokenStep
  <1>3. CASE x.assetType # LiquidityToken
    <2>1. v = WithBook(w, Local, Credit(w.cash[Local], a, Signed(x)))
      BY <1>1, <1>3 DEF SettleAsset, WithBook
    <2> QED
      BY <1>3, <2>1, SettleCashStep
  <1> QED
    BY <1>2, <1>3

(****************************************************************************)
(* Settlement of an account.                                                *)
(****************************************************************************)

\* It stays with worlds, whatever the asset.
LEMMA SettleAssetType ==
  ASSUME NEW w \in Worlds, NEW a \in Accounts, NEW x \in Stored, NEW v \in SettleAsset(w, a, x)
  PROVE  v \in Worlds
  <1> DEFINE k == <<x.cashGroupId, x.maturity>>
             mk == w.markets[k]
             owed == fCashClaim(mk, x.notional)
             claim == CashClaim(mk, x.notional)
             new == RedeemFrom(mk, x.notional)
  <1>1. x.maturity \in Maturities /\ k = Key(x.maturity) /\ x.notional \in Nat /\ Signed(x) \in Int
    BY StoredFacts
  <1>2. mk \in Market /\ w.cash[Local] \in Book /\ a \in Holders /\ Local \in Currencies
    BY <1>1, WorldParts, ConstantFacts
  <1>3. CASE IsLiquidityToken(x.assetType)
    <2>1. v \in SettleToken(w, a, x)
      BY <1>3 DEF SettleAsset
    <2>2. CanRedeem(mk, x.notional)
      BY <2>1 DEF SettleToken
    <2>3. PICK book \in WithdrawFromMarket(w.cash[Local], MarketAccount, a, claim, 0) :
            v = WithMarket(w, k, new, Credit(book, a, owed))
      BY <2>1, <2>2 DEF SettleToken, WithMarket
    <2>4. owed \in Int /\ claim \in Int
      <3>1. mk.totalfCash \in Nat /\ mk.totalCurrentCash \in Nat /\ mk.totalLiquidity \in Nat
        BY <1>2 DEF Market
      <3> QED
        BY <1>1, <2>2, <3>1, ProRata DEF CanRedeem, CashClaim, fCashClaim
    <2>5. new \in Market
      BY <1>1, <1>2, <2>2, RedeemFacts
    <2> HIDE DEF k, mk, owed, claim, new
    <2>6. book \in Book
      <3>1. Moves(w.cash[Local], a, claim, 0, book)
        BY <1>2, <2>4, ReceivingFacts
      <3> QED
        BY <3>1 DEF Moves
    <2> DEFINE paid == Credit(book, a, owed)
    <2>7. paid \in Book
      BY <1>2, <2>4, <2>6, CreditFacts DEF Credited
    <2> HIDE DEF paid
    <2>8. EditsMarket(w, WithMarket(w, Key(x.maturity), new, paid), x.maturity, new, paid)
      BY <1>1, <2>5, <2>7, EditFacts
    <2> QED
      BY <1>1, <2>3, <2>8 DEF EditsMarket, paid
  <1>4. CASE ~IsLiquidityToken(x.assetType)
    <2> DEFINE s == Signed(x)
               paid == Credit(w.cash[Local], a, s)
    <2>1. v = WithBook(w, Local, paid)
      BY <1>4 DEF SettleAsset, WithBook
    <2>2. s \in Int
      BY <1>1
    <2> HIDE DEF s
    <2>3. paid \in Book
      BY <1>2, <2>2, CreditFacts DEF Credited
    <2> HIDE DEF paid
    <2>4. EditsBook(w, v, Local, paid)
      BY <1>2, <2>1, <2>3, EditFacts
    <2> QED
      BY <2>4 DEF EditsBook
  <1> QED
    BY <1>3, <1>4

\* The assets of a list are settled one after the other.
SettleAll(worlds, a, x) == UNION {SettleAsset(v, a, x) : v \in worlds}

SettleList(w, a, xs) ==
  FoldLeft(LAMBDA worlds, asset : UNION {SettleAsset(v, a, asset) : v \in worlds}, {w}, xs)

IsPaymentChain(F, w, a, xs) ==
  F = [s \in SUBSET DOMAIN xs |->
         IF s = {} THEN {w} ELSE SettleAll(F[s \ {Max(s)}], a, xs[Max(s)])]

\* The worlds after each prefix of the list.
IsPaymentSteps(F, w, a, xs) ==
  /\ SettleList(w, a, xs) = F[1 .. Len(xs)]
  /\ F[1 .. 0] = {w}
  /\ \A n \in 1 .. Len(xs) : F[1 .. n] = SettleAll(F[1 .. (n - 1)], a, xs[n])

\* SettleAll is reached in steps, one asset at a time: the worlds after n of them, for every n.
LEMMA PaymentChain ==
  ASSUME NEW w \in Worlds, NEW a \in Accounts, NEW xs \in Seq(Stored)
  PROVE  \E F : IsPaymentSteps(F, w, a, xs)
  <1> DEFINE N == Len(xs)
             V == SUBSET Worlds
             base == {w}
             After(n, v) == SettleAll(v, a, xs[n])
             g == [z \in (1 .. N) \X V |-> After(z[1], z[2])]
  <1>1. N \in Nat /\ DOMAIN xs = 1 .. N /\ \A n \in 1 .. N : xs[n] \in Stored
    OBVIOUS
  <1>2. base \in V
    OBVIOUS
  <1>3. ASSUME NEW n \in 1 .. N, NEW v \in V
        PROVE  After(n, v) \in V
    <2>1. \A u \in v : \A r \in SettleAsset(u, a, xs[n]) : r \in Worlds
      BY <1>1, SettleAssetType
    <2> QED
      BY <2>1 DEF SettleAll
  <1> HIDE DEF V, base, After
  <1>4. g \in [(1 .. N) \X V -> V]
    BY <1>3
  <1>5. \A n \in 1 .. N, v \in V : g[<<n, v>>] = After(n, v)
    OBVIOUS
  <1> HIDE DEF N, g
  <1>6. PICK F \in [SUBSET (1 .. N) -> V] : IsChain(F, N, base, g)
    BY <1>1, <1>2, <1>4, ChainExists
  <1>7. ASSUME NEW s \in SUBSET (1 .. N), s # {}
        PROVE  g[<<Max(s), F[s \ {Max(s)}]>>] = After(Max(s), F[s \ {Max(s)}])
    <2>1. Max(s) \in 1 .. N /\ s \ {Max(s)} \in SUBSET (1 .. N)
      BY <1>1, <1>7, MaxFacts
    <2> QED
      BY <1>5, <2>1
  <1>8. IsPaymentChain(F, w, a, xs)
    <2>1. \A s \in SUBSET (1 .. N) : F[s] = IF s = {} THEN base ELSE After(Max(s), F[s \ {Max(s)}])
      BY <1>6, <1>7 DEF IsChain
    <2> QED
      BY <1>1, <2>1 DEF IsPaymentChain, After, base
  <1> DEFINE C == CHOOSE H : IsPaymentChain(H, w, a, xs)
  <1>9. IsPaymentChain(C, w, a, xs)
    BY <1>8
  <1>10. SettleList(w, a, xs) = C[1 .. N]
    <2>1. SettleList(w, a, xs) = C[DOMAIN xs]
      BY DEF SettleList, FoldLeft, MapThenFoldSet, IsPaymentChain, SettleAll
    <2> QED
      BY <1>1, <2>1
  <1> HIDE DEF C
  <1>11. C[1 .. 0] = {w}
    <2>1. 1 .. 0 = {} /\ {} \in SUBSET DOMAIN xs
      BY <1>1, ChainPrefix
    <2> QED
      BY <1>9, <2>1 DEF IsPaymentChain
  <1>12. ASSUME NEW n \in 1 .. N
         PROVE  C[1 .. n] = SettleAll(C[1 .. (n - 1)], a, xs[n])
    <2>1. /\ 1 .. n \in SUBSET DOMAIN xs /\ 1 .. n # {}
          /\ Max(1 .. n) = n /\ (1 .. n) \ {n} = 1 .. (n - 1)
      BY <1>1, ChainPrefix
    <2>2. C[1 .. n] = SettleAll(C[(1 .. n) \ {Max(1 .. n)}], a, xs[Max(1 .. n)])
      BY <1>9, <2>1 DEF IsPaymentChain
    <2> QED
      BY <2>1, <2>2
  <1> QED
    BY <1>10, <1>11, <1>12 DEF N, IsPaymentSteps

\* What is still on its way when the first n of a list are paid for, and what they have cost.
Paid(xs, n) == SubSeq(xs, 1, n)
Left(xs, n, types) ==
  [m \in Maturities |-> Position(xs, types, Key(m)) - Position(Paid(xs, n), types, Key(m))]
Debts == [x \in Stored |-> Owed(x)]
Cost(xs, n) == ListSum(Paid(xs, n), Debts)

Zero == [m \in Maturities |-> 0]

\* What is left to pay for after n assets of the list: all of it, one less at a time, nothing.
LEMMA LeftFacts ==
  ASSUME NEW xs \in Seq(Stored)
  PROVE  /\ \A n \in 0 .. Len(xs) : \A types : Left(xs, n, types) \in Tables
         /\ \A types : Left(xs, Len(xs), types) = Zero
         /\ \A m \in Maturities : \A types : Left(xs, 0, types)[m] = Position(xs, types, Key(m))
         /\ \A n \in Nat : \A types : n < Len(xs) =>
              Without(Left(xs, n, types), xs[n + 1], types, Left(xs, n + 1, types))
         /\ \A n \in 0 .. Len(xs) : Cost(xs, n) \in Int
         /\ Cost(xs, 0) = 0 /\ Cost(xs, Len(xs)) = ListSum(xs, Debts)
         /\ \A n \in Nat : n < Len(xs) => Cost(xs, n + 1) = Cost(xs, n) + Owed(xs[n + 1])
  <1>1. \A n \in 0 .. Len(xs) : Paid(xs, n) \in Seq(Stored)
    BY DEF Paid
  <1>2. Paid(xs, 0) = << >> /\ Paid(xs, Len(xs)) = xs
    BY DEF Paid
  <1>3. \A n \in Nat : n < Len(xs) => Paid(xs, n + 1) = Append(Paid(xs, n), xs[n + 1]) /\ xs[n + 1] \in Stored
    BY DEF Paid
  <1>4. Debts \in [Stored -> Int] /\ \A x \in Stored : Debts[x] = Owed(x)
    BY StoredFacts DEF Debts, Owed
  <1> HIDE DEF Paid, Debts
  <1>5. \A n \in 0 .. Len(xs) : \A types, k : /\ Position(Paid(xs, n), types, k) \in Int
                                            /\ Position(xs, types, k) \in Int
    BY <1>1, PositionFacts DEF Stored
  <1>6. \A n \in 0 .. Len(xs) : \A types : Left(xs, n, types) \in Tables
    BY <1>5 DEF Left, Tables
  <1>7. \A types : Left(xs, Len(xs), types) = Zero
    <2>1. Len(xs) \in 0 .. Len(xs)
      OBVIOUS
    <2> QED
      BY <1>2, <1>5, <2>1 DEF Left, Zero
  <1>8. \A m \in Maturities : \A types : Left(xs, 0, types)[m] = Position(xs, types, Key(m))
    <2>1. 0 \in 0 .. Len(xs)
      OBVIOUS
    <2> QED
      BY <1>2, <1>5, <2>1, EmptyPosition DEF Left
  <1>9. ASSUME NEW n \in Nat, NEW types, n < Len(xs)
        PROVE  Without(Left(xs, n, types), xs[n + 1], types, Left(xs, n + 1, types))
    <2> SUFFICES ASSUME NEW m \in Maturities
                 PROVE  Left(xs, n + 1, types)[m] = Left(xs, n, types)[m] - Share(xs[n + 1], types, Key(m))
      BY DEF Without
    <2>1. n \in 0 .. Len(xs) /\ n + 1 \in 0 .. Len(xs)
      BY <1>9
    <2>2. Position(Paid(xs, n + 1), types, Key(m))
            = Position(Paid(xs, n), types, Key(m)) + Share(xs[n + 1], types, Key(m))
      <3>1. Paid(xs, n) \in Seq(Stored) /\ xs[n + 1] \in Stored
        BY <1>1, <1>3, <1>9, <2>1
      <3>2. Paid(xs, n + 1) = Append(Paid(xs, n), xs[n + 1])
        BY <1>3, <1>9
      <3>3. \A p \in Seq(Stored), x \in Stored : \A k :
              Position(Append(p, x), types, k) = Position(p, types, k) + Share(x, types, k)
        BY PositionFacts DEF Stored
      <3>4. Position(Append(Paid(xs, n), xs[n + 1]), types, Key(m))
              = Position(Paid(xs, n), types, Key(m)) + Share(xs[n + 1], types, Key(m))
        BY <3>1, <3>3
      <3> QED
        BY <3>2, <3>4
    <2>3. Share(xs[n + 1], types, Key(m)) \in Int
      <3>1. xs[n + 1] \in Stored
        BY <1>3, <1>9
      <3> QED
        BY <3>1, ShareFacts DEF Stored
    <2> DEFINE x == Position(Paid(xs, n), types, Key(m))
               y == Position(xs, types, Key(m))
               z == Share(xs[n + 1], types, Key(m))
    <2>4. x \in Int /\ y \in Int /\ z \in Int
      BY <1>5, <2>1, <2>3
    <2>5. Left(xs, n + 1, types)[m] = y - (x + z) /\ Left(xs, n, types)[m] = y - x
      BY <2>2 DEF Left
    <2> HIDE DEF x, y, z
    <2>6. y - (x + z) = (y - x) - z
      BY <2>4
    <2> QED
      BY <2>5, <2>6 DEF z
  <1>10. \A n \in 0 .. Len(xs) : Cost(xs, n) \in Int
    BY <1>1, <1>4, ListFacts DEF Cost
  <1>11. Cost(xs, 0) = 0 /\ Cost(xs, Len(xs)) = ListSum(xs, Debts)
    BY <1>2, <1>4, ListEmpty DEF Cost
  <1>12. ASSUME NEW n \in Nat, n < Len(xs)
         PROVE  Cost(xs, n + 1) = Cost(xs, n) + Owed(xs[n + 1])
    <2>1. Paid(xs, n) \in Seq(Stored) /\ xs[n + 1] \in Stored
      <3>1. n \in 0 .. Len(xs)
        BY <1>12
      <3> QED
        BY <1>1, <1>3, <1>12, <3>1
    <2>2. Paid(xs, n + 1) = Append(Paid(xs, n), xs[n + 1])
      BY <1>3, <1>12
    <2>3. ListSum(Append(Paid(xs, n), xs[n + 1]), Debts) = ListSum(Paid(xs, n), Debts) + Debts[xs[n + 1]]
      BY <1>4, <2>1, ListAppend
    <2> QED
      BY <1>4, <2>1, <2>2, <2>3 DEF Cost
  <1> QED
    BY <1>6, <1>7, <1>8, <1>9, <1>10, <1>11, <1>12

\* s is what settling account a leaves of w.
IsSettled(w, a, s) ==
  LET loop == SettleLoop(w.assets[a], blockTime)
  IN  /\ s.assets[a] = loop.portfolio
      /\ \A b \in Accounts : b # a => s.assets[b] = w.assets[b]
      /\ \A c \in Currencies : c # Local => s.cash[c] = w.cash[c]
      /\ \A b \in Accounts : b # a => s.cash[Local][b] = w.cash[Local][b]
      /\ s.cash[Local][a] >= w.cash[Local][a] - ListSum(loop.settled, Debts)

\* The matured assets leave the portfolio and each is paid for in turn; when all are, the world
\* is as accounted for as it was before.
LEMMA SettledStep ==
  ASSUME blockTime \in Int, NEW w, NEW B, Accounted(w, blockTime, B, Zero, Zero), NEW a \in Accounts,
         NEW s \in Settled(w, a)
  PROVE  Accounted(s, blockTime, B, Zero, Zero) /\ IsSettled(w, a, s)
  <1> DEFINE loop == SettleLoop(w.assets[a], blockTime)
             q == loop.portfolio
             xs == loop.settled
             N == Len(xs)
             start == WithAssets(w, a, q)
  <1>1. w \in Worlds /\ Proper(w)
    BY DEF Accounted
  <1>2. /\ w.assets[a] \in Seq(Stored) /\ NoDuplicates(w.assets[a])
        /\ Len(w.assets[a]) <= MaxAssets + 1
    BY <1>1, WorldParts DEF Proper, Portfolio, Stored
  <1>3. /\ q \in Seq(Stored) /\ NoDuplicates(q) /\ xs \in Seq(Stored)
        /\ Len(q) <= Len(w.assets[a]) /\ \A j \in DOMAIN xs : xs[j].maturity <= blockTime
        /\ \A types, k :
             /\ Position(q, types, k) = IF k[2] <= blockTime THEN 0 ELSE Position(w.assets[a], types, k)
             /\ Position(xs, types, k) = IF k[2] <= blockTime THEN Position(w.assets[a], types, k) ELSE 0
    <2> HIDE DEF loop
    <2>1. loop = SettleLoop(w.assets[a], blockTime)
      BY DEF loop
    <2> QED
      BY <1>2, <2>1, SettleFacts DEF Stored
  <1>4. Settled(w, a) = SettleList(start, a, xs)
    BY DEF Settled, SettleList, WithAssets
  <1> HIDE DEF loop, q, xs, start
  <1>5. EditsAssets(w, start, a, q)
    BY <1>1, <1>3, EditFacts DEF start, Portfolio, Stored
  <1>6. Zero \in Tables /\ N \in Nat /\ DOMAIN xs = 1 .. N
    BY <1>3 DEF Zero, Tables
  <1> DEFINE dT(n) == Left(xs, n, TokenTypes)
             dF(n) == Left(xs, n, CashTypes)
  <1>7. \A n \in 0 .. N : dT(n) \in Tables /\ dF(n) \in Tables /\ Cost(xs, n) \in Int
    BY <1>3, LeftFacts
  <1>8. Accounted(start, blockTime, B, dT(0), dF(0))
    <2>1. \A types : Offsets(w.assets[a], q, types, Zero, Left(xs, 0, types))
      <3> SUFFICES ASSUME NEW types, NEW m \in Maturities
                   PROVE  Position(q, types, Key(m)) + Left(xs, 0, types)[m]
                            = Position(w.assets[a], types, Key(m)) + Zero[m]
        BY DEF Offsets
      <3>1. Left(xs, 0, types)[m] = Position(xs, types, Key(m)) /\ Zero[m] = 0
        BY <1>3, LeftFacts DEF Zero
      <3>2. Position(w.assets[a], types, Key(m)) \in Int
        BY <1>2, PositionFacts DEF Stored
      <3> QED
        BY <1>3, <3>1, <3>2
    <2>2. q \in Portfolio /\ dT(0) \in Tables /\ dF(0) \in Tables
      BY <1>3, <1>6, <1>7 DEF Portfolio, Stored
    <2>3. Len(q) <= MaxAssets + 1
      BY <1>2, <1>3, MaxAssetsAssumption
    <2> HIDE DEF N
    <2> QED
      BY <1>3, <1>5, <1>6, <2>1, <2>2, <2>3, AssetsStep
  <1> DEFINE Half(v, n) == /\ Accounted(v, blockTime, B, dT(n), dF(n))
                           /\ Spares(start, v, a, Cost(xs, n))
  <1> HIDE DEF N
  <1>9. start \in Worlds
    BY <1>5 DEF EditsAssets
  <1>10. start.cash[Local][a] \in Int
    BY <1>9, WorldParts, ConstantFacts DEF Book
  <1>11. PICK F : IsPaymentSteps(F, start, a, xs)
    BY <1>3, <1>9, PaymentChain
  <1> DEFINE T == {n \in Nat : n <= N => \A v \in F[1 .. n] : Half(v, n)}
  <1> HIDE DEF T
  <1>12. 0 \in T
    <2>1. F[1 .. 0] = {start}
      BY <1>11 DEF IsPaymentSteps
    <2>2. Cost(xs, 0) = 0
      BY <1>3, LeftFacts
    <2>3. Spares(start, start, a, 0)
      BY <1>10 DEF Spares
    <2> QED
      BY <1>8, <2>1, <2>2, <2>3 DEF T
  <1>13. ASSUME NEW n \in Nat, n \in T
         PROVE  n + 1 \in T
    <2> SUFFICES ASSUME n + 1 <= N, NEW v \in F[1 .. (n + 1)]
                 PROVE  Half(v, n + 1)
      BY <1>13 DEF T
    <2> DEFINE x == xs[n + 1]
    <2>1. n + 1 \in 1 .. N /\ n \in 0 .. N /\ n + 1 \in 0 .. N /\ n < N /\ (n + 1) - 1 = n /\ n <= N
      BY <1>6
    <2>2. x \in Stored /\ x.maturity <= blockTime
      BY <1>3, <1>6, <2>1
    <2>3. F[1 .. (n + 1)] = SettleAll(F[1 .. n], a, x)
      BY <1>11, <2>1 DEF IsPaymentSteps, N
    <2>4. PICK u \in F[1 .. n] : v \in SettleAsset(u, a, x)
      BY <2>3 DEF SettleAll
    <2>5. Half(u, n)
      BY <1>13, <2>1 DEF T
    <2>6. /\ Without(dT(n), x, TokenTypes, dT(n + 1))
          /\ Without(dF(n), x, CashTypes, dF(n + 1))
          /\ Cost(xs, n + 1) = Cost(xs, n) + Owed(x)
      BY <1>3, <2>1, LeftFacts DEF N
    <2>7. /\ dT(n) \in Tables /\ dF(n) \in Tables /\ dT(n + 1) \in Tables /\ dF(n + 1) \in Tables
          /\ Cost(xs, n) \in Int
      BY <1>7, <2>1
    <2> HIDE DEF x
    <2>8. Accounted(v, blockTime, B, dT(n + 1), dF(n + 1)) /\ Spares(u, v, a, Owed(x))
      <3>1. Accounted(u, blockTime, B, dT(n), dF(n))
        BY <2>5
      <3> HIDE DEF dT, dF
      <3> QED
        BY <2>2, <2>4, <2>6, <2>7, <3>1, SettleAssetStep
    <2>9. Spares(start, v, a, Cost(xs, n + 1))
      <3>1. /\ u.assets = start.assets
            /\ \A c \in Currencies : c # Local => u.cash[c] = start.cash[c]
            /\ \A b \in Accounts : b # a => u.cash[Local][b] = start.cash[Local][b]
            /\ u.cash[Local][a] >= start.cash[Local][a] - Cost(xs, n)
        BY <2>5 DEF Spares
      <3>2. /\ v.assets = u.assets
            /\ \A c \in Currencies : c # Local => v.cash[c] = u.cash[c]
            /\ \A b \in Accounts : b # a => v.cash[Local][b] = u.cash[Local][b]
            /\ v.cash[Local][a] >= u.cash[Local][a] - Owed(x)
        BY <2>8 DEF Spares
      <3>3. /\ u.cash[Local][a] \in Int /\ v.cash[Local][a] \in Int /\ Owed(x) \in Int
        <4>1. u \in Worlds /\ v \in Worlds
          BY <2>5, <2>8 DEF Accounted
        <4> QED
          BY <2>2, <4>1, WorldParts, ConstantFacts, StoredFacts DEF Book, Owed
      <3> DEFINE e == v.cash[Local][a]
                 f == u.cash[Local][a]
                 g == start.cash[Local][a]
                 h == Cost(xs, n)
                 d == Owed(x)
      <3>4. e >= f - d /\ f >= g - h /\ e \in Int /\ f \in Int /\ g \in Int /\ h \in Int /\ d \in Int
        BY <1>10, <2>7, <3>1, <3>2, <3>3
      <3> HIDE DEF e, f, g, h, d
      <3>5. e >= g - (h + d)
        BY <3>4
      <3> QED
        BY <2>6, <3>1, <3>2, <3>5 DEF Spares, e, g, h, d
    <2> QED
      BY <2>8, <2>9
  <1>14. \A n \in Nat : n \in T
    BY <1>12, <1>13, NaturalInduction
  <1>15. Half(s, N)
    <2>1. s \in F[1 .. N]
      BY <1>4, <1>11 DEF IsPaymentSteps, N
    <2>2. N \in T /\ N <= N
      BY <1>6, <1>14
    <2> QED
      BY <2>1, <2>2 DEF T
  <1>16. dT(N) = Zero /\ dF(N) = Zero /\ Cost(xs, N) = ListSum(xs, Debts)
    BY <1>3, LeftFacts DEF N
  <1>17. Accounted(s, blockTime, B, Zero, Zero) /\ Spares(start, s, a, ListSum(xs, Debts))
    BY <1>15, <1>16
  <1>18. IsSettled(w, a, s)
    BY <1>5, <1>17 DEF Spares, EditsAssets, IsSettled, q, xs, loop
  <1> QED
    BY <1>17, <1>18

(****************************************************************************)
(* Postings.                                                                *)
(****************************************************************************)
Posted == Postings({CashGroup}, Maturities)

\* The weights that count nothing of maturity m.
Beyond(m) == {f \in [Stored -> Int] : \A x \in Stored : x.maturity = m => f[x] = 0}

\* v is w with postings of maturity m to account a.
PostsTo(w, v, a, m) ==
  /\ v.markets = w.markets /\ v.cash = w.cash
  /\ \A b \in Accounts : b # a => v.assets[b] = w.assets[b]
  /\ \A f \in Beyond(m) : ListSum(v.assets[a], f) = ListSum(w.assets[a], f)

\* A posting is added to a portfolio, and what is on its way is less by it.
LEMMA AddsStep ==
  ASSUME NEW w, NEW t, NEW B, NEW dT \in Tables, NEW dF \in Tables, Accounted(w, t, B, dT, dF),
         NEW a \in Accounts, NEW x \in Posted, NEW q,
         Adds({CashGroup}, Maturities, w.assets[a], x, q), Len(q) <= MaxAssets + 1,
         NEW eT \in Tables, NEW eF \in Tables,
         Without(dT, x, TokenTypes, eT), Without(dF, x, CashTypes, eF)
  PROVE  /\ Accounted(WithAssets(w, a, q), t, B, eT, eF)
         /\ PostsTo(w, WithAssets(w, a, q), a, x.maturity)
         /\ EditsAssets(w, WithAssets(w, a, q), a, q)
  <1> DEFINE p == w.assets[a]
             v == WithAssets(w, a, q)
  <1>1. w \in Worlds /\ Proper(w)
    BY DEF Accounted
  <1>2. p \in Seq(Stored) /\ NoDuplicates(p) /\ Len(p) <= MaxAssets + 1 /\ Len(p) \in Nat
    <2>1. p \in Seq(Stored) /\ NoDuplicates(p) /\ Len(p) <= MaxAssets + 1
      BY <1>1, WorldParts DEF Proper, Portfolio, Stored
    <2> HIDE DEF p
    <2> QED
      BY <2>1
  <1>4. /\ q \in Seq(Stored) /\ NoDuplicates(q)
        /\ \A types \in Sides : \A k :
             Position(q, types, k) = Position(p, types, k) + Share(x, types, k)
        /\ \A f \in Elsewhere(Stored, x) : ListSum(q, f) = ListSum(p, f)
    BY DEF Adds, Stored
  <1>6. q \in Portfolio
    BY <1>4 DEF Portfolio, Stored
  <1>7. EditsAssets(w, v, a, q)
    BY <1>1, <1>6, EditFacts
  <1>8. \A types \in Sides, d \in Tables, e \in Tables : Without(d, x, types, e) => Offsets(p, q, types, d, e)
    <2> SUFFICES ASSUME NEW types \in Sides, NEW d \in Tables, NEW e \in Tables,
                        Without(d, x, types, e), NEW m \in Maturities
                 PROVE  Position(q, types, Key(m)) + e[m] = Position(p, types, Key(m)) + d[m]
      BY DEF Offsets
    <2>1. /\ Position(q, types, Key(m)) = Position(p, types, Key(m)) + Share(x, types, Key(m))
          /\ e[m] = d[m] - Share(x, types, Key(m))
      BY <1>4 DEF Without
    <2>2. Position(p, types, Key(m)) \in Int
      BY <1>2, PositionFacts DEF Stored
    <2>3. d[m] \in Int
      BY DEF Tables
    <2>4. Share(x, types, Key(m)) \in Int
      BY ShareFacts DEF Posted
    <2> QED
      BY <2>1, <2>2, <2>3, <2>4
  <1>9. Offsets(p, q, TokenTypes, dT, eT) /\ Offsets(p, q, CashTypes, dF, eF)
    <2>1. TokenTypes \in Sides /\ CashTypes \in Sides
      BY DEF TokenTypes, CashTypes, Sides
    <2> HIDE DEF p
    <2> QED
      BY <1>8, <2>1
  <1>10. Accounted(v, t, B, eT, eF)
    BY <1>4, <1>6, <1>7, <1>9, AssetsStep
  <1>11. PostsTo(w, v, a, x.maturity)
    <2>1. \A f \in Beyond(x.maturity) : f \in Elsewhere(Stored, x)
      BY DEF Beyond, Elsewhere, SameInstrument
    <2>2. \A f \in Beyond(x.maturity) : ListSum(q, f) = ListSum(p, f)
      BY <1>4, <2>1
    <2> QED
      BY <1>7, <2>2 DEF PostsTo, EditsAssets
  <1> QED
    BY <1>7, <1>10, <1>11

\* A posting is upserted.
LEMMA UpsertStep ==
  ASSUME NEW w, NEW t, NEW B, NEW dT \in Tables, NEW dF \in Tables, Accounted(w, t, B, dT, dF),
         NEW a \in Accounts, NEW x \in Posted, NEW q \in UpsertAsset(w.assets[a], x, FALSE),
         NEW eT \in Tables, NEW eF \in Tables,
         Without(dT, x, TokenTypes, eT), Without(dF, x, CashTypes, eF)
  PROVE  /\ Accounted(WithAssets(w, a, q), t, B, eT, eF)
         /\ PostsTo(w, WithAssets(w, a, q), a, x.maturity)
         /\ EditsAssets(w, WithAssets(w, a, q), a, q)
  <1> DEFINE p == w.assets[a]
             v == WithAssets(w, a, q)
  <1>1. w \in Worlds /\ Proper(w)
    BY DEF Accounted
  <1>2. p \in Seq(Stored) /\ NoDuplicates(p) /\ Len(p) <= MaxAssets + 1 /\ Len(p) \in Nat
    <2>1. p \in Seq(Stored) /\ NoDuplicates(p) /\ Len(p) <= MaxAssets + 1
      BY <1>1, WorldParts DEF Proper, Portfolio, Stored
    <2> HIDE DEF p
    <2> QED
      BY <2>1
  <1>3. Adds({CashGroup}, Maturities, p, x, q) /\ (Len(q) <= Len(p) \/ Len(q) <= MaxAssets + 1)
    <2> HIDE DEF p
    <2>1. q \in UpsertAsset(p, x, FALSE)
      BY DEF p
    <2> QED
      BY <1>2, <2>1, UpsertFacts DEF Stored, Posted
  <1>4. Len(q) \in Nat
    <2>1. q \in Seq(Entries({CashGroup}, Maturities))
      BY <1>3 DEF Adds
    <2> QED
      BY <2>1
  <1>5. Len(q) <= MaxAssets + 1
    BY <1>2, <1>3, <1>4, MaxAssetsAssumption
  <1> QED
    BY <1>3, <1>5, AddsStep

\* A batch of one posting.
LEMMA UpsertedOne ==
  ASSUME NEW w, NEW t, NEW B, NEW dT \in Tables, NEW dF \in Tables, Accounted(w, t, B, dT, dF),
         NEW a \in Accounts, NEW x \in Posted, NEW v \in Upserted(w, a, <<x>>),
         NEW eT \in Tables, NEW eF \in Tables,
         Without(dT, x, TokenTypes, eT), Without(dF, x, CashTypes, eF)
  PROVE  Accounted(v, t, B, eT, eF) /\ PostsTo(w, v, a, x.maturity)
  <1> DEFINE p == w.assets[a]
  <1>1. p \in Seq(Stored) /\ NoDuplicates(p)
    BY WorldParts DEF Accounted, Proper, Portfolio, Stored
  <1>2. PICK q \in UpsertAssets(p, <<x>>, FALSE) : v = WithAssets(w, a, q)
    BY DEF Upserted, WithAssets
  <1>3. q \in UpsertAsset(p, x, FALSE)
    <2>1. UpsertAssets(p, <<x>>, FALSE) = UpsertAsset(p, x, FALSE)
      <3> HIDE DEF p
      <3> QED
        BY <1>1, UpsertOne DEF Stored, Posted
    <2> QED
      BY <2>1
  <1> QED
    BY <1>2, <1>3, UpsertStep

WithoutBoth(d, x, y, types, e) ==
  \A m \in Maturities : e[m] = d[m] - Share(x, types, Key(m)) - Share(y, types, Key(m))

\* The elements of a pair.
LEMMA PairFacts ==
  ASSUME NEW E, NEW xs \in Seq(E), Len(xs) = 2
  PROVE  xs[1] \in E /\ xs[2] \in E
  <1>1. DOMAIN xs = 1 .. Len(xs)
    OBVIOUS
  <1>2. 1 \in DOMAIN xs /\ 2 \in DOMAIN xs
    BY <1>1
  <1>3. ASSUME NEW n \in DOMAIN xs
        PROVE  xs[n] \in E
    OBVIOUS
  <1> QED
    BY <1>2, <1>3

\* A batch of two.
LEMMA UpsertedTwo ==
  ASSUME NEW w, NEW t, NEW B, NEW dT \in Tables, NEW dF \in Tables, Accounted(w, t, B, dT, dF),
         NEW a \in Accounts, NEW xs \in Seq(Posted), Len(xs) = 2, xs[1].maturity = xs[2].maturity,
         NEW v \in Upserted(w, a, xs), NEW eT \in Tables, NEW eF \in Tables,
         WithoutBoth(dT, xs[1], xs[2], TokenTypes, eT), WithoutBoth(dF, xs[1], xs[2], CashTypes, eF)
  PROVE  Accounted(v, t, B, eT, eF) /\ PostsTo(w, v, a, xs[1].maturity)
  <1> DEFINE p == w.assets[a]
             x == xs[1]
             y == xs[2]
             fT == [m \in Maturities |-> dT[m] - Share(x, TokenTypes, Key(m))]
             fF == [m \in Maturities |-> dF[m] - Share(x, CashTypes, Key(m))]
  <1>1. p \in Seq(Stored) /\ NoDuplicates(p) /\ w \in Worlds
    BY WorldParts DEF Accounted, Proper, Portfolio, Stored
  <1>2. x \in Posted /\ y \in Posted
    BY PairFacts
  <1>3. PICK q \in UpsertAssets(p, xs, FALSE) : v = WithAssets(w, a, q)
    BY DEF Upserted, WithAssets
  <1>4. UpsertsBoth(p, xs)
    <2> HIDE DEF p
    <2> QED
      BY <1>1, UpsertTwo DEF Stored, Posted
  <1>5. q \in UpsertAll(UpsertAsset(p, x, FALSE), y, FALSE)
    BY <1>3, <1>4 DEF UpsertsBoth
  <1>6. PICK r \in UpsertAsset(p, x, FALSE) : q \in UpsertAsset(r, y, FALSE)
    BY <1>5 DEF UpsertAll
  <1> DEFINE u == WithAssets(w, a, r)
  <1>7. /\ fT \in Tables /\ fF \in Tables
        /\ Without(dT, x, TokenTypes, fT) /\ Without(dF, x, CashTypes, fF)
        /\ Without(fT, y, TokenTypes, eT) /\ Without(fF, y, CashTypes, eF)
    <2>1. \A types, m : Share(x, types, Key(m)) \in Int
      BY <1>2, ShareFacts DEF Posted
    <2> HIDE DEF x, y
    <2>2. fT \in Tables /\ fF \in Tables
      BY <2>1 DEF Tables
    <2>3. Without(dT, x, TokenTypes, fT) /\ Without(dF, x, CashTypes, fF)
      BY DEF Without
    <2>4. Without(fT, y, TokenTypes, eT) /\ Without(fF, y, CashTypes, eF)
      BY DEF Without, WithoutBoth, x, y
    <2> QED
      BY <2>2, <2>3, <2>4
  <1> HIDE DEF fT, fF
  <1>8. /\ Accounted(u, t, B, fT, fF) /\ PostsTo(w, u, a, x.maturity) /\ EditsAssets(w, u, a, r)
    <2> HIDE DEF x
    <2> QED
      BY <1>2, <1>6, <1>7, UpsertStep
  <1>9. u.assets[a] = r
    BY <1>8 DEF EditsAssets
  <1>10. v = WithAssets(u, a, q)
    BY <1>1, <1>3 DEF WithAssets, Worlds
  <1> HIDE DEF u
  <1>11. Accounted(v, t, B, eT, eF) /\ PostsTo(u, v, a, y.maturity)
    <2> HIDE DEF x, y
    <2> QED
      BY <1>2, <1>6, <1>7, <1>8, <1>9, <1>10, UpsertStep
  <1>12. PostsTo(w, v, a, x.maturity)
    BY <1>8, <1>11 DEF PostsTo
  <1> QED
    BY <1>11, <1>12

\* What a posting to maturity m comes to.
LEMMA PostingFacts ==
  ASSUME NEW m \in Maturities, NEW n \in Nat, NEW type \in AssetTypes
  PROVE  LET x == Asset(CashGroup, m, type, n)
         IN  /\ x \in Posted /\ x.maturity = m
             /\ \A types : \A k \in Maturities : k # m => Share(x, types, Key(k)) = 0
             /\ type = LiquidityToken =>
                  Share(x, TokenTypes, Key(m)) = n /\ Share(x, CashTypes, Key(m)) = 0
             /\ type = LiquidityPayer =>
                  Share(x, TokenTypes, Key(m)) = -n /\ Share(x, CashTypes, Key(m)) = 0
             /\ type = CashReceiver =>
                  Share(x, TokenTypes, Key(m)) = 0 /\ Share(x, CashTypes, Key(m)) = n
             /\ type = CashPayer =>
                  Share(x, TokenTypes, Key(m)) = 0 /\ Share(x, CashTypes, Key(m)) = -n
  <1> DEFINE x == Asset(CashGroup, m, type, n)
  <1>1. x \in Posted /\ x.cashGroupId = CashGroup /\ x.maturity = m /\ x.assetType = type /\ x.notional = n
    BY DEF Posted, Postings, Asset
  <1> HIDE DEF x
  <1>2. \A types : \A k \in Maturities : k # m => Share(x, types, Key(k)) = 0
    BY <1>1 DEF Share, Key
  <1>3. \A types : Share(x, types, Key(m)) = IF type \in types THEN Signed(x) ELSE 0
    BY <1>1 DEF Share, Key
  <1>4. Signed(x) = IF type \in {CashPayer, LiquidityPayer} THEN -n ELSE n
    BY <1>1 DEF Signed
  <1>5. /\ type = LiquidityToken =>
             Share(x, TokenTypes, Key(m)) = n /\ Share(x, CashTypes, Key(m)) = 0
        /\ type = LiquidityPayer =>
             Share(x, TokenTypes, Key(m)) = -n /\ Share(x, CashTypes, Key(m)) = 0
        /\ type = CashReceiver =>
             Share(x, TokenTypes, Key(m)) = 0 /\ Share(x, CashTypes, Key(m)) = n
        /\ type = CashPayer =>
             Share(x, TokenTypes, Key(m)) = 0 /\ Share(x, CashTypes, Key(m)) = -n
    BY <1>3, <1>4 DEF TokenTypes, CashTypes, CashPayer, CashReceiver, LiquidityToken, LiquidityPayer
  <1> QED
    BY <1>1, <1>2, <1>5 DEF x

(****************************************************************************)
(* The calls of the market, before their check.                             *)
(****************************************************************************)

\* v is what a call of account a in the market of m leaves of w.
Called(w, v, a, m) ==
  /\ \A b \in Accounts : b # a => v.assets[b] = w.assets[b]
  /\ \A f \in Beyond(m) : ListSum(v.assets[a], f) = ListSum(w.assets[a], f)
  /\ \A c \in Currencies : c # Local => v.cash[c] = w.cash[c]
  /\ \A b \in Accounts : b # a => v.cash[Local][b] = w.cash[Local][b]
  /\ v.cash[Local][a] >= LowerOf(w.cash[Local][a], 0)

At(m, n) == [k \in Maturities |-> IF k = m THEN n ELSE 0]

\* A book of a call: n leaves the market, or enters it, and account a is not overdrawn.
PaysInto(w, a, n, fee, book) ==
  Moves(w.cash[Local], a, n, fee, book) /\ book[a] >= LowerOf(w.cash[Local][a], 0)

\* The pool has changed and the cash has moved; the entries are on their way.
LEMMA TradedFirst ==
  ASSUME NEW w, NEW t, NEW B, Accounted(w, t, B, Zero, Zero), NEW a \in Accounts,
         NEW m \in Maturities, NEW mk \in Market, Consistent(mk), NEW n \in Int, NEW fee \in Nat,
         NEW book, Moves(w.cash[Local], a, n, fee, book),
         NEW old, old = w.markets[Key(m)], mk.totalCurrentCash = old.totalCurrentCash - n,
         NEW u, u = WithMarket(w, Key(m), mk, book)
  PROVE  /\ Accounted(u, t, B, At(m, mk.totalLiquidity - old.totalLiquidity),
                               At(m, old.totalfCash - mk.totalfCash))
         /\ EditsMarket(w, u, m, mk, book)
         /\ mk.totalLiquidity - old.totalLiquidity \in Int /\ old.totalfCash - mk.totalfCash \in Int
  <1> DEFINE d == mk.totalLiquidity - old.totalLiquidity
             e == old.totalfCash - mk.totalfCash
             eT == At(m, d)
             eF == At(m, e)
  <1>1. w \in Worlds /\ Proper(w)
    BY DEF Accounted
  <1>2. /\ old \in Market /\ mk.totalLiquidity \in Int /\ mk.totalfCash \in Int
        /\ old.totalLiquidity \in Int /\ old.totalfCash \in Int /\ old.totalCurrentCash \in Int
    BY <1>1, WorldParts DEF Market
  <1>3. d \in Int /\ e \in Int
    BY <1>2
  <1>4. book \in Book /\ SumOf(book, Holders) = SumOf(w.cash[Local], Holders)
        /\ book[MarketAccount] = w.cash[Local][MarketAccount] - n
    BY DEF Moves
  <1>5. EditsMarket(w, u, m, mk, book)
    <2>1. EditsMarket(w, WithMarket(w, Key(m), mk, book), m, mk, book)
      BY <1>1, <1>4, EditFacts
    <2> QED
      BY <2>1
  <1>6. w.cash[Local][MarketAccount] \in Int /\ SumOf(w.cash[Local], Holders) \in Int
    <2>1. w.cash[Local] \in Book /\ MarketAccount \in Holders /\ Local \in Currencies
      BY <1>1, WorldParts, ConstantFacts
    <2>2. SumOf(w.cash[Local], Holders) \in Int
      BY <2>1, ConstantFacts, SumType DEF Book
    <2> QED
      BY <2>1, <2>2 DEF Book
  <1>7. Zero \in Tables /\ eT \in Tables /\ eF \in Tables
    <2> HIDE DEF d, e
    <2> QED
      BY <1>3 DEF Zero, At, Tables
  <1>8. PoolMoves(w, t, m, mk, book, Zero, Zero, eT, eF, 0)
    <2>1. book[MarketAccount] - w.cash[Local][MarketAccount]
            = mk.totalCurrentCash - old.totalCurrentCash
      BY <1>2, <1>4, <1>6
    <2>2. /\ eT[m] = d /\ eF[m] = e /\ Zero[m] = 0
          /\ \A k \in Maturities : k # m => eT[k] = Zero[k] /\ eF[k] = Zero[k]
      BY DEF At, Zero
    <2>3. eT[m] - Zero[m] = mk.totalLiquidity - old.totalLiquidity
      BY <1>2, <2>2
    <2>4. (mk.totalfCash + eF[m]) - (old.totalfCash + Zero[m]) = 0
      BY <1>2, <2>2
    <2>5. SumOf(book, Holders) = SumOf(w.cash[Local], Holders) - 0
      BY <1>4, <1>6
    <2>6. book[Reserve] >= 0
      <3>1. w.cash[Local][Reserve] >= 0 /\ w.cash[Local][Reserve] \in Int
        <4>1. w.cash[Local] \in Book /\ Reserve \in Holders /\ Local \in Currencies
          BY <1>1, WorldParts, ConstantFacts
        <4> QED
          BY <1>1, <4>1 DEF Proper, Book
      <3>2. book[Reserve] = w.cash[Local][Reserve] + fee
        BY DEF Moves
      <3> QED
        BY <3>1, <3>2
    <2> HIDE DEF eT, eF
    <2> QED
      BY <2>1, <2>2, <2>3, <2>4, <2>5, <2>6 DEF PoolMoves
  <1> HIDE DEF eT, eF
  <1>9. Accounted(u, t, B, eT, eF)
    <2>1. 0 \in Int
      OBVIOUS
    <2> QED
      BY <1>4, <1>5, <1>7, <1>8, <2>1, MarketStep
  <1> QED
    BY <1>3, <1>5, <1>9 DEF eT, eF

\* Tables that postings to maturity m bring to zero.
LEMMA AtFacts ==
  ASSUME NEW m \in Maturities, NEW n \in Int
  PROVE  /\ At(m, n) \in Tables /\ Zero \in Tables
         /\ At(m, n)[m] = n /\ \A k \in Maturities : Zero[k] = 0 /\ (k # m => At(m, n)[k] = 0)
  BY DEF At, Zero, Tables

OnlyAt(x, m) == \A types : \A k \in Maturities : k # m => Share(x, types, Key(k)) = 0

\* A table that counts one entry, or the two that follow, is empty once they are posted.
LEMMA AtOne ==
  ASSUME NEW m \in Maturities, NEW n \in Int, NEW x, NEW types,
         OnlyAt(x, m), Share(x, types, Key(m)) = n
  PROVE  Without(At(m, n), x, types, Zero)
  BY AtFacts DEF Without, OnlyAt

LEMMA AtTwo ==
  ASSUME NEW m \in Maturities, NEW n \in Int, NEW x, NEW y, NEW types, NEW i \in Int, NEW j \in Int,
         OnlyAt(x, m), OnlyAt(y, m),
         Share(x, types, Key(m)) = i, Share(y, types, Key(m)) = j, i + j = n
  PROVE  WithoutBoth(At(m, n), x, y, types, Zero)
  <1> SUFFICES ASSUME NEW k \in Maturities
               PROVE  Zero[k] = At(m, n)[k] - Share(x, types, Key(k)) - Share(y, types, Key(k))
    BY DEF WithoutBoth
  <1>1. CASE k = m
    <2>1. Zero[k] = 0 /\ At(m, n)[k] = i + j /\ Share(x, types, Key(k)) = i /\ Share(y, types, Key(k)) = j
      BY <1>1, AtFacts
    <2>2. (i + j) - i - j = 0
      OBVIOUS
    <2> QED
      BY <2>1, <2>2
  <1>2. CASE k # m
    <2>1. Zero[k] = 0 /\ At(m, n)[k] = 0 /\ Share(x, types, Key(k)) = 0 /\ Share(y, types, Key(k)) = 0
      BY <1>2, AtFacts DEF OnlyAt
    <2> QED
      BY <2>1
  <1> QED
    BY <1>1, <1>2

\* A trade: one posting.
LEMMA TradedOne ==
  ASSUME NEW w, NEW t, NEW B, Accounted(w, t, B, Zero, Zero), NEW a \in Accounts,
         NEW m \in Maturities, NEW mk \in Market, Consistent(mk), NEW n \in Int, NEW fee \in Nat,
         NEW books, \A book \in books : PaysInto(w, a, n, fee, book),
         NEW old, old = w.markets[Key(m)], mk.totalCurrentCash = old.totalCurrentCash - n,
         NEW x \in Posted, x.maturity = m,
         OnlyAt(x, m), Share(x, TokenTypes, Key(m)) = mk.totalLiquidity - old.totalLiquidity,
         Share(x, CashTypes, Key(m)) = old.totalfCash - mk.totalfCash,
         NEW v \in Traded(w, a, m, mk, books, <<x>>)
  PROVE  Accounted(v, t, B, Zero, Zero) /\ Called(w, v, a, m)
  <1> DEFINE d == mk.totalLiquidity - old.totalLiquidity
             e == old.totalfCash - mk.totalfCash
  <1>1. PICK book \in books : v \in Upserted(WithMarket(w, Key(m), mk, book), a, <<x>>)
    BY DEF Traded, WithMarket, Key
  <1> DEFINE u == WithMarket(w, Key(m), mk, book)
  <1>2. /\ Accounted(u, t, B, At(m, d), At(m, e)) /\ EditsMarket(w, u, m, mk, book)
        /\ d \in Int /\ e \in Int
    <2> HIDE DEF u
    <2>1. u = WithMarket(w, Key(m), mk, book) /\ Moves(w.cash[Local], a, n, fee, book)
      BY DEF u, PaysInto
    <2> QED
      BY <2>1, TradedFirst
  <1>3. /\ At(m, d) \in Tables /\ At(m, e) \in Tables /\ Zero \in Tables
        /\ Without(At(m, d), x, TokenTypes, Zero) /\ Without(At(m, e), x, CashTypes, Zero)
    <2>1. Share(x, TokenTypes, Key(m)) = d /\ Share(x, CashTypes, Key(m)) = e
      OBVIOUS
    <2> HIDE DEF d, e
    <2> QED
      BY <1>2, <2>1, AtFacts, AtOne
  <1> HIDE DEF u, d, e
  <1>4. Accounted(v, t, B, Zero, Zero) /\ PostsTo(u, v, a, x.maturity)
    <2>1. v \in Upserted(u, a, <<x>>)
      BY <1>1 DEF u
    <2> QED
      BY <1>2, <1>3, <2>1, UpsertedOne
  <1>5. Called(w, v, a, m)
    <2>1. Moves(w.cash[Local], a, n, fee, book) /\ book[a] >= LowerOf(w.cash[Local][a], 0)
      BY DEF PaysInto
    <2>2. u.assets = w.assets /\ u.cash[Local] = book /\ \A c \in Currencies : c # Local => u.cash[c] = w.cash[c]
      BY <1>2 DEF EditsMarket
    <2>3. /\ v.cash = u.cash /\ \A b \in Accounts : b # a => v.assets[b] = u.assets[b]
          /\ \A f \in Beyond(m) : ListSum(v.assets[a], f) = ListSum(u.assets[a], f)
      BY <1>4 DEF PostsTo
    <2> QED
      BY <2>1, <2>2, <2>3 DEF Called, Moves
  <1> QED
    BY <1>4, <1>5

\* A change of liquidity: two postings.
LEMMA TradedTwo ==
  ASSUME NEW w, NEW t, NEW B, Accounted(w, t, B, Zero, Zero), NEW a \in Accounts,
         NEW m \in Maturities, NEW mk \in Market, Consistent(mk), NEW n \in Int, NEW fee \in Nat,
         NEW books, \A book \in books : PaysInto(w, a, n, fee, book),
         NEW old, old = w.markets[Key(m)], mk.totalCurrentCash = old.totalCurrentCash - n,
         NEW xs \in Seq(Posted), Len(xs) = 2, xs[1].maturity = m, xs[2].maturity = m,
         OnlyAt(xs[1], m), OnlyAt(xs[2], m),
         Share(xs[1], TokenTypes, Key(m)) = mk.totalLiquidity - old.totalLiquidity,
         Share(xs[1], CashTypes, Key(m)) = 0, Share(xs[2], TokenTypes, Key(m)) = 0,
         Share(xs[2], CashTypes, Key(m)) = old.totalfCash - mk.totalfCash,
         NEW v \in Traded(w, a, m, mk, books, xs)
  PROVE  Accounted(v, t, B, Zero, Zero) /\ Called(w, v, a, m)
  <1> DEFINE d == mk.totalLiquidity - old.totalLiquidity
             e == old.totalfCash - mk.totalfCash
             x == xs[1]
             y == xs[2]
  <1>1. PICK book \in books : v \in Upserted(WithMarket(w, Key(m), mk, book), a, xs)
    BY DEF Traded, WithMarket, Key
  <1> DEFINE u == WithMarket(w, Key(m), mk, book)
  <1>2. /\ Accounted(u, t, B, At(m, d), At(m, e)) /\ EditsMarket(w, u, m, mk, book)
        /\ d \in Int /\ e \in Int
    <2> HIDE DEF u
    <2>1. u = WithMarket(w, Key(m), mk, book) /\ Moves(w.cash[Local], a, n, fee, book)
      BY DEF u, PaysInto
    <2> QED
      BY <2>1, TradedFirst
  <1>3. /\ At(m, d) \in Tables /\ At(m, e) \in Tables /\ Zero \in Tables
        /\ WithoutBoth(At(m, d), x, y, TokenTypes, Zero)
        /\ WithoutBoth(At(m, e), x, y, CashTypes, Zero)
    <2>1. /\ Share(x, TokenTypes, Key(m)) = d /\ Share(x, CashTypes, Key(m)) = 0
          /\ Share(y, TokenTypes, Key(m)) = 0 /\ Share(y, CashTypes, Key(m)) = e
          /\ OnlyAt(x, m) /\ OnlyAt(y, m)
      OBVIOUS
    <2> HIDE DEF d, e, x, y
    <2>2. 0 \in Int /\ d + 0 = d /\ 0 + e = e
      BY <1>2
    <2>3. At(m, d) \in Tables /\ At(m, e) \in Tables /\ Zero \in Tables
      BY <1>2, AtFacts
    <2>4. WithoutBoth(At(m, d), x, y, TokenTypes, Zero)
      BY <1>2, <2>1, <2>2, AtTwo
    <2>5. WithoutBoth(At(m, e), x, y, CashTypes, Zero)
      BY <1>2, <2>1, <2>2, AtTwo
    <2> QED
      BY <2>3, <2>4, <2>5
  <1> HIDE DEF u, d, e
  <1>4. Accounted(v, t, B, Zero, Zero) /\ PostsTo(u, v, a, x.maturity)
    <2>1. v \in Upserted(u, a, xs)
      BY <1>1 DEF u
    <2> QED
      BY <1>2, <1>3, <2>1, UpsertedTwo
  <1>5. Called(w, v, a, m)
    <2>1. Moves(w.cash[Local], a, n, fee, book) /\ book[a] >= LowerOf(w.cash[Local][a], 0)
      BY DEF PaysInto
    <2>2. u.assets = w.assets /\ u.cash[Local] = book /\ \A c \in Currencies : c # Local => u.cash[c] = w.cash[c]
      BY <1>2 DEF EditsMarket
    <2>3. /\ v.cash = u.cash /\ \A b \in Accounts : b # a => v.assets[b] = u.assets[b]
          /\ \A f \in Beyond(m) : ListSum(v.assets[a], f) = ListSum(u.assets[a], f)
      BY <1>4 DEF PostsTo
    <2> QED
      BY <2>1, <2>2, <2>3 DEF Called, Moves
  <1> QED
    BY <1>4, <1>5

\* A fee is a natural number, and the books of a call leave the account no further below zero.
LEMMA FeeFacts ==
  ASSUME blockTime \in Nat, NEW m \in Maturities, blockTime < m, NEW cash \in Nat
  PROVE  Fee(cash, m) \in Nat
  <1>1. m \in Nat
    BY ConstantFacts
  <1>2. m - blockTime \in Nat
    BY <1>1
  <1>3. cash * TransactionFee \in Nat
    BY FeeAssumption, ProductNat
  <1>4. cash * TransactionFee * (m - blockTime) \in Nat
    BY <1>2, <1>3, ProductNat
  <1>5. MaturityLength * Decimals \in Nat /\ MaturityLength * Decimals > 0
    <2>1. \A x, y \in Nat : x > 0 /\ y > 0 => x * y > 0 /\ x * y \in Nat
      BY SMT
    <2> QED
      BY <2>1, DecimalsAssumption, GroupAssumption
  <1> QED
    BY <1>4, <1>5, QuotientBounds DEF Fee

\* The books that pay the market, and those that it pays, take their fee to the reserve.
LEMMA PayingBooks ==
  ASSUME NEW w \in Worlds, NEW a \in Accounts, NEW value \in Nat, NEW fee \in Int,
         NEW book \in Paying(w, a, value, fee)
  PROVE  PaysInto(w, a, -value, fee, book)
  <1>1. w.cash[Local] \in Book
    BY WorldParts, ConstantFacts
  <1>2. Moves(w.cash[Local], a, -value, fee, book) /\ book[a] >= 0
    <2>1. book \in DepositIntoMarket(w.cash[Local], MarketAccount, a, value, fee) /\ value \in Int
      BY DEF Paying
    <2> QED
      BY <1>1, <2>1, PayingFacts
  <1>3. w.cash[Local][a] \in Int /\ book[a] \in Int
    BY <1>1, <1>2, ConstantFacts DEF Moves, Book
  <1>4. book[a] >= LowerOf(w.cash[Local][a], 0)
    BY <1>2, <1>3 DEF LowerOf
  <1> QED
    BY <1>2, <1>4 DEF PaysInto

LEMMA ReceivingBooks ==
  ASSUME NEW w \in Worlds, NEW a \in Accounts, NEW value \in Nat, NEW fee \in Int, fee <= value,
         NEW book \in Receiving(w, a, value, fee)
  PROVE  PaysInto(w, a, value, fee, book)
  <1>1. w.cash[Local] \in Book
    BY WorldParts, ConstantFacts
  <1>2. Moves(w.cash[Local], a, value, fee, book)
    <2>1. book \in WithdrawFromMarket(w.cash[Local], MarketAccount, a, value, fee) /\ value \in Int
      BY DEF Receiving
    <2> QED
      BY <1>1, <2>1, ReceivingFacts
  <1>3. w.cash[Local][a] \in Int /\ book[a] = w.cash[Local][a] + value - fee
    BY <1>1, <1>2, ConstantFacts DEF Moves, Book
  <1>4. book[a] >= LowerOf(w.cash[Local][a], 0)
    BY <1>3 DEF LowerOf
  <1> QED
    BY <1>2, <1>4 DEF PaysInto

\* v is what a call of account a leaves of a world that B backs.
Leaves(w, v, B, a, m) ==
  blockTime < m /\ Accounted(v, blockTime, B, Zero, Zero) /\ Called(w, v, a, m)

\* The pool of a world.
LEMMA PoolFacts ==
  ASSUME NEW w, NEW B, Accounted(w, blockTime, B, Zero, Zero), NEW m \in Maturities,
         NEW mk, mk = w.markets[Key(m)]
  PROVE  /\ w \in Worlds /\ mk \in Market /\ Consistent(mk) /\ PoolIn(w, m) = mk
         /\ mk.totalfCash \in Nat /\ mk.totalCurrentCash \in Nat /\ mk.totalLiquidity \in Nat
  <1>1. w \in Worlds /\ Consistent(w.markets[Key(m)])
    BY DEF Accounted, Proper
  <1>2. mk \in Market
    BY <1>1, WorldParts
  <1>3. mk.totalfCash \in Nat /\ mk.totalCurrentCash \in Nat /\ mk.totalLiquidity \in Nat
    BY <1>2 DEF Market
  <1> QED
    BY <1>1, <1>2, <1>3 DEF PoolIn, Key

\* addLiquidity to an empty pool: the tokens and the debt posted are what the pool gains.
LEMMA OpenStep ==
  ASSUME blockTime \in Nat, NEW w, NEW B, Accounted(w, blockTime, B, Zero, Zero),
         NEW a \in Accounts, NEW m \in Maturities, NEW x \in Nat, NEW y \in Nat,
         NEW v \in AddsFirstLiquidity(w, a, m, x, y)
  PROVE  Leaves(w, v, B, a, m)
  <1> DEFINE old == w.markets[Key(m)]
             mk == FirstLiquidity(x, y)
             tokens == Asset(CashGroup, m, LiquidityToken, x)
             debt == Asset(CashGroup, m, CashPayer, y)
             xs == <<tokens, debt>>
             n == -x
             books == Paying(w, a, x, 0)
  <1>1. /\ w \in Worlds /\ old \in Market /\ Consistent(old) /\ PoolIn(w, m) = old
        /\ old.totalfCash \in Nat /\ old.totalCurrentCash \in Nat /\ old.totalLiquidity \in Nat
    <2> HIDE DEF old
    <2>1. old = w.markets[Key(m)]
      BY DEF old
    <2> QED
      BY <2>1, PoolFacts
  <1>2. /\ Tradeable(m) /\ PoolIn(w, m).totalLiquidity = 0 /\ HasImpliedRate(mk)
        /\ v \in Traded(w, a, m, mk, books, xs)
    BY DEF AddsFirstLiquidity
  <1>3. old.totalfCash = 0 /\ old.totalCurrentCash = 0 /\ old.totalLiquidity = 0
    BY <1>1, <1>2 DEF Consistent
  <1>4. blockTime < m
    BY <1>2 DEF Tradeable, IsValidBlock
  <1>5. /\ mk \in Market /\ Consistent(mk)
        /\ mk.totalfCash = y /\ mk.totalCurrentCash = x /\ mk.totalLiquidity = x
    BY <1>2, OpenFacts DEF FirstLiquidity
  <1>6. /\ tokens \in Posted /\ tokens.maturity = m /\ OnlyAt(tokens, m)
        /\ Share(tokens, TokenTypes, Key(m)) = x /\ Share(tokens, CashTypes, Key(m)) = 0
    BY PostingFacts DEF OnlyAt, AssetTypes
  <1>7. /\ debt \in Posted /\ debt.maturity = m /\ OnlyAt(debt, m)
        /\ Share(debt, TokenTypes, Key(m)) = 0 /\ Share(debt, CashTypes, Key(m)) = -y
    BY PostingFacts DEF OnlyAt, AssetTypes
  <1> HIDE DEF mk, tokens, debt
  <1>8. xs \in Seq(Posted) /\ Len(xs) = 2 /\ xs[1] = tokens /\ xs[2] = debt
    BY <1>6, <1>7
  <1>9. n \in Int /\ \A book \in books : PaysInto(w, a, n, 0, book)
    BY <1>1, PayingBooks
  <1>10. /\ mk.totalCurrentCash = old.totalCurrentCash - n
         /\ Share(tokens, TokenTypes, Key(m)) = mk.totalLiquidity - old.totalLiquidity
         /\ Share(debt, CashTypes, Key(m)) = old.totalfCash - mk.totalfCash
    BY <1>3, <1>5, <1>6, <1>7
  <1>11. 0 \in Nat /\ old = w.markets[Key(m)]
    OBVIOUS
  <1> HIDE DEF old, xs, n, books
  <1>12. Accounted(v, blockTime, B, Zero, Zero) /\ Called(w, v, a, m)
    BY <1>2, <1>5, <1>6, <1>7, <1>8, <1>9, <1>10, <1>11, TradedTwo
  <1> QED
    BY <1>4, <1>12 DEF Leaves

\* addLiquidity to a pool with liquidity: the provider's shares, rounded, are the pool's gains.
LEMMA JoinStep ==
  ASSUME blockTime \in Nat, NEW w, NEW B, Accounted(w, blockTime, B, Zero, Zero),
         NEW a \in Accounts, NEW m \in Maturities, NEW x \in Nat, NEW y \in Nat,
         NEW v \in AddsLiquidity(w, a, m, x, y)
  PROVE  Leaves(w, v, B, a, m)
  <1> DEFINE old == w.markets[Key(m)]
             mk == AddLiquidityTo(old, x)
             minted == TokensMinted(old, x)
             owed == fCashOwed(old, x)
             tokens == Asset(CashGroup, m, LiquidityToken, minted)
             debt == Asset(CashGroup, m, CashPayer, owed)
             xs == <<tokens, debt>>
             n == -x
             books == Paying(w, a, x, 0)
  <1>1. /\ w \in Worlds /\ old \in Market /\ Consistent(old) /\ PoolIn(w, m) = old
        /\ old.totalfCash \in Nat /\ old.totalCurrentCash \in Nat /\ old.totalLiquidity \in Nat
    <2> HIDE DEF old
    <2>1. old = w.markets[Key(m)]
      BY DEF old
    <2> QED
      BY <2>1, PoolFacts
  <1>2. /\ Tradeable(m) /\ CanJoin(old, x, y) /\ v \in Traded(w, a, m, mk, books, xs)
    <2>1. PoolIn(w, m) = old
      BY <1>1
    <2> QED
      BY <2>1 DEF AddsLiquidity
  <1>3. old.totalCurrentCash > 0
    BY <1>2 DEF CanJoin
  <1>4. blockTime < m
    BY <1>2 DEF Tradeable, IsValidBlock
  <1>5. minted \in Nat /\ owed \in Nat
    BY <1>1, <1>3, ProductNat, QuotientBounds DEF TokensMinted, fCashOwed
  <1>6. /\ mk \in Market /\ Consistent(mk) /\ mk.totalfCash = old.totalfCash + owed
        /\ mk.totalCurrentCash = old.totalCurrentCash + x
        /\ mk.totalLiquidity = old.totalLiquidity + minted
    <2>1. mk \in Market /\ Consistent(mk)
      BY <1>1, <1>3, JoinFacts
    <2> QED
      BY <2>1 DEF AddLiquidityTo
  <1> HIDE DEF mk, minted, owed
  <1>7. /\ tokens \in Posted /\ tokens.maturity = m /\ OnlyAt(tokens, m)
        /\ Share(tokens, TokenTypes, Key(m)) = minted /\ Share(tokens, CashTypes, Key(m)) = 0
    BY <1>5, PostingFacts DEF OnlyAt, AssetTypes
  <1>8. /\ debt \in Posted /\ debt.maturity = m /\ OnlyAt(debt, m)
        /\ Share(debt, TokenTypes, Key(m)) = 0 /\ Share(debt, CashTypes, Key(m)) = -owed
    BY <1>5, PostingFacts DEF OnlyAt, AssetTypes
  <1> HIDE DEF tokens, debt
  <1>9. xs \in Seq(Posted) /\ Len(xs) = 2 /\ xs[1] = tokens /\ xs[2] = debt
    BY <1>7, <1>8
  <1>10. n \in Int /\ \A book \in books : PaysInto(w, a, n, 0, book)
    BY <1>1, PayingBooks
  <1>11. /\ mk.totalCurrentCash = old.totalCurrentCash - n
         /\ Share(tokens, TokenTypes, Key(m)) = mk.totalLiquidity - old.totalLiquidity
         /\ Share(debt, CashTypes, Key(m)) = old.totalfCash - mk.totalfCash
    <2> HIDE DEF old
    <2> QED
      BY <1>1, <1>5, <1>6, <1>7, <1>8
  <1>12. 0 \in Nat /\ old = w.markets[Key(m)]
    OBVIOUS
  <1> HIDE DEF old, xs, n, books
  <1>13. Accounted(v, blockTime, B, Zero, Zero) /\ Called(w, v, a, m)
    BY <1>2, <1>6, <1>7, <1>8, <1>9, <1>10, <1>11, <1>12, TradedTwo
  <1> QED
    BY <1>4, <1>13 DEF Leaves

\* removeLiquidity: what the tokens redeem leaves the pool as cash and as an entitlement.
LEMMA RemoveStep ==
  ASSUME blockTime \in Nat, NEW w, NEW B, Accounted(w, blockTime, B, Zero, Zero),
         NEW a \in Accounts, NEW m \in Maturities, NEW x \in Nat,
         NEW v \in RemovesLiquidity(w, a, m, x)
  PROVE  Leaves(w, v, B, a, m)
  <1> DEFINE old == w.markets[Key(m)]
             mk == RedeemFrom(old, x)
             cash == CashClaim(old, x)
             owed == fCashClaim(old, x)
             tokens == Asset(CashGroup, m, LiquidityPayer, x)
             claim == Asset(CashGroup, m, CashReceiver, owed)
             xs == <<tokens, claim>>
             books == Receiving(w, a, cash, 0)
  <1>1. /\ w \in Worlds /\ old \in Market /\ Consistent(old) /\ PoolIn(w, m) = old
        /\ old.totalfCash \in Nat /\ old.totalCurrentCash \in Nat /\ old.totalLiquidity \in Nat
    <2> HIDE DEF old
    <2>1. old = w.markets[Key(m)]
      BY DEF old
    <2> QED
      BY <2>1, PoolFacts
  <1>2. blockTime < m /\ CanRedeem(old, x) /\ v \in Traded(w, a, m, mk, books, xs)
    <2>1. PoolIn(w, m) = old
      BY <1>1
    <2> QED
      BY <2>1 DEF RemovesLiquidity
  <1>3. cash \in Nat /\ owed \in Nat
    BY <1>1, <1>2, ProRata DEF CanRedeem, CashClaim, fCashClaim
  <1>4. /\ mk \in Market /\ Consistent(mk) /\ mk.totalfCash = old.totalfCash - owed
        /\ mk.totalCurrentCash = old.totalCurrentCash - cash
        /\ mk.totalLiquidity = old.totalLiquidity - x
    <2>1. mk \in Market /\ Consistent(mk)
      BY <1>1, <1>2, RedeemFacts
    <2> QED
      BY <2>1 DEF RedeemFrom
  <1> HIDE DEF mk, cash, owed
  <1>5. /\ tokens \in Posted /\ tokens.maturity = m /\ OnlyAt(tokens, m)
        /\ Share(tokens, TokenTypes, Key(m)) = -x /\ Share(tokens, CashTypes, Key(m)) = 0
    BY PostingFacts DEF OnlyAt, AssetTypes
  <1>6. /\ claim \in Posted /\ claim.maturity = m /\ OnlyAt(claim, m)
        /\ Share(claim, TokenTypes, Key(m)) = 0 /\ Share(claim, CashTypes, Key(m)) = owed
    BY <1>3, PostingFacts DEF OnlyAt, AssetTypes
  <1> HIDE DEF tokens, claim
  <1>7. xs \in Seq(Posted) /\ Len(xs) = 2 /\ xs[1] = tokens /\ xs[2] = claim
    BY <1>5, <1>6
  <1>8. cash \in Int /\ \A book \in books : PaysInto(w, a, cash, 0, book)
    <2>1. 0 \in Int /\ 0 <= cash
      BY <1>3
    <2> QED
      BY <1>1, <1>3, <2>1, ReceivingBooks
  <1>9. /\ mk.totalCurrentCash = old.totalCurrentCash - cash
        /\ Share(tokens, TokenTypes, Key(m)) = mk.totalLiquidity - old.totalLiquidity
        /\ Share(claim, CashTypes, Key(m)) = old.totalfCash - mk.totalfCash
    <2> HIDE DEF old
    <2> QED
      BY <1>1, <1>3, <1>4, <1>5, <1>6
  <1>10. 0 \in Nat /\ old = w.markets[Key(m)]
    OBVIOUS
  <1> HIDE DEF old, xs, books
  <1>11. Accounted(v, blockTime, B, Zero, Zero) /\ Called(w, v, a, m)
    BY <1>2, <1>4, <1>5, <1>6, <1>7, <1>8, <1>9, <1>10, TradedTwo
  <1> QED
    BY <1>2, <1>11 DEF Leaves

\* takeCurrentCash: the cash leaves the pool, which gains the obligation's fCash.
LEMMA BorrowStep ==
  ASSUME blockTime \in Nat, NEW w, NEW B, Accounted(w, blockTime, B, Zero, Zero),
         NEW a \in Accounts, NEW m \in Maturities, NEW fCash \in Nat, NEW cash \in Nat,
         NEW v \in TakesCurrentCash(w, a, m, fCash, cash)
  PROVE  Leaves(w, v, B, a, m)
  <1> DEFINE old == w.markets[Key(m)]
             mk == BorrowFrom(old, fCash, cash)
             fee == Fee(cash, m)
             x == Asset(CashGroup, m, CashPayer, fCash)
             books == Receiving(w, a, cash, fee)
  <1>1. /\ w \in Worlds /\ old \in Market /\ Consistent(old) /\ PoolIn(w, m) = old
        /\ old.totalfCash \in Nat /\ old.totalCurrentCash \in Nat /\ old.totalLiquidity \in Nat
    <2> HIDE DEF old
    <2>1. old = w.markets[Key(m)]
      BY DEF old
    <2> QED
      BY <2>1, PoolFacts
  <1>2. /\ Tradeable(m) /\ CanBorrow(old, fCash, cash) /\ fee < cash
        /\ v \in Traded(w, a, m, mk, books, <<x>>)
    <2>1. PoolIn(w, m) = old
      BY <1>1
    <2> QED
      BY <2>1 DEF TakesCurrentCash
  <1>3. blockTime < m
    BY <1>2 DEF Tradeable, IsValidBlock
  <1>4. fee \in Nat
    BY <1>3, FeeFacts
  <1>5. /\ mk \in Market /\ Consistent(mk) /\ mk.totalfCash = old.totalfCash + fCash
        /\ mk.totalCurrentCash = old.totalCurrentCash - cash
        /\ mk.totalLiquidity = old.totalLiquidity
    <2>1. mk \in Market /\ HasImpliedRate(mk) /\ mk.totalLiquidity = old.totalLiquidity
      BY <1>1, <1>2, TradeFacts
    <2>2. HasImpliedRate(old)
      BY <1>2 DEF CanBorrow
    <2>3. mk.totalfCash = old.totalfCash + fCash /\ mk.totalCurrentCash = old.totalCurrentCash - cash
      BY DEF BorrowFrom
    <2>4. Consistent(mk)
      <3> HIDE DEF mk, old
      <3> QED
        BY <1>1, <2>1, <2>2, RatedPool
    <2> QED
      BY <2>1, <2>3, <2>4
  <1> HIDE DEF mk, fee
  <1>6. /\ x \in Posted /\ x.maturity = m /\ OnlyAt(x, m)
        /\ Share(x, TokenTypes, Key(m)) = 0 /\ Share(x, CashTypes, Key(m)) = -fCash
    BY PostingFacts DEF OnlyAt, AssetTypes
  <1> HIDE DEF x
  <1>7. cash \in Int /\ fee \in Nat /\ \A book \in books : PaysInto(w, a, cash, fee, book)
    <2>1. fee \in Nat /\ fee \in Int /\ fee <= cash
      BY <1>2, <1>4
    <2> QED
      BY <1>1, <2>1, ReceivingBooks
  <1>8. /\ mk.totalCurrentCash = old.totalCurrentCash - cash
        /\ Share(x, TokenTypes, Key(m)) = mk.totalLiquidity - old.totalLiquidity
        /\ Share(x, CashTypes, Key(m)) = old.totalfCash - mk.totalfCash
    <2> HIDE DEF old
    <2> QED
      BY <1>1, <1>5, <1>6
  <1>9. old = w.markets[Key(m)]
    OBVIOUS
  <1> HIDE DEF old, books
  <1>10. Accounted(v, blockTime, B, Zero, Zero) /\ Called(w, v, a, m)
    BY <1>2, <1>5, <1>6, <1>7, <1>8, <1>9, TradedOne
  <1> QED
    BY <1>3, <1>10 DEF Leaves

\* takefCash: the cash joins the pool, which loses the entitlement's fCash.
LEMMA LendStep ==
  ASSUME blockTime \in Nat, NEW w, NEW B, Accounted(w, blockTime, B, Zero, Zero),
         NEW a \in Accounts, NEW m \in Maturities, NEW fCash \in Nat, NEW cash \in Nat,
         NEW v \in TakesfCash(w, a, m, fCash, cash)
  PROVE  Leaves(w, v, B, a, m)
  <1> DEFINE old == w.markets[Key(m)]
             mk == LendTo(old, fCash, cash)
             fee == Fee(cash, m)
             x == Asset(CashGroup, m, CashReceiver, fCash)
             books == Paying(w, a, cash, fee)
             n == -cash
  <1>1. /\ w \in Worlds /\ old \in Market /\ Consistent(old) /\ PoolIn(w, m) = old
        /\ old.totalfCash \in Nat /\ old.totalCurrentCash \in Nat /\ old.totalLiquidity \in Nat
    <2> HIDE DEF old
    <2>1. old = w.markets[Key(m)]
      BY DEF old
    <2> QED
      BY <2>1, PoolFacts
  <1>2. CanTakefCash(old, m, fCash, cash) /\ v \in Traded(w, a, m, mk, books, <<x>>)
    <2>1. PoolIn(w, m) = old
      BY <1>1
    <2> QED
      BY <2>1 DEF TakesfCash
  <1>3. Tradeable(m) /\ CanLend(old, fCash, cash)
    BY <1>2 DEF CanTakefCash
  <1>4. blockTime < m
    BY <1>3 DEF Tradeable, IsValidBlock
  <1>5. fee \in Nat
    BY <1>4, FeeFacts
  <1>6. /\ mk \in Market /\ Consistent(mk) /\ mk.totalfCash = old.totalfCash - fCash
        /\ mk.totalCurrentCash = old.totalCurrentCash + cash
        /\ mk.totalLiquidity = old.totalLiquidity
    <2>1. mk \in Market /\ HasImpliedRate(mk) /\ mk.totalLiquidity = old.totalLiquidity
      BY <1>1, <1>3, TradeFacts
    <2>2. HasImpliedRate(old)
      BY <1>3 DEF CanLend
    <2>3. mk.totalfCash = old.totalfCash - fCash /\ mk.totalCurrentCash = old.totalCurrentCash + cash
      BY DEF LendTo
    <2>4. Consistent(mk)
      <3> HIDE DEF mk, old
      <3> QED
        BY <1>1, <2>1, <2>2, RatedPool
    <2> QED
      BY <2>1, <2>3, <2>4
  <1> HIDE DEF mk, fee
  <1>7. /\ x \in Posted /\ x.maturity = m /\ OnlyAt(x, m)
        /\ Share(x, TokenTypes, Key(m)) = 0 /\ Share(x, CashTypes, Key(m)) = fCash
    BY PostingFacts DEF OnlyAt, AssetTypes
  <1> HIDE DEF x
  <1>8. n \in Int /\ fee \in Nat /\ \A book \in books : PaysInto(w, a, n, fee, book)
    <2>1. fee \in Nat /\ fee \in Int
      BY <1>5
    <2> QED
      BY <1>1, <2>1, PayingBooks
  <1>9. /\ mk.totalCurrentCash = old.totalCurrentCash - n
        /\ Share(x, TokenTypes, Key(m)) = mk.totalLiquidity - old.totalLiquidity
        /\ Share(x, CashTypes, Key(m)) = old.totalfCash - mk.totalfCash
    <2> HIDE DEF old
    <2> QED
      BY <1>1, <1>6, <1>7
  <1>10. old = w.markets[Key(m)]
    OBVIOUS
  <1> HIDE DEF old, books, n
  <1>11. Accounted(v, blockTime, B, Zero, Zero) /\ Called(w, v, a, m)
    BY <1>2, <1>6, <1>7, <1>8, <1>9, <1>10, TradedOne
  <1> QED
    BY <1>4, <1>11 DEF Leaves

(****************************************************************************)
(* What a transaction may leave: every account is as solvent as it was, up  *)
(* to the obligations that have matured.                                    *)
(****************************************************************************)
Matured == [x \in Stored |-> IF MaturedPayer(x) THEN x.notional ELSE 0]

Owing(w, a) == ListSum(w.assets[a], Matured)

\* v owes what w does, and its balances are no further below zero.
Keeps(w, v) ==
  \A a \in Accounts :
    /\ Owing(v, a) = Owing(w, a)
    /\ \A c \in Currencies : v.cash[c][a] >= LowerOf(w.cash[c][a], 0)

\* v's balances are further below zero than w's by no more than w's matured obligations.
Bears(w, v) ==
  \A a \in Accounts, c \in Currencies :
    v.cash[c][a] >= LowerOf(w.cash[c][a], 0) - IF c = Local THEN Owing(w, a) ELSE 0

\* The obligations of a list are a natural number, and none are left when it has been settled.
LEMMA MaturedFacts ==
  ASSUME NEW p \in Seq(Stored)
  PROVE  /\ Matured \in [Stored -> Int] /\ ListSum(p, Matured) \in Nat
         /\ (\A i \in DOMAIN p : ~(p[i].maturity <= blockTime)) => ListSum(p, Matured) = 0
         /\ (\A i \in DOMAIN p : p[i].maturity <= blockTime) => ListSum(p, Matured) = ListSum(p, Debts)
  <1>1. \A x \in Stored : /\ Matured[x] \in Nat
                          /\ ~(x.maturity <= blockTime) => Matured[x] = 0
                          /\ x.maturity <= blockTime => Matured[x] = Debts[x]
    <2>1. \A x \in Stored : x.notional \in Nat
      BY StoredFacts
    <2> QED
      BY <2>1 DEF Matured, MaturedPayer, Debts, Owed
  <1>2. Matured \in [Stored -> Int]
    <2>1. Matured = [x \in Stored |-> Matured[x]]
      BY DEF Matured
    <2> QED
      BY <1>1, <2>1
  <1> DEFINE f == [i \in DOMAIN p |-> Matured[p[i]]]
             g == [i \in DOMAIN p |-> Debts[p[i]]]
  <1>3. \A i \in DOMAIN p : p[i] \in Stored
    OBVIOUS
  <1>4. f \in [DOMAIN p -> Nat]
    BY <1>1, <1>3
  <1>5. ListSum(p, Matured) \in Nat
    <2>1. IsFiniteSet(DOMAIN p)
      BY <1>2, ListFacts
    <2> QED
      BY <1>4, <2>1, SumNat DEF ListSum
  <1>6. ASSUME \A i \in DOMAIN p : ~(p[i].maturity <= blockTime)
        PROVE  ListSum(p, Matured) = 0
    <2>1. \A i \in DOMAIN p : Matured[p[i]] = 0
      BY <1>1, <1>3, <1>6
    <2> QED
      BY <1>2, <2>1, ListFacts
  <1>7. ASSUME \A i \in DOMAIN p : p[i].maturity <= blockTime
        PROVE  ListSum(p, Matured) = ListSum(p, Debts)
    <2>1. f = g
      BY <1>1, <1>3, <1>7
    <2> QED
      BY <2>1 DEF ListSum
  <1> QED
    BY <1>2, <1>5, <1>6, <1>7

\* What a world owes.
LEMMA OwingFacts ==
  ASSUME NEW w \in Worlds, NEW a \in Accounts
  PROVE  /\ Owing(w, a) \in Nat /\ \A c \in Currencies : w.cash[c][a] \in Int
         /\ w.assets[a] \in Seq(Stored)
  <1>1. w.assets[a] \in Seq(Stored) /\ \A c \in Currencies : w.cash[c] \in Book
    BY WorldParts DEF Portfolio, Stored
  <1>2. \A c \in Currencies : w.cash[c][a] \in Int
    BY <1>1, ConstantFacts DEF Book
  <1> QED
    BY <1>1, <1>2, MaturedFacts DEF Owing

\* Assets of a maturity to come are no matured obligations.
LEMMA MaturedBeyond ==
  ASSUME blockTime \in Int, NEW m \in Maturities, blockTime < m
  PROVE  Matured \in Beyond(m)
  <1>1. Matured \in [Stored -> Int]
    <2>1. << >> \in Seq(Stored)
      OBVIOUS
    <2> QED
      BY <2>1, MaturedFacts
  <1>2. \A x \in Stored : x.maturity = m => Matured[x] = 0
    <2>1. m \in Int
      BY ConstantFacts
    <2>2. ~(m <= blockTime)
      BY <2>1
    <2> QED
      BY <2>2 DEF Matured, MaturedPayer
  <1> QED
    BY <1>1, <1>2 DEF Beyond

\* A call in the market, and a posting, keep the account's standing.
LEMMA CalledKeeps ==
  ASSUME blockTime \in Int, NEW w \in Worlds, NEW v \in Worlds, NEW a \in Accounts,
         NEW m \in Maturities, blockTime < m, Called(w, v, a, m)
  PROVE  Keeps(w, v)
  <1>1. /\ \A b \in Accounts : b # a => v.assets[b] = w.assets[b]
        /\ ListSum(v.assets[a], Matured) = ListSum(w.assets[a], Matured)
        /\ \A c \in Currencies : c # Local => v.cash[c] = w.cash[c]
        /\ \A b \in Accounts : b # a => v.cash[Local][b] = w.cash[Local][b]
        /\ v.cash[Local][a] >= LowerOf(w.cash[Local][a], 0)
    BY MaturedBeyond DEF Called
  <1>2. \A b \in Accounts : Owing(v, b) = Owing(w, b)
    BY <1>1 DEF Owing
  <1>3. ASSUME NEW b \in Accounts, NEW c \in Currencies
        PROVE  v.cash[c][b] >= LowerOf(w.cash[c][b], 0)
    <2>1. w.cash[c][b] \in Int
      BY OwingFacts
    <2>2. w.cash[c][b] >= LowerOf(w.cash[c][b], 0)
      BY <2>1 DEF LowerOf
    <2> QED
      BY <1>1, <2>2
  <1> QED
    BY <1>2, <1>3 DEF Keeps

\* A call that posts to one account overdraws nobody.
LEMMA PostsToKeeps ==
  ASSUME blockTime \in Int, NEW w \in Worlds, NEW v \in Worlds, NEW a \in Accounts,
         NEW m \in Maturities, blockTime < m, PostsTo(w, v, a, m)
  PROVE  Keeps(w, v)
  <1>1. \A c \in Currencies : w.cash[c][a] \in Int
    BY OwingFacts
  <1>2. w.cash[Local][a] >= LowerOf(w.cash[Local][a], 0)
    BY <1>1, ConstantFacts DEF LowerOf
  <1>3. Called(w, v, a, m)
    BY <1>2 DEF PostsTo, Called
  <1> QED
    BY <1>3, CalledKeeps

\* Keeping the accounts whole is transitive, and reflexive.
LEMMA KeepsChain ==
  ASSUME NEW u \in Worlds, NEW v \in Worlds, NEW w \in Worlds, Keeps(u, v), Keeps(v, w)
  PROVE  Keeps(u, w)
  <1> SUFFICES ASSUME NEW a \in Accounts
               PROVE  /\ Owing(w, a) = Owing(u, a)
                      /\ \A c \in Currencies : w.cash[c][a] >= LowerOf(u.cash[c][a], 0)
    BY DEF Keeps
  <1>1. Owing(w, a) = Owing(u, a)
    BY DEF Keeps
  <1>2. ASSUME NEW c \in Currencies
        PROVE  w.cash[c][a] >= LowerOf(u.cash[c][a], 0)
    <2>1. u.cash[c][a] \in Int /\ v.cash[c][a] \in Int /\ w.cash[c][a] \in Int
      BY OwingFacts
    <2>2. v.cash[c][a] >= LowerOf(u.cash[c][a], 0) /\ w.cash[c][a] >= LowerOf(v.cash[c][a], 0)
      BY DEF Keeps
    <2> QED
      BY <2>1, <2>2 DEF LowerOf
  <1> QED
    BY <1>1, <1>2

LEMMA KeepsItself ==
  ASSUME NEW w \in Worlds
  PROVE  Keeps(w, w)
  <1>1. \A a \in Accounts, c \in Currencies : w.cash[c][a] \in Int
    BY OwingFacts
  <1> QED
    BY <1>1 DEF Keeps, LowerOf

\* What settling a list may cost is what is owed on its matured obligations.
LEMMA SettleCost ==
  ASSUME NEW p \in Seq(Stored), NoDuplicates(p), NEW loop, loop = SettleLoop(p, blockTime)
  PROVE  ListSum(loop.settled, Debts) = ListSum(p, Matured)
  <1>1. /\ loop.portfolio \in Seq(Stored) /\ loop.settled \in Seq(Stored)
        /\ \A j \in DOMAIN loop.portfolio : ~(loop.portfolio[j].maturity <= blockTime)
        /\ \A j \in DOMAIN loop.settled : loop.settled[j].maturity <= blockTime
    BY SettleFacts DEF Stored
  <1>2. /\ Matured \in [Stored -> Int] /\ ListSum(loop.settled, Matured) = ListSum(loop.settled, Debts)
        /\ ListSum(loop.portfolio, Matured) = 0 /\ ListSum(loop.settled, Matured) \in Nat
    BY <1>1, MaturedFacts
  <1>3. ListSum(loop.portfolio, Matured) + ListSum(loop.settled, Matured) = ListSum(p, Matured)
    <2>1. \A G, M : p \in Seq(Entries(G, M)) /\ Matured \in [Entries(G, M) -> Int] =>
            ListSum(loop.portfolio, Matured) + ListSum(loop.settled, Matured) = ListSum(p, Matured)
      BY SettleSums
    <2> QED
      BY <1>2, <2>1 DEF Stored
  <1> QED
    BY <1>2, <1>3

\* Settlement collects the account's matured obligations and no more.
LEMMA SettledBears ==
  ASSUME NEW w \in Worlds, NEW u, NEW t, NEW B, Accounted(u, t, B, Zero, Zero), Keeps(w, u),
         NEW a \in Accounts, NEW s \in Worlds, IsSettled(u, a, s)
  PROVE  Bears(w, s)
  <1> DEFINE loop == SettleLoop(u.assets[a], blockTime)
             xs == loop.settled
  <1>1. u \in Worlds /\ u.assets[a] \in Seq(Stored) /\ NoDuplicates(u.assets[a])
    BY OwingFacts DEF Accounted, Proper
  <1>3. /\ \A c \in Currencies : c # Local => s.cash[c] = u.cash[c]
        /\ \A b \in Accounts : b # a => s.cash[Local][b] = u.cash[Local][b]
        /\ s.cash[Local][a] >= u.cash[Local][a] - ListSum(xs, Debts)
    BY DEF IsSettled
  <1>4. ListSum(xs, Debts) = Owing(u, a)
    <2> HIDE DEF loop
    <2>1. loop = SettleLoop(u.assets[a], blockTime)
      BY DEF loop
    <2> QED
      BY <1>1, <2>1, SettleCost DEF Owing
  <1> HIDE DEF loop, xs
  <1> SUFFICES ASSUME NEW b \in Accounts, NEW c \in Currencies
               PROVE  s.cash[c][b]
                        >= LowerOf(w.cash[c][b], 0) - IF c = Local THEN Owing(w, b) ELSE 0
    BY DEF Bears
  <1> DEFINE low == LowerOf(w.cash[c][b], 0)
             debt == Owing(w, b)
             old == u.cash[c][b]
             new == s.cash[c][b]
  <1>5. /\ low \in Int /\ debt \in Nat /\ old \in Int /\ new \in Int /\ old >= low
    <2>1. w.cash[c][b] \in Int
      BY OwingFacts
    <2>2. low \in Int
      BY <2>1 DEF LowerOf
    <2> QED
      BY <1>1, <2>2, OwingFacts DEF Keeps
  <1>6. CASE b = a /\ c = Local
    <2>1. Owing(u, a) = debt
      BY <1>6 DEF Keeps
    <2>2. new >= old - debt
      BY <1>3, <1>4, <1>6, <2>1
    <2> HIDE DEF low, debt, old, new
    <2>3. new >= low - debt
      BY <1>5, <2>2
    <2> QED
      BY <1>6, <2>3 DEF low, debt, new
  <1>7. CASE ~(b = a /\ c = Local)
    <2>1. new = old
      BY <1>3, <1>7
    <2> HIDE DEF low, debt, old, new
    <2>2. new >= low - debt /\ new >= low - 0
      BY <1>5, <2>1
    <2> QED
      BY <2>2 DEF low, debt, new
  <1> QED
    BY <1>6, <1>7

(****************************************************************************)
(* The inductive invariant: between transactions, nothing is on its way.    *)
(****************************************************************************)
IInv ==
  /\ blockTime \in 0 .. MaxTime
  /\ ethRate \in [Currencies \ {Ether} -> Answers]
  /\ custody \in [Currencies -> Nat]
  /\ Accounted(World, blockTime, custody, Zero, Zero)

\* w may be committed with the tokens E in custody.
Sound(w, E) == Accounted(w, blockTime, E, Zero, Zero) /\ Bears(World, w)

\* The obligations that DebtStep counts are the ones that a world owes.
LEMMA MaturedDebtFacts ==
  ASSUME World \in Worlds, NEW a \in Accounts
  PROVE  MaturedDebt(a) = Owing(World, a)
  <1> DEFINE p == accountAssets[a]
             f == [i \in DOMAIN p |-> IF MaturedPayer(p[i]) THEN p[i].notional ELSE 0]
             g == [i \in DOMAIN p |-> Matured[p[i]]]
  <1>1. p \in Seq(Stored) /\ World.assets[a] = p
    <2>1. World.assets[a] \in Seq(Stored)
      BY OwingFacts
    <2> QED
      BY <2>1 DEF World
  <1> HIDE DEF p
  <1>2. \A i \in DOMAIN p : p[i] \in Stored
    BY <1>1
  <1>3. f = g
    BY <1>2 DEF Matured
  <1>4. MaturedDebt(a) = Total(f)
    BY DEF MaturedDebt, p
  <1>5. Owing(World, a) = SumOf(g, DOMAIN p)
    BY <1>1 DEF Owing, ListSum
  <1>6. g \in [DOMAIN p -> {g[i] : i \in DOMAIN p}]
    OBVIOUS
  <1> HIDE DEF f, g
  <1> QED
    BY <1>3, <1>4, <1>5, <1>6, TotalSum

\* A world that is committed becomes the state.
LEMMA CommitStep ==
  ASSUME IInv, NEW w, NEW held \in [Currencies -> Int], CommitTokens(w, held), Sound(w, held)
  PROVE  IInv' /\ DebtStep
  <1>1. /\ \A c \in Currencies : held[c] \in 0 .. MaxCustody
        /\ accountAssets' = w.assets /\ markets' = w.markets /\ cashBalances' = w.cash
        /\ custody' = held /\ blockTime' = blockTime /\ ethRate' = ethRate
    BY DEF CommitTokens
  <1>2. Accounted(w, blockTime, held, Zero, Zero) /\ Bears(World, w) /\ w \in Worlds /\ World \in Worlds
    BY DEF Sound, Accounted, IInv
  <1>3. World' = w
    BY <1>1, <1>2 DEF World, Worlds
  <1>4. custody' \in [Currencies -> Nat]
    BY <1>1
  <1>5. IInv'
    BY <1>1, <1>2, <1>3, <1>4 DEF IInv
  <1>6. DebtStep
    <2> SUFFICES ASSUME NEW c \in Currencies, NEW a \in Accounts
                 PROVE  cashBalances'[c][a] >=
                          LowerOf(cashBalances[c][a], 0) - IF c = Local THEN MaturedDebt(a) ELSE 0
      BY DEF DebtStep
    <2>1. World.cash[c][a] = cashBalances[c][a]
      BY DEF World
    <2>2. MaturedDebt(a) = Owing(World, a)
      BY <1>2, MaturedDebtFacts
    <2>3. w.cash[c][a] >= LowerOf(World.cash[c][a], 0) - IF c = Local THEN Owing(World, a) ELSE 0
      BY <1>2 DEF Bears
    <2> QED
      BY <1>1, <2>1, <2>2, <2>3
  <1> QED
    BY <1>5, <1>6

\* With n tokens of one currency entering or leaving.
LEMMA CommitOne ==
  ASSUME IInv, NEW w, NEW c \in Currencies, NEW n \in Int, Commit(w, c, n),
         NEW E, E = [custody EXCEPT ![c] = @ + n], Sound(w, E)
  PROVE  IInv' /\ DebtStep
  <1>1. E \in [Currencies -> Int]
    BY DEF IInv
  <1>2. CommitTokens(w, E)
    BY DEF Commit
  <1> QED
    BY <1>1, <1>2, CommitStep

\* With none.
LEMMA CommitNone ==
  ASSUME IInv, NEW w, NEW c \in Currencies, Commit(w, c, 0), Sound(w, custody)
  PROVE  IInv' /\ DebtStep
  <1> DEFINE E == [custody EXCEPT ![c] = @ + 0]
  <1>1. E = custody
    BY DEF IInv
  <1>2. 0 \in Int
    OBVIOUS
  <1> HIDE DEF E
  <1> QED
    BY <1>1, <1>2, CommitOne DEF E

\* An account is settled and the transaction committed.
LEMMA SettledSound ==
  ASSUME IInv, NEW w, NEW B, Accounted(w, blockTime, B, Zero, Zero), Keeps(World, w),
         NEW a \in Accounts, NEW s \in Settled(w, a)
  PROVE  Sound(s, B)
  <1>1. blockTime \in Int /\ World \in Worlds
    BY DEF IInv, Accounted
  <1>2. Accounted(s, blockTime, B, Zero, Zero) /\ IsSettled(w, a, s)
    BY <1>1, SettledStep
  <1>3. s \in Worlds
    BY <1>2 DEF Accounted
  <1> QED
    BY <1>1, <1>2, <1>3, SettledBears DEF Sound

\* A call that ends with the check of its account.
LEMMA CompletesStep ==
  ASSUME IInv, NEW worlds, NEW a \in Accounts, Completes(worlds, a),
         \A w \in worlds : Accounted(w, blockTime, custody, Zero, Zero) /\ Keeps(World, w)
  PROVE  IInv' /\ DebtStep
  <1>1. PICK w \in worlds : \E s \in Checked(w, a) : Commit(s, Local, 0)
    BY DEF Completes
  <1>2. PICK s \in Settled(w, a) : Commit(s, Local, 0)
    BY <1>1 DEF Checked
  <1>3. Accounted(w, blockTime, custody, Zero, Zero) /\ Keeps(World, w)
    BY <1>1
  <1>4. Sound(s, custody)
    BY <1>2, <1>3, SettledSound
  <1> QED
    BY <1>2, <1>4, CommitNone, ConstantFacts

\* A call in the market leaves worlds that it may complete.
LEMMA LeavesKeeps ==
  ASSUME IInv, NEW w, NEW a \in Accounts, NEW m \in Maturities, Leaves(World, w, custody, a, m)
  PROVE  Accounted(w, blockTime, custody, Zero, Zero) /\ Keeps(World, w)
  <1>1. blockTime \in Int /\ World \in Worlds
    BY DEF IInv, Accounted
  <1>2. /\ blockTime < m /\ Accounted(w, blockTime, custody, Zero, Zero) /\ Called(World, w, a, m)
        /\ w \in Worlds
    BY DEF Leaves, Accounted
  <1> QED
    BY <1>1, <1>2, CalledKeeps

\* Balances that stay are not overdrawn.
LEMMA UnchangedDebt ==
  ASSUME World \in Worlds, cashBalances' = cashBalances
  PROVE  DebtStep
  <1> SUFFICES ASSUME NEW c \in Currencies, NEW a \in Accounts
               PROVE  cashBalances'[c][a] >=
                        LowerOf(cashBalances[c][a], 0) - IF c = Local THEN MaturedDebt(a) ELSE 0
    BY DEF DebtStep
  <1> DEFINE x == cashBalances[c][a]
             y == MaturedDebt(a)
  <1>1. x \in Int /\ y \in Nat
    <2>1. World.cash[c][a] \in Int /\ Owing(World, a) \in Nat
      BY OwingFacts
    <2> QED
      BY <2>1, MaturedDebtFacts DEF World
  <1> HIDE DEF y
  <1>2. x >= LowerOf(x, 0) - y /\ x >= LowerOf(x, 0) - 0
    BY <1>1 DEF LowerOf
  <1> QED
    BY <1>2 DEF y

(****************************************************************************)
(* The steps of the specification.                                          *)
(****************************************************************************)

\* At first there is nothing to account for.
LEMMA InitStep ==
  ASSUME Init
  PROVE  IInv
  <1>1. /\ blockTime = 0 /\ ethRate \in [Currencies \ {Ether} -> Answers]
        /\ accountAssets = [a \in Accounts |-> << >>]
        /\ markets = [k \in Instruments |-> EmptyMarket]
        /\ cashBalances = [c \in Currencies |-> [h \in Holders |-> 0]]
        /\ custody = [c \in Currencies |-> 0]
    BY DEF Init
  <1> DEFINE w == World
  <1>2. /\ \A a \in Accounts : w.assets[a] = << >>
        /\ \A m \in Maturities : w.markets[Key(m)] = EmptyMarket
        /\ \A c \in Currencies, h \in Holders : w.cash[c][h] = 0
    BY <1>1 DEF World, Instruments, Key
  <1>3. w \in Worlds
    <2>1. << >> \in Portfolio /\ EmptyMarket \in Market /\ 0 \in Int
      BY DEF Portfolio, EmptyMarket, Market
    <2> QED
      BY <1>1, <2>1 DEF World, Worlds, Book
  <1> HIDE DEF w
  <1>4. Proper(w)
    <2>1. NoDuplicates(<< >>) /\ Len(<< >>) <= MaxAssets + 1
      BY MaxAssetsAssumption DEF NoDuplicates
    <2>2. Consistent(EmptyMarket)
      BY DEF Consistent, EmptyMarket
    <2> QED
      BY <1>2, <2>1, <2>2, ConstantFacts DEF Proper
  <1>5. \A types, k : HeldBy(w.assets, types, k) = 0
    <2> SUFFICES ASSUME NEW types, NEW k
                 PROVE  HeldBy(w.assets, types, k) = 0
      OBVIOUS
    <2>1. \A a \in Accounts : Row(w.assets, types, k)[a] = 0
      BY <1>2, EmptyPosition DEF Row
    <2>2. /\ Row(w.assets, types, k) \in [Accounts -> Int]
          /\ HeldBy(w.assets, types, k) = SumOf(Row(w.assets, types, k), Accounts)
      BY <1>3, HeldFacts
    <2> QED
      BY <2>1, <2>2, ConstantFacts, SumType
  <1>6. /\ EmptyMarket.totalfCash = 0 /\ EmptyMarket.totalCurrentCash = 0
        /\ EmptyMarket.totalLiquidity = 0
    BY DEF EmptyMarket
  <1>7. Zero \in Tables /\ \A m \in Maturities : Zero[m] = 0
    BY DEF Zero, Tables
  <1>8. SupplyMatches(w, Zero)
    BY <1>2, <1>5, <1>6, <1>7 DEF SupplyMatches
  <1>9. \A m \in Maturities : NetOf(w, Zero, m) = 0 /\ CashTable(w)[m] = 0 /\ NetTable(w, Zero)[m] = 0
    BY <1>2, <1>5, <1>6, <1>7 DEF NetOf, CashTable, NetTable
  <1>10. SumOf(CashTable(w), Maturities) = 0 /\ SumOf(NetTable(w, Zero), Maturities) = 0
    <2>1. CashTable(w) \in [Maturities -> Int] /\ NetTable(w, Zero) \in [Maturities -> Int]
      BY <1>3, <1>7, TableFacts DEF Tables
    <2> QED
      BY <1>9, <2>1, ConstantFacts, SumType
  <1>11. CashMatches(w)
    BY <1>2, <1>10, ConstantFacts DEF CashMatches
  <1>12. NetsOut(w, blockTime, Zero)
    BY <1>9 DEF NetsOut
  <1>13. Backed(w, custody, Zero)
    <2>1. \A c \in Currencies : SumOf(w.cash[c], Holders) = 0
      <3>1. \A c \in Currencies : w.cash[c] \in [Holders -> Int]
        BY <1>3, WorldParts DEF Book
      <3> QED
        BY <1>2, <3>1, ConstantFacts, SumType
    <2> QED
      BY <1>1, <1>10, <2>1 DEF Backed, Backing
  <1>14. Accounted(World, blockTime, custody, Zero, Zero)
    BY <1>3, <1>4, <1>8, <1>11, <1>12, <1>13 DEF Accounted, w
  <1>15. blockTime \in 0 .. MaxTime /\ custody \in [Currencies -> Nat]
    BY <1>1, MaxTimeAssumption
  <1> QED
    BY <1>1, <1>14, <1>15 DEF IInv

\* Time passes: fewer maturities have to net out.
LEMMA TickStep ==
  ASSUME IInv, Tick
  PROVE  IInv' /\ DebtStep
  <1>1. /\ blockTime \in 0 .. MaxTime /\ blockTime < MaxTime /\ blockTime' = blockTime + 1
        /\ ethRate' = ethRate /\ custody' = custody /\ cashBalances' = cashBalances
    BY DEF IInv, Tick
  <1>2. World' = World
    BY DEF Tick, World
  <1>3. Accounted(World, blockTime, custody, Zero, Zero)
    BY DEF IInv
  <1>4. blockTime + 1 \in 0 .. MaxTime
    BY <1>1, MaxTimeAssumption
  <1>5. NetsOut(World, blockTime + 1, Zero)
    <2>1. \A m \in Maturities : blockTime + 1 < m => blockTime < m
      BY <1>1, ConstantFacts
    <2> QED
      BY <1>3, <2>1 DEF Accounted, NetsOut
  <1>6. Accounted(World, blockTime + 1, custody, Zero, Zero)
    BY <1>3, <1>5 DEF Accounted
  <1>7. IInv'
    BY <1>1, <1>2, <1>4, <1>6 DEF IInv
  <1>8. DebtStep
    BY <1>1, <1>3, UnchangedDebt DEF Accounted
  <1> QED
    BY <1>7, <1>8

\* An oracle answers: nothing else changes.
LEMMA RateStep ==
  ASSUME IInv, RateMoves
  PROVE  IInv' /\ DebtStep
  <1>1. PICK c \in Currencies \ {Ether}, answer \in Answers : ethRate' = [ethRate EXCEPT ![c] = answer]
    BY DEF RateMoves
  <1>2. /\ blockTime' = blockTime /\ custody' = custody /\ cashBalances' = cashBalances
        /\ World' = World
    BY DEF RateMoves, World
  <1>3. ethRate' \in [Currencies \ {Ether} -> Answers]
    BY <1>1 DEF IInv
  <1>4. IInv'
    BY <1>2, <1>3 DEF IInv
  <1>5. DebtStep
    BY <1>2, UnchangedDebt DEF IInv, Accounted
  <1> QED
    BY <1>4, <1>5

\* A user's or the reserve's balance changes with the tokens that back it.
LEMMA CreditStep ==
  ASSUME NEW w, NEW t, NEW B, Accounted(w, t, B, Zero, Zero), NEW c \in Currencies,
         NEW h \in Accounts \cup {Reserve}, NEW n \in Int, h = Reserve => n >= 0,
         NEW book, book = Credit(w.cash[c], h, n), NEW v, v = WithBook(w, c, book),
         NEW E, \A d \in Currencies : d # c => E[d] = B[d], E[c] = B[c] + n
  PROVE  /\ Accounted(v, t, E, Zero, Zero) /\ v \in Worlds /\ v.assets = w.assets
         /\ v.cash[c][h] = w.cash[c][h] + n
         /\ \A a \in Accounts : a # h => v.cash[c][a] = w.cash[c][a]
         /\ \A d \in Currencies : d # c => v.cash[d] = w.cash[d]
  <1>1. w \in Worlds /\ Proper(w) /\ w.cash[c] \in Book /\ Zero \in Tables
    BY WorldParts DEF Accounted, Zero, Tables
  <1>2. h \in Holders /\ h # MarketAccount
    BY ConstantFacts
  <1>3. /\ book \in Book /\ book[h] = w.cash[c][h] + n
        /\ \A x \in Holders : x # h => book[x] = w.cash[c][x]
        /\ \A x \in Holders : w.cash[c][x] \in Int
        /\ SumOf(w.cash[c], Holders) \in Int
        /\ SumOf(book, Holders) = SumOf(w.cash[c], Holders) + n
    <2>1. Credited(w.cash[c], h, n, book)
      BY <1>1, <1>2, CreditFacts
    <2> QED
      BY <2>1 DEF Credited
  <1>4. EditsBook(w, v, c, book)
    BY <1>1, <1>3, EditFacts
  <1>5. book[MarketAccount] = w.cash[c][MarketAccount]
    BY <1>2, <1>3, ConstantFacts
  <1>6. book[Reserve] >= 0
    <2>1. w.cash[c][Reserve] \in Int /\ w.cash[c][Reserve] >= 0
      BY <1>1, <1>3, ConstantFacts DEF Proper
    <2> QED
      BY <1>3, <2>1, ConstantFacts
  <1>7. E[c] = B[c] + (SumOf(book, Holders) - SumOf(w.cash[c], Holders))
    BY <1>3
  <1>8. Accounted(v, t, E, Zero, Zero)
    BY <1>1, <1>3, <1>4, <1>5, <1>6, <1>7, BookStep
  <1> QED
    BY <1>3, <1>4, <1>8, ConstantFacts DEF EditsBook

\* The tokens in custody when n of currency c enter or leave.
WithTokens(c, n) == [custody EXCEPT ![c] = @ + n]

\* The tokens after a deposit or a withdrawal.
LEMMA CustodyFacts ==
  ASSUME IInv, NEW c \in Currencies, NEW n \in Int
  PROVE  /\ WithTokens(c, n)[c] = custody[c] + n
         /\ \A d \in Currencies : d # c => WithTokens(c, n)[d] = custody[d]
  BY DEF IInv, WithTokens

\* What a sound state bears and keeps.
LEMMA NowFacts ==
  ASSUME IInv
  PROVE  /\ blockTime \in Nat /\ World \in Worlds /\ Keeps(World, World)
         /\ Accounted(World, blockTime, custody, Zero, Zero)
  <1>1. blockTime \in Nat /\ World \in Worlds /\ Accounted(World, blockTime, custody, Zero, Zero)
    BY DEF IInv, Accounted
  <1> QED
    BY <1>1, KeepsItself

\* A world that keeps also bears.
LEMMA KeepsBears ==
  ASSUME NEW w \in Worlds, NEW v \in Worlds, Keeps(w, v)
  PROVE  Bears(w, v)
  <1> SUFFICES ASSUME NEW a \in Accounts, NEW c \in Currencies
               PROVE  v.cash[c][a] >= LowerOf(w.cash[c][a], 0) - IF c = Local THEN Owing(w, a) ELSE 0
    BY DEF Bears
  <1> DEFINE x == LowerOf(w.cash[c][a], 0)
             y == Owing(w, a)
             z == v.cash[c][a]
  <1>1. z >= x /\ y \in Nat /\ z \in Int /\ w.cash[c][a] \in Int
    BY OwingFacts DEF Keeps
  <1>2. x \in Int
    BY <1>1 DEF LowerOf
  <1> HIDE DEF x, y, z
  <1>3. z >= x - y /\ z >= x - 0
    BY <1>1, <1>2
  <1> QED
    BY <1>3 DEF x, y, z

\* A deposit enters custody and the balance alike.
LEMMA DepositStep ==
  ASSUME IInv, NEW h \in Accounts \cup {Reserve}, NEW c \in Currencies, NEW n \in Nat, Deposit(h, c, n)
  PROVE  IInv' /\ DebtStep
  <1> DEFINE w == WithBook(World, c, Credit(World.cash[c], h, n))
             E == WithTokens(c, n)
  <1>1. Commit(w, c, n)
    BY DEF Deposit, WithBook
  <1>2. E[c] = custody[c] + n /\ \A d \in Currencies : d # c => E[d] = custody[d]
    BY CustodyFacts
  <1> HIDE DEF E
  <1>3. /\ Accounted(w, blockTime, E, Zero, Zero) /\ w \in Worlds /\ w.assets = World.assets
        /\ w.cash[c][h] = World.cash[c][h] + n
        /\ \A a \in Accounts : a # h => w.cash[c][a] = World.cash[c][a]
        /\ \A d \in Currencies : d # c => w.cash[d] = World.cash[d]
    <2> DEFINE book == Credit(World.cash[c], h, n)
    <2>1. n \in Int /\ (h = Reserve => n >= 0) /\ h \in Accounts \cup {Reserve}
      OBVIOUS
    <2>2. book = Credit(World.cash[c], h, n) /\ w = WithBook(World, c, book)
      OBVIOUS
    <2>3. Accounted(World, blockTime, custody, Zero, Zero)
      BY NowFacts
    <2> HIDE DEF book, w
    <2> QED
      BY <1>2, <2>1, <2>2, <2>3, CreditStep
  <1> HIDE DEF w
  <1>4. Keeps(World, w)
    <2>1. \A a \in Accounts : Owing(w, a) = Owing(World, a)
      BY <1>3 DEF Owing
    <2>2. ASSUME NEW a \in Accounts, NEW d \in Currencies
          PROVE  w.cash[d][a] >= LowerOf(World.cash[d][a], 0)
      <3>1. World.cash[d][a] \in Int
        BY NowFacts, OwingFacts
      <3>2. w.cash[d][a] >= World.cash[d][a]
        BY <1>3, <3>1
      <3>3. w.cash[d][a] \in Int
        BY <1>3, OwingFacts
      <3> QED
        BY <3>1, <3>2, <3>3 DEF LowerOf
    <2> QED
      BY <2>1, <2>2 DEF Keeps
  <1>5. Sound(w, E)
    BY <1>3, <1>4, NowFacts, KeepsBears DEF Sound
  <1> QED
    BY <1>1, <1>5, CommitOne DEF E, WithTokens

\* A withdrawal pays from a balance that is above zero once the account is settled.
LEMMA WithdrawStep ==
  ASSUME IInv, NEW a \in Accounts, NEW c \in Currencies, NEW n \in Nat, Withdraw(a, c, n)
  PROVE  IInv' /\ DebtStep
  <1>1. PICK s \in Settled(World, a) :
          LET paid  == Withdrawn(s.cash[c], a, n)
              after == [s EXCEPT !.cash[c] = Credit(@, a, -paid)]
          IN  s.cash[c][a] > 0 /\ Commit(after, c, -paid)
    BY DEF Withdraw
  <1> DEFINE paid == Withdrawn(s.cash[c], a, n)
             out == -paid
             v == WithBook(s, c, Credit(s.cash[c], a, out))
             E == WithTokens(c, out)
  <1>2. s.cash[c][a] > 0 /\ Commit(v, c, out)
    BY <1>1 DEF WithBook
  <1>3. Sound(s, custody) /\ Accounted(s, blockTime, custody, Zero, Zero) /\ Bears(World, s)
    BY NowFacts, SettledSound DEF Sound
  <1>4. s \in Worlds /\ \A b \in Accounts, d \in Currencies : s.cash[d][b] \in Int
    BY <1>3, OwingFacts DEF Accounted
  <1>5. paid \in Int /\ 0 <= paid /\ paid <= s.cash[c][a] /\ out \in Int
    <2>1. paid \in Int /\ 0 <= paid /\ paid <= s.cash[c][a]
      BY <1>2, <1>4 DEF Withdrawn
    <2> QED
      BY <2>1
  <1>6. E[c] = custody[c] + out /\ \A d \in Currencies : d # c => E[d] = custody[d]
    <2> HIDE DEF out
    <2> QED
      BY <1>5, CustodyFacts
  <1> HIDE DEF E
  <1>7. /\ Accounted(v, blockTime, E, Zero, Zero) /\ v \in Worlds
        /\ v.cash[c][a] = s.cash[c][a] + out
        /\ \A b \in Accounts : b # a => v.cash[c][b] = s.cash[c][b]
        /\ \A d \in Currencies : d # c => v.cash[d] = s.cash[d]
    <2>1. a \in Accounts \cup {Reserve} /\ a # Reserve
      BY ConstantFacts
    <2> HIDE DEF out
    <2> QED
      BY <1>3, <1>5, <1>6, <2>1, CreditStep
  <1>8. v.cash[c][a] >= 0
    BY <1>4, <1>5, <1>7
  <1> HIDE DEF v, out, paid
  <1>9. Bears(World, v)
    <2> SUFFICES ASSUME NEW b \in Accounts, NEW d \in Currencies
                 PROVE  v.cash[d][b]
                          >= LowerOf(World.cash[d][b], 0) - IF d = Local THEN Owing(World, b) ELSE 0
      BY DEF Bears
    <2> DEFINE x == LowerOf(World.cash[d][b], 0)
               y == Owing(World, b)
               z == v.cash[d][b]
    <2>1. CASE b = a /\ d = c
      <3>1. World.cash[d][b] \in Int /\ y \in Nat /\ z \in Int
        BY <1>7, NowFacts, OwingFacts
      <3>2. x \in Int /\ x <= 0 /\ z >= 0
        BY <1>8, <2>1, <3>1 DEF LowerOf
      <3> HIDE DEF x, y, z
      <3>3. z >= x - y /\ z >= x - 0
        BY <3>1, <3>2
      <3> QED
        BY <3>3 DEF x, y, z
    <2>2. CASE ~(b = a /\ d = c)
      <3>1. v.cash[d][b] = s.cash[d][b]
        BY <1>7, <2>2
      <3> QED
        BY <1>3, <3>1 DEF Bears
    <2> QED
      BY <2>1, <2>2
  <1>10. Sound(v, E)
    BY <1>7, <1>9 DEF Sound
  <1> QED
    BY <1>2, <1>5, <1>10, CommitOne DEF E, WithTokens

\* Ether is paid first, from a balance that stays above zero, and the account settled after.
LEMMA WithdrawEthStep ==
  ASSUME IInv, NEW a \in Accounts, NEW n \in Nat, WithdrawEth(a, n)
  PROVE  IInv' /\ DebtStep
  <1> DEFINE out == -n
             book == Credit(World.cash[Ether], a, out)
             w == WithBook(World, Ether, book)
             E == WithTokens(Ether, out)
  <1>1. PICK s \in Settled(w, a) : World.cash[Ether][a] - n >= 0 /\ Commit(s, Ether, out)
    <2>1. PICK b \in DebitNoNeg(cashBalances[Ether], a, n) :
            \E s \in Checked([World EXCEPT !.cash[Ether] = b], a) : Commit(s, Ether, out)
      BY DEF WithdrawEth
    <2>2. World.cash[Ether] = cashBalances[Ether]
      BY DEF World
    <2>3. cashBalances[Ether][a] - n >= 0 /\ b = Credit(cashBalances[Ether], a, out)
      BY <2>1 DEF DebitNoNeg
    <2>4. [World EXCEPT !.cash[Ether] = b] = w
      BY <2>2, <2>3 DEF WithBook
    <2> HIDE DEF w
    <2> QED
      BY <2>1, <2>2, <2>3, <2>4 DEF Checked
  <1>2. out \in Int /\ Ether \in Currencies /\ a \in Accounts \cup {Reserve} /\ a # Reserve
    BY ConstantFacts
  <1>3. E[Ether] = custody[Ether] + out /\ \A d \in Currencies : d # Ether => E[d] = custody[d]
    <2> HIDE DEF out
    <2> QED
      BY <1>2, CustodyFacts
  <1>4. /\ Accounted(w, blockTime, E, Zero, Zero) /\ w \in Worlds /\ w.assets = World.assets
        /\ w.cash[Ether][a] = World.cash[Ether][a] + out
        /\ \A b \in Accounts : b # a => w.cash[Ether][b] = World.cash[Ether][b]
        /\ \A d \in Currencies : d # Ether => w.cash[d] = World.cash[d]
    <2> HIDE DEF out, E
    <2> QED
      BY <1>2, <1>3, NowFacts, CreditStep
  <1> HIDE DEF w, E
  <1>5. Keeps(World, w)
    <2>1. \A b \in Accounts : Owing(w, b) = Owing(World, b)
      BY <1>4 DEF Owing
    <2>2. ASSUME NEW b \in Accounts, NEW d \in Currencies
          PROVE  w.cash[d][b] >= LowerOf(World.cash[d][b], 0)
      <3>1. World.cash[d][b] \in Int
        BY NowFacts, OwingFacts
      <3>2. CASE b = a /\ d = Ether
        <4>1. w.cash[d][b] >= 0
          BY <1>1, <1>4, <3>1, <3>2
        <4>2. w.cash[d][b] \in Int
          BY <1>4, OwingFacts
        <4> QED
          BY <3>1, <4>1, <4>2 DEF LowerOf
      <3>3. CASE ~(b = a /\ d = Ether)
        <4>1. w.cash[d][b] = World.cash[d][b]
          BY <1>4, <3>3
        <4> QED
          BY <3>1, <4>1 DEF LowerOf
      <3> QED
        BY <3>2, <3>3
    <2> QED
      BY <2>1, <2>2 DEF Keeps
  <1>6. Sound(s, E)
    BY <1>4, <1>5, SettledSound
  <1> HIDE DEF out
  <1> QED
    BY <1>1, <1>2, <1>6, CommitOne DEF E, WithTokens

\* The calls of the market, each followed by the check of its account.
LEMMA LiquidityStep ==
  ASSUME IInv, NEW a \in Accounts, NEW m \in Maturities, NEW x \in Nat, NEW y \in Nat,
         OpenMarket(a, m, x, y) \/ JoinMarket(a, m, x, y) \/ RemoveLiquidity(a, m, x)
  PROVE  IInv' /\ DebtStep
  <1>1. blockTime \in Nat /\ Accounted(World, blockTime, custody, Zero, Zero)
    BY NowFacts
  <1>2. CASE OpenMarket(a, m, x, y)
    <2>1. \A w \in AddsFirstLiquidity(World, a, m, x, y) : Leaves(World, w, custody, a, m)
      BY <1>1, OpenStep
    <2> QED
      BY <1>2, <2>1, LeavesKeeps, CompletesStep DEF OpenMarket
  <1>3. CASE JoinMarket(a, m, x, y)
    <2>1. \A w \in AddsLiquidity(World, a, m, x, y) : Leaves(World, w, custody, a, m)
      BY <1>1, JoinStep
    <2> QED
      BY <1>3, <2>1, LeavesKeeps, CompletesStep DEF JoinMarket
  <1>4. CASE RemoveLiquidity(a, m, x)
    <2>1. \A w \in RemovesLiquidity(World, a, m, x) : Leaves(World, w, custody, a, m)
      BY <1>1, RemoveStep
    <2> QED
      BY <1>4, <2>1, LeavesKeeps, CompletesStep DEF RemoveLiquidity
  <1> QED
    BY <1>2, <1>3, <1>4

\* The calls that borrow and lend keep the invariant.
LEMMA TradeStep ==
  ASSUME IInv, NEW a \in Accounts, NEW m \in Maturities, NEW fCash \in Nat, NEW cash \in Nat,
         TakeCurrentCash(a, m, fCash, cash) \/ TakefCash(a, m, fCash, cash)
  PROVE  IInv' /\ DebtStep
  <1>1. blockTime \in Nat /\ Accounted(World, blockTime, custody, Zero, Zero)
    BY NowFacts
  <1>2. CASE TakeCurrentCash(a, m, fCash, cash)
    <2>1. \A w \in TakesCurrentCash(World, a, m, fCash, cash) : Leaves(World, w, custody, a, m)
      BY <1>1, BorrowStep
    <2> QED
      BY <1>2, <2>1, LeavesKeeps, CompletesStep DEF TakeCurrentCash
  <1>3. CASE TakefCash(a, m, fCash, cash)
    <2>1. \A w \in TakesfCash(World, a, m, fCash, cash) : Leaves(World, w, custody, a, m)
      BY <1>1, LendStep
    <2> QED
      BY <1>3, <2>1, LeavesKeeps, CompletesStep DEF TakefCash
  <1> QED
    BY <1>2, <1>3

\* Anyone settles an account.
LEMMA SettleMaturedStep ==
  ASSUME IInv, NEW a \in Accounts, SettleMaturedAssets(a)
  PROVE  IInv' /\ DebtStep
  <1>1. PICK s \in Settled(World, a) : Commit(s, Local, 0)
    BY DEF SettleMaturedAssets
  <1>2. Sound(s, custody)
    BY NowFacts, SettledSound
  <1> QED
    BY <1>1, <1>2, CommitNone, ConstantFacts

\* Two postings that cancel: what is on its way in between.
Opposite(x, y) ==
  \A types \in {TokenTypes, CashTypes} : \A m \in Maturities :
    /\ Share(x, types, Key(m)) \in Int
    /\ Share(y, types, Key(m)) = -Share(x, types, Key(m))

Pending(x, types) == [m \in Maturities |-> 0 - Share(x, types, Key(m))]

\* An entry on its way to a second account is a table that its posting empties.
LEMMA PendingFacts ==
  ASSUME NEW x, NEW y, Opposite(x, y)
  PROVE  /\ Pending(x, TokenTypes) \in Tables /\ Pending(x, CashTypes) \in Tables /\ Zero \in Tables
         /\ Without(Zero, x, TokenTypes, Pending(x, TokenTypes))
         /\ Without(Zero, x, CashTypes, Pending(x, CashTypes))
         /\ Without(Pending(x, TokenTypes), y, TokenTypes, Zero)
         /\ Without(Pending(x, CashTypes), y, CashTypes, Zero)
  <1>1. ASSUME NEW types \in {TokenTypes, CashTypes}
        PROVE  /\ Pending(x, types) \in Tables /\ Without(Zero, x, types, Pending(x, types))
               /\ Without(Pending(x, types), y, types, Zero)
    <2> DEFINE f == Pending(x, types)
    <2>1. \A m \in Maturities : /\ Share(x, types, Key(m)) \in Int
                                /\ Share(y, types, Key(m)) = -Share(x, types, Key(m))
      BY DEF Opposite
    <2>2. \A m \in Maturities : f[m] = 0 - Share(x, types, Key(m)) /\ Zero[m] = 0
      BY DEF Pending, Zero
    <2>3. f \in Tables
      BY <2>1 DEF Pending, Tables
    <2> HIDE DEF f
    <2>4. Without(Zero, x, types, f)
      BY <2>2 DEF Without
    <2>5. Without(f, y, types, Zero)
      BY <2>1, <2>2 DEF Without
    <2> QED
      BY <2>3, <2>4, <2>5 DEF f
  <1>2. Zero \in Tables
    BY DEF Zero, Tables
  <1> QED
    BY <1>1, <1>2

\* A posting and its counterparty cancel.
LEMMA OppositeFacts ==
  ASSUME NEW m \in Maturities, NEW n \in Nat, NEW type \in AssetTypes
  PROVE  LET x == Asset(CashGroup, m, type, n)
             y == Asset(CashGroup, m, MakeCounterparty(type), n)
         IN  Opposite(x, y) /\ Opposite(y, x)
  <1> DEFINE other == MakeCounterparty(type)
             x == Asset(CashGroup, m, type, n)
             y == Asset(CashGroup, m, other, n)
  <1>1. other \in AssetTypes
    BY DEF AssetTypes, MakeCounterparty, CashPayer, CashReceiver, LiquidityToken, LiquidityPayer
  <1>2. \A types : \A k \in Maturities : k # m => Share(x, types, Key(k)) = 0 /\ Share(y, types, Key(k)) = 0
    BY <1>1, PostingFacts
  <1>3. /\ Share(x, TokenTypes, Key(m)) \in Int /\ Share(x, CashTypes, Key(m)) \in Int
        /\ Share(y, TokenTypes, Key(m)) = -Share(x, TokenTypes, Key(m))
        /\ Share(y, CashTypes, Key(m)) = -Share(x, CashTypes, Key(m))
    <2>1. /\ type = LiquidityToken =>
               Share(x, TokenTypes, Key(m)) = n /\ Share(x, CashTypes, Key(m)) = 0
          /\ type = LiquidityPayer =>
               Share(x, TokenTypes, Key(m)) = -n /\ Share(x, CashTypes, Key(m)) = 0
          /\ type = CashReceiver =>
               Share(x, TokenTypes, Key(m)) = 0 /\ Share(x, CashTypes, Key(m)) = n
          /\ type = CashPayer =>
               Share(x, TokenTypes, Key(m)) = 0 /\ Share(x, CashTypes, Key(m)) = -n
      BY PostingFacts
    <2>2. /\ other = LiquidityToken =>
               Share(y, TokenTypes, Key(m)) = n /\ Share(y, CashTypes, Key(m)) = 0
          /\ other = LiquidityPayer =>
               Share(y, TokenTypes, Key(m)) = -n /\ Share(y, CashTypes, Key(m)) = 0
          /\ other = CashReceiver =>
               Share(y, TokenTypes, Key(m)) = 0 /\ Share(y, CashTypes, Key(m)) = n
          /\ other = CashPayer =>
               Share(y, TokenTypes, Key(m)) = 0 /\ Share(y, CashTypes, Key(m)) = -n
      BY <1>1, PostingFacts
    <2> HIDE DEF x, y
    <2>3. \/ type = CashPayer /\ other = CashReceiver
          \/ type = CashReceiver /\ other = CashPayer
          \/ type = LiquidityToken /\ other = LiquidityPayer
          \/ type = LiquidityPayer /\ other = LiquidityToken
      BY DEF AssetTypes, MakeCounterparty, CashPayer, CashReceiver, LiquidityToken, LiquidityPayer
    <2> HIDE DEF other
    <2> QED
      BY <2>1, <2>2, <2>3
  <1> HIDE DEF x, y
  <1>4. ASSUME NEW types \in {TokenTypes, CashTypes}, NEW k \in Maturities
        PROVE  /\ Share(x, types, Key(k)) \in Int /\ Share(y, types, Key(k)) \in Int
               /\ Share(y, types, Key(k)) = -Share(x, types, Key(k))
               /\ Share(x, types, Key(k)) = -Share(y, types, Key(k))
    <2>1. CASE k = m
      BY <1>3, <2>1
    <2>2. CASE k # m
      BY <1>2, <2>2
    <2> QED
      BY <2>1, <2>2
  <1>5. Opposite(x, y) /\ Opposite(y, x)
    BY <1>4 DEF Opposite
  <1> QED
    BY <1>5 DEF x, y

\* A pair of fCash is minted: an obligation to one account, an entitlement to another.
LEMMA MintStep ==
  ASSUME IInv, NEW payer \in Accounts, NEW receiver \in Accounts, NEW m \in Maturities,
         NEW n \in Nat, NEW w, NEW B, Accounted(w, blockTime, B, Zero, Zero),
         NEW v \in MintsfCashPair(w, payer, receiver, m, n)
  PROVE  Accounted(v, blockTime, B, Zero, Zero) /\ Keeps(w, v)
  <1> DEFINE x == Asset(CashGroup, m, CashPayer, n)
             y == Asset(CashGroup, m, CashReceiver, n)
             dT == Pending(x, TokenTypes)
             dF == Pending(x, CashTypes)
  <1>1. Tradeable(m) /\ \E u \in Upserted(w, payer, <<x>>) : v \in Upserted(u, receiver, <<y>>)
    BY DEF MintsfCashPair
  <1>2. PICK u \in Upserted(w, payer, <<x>>) : v \in Upserted(u, receiver, <<y>>)
    BY <1>1
  <1>3. blockTime < m /\ blockTime \in Int
    BY <1>1, NowFacts DEF Tradeable, IsValidBlock
  <1>4. x \in Posted /\ y \in Posted /\ x.maturity = m /\ y.maturity = m
    BY PostingFacts DEF AssetTypes
  <1>5. Opposite(x, y)
    <2>1. MakeCounterparty(CashPayer) = CashReceiver /\ CashPayer \in AssetTypes
      BY DEF AssetTypes, MakeCounterparty, CashPayer, CashReceiver, LiquidityToken, LiquidityPayer
    <2> QED
      BY <2>1, OppositeFacts
  <1> HIDE DEF x, y
  <1>6. /\ dT \in Tables /\ dF \in Tables /\ Zero \in Tables
        /\ Without(Zero, x, TokenTypes, dT) /\ Without(Zero, x, CashTypes, dF)
        /\ Without(dT, y, TokenTypes, Zero) /\ Without(dF, y, CashTypes, Zero)
    BY <1>5, PendingFacts
  <1> HIDE DEF dT, dF
  <1>7. Accounted(u, blockTime, B, dT, dF) /\ PostsTo(w, u, payer, m)
    BY <1>2, <1>4, <1>6, UpsertedOne
  <1>8. Accounted(v, blockTime, B, Zero, Zero) /\ PostsTo(u, v, receiver, m)
    BY <1>2, <1>4, <1>6, <1>7, UpsertedOne
  <1>9. w \in Worlds /\ u \in Worlds /\ v \in Worlds
    BY <1>7, <1>8 DEF Accounted
  <1>10. Keeps(w, u) /\ Keeps(u, v)
    BY <1>3, <1>7, <1>8, <1>9, PostsToKeeps
  <1> QED
    BY <1>8, <1>9, <1>10, KeepsChain

\* The call that mints a pair keeps the invariant.
LEMMA MintCallStep ==
  ASSUME IInv, NEW payer \in Accounts, NEW receiver \in Accounts, NEW m \in Maturities,
         NEW n \in Nat, MintfCashPair(payer, receiver, m, n)
  PROVE  IInv' /\ DebtStep
  <1>1. \A v \in MintsfCashPair(World, payer, receiver, m, n) :
          Accounted(v, blockTime, custody, Zero, Zero) /\ Keeps(World, v)
    BY NowFacts, MintStep
  <1> QED
    BY <1>1, CompletesStep DEF MintfCashPair

\* What a transfer takes from the sender, and gives to the receiver.
LEMMA TransferStep ==
  ASSUME IInv, NEW from \in Accounts, NEW to \in Accounts, NEW m \in Maturities, NEW n \in Nat,
         NEW type \in AssetTypes, blockTime < m,
         NEW w, NEW B, Accounted(w, blockTime, B, Zero, Zero),
         NEW y, y = Asset(CashGroup, m, type, n),
         NEW i, i = SearchAsset(w.assets[from], y, FALSE), i # NotFound,
         n <= w.assets[from][i].notional,
         NEW u, u = WithAssets(w, from, ReduceAsset(w.assets[from], i, n)),
         NEW v \in Upserted(u, to, <<y>>)
  PROVE  Accounted(v, blockTime, B, Zero, Zero) /\ Keeps(w, v)
  <1> DEFINE p == w.assets[from]
             other == MakeCounterparty(type)
             x == Asset(CashGroup, m, other, n)
             q == ReduceAsset(p, i, n)
             dT == Pending(x, TokenTypes)
             dF == Pending(x, CashTypes)
  <1>1. w \in Worlds /\ Proper(w) /\ blockTime \in Int
    BY NowFacts DEF Accounted
  <1>2. p \in Seq(Stored) /\ NoDuplicates(p) /\ Len(p) <= MaxAssets + 1
    BY <1>1, OwingFacts DEF Proper
  <1>3. other \in AssetTypes /\ MakeCounterparty(other) = type
    BY DEF AssetTypes, MakeCounterparty, CashPayer, CashReceiver, LiquidityToken, LiquidityPayer
  <1> HIDE DEF other
  <1>4. x \in Posted /\ y \in Posted /\ x.maturity = m /\ y.maturity = m
    BY <1>3, PostingFacts
  <1>5. Opposite(x, y)
    BY OppositeFacts DEF other
  <1>6. x.assetType = other /\ x.notional = n /\ y.assetType = type /\ \A e : SameInstrument(e, x) = SameInstrument(e, y)
    BY DEF Asset, SameInstrument
  <1>7. i \in DOMAIN p /\ SameInstrument(p[i], x) /\ p[i].assetType = type
    <2>1. Finds(p, y, FALSE, i)
      <3>1. FALSE \in BOOLEAN /\ i = SearchAsset(p, y, FALSE)
        OBVIOUS
      <3> HIDE DEF p
      <3> QED
        BY <1>2, <1>4, <3>1, SearchFacts DEF Stored, Posted
    <2> QED
      BY <1>6, <2>1 DEF Finds
  <1>8. Adds({CashGroup}, Maturities, p, x, q) /\ Len(q) <= Len(p)
    <2>1. p[i].assetType = MakeCounterparty(x.assetType) /\ x.notional <= p[i].notional
      BY <1>3, <1>6, <1>7
    <2>2. Adds({CashGroup}, Maturities, p, x, ReduceAsset(p, i, x.notional)) /\ Len(ReduceAsset(p, i, x.notional)) <= Len(p)
      <3> HIDE DEF p, x
      <3> QED
        BY <1>2, <1>4, <1>7, <2>1, ReduceAdds DEF Stored, Posted
    <2> QED
      BY <1>6, <2>2
  <1>9. Len(q) <= MaxAssets + 1
    <2>1. q \in Seq(Entries({CashGroup}, Maturities))
      BY <1>8 DEF Adds
    <2> HIDE DEF p, q
    <2>2. Len(p) \in Nat /\ Len(q) \in Nat
      BY <1>2, <2>1
    <2> QED
      BY <1>2, <1>8, <2>2, MaxAssetsAssumption
  <1> HIDE DEF x
  <1>10. /\ dT \in Tables /\ dF \in Tables /\ Zero \in Tables
         /\ Without(Zero, x, TokenTypes, dT) /\ Without(Zero, x, CashTypes, dF)
         /\ Without(dT, y, TokenTypes, Zero) /\ Without(dF, y, CashTypes, Zero)
    BY <1>5, PendingFacts
  <1> HIDE DEF dT, dF
  <1>11. Accounted(u, blockTime, B, dT, dF) /\ PostsTo(w, u, from, m)
    BY <1>4, <1>8, <1>9, <1>10, AddsStep
  <1>12. Accounted(v, blockTime, B, Zero, Zero) /\ PostsTo(u, v, to, m)
    BY <1>4, <1>10, <1>11, UpsertedOne
  <1>13. w \in Worlds /\ u \in Worlds /\ v \in Worlds
    BY <1>11, <1>12 DEF Accounted
  <1>14. Keeps(w, u) /\ Keeps(u, v)
    BY <1>1, <1>11, <1>12, <1>13, PostsToKeeps
  <1> QED
    BY <1>12, <1>13, <1>14, KeepsChain

\* So does a transfer, whose entry is taken from one portfolio before the other has it.
LEMMA TransferCallStep ==
  ASSUME IInv, NEW from \in Accounts, NEW to \in Accounts, NEW m \in Maturities, NEW n \in Nat,
         NEW type \in AssetTypes, TransferAccountAsset(from, to, Asset(CashGroup, m, type, n))
  PROVE  IInv' /\ DebtStep
  <1> DEFINE y == Asset(CashGroup, m, type, n)
             p == World.assets[from]
             i == SearchAsset(p, y, FALSE)
             u == WithAssets(World, from, ReduceAsset(p, i, n))
  <1>1. y.notional = n /\ y.maturity = m
    BY DEF Asset
  <1>2. World.assets = accountAssets
    BY DEF World
  <1> HIDE DEF y
  <1>3. /\ blockTime < m /\ i # NotFound /\ n <= p[i].notional
        /\ \E w \in Upserted(u, to, <<y>>) : \E s \in Checked(w, from) : Commit(s, Local, 0)
    BY <1>1, <1>2 DEF TransferAccountAsset, WithAssets, y
  <1> HIDE DEF i, u
  <1>4. PICK w \in Upserted(u, to, <<y>>) : \E s \in Checked(w, from) : Commit(s, Local, 0)
    BY <1>3
  <1>5. PICK s \in Settled(w, from) : Commit(s, Local, 0)
    BY <1>4 DEF Checked
  <1>6. Accounted(w, blockTime, custody, Zero, Zero) /\ Keeps(World, w)
    BY <1>3, NowFacts, TransferStep DEF i, u, y
  <1>7. Sound(s, custody)
    BY <1>6, SettledSound
  <1> QED
    BY <1>5, <1>7, CommitNone, ConstantFacts

\* The reserve pays a debtor what it can and never falls below zero.
LEMMA ReserveFacts ==
  ASSUME NEW book \in Book, NEW a \in Accounts, book[a] < 0, book[Reserve] >= 0,
         NEW after, after = SettleAgainstReserve(book, a)
  PROVE  /\ after \in Book /\ SumOf(after, Holders) = SumOf(book, Holders)
         /\ after[Reserve] >= 0 /\ after[MarketAccount] = book[MarketAccount]
         /\ after[a] >= book[a] /\ \A b \in Accounts : b # a => after[b] = book[b]
  <1> DEFINE n == IF -book[a] < book[Reserve] THEN -book[a] ELSE book[Reserve]
             out == -n
             b1 == Credit(book, a, n)
             b2 == Credit(b1, Reserve, out)
  <1>1. /\ a \in Holders /\ MarketAccount \in Holders /\ Reserve \in Holders
        /\ a # MarketAccount /\ a # Reserve /\ MarketAccount # Reserve
        /\ \A h \in Accounts : h \in Holders /\ h # MarketAccount /\ h # Reserve
        /\ \A h \in Holders : book[h] \in Int
    BY ConstantFacts DEF Book
  <1>2. n \in Int /\ n >= 0 /\ n <= book[Reserve] /\ out \in Int
    BY <1>1
  <1>3. after = b2
    <2>1. /\ after \in Book /\ \A x \in Holders : x # a /\ x # Reserve => after[x] = book[x]
          /\ after[a] = book[a] + n /\ after[Reserve] = book[Reserve] + out
      <3>1. CASE -book[a] < book[Reserve]
        <4>1. after = [book EXCEPT ![a] = 0, ![Reserve] = @ + book[a]]
          BY <3>1 DEF SettleAgainstReserve
        <4>2. /\ after \in Book /\ \A x \in Holders : x # a /\ x # Reserve => after[x] = book[x]
              /\ after[a] = 0 /\ after[Reserve] = book[Reserve] + book[a]
          BY <1>1, <4>1 DEF Book
        <4>3. n = -book[a]
          BY <3>1
        <4> QED
          BY <1>1, <4>2, <4>3
      <3>2. CASE ~(-book[a] < book[Reserve])
        <4>1. after = [book EXCEPT ![a] = @ + book[Reserve], ![Reserve] = 0]
          BY <3>2 DEF SettleAgainstReserve
        <4>2. /\ after \in Book /\ \A x \in Holders : x # a /\ x # Reserve => after[x] = book[x]
              /\ after[a] = book[a] + book[Reserve] /\ after[Reserve] = 0
          BY <1>1, <4>1 DEF Book
        <4>3. n = book[Reserve]
          BY <3>2
        <4> QED
          BY <1>1, <4>2, <4>3
      <3> QED
        BY <3>1, <3>2
    <2> HIDE DEF n, out
    <2>2. /\ b2 \in Book /\ \A x \in Holders : x # a /\ x # Reserve => b2[x] = book[x]
          /\ b2[a] = book[a] + n /\ b2[Reserve] = book[Reserve] + out
      BY <1>1, <1>2 DEF Credit, Book
    <2> HIDE DEF b2
    <2>3. \A x \in Holders : after[x] = b2[x]
      BY <2>1, <2>2
    <2> QED
      BY <2>1, <2>2, <2>3 DEF Book
  <1> HIDE DEF n
  <1>4. /\ b1 \in Book /\ b1[a] = book[a] + n
        /\ \A x \in Holders : x # a => b1[x] = book[x]
        /\ SumOf(book, Holders) \in Int
        /\ SumOf(b1, Holders) = SumOf(book, Holders) + n
    <2>1. Credited(book, a, n, b1)
      BY <1>1, <1>2, CreditFacts
    <2> QED
      BY <2>1 DEF Credited
  <1> HIDE DEF b1
  <1>5. /\ b2 \in Book /\ b2[Reserve] = b1[Reserve] + out
        /\ \A x \in Holders : x # Reserve => b2[x] = b1[x]
        /\ SumOf(b2, Holders) = SumOf(b1, Holders) + out
    <2> HIDE DEF out
    <2>1. Credited(b1, Reserve, out, b2)
      BY <1>1, <1>2, <1>4, CreditFacts
    <2> QED
      BY <2>1 DEF Credited
  <1> HIDE DEF b2
  <1>6. SumOf(b2, Holders) = SumOf(book, Holders)
    BY <1>2, <1>4, <1>5
  <1>7. b2[Reserve] >= 0 /\ b2[MarketAccount] = book[MarketAccount] /\ b2[a] >= book[a]
    BY <1>1, <1>2, <1>4, <1>5
  <1>8. \A b \in Accounts : b # a => b2[b] = book[b]
    BY <1>1, <1>4, <1>5
  <1> QED
    BY <1>3, <1>5, <1>6, <1>7, <1>8

\* So does the reserve's payment of a debt, which no reserve below zero makes.
LEMMA ReserveStep ==
  ASSUME IInv, NEW a \in Accounts, NEW c \in Currencies, SettleReserve(a, c)
  PROVE  IInv' /\ DebtStep
  <1>1. PICK s \in Settled(World, a) :
          s.cash[c][a] < 0 /\ Commit([s EXCEPT !.cash[c] = SettleAgainstReserve(@, a)], c, 0)
    BY DEF SettleReserve
  <1> DEFINE book == SettleAgainstReserve(s.cash[c], a)
             v == WithBook(s, c, book)
  <1>2. Commit(v, c, 0)
    BY <1>1 DEF WithBook
  <1>3. Accounted(s, blockTime, custody, Zero, Zero) /\ Bears(World, s)
    BY NowFacts, SettledSound DEF Sound
  <1>4. s \in Worlds /\ Proper(s) /\ s.cash[c] \in Book /\ s.cash[c][Reserve] >= 0
    BY <1>3, WorldParts DEF Accounted, Proper
  <1>5. /\ book \in Book /\ SumOf(book, Holders) = SumOf(s.cash[c], Holders)
        /\ book[Reserve] >= 0 /\ book[MarketAccount] = s.cash[c][MarketAccount]
        /\ book[a] >= s.cash[c][a] /\ \A b \in Accounts : b # a => book[b] = s.cash[c][b]
    BY <1>1, <1>4, ReserveFacts
  <1> HIDE DEF book
  <1>6. EditsBook(s, v, c, book)
    BY <1>4, <1>5, EditFacts
  <1>7. Accounted(v, blockTime, custody, Zero, Zero)
    <2>1. custody[c] = custody[c] + (SumOf(book, Holders) - SumOf(s.cash[c], Holders))
      <3>1. SumOf(s.cash[c], Holders) \in Int /\ custody[c] \in Int
        BY <1>4, ConstantFacts, SumType DEF Book, IInv
      <3> QED
        BY <1>5, <3>1
    <2>2. Zero \in Tables
      BY DEF Zero, Tables
    <2> HIDE DEF v
    <2> QED
      BY <1>3, <1>5, <1>6, <2>1, <2>2, BookStep
  <1> HIDE DEF v
  <1>8. v \in Worlds /\ v.cash[c] = book /\ \A d \in Currencies : d # c => v.cash[d] = s.cash[d]
    BY <1>6 DEF EditsBook
  <1>9. Bears(World, v)
    <2> SUFFICES ASSUME NEW b \in Accounts, NEW d \in Currencies
                 PROVE  v.cash[d][b]
                          >= LowerOf(World.cash[d][b], 0) - IF d = Local THEN Owing(World, b) ELSE 0
      BY DEF Bears
    <2> DEFINE bound == LowerOf(World.cash[d][b], 0) - IF d = Local THEN Owing(World, b) ELSE 0
    <2>1. s.cash[d][b] >= bound
      BY <1>3 DEF Bears
    <2>2. v.cash[d][b] >= s.cash[d][b] /\ v.cash[d][b] \in Int /\ s.cash[d][b] \in Int
      <3>1. v.cash[d][b] \in Int /\ s.cash[d][b] \in Int
        BY <1>4, <1>8, OwingFacts
      <3> QED
        BY <1>5, <1>8, <3>1
    <2>3. bound \in Int
      <3>1. World.cash[d][b] \in Int /\ Owing(World, b) \in Nat
        BY NowFacts, OwingFacts
      <3> QED
        BY <3>1 DEF LowerOf
    <2> HIDE DEF bound
    <2>4. v.cash[d][b] >= bound
      BY <2>1, <2>2, <2>3
    <2> QED
      BY <2>4 DEF bound
  <1>10. Sound(v, custody)
    BY <1>7, <1>9 DEF Sound
  <1> QED
    BY <1>2, <1>10, CommitNone

\* Every step keeps the invariant and overdraws nobody.
LEMMA NextStep ==
  ASSUME IInv, [Next]_vars
  PROVE  IInv' /\ DebtStep
  <1>1. CASE Tick
    BY <1>1, TickStep
  <1>2. CASE RateMoves
    BY <1>2, RateStep
  <1>3. CASE CashCall
    <2>1. PICK n \in Amounts :
            \/ \E h \in Accounts \cup {Reserve}, c \in Currencies : Deposit(h, c, n)
            \/ \E a \in Accounts, c \in Currencies : Withdraw(a, c, n)
            \/ \E a \in Accounts : WithdrawEth(a, n)
      BY <1>3 DEF CashCall
    <2>2. n \in Nat
      BY AmountsAssumption
    <2> QED
      BY <2>1, <2>2, DepositStep, WithdrawStep, WithdrawEthStep
  <1>4. CASE LiquidityCall
    <2>1. PICK a \in Accounts, m \in Maturities, x \in Amounts, y \in Amounts :
            OpenMarket(a, m, x, y) \/ JoinMarket(a, m, x, y) \/ RemoveLiquidity(a, m, x)
      BY <1>4 DEF LiquidityCall
    <2>2. x \in Nat /\ y \in Nat
      BY AmountsAssumption
    <2> QED
      BY <2>1, <2>2, LiquidityStep
  <1>5. CASE TradeCall
    <2>1. PICK a \in Accounts, m \in Maturities, fCash \in Amounts, cash \in Amounts :
            TakeCurrentCash(a, m, fCash, cash) \/ TakefCash(a, m, fCash, cash)
      BY <1>5 DEF TradeCall
    <2>2. fCash \in Nat /\ cash \in Nat
      BY AmountsAssumption
    <2> QED
      BY <2>1, <2>2, TradeStep
  <1>6. CASE PortfoliosCall
    <2>1. CASE \E a \in Accounts : SettleMaturedAssets(a)
      BY <2>1, SettleMaturedStep
    <2>2. ASSUME NEW x \in Accounts, NEW y \in Accounts, NEW m \in Maturities, NEW n \in Amounts,
                 \/ MintfCashPair(x, y, m, n)
                 \/ \E type \in AssetTypes :
                      TransferAccountAsset(x, y, Asset(CashGroup, m, type, n))
          PROVE  IInv' /\ DebtStep
      <3>1. n \in Nat
        BY AmountsAssumption
      <3> QED
        BY <2>2, <3>1, MintCallStep, TransferCallStep
    <2> QED
      BY <1>6, <2>1, <2>2 DEF PortfoliosCall
  <1>7. CASE ReserveCall
    BY <1>7, ReserveStep DEF ReserveCall
  <1>8. CASE UNCHANGED vars
    <2>1. /\ blockTime' = blockTime /\ ethRate' = ethRate /\ custody' = custody
          /\ cashBalances' = cashBalances /\ World' = World
      BY <1>8 DEF vars, World
    <2>2. IInv'
      BY <2>1 DEF IInv
    <2>3. DebtStep
      BY <2>1, UnchangedDebt, NowFacts
    <2> QED
      BY <2>2, <2>3
  <1> QED
    BY <1>1, <1>2, <1>3, <1>4, <1>5, <1>6, <1>7, <1>8 DEF Next

\* The system's inductive invariant: after every call the tokens, the balances, the pools and the
\* portfolios account for one another with nothing on its way.
THEOREM Invariance == Spec => []IInv
  <1>1. Init => IInv
    BY InitStep
  <1>2. IInv /\ [Next]_vars => IInv'
    BY NextStep
  <1> QED
    BY <1>1, <1>2, PTL DEF Spec

\* A trade, its fee, a withdrawal, a transfer or a settlement lowers a balance below zero, or
\* further below, by no more than the account's obligations that have matured: DebitNoNeg is in
\* the way of every other loss (Escrow's subNoNeg).
THEOREM NobodyIsOverdrawn == Spec => DebtOnlyFromMaturedAssets
  <1>1. IInv /\ [Next]_vars => DebtStep
    BY NextStep
  <1>2. IInv /\ [Next]_vars => [DebtStep]_vars
    BY <1>1
  <1> QED
    BY <1>2, Invariance, PTL DEF Spec, DebtOnlyFromMaturedAssets

(****************************************************************************)
(* What the invariant says of the state.                                    *)
(****************************************************************************)

\* What the portfolios hold and what is not on its way.
LEMMA StateFacts ==
  ASSUME IInv
  PROVE  /\ World \in Worlds /\ Zero \in Tables
         /\ \A m \in Maturities : NetfCash(m) = NetOf(World, Zero, m) /\ NetfCash(m) \in Int
         /\ \A m \in Maturities : Pool(m) = World.markets[Key(m)] /\ Pool(m) \in Market
  <1>1. World \in Worlds /\ Zero \in Tables
    BY NowFacts DEF Zero, Tables
  <1>2. \A m \in Maturities : Pool(m) = World.markets[Key(m)] /\ Pool(m) \in Market
    BY <1>1, WorldParts DEF Pool, PoolIn, Key
  <1>3. \A m \in Maturities : NetfCash(m) = NetOf(World, Zero, m) /\ NetfCash(m) \in Int
    <2> SUFFICES ASSUME NEW m \in Maturities
                 PROVE  NetfCash(m) = NetOf(World, Zero, m) /\ NetfCash(m) \in Int
      OBVIOUS
    <2>1. HeldBy(World.assets, CashTypes, Key(m)) \in Int
      BY <1>1, HeldFacts
    <2>2. World.assets = accountAssets /\ Zero[m] = 0 /\ Pool(m).totalfCash \in Int
      BY <1>2 DEF World, Zero, Market
    <2>3. NetfCash(m) = Pool(m).totalfCash + HeldBy(World.assets, CashTypes, Key(m))
      BY <2>2 DEF NetfCash, Key
    <2>4. NetOf(World, Zero, m) = Pool(m).totalfCash + HeldBy(World.assets, CashTypes, Key(m)) + 0
      BY <1>2, <2>2 DEF NetOf
    <2> QED
      BY <2>1, <2>2, <2>3, <2>4
  <1> QED
    BY <1>1, <1>2, <1>3

\* What the invariant says, property by property.
LEMMA TypeFacts ==
  ASSUME IInv
  PROVE  TypeOK
  <1>1. World \in Worlds /\ Proper(World)
    BY DEF IInv, Accounted
  <1>2. Stored = Entry
    <2>1. AssetTypes \ {LiquidityPayer} = {CashPayer, CashReceiver, LiquidityToken}
      BY DEF AssetTypes, CashPayer, CashReceiver, LiquidityToken, LiquidityPayer
    <2> QED
      BY <2>1 DEF Stored, Entries, Entry
  <1>3. /\ accountAssets \in [Accounts -> Seq(Entry)] /\ markets \in [Instruments -> Market]
        /\ cashBalances \in [Currencies -> [Holders -> Int]]
    BY <1>1, <1>2, WorldParts DEF World, Portfolio, Stored, Book
  <1>4. \A a \in Accounts : Len(accountAssets[a]) <= MaxAssets + 1
    BY <1>1 DEF Proper, World
  <1> QED
    BY <1>3, <1>4 DEF IInv, TypeOK

LEMMA NetsFacts ==
  ASSUME IInv
  PROVE  fCashNetsToZero
  BY StateFacts DEF fCashNetsToZero, IInv, Accounted, NetsOut

LEMMA SupplyFacts ==
  ASSUME IInv
  PROVE  TokensMatchSupply
  <1> SUFFICES ASSUME NEW m \in Maturities
               PROVE  HeldBy(accountAssets, TokenTypes, <<CashGroup, m>>) = Pool(m).totalLiquidity
    BY DEF TokensMatchSupply
  <1>1. /\ HeldBy(World.assets, TokenTypes, Key(m)) + Zero[m] = World.markets[Key(m)].totalLiquidity
        /\ World.assets = accountAssets /\ Zero[m] = 0
    BY DEF IInv, Accounted, SupplyMatches, World, Zero
  <1>2. HeldBy(World.assets, TokenTypes, Key(m)) \in Int /\ Pool(m) = World.markets[Key(m)]
    BY StateFacts, HeldFacts
  <1>3. HeldBy(World.assets, TokenTypes, Key(m)) = Pool(m).totalLiquidity
    BY <1>1, <1>2
  <1> QED
    BY <1>1, <1>3 DEF Key

LEMMA CashFacts ==
  ASSUME IInv
  PROVE  PoolsHoldTheirCash
  <1> DEFINE f == [m \in Maturities |-> Pool(m).totalCurrentCash]
  <1>1. World.cash[Local][MarketAccount] = SumOf(CashTable(World), Maturities)
    BY DEF IInv, Accounted, CashMatches
  <1>2. f = CashTable(World)
    BY StateFacts DEF CashTable
  <1>3. CashTable(World) \in [Maturities -> Int]
    BY StateFacts, TableFacts DEF Tables
  <1> HIDE DEF f
  <1>4. Total(f) = SumOf(CashTable(World), Maturities)
    BY <1>2, <1>3, TotalSum
  <1> QED
    BY <1>1, <1>4 DEF PoolsHoldTheirCash, World, f

LEMMA SolvencyFacts ==
  ASSUME IInv
  PROVE  Solvent
  <1> DEFINE R == {x \in Maturities : x <= blockTime}
             f == NetTable(World, Zero)
             g == [m \in R |-> NetfCash(m)]
  <1>1. World \in Worlds /\ f \in [Maturities -> Int] /\ R \in SUBSET Maturities /\ IsFiniteSet(R)
    BY StateFacts, TableFacts, ConstantFacts, FS_Subset DEF Tables
  <1>2. \A m \in Maturities : f[m] = NetfCash(m) /\ NetfCash(m) \in Int
    BY StateFacts DEF NetTable
  <1>3. \A m \in Maturities \ R : f[m] = 0
    <2>1. \A m \in Maturities : blockTime < m => NetfCash(m) = 0
      BY NetsFacts DEF fCashNetsToZero
    <2>2. \A m \in Maturities \ R : blockTime < m
      BY NowFacts, ConstantFacts
    <2> QED
      BY <1>2, <2>1, <2>2
  <1>4. g \in [R -> Int] /\ \A m \in R : f[m] = g[m]
    BY <1>2
  <1> HIDE DEF f, g, R
  <1>5. Total(g) = SumOf(f, Maturities)
    <2>1. SumOf(f, R) = SumOf(f, Maturities)
      BY <1>1, <1>3, ConstantFacts, SumSupport
    <2>2. SumOf(f, R) = SumOf(g, R)
      BY <1>1, <1>4, SumSame
    <2>3. Total(g) = SumOf(g, R)
      BY <1>4, TotalSum
    <2> QED
      BY <2>1, <2>2, <2>3
  <1> SUFFICES ASSUME NEW c \in Currencies
               PROVE  custody[c] = Total(cashBalances[c]) + IF c = Local THEN Total(g) ELSE 0
    BY DEF Solvent, g, R
  <1>6. custody[c] = SumOf(World.cash[c], Holders) + IF c = Local THEN SumOf(f, Maturities) ELSE 0
    BY DEF IInv, Accounted, Backed, Backing, f
  <1>7. Total(cashBalances[c]) = SumOf(World.cash[c], Holders)
    <2>1. World.cash[c] \in [Holders -> Int]
      BY <1>1, WorldParts DEF Book
    <2>2. Total(World.cash[c]) = SumOf(World.cash[c], Holders)
      BY <2>1, TotalSum
    <2> QED
      BY <2>2 DEF World
  <1> QED
    BY <1>5, <1>6, <1>7

\* How often an entry occurs, as a sum over the list.
Once(x) == [e \in Stored |-> IF e = x THEN 1 ELSE 0]

\* How often a list holds an entry, as a sum over the list.
LEMMA TimesFacts ==
  ASSUME NEW p \in Seq(Stored), NEW x
  PROVE  /\ Times(p, x) = ListSum(p, Once(x)) /\ Once(x) \in [Stored -> Int]
         /\ ListSum(p, Once(x)) \in Int
         /\ (\A i \in DOMAIN p : p[i] # x) => ListSum(p, Once(x)) = 0
  <1> DEFINE f == [i \in DOMAIN p |-> IF p[i] = x THEN 1 ELSE 0]
             g == [i \in DOMAIN p |-> Once(x)[p[i]]]
  <1>1. \A i \in DOMAIN p : p[i] \in Stored
    OBVIOUS
  <1>2. Once(x) \in [Stored -> Int] /\ \A e \in Stored : Once(x)[e] = IF e = x THEN 1 ELSE 0
    BY DEF Once
  <1>3. f = g /\ f \in [DOMAIN p -> Int]
    BY <1>1, <1>2
  <1>4. Times(p, x) = Total(f) /\ ListSum(p, Once(x)) = SumOf(g, DOMAIN p)
    BY DEF Times, ListSum
  <1> HIDE DEF f, g
  <1>5. Times(p, x) = ListSum(p, Once(x))
    BY <1>3, <1>4, TotalSum
  <1>6. ListSum(p, Once(x)) \in Int
    BY <1>2, ListFacts
  <1>7. ASSUME \A i \in DOMAIN p : p[i] # x
        PROVE  ListSum(p, Once(x)) = 0
    <2>1. \A i \in DOMAIN p : Once(x)[p[i]] = 0
      BY <1>1, <1>2, <1>7
    <2> QED
      BY <1>2, <2>1, ListFacts
  <1> QED
    BY <1>2, <1>5, <1>6, <1>7

\* Settlement removes the matured entries, as many as there are, and no other.
LEMMA SettlesFacts ==
  ASSUME IInv
  PROVE  SettlesExactlyMatured
  <1> SUFFICES ASSUME NEW a \in Accounts, NEW s \in Settled(World, a),
                      NEW x \in ToSet(accountAssets[a]) \cup ToSet(s.assets[a])
               PROVE  Times(s.assets[a], x)
                        = IF blockTime < x.maturity THEN Times(accountAssets[a], x) ELSE 0
    BY DEF SettlesExactlyMatured
  <1> DEFINE p == World.assets[a]
             loop == SettleLoop(p, blockTime)
             q == loop.portfolio
             t == loop.settled
  <1>1. Accounted(World, blockTime, custody, Zero, Zero) /\ blockTime \in Int
    BY NowFacts
  <1>2. p \in Seq(Stored) /\ NoDuplicates(p) /\ p = accountAssets[a]
    BY <1>1, OwingFacts DEF Accounted, Proper, World
  <1>3. s.assets[a] = q
    BY <1>1, SettledStep DEF IsSettled
  <1>4. loop = SettleLoop(p, blockTime)
    OBVIOUS
  <1> HIDE DEF p, loop
  <1>5. /\ q \in Seq(Stored) /\ t \in Seq(Stored)
        /\ \A j \in DOMAIN q : ~(q[j].maturity <= blockTime)
        /\ \A j \in DOMAIN t : t[j].maturity <= blockTime
    BY <1>2, <1>4, SettleFacts DEF Stored
  <1>6. x \in Stored /\ x.maturity \in Int
    <2>1. x \in Stored
      BY <1>2, <1>3, <1>5 DEF ToSet
    <2> QED
      BY <2>1, StoredFacts
  <1>7. ListSum(q, Once(x)) + ListSum(t, Once(x)) = ListSum(p, Once(x))
    <2>1. Once(x) \in [Stored -> Int]
      BY <1>2, TimesFacts
    <2>2. \A G, M : p \in Seq(Entries(G, M)) /\ Once(x) \in [Entries(G, M) -> Int] =>
            ListSum(loop.portfolio, Once(x)) + ListSum(loop.settled, Once(x)) = ListSum(p, Once(x))
      BY <1>2, <1>4, SettleSums
    <2> QED
      BY <1>2, <2>1, <2>2 DEF Stored
  <1> HIDE DEF q, t
  <1>8. /\ Times(q, x) = ListSum(q, Once(x)) /\ Times(p, x) = ListSum(p, Once(x))
        /\ ListSum(q, Once(x)) \in Int /\ ListSum(t, Once(x)) \in Int
    BY <1>2, <1>5, TimesFacts
  <1>9. CASE blockTime < x.maturity
    <2>1. \A j \in DOMAIN t : t[j] # x
      BY <1>1, <1>5, <1>6, <1>9
    <2>2. ListSum(t, Once(x)) = 0
      BY <1>5, <2>1, TimesFacts
    <2> QED
      BY <1>2, <1>3, <1>7, <1>8, <1>9, <2>2
  <1>10. CASE ~(blockTime < x.maturity)
    <2>1. \A j \in DOMAIN q : q[j] # x
      BY <1>1, <1>5, <1>6, <1>10
    <2>2. ListSum(q, Once(x)) = 0
      BY <1>5, <2>1, TimesFacts
    <2> QED
      BY <1>3, <1>8, <1>10, <2>2
  <1> QED
    BY <1>9, <1>10

\* Balances, tokens, pools and portfolios are of their types after every call: nothing that is stored
\* as unsigned falls below zero, no array outgrows the bound by more than the entry that the bound
\* lets through, and no obligation to deliver tokens is ever stored.
THEOREM NotionalTypeCorrect == Spec => []TypeOK
  BY Invariance, TypeFacts, PTL

\* Trades, transfers, settlement and redemption leave every maturity's fCash netting to zero between
\* the portfolios and the pool until it matures, whatever _upsertAsset merges or nets.
THEOREM FCashNets == Spec => []fCashNetsToZero
  BY Invariance, NetsFacts, PTL

\* The liquidity tokens in the portfolios are the pool's totalLiquidity, whoever holds them, through
\* transfers and settlement.
THEOREM SupplyMatchesTokens == Spec => []TokensMatchSupply
  BY Invariance, SupplyFacts, PTL

\* The market's balance in Escrow is the cash of its pools: CashMarket and Escrow keep separate
\* counts of it, and every call changes both.
THEOREM PoolsHoldCash == Spec => []PoolsHoldTheirCash
  BY Invariance, CashFacts, PTL

\* The tokens that Escrow holds back all the balances and all that matured fCash will still be
\* settled into, in whatever order the accounts are settled.
THEOREM Solvency == Spec => []Solvent
  BY Invariance, SolvencyFacts, PTL

\* settleMaturedAssets takes every matured asset of an array and no other, from every state that is
\* reached.
THEOREM SettlementIsExact == Spec => []SettlesExactlyMatured
  BY Invariance, SettlesFacts, PTL

(****************************************************************************)
(* Batches.  A batch's state between its parts is one that could be         *)
(* committed; each part of a list is a step from such a state to another.   *)
(* None of them overdraws anybody since the world u in which they began.    *)
(****************************************************************************)
Records == [tradeType : TradeTypes, cash : Nat]

BatchStates == [world : Worlds, held : [Currencies -> Int], records : Seq(Records)]

Reached(u) ==
  {s \in BatchStates : Accounted(s.world, blockTime, s.held, Zero, Zero) /\ Keeps(u, s.world)}

\* What such a state has.
LEMMA ReachedFacts ==
  ASSUME NEW u \in Worlds, NEW s \in Reached(u)
  PROVE  /\ s \in BatchStates
         /\ s.world \in Worlds /\ s.held \in [Currencies -> Int] /\ s.records \in Seq(Records)
         /\ Accounted(s.world, blockTime, s.held, Zero, Zero) /\ Keeps(u, s.world)
         /\ \A a \in Accounts, c \in Currencies : s.world.cash[c][a] \in Int
  <1>1. s \in BatchStates /\ Accounted(s.world, blockTime, s.held, Zero, Zero) /\ Keeps(u, s.world)
    BY DEF Reached
  <1>2. s.world \in Worlds
    BY <1>1 DEF BatchStates
  <1> QED
    BY <1>1, <1>2, OwingFacts DEF BatchStates

\* What overdraws nobody may follow what bears.
LEMMA BearsChain ==
  ASSUME NEW u \in Worlds, NEW v \in Worlds, NEW w \in Worlds, Bears(u, v),
         \A a \in Accounts, c \in Currencies : w.cash[c][a] >= LowerOf(v.cash[c][a], 0)
  PROVE  Bears(u, w)
  <1> SUFFICES ASSUME NEW a \in Accounts, NEW c \in Currencies
               PROVE  w.cash[c][a] >= LowerOf(u.cash[c][a], 0) - IF c = Local THEN Owing(u, a) ELSE 0
    BY DEF Bears
  <1> DEFINE n == IF c = Local THEN Owing(u, a) ELSE 0
             x == u.cash[c][a]
             y == v.cash[c][a]
             z == w.cash[c][a]
  <1>1. x \in Int /\ y \in Int /\ z \in Int /\ Owing(u, a) \in Nat
    BY OwingFacts
  <1>2. n \in Nat
    BY <1>1
  <1>3. y >= LowerOf(x, 0) - n /\ z >= LowerOf(y, 0)
    BY DEF Bears
  <1> HIDE DEF n, x, y, z
  <1>4. z >= LowerOf(x, 0) - n
    BY <1>1, <1>2, <1>3 DEF LowerOf
  <1> QED
    BY <1>4 DEF n, x, z

\* Cash that is deposited, or withdrawn from a balance that has it.
LEMMA ReceivedStep ==
  ASSUME IInv, NEW u \in Worlds, NEW s \in Reached(u), NEW a \in Accounts, NEW c \in Currencies, NEW n \in Int,
         n >= 0 \/ s.world.cash[c][a] + n >= 0
  PROVE  Received(s, a, c, n) \in Reached(u)
  <1> DEFINE w == s.world
             B == s.held
             book == Credit(w.cash[c], a, n)
             v == WithBook(w, c, book)
             E == [B EXCEPT ![c] = @ + n]
             r == Received(s, a, c, n)
  <1>1. /\ s \in BatchStates /\ w \in Worlds /\ B \in [Currencies -> Int]
        /\ Accounted(w, blockTime, B, Zero, Zero) /\ Keeps(u, w)
        /\ \A b \in Accounts, d \in Currencies : w.cash[d][b] \in Int
    BY ReachedFacts
  <1>2. r.world = v /\ r.held = E /\ r.records = s.records /\ r = [s EXCEPT !.world = v, !.held = E]
    BY <1>1 DEF Received, WithBook, BatchStates, Worlds
  <1>3. E \in [Currencies -> Int] /\ E[c] = B[c] + n /\ \A d \in Currencies : d # c => E[d] = B[d]
    BY <1>1
  <1> HIDE DEF E
  <1>4. a \in Accounts \cup {Reserve} /\ a # Reserve
    BY ConstantFacts
  <1>5. /\ Accounted(v, blockTime, E, Zero, Zero) /\ v \in Worlds /\ v.assets = w.assets
        /\ v.cash[c][a] = w.cash[c][a] + n
        /\ \A b \in Accounts : b # a => v.cash[c][b] = w.cash[c][b]
        /\ \A d \in Currencies : d # c => v.cash[d] = w.cash[d]
    <2> HIDE DEF w, B, v
    <2> QED
      BY <1>1, <1>3, <1>4, CreditStep DEF v
  <1> HIDE DEF v, r, w, B
  <1>6. Keeps(u, v)
    <2>1. ASSUME NEW b \in Accounts, NEW d \in Currencies
          PROVE  v.cash[d][b] >= LowerOf(w.cash[d][b], 0)
      <3>1. w.cash[d][b] \in Int
        BY <1>1
      <3>2. CASE b = a /\ d = c
        <4>1. n >= 0 \/ w.cash[d][b] + n >= 0
          BY <3>2 DEF w
        <4> QED
          BY <1>5, <3>1, <3>2, <4>1 DEF LowerOf
      <3>3. CASE ~(b = a /\ d = c)
        <4>1. v.cash[d][b] = w.cash[d][b]
          BY <1>5, <3>3
        <4> QED
          BY <3>1, <4>1 DEF LowerOf
      <3> QED
        BY <3>2, <3>3
    <2>2. \A b \in Accounts : Owing(v, b) = Owing(w, b)
      BY <1>5 DEF Owing
    <2>3. Keeps(w, v)
      BY <2>1, <2>2 DEF Keeps
    <2> QED
      BY <1>1, <1>5, <2>3, KeepsChain
  <1>7. r \in BatchStates
    BY <1>1, <1>2, <1>3, <1>5 DEF BatchStates
  <1> QED
    BY <1>2, <1>5, <1>6, <1>7 DEF Reached, r

\* A deposit of a list.
Deposited(t, a, d) == Received(t, a, d.currency, d.amount)

IsDepositChain(F, s, a, value, ds) ==
  F = [z \in SUBSET DOMAIN ds |->
         IF z = {} THEN Received(s, a, Ether, value)
         ELSE Deposited(F[z \ {Max(z)}], a, ds[Max(z)])]

\* The deposits of a batch, one by one.
LEMMA DepositChain ==
  ASSUME IInv, NEW u \in Worlds, NEW s \in Reached(u), NEW a \in Accounts, NEW value \in Nat, NEW ds \in Seq(Orders)
  PROVE  \E C : IsDepositChain(C, s, a, value, ds) /\ DepositsOnBehalf(s, a, value, ds) = C[DOMAIN ds]
  <1> DEFINE N == Len(ds)
             base == Received(s, a, Ether, value)
             After(n, v) == Deposited(v, a, ds[n])
             g == [z \in (1 .. N) \X Reached(u) |-> After(z[1], z[2])]
  <1>1. N \in Nat /\ DOMAIN ds = 1 .. N /\ \A n \in 1 .. N : ds[n] \in Orders
    OBVIOUS
  <1>2. base \in Reached(u)
    BY ConstantFacts, ReceivedStep
  <1>3. ASSUME NEW n \in 1 .. N, NEW v \in Reached(u)
        PROVE  After(n, v) \in Reached(u)
    <2>1. ds[n].currency \in Currencies /\ ds[n].amount \in Int /\ ds[n].amount >= 0
      BY <1>1 DEF Orders
    <2> QED
      BY <2>1, ReceivedStep DEF Deposited
  <1> HIDE DEF base, After
  <1>4. g \in [(1 .. N) \X Reached(u) -> Reached(u)]
    BY <1>3
  <1>5. \A n \in 1 .. N, v \in Reached(u) : g[<<n, v>>] = After(n, v)
    OBVIOUS
  <1> HIDE DEF N, g
  <1>6. PICK F \in [SUBSET (1 .. N) -> Reached(u)] : IsChain(F, N, base, g)
    BY <1>1, <1>2, <1>4, ChainExists
  <1>7. IsDepositChain(F, s, a, value, ds)
    <2>1. ASSUME NEW z \in SUBSET (1 .. N), z # {}
          PROVE  g[<<Max(z), F[z \ {Max(z)}]>>] = After(Max(z), F[z \ {Max(z)}])
      <3>1. Max(z) \in 1 .. N /\ z \ {Max(z)} \in SUBSET (1 .. N)
        BY <1>1, <2>1, MaxFacts
      <3> QED
        BY <1>5, <3>1
    <2>2. \A z \in SUBSET (1 .. N) : F[z] = IF z = {} THEN base ELSE After(Max(z), F[z \ {Max(z)}])
      BY <1>6, <2>1 DEF IsChain
    <2> QED
      BY <1>1, <1>6, <2>2 DEF IsDepositChain, IsChain, After, base
  <1>8. IsDepositChain(CHOOSE H : IsDepositChain(H, s, a, value, ds), s, a, value, ds)
    BY <1>7
  <1>9. DepositsOnBehalf(s, a, value, ds) = (CHOOSE H : IsDepositChain(H, s, a, value, ds))[DOMAIN ds]
    BY DEF DepositsOnBehalf, FoldLeft, MapThenFoldSet, IsDepositChain, Deposited
  <1> QED
    BY <1>8, <1>9

\* The deposits of a batch leave a sound state.
LEMMA DepositsStep ==
  ASSUME IInv, NEW u \in Worlds, NEW s \in Reached(u), NEW a \in Accounts, NEW value \in Nat, NEW ds \in Seq(Orders)
  PROVE  DepositsOnBehalf(s, a, value, ds) \in Reached(u)
  <1>1. PICK C : IsDepositChain(C, s, a, value, ds) /\ DepositsOnBehalf(s, a, value, ds) = C[DOMAIN ds]
    BY DepositChain
  <1>2. Len(ds) \in Nat /\ DOMAIN ds = 1 .. Len(ds) /\ \A n \in 1 .. Len(ds) : ds[n] \in Orders
    OBVIOUS
  <1>3. C[{}] \in Reached(u)
    BY <1>1, ConstantFacts, ReceivedStep DEF IsDepositChain
  <1>4. ASSUME NEW n \in 1 .. Len(ds), C[(1 .. n) \ {n}] \in Reached(u)
        PROVE  C[1 .. n] \in Reached(u)
    <2>1. 1 .. n \in SUBSET DOMAIN ds /\ 1 .. n # {} /\ Max(1 .. n) = n
      BY <1>2, ChainPrefix
    <2>2. C[1 .. n] = Deposited(C[(1 .. n) \ {n}], a, ds[n])
      BY <1>1, <2>1 DEF IsDepositChain
    <2>3. ds[n].currency \in Currencies /\ ds[n].amount \in Int /\ ds[n].amount >= 0
      BY <1>2 DEF Orders
    <2> QED
      BY <1>4, <2>2, <2>3, ReceivedStep DEF Deposited
  <1>5. C[1 .. Len(ds)] \in Reached(u)
    BY <1>2, <1>3, <1>4, ChainStays
  <1> QED
    BY <1>1, <1>2, <1>5

\* A part of a batch that places a trade leaves sound states.
LEMMA PlacedStep ==
  ASSUME IInv, NEW u \in Worlds, NEW s \in Reached(u), NEW a \in Accounts, NEW m \in Maturities, NEW worlds,
         \A w \in worlds : Leaves(s.world, w, s.held, a, m), NEW r \in Records
  PROVE  Placed(s, worlds, r) \subseteq Reached(u)
  <1> SUFFICES ASSUME NEW w \in worlds
               PROVE  [s EXCEPT !.world = w, !.records = Append(@, r)] \in Reached(u)
    BY DEF Placed
  <1> DEFINE t == [s EXCEPT !.world = w, !.records = Append(@, r)]
  <1>1. s \in BatchStates /\ s.world \in Worlds /\ Keeps(u, s.world)
    BY ReachedFacts
  <1>2. /\ blockTime < m /\ Accounted(w, blockTime, s.held, Zero, Zero) /\ Called(s.world, w, a, m)
        /\ w \in Worlds
    BY DEF Leaves, Accounted
  <1>3. Keeps(s.world, w)
    BY <1>1, <1>2, NowFacts, CalledKeeps
  <1>4. Keeps(u, w)
    BY <1>1, <1>2, <1>3, KeepsChain
  <1>5. t \in BatchStates /\ t.world = w /\ t.held = s.held
    <2> DEFINE rs == Append(s.records, r)
    <2>1. rs \in Seq(Records)
      BY ReachedFacts
    <2>2. t = [s EXCEPT !.world = w, !.records = rs]
      BY DEF rs
    <2> HIDE DEF rs, t
    <2> QED
      BY <1>1, <1>2, <2>1, <2>2 DEF BatchStates
  <1> QED
    BY <1>2, <1>4, <1>5 DEF Reached

\* Each kind of trade is a call of the market.
LEMMA PlaceTradeStep ==
  ASSUME IInv, NEW u \in Worlds, NEW s \in Reached(u), NEW a \in Accounts, NEW type \in TradeTypes,
         NEW m \in Maturities, NEW x \in Nat, NEW y \in Nat
  PROVE  PlaceTrade(s, a, type, m, x, y) \subseteq Reached(u)
  <1> DEFINE w == s.world
             B == s.held
             claim == CashClaim(PoolIn(w, m), x)
  <1>1. blockTime \in Nat /\ w \in Worlds /\ Accounted(w, blockTime, B, Zero, Zero)
    BY NowFacts, ReachedFacts
  <1> HIDE DEF w, B
  <1>2. CASE type = "TakeCurrentCash"
    <2>1. \A v \in TakesCurrentCash(w, a, m, x, y) : Leaves(w, v, B, a, m)
      BY <1>1, BorrowStep
    <2>2. Record(type, y) \in Records
      BY DEF Record, Records
    <2> QED
      BY <1>2, <2>1, <2>2, PlacedStep DEF PlaceTrade, w, B
  <1>3. CASE type = "TakefCash"
    <2>1. \A v \in TakesfCash(w, a, m, x, y) : Leaves(w, v, B, a, m)
      BY <1>1, LendStep
    <2>2. Record(type, y) \in Records
      BY DEF Record, Records
    <2> QED
      BY <1>3, <2>1, <2>2, PlacedStep DEF PlaceTrade, w, B
  <1>4. CASE type = "AddLiquidity"
    <2> DEFINE worlds == AddsFirstLiquidity(w, a, m, x, y) \cup AddsLiquidity(w, a, m, x, y)
    <2>1. \A v \in worlds : Leaves(w, v, B, a, m)
      BY <1>1, OpenStep, JoinStep
    <2>2. Record(type, x) \in Records
      BY DEF Record, Records
    <2>3. PlaceTrade(s, a, type, m, x, y) = Placed(s, worlds, Record(type, x))
      BY <1>4 DEF PlaceTrade, w
    <2> HIDE DEF worlds
    <2> QED
      BY <2>1, <2>2, <2>3, PlacedStep DEF w, B
  <1>5. CASE type = "RemoveLiquidity" /\ blockTime < m /\ CanRedeem(PoolIn(w, m), x)
    <2>1. \A v \in RemovesLiquidity(w, a, m, x) : Leaves(w, v, B, a, m)
      BY <1>1, RemoveStep
    <2>2. claim \in Nat
      <3>1. PoolIn(w, m) \in Market
        BY <1>1, PoolFacts
      <3> QED
        BY <1>5, <3>1, ProRata DEF CanRedeem, CashClaim, Market
    <2>3. Record(type, claim) \in Records
      BY <2>2 DEF Record, Records
    <2>4. PlaceTrade(s, a, type, m, x, y) = Placed(s, RemovesLiquidity(w, a, m, x), Record(type, claim))
      BY <1>5 DEF PlaceTrade, w
    <2> QED
      BY <2>1, <2>3, <2>4, PlacedStep DEF w, B
  <1>6. CASE type = "RemoveLiquidity" /\ ~(blockTime < m /\ CanRedeem(PoolIn(w, m), x))
    BY <1>6 DEF PlaceTrade, w
  <1> QED
    BY <1>2, <1>3, <1>4, <1>5, <1>6 DEF TradeTypes

\* The trades of a list, each placed in all the states that the ones before it may leave.
PlacedAll(ss, a, type) ==
  UNION { PlaceTrade(t, a, type, m, x, y) : t \in ss, m \in Maturities, x \in Amounts, y \in Amounts }

\* All the states of a placed trade are in T if each trade's are.
LEMMA PlacedAllIn ==
  ASSUME NEW ss, NEW a, NEW type, NEW T,
         \A t \in ss, m \in Maturities, x \in Amounts, y \in Amounts : PlaceTrade(t, a, type, m, x, y) \subseteq T
  PROVE  PlacedAll(ss, a, type) \subseteq T
  BY DEF PlacedAll

IsTradeChain(F, s, a, types) ==
  F = [z \in SUBSET DOMAIN types |->
         IF z = {} THEN {s} ELSE PlacedAll(F[z \ {Max(z)}], a, types[Max(z)])]

\* The trades of a list, one by one.
LEMMA TradeChain ==
  ASSUME IInv, NEW u \in Worlds, NEW s \in Reached(u), NEW a \in Accounts, NEW types \in Seq(TradeTypes)
  PROVE  \E C : IsTradeChain(C, s, a, types) /\ BatchTrade(s, a, types) = C[DOMAIN types]
  <1> DEFINE N == Len(types)
             V == SUBSET Reached(u)
             base == {s}
             After(n, v) == PlacedAll(v, a, types[n])
             g == [z \in (1 .. N) \X V |-> After(z[1], z[2])]
  <1>1. N \in Nat /\ DOMAIN types = 1 .. N /\ \A n \in 1 .. N : types[n] \in TradeTypes
    OBVIOUS
  <1>2. base \in V
    OBVIOUS
  <1>3. ASSUME NEW n \in 1 .. N, NEW v \in V
        PROVE  After(n, v) \in V
    <2>1. \A t \in v, m \in Maturities, x \in Amounts, y \in Amounts :
            PlaceTrade(t, a, types[n], m, x, y) \subseteq Reached(u)
      BY <1>1, PlaceTradeStep, AmountsAssumption
    <2> QED
      BY <2>1 DEF PlacedAll
  <1> HIDE DEF V, base, After
  <1>4. g \in [(1 .. N) \X V -> V]
    BY <1>3
  <1>5. \A n \in 1 .. N, v \in V : g[<<n, v>>] = After(n, v)
    OBVIOUS
  <1> HIDE DEF N, g
  <1>6. PICK F \in [SUBSET (1 .. N) -> V] : IsChain(F, N, base, g)
    BY <1>1, <1>2, <1>4, ChainExists
  <1>7. IsTradeChain(F, s, a, types)
    <2>1. ASSUME NEW z \in SUBSET (1 .. N), z # {}
          PROVE  g[<<Max(z), F[z \ {Max(z)}]>>] = After(Max(z), F[z \ {Max(z)}])
      <3>1. Max(z) \in 1 .. N /\ z \ {Max(z)} \in SUBSET (1 .. N)
        BY <1>1, <2>1, MaxFacts
      <3> QED
        BY <1>5, <3>1
    <2>2. \A z \in SUBSET (1 .. N) : F[z] = IF z = {} THEN base ELSE After(Max(z), F[z \ {Max(z)}])
      BY <1>6, <2>1 DEF IsChain
    <2> QED
      BY <1>1, <1>6, <2>2 DEF IsTradeChain, IsChain, After, base
  <1>8. IsTradeChain(CHOOSE H : IsTradeChain(H, s, a, types), s, a, types)
    BY <1>7
  <1>9. BatchTrade(s, a, types) = (CHOOSE H : IsTradeChain(H, s, a, types))[DOMAIN types]
    BY DEF BatchTrade, FoldLeft, MapThenFoldSet, IsTradeChain, PlacedAll
  <1> QED
    BY <1>8, <1>9

\* So do the trades of a list.
LEMMA TradesStep ==
  ASSUME IInv, NEW u \in Worlds, NEW s \in Reached(u), NEW a \in Accounts, NEW types \in Seq(TradeTypes)
  PROVE  BatchTrade(s, a, types) \subseteq Reached(u)
  <1> DEFINE V == SUBSET Reached(u)
  <1>1. PICK C : IsTradeChain(C, s, a, types) /\ BatchTrade(s, a, types) = C[DOMAIN types]
    BY TradeChain
  <1>2. Len(types) \in Nat /\ DOMAIN types = 1 .. Len(types) /\ \A n \in 1 .. Len(types) : types[n] \in TradeTypes
    OBVIOUS
  <1>3. C[{}] \in V
    BY <1>1 DEF IsTradeChain
  <1>4. ASSUME NEW n \in 1 .. Len(types), C[(1 .. n) \ {n}] \in V
        PROVE  C[1 .. n] \in V
    <2>1. 1 .. n \in SUBSET DOMAIN types /\ 1 .. n # {} /\ Max(1 .. n) = n
      BY <1>2, ChainPrefix
    <2>2. C[1 .. n] = PlacedAll(C[(1 .. n) \ {n}], a, types[n])
      BY <1>1, <2>1 DEF IsTradeChain
    <2>3. \A t \in C[(1 .. n) \ {n}], m \in Maturities, x \in Amounts, y \in Amounts :
            PlaceTrade(t, a, types[n], m, x, y) \subseteq Reached(u)
      BY <1>2, <1>4, PlaceTradeStep, AmountsAssumption
    <2>4. PlacedAll(C[(1 .. n) \ {n}], a, types[n]) \subseteq Reached(u)
      BY <2>3, PlacedAllIn
    <2> QED
      BY <2>2, <2>4
  <1> HIDE DEF V
  <1>5. C[1 .. Len(types)] \in V
    BY <1>2, <1>3, <1>4, ChainStays
  <1> QED
    BY <1>1, <1>2, <1>5 DEF V

\* The amount of a residual after one record.
Residual(n, r) ==
  IF r.tradeType \in TakesOut THEN n + r.cash
  ELSE IF n < r.cash THEN 0 ELSE n - r.cash

IsResidualChain(F, base, rs) ==
  F = [z \in SUBSET DOMAIN rs |-> IF z = {} THEN base ELSE Residual(F[z \ {Max(z)}], rs[Max(z)])]

\* The records that count are those of the cash group's currency.
Counted(c, rs) == IF c = Local THEN rs ELSE << >>

\* The residual, record by record.
LEMMA ResidualChain ==
  ASSUME NEW c, NEW rs \in Seq(Records), NEW ds \in Seq(Orders)
  PROVE  /\ DepositOf(c, ds) \in Nat /\ Counted(c, rs) \in Seq(Records)
         /\ \E C : /\ IsResidualChain(C, DepositOf(c, ds), Counted(c, rs))
                  /\ WithdrawAmount(c, rs, ds) = C[DOMAIN Counted(c, rs)]
  <1> DEFINE base == DepositOf(c, ds)
             xs == Counted(c, rs)
             N == Len(xs)
             After(n, v) == Residual(v, xs[n])
             g == [z \in (1 .. N) \X Nat |-> After(z[1], z[2])]
  <1>1. base \in Nat
    <2> DEFINE at == {i \in DOMAIN ds : ds[i].currency = c}
    <2>1. DOMAIN ds \subseteq Nat /\ \A i \in DOMAIN ds : ds[i].amount \in Nat
      <3>1. DOMAIN ds = 1 .. Len(ds) /\ \A i \in DOMAIN ds : ds[i] \in Orders
        OBVIOUS
      <3> QED
        BY <3>1 DEF Orders
    <2>2. at # {} => Min(at) \in DOMAIN ds
      <3>1. at \in SUBSET Nat /\ at \subseteq DOMAIN ds
        BY <2>1
      <3> HIDE DEF at
      <3> QED
        BY <3>1, MinFacts
    <2> QED
      BY <2>1, <2>2 DEF DepositOf
  <1>2. xs \in Seq(Records)
    <2>1. << >> \in Seq(Records)
      OBVIOUS
    <2> QED
      BY <2>1 DEF Counted
  <1>3. WithdrawAmount(c, rs, ds)
          = FoldLeft(LAMBDA residual, r :
                       IF r.tradeType \in TakesOut THEN residual + r.cash
                       ELSE IF residual < r.cash THEN 0 ELSE residual - r.cash, base, xs)
    BY DEF WithdrawAmount, Counted
  <1> HIDE DEF base, xs
  <1>4. N \in Nat /\ DOMAIN xs = 1 .. N /\ \A n \in 1 .. N : xs[n] \in Records
    BY <1>2
  <1>5. ASSUME NEW n \in 1 .. N, NEW v \in Nat
        PROVE  After(n, v) \in Nat
    <2>1. xs[n].cash \in Nat
      BY <1>4 DEF Records
    <2> QED
      BY <2>1 DEF Residual
  <1> HIDE DEF After
  <1>6. g \in [(1 .. N) \X Nat -> Nat]
    BY <1>5
  <1>7. \A n \in 1 .. N, v \in Nat : g[<<n, v>>] = After(n, v)
    OBVIOUS
  <1> HIDE DEF N, g
  <1>8. PICK F \in [SUBSET (1 .. N) -> Nat] : IsChain(F, N, base, g)
    BY <1>1, <1>4, <1>6, ChainExists
  <1>9. IsResidualChain(F, base, xs)
    <2>1. ASSUME NEW z \in SUBSET (1 .. N), z # {}
          PROVE  g[<<Max(z), F[z \ {Max(z)}]>>] = After(Max(z), F[z \ {Max(z)}])
      <3>1. Max(z) \in 1 .. N /\ z \ {Max(z)} \in SUBSET (1 .. N)
        BY <1>4, <2>1, MaxFacts
      <3> QED
        BY <1>7, <3>1
    <2>2. \A z \in SUBSET (1 .. N) : F[z] = IF z = {} THEN base ELSE After(Max(z), F[z \ {Max(z)}])
      BY <1>8, <2>1 DEF IsChain
    <2> QED
      BY <1>4, <1>8, <2>2 DEF IsResidualChain, IsChain, After
  <1>10. IsResidualChain(CHOOSE H : IsResidualChain(H, base, xs), base, xs)
    BY <1>9
  <1>11. WithdrawAmount(c, rs, ds) = (CHOOSE H : IsResidualChain(H, base, xs))[DOMAIN xs]
    BY <1>3 DEF FoldLeft, MapThenFoldSet, IsResidualChain, Residual
  <1> QED
    BY <1>1, <1>2, <1>10, <1>11 DEF base, xs

\* The floor at zero of every record keeps the residual a natural number.
LEMMA ResidualFacts ==
  ASSUME NEW c, NEW rs \in Seq(Records), NEW ds \in Seq(Orders)
  PROVE  WithdrawAmount(c, rs, ds) \in Nat
  <1> DEFINE xs == Counted(c, rs)
  <1>1. /\ DepositOf(c, ds) \in Nat /\ xs \in Seq(Records)
        /\ \E C : IsResidualChain(C, DepositOf(c, ds), xs) /\ WithdrawAmount(c, rs, ds) = C[DOMAIN xs]
    BY ResidualChain
  <1> HIDE DEF xs
  <1>2. PICK C : IsResidualChain(C, DepositOf(c, ds), xs) /\ WithdrawAmount(c, rs, ds) = C[DOMAIN xs]
    BY <1>1
  <1>3. Len(xs) \in Nat /\ DOMAIN xs = 1 .. Len(xs) /\ \A n \in 1 .. Len(xs) : xs[n] \in Records
    BY <1>1
  <1>4. C[{}] \in Nat
    BY <1>2, <1>1 DEF IsResidualChain
  <1>5. ASSUME NEW n \in 1 .. Len(xs), C[(1 .. n) \ {n}] \in Nat
        PROVE  C[1 .. n] \in Nat
    <2>1. 1 .. n \in SUBSET DOMAIN xs /\ 1 .. n # {} /\ Max(1 .. n) = n
      BY <1>3, ChainPrefix
    <2>2. C[1 .. n] = Residual(C[(1 .. n) \ {n}], xs[n])
      BY <1>2, <2>1 DEF IsResidualChain
    <2>3. xs[n].cash \in Nat
      BY <1>3 DEF Records
    <2> QED
      BY <1>5, <2>2, <2>3 DEF Residual
  <1>6. C[1 .. Len(xs)] \in Nat
    BY <1>3, <1>4, <1>5, ChainStays
  <1> QED
    BY <1>2, <1>3, <1>6

\* A withdrawal of a list: the balance pays what it can.
PaidOut(t, a, w, rs, ds) ==
  Received(t, a, w.currency, -Withdrawn(t.world.cash[w.currency], a, AmountOf(w, rs, ds)))

IsWithdrawChain(F, s, a, ds, ws) ==
  F = [z \in SUBSET DOMAIN ws |->
         IF z = {} THEN s ELSE PaidOut(F[z \ {Max(z)}], a, ws[Max(z)], s.records, ds)]

\* No withdrawal takes more than there is.
LEMMA PaidOutStep ==
  ASSUME IInv, NEW u \in Worlds, NEW t \in Reached(u), NEW a \in Accounts, NEW w \in Orders, NEW rs \in Seq(Records),
         NEW ds \in Seq(Orders)
  PROVE  PaidOut(t, a, w, rs, ds) \in Reached(u)
  <1> DEFINE c == w.currency
             n == AmountOf(w, rs, ds)
             b == t.world.cash[c][a]
             paid == Withdrawn(t.world.cash[c], a, n)
             out == -paid
  <1>1. c \in Currencies /\ w.amount \in Nat
    BY DEF Orders
  <1>2. n \in Nat
    BY <1>1, ResidualFacts DEF AmountOf
  <1>3. b \in Int
    BY <1>1, ReachedFacts
  <1>4. paid \in Int /\ (out >= 0 \/ b + out >= 0) /\ out \in Int
    <2>1. paid = IF b <= 0 THEN 0 ELSE IF b < n THEN b ELSE n
      BY DEF Withdrawn
    <2> HIDE DEF paid, b, n
    <2> QED
      BY <1>2, <1>3, <2>1
  <1> HIDE DEF out
  <1>5. Received(t, a, c, out) \in Reached(u)
    BY <1>1, <1>4, ReceivedStep
  <1> QED
    BY <1>5 DEF PaidOut, out

\* The withdrawals of a batch, one by one.
LEMMA WithdrawChain ==
  ASSUME IInv, NEW u \in Worlds, NEW s \in Reached(u), NEW a \in Accounts, NEW ds \in Seq(Orders), NEW ws \in Seq(Orders)
  PROVE  \E C : IsWithdrawChain(C, s, a, ds, ws) /\ WithdrawsOnBehalf(s, a, ds, ws) = C[DOMAIN ws]
  <1> DEFINE N == Len(ws)
             After(n, v) == PaidOut(v, a, ws[n], s.records, ds)
             g == [z \in (1 .. N) \X Reached(u) |-> After(z[1], z[2])]
  <1>1. N \in Nat /\ DOMAIN ws = 1 .. N /\ \A n \in 1 .. N : ws[n] \in Orders
    OBVIOUS
  <1>2. ASSUME NEW n \in 1 .. N, NEW v \in Reached(u)
        PROVE  After(n, v) \in Reached(u)
    BY <1>1, ReachedFacts, PaidOutStep
  <1> HIDE DEF After
  <1>3. g \in [(1 .. N) \X Reached(u) -> Reached(u)]
    BY <1>2
  <1>4. \A n \in 1 .. N, v \in Reached(u) : g[<<n, v>>] = After(n, v)
    OBVIOUS
  <1> HIDE DEF N, g
  <1>5. PICK F \in [SUBSET (1 .. N) -> Reached(u)] : IsChain(F, N, s, g)
    BY <1>1, <1>3, ChainExists
  <1>6. IsWithdrawChain(F, s, a, ds, ws)
    <2>1. ASSUME NEW z \in SUBSET (1 .. N), z # {}
          PROVE  g[<<Max(z), F[z \ {Max(z)}]>>] = After(Max(z), F[z \ {Max(z)}])
      <3>1. Max(z) \in 1 .. N /\ z \ {Max(z)} \in SUBSET (1 .. N)
        BY <1>1, <2>1, MaxFacts
      <3> QED
        BY <1>4, <3>1
    <2>2. \A z \in SUBSET (1 .. N) : F[z] = IF z = {} THEN s ELSE After(Max(z), F[z \ {Max(z)}])
      BY <1>5, <2>1 DEF IsChain
    <2> QED
      BY <1>1, <1>5, <2>2 DEF IsWithdrawChain, IsChain, After
  <1>7. IsWithdrawChain(CHOOSE H : IsWithdrawChain(H, s, a, ds, ws), s, a, ds, ws)
    BY <1>6
  <1>8. WithdrawsOnBehalf(s, a, ds, ws) = (CHOOSE H : IsWithdrawChain(H, s, a, ds, ws))[DOMAIN ws]
    BY DEF WithdrawsOnBehalf, FoldLeft, MapThenFoldSet, IsWithdrawChain, PaidOut
  <1> QED
    BY <1>7, <1>8

\* The withdrawals of a batch leave a sound state.
LEMMA WithdrawalsStep ==
  ASSUME IInv, NEW u \in Worlds, NEW s \in Reached(u), NEW a \in Accounts, NEW ds \in Seq(Orders), NEW ws \in Seq(Orders)
  PROVE  WithdrawsOnBehalf(s, a, ds, ws) \in Reached(u)
  <1>1. PICK C : IsWithdrawChain(C, s, a, ds, ws) /\ WithdrawsOnBehalf(s, a, ds, ws) = C[DOMAIN ws]
    BY WithdrawChain
  <1>2. Len(ws) \in Nat /\ DOMAIN ws = 1 .. Len(ws) /\ \A n \in 1 .. Len(ws) : ws[n] \in Orders
    OBVIOUS
  <1>3. C[{}] \in Reached(u)
    BY <1>1 DEF IsWithdrawChain
  <1>4. ASSUME NEW n \in 1 .. Len(ws), C[(1 .. n) \ {n}] \in Reached(u)
        PROVE  C[1 .. n] \in Reached(u)
    <2>1. 1 .. n \in SUBSET DOMAIN ws /\ 1 .. n # {} /\ Max(1 .. n) = n
      BY <1>2, ChainPrefix
    <2>2. C[1 .. n] = PaidOut(C[(1 .. n) \ {n}], a, ws[n], s.records, ds)
      BY <1>1, <2>1 DEF IsWithdrawChain
    <2>3. s.records \in Seq(Records) /\ ws[n] \in Orders
      BY <1>2, ReachedFacts
    <2> QED
      BY <1>4, <2>2, <2>3, PaidOutStep
  <1>5. C[1 .. Len(ws)] \in Reached(u)
    BY <1>2, <1>3, <1>4, ChainStays
  <1> QED
    BY <1>1, <1>2, <1>5

\* Where a batch begins.
LEMMA BeginStep ==
  ASSUME IInv, NEW w \in Worlds, Accounted(w, blockTime, custody, Zero, Zero)
  PROVE  [world |-> w, held |-> custody, records |-> << >>] \in Reached(w)
  <1>1. << >> \in Seq(Records) /\ custody \in [Currencies -> Int]
    BY DEF IInv
  <1> QED
    BY <1>1, KeepsItself DEF Reached, BatchStates

\* A state reached from one that bears may be committed.
LEMMA CommitReached ==
  ASSUME IInv, NEW u \in Worlds, Bears(World, u), NEW s \in Reached(u), CommitTokens(s.world, s.held)
  PROVE  IInv' /\ DebtStep
  <1>1. /\ s.world \in Worlds /\ s.held \in [Currencies -> Int] /\ Keeps(u, s.world)
        /\ Accounted(s.world, blockTime, s.held, Zero, Zero)
    BY ReachedFacts
  <1>2. \A a \in Accounts, c \in Currencies : s.world.cash[c][a] >= LowerOf(u.cash[c][a], 0)
    BY <1>1 DEF Keeps
  <1>3. Bears(World, s.world)
    BY <1>1, <1>2, NowFacts, BearsChain
  <1> QED
    BY <1>1, <1>3, CommitStep DEF Sound

\* A batch keeps the invariant, with withdrawals or without.
LEMMA BatchCallStep ==
  ASSUME IInv, BatchCall
  PROVE  IInv' /\ DebtStep
  <1>1. PICK a \in Accounts, value \in EtherSent, ds \in DepositLists, types \in TradeLists :
          \E s \in AfterTrades(a, value, ds, types) :
            \/ BatchOperation(s, a, types)
            \/ \E ws \in WithdrawLists : BatchOperationWithdraw(s, a, ds, ws)
    BY DEF BatchCall
  <1>2. PICK s \in AfterTrades(a, value, ds, types) :
          \/ BatchOperation(s, a, types)
          \/ \E ws \in WithdrawLists : BatchOperationWithdraw(s, a, ds, ws)
    BY <1>1
  <1>3. value \in Nat /\ ds \in Seq(Orders) /\ types \in Seq(TradeTypes)
    BY ListsAssumption
  <1>4. PICK w \in Settled(World, a) :
          s \in BatchTrade(DepositsOnBehalf([world |-> w, held |-> custody, records |-> << >>],
                                            a, value, ds), a, types)
    BY DEF AfterTrades, Begin
  <1>5. w \in Worlds /\ Bears(World, w) /\ Accounted(w, blockTime, custody, Zero, Zero)
    <2>1. Sound(w, custody)
      BY NowFacts, SettledSound
    <2> QED
      BY <2>1 DEF Sound, Accounted
  <1>6. s \in Reached(w)
    <2> DEFINE t == [world |-> w, held |-> custody, records |-> << >>]
    <2>1. t \in Reached(w)
      BY <1>5, BeginStep
    <2> HIDE DEF t
    <2>2. DepositsOnBehalf(t, a, value, ds) \in Reached(w)
      BY <1>3, <1>5, <2>1, DepositsStep
    <2>3. BatchTrade(DepositsOnBehalf(t, a, value, ds), a, types) \subseteq Reached(w)
      BY <1>3, <1>5, <2>2, TradesStep
    <2> QED
      BY <1>4, <2>3 DEF t
  <1>7. CASE BatchOperation(s, a, types)
    BY <1>5, <1>6, <1>7, CommitReached DEF BatchOperation
  <1>8. CASE \E ws \in WithdrawLists : BatchOperationWithdraw(s, a, ds, ws)
    <2>1. PICK ws \in WithdrawLists : BatchOperationWithdraw(s, a, ds, ws)
      BY <1>8
    <2> DEFINE t == WithdrawsOnBehalf(s, a, ds, ws)
    <2>2. CommitTokens(t.world, t.held)
      BY <2>1 DEF BatchOperationWithdraw
    <2>3. t \in Reached(w)
      BY <1>3, <1>5, <1>6, WithdrawalsStep, ListsAssumption
    <2> HIDE DEF t
    <2> QED
      BY <1>5, <2>2, <2>3, CommitReached
  <1> QED
    BY <1>2, <1>7, <1>8

\* So does a block trade, which settles the payer only after the pair has been minted.
LEMMA BlockTradeStep ==
  ASSUME IInv, BlockTrade
  PROVE  IInv' /\ DebtStep
  <1>1. PICK payer \in Accounts, receiver \in Accounts, ds \in DepositLists, m \in Maturities,
             n \in Amounts : SafeTransferFrom(payer, receiver, ds, m, n)
    BY DEF BlockTrade
  <1> DEFINE start == [world |-> World, held |-> custody, records |-> << >>]
             s == DepositsOnBehalf(start, payer, 0, ds)
  <1>2. PICK w \in MintsfCashPair(s.world, payer, receiver, m, n) :
          \E x \in Settled(w, payer) : CommitTokens(x, s.held)
    BY <1>1 DEF SafeTransferFrom, Checked
  <1>3. PICK x \in Settled(w, payer) : CommitTokens(x, s.held)
    BY <1>2
  <1>4. start \in Reached(World)
    BY NowFacts, BeginStep
  <1> HIDE DEF start
  <1>5. s \in Reached(World)
    BY <1>4, NowFacts, DepositsStep, ListsAssumption
  <1> HIDE DEF s
  <1>6. Accounted(w, blockTime, s.held, Zero, Zero) /\ Keeps(World, w)
    <2>1. n \in Nat
      BY AmountsAssumption
    <2>2. /\ s.world \in Worlds /\ Accounted(s.world, blockTime, s.held, Zero, Zero)
          /\ Keeps(World, s.world)
      BY <1>5, NowFacts, ReachedFacts
    <2>3. Accounted(w, blockTime, s.held, Zero, Zero) /\ Keeps(s.world, w)
      BY <2>1, <2>2, MintStep
    <2>4. w \in Worlds
      BY <2>3 DEF Accounted
    <2> QED
      BY <2>2, <2>3, <2>4, NowFacts, KeepsChain
  <1>7. Sound(x, s.held)
    BY <1>6, SettledSound
  <1>8. s.held \in [Currencies -> Int]
    BY <1>5, NowFacts, ReachedFacts
  <1> QED
    BY <1>3, <1>7, <1>8, CommitStep

\* Every step of the specification with batches keeps the invariant and overdraws nobody.
LEMMA BatchNextStep ==
  ASSUME IInv, [BatchNext]_vars
  PROVE  IInv' /\ DebtStep
  <1>1. CASE Tick \/ RateMoves \/ PortfoliosCall \/ UNCHANGED vars
    BY <1>1, NextStep DEF Next
  <1>2. CASE BatchCall \/ BlockTrade
    BY <1>2, BatchCallStep, BlockTradeStep
  <1> QED
    BY <1>1, <1>2 DEF BatchNext

\* The invariant of transactions is one of batches.
THEOREM BatchInvariance == BatchSpec => []IInv
  <1>1. Init => IInv
    BY InitStep
  <1>2. IInv /\ [BatchNext]_vars => IInv'
    BY BatchNextStep
  <1> QED
    BY <1>1, <1>2, PTL DEF BatchSpec

\* Batches and block trades leave Escrow solvent, although their trades are placed without a
\* check and their withdrawals use what the records of those trades leave.
THEOREM BatchSolvency == BatchSpec => []Solvent
  BY BatchInvariance, SolvencyFacts, PTL

\* Nothing in a batch takes a balance below zero, or further below, by more than the account's
\* matured obligations: not the withdrawals, nor fees that the records leave out.
THEOREM BatchOverdrawsNobody == BatchSpec => DebtOnlyFromMaturedAssets
  <1>1. IInv /\ [BatchNext]_vars => DebtStep
    BY BatchNextStep
  <1>2. IInv /\ [BatchNext]_vars => [DebtStep]_vars
    BY <1>1
  <1> QED
    BY <1>2, BatchInvariance, PTL DEF BatchSpec, DebtOnlyFromMaturedAssets

(****************************************************************************)
(* Residuals.  The balance has moved since the batch began by no more than  *)
(* the residual says: the deposit, and what the trades put in or took out.  *)
(****************************************************************************)

\* What a deposit, or a withdrawal, does to the balance in the group's currency.
LEMMA ReceivedCash ==
  ASSUME NEW u \in Worlds, NEW s \in Reached(u), NEW a \in Accounts, NEW c \in Currencies, NEW n \in Int,
         NEW t, t = Received(s, a, c, n)
  PROVE  /\ t.world.cash[Local][a] = s.world.cash[Local][a] + (IF c = Local THEN n ELSE 0)
         /\ t.records = s.records
  <1>1. s \in BatchStates /\ s.world \in Worlds /\ s.world.cash[Local][a] \in Int
    BY ReachedFacts, ConstantFacts
  <1>2. /\ s.world.cash \in [Currencies -> Book] /\ Local \in Currencies /\ a \in Holders
    BY <1>1, ConstantFacts DEF Worlds
  <1>3. t.records = s.records /\ t.world.cash = [s.world.cash EXCEPT ![c] = Credit(@, a, n)]
    BY <1>1 DEF Received, BatchStates, Worlds
  <1>4. CASE c = Local
    <2>1. t.world.cash[Local] = Credit(s.world.cash[Local], a, n)
      BY <1>2, <1>3, <1>4
    <2>2. s.world.cash[Local] \in Book
      BY <1>2
    <2>3. Credit(s.world.cash[Local], a, n)[a] = s.world.cash[Local][a] + n
      BY <1>2, <2>2 DEF Credit, Book
    <2> QED
      BY <1>3, <1>4, <2>1, <2>3
  <1>5. CASE c # Local
    <2>1. t.world.cash[Local] = s.world.cash[Local]
      BY <1>2, <1>3, <1>5
    <2> QED
      BY <1>1, <1>3, <1>5, <2>1
  <1> QED
    BY <1>4, <1>5

\* Where the one deposit of the group's currency is in a list, if there is one.
LEMMA DepositPlace ==
  ASSUME NEW ds \in Seq(Orders), OneDepositEach(ds)
  PROVE  \E i \in 1 .. Len(ds) + 1 :
           /\ \A j \in 1 .. Len(ds) : (IF ds[j].currency = Local THEN ds[j].amount ELSE 0)
                                       = (IF j = i THEN DepositOf(Local, ds) ELSE 0)
           /\ i = Len(ds) + 1 => DepositOf(Local, ds) = 0
  <1> DEFINE at == {i \in DOMAIN ds : ds[i].currency = Local}
             N == Len(ds)
  <1>1. N \in Nat /\ DOMAIN ds = 1 .. N
    OBVIOUS
  <1>2. CASE at = {}
    <2>1. \A j \in 1 .. N : ds[j].currency # Local /\ j # N + 1
      BY <1>1, <1>2
    <2>2. N + 1 \in 1 .. N + 1
      BY <1>1
    <2>3. DepositOf(Local, ds) = 0
      BY <1>2 DEF DepositOf
    <2> QED
      BY <2>1, <2>2, <2>3
  <1>3. CASE at # {}
    <2> DEFINE i == Min(at)
    <2>1. at \in SUBSET Nat /\ at \subseteq 1 .. N
      BY <1>1
    <2>2. i \in at
      <3> HIDE DEF at
      <3> QED
        BY <1>3, <2>1, MinFacts
    <2>3. DepositOf(Local, ds) = ds[i].amount
      BY <1>3 DEF DepositOf
    <2> HIDE DEF i
    <2>4. i \in 1 .. N /\ ds[i].currency = Local
      BY <1>1, <2>2
    <2>5. \A j \in 1 .. N : ds[j].currency = Local => j = i
      BY <1>1, <2>4 DEF OneDepositEach
    <2> HIDE DEF at
    <2>6. i \in 1 .. N + 1 /\ i # N + 1
      BY <1>1, <2>4
    <2> QED
      BY <2>3, <2>4, <2>5, <2>6
  <1> QED
    BY <1>2, <1>3

\* The deposits of a batch add the one of the group's currency to the balance.
LEMMA DepositsCash ==
  ASSUME IInv, NEW u \in Worlds, NEW s \in Reached(u), NEW a \in Accounts, NEW ds \in Seq(Orders), OneDepositEach(ds),
         NEW t, t = DepositsOnBehalf(s, a, 0, ds)
  PROVE  /\ t.world.cash[Local][a] = s.world.cash[Local][a] + DepositOf(Local, ds)
         /\ t.records = s.records
  <1> DEFINE N == Len(ds)
             x == DepositOf(Local, ds)
             Given(j) == IF ds[j].currency = Local THEN ds[j].amount ELSE 0
  <1>1. PICK C : IsDepositChain(C, s, a, 0, ds) /\ DepositsOnBehalf(s, a, 0, ds) = C[DOMAIN ds]
    BY DepositChain
  <1>2. N \in Nat /\ DOMAIN ds = 1 .. N /\ \A j \in 1 .. N : ds[j].currency \in Currencies /\ ds[j].amount \in Nat
    <2>1. N \in Nat /\ DOMAIN ds = 1 .. N /\ \A j \in 1 .. N : ds[j] \in Orders
      OBVIOUS
    <2> QED
      BY <2>1 DEF Orders
  <1>3. PICK i \in 1 .. N + 1 : /\ \A j \in 1 .. N : Given(j) = IF j = i THEN x ELSE 0
                                /\ i = N + 1 => x = 0
    BY DepositPlace
  <1>4. x \in Nat
    <2>1. << >> \in Seq(Records)
      OBVIOUS
    <2> QED
      BY <2>1, ResidualChain
  <1>5. PICK B : B = s.world.cash[Local][a] /\ B \in Int
    BY ReachedFacts, ConstantFacts
  <1> DEFINE Goes(n) == /\ C[1 .. n] \in Reached(u) /\ C[1 .. n].records = s.records
                        /\ C[1 .. n].world.cash[Local][a] = B + (IF i <= n THEN x ELSE 0)
             T == {n \in Nat : n <= N => Goes(n)}
  <1> HIDE DEF x
  <1>6. 0 \in T
    <2> DEFINE base == Received(s, a, Ether, 0)
    <2>1. C[1 .. 0] = base
      BY <1>1, ChainPrefix DEF IsDepositChain
    <2>2. base \in Reached(u)
      BY ConstantFacts, ReceivedStep
    <2>3. base.world.cash[Local][a] = B /\ base.records = s.records
      <3>1. /\ base.world.cash[Local][a] = s.world.cash[Local][a] + (IF Ether = Local THEN 0 ELSE 0)
            /\ base.records = s.records
        BY ConstantFacts, ReceivedCash
      <3> QED
        BY <1>5, <3>1
    <2> HIDE DEF base
    <2>4. ~(i <= 0)
      BY <1>2
    <2> QED
      BY <1>5, <2>1, <2>2, <2>3, <2>4
  <1>7. ASSUME NEW n \in Nat, n \in T
        PROVE  n + 1 \in T
    <2> SUFFICES ASSUME n + 1 <= N PROVE Goes(n + 1)
      OBVIOUS
    <2>1. Goes(n)
      BY <1>2, <1>7
    <2>2. PICK k \in 1 .. N : k = n + 1 /\ k - 1 = n
      BY <1>2
    <2>3. /\ 1 .. k \in SUBSET DOMAIN ds /\ 1 .. k # {} /\ Max(1 .. k) = k
          /\ (1 .. k) \ {k} = 1 .. (k - 1)
      BY <1>2, ChainPrefix
    <2>4. PICK v, d : v = C[1 .. n] /\ d = ds[k]
      OBVIOUS
    <2>5. C[1 .. k] = Received(v, a, d.currency, d.amount)
      BY <1>1, <2>2, <2>3, <2>4 DEF IsDepositChain, Deposited
    <2>6. v \in Reached(u) /\ d.currency \in Currencies /\ d.amount \in Int /\ d.amount >= 0
      BY <1>2, <2>1, <2>4
    <2>7. C[1 .. k] \in Reached(u)
      BY <2>5, <2>6, ReceivedStep
    <2>8. /\ C[1 .. k].world.cash[Local][a]
                = v.world.cash[Local][a] + (IF d.currency = Local THEN d.amount ELSE 0)
          /\ C[1 .. k].records = v.records
      BY <2>5, <2>6, ReceivedCash
    <2>9. (IF d.currency = Local THEN d.amount ELSE 0) = IF k = i THEN x ELSE 0
      BY <1>3, <2>4
    <2>10. v.world.cash[Local][a] = B + (IF i <= n THEN x ELSE 0) /\ v.records = s.records
      BY <2>1, <2>4
    <2>11. C[1 .. k].world.cash[Local][a] = B + (IF i <= k THEN x ELSE 0)
      BY <1>2, <1>4, <1>5, <2>2, <2>8, <2>9, <2>10
    <2> QED
      BY <2>2, <2>7, <2>8, <2>10, <2>11
  <1>8. Goes(N)
    <2>1. N \in T
      <3> HIDE DEF T
      <3>1. \A n \in Nat : n \in T
        BY <1>6, <1>7, NaturalInduction
      <3> QED
        BY <1>2, <3>1
    <2> QED
      BY <1>2, <2>1
  <1>9. (IF i <= N THEN x ELSE 0) = x
    BY <1>2, <1>3
  <1> QED
    BY <1>1, <1>2, <1>5, <1>8, <1>9 DEF x

\* Without records the residual is the deposit.
LEMMA ResidualBefore ==
  ASSUME NEW ds \in Seq(Orders)
  PROVE  WithdrawAmount(Local, << >>, ds) = DepositOf(Local, ds)
  <1> DEFINE xs == << >>
  <1>1. xs \in Seq(Records) /\ DOMAIN xs = {} /\ Counted(Local, xs) = xs
    BY DEF Counted
  <1> HIDE DEF xs
  <1>2. PICK C : IsResidualChain(C, DepositOf(Local, ds), xs) /\ WithdrawAmount(Local, xs, ds) = C[DOMAIN xs]
    BY <1>1, ResidualChain
  <1>3. C[{}] = DepositOf(Local, ds)
    BY <1>2 DEF IsResidualChain
  <1> QED
    BY <1>1, <1>2, <1>3 DEF xs

\* One record more.
LEMMA ResidualAfter ==
  ASSUME NEW rs \in Seq(Records), NEW r \in Records, NEW ds \in Seq(Orders)
  PROVE  WithdrawAmount(Local, Append(rs, r), ds) = Residual(WithdrawAmount(Local, rs, ds), r)
  <1> DEFINE xs == Append(rs, r)
             N == Len(rs)
             base == DepositOf(Local, ds)
  <1>1. /\ xs \in Seq(Records) /\ N \in Nat /\ DOMAIN rs = 1 .. N /\ DOMAIN xs = 1 .. (N + 1)
        /\ xs[N + 1] = r /\ \A n \in 1 .. N : xs[n] = rs[n]
    OBVIOUS
  <1>2. Counted(Local, rs) = rs /\ Counted(Local, xs) = xs
    BY DEF Counted
  <1> HIDE DEF xs, base
  <1>3. PICK C : IsResidualChain(C, base, rs) /\ WithdrawAmount(Local, rs, ds) = C[DOMAIN rs]
    BY <1>2, ResidualChain DEF base
  <1>4. PICK D : IsResidualChain(D, base, xs) /\ WithdrawAmount(Local, xs, ds) = D[DOMAIN xs]
    BY <1>1, <1>2, ResidualChain DEF base
  <1>5. ASSUME NEW n \in 1 .. N + 1
        PROVE  D[1 .. n] = Residual(D[1 .. (n - 1)], xs[n])
    <2>1. 1 .. n \in SUBSET DOMAIN xs
      <3>1. n \in Nat /\ n <= N + 1
        BY <1>1
      <3>2. DOMAIN xs = 1 .. (N + 1)
        BY <1>1
      <3> QED
        BY <1>1, <3>1, <3>2
    <2>2. 1 .. n # {} /\ Max(1 .. n) = n /\ (1 .. n) \ {n} = 1 .. (n - 1)
      <3>1. n \in Nat \ {0}
        BY <1>1
      <3> QED
        BY <3>1, ChainPrefix
    <2> QED
      BY <1>4, <2>1, <2>2 DEF IsResidualChain
  <1>6. ASSUME NEW n \in 1 .. N
        PROVE  C[1 .. n] = Residual(C[1 .. (n - 1)], rs[n])
    <2>1. 1 .. n \in SUBSET DOMAIN rs
      <3>1. n \in Nat /\ n <= N
        BY <1>1
      <3>2. DOMAIN rs = 1 .. (N)
        BY <1>1
      <3> QED
        BY <1>1, <3>1, <3>2
    <2>2. 1 .. n # {} /\ Max(1 .. n) = n /\ (1 .. n) \ {n} = 1 .. (n - 1)
      <3>1. n \in Nat \ {0}
        BY <1>1
      <3> QED
        BY <3>1, ChainPrefix
    <2> QED
      BY <1>3, <2>1, <2>2 DEF IsResidualChain
  <1> DEFINE T == {n \in Nat : n <= N => D[1 .. n] = C[1 .. n]}
  <1>7. 0 \in T
    <2>1. 1 .. 0 = {}
      OBVIOUS
    <2> QED
      BY <1>3, <1>4, <2>1 DEF IsResidualChain
  <1>8. ASSUME NEW n \in Nat, n \in T
        PROVE  n + 1 \in T
    <2> SUFFICES ASSUME n + 1 <= N PROVE D[1 .. (n + 1)] = C[1 .. (n + 1)]
      OBVIOUS
    <2>1. n + 1 \in 1 .. N /\ n + 1 \in 1 .. N + 1 /\ (n + 1) - 1 = n /\ D[1 .. n] = C[1 .. n]
      BY <1>1, <1>8
    <2>2. D[1 .. (n + 1)] = Residual(D[1 .. ((n + 1) - 1)], xs[n + 1])
      BY <1>5, <2>1
    <2>3. C[1 .. (n + 1)] = Residual(C[1 .. ((n + 1) - 1)], rs[n + 1])
      BY <1>6, <2>1
    <2> QED
      BY <1>1, <2>1, <2>2, <2>3
  <1>9. D[1 .. N] = C[1 .. N]
    <2> HIDE DEF T
    <2>1. \A n \in Nat : n \in T
      BY <1>7, <1>8, NaturalInduction
    <2> QED
      BY <1>1, <2>1 DEF T
  <1>10. D[1 .. (N + 1)] = Residual(D[1 .. N], r)
    <2>1. N + 1 \in 1 .. N + 1 /\ (N + 1) - 1 = N
      BY <1>1
    <2>2. D[1 .. (N + 1)] = Residual(D[1 .. ((N + 1) - 1)], xs[N + 1])
      BY <1>5, <2>1
    <2> QED
      BY <1>1, <2>1, <2>2
  <1> QED
    BY <1>1, <1>3, <1>4, <1>9, <1>10 DEF xs

\* What a trade moves is in its record, but for the fee, which is paid on top.
Proceeds(r) == IF r.tradeType \in TakesOut THEN r.cash ELSE -r.cash

\* The market's functions leave one of the books.
LEMMA TradedCash ==
  ASSUME NEW w \in Worlds, NEW a, NEW m \in Maturities, NEW mk, NEW books, NEW assets,
         NEW v \in Traded(w, a, m, mk, books, assets)
  PROVE  v.cash[Local] \in books
  <1>1. PICK book \in books :
          v \in Upserted([w EXCEPT !.markets[<<CashGroup, m>>] = mk, !.cash[Local] = book], a, assets)
    BY DEF Traded
  <1> DEFINE x == [w EXCEPT !.markets[<<CashGroup, m>>] = mk, !.cash[Local] = book]
  <1>2. DOMAIN x = {"assets", "markets", "cash"} /\ x.cash = [w.cash EXCEPT ![Local] = book]
    BY DEF Worlds
  <1>3. w.cash \in [Currencies -> Book] /\ Local \in Currencies
    BY ConstantFacts DEF Worlds
  <1>4. x.cash[Local] = book
    BY <1>2, <1>3
  <1>5. PICK portfolio : v = [x EXCEPT !.assets[a] = portfolio]
    BY <1>1 DEF Upserted
  <1> HIDE DEF x
  <1>6. v.cash = x.cash
    BY <1>2, <1>5
  <1> QED
    BY <1>4, <1>6

\* A trade moves no more into the balance than its record says.
LEMMA PlacedCash ==
  ASSUME IInv, NEW u \in Worlds, NEW s \in Reached(u), NEW a \in Accounts, NEW type \in TradeTypes,
         NEW m \in Maturities, NEW x \in Nat, NEW y \in Nat, NEW t \in PlaceTrade(s, a, type, m, x, y)
  PROVE  \E r \in Records : /\ t.records = Append(s.records, r)
                            /\ t.world.cash[Local][a] <= s.world.cash[Local][a] + Proceeds(r)
  <1> DEFINE w == s.world
             claim == CashClaim(PoolIn(w, m), x)
  <1>1. blockTime \in Nat /\ w \in Worlds /\ w.cash[Local][a] \in Int /\ s \in BatchStates
    BY NowFacts, ReachedFacts, ConstantFacts
  <1>2. ASSUME NEW worlds, NEW r \in Records, t \in Placed(s, worlds, r),
               \A v \in worlds : v.cash[Local][a] <= w.cash[Local][a] + Proceeds(r)
        PROVE  \E q \in Records : /\ t.records = Append(s.records, q)
                                  /\ t.world.cash[Local][a] <= s.world.cash[Local][a] + Proceeds(q)
    <2>1. PICK v \in worlds : t = [s EXCEPT !.world = v, !.records = Append(@, r)]
      BY <1>2 DEF Placed
    <2>2. t.world = v /\ t.records = Append(s.records, r)
      BY <1>1, <2>1 DEF BatchStates
    <2> QED
      BY <1>2, <2>2
  <1> HIDE DEF w
  <1>3. ASSUME NEW value \in Nat, NEW fee \in Nat, NEW book \in Paying(w, a, value, fee)
        PROVE  book[a] <= w.cash[Local][a] - value
    <2>1. PaysInto(w, a, -value, fee, book)
      BY <1>1, <1>3, PayingBooks
    <2>2. book[a] = w.cash[Local][a] + (-value) - fee
      BY <2>1 DEF PaysInto, Moves
    <2> QED
      BY <1>1, <2>2
  <1>4. ASSUME NEW value \in Nat, NEW fee \in Nat, fee <= value, NEW book \in Receiving(w, a, value, fee)
        PROVE  book[a] <= w.cash[Local][a] + value
    <2>1. PaysInto(w, a, value, fee, book)
      BY <1>1, <1>4, ReceivingBooks
    <2>2. book[a] = w.cash[Local][a] + value - fee
      BY <2>1 DEF PaysInto, Moves
    <2> QED
      BY <1>1, <2>2
  <1>5. CASE type = "TakeCurrentCash"
    <2> DEFINE r == Record(type, y)
    <2>1. r \in Records /\ Proceeds(r) = y
      BY <1>5 DEF Record, Records, Proceeds, TakesOut
    <2>2. ASSUME NEW v \in TakesCurrentCash(w, a, m, x, y)
          PROVE  v.cash[Local][a] <= w.cash[Local][a] + y
      <3>1. /\ Fee(y, m) < y /\ Tradeable(m)
            /\ v.cash[Local] \in Receiving(w, a, y, Fee(y, m))
        BY <1>1, <2>2, TradedCash DEF TakesCurrentCash
      <3>2. blockTime < m
        BY <3>1 DEF Tradeable, IsValidBlock
      <3>3. Fee(y, m) \in Nat
        BY <1>1, <3>2, FeeFacts
      <3>4. Fee(y, m) <= y
        BY <3>1, <3>3
      <3> QED
        BY <1>4, <3>1, <3>3, <3>4
    <2>3. t \in Placed(s, TakesCurrentCash(w, a, m, x, y), r)
      BY <1>5 DEF PlaceTrade, w
    <2> HIDE DEF r
    <2> QED
      BY <1>2, <2>1, <2>2, <2>3
  <1>6. CASE type = "TakefCash"
    <2> DEFINE r == Record(type, y)
    <2>1. r \in Records /\ Proceeds(r) = -y
      BY <1>6 DEF Record, Records, Proceeds, TakesOut
    <2>2. ASSUME NEW v \in TakesfCash(w, a, m, x, y)
          PROVE  v.cash[Local][a] <= w.cash[Local][a] + (-y)
      <3>1. Tradeable(m) /\ v.cash[Local] \in Paying(w, a, y, Fee(y, m))
        BY <1>1, <2>2, TradedCash DEF TakesfCash, CanTakefCash
      <3>2. Fee(y, m) \in Nat
        <4>1. blockTime < m
          BY <3>1 DEF Tradeable, IsValidBlock
        <4> QED
          BY <1>1, <4>1, FeeFacts
      <3>3. v.cash[Local][a] <= w.cash[Local][a] - y
        BY <1>3, <3>1, <3>2
      <3> QED
        BY <1>1, <3>3
    <2>3. t \in Placed(s, TakesfCash(w, a, m, x, y), r)
      BY <1>6 DEF PlaceTrade, w
    <2> HIDE DEF r
    <2> QED
      BY <1>2, <2>1, <2>2, <2>3
  <1>7. CASE type = "AddLiquidity"
    <2> DEFINE r == Record(type, x)
               worlds == AddsFirstLiquidity(w, a, m, x, y) \cup AddsLiquidity(w, a, m, x, y)
    <2>1. r \in Records /\ Proceeds(r) = -x
      BY <1>7 DEF Record, Records, Proceeds, TakesOut
    <2>2. ASSUME NEW v \in worlds
          PROVE  v.cash[Local][a] <= w.cash[Local][a] + (-x)
      <3>1. v.cash[Local] \in Paying(w, a, x, 0)
        <4>1. CASE v \in AddsFirstLiquidity(w, a, m, x, y)
          BY <1>1, <4>1, TradedCash DEF AddsFirstLiquidity
        <4>2. CASE v \in AddsLiquidity(w, a, m, x, y)
          BY <1>1, <4>2, TradedCash DEF AddsLiquidity
        <4> QED
          BY <2>2, <4>1, <4>2
      <3>2. v.cash[Local][a] <= w.cash[Local][a] - x
        BY <1>3, <3>1
      <3> QED
        BY <1>1, <3>2
    <2>3. t \in Placed(s, worlds, r)
      BY <1>7 DEF PlaceTrade, w
    <2> HIDE DEF r, worlds
    <2> QED
      BY <1>2, <2>1, <2>2, <2>3
  <1>8. CASE type = "RemoveLiquidity" /\ blockTime < m /\ CanRedeem(PoolIn(w, m), x)
    <2> DEFINE r == Record(type, claim)
    <2>1. claim \in Nat
      <3>1. PoolIn(w, m) \in Market
        <4>1. Accounted(w, blockTime, s.held, Zero, Zero)
          BY ReachedFacts DEF w
        <4> QED
          BY <4>1, PoolFacts
      <3> QED
        BY <1>8, <3>1, ProRata DEF CanRedeem, CashClaim, Market
    <2>2. r \in Records /\ Proceeds(r) = claim
      BY <1>8, <2>1 DEF Record, Records, Proceeds, TakesOut
    <2>3. ASSUME NEW v \in RemovesLiquidity(w, a, m, x)
          PROVE  v.cash[Local][a] <= w.cash[Local][a] + claim
      <3>1. v.cash[Local] \in Receiving(w, a, claim, 0)
        BY <1>1, <2>3, TradedCash DEF RemovesLiquidity
      <3> HIDE DEF claim
      <3> QED
        BY <1>4, <2>1, <3>1
    <2>4. t \in Placed(s, RemovesLiquidity(w, a, m, x), r)
      BY <1>8 DEF PlaceTrade, w
    <2> HIDE DEF r
    <2> QED
      BY <1>2, <2>2, <2>3, <2>4
  <1>9. CASE type = "RemoveLiquidity" /\ ~(blockTime < m /\ CanRedeem(PoolIn(w, m), x))
    BY <1>9 DEF PlaceTrade, w
  <1> QED
    BY <1>5, <1>6, <1>7, <1>8, <1>9 DEF TradeTypes

\* The states whose balance has grown, since B, by no more than the residual says.
WithinResidual(u, a, ds, B) ==
  {s \in Reached(u) : s.world.cash[Local][a] <= B + WithdrawAmount(Local, s.records, ds)}

\* The floor of the residual only adds to it, so a trade keeps the balance within it.
LEMMA PlacedWithin ==
  ASSUME IInv, NEW u \in Worlds, NEW a \in Accounts, NEW ds \in Seq(Orders), NEW B \in Int,
         NEW s \in WithinResidual(u, a, ds, B), NEW type \in TradeTypes,
         NEW m \in Maturities, NEW x \in Nat, NEW y \in Nat, NEW t \in PlaceTrade(s, a, type, m, x, y)
  PROVE  t \in WithinResidual(u, a, ds, B) /\ t.records # << >>
  <1>1. s \in Reached(u) /\ s.world.cash[Local][a] <= B + WithdrawAmount(Local, s.records, ds)
    BY DEF WithinResidual
  <1>2. t \in Reached(u)
    BY <1>1, PlaceTradeStep
  <1>3. PICK r \in Records : /\ t.records = Append(s.records, r)
                             /\ t.world.cash[Local][a] <= s.world.cash[Local][a] + Proceeds(r)
    BY <1>1, PlacedCash
  <1>4. s.records \in Seq(Records) /\ s.world.cash[Local][a] \in Int /\ t.world.cash[Local][a] \in Int
    BY <1>1, <1>2, ReachedFacts, ConstantFacts
  <1> DEFINE n == WithdrawAmount(Local, s.records, ds)
             k == WithdrawAmount(Local, t.records, ds)
  <1>5. n \in Nat
    BY <1>4, ResidualFacts
  <1>6. k = Residual(n, r)
    BY <1>3, <1>4, ResidualAfter
  <1>7. r.cash \in Nat
    BY DEF Records
  <1>8. t.world.cash[Local][a] <= B + n + Proceeds(r)
    <2> HIDE DEF n, k
    <2>1. Proceeds(r) \in Int
      BY <1>7 DEF Proceeds
    <2>2. s.world.cash[Local][a] <= B + n
      BY <1>1 DEF n
    <2> QED
      BY <1>3, <1>4, <1>5, <2>1, <2>2
  <1> HIDE DEF n, k
  <1>9. t.world.cash[Local][a] <= B + k
    <2>1. k \in Int /\ k >= n + Proceeds(r) /\ Proceeds(r) \in Int
      BY <1>5, <1>6, <1>7 DEF Residual, Proceeds
    <2> QED
      BY <1>4, <1>5, <1>8, <2>1
  <1>10. t.records # << >>
    BY <1>3, <1>4
  <1> QED
    BY <1>2, <1>9, <1>10 DEF WithinResidual, k

\* So do the trades of a list, and each leaves a record.
LEMMA TradesWithin ==
  ASSUME IInv, NEW u \in Worlds, NEW a \in Accounts, NEW ds \in Seq(Orders), NEW B \in Int,
         NEW s \in WithinResidual(u, a, ds, B), NEW types \in Seq(TradeTypes), types # << >>
  PROVE  BatchTrade(s, a, types) \subseteq {t \in WithinResidual(u, a, ds, B) : t.records # << >>}
  <1> DEFINE R == WithinResidual(u, a, ds, B)
             V == SUBSET R
             Q == {t \in R : t.records # << >>}
             N == Len(types)
  <1>1. PICK C : IsTradeChain(C, s, a, types) /\ BatchTrade(s, a, types) = C[DOMAIN types]
    <2>1. s \in Reached(u)
      BY DEF WithinResidual
    <2> QED
      BY <2>1, TradeChain
  <1>2. N \in Nat \ {0} /\ DOMAIN types = 1 .. N /\ \A n \in 1 .. N : types[n] \in TradeTypes
    OBVIOUS
  <1>3. C[{}] \in V
    <2>1. C[{}] = {s}
      BY <1>1 DEF IsTradeChain
    <2> QED
      BY <2>1
  <1>4. ASSUME NEW n \in 1 .. N, C[(1 .. n) \ {n}] \in V
        PROVE  C[1 .. n] \subseteq Q
    <2>1. 1 .. n \in SUBSET DOMAIN types /\ 1 .. n # {} /\ Max(1 .. n) = n
      BY <1>2, ChainPrefix
    <2>2. C[1 .. n] = PlacedAll(C[(1 .. n) \ {n}], a, types[n])
      BY <1>1, <2>1 DEF IsTradeChain
    <2>3. ASSUME NEW t \in C[(1 .. n) \ {n}], NEW m \in Maturities, NEW x \in Amounts, NEW y \in Amounts
          PROVE  PlaceTrade(t, a, types[n], m, x, y) \subseteq Q
      <3>1. t \in R /\ x \in Nat /\ y \in Nat /\ types[n] \in TradeTypes
        BY <1>2, <1>4, <2>3, AmountsAssumption
      <3> QED
        BY <3>1, PlacedWithin
    <2> HIDE DEF Q
    <2>4. \A t \in C[(1 .. n) \ {n}], m \in Maturities, x \in Amounts, y \in Amounts :
            PlaceTrade(t, a, types[n], m, x, y) \subseteq Q
      BY <2>3
    <2>5. PlacedAll(C[(1 .. n) \ {n}], a, types[n]) \subseteq Q
      BY <2>4, PlacedAllIn
    <2> QED
      BY <2>2, <2>5
  <1>5. \A n \in 1 .. N : C[(1 .. n) \ {n}] \in V => C[1 .. n] \in V
    BY <1>4
  <1>6. C[(1 .. N) \ {N}] \in V
    <2> HIDE DEF V, N
    <2>1. PICK k : k = N - 1
      OBVIOUS
    <2>2. k \in Nat /\ \A n \in 1 .. k : n \in 1 .. N
      BY <1>2, <2>1
    <2>3. \A n \in 1 .. k : C[(1 .. n) \ {n}] \in V => C[1 .. n] \in V
      BY <1>5, <2>2
    <2>4. C[1 .. k] \in V
      BY <1>3, <2>3, <2>2, ChainStays
    <2>5. (1 .. N) \ {N} = 1 .. k
      BY <1>2, <2>1
    <2> QED
      BY <2>4, <2>5
  <1>7. C[1 .. N] \subseteq Q
    <2> HIDE DEF Q, V
    <2>1. N \in 1 .. N
      BY <1>2
    <2> QED
      BY <1>4, <1>6, <2>1
  <1> QED
    BY <1>1, <1>2, <1>7

\* The withdrawal of a residual leaves no more than there was when the batch began.
LEMMA ResidualWithdrawn ==
  ASSUME IInv, NEW u \in Worlds, NEW a \in Accounts, NEW ds \in Seq(Orders), NEW B \in Int,
         NEW s \in WithinResidual(u, a, ds, B), s.records # << >>,
         NEW w, w = [currency |-> Local, amount |-> 0],
         NEW t, t = WithdrawsOnBehalf(s, a, ds, <<w>>)
  PROVE  t.world.cash[Local][a] <= HigherOf(B, 0)
  <1>1. s \in Reached(u) /\ s.world.cash[Local][a] <= B + WithdrawAmount(Local, s.records, ds)
    BY DEF WithinResidual
  <1>2. w \in Orders /\ <<w>> \in Seq(Orders) /\ DOMAIN <<w>> = {1} /\ <<w>>[1] = w
    BY ConstantFacts DEF Orders
  <1>3. t = PaidOut(s, a, w, s.records, ds)
    <2> DEFINE ws == <<w>>
    <2> HIDE DEF ws
    <2>1. ws \in Seq(Orders)
      BY <1>2 DEF ws
    <2>2. PICK C : IsWithdrawChain(C, s, a, ds, ws) /\ WithdrawsOnBehalf(s, a, ds, ws) = C[DOMAIN ws]
      BY <1>1, <2>1, WithdrawChain
    <2>3. {1} \in SUBSET DOMAIN ws /\ {} \in SUBSET DOMAIN ws /\ {1} # {} /\ {1} \ {1} = {} /\ DOMAIN ws = {1}
      BY <1>2 DEF ws
    <2>4. Max({1}) = 1
      <3>1. 1 .. 1 = {1} /\ 1 \in Nat /\ 1 \in 1 .. 1
        OBVIOUS
      <3> QED
        BY <3>1, ChainPrefix
    <2>5. C[{}] = s
      BY <2>2, <2>3 DEF IsWithdrawChain
    <2>6. C[{1}] = PaidOut(C[{1} \ {1}], a, ws[1], s.records, ds)
      BY <2>2, <2>3, <2>4 DEF IsWithdrawChain
    <2> QED
      BY <1>2, <2>2, <2>3, <2>5, <2>6 DEF ws
  <1> DEFINE n == WithdrawAmount(Local, s.records, ds)
             b == s.world.cash[Local][a]
             paid == IF b <= 0 THEN 0 ELSE IF b < n THEN b ELSE n
  <1>4. n \in Nat /\ b \in Int
    BY <1>1, ReachedFacts, ResidualFacts, ConstantFacts
  <1>5. AmountOf(w, s.records, ds) = n
    BY DEF AmountOf
  <1>6. Withdrawn(s.world.cash[Local], a, n) = paid
    BY DEF Withdrawn
  <1>7. t = Received(s, a, Local, -paid)
    <2> HIDE DEF n, paid
    <2>1. w.currency = Local
      OBVIOUS
    <2> QED
      BY <1>3, <1>5, <1>6, <2>1 DEF PaidOut
  <1>8. b <= B + n
    BY <1>1
  <1>9. t.world.cash[Local][a] = b + (-paid)
    <2>1. -paid \in Int
      <3> HIDE DEF n, b
      <3> QED
        BY <1>4
    <2> HIDE DEF paid
    <2>2. t.world.cash[Local][a] = s.world.cash[Local][a] + (IF Local = Local THEN -paid ELSE 0)
      BY <1>1, <1>7, <2>1, ReceivedCash, ConstantFacts
    <2> QED
      BY <2>2
  <1> HIDE DEF n, b
  <1> QED
    BY <1>4, <1>8, <1>9 DEF HigherOf

\* A state that is sound lets no batch leave a residual.
LEMMA ResidualsFacts ==
  ASSUME IInv
  PROVE  ResidualsLeaveNothing
  <1> DEFINE w == [currency |-> Local, amount |-> 0]
  <1> SUFFICES ASSUME NEW a \in Accounts, NEW types \in TradeLists \ {<< >>}, NEW ds \in DepositLists,
                      OneDepositEach(ds), NEW begun \in Begin(a),
                      NEW s \in BatchTrade(DepositsOnBehalf(begun, a, 0, ds), a, types)
               PROVE  WithdrawsOnBehalf(s, a, ds, <<w>>).world.cash[Local][a]
                        <= HigherOf(begun.world.cash[Local][a], 0)
    BY DEF ResidualsLeaveNothing
  <1> HIDE DEF w
  <1>1. ds \in Seq(Orders) /\ types \in Seq(TradeTypes) /\ types # << >>
    BY ListsAssumption
  <1>2. PICK u \in Settled(World, a) : begun = [world |-> u, held |-> custody, records |-> << >>]
    BY DEF Begin
  <1>3. u \in Worlds /\ Accounted(u, blockTime, custody, Zero, Zero)
    <2>1. Sound(u, custody)
      BY NowFacts, SettledSound
    <2> QED
      BY <2>1 DEF Sound, Accounted
  <1>4. begun \in Reached(u) /\ begun.records = << >> /\ begun.world = u
    BY <1>2, <1>3, BeginStep
  <1>5. PICK B : B = begun.world.cash[Local][a] /\ B \in Int
    BY <1>3, <1>4, ReachedFacts, ConstantFacts
  <1>6. PICK d : d = DepositsOnBehalf(begun, a, 0, ds)
    OBVIOUS
  <1>7. d \in Reached(u) /\ d.world.cash[Local][a] = B + DepositOf(Local, ds) /\ d.records = << >>
    BY <1>1, <1>3, <1>4, <1>5, <1>6, DepositsStep, DepositsCash
  <1>8. d \in WithinResidual(u, a, ds, B)
    <2>1. WithdrawAmount(Local, << >>, ds) = DepositOf(Local, ds)
      BY <1>1, ResidualBefore
    <2>2. d.world.cash[Local][a] \in Int
      BY <1>3, <1>7, ReachedFacts, ConstantFacts
    <2> QED
      BY <1>7, <2>1, <2>2 DEF WithinResidual
  <1>9. s \in WithinResidual(u, a, ds, B) /\ s.records # << >>
    BY <1>1, <1>3, <1>5, <1>6, <1>8, TradesWithin
  <1> QED
    BY <1>1, <1>3, <1>5, <1>9, ResidualWithdrawn DEF w

\* A withdrawal of zero takes out all that the batch brought in, whatever its deposits and trades
\* and for every fee: the balance is no higher afterwards than when the batch began.
THEOREM ResidualsAlwaysLeaveNothing == BatchSpec => []ResidualsLeaveNothing
  BY BatchInvariance, ResidualsFacts, PTL

(****************************************************************************)
(* What the free collateral check values.  GroupValue adds up an array      *)
(* position by position; here it is a sum over the array of what each entry *)
(* is worth, so that the lemmas about the entries that an upsert or a       *)
(* settlement leaves say what it does to the value.                         *)
(****************************************************************************)

(****************************************************************************)
(* Entries.                                                                 *)
(****************************************************************************)
Pools == [Instruments -> Market]

\* An entry that can be valued: the pool of a token has a supply.
Priced(K, x) == IsLiquidityToken(x.assetType) => PoolOf(K, x).totalLiquidity > 0

\* What an entry is worth in cash and in fCash; what of that is due, and what counts in slot j.
Claims(K) == [x \in Stored |-> IF Priced(K, x) THEN CashClaimOf(x, K, blockTime) ELSE 0]
Worth(K)  == [x \in Stored |-> IF Priced(K, x) THEN fCashOf(x, K, blockTime) ELSE 0]
Dues(K)   == [x \in Stored |-> IF x.maturity <= blockTime THEN Worth(K)[x] ELSE 0]
InSlot(x, j) == ~(x.maturity <= blockTime) /\ Offset(x, blockTime) = j
Nets(K, j) == [x \in Stored |-> IF InSlot(x, j) THEN Worth(K)[x] ELSE 0]

\* Quotients by one divisor keep the order.
LEMMA QuotientOrder ==
  ASSUME NEW a \in Nat, NEW b \in Nat, a <= b, NEW d \in Nat, d > 0
  PROVE  a \div d \in Nat /\ b \div d \in Nat /\ a \div d <= b \div d
  <1>1. a \div d \in Nat /\ d * (a \div d) <= a
    BY QuotientBounds
  <1>2. b \div d \in Nat /\ b < d * (b \div d) + d
    BY QuotientBounds
  <1>3. \A x, y \in Nat : d * x < d * y + d => x <= y
    <2> SUFFICES ASSUME NEW x \in Nat, NEW y \in Nat, x >= y + 1
                 PROVE  ~(d * x < d * y + d)
      OBVIOUS
    <2>1. PICK k \in Nat : x = (y + 1) + k
      <3>1. x - (y + 1) \in Nat /\ x = (y + 1) + (x - (y + 1))
        OBVIOUS
      <3> QED
        BY <3>1
    <2>2. d * x = d * y + d + d * k
      BY <2>1
    <2>3. d * k \in Nat /\ d * y \in Nat
      BY ProductNat
    <2> QED
      BY <2>2, <2>3
  <1> DEFINE x == a \div d
             y == b \div d
  <1>4. d * x < d * y + d /\ x \in Nat /\ y \in Nat
    <2>1. d * x \in Nat /\ d * y \in Nat
      BY <1>1, <1>2, ProductNat
    <2> QED
      BY <1>1, <1>2, <2>1
  <1> HIDE DEF x, y
  <1>5. x <= y
    BY <1>3, <1>4
  <1> QED
    BY <1>1, <1>2, <1>5 DEF x, y

\* So do products by one factor.
LEMMA ProductOrder ==
  ASSUME NEW a \in Nat, NEW b \in Nat, a <= b, NEW c \in Nat
  PROVE  a * c \in Nat /\ b * c \in Nat /\ a * c <= b * c
  <1>1. PICK k \in Nat : b = a + k
    <2>1. b - a \in Nat /\ b = a + (b - a)
      OBVIOUS
    <2> QED
      BY <2>1
  <1>2. a * c \in Nat /\ k * c \in Nat /\ b * c = a * c + k * c
    BY <1>1, ProductNat
  <1> QED
    BY <1>2

\* A claim is a natural number, and more tokens claim no less.
LEMMA ClaimOrder ==
  ASSUME NEW total \in Nat, NEW mk \in Market, mk.totalLiquidity > 0,
         NEW x \in Stored, NEW y \in Stored, x.maturity = y.maturity, x.notional <= y.notional
  PROVE  /\ TokenClaim(total, mk, x, blockTime) \in Nat /\ TokenClaim(total, mk, y, blockTime) \in Nat
         /\ TokenClaim(total, mk, x, blockTime) <= TokenClaim(total, mk, y, blockTime)
  <1> DEFINE L == mk.totalLiquidity
             m == x.notional
             n == y.notional
             H == LiquidityHaircut
  <1>1. L \in Nat /\ L > 0
    BY DEF Market
  <1>2. m \in Nat /\ n \in Nat /\ m <= n
    BY StoredFacts
  <1>3. H \in Nat /\ Decimals \in Nat /\ Decimals > 0
    BY RatesAssumption, DecimalsAssumption
  <1> HIDE DEF L, m, n, H
  <1>4. /\ total * m \in Nat /\ total * n \in Nat /\ total * m <= total * n
        /\ Decimals * L \in Nat /\ Decimals * L > 0
    <2>1. m * total \in Nat /\ n * total \in Nat /\ m * total <= n * total
      BY <1>2, ProductOrder
    <2>2. m * total = total * m /\ n * total = total * n
      BY <1>2
    <2>3. Decimals * L \in Nat
      BY <1>1, <1>3, ProductNat
    <2>4. Decimals * L > 0
      <3>1. 1 * L <= Decimals * L
        BY <1>1, <1>3, ProductOrder
      <3> QED
        BY <1>1, <2>3, <3>1
    <2> QED
      BY <2>1, <2>2, <2>3, <2>4
  <1>5. /\ (total * m) * H \in Nat /\ (total * n) * H \in Nat /\ (total * m) * H <= (total * n) * H
    BY <1>3, <1>4, ProductOrder
  <1> DEFINE a == total * m
             b == total * n
             c == Decimals * L
             d == a * H
             e == b * H
  <1>6. /\ a \in Nat /\ b \in Nat /\ a <= b /\ c \in Nat /\ c > 0 /\ d \in Nat /\ e \in Nat /\ d <= e
    BY <1>4, <1>5
  <1>7. /\ TokenClaim(total, mk, x, blockTime) = IF blockTime < x.maturity THEN d \div c ELSE a \div L
        /\ TokenClaim(total, mk, y, blockTime) = IF blockTime < x.maturity THEN e \div c ELSE b \div L
    BY DEF TokenClaim, L, m, n, H
  <1> HIDE DEF a, b, c, d, e
  <1>8. d \div c \in Nat /\ e \div c \in Nat /\ d \div c <= e \div c
    BY <1>6, QuotientOrder
  <1>9. a \div L \in Nat /\ b \div L \in Nat /\ a \div L <= b \div L
    BY <1>1, <1>6, QuotientOrder
  <1> QED
    BY <1>7, <1>8, <1>9

\* No tokens claim nothing.
LEMMA NoClaim ==
  ASSUME NEW total \in Nat, NEW mk \in Market, mk.totalLiquidity > 0, NEW x \in Stored, x.notional = 0
  PROVE  TokenClaim(total, mk, x, blockTime) = 0
  <1>1. mk.totalLiquidity \in Nat /\ LiquidityHaircut \in Nat /\ Decimals \in Nat /\ Decimals > 0
    BY RatesAssumption, DecimalsAssumption DEF Market
  <1> DEFINE L == mk.totalLiquidity
             H == LiquidityHaircut
             n == x.notional
             c == Decimals * L
  <1>2. total * n = 0 /\ (total * n) * H = 0
    BY <1>1
  <1>3. c \in Nat /\ c > 0
    <2>1. 1 * L <= Decimals * L /\ Decimals * L \in Nat
      BY <1>1, ProductOrder
    <2> QED
      BY <1>1, <2>1
  <1>4. TokenClaim(total, mk, x, blockTime)
          = IF blockTime < x.maturity THEN ((total * n) * H) \div c ELSE (total * n) \div L
    BY DEF TokenClaim
  <1> HIDE DEF c, n, H
  <1>5. \A d \in Nat : d > 0 => 0 \div d = 0
    OBVIOUS
  <1> QED
    BY <1>1, <1>2, <1>3, <1>4, <1>5

\* The pool of an entry.
LEMMA EntryPool ==
  ASSUME NEW K \in Pools, NEW x \in Stored
  PROVE  /\ PoolOf(K, x) = K[Key(x.maturity)] /\ PoolOf(K, x) \in Market
         /\ PoolOf(K, x).totalfCash \in Nat /\ PoolOf(K, x).totalCurrentCash \in Nat
         /\ PoolOf(K, x).totalLiquidity \in Nat
  <1>1. <<x.cashGroupId, x.maturity>> = Key(x.maturity) /\ x.maturity \in Maturities
    BY StoredFacts
  <1>2. Key(x.maturity) \in Instruments
    BY <1>1 DEF Key, Instruments
  <1>3. PoolOf(K, x) = K[Key(x.maturity)]
    BY <1>1 DEF PoolOf
  <1>4. PoolOf(K, x) \in Market
    BY <1>2, <1>3 DEF Pools
  <1> QED
    BY <1>3, <1>4 DEF Market

\* The value of an entry: for a token what it claims, for fCash what it is for.
LEMMA EntryValue ==
  ASSUME NEW K \in Pools, NEW x \in Stored
  PROVE  /\ x.assetType = LiquidityToken =>
              /\ Claims(K)[x] = IF PoolOf(K, x).totalLiquidity > 0
                                THEN TokenClaim(PoolOf(K, x).totalCurrentCash, PoolOf(K, x), x, blockTime) ELSE 0
              /\ Worth(K)[x] = IF PoolOf(K, x).totalLiquidity > 0
                               THEN TokenClaim(PoolOf(K, x).totalfCash, PoolOf(K, x), x, blockTime) ELSE 0
         /\ x.assetType # LiquidityToken => Claims(K)[x] = 0 /\ Worth(K)[x] = Signed(x)
  <1>1. IsLiquidityToken(x.assetType) <=> x.assetType = LiquidityToken
    BY StoredFacts
  <1> QED
    BY <1>1 DEF Claims, Worth, Priced, CashClaimOf, fCashOf

\* The values are integers, and rise with what an entry is for.
LEMMA ValueRises ==
  ASSUME NEW K \in Pools
  PROVE  Claims(K) \in Rising(Stored) /\ Worth(K) \in Rising(Stored)
  <1>1. \A x \in Stored : Claims(K)[x] \in Int /\ Worth(K)[x] \in Int
    <2> TAKE x \in Stored
    <2>1. CASE x.assetType = LiquidityToken
      <3> DEFINE mk == PoolOf(K, x)
      <3>1. mk \in Market /\ mk.totalfCash \in Nat /\ mk.totalCurrentCash \in Nat
        BY EntryPool
      <3>2. x.notional <= x.notional
        BY StoredFacts
      <3> HIDE DEF mk
      <3>3. mk.totalLiquidity > 0 => /\ TokenClaim(mk.totalCurrentCash, mk, x, blockTime) \in Nat
                                     /\ TokenClaim(mk.totalfCash, mk, x, blockTime) \in Nat
        BY <3>1, <3>2, ClaimOrder
      <3> QED
        BY <2>1, <3>3, EntryValue DEF mk
    <2>2. CASE x.assetType # LiquidityToken
      BY <2>2, EntryValue, StoredFacts
    <2> QED
      BY <2>1, <2>2
  <1>2. Claims(K) \in [Stored -> Int] /\ Worth(K) \in [Stored -> Int]
    BY <1>1 DEF Claims, Worth
  <1>3. ASSUME NEW x \in Stored, NEW y \in Stored, SameSide(x, y), Signed(x) <= Signed(y)
        PROVE  Claims(K)[x] <= Claims(K)[y] /\ Worth(K)[x] <= Worth(K)[y]
    <2>1. x.maturity = y.maturity /\ (x.assetType = LiquidityToken <=> y.assetType = LiquidityToken)
      BY <1>3, StoredFacts DEF SameSide, SameInstrument
    <2>2. CASE x.assetType = LiquidityToken
      <3> DEFINE mk == PoolOf(K, x)
      <3>1. mk \in Market /\ mk.totalfCash \in Nat /\ mk.totalCurrentCash \in Nat
        BY EntryPool
      <3>2. PoolOf(K, y) = mk
        BY <2>1, EntryPool
      <3>3. x.notional <= y.notional
        BY <1>3, <2>1, <2>2 DEF Signed, CashPayer, LiquidityPayer, LiquidityToken
      <3> HIDE DEF mk
      <3>4. mk.totalLiquidity > 0 =>
              /\ TokenClaim(mk.totalCurrentCash, mk, x, blockTime) <= TokenClaim(mk.totalCurrentCash, mk, y, blockTime)
              /\ TokenClaim(mk.totalfCash, mk, x, blockTime) <= TokenClaim(mk.totalfCash, mk, y, blockTime)
        BY <2>1, <3>1, <3>3, ClaimOrder
      <3>5. /\ Claims(K)[x] = IF mk.totalLiquidity > 0 THEN TokenClaim(mk.totalCurrentCash, mk, x, blockTime) ELSE 0
            /\ Claims(K)[y] = IF mk.totalLiquidity > 0 THEN TokenClaim(mk.totalCurrentCash, mk, y, blockTime) ELSE 0
            /\ Worth(K)[x] = IF mk.totalLiquidity > 0 THEN TokenClaim(mk.totalfCash, mk, x, blockTime) ELSE 0
            /\ Worth(K)[y] = IF mk.totalLiquidity > 0 THEN TokenClaim(mk.totalfCash, mk, y, blockTime) ELSE 0
        BY <2>1, <2>2, <3>2, EntryValue DEF mk
      <3> QED
        BY <3>4, <3>5
    <2>3. CASE x.assetType # LiquidityToken
      BY <1>3, <2>1, <2>3, EntryValue
    <2> QED
      BY <2>2, <2>3
  <1>4. ASSUME NEW x \in Stored
        PROVE  /\ Signed(x) <= 0 => Claims(K)[x] <= 0 /\ Worth(K)[x] <= 0
               /\ Signed(x) >= 0 => Claims(K)[x] >= 0 /\ Worth(K)[x] >= 0
    <2>1. CASE x.assetType = LiquidityToken
      <3> DEFINE mk == PoolOf(K, x)
      <3>1. mk \in Market /\ mk.totalfCash \in Nat /\ mk.totalCurrentCash \in Nat
        BY EntryPool
      <3>2. x.notional <= x.notional /\ Signed(x) = x.notional /\ x.notional \in Nat
        BY <2>1, StoredFacts DEF Signed, CashPayer, LiquidityPayer, LiquidityToken
      <3> HIDE DEF mk
      <3>3. mk.totalLiquidity > 0 => /\ TokenClaim(mk.totalCurrentCash, mk, x, blockTime) \in Nat
                                     /\ TokenClaim(mk.totalfCash, mk, x, blockTime) \in Nat
        BY <3>1, <3>2, ClaimOrder
      <3>4. /\ Claims(K)[x] = IF mk.totalLiquidity > 0 THEN TokenClaim(mk.totalCurrentCash, mk, x, blockTime) ELSE 0
            /\ Worth(K)[x] = IF mk.totalLiquidity > 0 THEN TokenClaim(mk.totalfCash, mk, x, blockTime) ELSE 0
        BY <2>1, EntryValue DEF mk
      <3>5. Claims(K)[x] \in Nat /\ Worth(K)[x] \in Nat
        BY <3>3, <3>4
      <3>6. x.notional = 0 => Claims(K)[x] = 0 /\ Worth(K)[x] = 0
        BY <3>1, <3>4, NoClaim
      <3> QED
        BY <3>2, <3>5, <3>6
    <2>2. CASE x.assetType # LiquidityToken
      BY <2>2, EntryValue, StoredFacts
    <2> QED
      BY <2>1, <2>2
  <1> QED
    BY <1>2, <1>3, <1>4 DEF Rising

\* So are what is due, and what counts in one slot of the ladder.
LEMMA PartsRise ==
  ASSUME NEW K \in Pools
  PROVE  Dues(K) \in Rising(Stored) /\ \A j : Nets(K, j) \in Rising(Stored)
  <1>1. /\ Worth(K) \in [Stored -> Int]
        /\ \A x, y \in Stored : SameSide(x, y) /\ Signed(x) <= Signed(y) => Worth(K)[x] <= Worth(K)[y]
        /\ \A x \in Stored : /\ Signed(x) <= 0 => Worth(K)[x] <= 0
                             /\ Signed(x) >= 0 => Worth(K)[x] >= 0
    BY ValueRises DEF Rising
  <1>2. \A x \in Stored : Worth(K)[x] \in Int
    BY <1>1
  <1>3. \A x, y \in Stored : SameSide(x, y) => x.maturity = y.maturity
    BY DEF SameSide, SameInstrument
  <1>4. \A x, y \in Stored : \A j : SameSide(x, y) => (InSlot(x, j) <=> InSlot(y, j))
    BY <1>3 DEF InSlot, Offset
  <1> HIDE DEF Worth
  <1>5. Dues(K) \in Rising(Stored)
    <2>1. \A x \in Stored : Dues(K)[x] = IF x.maturity <= blockTime THEN Worth(K)[x] ELSE 0
      BY DEF Dues
    <2>2. Dues(K) \in [Stored -> Int]
      BY <1>2 DEF Dues
    <2> HIDE DEF Dues
    <2>3. \A x, y \in Stored : SameSide(x, y) /\ Signed(x) <= Signed(y) => Dues(K)[x] <= Dues(K)[y]
      BY <1>1, <1>3, <2>1
    <2>4. \A x \in Stored : /\ Signed(x) <= 0 => Dues(K)[x] <= 0
                            /\ Signed(x) >= 0 => Dues(K)[x] >= 0
      BY <1>1, <2>1
    <2> QED
      BY <2>2, <2>3, <2>4 DEF Rising
  <1>6. ASSUME NEW j
        PROVE  Nets(K, j) \in Rising(Stored)
    <2>1. \A x \in Stored : Nets(K, j)[x] = IF InSlot(x, j) THEN Worth(K)[x] ELSE 0
      BY DEF Nets
    <2>2. Nets(K, j) \in [Stored -> Int]
      BY <1>2 DEF Nets
    <2> HIDE DEF Nets, InSlot
    <2>3. \A x, y \in Stored : SameSide(x, y) /\ Signed(x) <= Signed(y) => Nets(K, j)[x] <= Nets(K, j)[y]
      BY <1>1, <1>4, <2>1
    <2>4. \A x \in Stored : /\ Signed(x) <= 0 => Nets(K, j)[x] <= 0
                            /\ Signed(x) >= 0 => Nets(K, j)[x] >= 0
      BY <1>1, <2>1
    <2> QED
      BY <2>2, <2>3, <2>4 DEF Rising
  <1> QED
    BY <1>5, <1>6

(****************************************************************************)
(* The value of a portfolio, as sums over its list.                         *)
(****************************************************************************)
Slots == 0 .. NumMaturities - 1

Ladder(K, p) == [j \in Slots |-> SlotValue(ListSum(p, Nets(K, j)), j, blockTime)]

Valued(K, p) == ListSum(p, Claims(K)) + ListSum(p, Dues(K)) + SumOf(Ladder(K, p), Slots)

AllPriced(K, p) == \A i \in DOMAIN p : Priced(K, p[i])

\* What GroupValue adds up, position by position.
ClaimAt(K, p)    == [i \in DOMAIN p |-> CashClaimOf(p[i], K, blockTime)]
WorthAt(K, p)    == [i \in DOMAIN p |-> fCashOf(p[i], K, blockTime)]
CountedAt(K, p)  == [i \in DOMAIN p |-> WorthAt(K, p)[i]]
MaturedIn(p)     == {i \in DOMAIN p : p[i].maturity <= blockTime}
SlotIn(p, j)     == {i \in DOMAIN p \ MaturedIn(p) : Offset(p[i], blockTime) = j}
LadderAt(K, p)   == [j \in Slots |-> SlotValue(SumOf(CountedAt(K, p), SlotIn(p, j)), j, blockTime)]

\* That is the definition, expanded for a group with a market.
LEMMA Unfold ==
  ASSUME NEW K, NEW p
  PROVE  GroupValue(p, TRUE, K, blockTime)
           = SumOf(ClaimAt(K, p), DOMAIN p) + SumOf(WorthAt(K, p), MaturedIn(p)) + SumOf(LadderAt(K, p), Slots)
  BY DEF GroupValue, GroupValueAt, SumOf, ClaimAt, WorthAt, CountedAt, MaturedIn, SlotIn, LadderAt, Slots

\* Where every token can be redeemed, the sums over positions are those over the list.
LEMMA GroupFacts ==
  ASSUME NEW K \in Pools, NEW p \in Seq(Stored), AllPriced(K, p)
  PROVE  GroupValue(p, TRUE, K, blockTime) = Valued(K, p)
  <1>1. /\ Claims(K) \in [Stored -> Int] /\ Dues(K) \in [Stored -> Int] /\ Worth(K) \in [Stored -> Int]
        /\ \A j : Nets(K, j) \in [Stored -> Int]
    BY ValueRises, PartsRise DEF Rising
  <1>2. IsFiniteSet(DOMAIN p) /\ \A i \in DOMAIN p : p[i] \in Stored /\ Priced(K, p[i])
    BY <1>1, ListFacts DEF AllPriced
  <1>3. \A i \in DOMAIN p : /\ Claims(K)[p[i]] = CashClaimOf(p[i], K, blockTime)
                            /\ Worth(K)[p[i]] = fCashOf(p[i], K, blockTime)
    BY <1>2 DEF Claims, Worth
  <1>4. \A i \in DOMAIN p : Claims(K)[p[i]] \in Int /\ Worth(K)[p[i]] \in Int
    BY <1>1, <1>2
  <1>5. \A i \in DOMAIN p : /\ Dues(K)[p[i]] = IF i \in MaturedIn(p) THEN Worth(K)[p[i]] ELSE 0
                            /\ \A j : Nets(K, j)[p[i]] = IF i \in SlotIn(p, j) THEN Worth(K)[p[i]] ELSE 0
    BY <1>2 DEF Dues, Nets, InSlot, MaturedIn, SlotIn
  <1> HIDE DEF Claims, Worth, Dues, Nets
  <1>6. SumOf(ClaimAt(K, p), DOMAIN p) = ListSum(p, Claims(K))
    <2>1. [i \in DOMAIN p |-> Claims(K)[p[i]]] = ClaimAt(K, p)
      BY <1>3 DEF ClaimAt
    <2> QED
      BY <2>1 DEF ListSum
  <1>7. WorthAt(K, p) \in [DOMAIN p -> Int] /\ \A i \in DOMAIN p : WorthAt(K, p)[i] = Worth(K)[p[i]]
    <2>1. \A i \in DOMAIN p : WorthAt(K, p)[i] = Worth(K)[p[i]]
      BY <1>3 DEF WorthAt
    <2> QED
      BY <1>4, <2>1 DEF WorthAt
  <1>8. SumOf(WorthAt(K, p), MaturedIn(p)) = ListSum(p, Dues(K))
    <2> DEFINE g == [i \in DOMAIN p |-> Dues(K)[p[i]]]
    <2>1. g \in [DOMAIN p -> Int]
      BY <1>1, <1>2
    <2>2. \A i \in DOMAIN p : g[i] = IF i \in MaturedIn(p) THEN WorthAt(K, p)[i] ELSE 0
      BY <1>5, <1>7
    <2>3. MaturedIn(p) \in SUBSET DOMAIN p
      BY DEF MaturedIn
    <2> HIDE DEF g
    <2>4. SumOf(WorthAt(K, p), MaturedIn(p)) = SumOf(g, DOMAIN p)
      BY <1>2, <1>7, <2>1, <2>2, <2>3, SumPart
    <2> QED
      BY <2>4 DEF g, ListSum
  <1>9. ASSUME NEW j
        PROVE  SumOf(CountedAt(K, p), SlotIn(p, j)) = ListSum(p, Nets(K, j))
    <2> DEFINE g == [i \in DOMAIN p |-> Nets(K, j)[p[i]]]
    <2>0. CountedAt(K, p) = WorthAt(K, p)
      BY DEF CountedAt, WorthAt
    <2>1. g \in [DOMAIN p -> Int]
      BY <1>1, <1>2
    <2>2. \A i \in DOMAIN p : g[i] = IF i \in SlotIn(p, j) THEN WorthAt(K, p)[i] ELSE 0
      BY <1>5, <1>7
    <2>3. SlotIn(p, j) \in SUBSET DOMAIN p
      BY DEF SlotIn
    <2> HIDE DEF g
    <2>4. SumOf(WorthAt(K, p), SlotIn(p, j)) = SumOf(g, DOMAIN p)
      BY <1>2, <1>7, <2>1, <2>2, <2>3, SumPart
    <2> QED
      BY <2>0, <2>4 DEF g, ListSum
  <1>10. LadderAt(K, p) = Ladder(K, p)
    BY <1>9 DEF LadderAt, Ladder
  <1> QED
    BY <1>6, <1>8, <1>10, Unfold DEF Valued

(****************************************************************************)
(* The worth of a slot.                                                     *)
(****************************************************************************)

\* The furthest slot's fCash is not cut below nothing. setHaircuts does not see to it.
HaircutWithinFace == FCashHaircut * (MaturityLength * NumMaturities) <= SecondsInYear * Decimals

\* A slot's maturity is no further away than the ladder is long.
LEMMA SlotDistance ==
  ASSUME blockTime \in Nat, NEW j \in Slots
  PROVE  /\ SlotMaturity(j, blockTime) - blockTime \in Nat
         /\ SlotMaturity(j, blockTime) - blockTime <= MaturityLength * NumMaturities
  <1> DEFINE L == MaturityLength
             i == InitialMaturity(blockTime) - blockTime
  <1>1. L \in Nat /\ L > 0 /\ NumMaturities \in Nat
    BY GroupAssumption
  <1>2. j \in Nat /\ j + 1 <= NumMaturities
    BY <1>1 DEF Slots
  <1>3. i \in Nat /\ i <= L /\ InitialMaturity(blockTime) \in Int
    <2>1. blockTime % L \in 0 .. L - 1
      BY <1>1
    <2> QED
      BY <1>1, <2>1 DEF InitialMaturity
  <1>4. SlotMaturity(j, blockTime) - blockTime = i + L * j
    <2>1. L * j \in Nat
      BY <1>1, <1>2, ProductNat
    <2> QED
      BY <1>3, <2>1 DEF SlotMaturity
  <1> HIDE DEF L, i
  <1>5. L * j \in Nat /\ L * j + L <= L * NumMaturities
    <2>1. (j + 1) * L <= NumMaturities * L
      BY <1>1, <1>2, ProductOrder
    <2>2. (j + 1) * L = L * j + L /\ NumMaturities * L = L * NumMaturities
      BY <1>1, <1>2
    <2> QED
      BY <1>1, <1>2, <2>1, <2>2, ProductNat
  <1>6. i + L * j \in Nat /\ i + L * j <= L * NumMaturities
    <2>1. L * NumMaturities \in Nat
      BY <1>1, ProductNat
    <2> QED
      BY <1>1, <1>3, <1>5, <2>1
  <1> QED
    BY <1>4, <1>6 DEF L

\* What is left of an amount after a cut of r in Y grows with the amount.
LEMMA CutOrder ==
  ASSUME NEW n \in Nat, NEW m \in Nat, n <= m, NEW r \in Nat, NEW Y \in Nat, Y > 0, r <= Y
  PROVE  /\ (n * r) \div Y \in Nat /\ (m * r) \div Y \in Nat
         /\ (m * r) \div Y <= m
         /\ n - (n * r) \div Y <= m - (m * r) \div Y
  <1> DEFINE a == n * r
             b == m * r
             x == a \div Y
             y == b \div Y
  <1>1. a \in Nat /\ b \in Nat
    BY ProductNat
  <1>2. PICK k \in Nat : m = n + k
    <2>1. m - n \in Nat /\ m = n + (m - n)
      OBVIOUS
    <2> QED
      BY <2>1
  <1>3. b = a + k * r /\ k * r \in Nat /\ k * r <= k * Y /\ k * Y \in Nat
    <2>1. b = a + k * r
      BY <1>2
    <2>2. r * k <= Y * k /\ r * k \in Nat /\ Y * k \in Nat
      BY ProductOrder
    <2>3. r * k = k * r /\ Y * k = k * Y
      OBVIOUS
    <2> QED
      BY <2>1, <2>2, <2>3
  <1>4. b <= m * Y /\ m * Y \in Nat
    <2>1. r * m <= Y * m /\ Y * m \in Nat
      BY ProductOrder
    <2>2. r * m = m * r /\ Y * m = m * Y
      OBVIOUS
    <2> QED
      BY <2>1, <2>2
  <1> HIDE DEF a, b
  <1>5. /\ x \in Nat /\ Y * x \in Nat /\ Y * x <= a /\ a < Y * x + Y
        /\ y \in Nat /\ Y * y \in Nat /\ Y * y <= b /\ b < Y * y + Y
    <2>1. x \in Nat /\ Y * x <= a /\ a < Y * x + Y
      BY <1>1, QuotientBounds
    <2>2. y \in Nat /\ Y * y <= b /\ b < Y * y + Y
      BY <1>1, QuotientBounds
    <2> HIDE DEF x, y
    <2> QED
      BY <2>1, <2>2, ProductNat
  <1> HIDE DEF x, y
  <1>6. \A u, v \in Nat : Y * u < Y * v + Y => u <= v
    <2> SUFFICES ASSUME NEW u \in Nat, NEW v \in Nat, v + 1 <= u
                 PROVE  ~(Y * u < Y * v + Y)
      OBVIOUS
    <2>1. (v + 1) * Y <= u * Y
      BY ProductOrder
    <2>2. (v + 1) * Y = Y * v + Y /\ u * Y = Y * u /\ Y * v \in Nat /\ Y * u \in Nat
      BY ProductNat
    <2> QED
      BY <2>1, <2>2
  <1>7. y <= m
    <2>1. Y * m = m * Y
      OBVIOUS
    <2>2. Y * y < Y * m + Y
      BY <1>1, <1>4, <1>5, <2>1
    <2> QED
      BY <1>5, <1>6, <2>2
  <1>8. y <= x + k
    <2>1. Y * (x + k) = Y * x + k * Y
      BY <1>2, <1>5
    <2>2. Y * y < (Y * x + k * Y) + Y
      BY <1>1, <1>3, <1>5
    <2>3. x + k \in Nat
      BY <1>2, <1>5
    <2> QED
      BY <1>5, <1>6, <2>1, <2>2, <2>3
  <1>9. n - x <= m - y
    BY <1>2, <1>5, <1>8
  <1> QED
    BY <1>5, <1>7, <1>9 DEF x, y, a, b

\* The value of an entitlement.
LEMMA ReceiverFacts ==
  ASSUME blockTime \in Nat, NEW j \in Slots
  PROVE  \E r \in Nat, Y \in Nat :
           /\ Y > 0 /\ (HaircutWithinFace => r <= Y)
           /\ \A n \in Nat : /\ n > 0 => SlotValue(n, j, blockTime)
                                            = LowerOf(n - (n * r) \div Y, (n * FCashMaxHaircut) \div Decimals)
                             /\ (n * r) \div Y \in Nat /\ (n * FCashMaxHaircut) \div Decimals \in Nat
  <1> DEFINE H == FCashHaircut
             d == SlotMaturity(j, blockTime) - blockTime
             r == H * d
             Y == SecondsInYear * Decimals
             c == MaturityLength * NumMaturities
  <1>1. /\ H \in Nat /\ FCashMaxHaircut \in Nat /\ Decimals \in Nat /\ Decimals > 0
        /\ SecondsInYear \in Nat /\ SecondsInYear > 0
    BY RatesAssumption, DecimalsAssumption
  <1>2. d \in Nat /\ d <= c
    BY SlotDistance
  <1>3. Y \in Nat /\ Y > 0
    <2>1. 1 * Decimals <= SecondsInYear * Decimals /\ SecondsInYear * Decimals \in Nat
      BY <1>1, ProductOrder
    <2> QED
      BY <1>1, <2>1
  <1>4. c \in Nat
    BY GroupAssumption, ProductNat
  <1>5. HaircutWithinFace <=> H * c <= Y
    BY DEF HaircutWithinFace
  <1>6. \A n : SlotValue(n, j, blockTime)
          = IF n > 0 THEN LowerOf(n - ((n * H) * d) \div Y, (n * FCashMaxHaircut) \div Decimals) ELSE n
    BY DEF SlotValue, ReceiverValue
  <1> HIDE DEF H, d, c, Y
  <1>7. r \in Nat /\ r <= H * c /\ H * c \in Nat
    <2>1. d * H <= c * H /\ d * H \in Nat /\ c * H \in Nat
      BY <1>1, <1>2, <1>4, ProductOrder
    <2>2. d * H = H * d /\ c * H = H * c
      BY <1>1, <1>2, <1>4
    <2> QED
      BY <2>1, <2>2
  <1>8. \A n \in Nat : (n * H) * d = n * r
    BY <1>1, <1>2
  <1> HIDE DEF r
  <1>9. \A n \in Nat : n * r \in Nat /\ n * FCashMaxHaircut \in Nat
    BY <1>1, <1>7, ProductNat
  <1>10. \A n \in Nat : /\ (n * r) \div Y \in Nat /\ (n * FCashMaxHaircut) \div Decimals \in Nat
    BY <1>1, <1>3, <1>9, QuotientBounds
  <1>11. HaircutWithinFace => r <= Y
    BY <1>3, <1>5, <1>7
  <1>12. \A n \in Nat : n > 0 => SlotValue(n, j, blockTime)
                          = LowerOf(n - (n * r) \div Y, (n * FCashMaxHaircut) \div Decimals)
    BY <1>6, <1>8
  <1> QED
    BY <1>3, <1>7, <1>10, <1>11, <1>12

\* It is an integer, and more fCash is worth no less.
LEMMA SlotOrder ==
  ASSUME blockTime \in Nat, NEW j \in Slots, NEW n \in Int
  PROVE  /\ SlotValue(n, j, blockTime) \in Int
         /\ HaircutWithinFace =>
              \A m \in Int : n <= m => SlotValue(n, j, blockTime) <= SlotValue(m, j, blockTime)
  <1>1. PICK r \in Nat, Y \in Nat :
           /\ Y > 0 /\ (HaircutWithinFace => r <= Y)
           /\ \A k \in Nat : /\ k > 0 => SlotValue(k, j, blockTime)
                                            = LowerOf(k - (k * r) \div Y, (k * FCashMaxHaircut) \div Decimals)
                             /\ (k * r) \div Y \in Nat /\ (k * FCashMaxHaircut) \div Decimals \in Nat
    BY ReceiverFacts
  <1>2. \A k \in Int : ~(k > 0) => SlotValue(k, j, blockTime) = k
    BY DEF SlotValue
  <1> DEFINE V(k) == SlotValue(k, j, blockTime)
             A(k) == (k * r) \div Y
             B(k) == (k * FCashMaxHaircut) \div Decimals
  <1>3. \A k \in Nat : A(k) \in Nat /\ B(k) \in Nat /\ (k > 0 => V(k) = IF k - A(k) < B(k) THEN k - A(k) ELSE B(k))
    BY <1>1 DEF LowerOf
  <1>4. \A k \in Int : ~(k > 0) => V(k) = k
    BY <1>2
  <1>5. ASSUME HaircutWithinFace, NEW k \in Nat, NEW m \in Nat, k <= m
        PROVE  A(m) <= m /\ k - A(k) <= m - A(m) /\ B(k) <= B(m)
    <2>1. A(m) <= m /\ k - A(k) <= m - A(m)
      BY <1>1, <1>5, CutOrder
    <2>2. k * FCashMaxHaircut \in Nat /\ m * FCashMaxHaircut \in Nat /\ k * FCashMaxHaircut <= m * FCashMaxHaircut
      BY <1>5, RatesAssumption, ProductOrder
    <2>3. B(k) <= B(m)
      BY <2>2, DecimalsAssumption, QuotientOrder
    <2> QED
      BY <2>1, <2>3
  <1>6. SlotValue(n, j, blockTime) = V(n)
    OBVIOUS
  <1> HIDE DEF V, A, B
  <1>7. V(n) \in Int
    BY <1>3, <1>4
  <1>8. ASSUME HaircutWithinFace, NEW m \in Int, n <= m
        PROVE  V(n) <= V(m)
    <2>1. CASE n > 0
      <3>1. n \in Nat /\ m \in Nat /\ m > 0
        BY <1>8, <2>1
      <3>2. A(m) <= m /\ n - A(n) <= m - A(m) /\ B(n) <= B(m)
        BY <1>5, <1>8, <3>1
      <3>3. /\ A(m) \in Nat /\ B(m) \in Nat /\ A(n) \in Nat /\ B(n) \in Nat
            /\ V(m) = IF m - A(m) < B(m) THEN m - A(m) ELSE B(m)
            /\ V(n) = IF n - A(n) < B(n) THEN n - A(n) ELSE B(n)
        BY <1>3, <2>1, <3>1
      <3> QED
        BY <3>1, <3>2, <3>3
    <2>2. CASE ~(n > 0) /\ m > 0
      <3>1. m \in Nat /\ m <= m
        BY <2>2
      <3>2. A(m) <= m
        BY <1>5, <1>8, <3>1
      <3>3. A(m) \in Nat /\ B(m) \in Nat /\ V(m) = IF m - A(m) < B(m) THEN m - A(m) ELSE B(m)
        BY <1>3, <2>2, <3>1
      <3>4. V(n) = n
        BY <1>4, <2>2
      <3> QED
        BY <2>2, <3>1, <3>2, <3>3, <3>4
    <2>3. CASE ~(n > 0) /\ ~(m > 0)
      BY <1>4, <1>8, <2>3
    <2> QED
      BY <2>1, <2>2, <2>3
  <1> QED
    BY <1>7, <1>8 DEF V

\* A slot is worth an integer, and so are the ladder and the portfolio.
LEMMA ValuedInt ==
  ASSUME blockTime \in Nat, NEW K \in Pools, NEW p \in Seq(Stored)
  PROVE  /\ IsFiniteSet(Slots) /\ Ladder(K, p) \in [Slots -> Int]
         /\ ListSum(p, Claims(K)) \in Int /\ ListSum(p, Dues(K)) \in Int
         /\ SumOf(Ladder(K, p), Slots) \in Int /\ Valued(K, p) \in Int
  <1>1. /\ Claims(K) \in [Stored -> Int] /\ Dues(K) \in [Stored -> Int]
        /\ \A j : Nets(K, j) \in [Stored -> Int]
    BY ValueRises, PartsRise DEF Rising
  <1>2. ListSum(p, Claims(K)) \in Int /\ ListSum(p, Dues(K)) \in Int /\ \A j : ListSum(p, Nets(K, j)) \in Int
    BY <1>1, ListFacts
  <1>3. \A n \in Int, j \in Slots : SlotValue(n, j, blockTime) \in Int
    BY SlotOrder
  <1>4. Ladder(K, p) \in [Slots -> Int]
    BY <1>2, <1>3 DEF Ladder
  <1>5. IsFiniteSet(Slots)
    BY GroupAssumption, FS_Interval DEF Slots
  <1>6. SumOf(Ladder(K, p), Slots) \in Int
    BY <1>4, <1>5, SumType
  <1> QED
    BY <1>2, <1>4, <1>5, <1>6 DEF Valued

(****************************************************************************)
(* Free collateral.                                                         *)
(****************************************************************************)
Rates == [Currencies \ {Ether} -> Nat]

\* An amount in ETH is a natural number, and grows with the amount.
LEMMA ToEthOrder ==
  ASSUME NEW rates \in Rates, NEW c \in Currencies, NEW buffer \in Nat, NEW n \in Nat, NEW m \in Nat, n <= m
  PROVE  /\ ToEth(c, n, buffer, rates) \in Nat /\ ToEth(c, m, buffer, rates) \in Nat
         /\ ToEth(c, n, buffer, rates) <= ToEth(c, m, buffer, rates)
  <1>1. Decimals \in Nat /\ Decimals > 0 /\ Decimals * Decimals \in Nat /\ Decimals * Decimals > 0
    <2>1. Decimals \in Nat /\ Decimals > 0 /\ 1 <= Decimals
      BY DecimalsAssumption
    <2>2. 1 * Decimals <= Decimals * Decimals /\ Decimals * Decimals \in Nat
      BY <2>1, ProductOrder
    <2> QED
      BY <2>1, <2>2
  <1>2. CASE c = Ether
    <2>1. n * buffer \in Nat /\ m * buffer \in Nat /\ n * buffer <= m * buffer
      BY ProductOrder
    <2> QED
      BY <1>1, <1>2, <2>1, QuotientOrder DEF ToEth
  <1>3. CASE c # Ether
    <2> DEFINE r == rates[c]
               d == Decimals * Decimals
               x == r * n * buffer
               y == r * m * buffer
    <2>1. r \in Nat
      BY <1>3 DEF Rates
    <2>2. ToEth(c, n, buffer, rates) = x \div d /\ ToEth(c, m, buffer, rates) = y \div d
      BY <1>3 DEF ToEth
    <2> HIDE DEF r
    <2>3. r * n \in Nat /\ r * m \in Nat /\ r * n <= r * m
      <3>1. n * r <= m * r /\ n * r \in Nat /\ m * r \in Nat
        BY <2>1, ProductOrder
      <3>2. n * r = r * n /\ m * r = r * m
        BY <2>1
      <3> QED
        BY <3>1, <3>2
    <2>4. x \in Nat /\ y \in Nat /\ x <= y
      BY <2>3, ProductOrder
    <2>5. d \in Nat /\ d > 0
      BY <1>1
    <2> HIDE DEF x, y, d
    <2> QED
      BY <2>2, <2>4, <2>5, QuotientOrder
  <1> QED
    BY <1>2, <1>3

\* So does a balance, which may be a debt.
LEMMA EthOrder ==
  ASSUME NEW rates \in Rates, NEW c \in Currencies, NEW n \in Int, NEW m \in Int, n <= m
  PROVE  /\ EthValue(c, n, rates) \in Int /\ EthValue(c, m, rates) \in Int
         /\ EthValue(c, n, rates) <= EthValue(c, m, rates)
  <1>1. Buffer \in Nat /\ Decimals \in Nat
    BY RatesAssumption, DecimalsAssumption
  <1> DEFINE debt(k) == ToEth(c, k, Buffer, rates)
             credit(k) == ToEth(c, k, Decimals, rates)
  <1>2. \A i, j \in Nat : i <= j => debt(i) \in Nat /\ debt(j) \in Nat /\ debt(i) <= debt(j)
    BY <1>1, ToEthOrder
  <1>3. \A i, j \in Nat : i <= j => credit(i) \in Nat /\ credit(j) \in Nat /\ credit(i) <= credit(j)
    BY <1>1, ToEthOrder
  <1>4. \A k \in Int : EthValue(c, k, rates) = IF k < 0 THEN -debt(-k) ELSE credit(k)
    BY DEF EthValue
  <1> HIDE DEF debt, credit
  <1>5. CASE n < 0 /\ m < 0
    <2>1. -n \in Nat /\ -m \in Nat /\ -m <= -n
      BY <1>5
    <2>2. debt(-n) \in Nat /\ debt(-m) \in Nat /\ debt(-m) <= debt(-n)
      BY <1>2, <2>1
    <2> QED
      BY <1>4, <1>5, <2>2
  <1>6. CASE n < 0 /\ ~(m < 0)
    <2>1. -n \in Nat /\ m \in Nat /\ -n <= -n /\ m <= m
      BY <1>6
    <2>2. debt(-n) \in Nat /\ credit(m) \in Nat
      BY <1>2, <1>3, <2>1
    <2> QED
      BY <1>4, <1>6, <2>2
  <1>7. CASE ~(n < 0)
    <2>1. n \in Nat /\ m \in Nat /\ ~(m < 0)
      BY <1>7
    <2>2. credit(n) \in Nat /\ credit(m) \in Nat /\ credit(n) <= credit(m)
      BY <1>3, <2>1
    <2> QED
      BY <1>4, <1>7, <2>1, <2>2
  <1> QED
    BY <1>5, <1>6, <1>7

\* What the check sums over the currencies.
EthOf(w, a) == [c \in Currencies |-> EthValue(c, NetBalance(w, a, c), ethRate)]

\* A world whose tokens can be redeemed has a net balance in each currency.
LEMMA NetFacts ==
  ASSUME blockTime \in Nat, NEW w \in Worlds, NEW a \in Accounts, AllPriced(w.markets, w.assets[a]),
         NEW c \in Currencies
  PROVE  /\ NetBalance(w, a, c) \in Int /\ w.cash[c][a] \in Int
         /\ NetBalance(w, a, c) = w.cash[c][a] + IF c = Local THEN Valued(w.markets, w.assets[a]) ELSE 0
  <1>1. w.markets \in Pools /\ w.assets[a] \in Seq(Stored) /\ w.cash[c] \in Book
    BY WorldParts DEF Pools, Portfolio, Stored
  <1>2. w.cash[c][a] \in Int
    BY <1>1, ConstantFacts DEF Book
  <1> DEFINE K == w.markets
             p == w.assets[a]
  <1>3. NetBalance(w, a, c) = w.cash[c][a] + IF c = Local THEN GroupValue(p, TRUE, K, blockTime) ELSE 0
    BY DEF NetBalance
  <1>4. K \in Pools /\ p \in Seq(Stored) /\ AllPriced(K, p)
    BY <1>1
  <1> HIDE DEF K, p
  <1>5. GroupValue(p, TRUE, K, blockTime) = Valued(K, p) /\ Valued(K, p) \in Int
    BY <1>4, GroupFacts, ValuedInt
  <1> DEFINE x == w.cash[c][a]
             y == Valued(K, p)
  <1>6. /\ x \in Int /\ y \in Int
        /\ NetBalance(w, a, c) = x + IF c = Local THEN y ELSE 0
    BY <1>2, <1>3, <1>5
  <1>7. x \in Int /\ y \in Int => x + (IF c = Local THEN y ELSE 0) \in Int
    OBVIOUS
  <1> QED
    BY <1>6, <1>7 DEF K, p

\* Free collateral depends on the net balances and grows with each.
LEMMA FreeFacts ==
  ASSUME ethRate \in Rates, NEW w, NEW v, NEW a
  PROVE  /\ (\A c \in Currencies : NetBalance(v, a, c) = NetBalance(w, a, c))
              => FreeCollateral(v, a) = FreeCollateral(w, a)
         /\ (\A c \in Currencies : /\ NetBalance(w, a, c) \in Int /\ NetBalance(v, a, c) \in Int
                                   /\ NetBalance(w, a, c) <= NetBalance(v, a, c))
              => /\ FreeCollateral(w, a) \in Int /\ FreeCollateral(v, a) \in Int
                 /\ FreeCollateral(w, a) <= FreeCollateral(v, a)
  <1>1. FreeCollateral(w, a) = Total(EthOf(w, a)) /\ FreeCollateral(v, a) = Total(EthOf(v, a))
    BY DEF FreeCollateral, EthOf
  <1>2. ASSUME \A c \in Currencies : NetBalance(v, a, c) = NetBalance(w, a, c)
        PROVE  FreeCollateral(v, a) = FreeCollateral(w, a)
    <2>1. EthOf(v, a) = EthOf(w, a)
      BY <1>2 DEF EthOf
    <2> QED
      BY <1>1, <2>1
  <1>3. ASSUME \A c \in Currencies : /\ NetBalance(w, a, c) \in Int /\ NetBalance(v, a, c) \in Int
                                     /\ NetBalance(w, a, c) <= NetBalance(v, a, c)
        PROVE  /\ FreeCollateral(w, a) \in Int /\ FreeCollateral(v, a) \in Int
               /\ FreeCollateral(w, a) <= FreeCollateral(v, a)
    <2>1. \A c \in Currencies : /\ EthOf(w, a)[c] \in Int /\ EthOf(v, a)[c] \in Int
                                /\ EthOf(w, a)[c] <= EthOf(v, a)[c]
      BY <1>3, EthOrder DEF EthOf
    <2>2. EthOf(w, a) \in [Currencies -> Int] /\ EthOf(v, a) \in [Currencies -> Int]
      BY <2>1 DEF EthOf
    <2> HIDE DEF EthOf
    <2>3. Total(EthOf(w, a)) = SumOf(EthOf(w, a), Currencies) /\ Total(EthOf(v, a)) = SumOf(EthOf(v, a), Currencies)
      BY <2>2, TotalSum
    <2>4. SumOf(EthOf(w, a), Currencies) <= SumOf(EthOf(v, a), Currencies)
      BY <2>1, <2>2, CurrenciesAssumption, SumMonotone
    <2>5. SumOf(EthOf(w, a), Currencies) \in Int /\ SumOf(EthOf(v, a), Currencies) \in Int
      BY <2>2, CurrenciesAssumption, SumType
    <2> QED
      BY <1>1, <2>3, <2>4, <2>5
  <1> QED
    BY <1>2, <1>3

\* The answers are rates, and what can be valued is priced.
LEMMA PricedFacts ==
  ASSUME IInv, NEW w, NEW a, IsValued(w, a)
  PROVE  ethRate \in Rates /\ AllPriced(w.markets, w.assets[a])
  BY AnswersAssumption DEF IInv, Rates, IsValued, CanValue, AllPriced, Priced

(****************************************************************************)
(* Receivers of transfers.                                                  *)
(****************************************************************************)

\* An entitlement raises the value of the portfolio that it is posted to, or leaves it.
LEMMA PostingRaises ==
  ASSUME HaircutWithinFace, blockTime \in Nat, NEW K \in Pools, NEW p \in Seq(Stored),
         NEW x \in Stored, IsReceiver(x.assetType), NEW q \in Seq(Stored), q \in UpsertAsset(p, x, FALSE)
  PROVE  Valued(K, p) <= Valued(K, q)
  <1>1. /\ Claims(K) \in Rising(Stored) /\ Dues(K) \in Rising(Stored)
        /\ \A j : Nets(K, j) \in Rising(Stored)
    BY ValueRises, PartsRise
  <1>2. \A f \in Rising(Stored) : ListSum(p, f) <= ListSum(q, f)
    BY UpsertRises DEF Stored
  <1>3. \A f \in Rising(Stored) : ListSum(p, f) \in Int /\ ListSum(q, f) \in Int
    BY ListFacts DEF Rising
  <1>4. /\ IsFiniteSet(Slots) /\ Ladder(K, p) \in [Slots -> Int] /\ Ladder(K, q) \in [Slots -> Int]
        /\ SumOf(Ladder(K, p), Slots) \in Int /\ SumOf(Ladder(K, q), Slots) \in Int
    BY ValuedInt
  <1>5. \A j \in Slots : Ladder(K, p)[j] <= Ladder(K, q)[j]
    <2> SUFFICES ASSUME NEW j \in Slots
                 PROVE  Ladder(K, p)[j] <= Ladder(K, q)[j]
      OBVIOUS
    <2>1. /\ ListSum(p, Nets(K, j)) \in Int /\ ListSum(q, Nets(K, j)) \in Int
          /\ ListSum(p, Nets(K, j)) <= ListSum(q, Nets(K, j))
      BY <1>1, <1>2, <1>3
    <2>2. /\ Ladder(K, p)[j] = SlotValue(ListSum(p, Nets(K, j)), j, blockTime)
          /\ Ladder(K, q)[j] = SlotValue(ListSum(q, Nets(K, j)), j, blockTime)
      BY DEF Ladder
    <2> QED
      BY <2>1, <2>2, SlotOrder
  <1>6. SumOf(Ladder(K, p), Slots) <= SumOf(Ladder(K, q), Slots)
    BY <1>4, <1>5, SumMonotone
  <1> DEFINE a == ListSum(p, Claims(K))
             b == ListSum(p, Dues(K))
             c == SumOf(Ladder(K, p), Slots)
             d == ListSum(q, Claims(K))
             e == ListSum(q, Dues(K))
             f == SumOf(Ladder(K, q), Slots)
  <1>7. /\ a \in Int /\ b \in Int /\ c \in Int /\ d \in Int /\ e \in Int /\ f \in Int
        /\ a <= d /\ b <= e /\ c <= f
    BY <1>1, <1>2, <1>3, <1>4, <1>6
  <1>8. Valued(K, p) = a + b + c /\ Valued(K, q) = d + e + f
    BY DEF Valued
  <1> HIDE DEF a, b, c, d, e, f
  <1> QED
    BY <1>7, <1>8

\* What the invariant says of an account that is sent an entitlement.
LEMMA ReceiversFacts ==
  ASSUME IInv, HaircutWithinFace
  PROVE  ReceiversNeverLose
  <1> SUFFICES ASSUME NEW a \in Accounts, NEW type \in AssetTypes, NEW m \in Maturities, NEW n \in Amounts,
                      IsReceiver(type), NEW w \in Upserted(World, a, <<Asset(CashGroup, m, type, n)>>),
                      IsValued(World, a), IsValued(w, a)
               PROVE  FreeCollateral(w, a) >= FreeCollateral(World, a)
    BY DEF ReceiversNeverLose
  <1> DEFINE p == World.assets[a]
             x == Asset(CashGroup, m, type, n)
  <1>1. blockTime \in Nat /\ World \in Worlds /\ Accounted(World, blockTime, custody, Zero, Zero)
    BY NowFacts
  <1>2. p \in Seq(Stored) /\ NoDuplicates(p)
    BY <1>1, WorldParts DEF Accounted, Proper, Portfolio, Stored
  <1>3. x \in Posted /\ x \in Stored /\ IsReceiver(x.assetType)
    <2>1. n \in Nat /\ type # LiquidityPayer
      BY AmountsAssumption DEF IsReceiver, CashReceiver, LiquidityToken, LiquidityPayer
    <2> QED
      BY <2>1 DEF Asset, Posted, Postings, Stored, Entries
  <1>4. PICK q \in UpsertAssets(p, <<x>>, FALSE) : w = WithAssets(World, a, q)
    BY DEF Upserted, WithAssets
  <1> HIDE DEF p, x
  <1>5. q \in UpsertAsset(p, x, FALSE)
    <2>1. UpsertAssets(p, <<x>>, FALSE) = UpsertAsset(p, x, FALSE)
      BY <1>2, <1>3, UpsertOne DEF Stored, Posted
    <2> QED
      BY <1>4, <2>1
  <1>6. q \in Seq(Stored)
    <2>1. Adds({CashGroup}, Maturities, p, x, q)
      BY <1>2, <1>3, <1>5, UpsertFacts DEF Stored, Posted
    <2> QED
      BY <2>1 DEF Adds, Stored
  <1>7. EditsAssets(World, w, a, q)
    BY <1>1, <1>4, <1>6, EditFacts DEF Portfolio, Stored
  <1>8. w \in Worlds /\ w.markets = World.markets /\ w.cash = World.cash /\ w.assets[a] = q
    BY <1>7 DEF EditsAssets
  <1>9. Valued(World.markets, p) <= Valued(World.markets, q)
    <2>1. World.markets \in Pools
      BY <1>1, WorldParts DEF Pools
    <2> QED
      BY <1>1, <1>2, <1>3, <1>5, <1>6, <2>1, PostingRaises
  <1>10. /\ ethRate \in Rates /\ AllPriced(World.markets, World.assets[a])
         /\ AllPriced(w.markets, w.assets[a])
    BY PricedFacts
  <1>11. \A c \in Currencies : /\ NetBalance(World, a, c) \in Int /\ NetBalance(w, a, c) \in Int
                               /\ NetBalance(World, a, c) <= NetBalance(w, a, c)
    <2> SUFFICES ASSUME NEW c \in Currencies
                 PROVE  /\ NetBalance(World, a, c) \in Int /\ NetBalance(w, a, c) \in Int
                        /\ NetBalance(World, a, c) <= NetBalance(w, a, c)
      OBVIOUS
    <2>1. /\ NetBalance(World, a, c) \in Int /\ World.cash[c][a] \in Int
          /\ NetBalance(World, a, c)
               = World.cash[c][a] + IF c = Local THEN Valued(World.markets, p) ELSE 0
      BY <1>1, <1>10, NetFacts DEF p
    <2>2. /\ NetBalance(w, a, c) \in Int
          /\ NetBalance(w, a, c) = w.cash[c][a] + IF c = Local THEN Valued(w.markets, w.assets[a]) ELSE 0
      BY <1>1, <1>8, <1>10, NetFacts
    <2>3. Valued(World.markets, p) \in Int /\ Valued(World.markets, q) \in Int
      <3>1. World.markets \in Pools
        BY <1>1, WorldParts DEF Pools
      <3> QED
        BY <1>1, <1>2, <1>6, <3>1, ValuedInt
    <2> QED
      BY <1>8, <1>9, <2>1, <2>2, <2>3
  <1>12. /\ FreeCollateral(World, a) \in Int /\ FreeCollateral(w, a) \in Int
         /\ FreeCollateral(World, a) <= FreeCollateral(w, a)
    BY <1>10, <1>11, FreeFacts
  <1> QED
    BY <1>12

\* An entitlement that an account is sent, or gets in settlement of a trade, never costs it free
\* collateral, which is why transfers do not check their receiver. The haircut of the furthest
\* maturity must not exceed its face: fCash would otherwise count for less than nothing.
THEOREM ReceiversDoNotLose ==
  ASSUME HaircutWithinFace
  PROVE  Spec => []ReceiversNeverLose
  <1>1. IInv => ReceiversNeverLose
    BY ReceiversFacts
  <1> QED
    BY <1>1, Invariance, PTL

(****************************************************************************)
(* Settlement.                                                              *)
(****************************************************************************)

\* Only a token's settlement changes a pool, the one that it redeems from.
Untouched(x, m) == x.assetType = LiquidityToken => x.maturity # m

\* A matured entry is paid what the view counts for it.
LEMMA PaysWorth ==
  ASSUME blockTime \in Nat, NEW v \in Worlds, NEW a \in Accounts, NEW x \in Stored, x.maturity <= blockTime,
         NEW u \in SettleAsset(v, a, x), NEW K \in Pools,
         x.assetType = LiquidityToken => v.markets[Key(x.maturity)] = K[Key(x.maturity)]
  PROVE  /\ u \in Worlds
         /\ u.cash[Local][a] = v.cash[Local][a] + Claims(K)[x] + Dues(K)[x]
         /\ \A m \in Maturities : Untouched(x, m) => u.markets[Key(m)] = v.markets[Key(m)]
  <1> DEFINE k == <<x.cashGroupId, x.maturity>>
             mk == v.markets[k]
             owed == fCashClaim(mk, x.notional)
             claim == CashClaim(mk, x.notional)
             new == RedeemFrom(mk, x.notional)
  <1>1. /\ x.maturity \in Maturities /\ k = Key(x.maturity) /\ x.notional \in Nat /\ Signed(x) \in Int
        /\ IsLiquidityToken(x.assetType) <=> x.assetType = LiquidityToken
        /\ ~(blockTime < x.maturity)
    BY StoredFacts
  <1>2. /\ mk \in Market /\ v.cash[Local] \in Book /\ a \in Holders /\ Local \in Currencies
        /\ v.cash[Local][a] \in Int
    <2>1. mk \in Market /\ v.cash[Local] \in Book /\ a \in Holders /\ Local \in Currencies
      BY <1>1, WorldParts, ConstantFacts
    <2>2. v.cash[Local][a] \in Int
      BY <2>1 DEF Book
    <2> QED
      BY <2>1, <2>2
  <1>3. Dues(K)[x] = Worth(K)[x]
    BY DEF Dues
  <1>4. CASE x.assetType = LiquidityToken
    <2>1. u \in SettleToken(v, a, x)
      BY <1>1, <1>4 DEF SettleAsset
    <2>2. CanRedeem(mk, x.notional)
      BY <2>1 DEF SettleToken
    <2>3. PICK book \in WithdrawFromMarket(v.cash[Local], MarketAccount, a, claim, 0) :
            u = WithMarket(v, k, new, Credit(book, a, owed))
      BY <2>1, <2>2 DEF SettleToken, WithMarket
    <2>4. owed \in Int /\ claim \in Int
      <3>1. mk.totalfCash \in Nat /\ mk.totalCurrentCash \in Nat /\ mk.totalLiquidity \in Nat
        BY <1>2 DEF Market
      <3> QED
        BY <1>1, <2>2, <3>1, ProRata DEF CanRedeem, CashClaim, fCashClaim
    <2>5. new \in Market
      BY <1>1, <1>2, <2>2, RedeemFacts
    <2>6. Claims(K)[x] = claim /\ Dues(K)[x] = owed
      <3>1. PoolOf(K, x) = mk
        BY <1>1, <1>4, EntryPool
      <3>2. mk.totalLiquidity > 0
        BY <2>2 DEF CanRedeem
      <3>3. /\ Claims(K)[x] = TokenClaim(mk.totalCurrentCash, mk, x, blockTime)
            /\ Worth(K)[x] = TokenClaim(mk.totalfCash, mk, x, blockTime)
        BY <1>4, <3>1, <3>2, EntryValue
      <3> QED
        BY <1>1, <1>3, <3>3 DEF TokenClaim, CashClaim, fCashClaim
    <2> HIDE DEF k, mk, owed, claim, new
    <2>7. book \in Book /\ book[a] = v.cash[Local][a] + claim - 0
      <3>1. Moves(v.cash[Local], a, claim, 0, book)
        BY <1>2, <2>4, ReceivingFacts
      <3> QED
        BY <3>1 DEF Moves
    <2> DEFINE after == Credit(book, a, owed)
    <2>8. after \in Book /\ after[a] = book[a] + owed
      BY <1>2, <2>4, <2>7, CreditFacts DEF Credited
    <2> HIDE DEF after
    <2>9. EditsMarket(v, WithMarket(v, Key(x.maturity), new, after), x.maturity, new, after)
      BY <1>1, <2>5, <2>8, EditFacts
    <2>10. EditsMarket(v, u, x.maturity, new, after)
      BY <1>1, <2>3, <2>9 DEF after
    <2>11. u \in Worlds /\ u.cash[Local] = after
      BY <2>10 DEF EditsMarket
    <2>12. u.cash[Local][a] = v.cash[Local][a] + Claims(K)[x] + Dues(K)[x]
      BY <1>2, <2>4, <2>6, <2>7, <2>8, <2>11
    <2>13. \A m \in Maturities : Untouched(x, m) => u.markets[Key(m)] = v.markets[Key(m)]
      BY <1>4, <2>10 DEF EditsMarket, Untouched
    <2> QED
      BY <2>11, <2>12, <2>13
  <1>5. CASE x.assetType # LiquidityToken
    <2> DEFINE n == Signed(x)
               after == Credit(v.cash[Local], a, n)
    <2>1. u = WithBook(v, Local, after)
      BY <1>1, <1>5 DEF SettleAsset, WithBook
    <2>2. n \in Int
      BY <1>1
    <2>3. Claims(K)[x] = 0 /\ Dues(K)[x] = n
      BY <1>3, <1>5, EntryValue
    <2> HIDE DEF n
    <2>4. after \in Book /\ after[a] = v.cash[Local][a] + n
      BY <1>2, <2>2, CreditFacts DEF Credited
    <2> HIDE DEF after
    <2>5. EditsBook(v, u, Local, after)
      BY <1>2, <2>1, <2>4, EditFacts
    <2>6. u \in Worlds /\ u.cash[Local] = after /\ u.markets = v.markets
      BY <2>5 DEF EditsBook
    <2> QED
      BY <1>2, <2>2, <2>3, <2>4, <2>6
  <1> QED
    BY <1>4, <1>5

\* Sums over the entries that have been paid.
LEMMA PaidSums ==
  ASSUME NEW xs \in Seq(Stored), NEW f \in [Stored -> Int]
  PROVE  /\ ListSum(Paid(xs, 0), f) = 0 /\ ListSum(Paid(xs, Len(xs)), f) = ListSum(xs, f)
         /\ \A n \in 0 .. Len(xs) : ListSum(Paid(xs, n), f) \in Int
         /\ \A n \in Nat : n < Len(xs) =>
              ListSum(Paid(xs, n + 1), f) = ListSum(Paid(xs, n), f) + f[xs[n + 1]]
  <1>1. \A n \in 0 .. Len(xs) : Paid(xs, n) \in Seq(Stored)
    BY DEF Paid
  <1>2. Paid(xs, 0) = << >> /\ Paid(xs, Len(xs)) = xs
    BY DEF Paid
  <1>3. \A n \in Nat : n < Len(xs) => Paid(xs, n + 1) = Append(Paid(xs, n), xs[n + 1]) /\ xs[n + 1] \in Stored
    BY DEF Paid
  <1> HIDE DEF Paid
  <1>4. \A n \in 0 .. Len(xs) : ListSum(Paid(xs, n), f) \in Int
    BY <1>1, ListFacts
  <1>5. ASSUME NEW n \in Nat, n < Len(xs)
        PROVE  ListSum(Paid(xs, n + 1), f) = ListSum(Paid(xs, n), f) + f[xs[n + 1]]
    <2>1. n \in 0 .. Len(xs)
      BY <1>5
    <2>2. Paid(xs, n) \in Seq(Stored) /\ xs[n + 1] \in Stored /\ Paid(xs, n + 1) = Append(Paid(xs, n), xs[n + 1])
      BY <1>1, <1>3, <1>5, <2>1
    <2>3. ListSum(Append(Paid(xs, n), xs[n + 1]), f) = ListSum(Paid(xs, n), f) + f[xs[n + 1]]
      BY <2>2, ListAppend
    <2> QED
      BY <2>2, <2>3
  <1> QED
    BY <1>2, <1>4, <1>5, ListEmpty

\* A list of matured entries without duplicates is paid what the view counts for it, and the pools
\* of the maturities to come stay as they are.
LEMMA SettlementPays ==
  ASSUME blockTime \in Nat, NEW w \in Worlds, NEW a \in Accounts, NEW xs \in Seq(Stored), NoDuplicates(xs),
         \A j \in DOMAIN xs : xs[j].maturity <= blockTime, NEW s \in SettleList(w, a, xs)
  PROVE  LET K == w.markets
         IN  /\ s \in Worlds
             /\ s.cash[Local][a] = w.cash[Local][a] + ListSum(xs, Claims(K)) + ListSum(xs, Dues(K))
             /\ \A m \in Maturities : ~(m <= blockTime) => s.markets[Key(m)] = K[Key(m)]
  <1> DEFINE K == w.markets
             N == Len(xs)
             Got(n) == ListSum(Paid(xs, n), Claims(K)) + ListSum(Paid(xs, n), Dues(K))
             Free(n, m) == \A j \in 1 .. n : Untouched(xs[j], m)
             Half(v, n) == /\ v \in Worlds /\ v.cash[Local][a] = w.cash[Local][a] + Got(n)
                           /\ \A m \in Maturities : Free(n, m) => v.markets[Key(m)] = K[Key(m)]
  <1>1. K \in Pools /\ w.cash[Local][a] \in Int /\ \A v \in Worlds : v.cash[Local][a] \in Int
    BY WorldParts, ConstantFacts DEF Pools, Book
  <1>2. Claims(K) \in [Stored -> Int] /\ Dues(K) \in [Stored -> Int]
    BY <1>1, ValueRises, PartsRise DEF Rising
  <1>3. N \in Nat /\ DOMAIN xs = 1 .. N /\ \A j \in 1 .. N : xs[j] \in Stored /\ xs[j].maturity <= blockTime
    OBVIOUS
  <1> HIDE DEF K
  <1>4. /\ Got(0) = 0 /\ Got(N) = ListSum(xs, Claims(K)) + ListSum(xs, Dues(K))
        /\ \A n \in 0 .. N : Got(n) \in Int
        /\ \A n \in Nat : n < N => Got(n + 1) = Got(n) + Claims(K)[xs[n + 1]] + Dues(K)[xs[n + 1]]
    <2>1. /\ ListSum(Paid(xs, 0), Claims(K)) = 0 /\ ListSum(Paid(xs, N), Claims(K)) = ListSum(xs, Claims(K))
          /\ ListSum(Paid(xs, 0), Dues(K)) = 0 /\ ListSum(Paid(xs, N), Dues(K)) = ListSum(xs, Dues(K))
          /\ \A n \in 0 .. N : ListSum(Paid(xs, n), Claims(K)) \in Int /\ ListSum(Paid(xs, n), Dues(K)) \in Int
          /\ \A n \in Nat : n < N =>
               /\ ListSum(Paid(xs, n + 1), Claims(K)) = ListSum(Paid(xs, n), Claims(K)) + Claims(K)[xs[n + 1]]
               /\ ListSum(Paid(xs, n + 1), Dues(K)) = ListSum(Paid(xs, n), Dues(K)) + Dues(K)[xs[n + 1]]
      BY <1>2, PaidSums
    <2>2. ASSUME NEW n \in Nat, n < N
          PROVE  Got(n + 1) = Got(n) + Claims(K)[xs[n + 1]] + Dues(K)[xs[n + 1]]
      <3> DEFINE x == xs[n + 1]
                 b == ListSum(Paid(xs, n), Claims(K))
                 c == ListSum(Paid(xs, n), Dues(K))
                 d == Claims(K)[x]
                 e == Dues(K)[x]
      <3>1. x \in Stored /\ n \in 0 .. N
        BY <1>3, <2>2
      <3>2. b \in Int /\ c \in Int /\ d \in Int /\ e \in Int
        BY <1>2, <2>1, <3>1
      <3>3. Got(n + 1) = (b + d) + (c + e) /\ Got(n) = b + c
        BY <2>1, <2>2
      <3> HIDE DEF b, c, d, e, Got
      <3> QED
        BY <3>2, <3>3 DEF d, e
    <2> QED
      BY <2>1, <2>2
  <1> HIDE DEF Got, N
  <1>5. PICK F : IsPaymentSteps(F, w, a, xs)
    BY PaymentChain
  <1> DEFINE T == {n \in Nat : n <= N => \A v \in F[1 .. n] : Half(v, n)}
  <1> HIDE DEF T
  <1>6. 0 \in T
    <2>1. F[1 .. 0] = {w}
      BY <1>5 DEF IsPaymentSteps
    <2>2. Half(w, 0)
      BY <1>1, <1>4 DEF K
    <2> QED
      BY <2>1, <2>2 DEF T
  <1>7. ASSUME NEW n \in Nat, n \in T
        PROVE  n + 1 \in T
    <2> SUFFICES ASSUME n + 1 <= N, NEW u \in F[1 .. (n + 1)]
                 PROVE  Half(u, n + 1)
      BY <1>7 DEF T
    <2> DEFINE x == xs[n + 1]
    <2>1. n + 1 \in 1 .. N /\ n \in 0 .. N /\ n < N /\ (n + 1) - 1 = n /\ n <= N
      BY <1>3
    <2>2. x \in Stored /\ x.maturity <= blockTime /\ x.maturity \in Maturities
      BY <1>3, <2>1, StoredFacts
    <2>3. F[1 .. (n + 1)] = SettleAll(F[1 .. n], a, x)
      BY <1>5, <2>1 DEF IsPaymentSteps, N
    <2>4. PICK v \in F[1 .. n] : u \in SettleAsset(v, a, x)
      BY <2>3 DEF SettleAll
    <2>5. Half(v, n)
      BY <1>7, <2>1 DEF T
    <2>6. x.assetType = LiquidityToken => Free(n, x.maturity)
      <3> SUFFICES ASSUME x.assetType = LiquidityToken, NEW j \in 1 .. n
                   PROVE  Untouched(xs[j], x.maturity)
        OBVIOUS
      <3>1. j \in DOMAIN xs /\ n + 1 \in DOMAIN xs /\ j # n + 1 /\ j \in 1 .. N
        BY <1>3, <2>1
      <3>2. ~SameSide(xs[j], x)
        BY <3>1 DEF NoDuplicates
      <3>3. xs[j] \in Stored
        BY <1>3, <3>1
      <3> HIDE DEF x
      <3>4. xs[j].cashGroupId = x.cashGroupId
        BY <2>2, <3>3 DEF Stored, Entries
      <3> QED
        BY <3>2, <3>4 DEF SameSide, SameInstrument, Untouched
    <2>7. /\ u \in Worlds
          /\ u.cash[Local][a] = v.cash[Local][a] + Claims(K)[x] + Dues(K)[x]
          /\ \A m \in Maturities : Untouched(x, m) => u.markets[Key(m)] = v.markets[Key(m)]
      <3>1. v \in Worlds /\ (x.assetType = LiquidityToken => v.markets[Key(x.maturity)] = K[Key(x.maturity)])
        BY <2>2, <2>5, <2>6
      <3> HIDE DEF x
      <3> QED
        BY <1>1, <2>2, <2>4, <3>1, PaysWorth
    <2>8. u.cash[Local][a] = w.cash[Local][a] + Got(n + 1)
      <3> DEFINE b == w.cash[Local][a]
                 c == Got(n)
                 d == Claims(K)[x]
                 e == Dues(K)[x]
      <3>1. b \in Int /\ c \in Int /\ d \in Int /\ e \in Int
        BY <1>1, <1>2, <1>4, <2>1, <2>2
      <3>2. u.cash[Local][a] = (b + c) + d + e /\ Got(n + 1) = c + d + e
        BY <1>4, <2>1, <2>5, <2>7
      <3> HIDE DEF b, c, d, e
      <3> QED
        BY <3>1, <3>2 DEF b
    <2>9. \A m \in Maturities : Free(n + 1, m) => u.markets[Key(m)] = K[Key(m)]
      <3> SUFFICES ASSUME NEW m \in Maturities, Free(n + 1, m)
                   PROVE  u.markets[Key(m)] = K[Key(m)]
        OBVIOUS
      <3>1. Free(n, m) /\ Untouched(x, m)
        BY <2>1
      <3> QED
        BY <2>5, <2>7, <3>1
    <2> QED
      BY <2>7, <2>8, <2>9
  <1>8. \A n \in Nat : n \in T
    BY <1>6, <1>7, NaturalInduction
  <1>9. Half(s, N)
    <2>1. s \in F[1 .. N]
      BY <1>5 DEF IsPaymentSteps, N
    <2> QED
      BY <1>3, <1>8, <2>1 DEF T
  <1>10. ASSUME NEW m \in Maturities, ~(m <= blockTime)
         PROVE  Free(N, m)
    BY <1>3, <1>10 DEF Untouched
  <1>11. s \in Worlds /\ s.cash[Local][a] = w.cash[Local][a] + Got(N)
    BY <1>9
  <1>12. \A m \in Maturities : ~(m <= blockTime) => s.markets[Key(m)] = K[Key(m)]
    BY <1>9, <1>10
  <1> DEFINE b == w.cash[Local][a]
             c == ListSum(xs, Claims(K))
             d == ListSum(xs, Dues(K))
  <1>13. b \in Int /\ c \in Int /\ d \in Int
    BY <1>1, <1>2, ListFacts
  <1>14. s.cash[Local][a] = b + (c + d)
    BY <1>4, <1>11
  <1> HIDE DEF b, c, d
  <1>15. s.cash[Local][a] = b + c + d
    BY <1>13, <1>14
  <1> QED
    BY <1>11, <1>12, <1>15 DEF K, b, c, d

\* Entries whose pools agree are worth the same.
LEMMA ValuedSame ==
  ASSUME NEW K \in Pools, NEW J \in Pools, NEW p \in Seq(Stored), AllPriced(K, p),
         \A i \in DOMAIN p : J[Key(p[i].maturity)] = K[Key(p[i].maturity)]
  PROVE  AllPriced(J, p) /\ Valued(J, p) = Valued(K, p)
  <1>1. /\ \A i \in DOMAIN p : p[i] \in Stored
        /\ Claims(K) \in [Stored -> Int] /\ Dues(K) \in [Stored -> Int]
        /\ Claims(J) \in [Stored -> Int] /\ Dues(J) \in [Stored -> Int]
        /\ \A j : Nets(K, j) \in [Stored -> Int] /\ Nets(J, j) \in [Stored -> Int]
    BY ValueRises, PartsRise DEF Rising
  <1>2. \A i \in DOMAIN p : PoolOf(J, p[i]) = PoolOf(K, p[i])
    BY <1>1, EntryPool
  <1>3. \A i \in DOMAIN p : /\ Priced(J, p[i]) <=> Priced(K, p[i])
                            /\ Claims(J)[p[i]] = Claims(K)[p[i]] /\ Worth(J)[p[i]] = Worth(K)[p[i]]
    BY <1>1, <1>2 DEF Priced, Claims, Worth, CashClaimOf, fCashOf
  <1>4. \A i \in DOMAIN p : /\ Dues(J)[p[i]] = Dues(K)[p[i]]
                            /\ \A j : Nets(J, j)[p[i]] = Nets(K, j)[p[i]]
    BY <1>1, <1>3 DEF Dues, Nets
  <1>5. ASSUME NEW f \in [Stored -> Int], NEW g \in [Stored -> Int], \A i \in DOMAIN p : f[p[i]] = g[p[i]]
        PROVE  ListSum(p, f) = ListSum(p, g)
    BY <1>5, ListSame
  <1>6. /\ ListSum(p, Claims(J)) = ListSum(p, Claims(K)) /\ ListSum(p, Dues(J)) = ListSum(p, Dues(K))
        /\ \A j : ListSum(p, Nets(J, j)) = ListSum(p, Nets(K, j))
    <2>1. ListSum(p, Claims(J)) = ListSum(p, Claims(K))
      BY <1>1, <1>3, <1>5
    <2>2. ListSum(p, Dues(J)) = ListSum(p, Dues(K))
      BY <1>1, <1>4, <1>5
    <2>3. ASSUME NEW j
          PROVE  ListSum(p, Nets(J, j)) = ListSum(p, Nets(K, j))
      <3>1. Nets(K, j) \in [Stored -> Int] /\ Nets(J, j) \in [Stored -> Int]
        BY <1>1
      <3>2. \A i \in DOMAIN p : Nets(J, j)[p[i]] = Nets(K, j)[p[i]]
        BY <1>4
      <3> QED
        BY <1>5, <3>1, <3>2
    <2> QED
      BY <2>1, <2>2, <2>3
  <1>7. Ladder(J, p) = Ladder(K, p)
    BY <1>6 DEF Ladder
  <1>8. AllPriced(J, p)
    BY <1>3 DEF AllPriced
  <1> QED
    BY <1>6, <1>7, <1>8 DEF Valued

\* What is taken out of a portfolio at maturity is not on its ladder.
LEMMA ValuedSplit ==
  ASSUME blockTime \in Nat, NEW K \in Pools, NEW p \in Seq(Stored), NoDuplicates(p),
         NEW loop, loop = SettleLoop(p, blockTime)
  PROVE  LET q  == loop.portfolio
             xs == loop.settled
         IN  Valued(K, p) = Valued(K, q) + ListSum(xs, Claims(K)) + ListSum(xs, Dues(K))
  <1> DEFINE q == loop.portfolio
             xs == loop.settled
  <1>1. q \in Seq(Stored) /\ xs \in Seq(Stored) /\ \A j \in DOMAIN xs : xs[j].maturity <= blockTime
    BY SettleFacts DEF Stored
  <1>2. ASSUME NEW f \in [Stored -> Int]
        PROVE  ListSum(q, f) + ListSum(xs, f) = ListSum(p, f)
    <2>1. \A G, M : p \in Seq(Entries(G, M)) /\ f \in [Entries(G, M) -> Int] =>
            ListSum(loop.portfolio, f) + ListSum(loop.settled, f) = ListSum(p, f)
      BY SettleSums
    <2> QED
      BY <2>1 DEF Stored
  <1>3. /\ Claims(K) \in [Stored -> Int] /\ Dues(K) \in [Stored -> Int]
        /\ \A j : Nets(K, j) \in [Stored -> Int]
    BY ValueRises, PartsRise DEF Rising
  <1> HIDE DEF q, xs
  <1>4. \A f \in [Stored -> Int] : ListSum(q, f) \in Int /\ ListSum(xs, f) \in Int
    BY <1>1, ListFacts
  <1>5. \A j : ListSum(p, Nets(K, j)) = ListSum(q, Nets(K, j))
    <2> SUFFICES ASSUME NEW j
                 PROVE  ListSum(p, Nets(K, j)) = ListSum(q, Nets(K, j))
      OBVIOUS
    <2>1. \A i \in DOMAIN xs : xs[i] \in Stored /\ Nets(K, j)[xs[i]] = 0
      BY <1>1 DEF Nets, InSlot
    <2>2. ListSum(xs, Nets(K, j)) = 0
      BY <1>1, <1>3, <2>1, ListFacts
    <2>3. ListSum(q, Nets(K, j)) + ListSum(xs, Nets(K, j)) = ListSum(p, Nets(K, j))
      BY <1>2, <1>3
    <2>4. ListSum(q, Nets(K, j)) \in Int
      BY <1>3, <1>4
    <2> QED
      BY <2>2, <2>3, <2>4
  <1>6. Ladder(K, p) = Ladder(K, q)
    BY <1>5 DEF Ladder
  <1> DEFINE a == ListSum(q, Claims(K))
             b == ListSum(xs, Claims(K))
             c == ListSum(q, Dues(K))
             d == ListSum(xs, Dues(K))
             e == SumOf(Ladder(K, q), Slots)
  <1>7. a \in Int /\ b \in Int /\ c \in Int /\ d \in Int /\ e \in Int
    BY <1>1, <1>3, <1>4, ValuedInt
  <1>8. ListSum(p, Claims(K)) = a + b /\ ListSum(p, Dues(K)) = c + d
    BY <1>2, <1>3
  <1>9. Valued(K, p) = (a + b) + (c + d) + e /\ Valued(K, q) = a + c + e
    BY <1>6, <1>8 DEF Valued
  <1> HIDE DEF a, b, c, d, e
  <1>10. Valued(K, p) = Valued(K, q) + b + d
    BY <1>7, <1>9
  <1> QED
    BY <1>10 DEF q, xs, b, d

\* What the invariant says of an account that is settled.
LEMMA NeutralFacts ==
  ASSUME IInv
  PROVE  SettlementNeutral
  <1> SUFFICES ASSUME NEW a \in Accounts, NEW s \in Settled(World, a), IsValued(World, a)
               PROVE  FreeCollateral(s, a) = FreeCollateral(World, a)
    BY DEF SettlementNeutral
  <1> DEFINE p == World.assets[a]
             K == World.markets
             loop == SettleLoop(p, blockTime)
             q == loop.portfolio
             xs == loop.settled
             start == WithAssets(World, a, q)
  <1>1. blockTime \in Nat /\ World \in Worlds /\ Accounted(World, blockTime, custody, Zero, Zero)
    BY NowFacts
  <1>2. p \in Seq(Stored) /\ NoDuplicates(p) /\ K \in Pools
    BY <1>1, WorldParts DEF Accounted, Proper, Portfolio, Stored, Pools
  <1>3. ethRate \in Rates /\ AllPriced(K, p)
    BY PricedFacts
  <1>4. /\ s.assets[a] = q /\ s \in Worlds
        /\ \A c \in Currencies : c # Local => s.cash[c] = World.cash[c]
    BY <1>1, SettledStep DEF IsSettled, Accounted
  <1>5. s \in SettleList(start, a, xs)
    BY DEF Settled, SettleList, WithAssets
  <1>6. loop = SettleLoop(p, blockTime)
    OBVIOUS
  <1> HIDE DEF loop, p
  <1>7. /\ q \in Seq(Stored) /\ xs \in Seq(Stored) /\ NoDuplicates(xs) /\ FoundIn(q, p)
        /\ \A j \in DOMAIN q : ~(q[j].maturity <= blockTime)
        /\ \A j \in DOMAIN xs : xs[j].maturity <= blockTime
    BY <1>2, <1>6, SettleFacts DEF Stored
  <1>8. Valued(K, p) = Valued(K, q) + ListSum(xs, Claims(K)) + ListSum(xs, Dues(K))
    BY <1>1, <1>2, <1>6, ValuedSplit
  <1> HIDE DEF q, xs
  <1>9. start \in Worlds /\ start.markets = K /\ start.cash = World.cash
    <2>1. EditsAssets(World, start, a, q)
      BY <1>1, <1>7, EditFacts DEF Portfolio, Stored
    <2> QED
      BY <2>1 DEF EditsAssets
  <1> HIDE DEF start, K
  <1>10. /\ s.cash[Local][a] = World.cash[Local][a] + ListSum(xs, Claims(K)) + ListSum(xs, Dues(K))
         /\ \A m \in Maturities : ~(m <= blockTime) => s.markets[Key(m)] = K[Key(m)]
    BY <1>1, <1>5, <1>7, <1>9, SettlementPays
  <1>11. s.markets \in Pools
    BY <1>4, WorldParts DEF Pools
  <1>12. AllPriced(K, q)
    BY <1>3, <1>7 DEF AllPriced, FoundIn
  <1>13. AllPriced(s.markets, q) /\ Valued(s.markets, q) = Valued(K, q)
    <2>1. \A i \in DOMAIN q : s.markets[Key(q[i].maturity)] = K[Key(q[i].maturity)]
      BY <1>7, <1>10, StoredFacts
    <2> QED
      BY <1>2, <1>7, <1>11, <1>12, <2>1, ValuedSame
  <1>14. \A c \in Currencies : NetBalance(s, a, c) = NetBalance(World, a, c)
    <2> SUFFICES ASSUME NEW c \in Currencies
                 PROVE  NetBalance(s, a, c) = NetBalance(World, a, c)
      OBVIOUS
    <2>1. /\ World.cash[c][a] \in Int
          /\ NetBalance(World, a, c) = World.cash[c][a] + IF c = Local THEN Valued(K, p) ELSE 0
      BY <1>1, <1>3, NetFacts DEF K, p
    <2>2. NetBalance(s, a, c) = s.cash[c][a] + IF c = Local THEN Valued(K, q) ELSE 0
      BY <1>1, <1>4, <1>13, NetFacts
    <2>3. CASE c # Local
      BY <1>4, <2>1, <2>2, <2>3
    <2>4. CASE c = Local
      <3> DEFINE x == World.cash[Local][a]
                 y == Valued(K, q)
                 e == ListSum(xs, Claims(K))
                 f == ListSum(xs, Dues(K))
      <3>1. x \in Int /\ y \in Int /\ e \in Int /\ f \in Int
        BY <1>1, <1>2, <1>7, <2>1, <2>4, ValuedInt
      <3>2. NetBalance(World, a, c) = x + (y + e + f) /\ NetBalance(s, a, c) = (x + e + f) + y
        BY <1>8, <1>10, <2>1, <2>2, <2>4
      <3> HIDE DEF x, y, e, f
      <3> QED
        BY <3>1, <3>2
    <2> QED
      BY <2>3, <2>4
  <1> QED
    BY <1>3, <1>14, FreeFacts

\* What the check counts for matured assets and claims is what settlement turns them into, to the
\* unit: a view that does not settle and a call that does decide alike.
THEOREM SettlementIsNeutral == Spec => []SettlementNeutral
  BY Invariance, NeutralFacts, PTL

(****************************************************************************)
(* Accounts across a transaction: whoever is not checked by it is settled,  *)
(* is left aside, is paid, or is sent an entitlement.                       *)
(****************************************************************************)

\* The portfolio holds no liquidity tokens: its value does not depend on the pools.
Tokenless(p) == \A i \in DOMAIN p : ~IsLiquidityToken(p[i].assetType)

\* v has all that w has of account b, but for the pools.
Aside(w, v, b) ==
  /\ v.assets[b] = w.assets[b]
  /\ \A c \in Currencies : w.cash[c][b] <= v.cash[c][b]

\* The account may also have been sent an entitlement.
Gains(w, v, b) ==
  /\ \/ v.assets[b] = w.assets[b]
     \/ \E x \in Stored : IsReceiver(x.assetType) /\ v.assets[b] \in UpsertAsset(w.assets[b], x, FALSE)
  /\ \A c \in Currencies : w.cash[c][b] <= v.cash[c][b]

\* No account that was collateralized is endangered, unless it provides liquidity, by w coming next.
Spared(w, b) ==
  (Tokenless(World.assets[b]) /\ IsCollateralized(World, b) /\ IsValued(w, b)) => FreeCollateral(w, b) >= 0

Harmless(w) == \A b \in Accounts : Spared(w, b)

\* The balances of a world are integers, so that to have as much is transitive.
LEMMA AsideChain ==
  ASSUME NEW u \in Worlds, NEW v \in Worlds, NEW w \in Worlds, NEW b \in Accounts
  PROVE  /\ Aside(u, v, b) /\ Aside(v, w, b) => Aside(u, w, b)
         /\ Aside(u, v, b) /\ Gains(v, w, b) => Gains(u, w, b)
         /\ Gains(u, v, b) /\ Aside(v, w, b) => Gains(u, w, b)
         /\ Aside(u, u, b) /\ (Aside(u, v, b) => Gains(u, v, b))
  <1>1. \A c \in Currencies : u.cash[c][b] \in Int /\ v.cash[c][b] \in Int /\ w.cash[c][b] \in Int
    BY OwingFacts
  <1>2. \A c \in Currencies :
          /\ u.cash[c][b] <= u.cash[c][b]
          /\ u.cash[c][b] <= v.cash[c][b] /\ v.cash[c][b] <= w.cash[c][b] => u.cash[c][b] <= w.cash[c][b]
    BY <1>1
  <1> QED
    BY <1>2 DEF Aside, Gains

\* Without tokens, the pools do not matter.
LEMMA TokenlessSame ==
  ASSUME NEW K \in Pools, NEW J \in Pools, NEW p \in Seq(Stored), Tokenless(p)
  PROVE  AllPriced(J, p) /\ AllPriced(K, p) /\ Valued(J, p) = Valued(K, p)
  <1>1. /\ \A i \in DOMAIN p : p[i] \in Stored
        /\ Claims(K) \in [Stored -> Int] /\ Dues(K) \in [Stored -> Int]
        /\ Claims(J) \in [Stored -> Int] /\ Dues(J) \in [Stored -> Int]
        /\ \A j : Nets(K, j) \in [Stored -> Int] /\ Nets(J, j) \in [Stored -> Int]
    BY ValueRises, PartsRise DEF Rising
  <1>2. \A i \in DOMAIN p : ~IsLiquidityToken(p[i].assetType)
    BY DEF Tokenless
  <1>3. \A i \in DOMAIN p : /\ Priced(J, p[i]) /\ Priced(K, p[i])
                            /\ Claims(J)[p[i]] = Claims(K)[p[i]] /\ Worth(J)[p[i]] = Worth(K)[p[i]]
    BY <1>1, <1>2 DEF Priced, Claims, Worth, CashClaimOf, fCashOf
  <1>4. \A i \in DOMAIN p : /\ Dues(J)[p[i]] = Dues(K)[p[i]]
                            /\ \A j : Nets(J, j)[p[i]] = Nets(K, j)[p[i]]
    BY <1>1, <1>3 DEF Dues, Nets
  <1>5. ASSUME NEW f \in [Stored -> Int], NEW g \in [Stored -> Int], \A i \in DOMAIN p : f[p[i]] = g[p[i]]
        PROVE  ListSum(p, f) = ListSum(p, g)
    BY <1>5, ListSame
  <1>6. /\ ListSum(p, Claims(J)) = ListSum(p, Claims(K)) /\ ListSum(p, Dues(J)) = ListSum(p, Dues(K))
        /\ \A j : ListSum(p, Nets(J, j)) = ListSum(p, Nets(K, j))
    <2>1. ListSum(p, Claims(J)) = ListSum(p, Claims(K))
      BY <1>1, <1>3, <1>5
    <2>2. ListSum(p, Dues(J)) = ListSum(p, Dues(K))
      BY <1>1, <1>4, <1>5
    <2>3. ASSUME NEW j
          PROVE  ListSum(p, Nets(J, j)) = ListSum(p, Nets(K, j))
      <3>1. Nets(K, j) \in [Stored -> Int] /\ Nets(J, j) \in [Stored -> Int]
        BY <1>1
      <3>2. \A i \in DOMAIN p : Nets(J, j)[p[i]] = Nets(K, j)[p[i]]
        BY <1>4
      <3> QED
        BY <1>5, <3>1, <3>2
    <2> QED
      BY <2>1, <2>2, <2>3
  <1>7. Ladder(J, p) = Ladder(K, p)
    BY <1>6 DEF Ladder
  <1> QED
    BY <1>3, <1>6, <1>7 DEF Valued, AllPriced

\* Who has as much cash and no less valuable a portfolio has as much collateral.
LEMMA BetterFacts ==
  ASSUME IInv, NEW w \in Worlds, NEW v \in Worlds, NEW b \in Accounts,
         AllPriced(w.markets, w.assets[b]), AllPriced(v.markets, v.assets[b]),
         \A c \in Currencies : w.cash[c][b] <= v.cash[c][b],
         Valued(w.markets, w.assets[b]) <= Valued(v.markets, v.assets[b])
  PROVE  /\ FreeCollateral(w, b) \in Int /\ FreeCollateral(v, b) \in Int
         /\ FreeCollateral(w, b) <= FreeCollateral(v, b)
  <1>1. blockTime \in Nat /\ ethRate \in Rates
    BY NowFacts, AnswersAssumption DEF IInv, Rates
  <1> DEFINE x == Valued(w.markets, w.assets[b])
             y == Valued(v.markets, v.assets[b])
  <1>2. x \in Int /\ y \in Int
    BY <1>1, WorldParts, ValuedInt DEF Pools, Portfolio, Stored
  <1>3. \A c \in Currencies : /\ NetBalance(w, b, c) \in Int /\ w.cash[c][b] \in Int
                              /\ NetBalance(w, b, c) = w.cash[c][b] + IF c = Local THEN x ELSE 0
    BY <1>1, NetFacts
  <1>4. \A c \in Currencies : /\ NetBalance(v, b, c) \in Int /\ v.cash[c][b] \in Int
                              /\ NetBalance(v, b, c) = v.cash[c][b] + IF c = Local THEN y ELSE 0
    BY <1>1, NetFacts
  <1>5. x <= y
    OBVIOUS
  <1> HIDE DEF x, y
  <1>6. \A c \in Currencies : NetBalance(w, b, c) <= NetBalance(v, b, c)
    BY <1>2, <1>3, <1>4, <1>5
  <1> QED
    BY <1>1, <1>3, <1>4, <1>6, FreeFacts

\* So has who gains, whatever has become of the pools.
LEMMA GainsFacts ==
  ASSUME IInv, HaircutWithinFace, NEW w \in Worlds, NEW v \in Worlds, NEW b \in Accounts,
         Gains(w, v, b), Tokenless(w.assets[b]), AllPriced(v.markets, v.assets[b])
  PROVE  /\ FreeCollateral(w, b) \in Int /\ FreeCollateral(v, b) \in Int
         /\ FreeCollateral(w, b) <= FreeCollateral(v, b)
  <1> DEFINE K == v.markets
             p == w.assets[b]
             q == v.assets[b]
  <1>1. blockTime \in Nat
    BY NowFacts
  <1>2. w.markets \in Pools /\ K \in Pools /\ p \in Seq(Stored) /\ q \in Seq(Stored)
    BY WorldParts DEF Pools, Portfolio, Stored
  <1>3. AllPriced(w.markets, p) /\ Valued(w.markets, p) = Valued(K, p)
    BY <1>2, TokenlessSame
  <1>4. Valued(K, p) <= Valued(K, q)
    <2>1. CASE q = p
      <3>1. Valued(K, p) \in Int
        BY <1>1, <1>2, ValuedInt
      <3> QED
        BY <2>1, <3>1
    <2>2. CASE \E x \in Stored : IsReceiver(x.assetType) /\ q \in UpsertAsset(p, x, FALSE)
      <3>1. PICK x \in Stored : IsReceiver(x.assetType) /\ q \in UpsertAsset(p, x, FALSE)
        BY <2>2
      <3> HIDE DEF K, p, q
      <3> QED
        BY <1>1, <1>2, <3>1, PostingRaises
    <2> QED
      BY <2>1, <2>2 DEF Gains
  <1>5. \A c \in Currencies : w.cash[c][b] <= v.cash[c][b]
    BY DEF Gains
  <1> QED
    BY <1>3, <1>4, <1>5, BetterFacts

\* An account that gains at the pools' expense only, and holds no tokens, is still collateralized.
LEMMA GainsSpares ==
  ASSUME IInv, HaircutWithinFace, NEW v \in Worlds, NEW b \in Accounts, Gains(World, v, b)
  PROVE  Spared(v, b)
  <1> SUFFICES ASSUME Tokenless(World.assets[b]), IsCollateralized(World, b), IsValued(v, b)
               PROVE  FreeCollateral(v, b) >= 0
    BY DEF Spared
  <1>1. AllPriced(v.markets, v.assets[b])
    BY PricedFacts
  <1>2. /\ FreeCollateral(World, b) \in Int /\ FreeCollateral(v, b) \in Int
        /\ FreeCollateral(World, b) <= FreeCollateral(v, b)
    BY <1>1, NowFacts, GainsFacts
  <1>3. FreeCollateral(World, b) >= 0
    BY DEF IsCollateralized
  <1> QED
    BY <1>2, <1>3

\* Settling an account leaves the others aside.
LEMMA SettledAside ==
  ASSUME IInv, NEW w, NEW B, Accounted(w, blockTime, B, Zero, Zero), NEW a \in Accounts,
         NEW s \in Settled(w, a)
  PROVE  s \in Worlds /\ w \in Worlds /\ \A b \in Accounts : b # a => Aside(w, s, b)
  <1>1. w \in Worlds /\ s \in Worlds /\ IsSettled(w, a, s)
    BY NowFacts, SettledStep DEF Accounted
  <1>2. ASSUME NEW b \in Accounts, b # a
        PROVE  Aside(w, s, b)
    <2>1. /\ s.assets[b] = w.assets[b] /\ s.cash[Local][b] = w.cash[Local][b]
          /\ \A c \in Currencies : c # Local => s.cash[c] = w.cash[c]
      BY <1>1, <1>2 DEF IsSettled
    <2>2. \A c \in Currencies : s.cash[c][b] = w.cash[c][b] /\ w.cash[c][b] \in Int
      BY <1>1, <2>1, OwingFacts
    <2> QED
      BY <2>1, <2>2 DEF Aside
  <1> QED
    BY <1>1, <1>2

\* Who is settled by hand has what it had, and the others are left aside.
LEMMA SettledHarmless ==
  ASSUME IInv, HaircutWithinFace, NEW a \in Accounts, NEW s \in Settled(World, a)
  PROVE  Harmless(s)
  <1>1. s \in Worlds /\ World \in Worlds /\ \A b \in Accounts : b # a => Aside(World, s, b)
    BY NowFacts, SettledAside
  <1>2. IsValued(World, a) => FreeCollateral(s, a) = FreeCollateral(World, a)
    BY NeutralFacts DEF SettlementNeutral
  <1>3. Spared(s, a)
    BY <1>2 DEF Spared, IsCollateralized
  <1>4. ASSUME NEW b \in Accounts, b # a
        PROVE  Spared(s, b)
    BY <1>1, <1>4, AsideChain, GainsSpares
  <1> QED
    BY <1>3, <1>4 DEF Harmless

\* A call that ends with the check of its account, and leaves the others no worse.
LEMMA CheckedHarmless ==
  ASSUME IInv, HaircutWithinFace, NEW w, NEW B, Accounted(w, blockTime, B, Zero, Zero), NEW a \in Accounts,
         \A b \in Accounts : b # a => Gains(World, w, b), NEW s \in Checked(w, a)
  PROVE  Harmless(s)
  <1>1. s \in Settled(w, a) /\ FreeCollateral(s, a) >= 0
    BY DEF Checked, IsCollateralized
  <1>2. s \in Worlds /\ w \in Worlds /\ \A b \in Accounts : b # a => Aside(w, s, b)
    BY <1>1, SettledAside
  <1>3. Spared(s, a)
    BY <1>1 DEF Spared
  <1>4. ASSUME NEW b \in Accounts, b # a
        PROVE  Spared(s, b)
    <2>1. Gains(World, s, b)
      BY <1>2, <1>4, NowFacts, AsideChain
    <2> QED
      BY <1>2, <2>1, GainsSpares
  <1> QED
    BY <1>3, <1>4 DEF Harmless

\* What is posted to the receiver of a pair or of a transfer is an entitlement.
LEMMA UpsertedGains ==
  ASSUME NEW w \in Worlds, NEW a \in Accounts, NoDuplicates(w.assets[a]), NEW x \in Stored, IsReceiver(x.assetType),
         NEW v \in Upserted(w, a, <<x>>)
  PROVE  Gains(w, v, a)
  <1> DEFINE p == w.assets[a]
  <1>1. p \in Seq(Stored) /\ x \in Posted
    BY WorldParts DEF Portfolio, Stored, Posted, Postings, Entries
  <1>2. PICK q \in UpsertAssets(p, <<x>>, FALSE) : v = WithAssets(w, a, q)
    BY DEF Upserted, WithAssets
  <1>3. v.assets = [w.assets EXCEPT ![a] = q] /\ v.cash = w.cash
    BY <1>2 DEF WithAssets, Worlds
  <1>4. v.assets[a] = q
    BY <1>3, WorldParts
  <1>5. q \in UpsertAsset(p, x, FALSE)
    <2> HIDE DEF p
    <2>1. UpsertAssets(p, <<x>>, FALSE) = UpsertAsset(p, x, FALSE)
      BY <1>1, UpsertOne DEF Stored, Posted, p
    <2> QED
      BY <1>2, <2>1
  <1>6. \A c \in Currencies : v.cash[c][a] = w.cash[c][a] /\ w.cash[c][a] \in Int
    BY <1>3, OwingFacts
  <1>7. \A c \in Currencies : w.cash[c][a] <= v.cash[c][a]
    BY <1>6
  <1>8. v.assets[a] \in UpsertAsset(w.assets[a], x, FALSE)
    BY <1>4, <1>5
  <1> QED
    BY <1>7, <1>8 DEF Gains

\* A posting leaves the other accounts aside.
LEMMA PostsAside ==
  ASSUME NEW w \in Worlds, NEW v, NEW a \in Accounts, NEW m, PostsTo(w, v, a, m)
  PROVE  \A b \in Accounts : b # a => Aside(w, v, b)
  <1>1. ASSUME NEW b \in Accounts, b # a
        PROVE  Aside(w, v, b)
    <2>1. v.assets[b] = w.assets[b] /\ \A c \in Currencies : v.cash[c][b] = w.cash[c][b] /\ w.cash[c][b] \in Int
      BY <1>1, OwingFacts DEF PostsTo
    <2> QED
      BY <2>1 DEF Aside
  <1> QED
    BY <1>1

\* Minting a pair sends the receiver an entitlement, and is checked for the payer.
LEMMA MintGains ==
  ASSUME IInv, NEW payer \in Accounts, NEW receiver \in Accounts, NEW m \in Maturities,
         NEW n \in Nat, NEW w, NEW B, Accounted(w, blockTime, B, Zero, Zero),
         NEW v \in MintsfCashPair(w, payer, receiver, m, n)
  PROVE  v \in Worlds /\ \A b \in Accounts : b # payer => Gains(w, v, b)
  <1> DEFINE x == Asset(CashGroup, m, CashPayer, n)
             y == Asset(CashGroup, m, CashReceiver, n)
             dT == Pending(x, TokenTypes)
             dF == Pending(x, CashTypes)
  <1>1. PICK u \in Upserted(w, payer, <<x>>) : v \in Upserted(u, receiver, <<y>>)
    BY DEF MintsfCashPair
  <1>2. x \in Posted /\ y \in Posted /\ x.maturity = m /\ y.maturity = m
    BY PostingFacts DEF AssetTypes
  <1>3. y \in Stored /\ IsReceiver(y.assetType)
    <2>1. CashReceiver \in AssetTypes \ {LiquidityPayer} /\ IsReceiver(CashReceiver)
      BY DEF AssetTypes, IsReceiver, CashReceiver, LiquidityPayer
    <2> QED
      BY <2>1 DEF Asset, Stored, Entries
  <1>4. Opposite(x, y)
    <2>1. MakeCounterparty(CashPayer) = CashReceiver /\ CashPayer \in AssetTypes
      BY DEF AssetTypes, MakeCounterparty, CashPayer, CashReceiver, LiquidityToken, LiquidityPayer
    <2> QED
      BY <2>1, OppositeFacts
  <1> HIDE DEF x, y
  <1>5. /\ dT \in Tables /\ dF \in Tables /\ Zero \in Tables
        /\ Without(Zero, x, TokenTypes, dT) /\ Without(Zero, x, CashTypes, dF)
        /\ Without(dT, y, TokenTypes, Zero) /\ Without(dF, y, CashTypes, Zero)
    BY <1>4, PendingFacts
  <1> HIDE DEF dT, dF
  <1>6. Accounted(u, blockTime, B, dT, dF) /\ PostsTo(w, u, payer, m)
    BY <1>1, <1>2, <1>5, UpsertedOne
  <1>7. Accounted(v, blockTime, B, Zero, Zero) /\ PostsTo(u, v, receiver, m)
    BY <1>1, <1>2, <1>5, <1>6, UpsertedOne
  <1>8. w \in Worlds /\ u \in Worlds /\ v \in Worlds /\ NoDuplicates(u.assets[receiver])
    BY <1>6, <1>7 DEF Accounted, Proper
  <1>9. Gains(u, v, receiver)
    BY <1>1, <1>3, <1>8, UpsertedGains
  <1>10. ASSUME NEW b \in Accounts, b # payer
         PROVE  Gains(w, v, b)
    <2>1. Aside(w, u, b)
      BY <1>6, <1>8, <1>10, PostsAside
    <2>2. Gains(u, v, b)
      BY <1>7, <1>8, <1>9, PostsAside, AsideChain
    <2> QED
      BY <1>8, <2>1, <2>2, AsideChain
  <1> QED
    BY <1>8, <1>10

\* So does a transfer, checked for the sender.
LEMMA TransferGains ==
  ASSUME IInv, NEW from \in Accounts, NEW to \in Accounts, NEW m \in Maturities, NEW n \in Nat,
         NEW type \in AssetTypes, IsReceiver(type), NEW w \in Worlds, NEW B, Accounted(w, blockTime, B, Zero, Zero),
         NEW y, y = Asset(CashGroup, m, type, n), NEW q,
         NEW u, u = WithAssets(w, from, q), NEW v \in Upserted(u, to, <<y>>), NEW E, Accounted(v, blockTime, E, Zero, Zero)
  PROVE  \A b \in Accounts : b # from => Gains(w, v, b)
  <1>1. u.assets = [w.assets EXCEPT ![from] = q] /\ u.cash = w.cash
    BY DEF WithAssets, Worlds
  <1>2. y \in Stored /\ y \in Posted /\ IsReceiver(y.assetType)
    <2>1. type # LiquidityPayer
      BY DEF IsReceiver, CashReceiver, LiquidityToken, LiquidityPayer
    <2> QED
      BY <2>1 DEF Asset, Posted, Postings, Stored, Entries
  <1>3. PICK r \in UpsertAssets(u.assets[to], <<y>>, FALSE) : v = WithAssets(u, to, r)
    BY DEF Upserted, WithAssets
  <1>4. v.assets = [u.assets EXCEPT ![to] = r] /\ v.cash = u.cash
    BY <1>3 DEF WithAssets, Worlds
  <1>5. \A c \in Currencies, b \in Accounts : w.cash[c][b] <= v.cash[c][b]
    BY <1>1, <1>4, OwingFacts
  <1>6. ASSUME NEW b \in Accounts, b # from
        PROVE  Gains(w, v, b)
    <2>1. u.assets[b] = w.assets[b]
      BY <1>1, <1>6, WorldParts
    <2>2. CASE b # to
      BY <1>1, <1>4, <1>5, <2>1, <2>2, WorldParts DEF Gains
    <2>3. CASE b = to
      <3> DEFINE p == w.assets[b]
      <3>1. v.assets[b] = r /\ r \in UpsertAssets(p, <<y>>, FALSE)
        BY <1>1, <1>3, <1>4, <2>1, <2>3, WorldParts
      <3>2. p \in Seq(Stored) /\ NoDuplicates(p)
        BY WorldParts DEF Accounted, Proper, Portfolio, Stored
      <3> HIDE DEF p
      <3>3. UpsertAssets(p, <<y>>, FALSE) = UpsertAsset(p, y, FALSE)
        BY <1>2, <3>2, UpsertOne DEF Stored, Posted
      <3> QED
        BY <1>2, <1>5, <3>1, <3>3 DEF Gains, p
    <2> QED
      BY <2>2, <2>3
  <1> QED
    BY <1>6

(****************************************************************************)
(* Batches: only the account that a batch is for is changed by it.          *)
(****************************************************************************)

\* The states of a batch for a that leave the others aside.
Private(u, a) ==
  {s \in Reached(u) : \A b \in Accounts : b # a => Aside(u, s.world, b)}

\* The states that leave all aside, pools included.
OnlyPaid(u) == {s \in Reached(u) : s.world.markets = u.markets /\ \A b \in Accounts : Aside(u, s.world, b)}

\* What an account receives, or pays out, is its own.
LEMMA ReceivedAside ==
  ASSUME IInv, NEW u \in Worlds, NEW s \in Reached(u), NEW a \in Accounts, NEW c \in Currencies, NEW n \in Int,
         NEW r, r = Received(s, a, c, n), r \in Reached(u)
  PROVE  /\ r.world.markets = s.world.markets
         /\ \A b \in Accounts : b # a \/ n >= 0 => Aside(s.world, r.world, b)
  <1> DEFINE w == s.world
             book == Credit(w.cash[c], a, n)
  <1>1. s \in BatchStates /\ w \in Worlds /\ w.cash[c] \in Book /\ a \in Holders
    BY ReachedFacts, WorldParts, ConstantFacts
  <1>2. r.world = WithBook(w, c, book)
    BY <1>1 DEF Received, WithBook, BatchStates, Worlds
  <1>3. Credited(w.cash[c], a, n, book)
    <2> HIDE DEF w
    <2> QED
      BY <1>1, CreditFacts
  <1> HIDE DEF book, w
  <1>4. EditsBook(w, r.world, c, book)
    BY <1>1, <1>2, <1>3, EditFacts DEF Credited
  <1>5. r.world.assets = w.assets /\ r.world.markets = w.markets
    BY <1>4 DEF EditsBook
  <1>6. ASSUME NEW b \in Accounts, b # a \/ n >= 0, NEW d \in Currencies
        PROVE  w.cash[d][b] <= r.world.cash[d][b]
    <2>1. w.cash[d][b] \in Int
      BY <1>1, OwingFacts
    <2>2. CASE d # c
      BY <1>4, <2>1, <2>2 DEF EditsBook
    <2>3. CASE d = c
      <3>1. r.world.cash[d] = book /\ b \in Holders
        BY <1>4, <2>3, ConstantFacts DEF EditsBook
      <3>2. book[a] = w.cash[c][a] + n /\ (b # a => book[b] = w.cash[c][b])
        BY <1>3, <3>1 DEF Credited
      <3> QED
        BY <1>6, <2>1, <2>3, <3>1, <3>2
    <2> QED
      BY <2>2, <2>3
  <1> QED
    BY <1>5, <1>6 DEF Aside, w

\* Deposits take nothing from anyone.
LEMMA DepositsPaid ==
  ASSUME IInv, NEW u \in Worlds, NEW s \in OnlyPaid(u), NEW a \in Accounts, NEW value \in Nat, NEW ds \in Seq(Orders)
  PROVE  DepositsOnBehalf(s, a, value, ds) \in OnlyPaid(u)
  <1>1. PICK C : IsDepositChain(C, s, a, value, ds) /\ DepositsOnBehalf(s, a, value, ds) = C[DOMAIN ds]
    BY DepositChain DEF OnlyPaid
  <1>2. Len(ds) \in Nat /\ DOMAIN ds = 1 .. Len(ds) /\ \A n \in 1 .. Len(ds) : ds[n] \in Orders
    OBVIOUS
  <1>3. ASSUME NEW t \in OnlyPaid(u), NEW c \in Currencies, NEW n \in Nat
        PROVE  Received(t, a, c, n) \in OnlyPaid(u)
    <2> DEFINE r == Received(t, a, c, n)
    <2>1. t \in Reached(u) /\ t.world.markets = u.markets /\ \A b \in Accounts : Aside(u, t.world, b)
      BY DEF OnlyPaid
    <2>2. r \in Reached(u) /\ n \in Int /\ n >= 0
      BY <2>1, ReceivedStep
    <2> HIDE DEF r
    <2>3. r.world.markets = t.world.markets /\ \A b \in Accounts : Aside(t.world, r.world, b)
      BY <2>1, <2>2, ReceivedAside DEF r
    <2>4. t.world \in Worlds /\ r.world \in Worlds
      BY <2>1, <2>2, ReachedFacts
    <2>5. \A b \in Accounts : Aside(u, r.world, b)
      BY <2>1, <2>3, <2>4, AsideChain
    <2> QED
      BY <2>1, <2>2, <2>3, <2>5 DEF OnlyPaid, r
  <1>4. C[{}] \in OnlyPaid(u)
    <2>1. C[{}] = Received(s, a, Ether, value)
      BY <1>1 DEF IsDepositChain
    <2> QED
      BY <1>3, <2>1, ConstantFacts
  <1>5. ASSUME NEW n \in 1 .. Len(ds), C[(1 .. n) \ {n}] \in OnlyPaid(u)
        PROVE  C[1 .. n] \in OnlyPaid(u)
    <2>1. 1 .. n \in SUBSET DOMAIN ds /\ 1 .. n # {} /\ Max(1 .. n) = n
      BY <1>2, ChainPrefix
    <2>2. C[1 .. n] = Deposited(C[(1 .. n) \ {n}], a, ds[n])
      BY <1>1, <2>1 DEF IsDepositChain
    <2>3. ds[n].currency \in Currencies /\ ds[n].amount \in Nat
      BY <1>2 DEF Orders
    <2> QED
      BY <1>3, <1>5, <2>2, <2>3 DEF Deposited
  <1>6. C[1 .. Len(ds)] \in OnlyPaid(u)
    BY <1>2, <1>4, <1>5, ChainStays
  <1> QED
    BY <1>1, <1>2, <1>6

\* A trade is a call of the market for its account.
LEMMA PlacedPrivate ==
  ASSUME IInv, NEW u \in Worlds, NEW a \in Accounts, NEW s \in Private(u, a), NEW type \in TradeTypes,
         NEW m \in Maturities, NEW x \in Nat, NEW y \in Nat
  PROVE  PlaceTrade(s, a, type, m, x, y) \subseteq Private(u, a)
  <1> SUFFICES ASSUME NEW t \in PlaceTrade(s, a, type, m, x, y)
               PROVE  t \in Private(u, a)
    OBVIOUS
  <1> DEFINE w == s.world
             B == s.held
  <1>1. s \in Reached(u) /\ s \in BatchStates /\ w \in Worlds /\ Accounted(w, blockTime, B, Zero, Zero)
    BY ReachedFacts DEF Private
  <1>2. t \in Reached(u)
    BY <1>1, PlaceTradeStep
  <1> HIDE DEF w, B
  <1>3. ASSUME NEW worlds, NEW r, t \in Placed(s, worlds, r), \A v \in worlds : Leaves(w, v, B, a, m)
        PROVE  Called(w, t.world, a, m)
    <2>1. PICK v \in worlds : t = [s EXCEPT !.world = v, !.records = Append(@, r)]
      BY <1>3 DEF Placed
    <2>2. t.world = v
      BY <1>1, <2>1 DEF BatchStates
    <2> QED
      BY <1>3, <2>2 DEF Leaves
  <1>4. Called(w, t.world, a, m)
    <2>1. CASE type = "TakeCurrentCash"
      <3>1. \A v \in TakesCurrentCash(w, a, m, x, y) : Leaves(w, v, B, a, m)
        BY <1>1, NowFacts, BorrowStep
      <3> QED
        BY <1>3, <2>1, <3>1 DEF PlaceTrade, w
    <2>2. CASE type = "TakefCash"
      <3>1. \A v \in TakesfCash(w, a, m, x, y) : Leaves(w, v, B, a, m)
        BY <1>1, NowFacts, LendStep
      <3> QED
        BY <1>3, <2>2, <3>1 DEF PlaceTrade, w
    <2>3. CASE type = "AddLiquidity"
      <3> DEFINE worlds == AddsFirstLiquidity(w, a, m, x, y) \cup AddsLiquidity(w, a, m, x, y)
      <3>1. \A v \in worlds : Leaves(w, v, B, a, m)
        BY <1>1, NowFacts, OpenStep, JoinStep
      <3>2. t \in Placed(s, worlds, Record(type, x))
        BY <2>3 DEF PlaceTrade, w
      <3> HIDE DEF worlds
      <3> QED
        BY <1>3, <3>1, <3>2
    <2>4. CASE type = "RemoveLiquidity" /\ blockTime < m /\ CanRedeem(PoolIn(w, m), x)
      <3>1. \A v \in RemovesLiquidity(w, a, m, x) : Leaves(w, v, B, a, m)
        BY <1>1, NowFacts, RemoveStep
      <3> QED
        BY <1>3, <2>4, <3>1 DEF PlaceTrade, w
    <2>5. CASE type = "RemoveLiquidity" /\ ~(blockTime < m /\ CanRedeem(PoolIn(w, m), x))
      BY <2>5 DEF PlaceTrade, w
    <2> QED
      BY <2>1, <2>2, <2>3, <2>4, <2>5 DEF TradeTypes
  <1>5. t.world \in Worlds
    BY <1>2, ReachedFacts
  <1>6. ASSUME NEW b \in Accounts, b # a
        PROVE  Aside(u, t.world, b)
    <2>1. t.world.assets[b] = w.assets[b] /\ \A c \in Currencies : t.world.cash[c][b] = w.cash[c][b]
      BY <1>4, <1>6 DEF Called
    <2>2. Aside(w, t.world, b)
      BY <1>1, <2>1, OwingFacts DEF Aside
    <2>3. Aside(u, w, b)
      BY <1>6 DEF Private, w
    <2> QED
      BY <1>1, <1>5, <2>2, <2>3, AsideChain
  <1> QED
    BY <1>2, <1>6 DEF Private

\* So is a list of trades.
LEMMA TradesPrivate ==
  ASSUME IInv, NEW u \in Worlds, NEW a \in Accounts, NEW s \in Private(u, a), NEW types \in Seq(TradeTypes)
  PROVE  BatchTrade(s, a, types) \subseteq Private(u, a)
  <1> DEFINE V == SUBSET Private(u, a)
  <1>1. PICK C : IsTradeChain(C, s, a, types) /\ BatchTrade(s, a, types) = C[DOMAIN types]
    BY TradeChain DEF Private
  <1>2. Len(types) \in Nat /\ DOMAIN types = 1 .. Len(types) /\ \A n \in 1 .. Len(types) : types[n] \in TradeTypes
    OBVIOUS
  <1>3. C[{}] \in V
    BY <1>1 DEF IsTradeChain
  <1>4. ASSUME NEW n \in 1 .. Len(types), C[(1 .. n) \ {n}] \in V
        PROVE  C[1 .. n] \in V
    <2>1. 1 .. n \in SUBSET DOMAIN types /\ 1 .. n # {} /\ Max(1 .. n) = n
      BY <1>2, ChainPrefix
    <2>2. C[1 .. n] = PlacedAll(C[(1 .. n) \ {n}], a, types[n])
      BY <1>1, <2>1 DEF IsTradeChain
    <2>3. \A t \in C[(1 .. n) \ {n}], m \in Maturities, x \in Amounts, y \in Amounts :
            PlaceTrade(t, a, types[n], m, x, y) \subseteq Private(u, a)
      BY <1>2, <1>4, PlacedPrivate, AmountsAssumption
    <2>4. PlacedAll(C[(1 .. n) \ {n}], a, types[n]) \subseteq Private(u, a)
      BY <2>3, PlacedAllIn
    <2> QED
      BY <2>2, <2>4
  <1> HIDE DEF V
  <1>5. C[1 .. Len(types)] \in V
    BY <1>2, <1>3, <1>4, ChainStays
  <1> QED
    BY <1>1, <1>2, <1>5 DEF V

\* A list without trades leaves the state as it is.
LEMMA NoTrades ==
  ASSUME IInv, NEW u \in Worlds, NEW s \in Reached(u), NEW a \in Accounts
  PROVE  BatchTrade(s, a, << >>) = {s}
  <1> DEFINE types == << >>
  <1>1. types \in Seq(TradeTypes) /\ DOMAIN types = {}
    OBVIOUS
  <1> HIDE DEF types
  <1>2. PICK C : IsTradeChain(C, s, a, types) /\ BatchTrade(s, a, types) = C[DOMAIN types]
    BY <1>1, TradeChain
  <1>3. C[{}] = {s}
    BY <1>2 DEF IsTradeChain
  <1> QED
    BY <1>1, <1>2, <1>3 DEF types

\* So are the withdrawals.
LEMMA WithdrawalsPrivate ==
  ASSUME IInv, NEW u \in Worlds, NEW a \in Accounts, NEW s \in Private(u, a), NEW ds \in Seq(Orders), NEW ws \in Seq(Orders)
  PROVE  WithdrawsOnBehalf(s, a, ds, ws) \in Private(u, a)
  <1>1. PICK C : IsWithdrawChain(C, s, a, ds, ws) /\ WithdrawsOnBehalf(s, a, ds, ws) = C[DOMAIN ws]
    BY WithdrawChain DEF Private
  <1>2. Len(ws) \in Nat /\ DOMAIN ws = 1 .. Len(ws) /\ \A n \in 1 .. Len(ws) : ws[n] \in Orders
    OBVIOUS
  <1>3. C[{}] \in Private(u, a)
    BY <1>1 DEF IsWithdrawChain
  <1>4. ASSUME NEW n \in 1 .. Len(ws), C[(1 .. n) \ {n}] \in Private(u, a)
        PROVE  C[1 .. n] \in Private(u, a)
    <2> DEFINE t == C[(1 .. n) \ {n}]
               r == PaidOut(t, a, ws[n], s.records, ds)
               c == ws[n].currency
               paid == -Withdrawn(t.world.cash[c], a, AmountOf(ws[n], s.records, ds))
    <2>1. 1 .. n \in SUBSET DOMAIN ws /\ 1 .. n # {} /\ Max(1 .. n) = n
      BY <1>2, ChainPrefix
    <2>2. C[1 .. n] = r
      BY <1>1, <2>1 DEF IsWithdrawChain
    <2>3. t \in Reached(u) /\ \A b \in Accounts : b # a => Aside(u, t.world, b)
      BY <1>4 DEF Private
    <2>4. s.records \in Seq(Records) /\ ws[n] \in Orders /\ c \in Currencies
      BY <1>2, ReachedFacts DEF Private, Orders
    <2>5. r \in Reached(u)
      <3> HIDE DEF t
      <3> QED
        BY <2>3, <2>4, PaidOutStep
    <2>6. r = Received(t, a, c, paid)
      BY DEF PaidOut
    <2>7. paid \in Int
      <3>1. t.world.cash[c][a] \in Int
        BY <2>3, <2>4, ReachedFacts
      <3>2. AmountOf(ws[n], s.records, ds) \in Nat
        <4>1. WithdrawAmount(c, s.records, ds) \in Nat
          BY <2>4, ResidualFacts
        <4> QED
          BY <2>4, <4>1 DEF AmountOf, Orders
      <3> QED
        BY <3>1, <3>2 DEF Withdrawn
    <2> HIDE DEF t, r, c, paid
    <2>8. \A b \in Accounts : b # a => Aside(t.world, r.world, b)
      BY <2>3, <2>4, <2>5, <2>6, <2>7, ReceivedAside
    <2>9. t.world \in Worlds /\ r.world \in Worlds
      BY <2>3, <2>5, ReachedFacts
    <2>10. \A b \in Accounts : b # a => Aside(u, r.world, b)
      BY <2>3, <2>8, <2>9, AsideChain
    <2> QED
      BY <2>2, <2>5, <2>10 DEF Private
  <1>5. C[1 .. Len(ws)] \in Private(u, a)
    BY <1>2, <1>3, <1>4, ChainStays
  <1> QED
    BY <1>1, <1>2, <1>5

\* A world that is committed and endangers nobody.
LEMMA HarmlessCommit ==
  ASSUME IInv, NEW v \in Worlds, Harmless(v), NEW held, CommitTokens(v, held)
  PROVE  PricesStep
  <1>1. World2 = v
    BY DEF CommitTokens, World2, Worlds
  <1>2. ASSUME NEW a \in Accounts, ~HoldsTokens(a), IsCollateralized(World, a), IsValued(World2, a)
        PROVE  FreeCollateral(World2, a) >= 0
    <2>1. Tokenless(World.assets[a])
      BY <1>2 DEF HoldsTokens, Tokenless, World
    <2> QED
      BY <1>1, <1>2, <2>1 DEF Harmless, Spared
  <1> QED
    BY <1>2 DEF PricesStep

\* Where nothing changes nobody is endangered.
LEMMA SameWorld ==
  ASSUME World2 = World
  PROVE  PricesStep
  BY DEF PricesStep, IsCollateralized

\* Settlement by anyone, minting a pair, and transfers.
LEMMA PortfoliosHarmless ==
  ASSUME IInv, HaircutWithinFace, PortfoliosCall
  PROVE  PricesStep
  <1>1. World \in Worlds /\ Accounted(World, blockTime, custody, Zero, Zero)
    BY NowFacts
  <1>2. ASSUME NEW a \in Accounts, SettleMaturedAssets(a)
        PROVE  PricesStep
    <2>1. PICK s \in Settled(World, a) : Commit(s, Local, 0)
      BY <1>2 DEF SettleMaturedAssets
    <2>2. s \in Worlds /\ Harmless(s)
      BY <1>1, SettledAside, SettledHarmless
    <2> QED
      BY <2>1, <2>2, HarmlessCommit DEF Commit
  <1>3. ASSUME NEW a \in Accounts, NEW w, Accounted(w, blockTime, custody, Zero, Zero),
               \A b \in Accounts : b # a => Gains(World, w, b), NEW s \in Checked(w, a), Commit(s, Local, 0)
        PROVE  PricesStep
    <2>1. s \in Worlds
      BY <1>3, SettledAside DEF Checked
    <2>2. Harmless(s)
      BY <1>3, CheckedHarmless
    <2> QED
      BY <1>3, <2>1, <2>2, HarmlessCommit DEF Commit
  <1>4. ASSUME NEW x \in Accounts, NEW y \in Accounts, NEW m \in Maturities, NEW n \in Amounts, MintfCashPair(x, y, m, n)
        PROVE  PricesStep
    <2>1. PICK w \in MintsfCashPair(World, x, y, m, n) : \E s \in Checked(w, x) : Commit(s, Local, 0)
      BY <1>4 DEF MintfCashPair, Completes
    <2>2. n \in Nat
      BY AmountsAssumption
    <2>3. Accounted(w, blockTime, custody, Zero, Zero) /\ \A b \in Accounts : b # x => Gains(World, w, b)
      BY <1>1, <2>2, MintStep, MintGains
    <2> QED
      BY <1>3, <2>1, <2>3
  <1>5. ASSUME NEW from \in Accounts, NEW to \in Accounts, NEW m \in Maturities, NEW n \in Amounts,
               NEW type \in AssetTypes, TransferAccountAsset(from, to, Asset(CashGroup, m, type, n))
        PROVE  PricesStep
    <2> DEFINE y == Asset(CashGroup, m, type, n)
               p == World.assets[from]
               i == SearchAsset(p, y, FALSE)
               q == ReduceAsset(p, i, n)
               u == WithAssets(World, from, q)
    <2>1. y.notional = n /\ y.maturity = m /\ y.assetType = type
      BY DEF Asset
    <2>2. World.assets = accountAssets
      BY DEF World
    <2> HIDE DEF y
    <2>3. /\ blockTime < m /\ i # NotFound /\ n <= p[i].notional /\ IsReceiver(type)
          /\ \E w \in Upserted(u, to, <<y>>) : \E s \in Checked(w, from) : Commit(s, Local, 0)
      BY <1>5, <2>1, <2>2 DEF TransferAccountAsset, WithAssets, y
    <2> HIDE DEF i, u, q
    <2>4. PICK w \in Upserted(u, to, <<y>>) : \E s \in Checked(w, from) : Commit(s, Local, 0)
      BY <2>3
    <2>5. n \in Nat
      BY AmountsAssumption
    <2>6. Accounted(w, blockTime, custody, Zero, Zero)
      BY <1>1, <2>3, <2>5, TransferStep DEF i, u, q, y
    <2>7. u = WithAssets(World, from, q) /\ y = Asset(CashGroup, m, type, n)
      BY DEF u, y
    <2>8. \A b \in Accounts : b # from => Gains(World, w, b)
      BY <1>1, <2>3, <2>5, <2>6, <2>7, TransferGains
    <2> QED
      BY <1>3, <2>4, <2>6, <2>8
  <1> QED
    BY <1>2, <1>4, <1>5 DEF PortfoliosCall

\* Deposits alone pay their account, which settling has left with what it had.
LEMMA DepositedSpares ==
  ASSUME IInv, NEW a \in Accounts, NEW w \in Settled(World, a), w \in Worlds, NEW s \in OnlyPaid(w)
  PROVE  Spared(s.world, a)
  <1> DEFINE v == s.world
  <1> SUFFICES ASSUME IsCollateralized(World, a), IsValued(v, a)
               PROVE  FreeCollateral(v, a) >= 0
    BY DEF Spared
  <1>1. v \in Worlds /\ v.markets = w.markets /\ Aside(w, v, a)
    BY ReachedFacts DEF OnlyPaid
  <1>2. FreeCollateral(w, a) = FreeCollateral(World, a) /\ FreeCollateral(World, a) >= 0
    BY NeutralFacts DEF SettlementNeutral, IsCollateralized
  <1> HIDE DEF v
  <1>3. AllPriced(v.markets, v.assets[a])
    BY PricedFacts
  <1>4. v.assets[a] = w.assets[a] /\ \A c \in Currencies : w.cash[c][a] <= v.cash[c][a]
    BY <1>1 DEF Aside
  <1>5. Valued(w.markets, w.assets[a]) \in Int
    BY NowFacts, WorldParts, ValuedInt DEF Pools, Portfolio, Stored
  <1>6. /\ AllPriced(w.markets, w.assets[a])
        /\ Valued(w.markets, w.assets[a]) <= Valued(v.markets, v.assets[a])
    BY <1>1, <1>3, <1>4, <1>5
  <1>7. FreeCollateral(w, a) \in Int /\ FreeCollateral(v, a) \in Int /\ FreeCollateral(w, a) <= FreeCollateral(v, a)
    BY <1>1, <1>3, <1>4, <1>6, BetterFacts
  <1> QED
    BY <1>2, <1>7

\* A batch settles its account first and checks it at the end, unless all it does is deposit.
LEMMA BatchHarmless ==
  ASSUME IInv, HaircutWithinFace, BatchCall
  PROVE  PricesStep
  <1>1. PICK a \in Accounts, value \in EtherSent, ds \in DepositLists, types \in TradeLists :
          \E s \in AfterTrades(a, value, ds, types) :
            \/ BatchOperation(s, a, types)
            \/ \E ws \in WithdrawLists : BatchOperationWithdraw(s, a, ds, ws)
    BY DEF BatchCall
  <1>2. PICK s \in AfterTrades(a, value, ds, types) :
          \/ BatchOperation(s, a, types)
          \/ \E ws \in WithdrawLists : BatchOperationWithdraw(s, a, ds, ws)
    BY <1>1
  <1>3. value \in Nat /\ ds \in Seq(Orders) /\ types \in Seq(TradeTypes)
    BY ListsAssumption
  <1>4. PICK w \in Settled(World, a) :
          s \in BatchTrade(DepositsOnBehalf([world |-> w, held |-> custody, records |-> << >>],
                                            a, value, ds), a, types)
    BY DEF AfterTrades, Begin
  <1> DEFINE t == [world |-> w, held |-> custody, records |-> << >>]
             d == DepositsOnBehalf(t, a, value, ds)
  <1>5. /\ w \in Worlds /\ World \in Worlds /\ Accounted(w, blockTime, custody, Zero, Zero)
        /\ \A b \in Accounts : b # a => Aside(World, w, b)
    <2>1. Sound(w, custody)
      BY NowFacts, SettledSound
    <2> QED
      BY <2>1, NowFacts, SettledAside DEF Sound
  <1>6. t \in OnlyPaid(w)
    <2>1. t \in Reached(w)
      BY <1>5, BeginStep
    <2> QED
      BY <1>5, <2>1, AsideChain DEF OnlyPaid
  <1> HIDE DEF t
  <1>7. d \in OnlyPaid(w)
    BY <1>3, <1>5, <1>6, DepositsPaid
  <1>8. s \in BatchTrade(d, a, types)
    BY <1>4 DEF t
  <1> HIDE DEF d
  <1>9. s \in Private(w, a)
    <2>1. d \in Private(w, a)
      BY <1>7 DEF OnlyPaid, Private
    <2> QED
      BY <1>3, <1>5, <1>8, <2>1, TradesPrivate
  <1>10. ASSUME NEW r \in Private(w, a), Spared(r.world, a)
         PROVE  r.world \in Worlds /\ Harmless(r.world)
    <2>1. r.world \in Worlds
      BY <1>5, ReachedFacts DEF Private
    <2>2. ASSUME NEW b \in Accounts, b # a
          PROVE  Spared(r.world, b)
      <3>1. Aside(World, w, b) /\ Aside(w, r.world, b)
        BY <1>5, <2>2 DEF Private
      <3>2. Gains(World, r.world, b)
        BY <1>5, <2>1, <3>1, AsideChain
      <3> QED
        BY <2>1, <3>2, GainsSpares
    <2> QED
      BY <1>10, <2>1, <2>2 DEF Harmless
  <1>11. CASE BatchOperation(s, a, types)
    <2>1. Spared(s.world, a)
      <3>1. CASE types # << >>
        BY <1>11, <3>1 DEF BatchOperation, Spared, IsCollateralized
      <3>2. CASE types = << >>
        <4>1. s = d
          BY <1>5, <1>7, <1>8, <3>2, NoTrades DEF OnlyPaid
        <4> QED
          BY <1>5, <1>7, <4>1, DepositedSpares
      <3> QED
        BY <3>1, <3>2
    <2> QED
      BY <1>9, <1>10, <1>11, <2>1, HarmlessCommit DEF BatchOperation
  <1>12. CASE \E ws \in WithdrawLists : BatchOperationWithdraw(s, a, ds, ws)
    <2>1. PICK ws \in WithdrawLists : BatchOperationWithdraw(s, a, ds, ws)
      BY <1>12
    <2> DEFINE r == WithdrawsOnBehalf(s, a, ds, ws)
    <2>2. CommitTokens(r.world, r.held) /\ IsCollateralized(r.world, a)
      BY <2>1 DEF BatchOperationWithdraw
    <2>3. r \in Private(w, a)
      BY <1>3, <1>5, <1>9, WithdrawalsPrivate, ListsAssumption
    <2> HIDE DEF r
    <2>4. Spared(r.world, a)
      BY <2>2 DEF Spared, IsCollateralized
    <2> QED
      BY <1>10, <2>2, <2>3, <2>4, HarmlessCommit
  <1> QED
    BY <1>2, <1>11, <1>12

\* A block trade checks its payer and sends its receiver an entitlement.
LEMMA BlockTradeHarmless ==
  ASSUME IInv, HaircutWithinFace, BlockTrade
  PROVE  PricesStep
  <1>1. PICK payer \in Accounts, receiver \in Accounts, ds \in DepositLists, m \in Maturities,
             n \in Amounts : SafeTransferFrom(payer, receiver, ds, m, n)
    BY DEF BlockTrade
  <1> DEFINE start == [world |-> World, held |-> custody, records |-> << >>]
             s == DepositsOnBehalf(start, payer, 0, ds)
  <1>2. PICK w \in MintsfCashPair(s.world, payer, receiver, m, n) :
          \E x \in Checked(w, payer) : CommitTokens(x, s.held)
    BY <1>1 DEF SafeTransferFrom
  <1>3. PICK x \in Checked(w, payer) : CommitTokens(x, s.held)
    BY <1>2
  <1>4. World \in Worlds /\ n \in Nat
    BY NowFacts, AmountsAssumption
  <1>5. start \in OnlyPaid(World)
    <2>1. start \in Reached(World)
      BY NowFacts, BeginStep
    <2> QED
      BY <1>4, <2>1, AsideChain DEF OnlyPaid
  <1> HIDE DEF start
  <1>6. s \in OnlyPaid(World)
    BY <1>4, <1>5, DepositsPaid, ListsAssumption
  <1> HIDE DEF s
  <1>7. /\ s.world \in Worlds /\ Accounted(s.world, blockTime, s.held, Zero, Zero)
        /\ \A b \in Accounts : Aside(World, s.world, b)
    BY <1>4, <1>6, ReachedFacts DEF OnlyPaid
  <1>8. /\ Accounted(w, blockTime, s.held, Zero, Zero) /\ w \in Worlds
        /\ \A b \in Accounts : b # payer => Gains(s.world, w, b)
    BY <1>4, <1>7, MintStep, MintGains
  <1>9. \A b \in Accounts : b # payer => Gains(World, w, b)
    BY <1>4, <1>7, <1>8, AsideChain
  <1>10. Harmless(x)
    BY <1>8, <1>9, CheckedHarmless
  <1>11. x \in Worlds
    BY <1>8, SettledAside DEF Checked
  <1> QED
    BY <1>3, <1>10, <1>11, HarmlessCommit

\* Time and oracles are what the property excepts.
LEMMA PricesNextStep ==
  ASSUME IInv, HaircutWithinFace, [BatchNext]_vars
  PROVE  PricesStep
  <1>1. CASE Tick
    <2>1. blockTime \in Nat /\ blockTime' = blockTime + 1
      BY <1>1, NowFacts DEF Tick
    <2>2. blockTime' # blockTime
      BY <2>1
    <2> QED
      BY <2>2 DEF PricesStep
  <1>2. CASE RateMoves \/ UNCHANGED vars
    <2>1. World2 = World
      BY <1>2 DEF RateMoves, vars, World2, World
    <2> QED
      BY <2>1, SameWorld
  <1>3. CASE PortfoliosCall
    BY <1>3, PortfoliosHarmless
  <1>4. CASE BatchCall
    BY <1>4, BatchHarmless
  <1>5. CASE BlockTrade
    BY <1>5, BlockTradeHarmless
  <1> QED
    BY <1>1, <1>2, <1>3, <1>4, <1>5 DEF BatchNext

\* No transaction endangers an account that was collateralized before it and provides no
\* liquidity: whoever it is not checked for was settled, paid, sent an entitlement, or left aside.
THEOREM OnlyPricesEndangerAccounts ==
  ASSUME HaircutWithinFace
  PROVE  BatchSpec => OnlyPricesEndanger
  <1>1. IInv /\ [BatchNext]_vars => [PricesStep]_vars
    BY PricesNextStep
  <1> QED
    BY <1>1, BatchInvariance, PTL DEF BatchSpec, OnlyPricesEndanger
=============================================================================
