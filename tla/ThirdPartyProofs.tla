--------------------------- MODULE ThirdPartyProofs ---------------------------
(****************************************************************************)
(* Theorems about the calls of third parties, for any portfolio, balances,  *)
(* pools, prices and rates: what they move, they move from one place to     *)
(* another.                                                                 *)
(*                                                                          *)
(* The invariant is that of the types.  A call is followed through its      *)
(* parts, each of which moves cash, fCash and tokens by amounts that are    *)
(* computed apart: a pool's redemption, the loop over the tokens, the loop  *)
(* over the receivers, the purchase and the payment at the end.  Each loop  *)
(* has an invariant of its own, kept along the chain of its passes.         *)
(****************************************************************************)
EXTENDS ThirdParty, OperatorProofs, TLAPS

(****************************************************************************)
(* Worlds.                                                                  *)
(****************************************************************************)
Stored    == Entries(Groups, Maturities)
Posted    == Postings(Groups, Maturities)
Portfolio == {p \in Seq(Stored) : NoDuplicates(p)}
Pool      == {mk \in Market : Consistent(mk)}
Holders   == Accounts \cup MarketAccounts \cup {Others}
Book      == [Holders -> Int]

Worlds ==
  [assets : [Accounts -> Portfolio], markets : [DOMAIN Pools -> Pool],
   cash : [Currencies -> Book], custody : [Currencies -> Int]]

CashTypes  == {CashPayer, CashReceiver}
TokenTypes == {LiquidityToken, LiquidityPayer}

\* The accounts, the holders and the groups are finitely many, and each group's currency is listed.
LEMMA ConstantFacts ==
  /\ IsFiniteSet(Accounts) /\ IsFiniteSet(Holders) /\ IsFiniteSet(Groups)
  /\ Payer \in Accounts /\ Liquidator \in Accounts /\ Accounts \subseteq Holders
  /\ \A g \in Groups : /\ GroupCurrency[g] \in Currencies /\ MarketOf[g] \in Holders
                       /\ MarketOf[g] \notin Accounts
  /\ CashTypes \in Sides /\ TokenTypes \in Sides
  <1>1. IsFiniteSet(Accounts)
    <2>1. IsFiniteSet({Payer})
      BY FS_Singleton
    <2>2. Accounts = {Payer} \cup {Liquidator}
      BY DEF Accounts
    <2> QED
      BY <2>1, <2>2, FS_AddElement
  <1>2. IsFiniteSet(Groups)
    BY GroupsAssumption DEF Groups
  <1>3. IsFiniteSet(MarketAccounts)
    <2>1. DOMAIN MarketOf = Groups
      BY GroupsAssumption DEF Groups
    <2>2. \A m \in MarketAccounts : \E g \in Groups : MarketOf[g] = m
      BY <2>1 DEF MarketAccounts
    <2> DEFINE f == [g \in Groups |-> MarketOf[g]]
    <2>3. f \in Surjection(Groups, MarketAccounts)
      BY <2>1, <2>2 DEF Surjection, MarketAccounts
    <2> QED
      BY <1>2, <2>3, FS_Surjection
  <1>4. IsFiniteSet(Holders)
    <2>1. IsFiniteSet(Accounts \cup MarketAccounts)
      BY <1>1, <1>3, FS_Union
    <2> QED
      BY <2>1, FS_AddElement DEF Holders
  <1>5. ASSUME NEW g \in Groups
        PROVE  /\ GroupCurrency[g] \in Currencies /\ MarketOf[g] \in Holders
               /\ MarketOf[g] \notin Accounts
    <2>1. MarketOf[g] \in MarketAccounts
      BY GroupsAssumption DEF Groups, MarketAccounts
    <2> QED
      BY <2>1, PartiesAssumption, CurrenciesAssumption DEF Holders
  <1> QED
    BY <1>1, <1>2, <1>4, <1>5 DEF Holders, Accounts, CashTypes, TokenTypes, Sides

\* The parts of a world.
LEMMA WorldParts ==
  ASSUME NEW w \in Worlds
  PROVE  /\ w.assets \in [Accounts -> Portfolio] /\ w.markets \in [DOMAIN Pools -> Pool]
         /\ w.cash \in [Currencies -> Book] /\ w.custody \in [Currencies -> Int]
         /\ \A a \in Accounts : w.assets[a] \in Portfolio
         /\ \A k \in DOMAIN Pools : w.markets[k] \in Pool
         /\ \A c \in Currencies : w.cash[c] \in Book /\ w.custody[c] \in Int
         /\ \A c \in Currencies : \A h \in Holders : w.cash[c][h] \in Int
  <1>1. /\ w.assets \in [Accounts -> Portfolio] /\ w.markets \in [DOMAIN Pools -> Pool]
        /\ w.cash \in [Currencies -> Book] /\ w.custody \in [Currencies -> Int]
    BY DEF Worlds
  <1>2. \A c \in Currencies : w.cash[c] \in Book
    BY <1>1
  <1>3. \A c \in Currencies : \A h \in Holders : w.cash[c][h] \in Int
    BY <1>2 DEF Book
  <1> QED
    BY <1>1, <1>2, <1>3

\* A function at the points that an assignment changes, and at the others.
LEMMA AssignFacts ==
  ASSUME NEW D, NEW R, NEW f \in [D -> R], NEW x \in D, NEW y, NEW g, g = [f EXCEPT ![x] = y]
  PROVE  g[x] = y /\ \A z \in D : z # x => g[z] = f[z]
  OBVIOUS

\* The entries of a portfolio.
LEMMA EntryFacts ==
  ASSUME NEW p \in Portfolio, NEW i \in DOMAIN p
  PROVE  /\ p[i] \in Stored /\ p[i] \in Posted
         /\ p[i].cashGroupId \in Groups /\ p[i].maturity \in Maturities /\ p[i].notional \in Nat
         /\ p[i].cashGroupId \in Nat /\ p[i].maturity \in Nat
         /\ p[i].assetType \in AssetTypes \ {LiquidityPayer}
         /\ <<p[i].cashGroupId, p[i].maturity>> \in DOMAIN Pools
         /\ GroupCurrency[p[i].cashGroupId] \in Currencies
  <1>1. p \in Seq(Stored)
    BY DEF Portfolio
  <1>2. p[i] \in Stored
    BY <1>1
  <1> DEFINE x == p[i]
  <1>3. x \in Stored
    BY <1>2
  <1> HIDE DEF x
  <1>4. /\ x \in Posted /\ x.cashGroupId \in Groups /\ x.maturity \in Maturities /\ x.notional \in Nat
        /\ x.assetType \in AssetTypes \ {LiquidityPayer}
    BY <1>3 DEF Stored, Posted, Entries, Postings
  <1> QED
    BY <1>3, <1>4, ConstantFacts, PoolsAssumption, GroupsAssumption DEF x, Groups

(****************************************************************************)
(* What may not be created: the tokens held beyond the balances, and what   *)
(* there is of an instrument in portfolios and pools.                       *)
(****************************************************************************)
Surplus(w, c) == w.custody[c] - SumOf(w.cash[c], Holders)

Row(w, types, k) == [a \in Accounts |-> Position(w.assets[a], types, k)]

\* What is held is a sum of integers over the accounts, and so is what there is.
LEMMA HeldFacts ==
  ASSUME NEW w \in Worlds, NEW types, NEW k
  PROVE  /\ Row(w, types, k) \in [Accounts -> Int]
         /\ \A a \in Accounts : Position(w.assets[a], types, k) \in Int
         /\ Held(w, types, k) = SumOf(Row(w, types, k), Accounts)
         /\ Held(w, types, k) \in Int
  <1>1. \A a \in Accounts : Position(w.assets[a], types, k) \in Int
    BY WorldParts, PositionFacts DEF Portfolio, Stored
  <1>2. Row(w, types, k) \in [Accounts -> Int]
    BY <1>1 DEF Row
  <1>3. Held(w, types, k) = SumOf(Row(w, types, k), Accounts)
    BY DEF Held, SumOf, Row
  <1> QED
    BY <1>1, <1>2, <1>3, ConstantFacts, SumType

\* The surplus is a difference of numbers.
LEMMA SurplusFacts ==
  ASSUME NEW w \in Worlds, NEW c \in Currencies
  PROVE  Surplus(w, c) \in Int /\ SumOf(w.cash[c], Holders) \in Int /\ w.custody[c] \in Int
  <1>1. w.cash[c] \in [Holders -> Int] /\ w.custody[c] \in Int
    BY WorldParts DEF Book
  <1>2. SumOf(w.cash[c], Holders) \in Int
    BY <1>1, ConstantFacts, SumType
  <1> QED
    BY <1>1, <1>2 DEF Surplus

\* From u to v the surplus of c rises by n; no other does, and there is as much of every
\* instrument as before.
SameStock(u, v) == \A k \in DOMAIN Pools : Undivided(v, k) = Undivided(u, k)

Shifts(u, v, c, n) ==
  /\ Surplus(v, c) = Surplus(u, c) + n
  /\ \A d \in Currencies : d # c => Surplus(v, d) = Surplus(u, d)
  /\ SameStock(u, v)

\* Shifts in the same currency add up.
LEMMA ShiftsChain ==
  ASSUME NEW u \in Worlds, NEW v \in Worlds, NEW w \in Worlds, NEW c \in Currencies,
         NEW m \in Int, NEW n \in Int, Shifts(u, v, c, m), Shifts(v, w, c, n)
  PROVE  Shifts(u, w, c, m + n)
  <1>1. Surplus(u, c) \in Int
    BY SurplusFacts
  <1>2. Surplus(v, c) = Surplus(u, c) + m /\ Surplus(w, c) = Surplus(v, c) + n
    BY DEF Shifts
  <1>3. Surplus(w, c) = Surplus(u, c) + (m + n)
    BY <1>1, <1>2
  <1> QED
    BY <1>3 DEF Shifts, SameStock

\* Nothing shifts from a world to itself.
LEMMA ShiftsNot ==
  ASSUME NEW u \in Worlds, NEW c \in Currencies
  PROVE  Shifts(u, u, c, 0)
  BY SurplusFacts DEF Shifts, SameStock

(****************************************************************************)
(* Edits of a world.                                                        *)
(****************************************************************************)

\* What a credit does to a book: one balance changes, and the total by as much.
Credited(book, h, n, after) ==
  /\ after \in Book /\ after[h] = book[h] + n
  /\ \A x \in Holders : x # h => after[x] = book[x]
  /\ SumOf(book, Holders) \in Int
  /\ SumOf(after, Holders) = SumOf(book, Holders) + n

\* A credit of any holder is credited as said.
LEMMA CreditFacts ==
  ASSUME NEW book \in Book, NEW h \in Holders, NEW n \in Int, NEW after, after = Credit(book, h, n)
  PROVE  Credited(book, h, n, after)
  <1>1. SumOf(Credit(book, h, n), Holders) = SumOf(book, Holders) + n
    BY ConstantFacts, SumAdd DEF Credit, Book
  <1>2. SumOf(book, Holders) \in Int
    BY ConstantFacts, SumType DEF Book
  <1>3. \A x \in Holders : book[x] \in Int
    BY DEF Book
  <1> QED
    BY <1>1, <1>2, <1>3 DEF Credit, Book, Credited

\* One currency's book changes, and the tokens held.
EditsCash(u, v, c, book, n) ==
  /\ v \in Worlds /\ v.assets = u.assets /\ v.markets = u.markets
  /\ v.cash = [u.cash EXCEPT ![c] = book]
  /\ v.custody = [u.custody EXCEPT ![c] = @ + n]

\* Such an edit shifts the surplus by the tokens less the change of the balances.
LEMMA CashShifts ==
  ASSUME NEW u \in Worlds, NEW c \in Currencies, NEW book \in Book, NEW n \in Int, NEW v,
         EditsCash(u, v, c, book, n), NEW m \in Int,
         SumOf(book, Holders) = SumOf(u.cash[c], Holders) + m
  PROVE  Shifts(u, v, c, n - m)
  <1>1. /\ v.cash[c] = book /\ \A d \in Currencies : d # c => v.cash[d] = u.cash[d]
    BY WorldParts, AssignFacts DEF EditsCash
  <1>2. v.custody[c] = u.custody[c] + n /\ \A d \in Currencies : d # c => v.custody[d] = u.custody[d]
    BY WorldParts, AssignFacts DEF EditsCash
  <1>3. Surplus(v, c) = Surplus(u, c) + (n - m)
    <2>1. SumOf(u.cash[c], Holders) \in Int /\ u.custody[c] \in Int
      BY SurplusFacts
    <2> QED
      BY <1>1, <1>2, <2>1 DEF Surplus
  <1>4. SameStock(u, v)
    BY DEF SameStock, Undivided, Held, EditsCash
  <1> QED
    BY <1>1, <1>2, <1>3, <1>4 DEF Shifts, Surplus

\* Portfolios change what is held by what the two of them differ.
EditsAssets(u, v, a, q) ==
  /\ v \in Worlds /\ v.markets = u.markets /\ v.cash = u.cash /\ v.custody = u.custody
  /\ v.assets = [u.assets EXCEPT ![a] = q]

\* What is held of an instrument changes as the position that is edited.
LEMMA HeldEdit ==
  ASSUME NEW u \in Worlds, NEW a \in Accounts, NEW q \in Portfolio, NEW v, EditsAssets(u, v, a, q),
         NEW types, NEW k
  PROVE  /\ Position(q, types, k) \in Int /\ Position(u.assets[a], types, k) \in Int
         /\ Held(u, types, k) \in Int
         /\ Held(v, types, k) = Held(u, types, k) + (Position(q, types, k) - Position(u.assets[a], types, k))
  <1> DEFINE f == Row(u, types, k)
             new == Position(q, types, k)
             n == new - Position(u.assets[a], types, k)
             g == Row(v, types, k)
             e == [f EXCEPT ![a] = @ + n]
  <1>1. /\ f \in [Accounts -> Int] /\ \A b \in Accounts : f[b] = Position(u.assets[b], types, k)
        /\ Held(u, types, k) = SumOf(f, Accounts)
        /\ Held(u, types, k) \in Int
    BY HeldFacts DEF Row
  <1>2. new \in Int
    BY PositionFacts DEF Portfolio, Stored
  <1>3. v \in Worlds /\ v.assets[a] = q /\ \A b \in Accounts : b # a => v.assets[b] = u.assets[b]
    BY WorldParts, AssignFacts DEF EditsAssets
  <1>4. /\ g \in [Accounts -> Int] /\ \A b \in Accounts : g[b] = Position(v.assets[b], types, k)
        /\ Held(v, types, k) = SumOf(g, Accounts)
    BY <1>3, HeldFacts DEF Row
  <1>5. n \in Int
    BY <1>1, <1>2
  <1> HIDE DEF f, g
  <1>6. g[a] = f[a] + n /\ \A b \in Accounts : b # a => g[b] = f[b]
    BY <1>1, <1>2, <1>3, <1>4
  <1> HIDE DEF n
  <1>7. g = e
    BY <1>1, <1>4, <1>5, <1>6
  <1>8. SumOf(e, Accounts) = SumOf(f, Accounts) + n
    BY <1>1, <1>5, ConstantFacts, SumAdd
  <1> QED
    BY <1>1, <1>2, <1>4, <1>7, <1>8 DEF n

(****************************************************************************)
(* Batches of postings.                                                     *)
(****************************************************************************)

\* A sum of the first so many numbers, and of one more.
LEMMA SumOneMore ==
  ASSUME NEW N \in Nat, NEW g \in [1 .. N -> Int], NEW n \in Nat, n + 1 \in 1 .. N
  PROVE  /\ SumOf(g, 1 .. n) \in Int
         /\ SumOf(g, (1 .. n) \cup {n + 1}) = SumOf(g, 1 .. n) + g[n + 1]
  <1> DEFINE S == 1 .. N
             before == 1 .. n
             h == n + 1
  <1>1. IsFiniteSet(S) /\ g \in [S -> Int] /\ before \in SUBSET S /\ h \in S /\ h \notin before
    BY FS_Interval
  <1> HIDE DEF S, before, h
  <1>2. SumOf(g, before) \in Int /\ SumOf(g, before \cup {h}) = SumOf(g, before) + g[h]
    BY <1>1, SumInsert
  <1> QED
    BY <1>2 DEF before, h

\* A batch of postings adds their sum to every position.
LEMMA UpsertsAdd ==
  ASSUME NEW p \in Portfolio, NEW xs \in Seq(Posted), NEW q \in UpsertAssets(p, xs, TRUE)
  PROVE  /\ q \in Portfolio
         /\ \A types \in Sides : \A k :
              Position(q, types, k) = Position(p, types, k) + ListSum(xs, Shares(Posted, types, k))
  <1> DEFINE N == Len(xs)
             f(types, k) == [i \in DOMAIN xs |-> Shares(Posted, types, k)[xs[i]]]
             Good(r, n) == /\ r \in Portfolio
                           /\ \A types \in Sides : \A k :
                                Position(r, types, k)
                                  = Position(p, types, k) + SumOf(f(types, k), 1 .. n)
  <1>1. N \in Nat /\ DOMAIN xs = 1 .. N /\ IsFiniteSet(1 .. N) /\ \A n \in 1 .. N : xs[n] \in Posted
    BY FS_Interval
  <1>2. /\ \A types, k : f(types, k) \in [1 .. N -> Int]
        /\ \A types, k : \A n \in 1 .. N : f(types, k)[n] = Share(xs[n], types, k)
        /\ \A types, k : ListSum(xs, Shares(Posted, types, k)) = SumOf(f(types, k), 1 .. N)
    <2>1. \A types, k : \A x \in Posted : Shares(Posted, types, k)[x] = Share(x, types, k)
                                          /\ Share(x, types, k) \in Int
      BY ShareFacts DEF Shares, Posted
    <2> QED
      BY <1>1, <2>1 DEF ListSum
  <1> HIDE DEF f
  <1>3. /\ p \in Seq(Stored) /\ NoDuplicates(p) /\ Stored = Entries(Groups, Maturities)
        /\ Posted = Postings(Groups, Maturities)
    BY DEF Portfolio, Stored, Posted
  <1>4. PICK F : IsUpsertSteps(F, p, xs, TRUE)
    BY <1>3, UpsertChain
  <1> DEFINE T == {n \in Nat : n <= N => \A r \in F[1 .. n] : Good(r, n)}
  <1>5. 0 \in T
    <2>1. \A types, k : SumOf(f(types, k), {}) = 0
      <3> SUFFICES ASSUME NEW types, NEW k PROVE SumOf(f(types, k), {}) = 0
        OBVIOUS
      <3> DEFINE e == [x \in {} |-> 0]
      <3>1. e \in [{} -> Int] /\ IsFiniteSet({}) /\ \A x \in {} : f(types, k)[x] = e[x]
        BY FS_EmptySet
      <3>2. SumOf(e, {}) = 0
        BY <3>1, SumType
      <3> QED
        BY <3>1, <3>2, SumSame
    <2>2. F[1 .. 0] = {p} /\ 1 .. 0 = {}
      BY <1>4 DEF IsUpsertSteps
    <2>3. \A types, k : Position(p, types, k) \in Int
      BY <1>3, PositionFacts
    <2>4. Good(p, 0)
      BY <2>1, <2>2, <2>3
    <2> HIDE DEF Good
    <2> QED
      BY <2>2, <2>4
  <1>6. ASSUME NEW n \in Nat, n \in T
        PROVE  n + 1 \in T
    <2> SUFFICES ASSUME n + 1 <= N, NEW r \in F[1 .. (n + 1)]
                 PROVE  Good(r, n + 1)
      OBVIOUS
    <2>1. n + 1 \in 1 .. N /\ (n + 1) - 1 = n
      BY <1>1
    <2> DEFINE x == xs[n + 1]
    <2>2. x \in Posted
      BY <1>1, <2>1
    <2>3. F[1 .. (n + 1)] = UpsertAll(F[1 .. n], x, TRUE)
      BY <1>4, <2>1 DEF IsUpsertSteps
    <2>4. PICK r0 \in F[1 .. n] : r \in UpsertAsset(r0, x, TRUE)
      BY <2>3 DEF UpsertAll
    <2>5. Good(r0, n)
      BY <1>1, <1>6
    <2>6. r0 \in Seq(Stored) /\ NoDuplicates(r0)
      BY <2>5 DEF Portfolio
    <2>7. Adds(Groups, Maturities, r0, x, r)
      <3> HIDE DEF x
      <3> QED
        BY <1>3, <2>2, <2>4, <2>6, UpsertAdds
    <2>8. r \in Portfolio
      BY <2>7 DEF Adds, Portfolio, Stored
    <2>9. ASSUME NEW types \in Sides, NEW k
          PROVE  Position(r, types, k) = Position(p, types, k) + SumOf(f(types, k), 1 .. (n + 1))
      <3> DEFINE g == f(types, k)
                 before == 1 .. n
      <3>1. before \in SUBSET (1 .. N) /\ n + 1 \notin before /\ before \cup {n + 1} = 1 .. (n + 1)
        BY <1>1, <2>1
      <3>2. g \in [1 .. N -> Int] /\ g[n + 1] = Share(x, types, k)
        BY <1>2, <2>1
      <3>3. Position(r, types, k) = Position(r0, types, k) + Share(x, types, k)
        BY <2>7 DEF Adds
      <3>4. Position(r0, types, k) = Position(p, types, k) + SumOf(g, before)
        BY <2>5
      <3>5. Position(p, types, k) \in Int /\ Share(x, types, k) \in Int
        BY <1>3, <2>2, PositionFacts, ShareFacts
      <3> HIDE DEF g, before, x
      <3>6. SumOf(g, before) \in Int /\ SumOf(g, before \cup {n + 1}) = SumOf(g, before) + g[n + 1]
        BY <1>1, <2>1, <3>1, <3>2, SumOneMore DEF before
      <3>7. Position(r, types, k) = Position(p, types, k) + SumOf(g, 1 .. (n + 1))
        <4> DEFINE sum == SumOf(g, before)
                   after == SumOf(g, 1 .. (n + 1))
        <4>1. sum \in Int /\ after = sum + Share(x, types, k)
          BY <3>1, <3>2, <3>6
        <4>2. Position(r0, types, k) = Position(p, types, k) + sum
          BY <3>4
        <4> HIDE DEF sum, after
        <4>3. Position(r, types, k) = Position(p, types, k) + after
          BY <3>3, <3>5, <4>1, <4>2
        <4> QED
          BY <4>3 DEF after
      <3> QED
        BY <3>7 DEF g
    <2> QED
      BY <2>8, <2>9
  <1>7. N \in T
    <2> HIDE DEF T
    <2> QED
      BY <1>1, <1>5, <1>6, NaturalInduction
  <1>8. q \in F[1 .. N]
    BY <1>4 DEF IsUpsertSteps
  <1>9. Good(q, N)
    BY <1>7, <1>8, <1>1
  <1> QED
    BY <1>2, <1>9

\* The order of the portfolio has a last element in every set of entries.
LEMMA LastExists ==
  ASSUME NEW p \in Portfolio, NEW s \in SUBSET DOMAIN p, s # {}
  PROVE  \E i \in s : \A j \in s : ~Before(p[i], p[j])
  <1> DEFINE IsLast(r, i) == i \in r /\ \A j \in r : ~Before(p[i], p[j])
             T == {r \in SUBSET s : r = {} \/ \E i \in s : IsLast(r, i)}
  <1>1. IsFiniteSet(s)
    <2>1. p \in Seq(Stored)
      BY DEF Portfolio
    <2>2. DOMAIN p = 1 .. Len(p) /\ Len(p) \in Nat
      BY <2>1
    <2>3. IsFiniteSet(DOMAIN p)
      BY <2>2, FS_Interval
    <2> QED
      BY <2>3, FS_Subset
  <1>2. \A i \in s : p[i].cashGroupId \in Nat /\ p[i].maturity \in Nat
    BY EntryFacts
  <1>3. {} \in T
    OBVIOUS
  <1>4. ASSUME NEW r \in SUBSET s, r # {}, r \ {Some(r)} \in T
        PROVE  r \in T
    <2> DEFINE x == Some(r)
               rest == r \ {x}
    <2>1. x \in r
      BY <1>4 DEF Some
    <2> HIDE DEF x
    <2>2. CASE rest = {}
      <3>1. r = {x}
        BY <2>1, <2>2
      <3>2. ~Before(p[x], p[x])
        BY <1>2, <2>1 DEF Before
      <3>3. IsLast(r, x)
        BY <3>1, <3>2
      <3> QED
        BY <2>1, <3>3
    <2>3. CASE rest # {}
      <3>1. PICK i \in s : IsLast(rest, i)
        BY <1>4, <2>3 DEF x
      <3>2. CASE Before(p[i], p[x])
        <4>1. ~Before(p[x], p[x])
          BY <1>2, <2>1 DEF Before
        <4>2. ASSUME NEW j \in rest
              PROVE  ~Before(p[x], p[j])
          <5>1. ~Before(p[i], p[j])
            BY <3>1
          <5> QED
            BY <1>2, <2>1, <3>2, <5>1 DEF Before
        <4>3. IsLast(r, x)
          BY <2>1, <4>1, <4>2
        <4> QED
          BY <2>1, <4>3
      <3>3. CASE ~Before(p[i], p[x])
        <4>1. IsLast(r, i)
          BY <3>1, <3>3
        <4> QED
          BY <4>1
      <3> QED
        BY <3>2, <3>3
    <2> QED
      BY <2>2, <2>3
  <1>5. s \in T
    <2> HIDE DEF T
    <2> QED
      BY <1>1, <1>3, <1>4, SubsetInduction
  <1> QED
    BY <1>5

(****************************************************************************)
(* Redemption of tokens.                                                    *)
(****************************************************************************)

\* The state of _tradePortfolio's loop, and one that has raised part of amount in currency c
\* since the world u: what the pools lost is in the changes, and the cash is nobody's.
LoopStates == [world : Worlds, remaining : Nat, changes : Seq(Posted), ended : BOOLEAN]

PoolsGave(u, v, xs) ==
  \A k \in DOMAIN Pools :
    /\ v.markets[k].totalfCash = u.markets[k].totalfCash - ListSum(xs, Shares(Posted, CashTypes, k))
    /\ v.markets[k].totalLiquidity
         = u.markets[k].totalLiquidity + ListSum(xs, Shares(Posted, TokenTypes, k))

AccountsKeepCash(u, v) == \A d \in Currencies : \A a \in Accounts : v.cash[d][a] = u.cash[d][a]

Gained(u, v, c, n) ==
  /\ Surplus(v, c) = Surplus(u, c) + n
  /\ \A d \in Currencies : d # c => Surplus(v, d) = Surplus(u, d)

Raising(u, c, amount) ==
  {s \in LoopStates : /\ s.world.assets = u.assets
                      /\ AccountsKeepCash(u, s.world)
                      /\ s.remaining <= amount
                      /\ Gained(u, s.world, c, amount - s.remaining)
                      /\ PoolsGave(u, s.world, s.changes)}

\* The parts of such a state.
LEMMA RaisingParts ==
  ASSUME NEW u, NEW c, NEW amount, NEW s \in Raising(u, c, amount)
  PROVE  /\ s \in LoopStates /\ s.world \in Worlds /\ s.remaining \in Nat /\ s.changes \in Seq(Posted)
         /\ s.ended \in BOOLEAN
         /\ s.world.assets = u.assets /\ AccountsKeepCash(u, s.world) /\ s.remaining <= amount
         /\ Gained(u, s.world, c, amount - s.remaining) /\ PoolsGave(u, s.world, s.changes)
  <1>1. s \in LoopStates
    BY DEF Raising
  <1>2. s.world \in Worlds /\ s.remaining \in Nat /\ s.changes \in Seq(Posted) /\ s.ended \in BOOLEAN
    BY <1>1 DEF LoopStates
  <1> QED
    BY <1>1, <1>2 DEF Raising

\* A pool and a market's balance change.
TradesPool(w, k, mk, c, book) == [w EXCEPT !.markets[k] = mk, !.cash[c] = book]

\* Pool k and the book of c are the new ones; all else is kept.
LEMMA TradesPoolFacts ==
  ASSUME NEW w \in Worlds, NEW k \in DOMAIN Pools, NEW mk \in Pool, NEW c \in Currencies,
         NEW book \in Book, NEW v, v = TradesPool(w, k, mk, c, book)
  PROVE  /\ v \in Worlds /\ v.assets = w.assets /\ v.custody = w.custody
         /\ v.cash[c] = book /\ \A d \in Currencies : d # c => v.cash[d] = w.cash[d]
         /\ v.markets[k] = mk /\ \A j \in DOMAIN Pools : j # k => v.markets[j] = w.markets[j]
  <1>1. /\ w.assets \in [Accounts -> Portfolio] /\ w.markets \in [DOMAIN Pools -> Pool]
        /\ w.cash \in [Currencies -> Book] /\ w.custody \in [Currencies -> Int]
    BY WorldParts
  <1> DEFINE m == [w.markets EXCEPT ![k] = mk]
             b == [w.cash EXCEPT ![c] = book]
  <1>2. v = [assets |-> w.assets, markets |-> m, cash |-> b, custody |-> w.custody]
    BY DEF TradesPool, Worlds
  <1>3. m \in [DOMAIN Pools -> Pool] /\ m[k] = mk /\ \A j \in DOMAIN Pools : j # k => m[j] = w.markets[j]
    BY <1>1
  <1>4. b \in [Currencies -> Book] /\ b[c] = book /\ \A d \in Currencies : d # c => b[d] = w.cash[d]
    BY <1>1
  <1> HIDE DEF m, b
  <1> QED
    BY <1>1, <1>2, <1>3, <1>4 DEF Worlds

\* The changes ys have those of a redemption in instrument i beyond xs.
AddRedemption(xs, ys, i, n, tokens) ==
  /\ ys \in Seq(Posted)
  /\ \A k : /\ ListSum(xs, Shares(Posted, CashTypes, k)) \in Int
            /\ ListSum(xs, Shares(Posted, TokenTypes, k)) \in Int
            /\ ListSum(ys, Shares(Posted, CashTypes, k))
                 = ListSum(xs, Shares(Posted, CashTypes, k)) + (IF k = i THEN n ELSE 0)
            /\ ListSum(ys, Shares(Posted, TokenTypes, k))
                 = ListSum(xs, Shares(Posted, TokenTypes, k)) - (IF k = i THEN tokens ELSE 0)

\* The changes that _tradeLiquidityToken notes add n of fCash and take the tokens.
LEMMA TokenChangesSum ==
  ASSUME NEW xs \in Seq(Posted), NEW asset \in Stored, NEW n \in Nat, NEW tokens \in Nat,
         NEW k0, k0 = <<asset.cashGroupId, asset.maturity>>,
         NEW ys, ys = xs \o TokenChanges(asset, n, tokens)
  PROVE  AddRedemption(xs, ys, k0, n, tokens)
  <1> DEFINE x == Asset(asset.cashGroupId, asset.maturity, CashReceiver, n)
             y == Asset(asset.cashGroupId, asset.maturity, LiquidityPayer, tokens)
  <1>1. asset.cashGroupId \in Groups /\ asset.maturity \in Maturities
    BY DEF Stored, Entries
  <1>2. x \in Posted /\ y \in Posted
    BY <1>1 DEF Posted, Postings, Asset, AssetTypes
  <1>3. /\ \A k : Share(x, CashTypes, k) = (IF k = k0 THEN n ELSE 0) /\ Share(y, CashTypes, k) = 0
        /\ \A k : Share(y, TokenTypes, k) = (IF k = k0 THEN -tokens ELSE 0) /\ Share(x, TokenTypes, k) = 0
    BY DEF Share, Signed, Asset, CashTypes, TokenTypes, CashPayer, CashReceiver, LiquidityToken, LiquidityPayer
  <1>4. TokenChanges(asset, n, tokens) = <<x, y>>
    BY DEF TokenChanges
  <1> HIDE DEF x, y
  <1>5. ys = Append(Append(xs, x), y)
    BY <1>2, <1>4
  <1>6. Append(xs, x) \in Seq(Posted) /\ ys \in Seq(Posted)
    BY <1>2, <1>5
  <1>7. ASSUME NEW types, NEW k
        PROVE  /\ ListSum(xs, Shares(Posted, types, k)) \in Int
               /\ ListSum(ys, Shares(Posted, types, k))
                    = ListSum(xs, Shares(Posted, types, k)) + Share(x, types, k) + Share(y, types, k)
    <2> DEFINE f == Shares(Posted, types, k)
    <2>1. f \in [Posted -> Int] /\ \A z \in Posted : f[z] = Share(z, types, k)
      BY ShareFacts DEF Shares, Posted
    <2> HIDE DEF f
    <2>2. ListSum(xs, f) \in Int
      BY <2>1, ListFacts
    <2>3. ListSum(Append(xs, x), f) = ListSum(xs, f) + f[x]
      BY <1>2, <2>1, ListAppend
    <2>4. ListSum(ys, f) = ListSum(Append(xs, x), f) + f[y]
      BY <1>2, <1>5, <1>6, <2>1, ListAppend
    <2>5. ListSum(ys, f) = ListSum(xs, f) + Share(x, types, k) + Share(y, types, k)
      BY <1>2, <2>1, <2>3, <2>4
    <2> QED
      BY <2>2, <2>5 DEF f
  <1>8. ASSUME NEW k
        PROVE  /\ ListSum(xs, Shares(Posted, CashTypes, k)) \in Int
               /\ ListSum(xs, Shares(Posted, TokenTypes, k)) \in Int
               /\ ListSum(ys, Shares(Posted, CashTypes, k))
                    = ListSum(xs, Shares(Posted, CashTypes, k)) + (IF k = k0 THEN n ELSE 0)
               /\ ListSum(ys, Shares(Posted, TokenTypes, k))
                    = ListSum(xs, Shares(Posted, TokenTypes, k)) - (IF k = k0 THEN tokens ELSE 0)
    <2> DEFINE sc == ListSum(xs, Shares(Posted, CashTypes, k))
               st == ListSum(xs, Shares(Posted, TokenTypes, k))
               tc == ListSum(ys, Shares(Posted, CashTypes, k))
               tt == ListSum(ys, Shares(Posted, TokenTypes, k))
    <2>1. sc \in Int /\ tc = sc + Share(x, CashTypes, k) + Share(y, CashTypes, k)
      BY <1>7
    <2>2. st \in Int /\ tt = st + Share(x, TokenTypes, k) + Share(y, TokenTypes, k)
      BY <1>7
    <2> HIDE DEF sc, st, tc, tt
    <2>3. tc = sc + (IF k = k0 THEN n ELSE 0) /\ tt = st - (IF k = k0 THEN tokens ELSE 0)
      BY <1>3, <2>1, <2>2
    <2> QED
      BY <2>1, <2>2, <2>3 DEF sc, st, tc, tt
  <1> QED
    BY <1>6, <1>8 DEF AddRedemption

\* A redemption takes from the pool what it adds to the changes, and from the market's balance
\* what remained to be raised.
LEMMA TradeTokenKeeps ==
  ASSUME NEW u \in Worlds, NEW c \in Currencies, NEW amount \in Nat, NEW s \in Raising(u, c, amount),
         NEW asset \in Stored, GroupCurrency[asset.cashGroupId] = c, NEW t \in TradeToken(s, asset)
  PROVE  t \in Raising(u, c, amount)
  <1> DEFINE g == asset.cashGroupId
             k == <<asset.cashGroupId, asset.maturity>>
             mk == s.world.markets[k]
             tokens == TokensToRaise(mk, s.remaining, asset.notional)
             cash == CashClaim(mk, tokens)
             n == fCashClaim(mk, tokens)
             m == MarketOf[g]
  <1>1. /\ s \in LoopStates /\ s.world \in Worlds /\ s.remaining \in Nat /\ s.changes \in Seq(Posted)
        /\ s.world.assets = u.assets /\ AccountsKeepCash(u, s.world) /\ s.remaining <= amount
        /\ Gained(u, s.world, c, amount - s.remaining) /\ PoolsGave(u, s.world, s.changes)
    BY RaisingParts
  <1>2. CASE s.ended
    BY <1>2 DEF TradeToken
  <1>3. CASE ~s.ended
    <2>1. /\ CanRedeem(mk, tokens)
          /\ \E book \in DebitNoNeg(s.world.cash[c], m, cash) :
               t = [world |-> TradesPool(s.world, k, RedeemFrom(mk, tokens), c, book),
                    remaining |-> s.remaining - cash,
                    changes   |-> s.changes \o TokenChanges(asset, n, tokens),
                    ended     |-> s.remaining = cash]
      <3>1. t \in IF ~CanRedeem(mk, tokens) THEN {}
                  ELSE { [world |-> TradesPool(s.world, k, RedeemFrom(mk, tokens), c, book),
                          remaining |-> s.remaining - cash,
                          changes   |-> s.changes \o TokenChanges(asset, n, tokens),
                          ended     |-> s.remaining = cash] :
                            book \in DebitNoNeg(s.world.cash[c], m, cash) }
        BY <1>3 DEF TradeToken, TradesPool
      <3> HIDE DEF tokens, cash, n, mk, k, m
      <3> QED
        BY <3>1
    <2>2. g \in Groups /\ asset.maturity \in Maturities /\ asset.notional \in Nat /\ k \in DOMAIN Pools
      <3>1. g \in Groups /\ asset.maturity \in Maturities /\ asset.notional \in Nat
        BY DEF Stored, Entries
      <3> QED
        BY <3>1, PoolsAssumption
    <2>3. mk \in Market /\ Consistent(mk) /\ m \in Holders /\ m \notin Accounts
      <3>1. mk \in Pool
        BY <1>1, <2>2, WorldParts
      <3> HIDE DEF mk
      <3> QED
        BY <2>2, <3>1, ConstantFacts DEF Pool
    <2> HIDE DEF mk, k, m, g
    <2>4. mk.totalLiquidity > 0 /\ mk.totalLiquidity \in Nat /\ mk.totalfCash \in Nat
          /\ mk.totalCurrentCash \in Nat
      BY <2>1, <2>3 DEF CanRedeem, Market
    <2>5. tokens \in Nat /\ tokens <= mk.totalLiquidity
      BY <1>1, <2>1, <2>2, <2>3, <2>4, TokensToRaiseNat DEF CanRedeem
    <2>6. cash \in Nat /\ cash <= s.remaining /\ n \in Nat
      <3>1. cash <= s.remaining
        BY <1>1, <2>2, <2>3, <2>4, RaiseFacts
      <3> HIDE DEF tokens
      <3>2. cash \in Nat /\ n \in Nat
        BY <2>4, <2>5, ProRata DEF CashClaim, fCashClaim
      <3> QED
        BY <3>1, <3>2
    <2> DEFINE rm == RedeemFrom(mk, tokens)
    <2>7. /\ rm \in Pool /\ rm.totalfCash = mk.totalfCash - n
          /\ rm.totalLiquidity = mk.totalLiquidity - tokens
      <3> HIDE DEF tokens
      <3>1. rm \in Market /\ Consistent(rm)
        BY <2>1, <2>3, <2>5, RedeemFacts
      <3> QED
        BY <3>1 DEF Pool, RedeemFrom
    <2> HIDE DEF rm, tokens, cash, n
    <2>8. PICK book \in DebitNoNeg(s.world.cash[c], m, cash) :
               t = [world |-> TradesPool(s.world, k, rm, c, book),
                    remaining |-> s.remaining - cash,
                    changes   |-> s.changes \o TokenChanges(asset, n, tokens),
                    ended     |-> s.remaining = cash]
      BY <2>1 DEF rm, tokens, cash, n
    <2> DEFINE v == TradesPool(s.world, k, rm, c, book)
               ys == s.changes \o TokenChanges(asset, n, tokens)
    <2>9. /\ book \in Book /\ \A h \in Holders : h # m => book[h] = s.world.cash[c][h]
          /\ SumOf(s.world.cash[c], Holders) \in Int
          /\ SumOf(book, Holders) = SumOf(s.world.cash[c], Holders) + (-cash)
      <3> DEFINE old == s.world.cash[c]
                 paid == -cash
      <3>1. book = Credit(old, m, paid)
        BY DEF DebitNoNeg
      <3>2. old \in Book /\ paid \in Int
        BY <1>1, <2>6, WorldParts
      <3> HIDE DEF old, paid
      <3>3. Credited(old, m, paid, book)
        BY <2>3, <3>1, <3>2, CreditFacts
      <3> QED
        BY <3>3 DEF old, paid, Credited
    <2>10. /\ v \in Worlds /\ v.assets = s.world.assets /\ v.custody = s.world.custody
           /\ v.cash[c] = book /\ \A d \in Currencies : d # c => v.cash[d] = s.world.cash[d]
           /\ v.markets[k] = rm /\ \A j \in DOMAIN Pools : j # k => v.markets[j] = s.world.markets[j]
      BY <1>1, <2>2, <2>7, <2>9, TradesPoolFacts
    <2> HIDE DEF v
    <2>11. t.world = v /\ t.remaining = s.remaining - cash /\ t.changes = ys
      BY <2>8 DEF v
    <2>12. AddRedemption(s.changes, ys, k, n, tokens)
      <3>1. k = <<asset.cashGroupId, asset.maturity>>
        BY DEF k
      <3> QED
        BY <1>1, <2>5, <2>6, <3>1, TokenChangesSum
    <2> HIDE DEF ys
    <2>13. t \in LoopStates
      <3>1. s.remaining - cash \in Nat /\ (s.remaining = cash) \in BOOLEAN
        BY <1>1, <2>6
      <3> QED
        BY <2>8, <2>10, <2>12, <3>1 DEF LoopStates, AddRedemption, v, ys
    <2>14. AccountsKeepCash(u, v)
      <3>1. ASSUME NEW d \in Currencies, NEW a \in Accounts
            PROVE  v.cash[d][a] = s.world.cash[d][a]
        BY <2>3, <2>9, <2>10, ConstantFacts
      <3> QED
        BY <1>1, <3>1 DEF AccountsKeepCash
    <2>15. Gained(u, v, c, amount - t.remaining)
      <3>1. Surplus(s.world, c) = Surplus(u, c) + (amount - s.remaining)
        BY <1>1 DEF Gained
      <3>2. Surplus(u, c) \in Int /\ Surplus(s.world, c) \in Int /\ s.world.custody[c] \in Int
        BY <1>1, SurplusFacts
      <3>3. Surplus(v, c) = Surplus(s.world, c) + cash
        BY <2>6, <2>9, <2>10, <3>2 DEF Surplus
      <3>4. Surplus(v, c) = Surplus(u, c) + (amount - t.remaining)
        BY <1>1, <2>6, <2>11, <3>1, <3>2, <3>3
      <3>5. \A d \in Currencies : d # c => Surplus(v, d) = Surplus(u, d)
        BY <1>1, <2>10 DEF Gained, Surplus
      <3> QED
        BY <3>4, <3>5 DEF Gained
    <2>16. PoolsGave(u, v, ys)
      <3> SUFFICES ASSUME NEW j \in DOMAIN Pools
                   PROVE  /\ v.markets[j].totalfCash
                               = u.markets[j].totalfCash - ListSum(ys, Shares(Posted, CashTypes, j))
                          /\ v.markets[j].totalLiquidity
                               = u.markets[j].totalLiquidity + ListSum(ys, Shares(Posted, TokenTypes, j))
        BY DEF PoolsGave
      <3> DEFINE f == ListSum(s.changes, Shares(Posted, CashTypes, j))
                 l == ListSum(s.changes, Shares(Posted, TokenTypes, j))
                 f2 == ListSum(ys, Shares(Posted, CashTypes, j))
                 l2 == ListSum(ys, Shares(Posted, TokenTypes, j))
                 old == u.markets[j]
                 mid == s.world.markets[j]
                 new == v.markets[j]
      <3>1. /\ f \in Int /\ l \in Int
            /\ f2 = f + (IF j = k THEN n ELSE 0) /\ l2 = l - (IF j = k THEN tokens ELSE 0)
        BY <2>12 DEF AddRedemption
      <3>2. mid.totalfCash = old.totalfCash - f /\ mid.totalLiquidity = old.totalLiquidity + l
        BY <1>1 DEF PoolsGave
      <3>3. /\ new.totalfCash = mid.totalfCash - (IF j = k THEN n ELSE 0)
            /\ new.totalLiquidity = mid.totalLiquidity - (IF j = k THEN tokens ELSE 0)
        <4>1. CASE j = k
          BY <2>7, <2>10, <4>1 DEF mk
        <4>2. CASE j # k
          <5>1. new = mid /\ mid \in Market
            BY <1>1, <2>10, <4>2, WorldParts DEF Pool
          <5> QED
            BY <4>2, <5>1 DEF Market
        <4> QED
          BY <4>1, <4>2
      <3>4. old \in Market
        BY WorldParts DEF Pool
      <3>5. old.totalfCash \in Nat /\ old.totalLiquidity \in Nat
        BY <3>4 DEF Market
      <3> HIDE DEF f, l, f2, l2, old, mid, new
      <3>6. new.totalfCash = old.totalfCash - f2 /\ new.totalLiquidity = old.totalLiquidity + l2
        BY <2>5, <2>6, <3>1, <3>2, <3>3, <3>5
      <3> QED
        BY <3>6 DEF f2, l2, old, new
    <2> QED
      BY <1>1, <2>6, <2>10, <2>11, <2>13, <2>14, <2>15, <2>16 DEF Raising
  <1> QED
    BY <1>2, <1>3

\* The table of the loop's states over the sets of tokens to sell, last being the next of a set.
Turn(ss, asset) == UNION {TradeToken(s, asset) : s \in ss}

LastOf(p, s) == CHOOSE i \in s : \A j \in s : ~Before(p[i], p[j])

LoopStart(w, amount) ==
  [world |-> w, remaining |-> amount, changes |-> << >>, ended |-> FALSE]

IsSales(F, p, tokens, base) ==
  F = [s \in SUBSET tokens |->
         IF s = {} THEN base ELSE Turn(F[s \ {LastOf(p, s)}], p[LastOf(p, s)])]

TokensIn(p, c) == {i \in DOMAIN p : IsLiquidityToken(p[i].assetType) /\ IsIn(p[i], c)}

\* What the loop's last states leave, with the changes booked.
BookedIn(account, ss) ==
  UNION { { [world |-> [s.world EXCEPT !.assets[account] = q], remaining |-> s.remaining] :
              q \in UpsertAssets(s.world.assets[account], s.changes, TRUE) } : s \in ss }

\* The loop ends in states that have raised part of the amount.
LEMMA SalesEnd ==
  ASSUME NEW u \in Worlds, NEW c \in Currencies, NEW account \in Accounts, NEW amount \in Nat
  PROVE  \E ss \in SUBSET Raising(u, c, amount) :
           RaiseViaLiquidityToken(u, account, c, amount) = BookedIn(account, ss)
  <1> DEFINE p == u.assets[account]
             D == TokensIn(p, c)
             R == Raising(u, c, amount)
             V == SUBSET R
             base == {LoopStart(u, amount)}
             next == [s \in SUBSET D |-> LastOf(p, s)]
             g == [z \in D \X V |-> Turn(z[2], p[z[1]])]
  <1>1. p \in Portfolio
    BY WorldParts
  <1> HIDE DEF p
  <1>2. D \in SUBSET DOMAIN p /\ \A i \in D : p[i] \in Stored /\ GroupCurrency[p[i].cashGroupId] = c
    BY <1>1, EntryFacts DEF TokensIn, IsIn
  <1>3. IsFiniteSet(D)
    <2>1. p \in Seq(Stored)
      BY <1>1 DEF Portfolio
    <2>2. DOMAIN p = 1 .. Len(p) /\ Len(p) \in Nat
      BY <2>1
    <2>3. IsFiniteSet(DOMAIN p)
      BY <2>2, FS_Interval
    <2> QED
      BY <1>2, <2>3, FS_Subset
  <1>4. ASSUME NEW s \in SUBSET D, s # {}
        PROVE  LastOf(p, s) \in s
    <2>1. s \in SUBSET DOMAIN p
      BY <1>2
    <2>2. \E i \in s : \A j \in s : ~Before(p[i], p[j])
      BY <1>1, <1>4, <2>1, LastExists
    <2> QED
      BY <2>2 DEF LastOf
  <1>5. base \in V
    <2> DEFINE s == LoopStart(u, amount)
    <2>1. s \in LoopStates /\ s.world = u /\ s.remaining = amount /\ s.changes = << >>
      BY DEF LoopStates, LoopStart
    <2> HIDE DEF s
    <2>2. AccountsKeepCash(u, u)
      BY DEF AccountsKeepCash
    <2>3. Gained(u, u, c, amount - amount)
      BY SurplusFacts DEF Gained
    <2>4. PoolsGave(u, u, << >>)
      <3> SUFFICES ASSUME NEW k \in DOMAIN Pools
                   PROVE  /\ u.markets[k].totalfCash
                               = u.markets[k].totalfCash - ListSum(<< >>, Shares(Posted, CashTypes, k))
                          /\ u.markets[k].totalLiquidity
                               = u.markets[k].totalLiquidity + ListSum(<< >>, Shares(Posted, TokenTypes, k))
        BY DEF PoolsGave
      <3>1. \A types : ListSum(<< >>, Shares(Posted, types, k)) = 0
        <4>1. \A types : Shares(Posted, types, k) \in [Posted -> Int]
          BY ShareFacts DEF Shares, Posted
        <4> QED
          BY <4>1, ListEmpty
      <3>2. u.markets[k] \in Market
        BY WorldParts DEF Pool
      <3> DEFINE mk == u.markets[k]
      <3>3. mk.totalfCash \in Nat /\ mk.totalLiquidity \in Nat
        BY <3>2 DEF Market
      <3> QED
        BY <3>1, <3>3
    <2>5. s \in R
      BY <2>1, <2>2, <2>3, <2>4 DEF Raising
    <2> QED
      BY <2>5 DEF s
  <1>6. ASSUME NEW i \in D, NEW v \in V
        PROVE  Turn(v, p[i]) \in V
    <2>1. ASSUME NEW s \in v, NEW t \in TradeToken(s, p[i])
          PROVE  t \in R
      <3>1. s \in R
        OBVIOUS
      <3> QED
        BY <1>2, <3>1, TradeTokenKeeps
    <2> QED
      BY <2>1 DEF Turn
  <1> HIDE DEF V, R, base, D
  <1>7. g \in [D \X V -> V] /\ \A i \in D, v \in V : g[<<i, v>>] = Turn(v, p[i])
    BY <1>6
  <1>8. \A s \in SUBSET D : s # {} => next[s] = LastOf(p, s) /\ next[s] \in s
    BY <1>4
  <1> HIDE DEF g, next
  <1>9. PICK F \in [SUBSET D -> V] : IsFold(F, D, base, next, g)
    BY <1>3, <1>5, <1>7, <1>8, FoldExists
  <1>10. IsSales(F, p, D, base)
    <2>1. ASSUME NEW s \in SUBSET D
          PROVE  F[s] = IF s = {} THEN base ELSE Turn(F[s \ {LastOf(p, s)}], p[LastOf(p, s)])
      <3>1. F[s] = IF s = {} THEN base ELSE g[<<next[s], F[s \ {next[s]}]>>]
        BY <1>9 DEF IsFold
      <3>2. ASSUME s # {}
            PROVE  g[<<next[s], F[s \ {next[s]}]>>] = Turn(F[s \ {next[s]}], p[next[s]])
        <4>1. next[s] \in D /\ s \ {next[s]} \in SUBSET D
          BY <1>8, <3>2
        <4>2. F[s \ {next[s]}] \in V
          BY <1>9, <4>1
        <4> QED
          BY <1>7, <4>1, <4>2
      <3> QED
        BY <1>8, <3>1, <3>2
    <2> QED
      BY <1>9, <2>1 DEF IsSales
  <1> DEFINE C == CHOOSE H : IsSales(H, p, D, base)
  <1>11. IsSales(C, p, D, base)
    BY <1>10
  <1>12. RaiseViaLiquidityToken(u, account, c, amount) = BookedIn(account, C[D])
    BY DEF RaiseViaLiquidityToken, MapThenFoldSet, IsSales, Turn, LastOf, LoopStart, TokensIn,
           BookedIn, base, D, p
  <1> HIDE DEF C
  <1>13. C[D] \in V
    <2> DEFINE T == {s \in SUBSET D : C[s] \in V}
    <2>1. {} \in T
      BY <1>5, <1>11 DEF IsSales
    <2>2. ASSUME NEW s \in SUBSET D, s # {}, \A x \in s : s \ {x} \in T
          PROVE  s \in T
      <3> DEFINE i == LastOf(p, s)
                 v == C[s \ {i}]
      <3>1. i \in s /\ i \in D
        BY <1>4, <2>2
      <3>2. C[s] = Turn(v, p[i])
        BY <1>11, <2>2 DEF IsSales
      <3>3. v \in V
        BY <2>2, <3>1
      <3> HIDE DEF v, i
      <3>4. C[s] \in V
        BY <1>6, <3>1, <3>2, <3>3
      <3> QED
        BY <3>4
    <2>3. D \in T
      <3> HIDE DEF T
      <3> QED
        BY <1>3, <2>1, <2>2, RemovalInduction
    <2> QED
      BY <2>3
  <1> QED
    BY <1>12, <1>13 DEF V, R

\* A world with one portfolio edited.
Assigned(w, a, q) == [w EXCEPT !.assets[a] = q]

\* Nothing but the portfolio of that account is edited.
LEMMA AssignedFacts ==
  ASSUME NEW w \in Worlds, NEW a \in Accounts, NEW q \in Portfolio, NEW v, v = Assigned(w, a, q)
  PROVE  EditsAssets(w, v, a, q)
  <1>1. /\ w.assets \in [Accounts -> Portfolio] /\ w.markets \in [DOMAIN Pools -> Pool]
        /\ w.cash \in [Currencies -> Book] /\ w.custody \in [Currencies -> Int]
    BY WorldParts
  <1> DEFINE b == [w.assets EXCEPT ![a] = q]
  <1>2. v = [assets |-> b, markets |-> w.markets, cash |-> w.cash, custody |-> w.custody]
    BY DEF Assigned, Worlds
  <1>3. b \in [Accounts -> Portfolio]
    BY <1>1
  <1>4. v.assets = b
    BY <1>2
  <1> HIDE DEF b
  <1>5. v \in Worlds /\ v.markets = w.markets /\ v.cash = w.cash /\ v.custody = w.custody
    BY <1>1, <1>2, <1>3 DEF Worlds
  <1> QED
    BY <1>4, <1>5 DEF EditsAssets, b

\* The currency c of u has n more than its balances in v, no account's balance is another, and
\* the rest is where it was or has moved from pools and portfolios to others.
Unlocks(u, v, c, n) == v \in Worlds /\ Shifts(u, v, c, n) /\ AccountsKeepCash(u, v)

\* raiseCurrentCashViaLiquidityToken frees what it raises, and at most what is asked.
LEMMA RaiseTokensFacts ==
  ASSUME NEW u \in Worlds, NEW c \in Currencies, NEW account \in Accounts, NEW amount \in Nat,
         NEW r \in RaiseViaLiquidityToken(u, account, c, amount)
  PROVE  r.remaining \in Nat /\ r.remaining <= amount /\ Unlocks(u, r.world, c, amount - r.remaining)
  <1> DEFINE p == u.assets[account]
  <1>1. PICK ss \in SUBSET Raising(u, c, amount) :
          RaiseViaLiquidityToken(u, account, c, amount) = BookedIn(account, ss)
    BY SalesEnd
  <1>2. PICK s \in ss :
          \E q \in UpsertAssets(s.world.assets[account], s.changes, TRUE) :
            r = [world |-> Assigned(s.world, account, q), remaining |-> s.remaining]
    BY <1>1 DEF Assigned, BookedIn
  <1>3. s \in Raising(u, c, amount)
    BY <1>1
  <1>4. PICK q \in UpsertAssets(s.world.assets[account], s.changes, TRUE) :
          r = [world |-> Assigned(s.world, account, q), remaining |-> s.remaining]
    BY <1>2
  <1>5. /\ s.world \in Worlds /\ s.remaining \in Nat /\ s.changes \in Seq(Posted)
        /\ s.world.assets = u.assets /\ AccountsKeepCash(u, s.world) /\ s.remaining <= amount
        /\ Gained(u, s.world, c, amount - s.remaining) /\ PoolsGave(u, s.world, s.changes)
    BY <1>3, RaisingParts
  <1>6. p \in Portfolio /\ s.world.assets[account] = p
    BY <1>5, WorldParts
  <1>7. /\ q \in Portfolio
        /\ \A types \in Sides : \A k :
             Position(q, types, k) = Position(p, types, k) + ListSum(s.changes, Shares(Posted, types, k))
    BY <1>4, <1>5, <1>6, UpsertsAdd
  <1> DEFINE x == s.world
             v == Assigned(x, account, q)
  <1>8. EditsAssets(x, v, account, q)
    <2> HIDE DEF x
    <2> QED
      BY <1>5, <1>7, AssignedFacts DEF x
  <1> HIDE DEF p, v, x
  <1>9. v \in Worlds /\ v.markets = x.markets /\ v.cash = x.cash /\ v.custody = x.custody
    BY <1>8 DEF EditsAssets
  <1>10. SameStock(u, v)
    <2> SUFFICES ASSUME NEW k \in DOMAIN Pools
                 PROVE  Undivided(v, k) = Undivided(u, k)
      BY DEF SameStock
    <2>1. ASSUME NEW types \in Sides
          PROVE  LET sum == ListSum(s.changes, Shares(Posted, types, k))
                 IN  sum \in Int /\ Held(u, types, k) \in Int /\ Held(v, types, k) = Held(u, types, k) + sum
      <3> DEFINE sum == ListSum(s.changes, Shares(Posted, types, k))
                 new == Position(q, types, k)
                 old == Position(p, types, k)
      <3>1. sum \in Int
        <4>1. Shares(Posted, types, k) \in [Posted -> Int]
          BY ShareFacts DEF Shares, Posted
        <4> QED
          BY <1>5, <4>1, ListFacts
      <3>2. /\ new \in Int /\ old \in Int /\ Held(x, types, k) \in Int
            /\ Held(v, types, k) = Held(x, types, k) + (new - old)
        BY <1>5, <1>6, <1>7, <1>8, HeldEdit DEF x
      <3>3. new = old + sum
        BY <1>7
      <3>4. Held(x, types, k) = Held(u, types, k)
        BY <1>5 DEF Held, x
      <3> HIDE DEF sum, new, old
      <3>5. Held(u, types, k) \in Int /\ Held(v, types, k) = Held(u, types, k) + sum
        BY <3>1, <3>2, <3>3, <3>4
      <3> QED
        BY <3>1, <3>5 DEF sum
    <2> DEFINE f == ListSum(s.changes, Shares(Posted, CashTypes, k))
               l == ListSum(s.changes, Shares(Posted, TokenTypes, k))
               old == u.markets[k]
               new == v.markets[k]
    <2>2. f \in Int /\ Held(u, CashTypes, k) \in Int /\ Held(v, CashTypes, k) = Held(u, CashTypes, k) + f
      BY <2>1, ConstantFacts
    <2>3. l \in Int /\ Held(u, TokenTypes, k) \in Int /\ Held(v, TokenTypes, k) = Held(u, TokenTypes, k) + l
      BY <2>1, ConstantFacts
    <2>4. new.totalfCash = old.totalfCash - f /\ new.totalLiquidity = old.totalLiquidity + l
      BY <1>5, <1>9 DEF PoolsGave, x
    <2>5. old \in Market
      BY WorldParts DEF Pool
    <2>6. old.totalfCash \in Nat /\ old.totalLiquidity \in Nat
      BY <2>5 DEF Market
    <2> HIDE DEF f, l, old, new
    <2>7. /\ new.totalfCash + Held(v, CashTypes, k) = old.totalfCash + Held(u, CashTypes, k)
          /\ new.totalLiquidity - Held(v, TokenTypes, k) = old.totalLiquidity - Held(u, TokenTypes, k)
      BY <2>2, <2>3, <2>4, <2>6
    <2> QED
      BY <2>7 DEF Undivided, CashTypes, TokenTypes, old, new
  <1>11. Shifts(u, v, c, amount - s.remaining)
    BY <1>5, <1>9, <1>10 DEF Shifts, Gained, Surplus, x
  <1>12. AccountsKeepCash(u, v)
    BY <1>5, <1>9 DEF AccountsKeepCash, x
  <1>13. r.world = v /\ r.remaining = s.remaining
    BY <1>4 DEF v, x
  <1> QED
    BY <1>5, <1>9, <1>11, <1>12, <1>13 DEF Unlocks

(****************************************************************************)
(* Sale of fCash receivers.                                                 *)
(****************************************************************************)

\* Division keeps the integers.
LEMMA QuotientInt ==
  ASSUME NEW a \in Int, NEW b \in Nat \ {0}
  PROVE  a \div b \in Int
  OBVIOUS

\* The product of two integers is one.
LEMMA ProductInt ==
  ASSUME NEW a \in Int, NEW b \in Int
  PROVE  a * b \in Int
  OBVIOUS

\* What a receiver is worth is an integer.
LEMMA ReceiverValueInt ==
  ASSUME NEW n \in Int, NEW maturity \in Int, NEW time \in Int
  PROVE  ReceiverValue(n, maturity, time) \in Int
  <1> DEFINE product == n * FCashHaircut * (maturity - time)
             year == SecondsInYear * Decimals
             share == n * FCashMaxHaircut
  <1>1. /\ FCashHaircut \in Nat /\ FCashMaxHaircut \in Nat
        /\ SecondsInYear \in Nat \ {0} /\ Decimals \in Nat \ {0}
    BY RatesAssumption, DecimalsAssumption
  <1>2. product \in Int /\ share \in Int
    BY <1>1
  <1>3. year \in Nat \ {0}
    BY <1>1
  <1> HIDE DEF product, year, share
  <1>4. product \div year \in Int /\ share \div Decimals \in Int
    BY <1>1, <1>2, <1>3, QuotientInt
  <1> QED
    BY <1>4 DEF ReceiverValue, LowerOf, product, year, share

\* A posting of the type that an array has on that side takes no entry away.
LEMMA UpsertGrows ==
  ASSUME NEW p \in Portfolio, NEW x \in Posted, NEW q \in UpsertAsset(p, x, FALSE),
         x.assetType = CashReceiver,
         \A j \in DOMAIN p : SameSide(p[j], x) => p[j].assetType = x.assetType
  PROVE  Len(p) <= Len(q)
  <1> DEFINE i == SearchAsset(p, x, TRUE)
  <1>1. /\ p \in Seq(Stored) /\ Stored = Entries(Groups, Maturities)
        /\ Posted = Postings(Groups, Maturities) /\ x.assetType \in AssetTypes
    BY DEF Portfolio, Stored, Posted, Postings
  <1>2. Finds(p, x, TRUE, i)
    BY <1>1, SearchFacts
  <1>3. i # NotFound => i \in DOMAIN p /\ p[i].assetType = x.assetType
    <2> SUFFICES ASSUME i # NotFound
                 PROVE  i \in DOMAIN p /\ p[i].assetType = x.assetType
      OBVIOUS
    <2> HIDE DEF i
    <2>1. /\ i \in DOMAIN p /\ SameInstrument(p[i], x)
          /\ p[i].assetType = x.assetType \/ p[i].assetType = MakeCounterparty(x.assetType)
      BY <1>2 DEF Finds
    <2>2. p[i].assetType \in AssetTypes
      BY <2>1, EntryFacts
    <2>3. IsLiquidityToken(p[i].assetType) = IsLiquidityToken(x.assetType)
      BY <1>1, <2>1, <2>2, CounterpartyFacts
    <2>4. SameSide(p[i], x)
      BY <2>1, <2>3 DEF SameSide
    <2> QED
      BY <2>1, <2>4
  <1>4. /\ i = NotFound => q \in AppendAsset(p, x, FALSE)
        /\ i # NotFound => q = [p EXCEPT ![i].notional = @ + x.notional]
    BY <1>3 DEF UpsertAsset
  <1> HIDE DEF i
  <1>5. CASE i = NotFound
    <2>1. q = Append(p, x)
      BY <1>4, <1>5 DEF AppendAsset
    <2>2. Len(q) = Len(p) + 1 /\ Len(p) \in Nat
      BY <1>1, <2>1
    <2> QED
      BY <2>2
  <1>6. CASE i # NotFound
    <2>1. DOMAIN q = DOMAIN p /\ Len(p) \in Nat /\ q = [p EXCEPT ![i].notional = @ + x.notional]
      BY <1>1, <1>4, <1>6
    <2>2. q = ReplaceAt(p, i, [p[i] EXCEPT !.notional = @ + x.notional])
      BY <1>1, <1>3, <1>6, <2>1 DEF ReplaceAt
    <2>3. Len(q) = Len(p)
      BY <1>1, <2>1
    <2> QED
      BY <2>1, <2>3
  <1> QED
    BY <1>5, <1>6

\* After part of a receiver is taken out of an array, what is left of its side is a receiver.
LEMMA ReducedSide ==
  ASSUME NEW p \in Portfolio, NEW i \in DOMAIN p, p[i].assetType = CashReceiver,
         NEW n \in Nat, NEW x, SameInstrument(p[i], x), x.assetType = CashReceiver
  PROVE  LET q == ReduceAsset(p, i, n)
         IN  /\ Len(q) = IF p[i].notional = n THEN Len(p) - 1 ELSE Len(p)
             /\ \A j \in DOMAIN q : SameSide(q[j], x) => q[j].assetType = x.assetType
  <1> DEFINE q == ReduceAsset(p, i, n)
  <1>1. p \in Seq(Stored) /\ NoDuplicates(p) /\ DOMAIN p = 1 .. Len(p) /\ Len(p) \in Nat
    <2>1. p \in Seq(Stored) /\ NoDuplicates(p)
      BY DEF Portfolio
    <2> QED
      BY <2>1
  <1>2. \A j \in DOMAIN p : SameSide(p[j], x) => j = i
    <2> SUFFICES ASSUME NEW j \in DOMAIN p, SameSide(p[j], x), j # i
                 PROVE  FALSE
      OBVIOUS
    <2>1. SameSide(p[j], p[i])
      BY DEF SameSide, SameInstrument
    <2> QED
      BY <1>1, <2>1 DEF NoDuplicates
  <1>3. CASE p[i].notional = n
    <2>1. q = RemoveAsset(p, i)
      BY <1>3 DEF ReduceAsset
    <2> HIDE DEF q
    <2>2. /\ q \in Seq(Stored) /\ Len(q) = Len(p) - 1
          /\ \A j \in DOMAIN q : Origin(p, i, j) \in DOMAIN p /\ q[j] = p[Origin(p, i, j)]
      BY <1>1, <2>1, RemoveFacts
    <2>3. ASSUME NEW j \in DOMAIN q
          PROVE  ~SameSide(q[j], x)
      <3>1. j \in 1 .. Len(p) - 1
        BY <2>2
      <3>2. Origin(p, i, j) # i
        BY <1>1, <3>1 DEF Origin
      <3> QED
        BY <1>2, <2>2, <3>2
    <2> QED
      BY <1>3, <2>2, <2>3 DEF q
  <1>4. CASE p[i].notional # n
    <2>1. q = [p EXCEPT ![i].notional = @ - n]
      BY <1>4 DEF ReduceAsset
    <2> HIDE DEF q
    <2>2. /\ DOMAIN q = DOMAIN p /\ Len(q) = Len(p)
          /\ \A j \in DOMAIN p : j # i => q[j] = p[j]
          /\ q[i] = [p[i] EXCEPT !.notional = @ - n]
      BY <1>1, <2>1
    <2>3. p[i] \in Stored
      BY EntryFacts
    <2>4. q[i].assetType = CashReceiver
      BY <2>2, <2>3 DEF Stored, Entries
    <2> QED
      BY <1>2, <1>4, <2>2, <2>4 DEF q
  <1> QED
    BY <1>3, <1>4

\* The state of _tradefCashLiquidator's loop, and one that has sold part of amount since the
\* world u.
SaleStates == [world : Worlds, i : Nat \ {0}, length : Nat, remaining : Nat, payment : Int]

OnlyAssetsMove(u, v) ==
  /\ v.cash = u.cash /\ v.markets = u.markets /\ v.custody = u.custody
  /\ SameStock(u, v)

Selling(u, payer, amount) ==
  {s \in SaleStates : /\ OnlyAssetsMove(u, s.world)
                      /\ s.length <= Len(s.world.assets[payer])
                      /\ s.remaining <= amount /\ s.payment = amount - s.remaining}

\* The parts of such a state.
LEMMA SellingParts ==
  ASSUME NEW u, NEW payer, NEW amount, NEW s \in Selling(u, payer, amount)
  PROVE  /\ s.world \in Worlds /\ s.i \in Nat \ {0} /\ s.length \in Nat /\ s.remaining \in Nat
         /\ s.payment \in Int /\ OnlyAssetsMove(u, s.world)
         /\ s.length <= Len(s.world.assets[payer])
         /\ s.remaining <= amount /\ s.payment = amount - s.remaining
         /\ s = [world |-> s.world, i |-> s.i, length |-> s.length, remaining |-> s.remaining,
                 payment |-> s.payment]
  <1>1. s \in SaleStates
    BY DEF Selling
  <1> QED
    BY <1>1 DEF Selling, SaleStates

\* How much of a receiver is sold, and for what.
LEMMA SoldFacts ==
  ASSUME NEW asset, asset.notional \in Nat, NEW value \in Nat, NEW remaining \in Nat \ {0}
  PROVE  /\ NotionalToTransfer(asset, value, remaining) \in Nat
         /\ NotionalToTransfer(asset, value, remaining) <= asset.notional
         /\ LowerOf(value, remaining) \in Nat /\ LowerOf(value, remaining) <= remaining
  <1>1. value >= remaining => /\ (asset.notional * remaining) \div value \in Nat
                              /\ (asset.notional * remaining) \div value <= asset.notional
    BY ProRata
  <1> QED
    BY <1>1 DEF NotionalToTransfer, LowerOf

\* Entry i of a's array in w is n less in v, and has left only when it is sold whole.
Transferred(w, v, a, i, n) ==
  /\ v \in Worlds /\ OnlyAssetsMove(w, v)
  /\ Len(w.assets[a]) - 1 <= Len(v.assets[a])
  /\ n # w.assets[a][i].notional => Len(w.assets[a]) <= Len(v.assets[a])

\* An entry of one array goes to another, or to the same one: what is held stays.
LEMMA TransferFacts ==
  ASSUME NEW w \in Worlds, NEW payer \in Accounts, NEW liquidator \in Accounts,
         NEW i \in DOMAIN w.assets[payer], w.assets[payer][i].assetType = CashReceiver,
         NEW n \in Nat, n <= w.assets[payer][i].notional,
         NEW given, given = Assigned(w, payer, ReduceAsset(w.assets[payer], i, n)),
         NEW q \in UpsertAsset(given.assets[liquidator],
                               [w.assets[payer][i] EXCEPT !.notional = n], FALSE),
         NEW v, v = Assigned(given, liquidator, q)
  PROVE  Transferred(w, v, payer, i, n)
  <1> DEFINE p == w.assets[payer]
             asset == p[i]
             x == [asset EXCEPT !.notional = n]
             y == Asset(asset.cashGroupId, asset.maturity, CashPayer, n)
             less == ReduceAsset(p, i, n)
             taker == given.assets[liquidator]
  <1>1. p \in Portfolio
    BY WorldParts
  <1> HIDE DEF p
  <1>2. /\ asset \in Stored /\ asset.cashGroupId \in Groups /\ asset.maturity \in Maturities
        /\ asset.assetType = CashReceiver /\ i \in DOMAIN p
    BY <1>1, EntryFacts DEF p
  <1>3. x = Asset(asset.cashGroupId, asset.maturity, CashReceiver, n)
    <2> HIDE DEF asset
    <2> QED
      BY <1>2 DEF Stored, Entries, Asset
  <1> HIDE DEF asset
  <1>4. /\ x \in Posted /\ y \in Posted /\ SameInstrument(asset, x) /\ SameInstrument(asset, y)
        /\ x.assetType = CashReceiver /\ y.assetType = CashPayer /\ x.notional = n /\ y.notional = n
        /\ \A types \in Sides : \A k : Share(x, types, k) + Share(y, types, k) = 0
    <2>1. x \in Posted /\ y \in Posted
      BY <1>2, <1>3 DEF Posted, Postings, Asset, AssetTypes
    <2>2. /\ x.assetType = CashReceiver /\ y.assetType = CashPayer /\ x.notional = n /\ y.notional = n
          /\ x.cashGroupId = asset.cashGroupId /\ x.maturity = asset.maturity
          /\ y.cashGroupId = asset.cashGroupId /\ y.maturity = asset.maturity
      BY <1>3 DEF Asset
    <2> HIDE DEF x, y
    <2>3. Signed(x) = n /\ Signed(y) = -n
      BY <2>2 DEF Signed, CashPayer, CashReceiver, LiquidityPayer
    <2>4. \A types \in Sides : x.assetType \in types <=> y.assetType \in types
      BY <2>2 DEF Sides, CashPayer, CashReceiver, LiquidityToken, LiquidityPayer
    <2>5. \A types \in Sides : \A k : Share(x, types, k) + Share(y, types, k) = 0
      BY <2>2, <2>3, <2>4 DEF Share
    <2> QED
      BY <2>1, <2>2, <2>5 DEF SameInstrument
  <1> HIDE DEF x, y
  <1>5. /\ p \in Seq(Stored) /\ NoDuplicates(p) /\ Stored = Entries(Groups, Maturities)
        /\ Posted = Postings(Groups, Maturities) /\ Len(p) \in Nat
    <2>1. p \in Seq(Stored) /\ NoDuplicates(p)
      BY <1>1 DEF Portfolio
    <2> QED
      BY <2>1 DEF Stored, Posted
  <1>6. Adds(Groups, Maturities, p, y, less)
    <2>1. asset.assetType = MakeCounterparty(y.assetType) /\ y.notional <= asset.notional
      BY <1>2, <1>4 DEF MakeCounterparty, CashPayer, CashReceiver, LiquidityToken, LiquidityPayer, asset, p
    <2>2. ReduceAsset(p, i, y.notional) = less
      BY <1>4
    <2>3. Adds(Groups, Maturities, p, y, ReduceAsset(p, i, y.notional))
      BY <1>2, <1>4, <1>5, <2>1, ReduceAdds DEF asset
    <2> QED
      BY <2>2, <2>3
  <1>7. /\ Len(less) = (IF asset.notional = n THEN Len(p) - 1 ELSE Len(p))
        /\ \A j \in DOMAIN less : SameSide(less[j], x) => less[j].assetType = x.assetType
    BY <1>1, <1>2, <1>4, ReducedSide DEF asset
  <1> HIDE DEF less
  <1>8. /\ less \in Portfolio
        /\ \A types \in Sides : \A k :
             Position(less, types, k) = Position(p, types, k) + Share(y, types, k)
    BY <1>6 DEF Adds, Portfolio, Stored
  <1>9. EditsAssets(w, given, payer, less)
    BY <1>8, AssignedFacts DEF less, p
  <1>10. given \in Worlds /\ taker \in Portfolio /\ given.assets = [w.assets EXCEPT ![payer] = less]
    <2>1. given \in Worlds /\ given.assets = [w.assets EXCEPT ![payer] = less]
      BY <1>9 DEF EditsAssets
    <2> QED
      BY <2>1, WorldParts
  <1> HIDE DEF taker
  <1>11. q \in UpsertAsset(taker, x, FALSE)
    BY DEF taker, x, asset, p
  <1>12. Adds(Groups, Maturities, taker, x, q)
    <2>1. taker \in Seq(Stored) /\ NoDuplicates(taker)
      BY <1>10 DEF Portfolio
    <2> QED
      BY <1>4, <1>5, <1>11, <2>1, UpsertFacts
  <1>13. /\ q \in Portfolio
         /\ \A types \in Sides : \A k :
              Position(q, types, k) = Position(taker, types, k) + Share(x, types, k)
    BY <1>12 DEF Adds, Portfolio, Stored
  <1>14. EditsAssets(given, v, liquidator, q)
    BY <1>10, <1>13, AssignedFacts
  <1>15. SameStock(w, v)
    <2>1. ASSUME NEW types \in Sides, NEW k
          PROVE  Held(v, types, k) = Held(w, types, k)
      <3> DEFINE out == Share(y, types, k)
                 in == Share(x, types, k)
                 a == Position(p, types, k)
                 b == Position(less, types, k)
                 c == Position(taker, types, k)
                 d == Position(q, types, k)
      <3>1. in \in Int /\ out \in Int /\ in + out = 0
        BY <1>4, ShareFacts DEF Posted
      <3>2. /\ b \in Int /\ a \in Int /\ Held(w, types, k) \in Int
            /\ Held(given, types, k) = Held(w, types, k) + (b - a)
        BY <1>8, <1>9, HeldEdit DEF p
      <3>3. /\ d \in Int /\ c \in Int
            /\ Held(v, types, k) = Held(given, types, k) + (d - c)
        <4>1. /\ d \in Int /\ Position(given.assets[liquidator], types, k) \in Int
              /\ Held(v, types, k)
                   = Held(given, types, k) + (d - Position(given.assets[liquidator], types, k))
          <5>1. given \in Worlds
            BY <1>10
          <5> QED
            BY <5>1, <1>13, <1>14, HeldEdit
        <4> QED
          BY <4>1 DEF taker
      <3>4. b = a + out /\ d = c + in
        BY <1>8, <1>13
      <3> HIDE DEF in, out, a, b, c, d
      <3> QED
        BY <3>1, <3>2, <3>3, <3>4
    <2>2. v.markets = w.markets
      BY <1>9, <1>14 DEF EditsAssets
    <2>3. \A k : Held(v, CashTypes, k) = Held(w, CashTypes, k) /\ Held(v, TokenTypes, k) = Held(w, TokenTypes, k)
      BY <2>1, ConstantFacts
    <2> QED
      BY <2>2, <2>3 DEF SameStock, Undivided, CashTypes, TokenTypes
  <1>16. v \in Worlds /\ OnlyAssetsMove(w, v)
    BY <1>9, <1>14, <1>15 DEF EditsAssets, OnlyAssetsMove
  <1>17. Len(less) <= Len(v.assets[payer])
    <2>1. v.assets = [given.assets EXCEPT ![liquidator] = q] /\ given.assets \in [Accounts -> Portfolio]
      BY <1>10, <1>14, WorldParts DEF EditsAssets
    <2>2. given.assets[payer] = less
      BY <1>10, WorldParts
    <2>3. CASE liquidator = payer
      <3>1. taker = less /\ v.assets[payer] = q
        BY <2>1, <2>2, <2>3 DEF taker
      <3> QED
        BY <1>4, <1>7, <1>8, <1>11, <3>1, UpsertGrows
    <2>4. CASE liquidator # payer
      <3>1. v.assets[payer] = less
        BY <2>1, <2>2, <2>4
      <3>2. Len(less) \in Nat
        BY <1>8 DEF Portfolio
      <3> QED
        BY <3>1, <3>2
    <2> QED
      BY <2>3, <2>4
  <1>18. Len(v.assets[payer]) \in Nat
    <2>1. v.assets[payer] \in Portfolio
      BY <1>16, WorldParts
    <2> QED
      BY <2>1 DEF Portfolio
  <1>19. /\ Len(p) - 1 <= Len(v.assets[payer])
         /\ n # asset.notional => Len(p) <= Len(v.assets[payer])
    BY <1>5, <1>7, <1>17, <1>18
  <1> QED
    BY <1>16, <1>19 DEF Transferred, asset, p

\* A turn of the loop sells part of what remains, if anything.
LEMMA SellKeeps ==
  ASSUME NEW u \in Worlds, NEW payer \in Accounts, NEW liquidator \in Accounts, NEW c,
         NEW amount \in Nat, NEW s \in Selling(u, payer, amount),
         NEW t \in SellReceiver(s, payer, liquidator, c)
  PROVE  t \in Selling(u, payer, amount)
  <1> DEFINE w == s.world
             p == w.assets[payer]
             asset == p[s.i]
             value == ReceiverValue(asset.notional, asset.maturity, Now)
             sold == NotionalToTransfer(asset, value, s.remaining)
             paid == LowerOf(value, s.remaining)
             whole == sold = asset.notional
             given == Assigned(w, payer, ReduceAsset(p, s.i, sold))
             Done(q) == [world     |-> Assigned(given, liquidator, q),
                         i         |-> IF whole THEN s.i ELSE s.i + 1,
                         length    |-> IF whole THEN s.length - 1 ELSE s.length,
                         remaining |-> s.remaining - paid,
                         payment   |-> s.payment + paid]
  <1>1. /\ w \in Worlds /\ s.i \in Nat \ {0} /\ s.length \in Nat /\ s.remaining \in Nat
        /\ s.payment \in Int /\ OnlyAssetsMove(u, w)
        /\ s.length <= Len(p)
        /\ s.remaining <= amount /\ s.payment = amount - s.remaining
        /\ s = [world |-> w, i |-> s.i, length |-> s.length, remaining |-> s.remaining,
                payment |-> s.payment]
    BY SellingParts
  <1>2. \/ t = s
        \/ ~(s.i > s.length) /\ s.remaining # 0 /\ t = [s EXCEPT !.i = @ + 1]
        \/ /\ ~(s.i > s.length) /\ s.remaining # 0 /\ asset.assetType = CashReceiver /\ ~(value < 0)
           /\ \E q \in UpsertAsset(given.assets[liquidator], [asset EXCEPT !.notional = sold], FALSE) :
                t = Done(q)
    <2> DEFINE after == given.assets[liquidator]
               moved == [asset EXCEPT !.notional = sold]
    <2>1. t \in CASE s.i > s.length \/ s.remaining = 0 -> {s}
                  [] OTHER ->
                       IF asset.assetType # CashReceiver \/ ~IsIn(asset, c)
                       THEN {[s EXCEPT !.i = @ + 1]}
                       ELSE IF value < 0 THEN {}
                       ELSE { Done(q) : q \in UpsertAsset(after, moved, FALSE) }
      BY DEF SellReceiver, Assigned
    <2> HIDE DEF Done, value, after, moved, asset
    <2> QED
      BY <2>1 DEF after, moved
  <1>3. CASE t = s
    BY <1>3
  <1>4. CASE ~(s.i > s.length) /\ s.remaining # 0 /\ t = [s EXCEPT !.i = @ + 1]
    <2> HIDE DEF w
    <2>1. t = [world |-> w, i |-> s.i + 1, length |-> s.length, remaining |-> s.remaining,
               payment |-> s.payment]
      BY <1>1, <1>4
    <2>2. s.i + 1 \in Nat \ {0}
      BY <1>1
    <2> QED
      BY <1>1, <2>1, <2>2 DEF Selling, SaleStates
  <1>5. CASE /\ ~(s.i > s.length) /\ s.remaining # 0 /\ asset.assetType = CashReceiver /\ ~(value < 0)
             /\ \E q \in UpsertAsset(given.assets[liquidator], [asset EXCEPT !.notional = sold], FALSE) :
                  t = Done(q)
    <2>1. p \in Portfolio
      BY <1>1, WorldParts
    <2>2. s.i \in DOMAIN p /\ s.i <= s.length /\ Len(p) \in Nat
      <3> HIDE DEF p
      <3>1. DOMAIN p = 1 .. Len(p) /\ Len(p) \in Nat
        <4>1. p \in Seq(Stored)
          BY <2>1 DEF Portfolio
        <4> QED
          BY <4>1
      <3> QED
        BY <1>1, <1>5, <3>1
    <2>3. asset.notional \in Nat /\ asset.maturity \in Nat
      BY <2>1, <2>2, EntryFacts
    <2>4. value \in Nat
      <3>1. value \in Int
        <4> HIDE DEF asset
        <4>1. asset.notional \in Int /\ asset.maturity \in Int /\ Now \in Int
          BY <2>3, GroupsAssumption
        <4> QED
          BY <4>1, ReceiverValueInt
      <3> HIDE DEF value
      <3> QED
        BY <1>5, <3>1
    <2>5. sold \in Nat /\ sold <= asset.notional /\ paid \in Nat /\ paid <= s.remaining
      <3> HIDE DEF value
      <3> QED
        BY <1>1, <1>5, <2>3, <2>4, SoldFacts
    <2>6. PICK q \in UpsertAsset(given.assets[liquidator], [asset EXCEPT !.notional = sold], FALSE) :
            t = Done(q)
      BY <1>5
    <2> DEFINE v == Assigned(given, liquidator, q)
    <2> HIDE DEF sold, paid, value
    <2>7. /\ v \in Worlds /\ OnlyAssetsMove(w, v)
          /\ Len(p) - 1 <= Len(v.assets[payer])
          /\ ~whole => Len(p) <= Len(v.assets[payer])
      <3> DEFINE j == s.i
                 n == sold
      <3>1. w \in Worlds /\ j \in DOMAIN w.assets[payer] /\ w.assets[payer][j].assetType = CashReceiver
        BY <1>1, <1>5, <2>2
      <3>2. n \in Nat /\ n <= w.assets[payer][j].notional
        BY <2>5
      <3>3. given = Assigned(w, payer, ReduceAsset(w.assets[payer], j, n))
        OBVIOUS
      <3>4. q \in UpsertAsset(given.assets[liquidator], [w.assets[payer][j] EXCEPT !.notional = n], FALSE)
        BY <2>6
      <3>5. v = Assigned(given, liquidator, q)
        OBVIOUS
      <3>6. whole <=> n = w.assets[payer][j].notional
        OBVIOUS
      <3> HIDE DEF w, j, n, given, v, whole
      <3>7. Transferred(w, v, payer, j, n)
        BY <3>1, <3>2, <3>3, <3>4, <3>5, TransferFacts
      <3> QED
        BY <3>6, <3>7 DEF Transferred
    <2>8. Len(v.assets[payer]) \in Nat
      <3>1. v.assets[payer] \in Portfolio
        BY <2>7, WorldParts
      <3> QED
        BY <3>1 DEF Portfolio
    <2>9. t.world = v /\ t \in [world : {v}, i : {IF whole THEN s.i ELSE s.i + 1},
                                length : {IF whole THEN s.length - 1 ELSE s.length},
                                remaining : {s.remaining - paid}, payment : {s.payment + paid}]
      BY <2>6
    <2> HIDE DEF v, given, whole, asset, p
    <2>10. OnlyAssetsMove(u, v)
      BY <1>1, <2>7 DEF OnlyAssetsMove, SameStock
    <2>11. /\ (IF whole THEN s.i ELSE s.i + 1) \in Nat \ {0}
           /\ (IF whole THEN s.length - 1 ELSE s.length) \in Nat
           /\ (IF whole THEN s.length - 1 ELSE s.length) <= Len(v.assets[payer])
           /\ s.remaining - paid \in Nat /\ s.payment + paid \in Int
           /\ s.remaining - paid <= amount /\ s.payment + paid = amount - (s.remaining - paid)
      <3>1. /\ s.remaining - paid \in Nat /\ s.payment + paid \in Int
            /\ s.remaining - paid <= amount /\ s.payment + paid = amount - (s.remaining - paid)
        BY <1>1, <2>5
      <3>2. CASE whole
        BY <1>1, <2>2, <2>7, <2>8, <3>1, <3>2
      <3>3. CASE ~whole
        BY <1>1, <2>2, <2>7, <2>8, <3>1, <3>3
      <3> QED
        BY <3>2, <3>3
    <2> QED
      BY <2>7, <2>9, <2>10, <2>11 DEF Selling, SaleStates
  <1> QED
    BY <1>2, <1>3, <1>4, <1>5

\* The loop as a table over the positions of the array.
SaleTurn(ss, payer, liquidator, c) == UNION {SellReceiver(s, payer, liquidator, c) : s \in ss}

IsSaleChain(F, p, base, payer, liquidator, c) ==
  F = [s \in SUBSET DOMAIN p |->
         IF s = {} THEN base ELSE SaleTurn(F[s \ {Max(s)}], payer, liquidator, c)]

SaleStart(w, payer, amount) ==
  [world |-> w, i |-> 1, length |-> Len(w.assets[payer]), remaining |-> amount, payment |-> 0]

\* raiseCurrentCashViaCashReceiver moves receivers to the liquidator, who owes what is raised,
\* at most what is asked.
LEMMA RaiseReceiversFacts ==
  ASSUME NEW u \in Worlds, NEW payer \in Accounts, NEW liquidator \in Accounts, NEW c,
         NEW amount \in Int, NEW r \in RaiseViaCashReceiver(u, payer, liquidator, c, amount)
  PROVE  /\ r.world \in Worlds /\ OnlyAssetsMove(u, r.world)
         /\ r.remaining \in Nat /\ r.payment = amount - r.remaining
         /\ amount > 0
  <1> DEFINE p == u.assets[payer]
             N == Len(p)
             R == Selling(u, payer, amount)
             V == SUBSET R
             base == {SaleStart(u, payer, amount)}
             After(v) == SaleTurn(v, payer, liquidator, c)
             g == [z \in (1 .. N) \X V |-> After(z[2])]
  <1>1. p \in Portfolio
    BY WorldParts
  <1> HIDE DEF p
  <1>2. N \in Nat /\ DOMAIN p = 1 .. N
    <2>1. p \in Seq(Stored)
      BY <1>1 DEF Portfolio
    <2> QED
      BY <2>1
  <1>3. /\ amount > 0
        /\ r \in FoldLeft(LAMBDA ss, x : UNION {SellReceiver(s, payer, liquidator, c) : s \in ss},
                          base, p)
    BY DEF RaiseViaCashReceiver, SaleStart, p
  <1>4. amount \in Nat
    <2>1. amount > 0
      BY <1>3
    <2> QED
      BY <2>1
  <1>5. base \in V
    <2> DEFINE s == SaleStart(u, payer, amount)
    <2>1. s \in SaleStates /\ s.world = u /\ s.length = Len(p) /\ s.remaining = amount /\ s.payment = 0
      <3>1. 1 \in Nat \ {0} /\ 0 \in Int
        OBVIOUS
      <3> QED
        BY <1>2, <1>4, <3>1 DEF SaleStates, SaleStart, p
    <2> HIDE DEF s
    <2>2. OnlyAssetsMove(u, u)
      BY DEF OnlyAssetsMove, SameStock
    <2>3. s \in R
      BY <1>2, <1>4, <2>1, <2>2 DEF Selling, p
    <2> QED
      BY <2>3 DEF s
  <1>6. ASSUME NEW v \in V
        PROVE  After(v) \in V
    <2>1. ASSUME NEW s \in v, NEW t \in SellReceiver(s, payer, liquidator, c)
          PROVE  t \in R
      <3>1. s \in R
        OBVIOUS
      <3> QED
        BY <1>4, <3>1, SellKeeps
    <2> QED
      BY <2>1 DEF SaleTurn
  <1> HIDE DEF V, R, base, After
  <1>7. g \in [(1 .. N) \X V -> V] /\ \A n \in 1 .. N, v \in V : g[<<n, v>>] = After(v)
    BY <1>6
  <1> HIDE DEF g, N
  <1>8. PICK F \in [SUBSET (1 .. N) -> V] : IsChain(F, N, base, g)
    BY <1>2, <1>5, <1>7, ChainExists
  <1>9. IsSaleChain(F, p, base, payer, liquidator, c)
    <2>1. ASSUME NEW s \in SUBSET (1 .. N)
          PROVE  F[s] = IF s = {} THEN base ELSE After(F[s \ {Max(s)}])
      <3>1. F[s] = IF s = {} THEN base ELSE g[<<Max(s), F[s \ {Max(s)}]>>]
        BY <1>8 DEF IsChain
      <3>2. ASSUME s # {}
            PROVE  g[<<Max(s), F[s \ {Max(s)}]>>] = After(F[s \ {Max(s)}])
        <4>1. Max(s) \in 1 .. N /\ s \ {Max(s)} \in SUBSET (1 .. N)
          BY <1>2, <3>2, MaxFacts
        <4>2. F[s \ {Max(s)}] \in V
          BY <1>8, <4>1
        <4> QED
          BY <1>7, <4>1, <4>2
      <3> QED
        BY <3>1, <3>2
    <2> QED
      BY <1>2, <1>8, <2>1 DEF IsSaleChain, After
  <1> DEFINE C == CHOOSE H : IsSaleChain(H, p, base, payer, liquidator, c)
  <1>10. IsSaleChain(C, p, base, payer, liquidator, c)
    BY <1>9
  <1>11. r \in C[DOMAIN p]
    BY <1>3 DEF FoldLeft, MapThenFoldSet, IsSaleChain, SaleTurn
  <1> HIDE DEF C
  <1>12. C[1 .. N] \in V
    <2>1. C[{}] \in V
      BY <1>5, <1>10 DEF IsSaleChain
    <2>2. ASSUME NEW n \in 1 .. N, C[(1 .. n) \ {n}] \in V
          PROVE  C[1 .. n] \in V
      <3>1. 1 .. n \in SUBSET DOMAIN p /\ 1 .. n # {} /\ Max(1 .. n) = n
        BY <1>2, ChainPrefix
      <3>2. C[1 .. n] = After(C[(1 .. n) \ {n}])
        BY <1>10, <3>1 DEF IsSaleChain, After
      <3> QED
        BY <1>6, <2>2, <3>2
    <2> QED
      BY <1>2, <2>1, <2>2, ChainStays
  <1>13. r \in R
    BY <1>2, <1>11, <1>12 DEF V
  <1>14. amount > 0
    BY <1>3
  <1>15. /\ r.world \in Worlds /\ OnlyAssetsMove(u, r.world)
         /\ r.remaining \in Nat /\ r.payment = amount - r.remaining
    BY <1>13, SellingParts DEF R
  <1> QED
    BY <1>14, <1>15

(****************************************************************************)
(* What a portfolio is worth is a number.                                   *)
(****************************************************************************)

\* A sum over a finite set of what are integers there.
LEMMA SumInt ==
  ASSUME NEW S, IsFiniteSet(S), NEW f, \A x \in S : f[x] \in Int
  PROVE  SumOf(f, S) \in Int /\ ((\A x \in S : f[x] \in Nat) => SumOf(f, S) \in Nat)
  <1> DEFINE e == [x \in S |-> f[x]]
  <1>1. e \in [S -> Int] /\ \A x \in S : f[x] = e[x]
    OBVIOUS
  <1>2. (\A x \in S : f[x] \in Nat) => e \in [S -> Nat]
    OBVIOUS
  <1> HIDE DEF e
  <1>3. SumOf(f, S) = SumOf(e, S) /\ SumOf(e, S) \in Int
    BY <1>1, SumSame, SumType
  <1>4. e \in [S -> Nat] => SumOf(e, S) \in Nat
    BY SumNat
  <1> QED
    BY <1>2, <1>3, <1>4

\* What a token of an entry claims of a pool's total.
LEMMA TokenClaimNat ==
  ASSUME NEW total \in Nat, NEW mk \in Market, mk.totalLiquidity > 0, NEW asset, asset.notional \in Nat,
         NEW time
  PROVE  TokenClaim(total, mk, asset, time) \in Nat
  <1> DEFINE n == asset.notional
             supply == mk.totalLiquidity
             cut == total * n * LiquidityHaircut
             whole == total * n
             scaled == Decimals * supply
  <1>1. supply \in Nat /\ supply > 0 /\ LiquidityHaircut \in Nat /\ Decimals \in Nat /\ Decimals > 0
    BY RatesAssumption, DecimalsAssumption DEF Market
  <1> HIDE DEF n, supply
  <1>2. whole \in Nat /\ cut \in Nat
    BY <1>1 DEF n
  <1>3. scaled \in Nat /\ scaled > 0
    BY <1>1
  <1> HIDE DEF cut, whole, scaled
  <1>4. cut \div scaled \in Nat /\ whole \div supply \in Nat
    BY <1>1, <1>2, <1>3, QuotientBounds
  <1> QED
    BY <1>4 DEF TokenClaim, cut, whole, scaled, n, supply

\* A portfolio that can be valued.
LEMMA EntryValues ==
  ASSUME NEW w \in Worlds, NEW a \in Accounts, CanValue(w.assets[a], w.markets, Now),
         NEW i \in DOMAIN w.assets[a]
  PROVE  /\ CashClaimOf(w.assets[a][i], w.markets, Now) \in Nat
         /\ fCashOf(w.assets[a][i], w.markets, Now) \in Int
  <1> DEFINE p == w.assets[a]
             x == p[i]
             mk == PoolOf(w.markets, x)
  <1>1. p \in Portfolio
    BY WorldParts
  <1>2. /\ x.notional \in Nat /\ <<x.cashGroupId, x.maturity>> \in DOMAIN Pools
    BY <1>1, EntryFacts
  <1>3. mk \in Market
    BY <1>2, WorldParts DEF PoolOf, Pool
  <1>4. mk.totalCurrentCash \in Nat /\ mk.totalfCash \in Nat
    BY <1>3 DEF Market
  <1>5. IsLiquidityToken(x.assetType) => mk.totalLiquidity > 0
    BY DEF CanValue
  <1> HIDE DEF x, mk
  <1>6. IsLiquidityToken(x.assetType) => /\ TokenClaim(mk.totalCurrentCash, mk, x, Now) \in Nat
                                         /\ TokenClaim(mk.totalfCash, mk, x, Now) \in Nat
    BY <1>2, <1>3, <1>4, <1>5, TokenClaimNat
  <1>7. CashClaimOf(x, w.markets, Now) \in Nat
    BY <1>6 DEF CashClaimOf, mk
  <1>8. fCashOf(x, w.markets, Now) \in Int
    BY <1>2, <1>6 DEF fCashOf, Signed, mk
  <1> QED
    BY <1>7, <1>8 DEF x

\* The positions of a portfolio are finitely many.
LEMMA PositionsFinite ==
  ASSUME NEW p \in Portfolio, NEW R \in SUBSET DOMAIN p
  PROVE  IsFiniteSet(R)
  <1>1. p \in Seq(Stored)
    BY DEF Portfolio
  <1>2. DOMAIN p = 1 .. Len(p) /\ Len(p) \in Nat
    BY <1>1
  <1>3. IsFiniteSet(DOMAIN p)
    BY <1>2, FS_Interval
  <1> QED
    BY <1>3, FS_Subset

\* The value of a group's entries.
LEMMA GroupValueInt ==
  ASSUME NEW w \in Worlds, NEW a \in Accounts, CanValue(w.assets[a], w.markets, Now),
         NEW all \in SUBSET DOMAIN w.assets[a]
  PROVE  GroupValueAt(w.assets[a], all, TRUE, w.markets, Now) \in Int
  <1> DEFINE p == w.assets[a]
             matured == {i \in all : p[i].maturity <= Now}
             claim   == [i \in all |-> CashClaimOf(p[i], w.markets, Now)]
             fCash   == [i \in all |-> fCashOf(p[i], w.markets, Now)]
             counted == [i \in all |-> IF TRUE THEN fCash[i] ELSE LowerOf(fCash[i], 0)]
             slot(j) == {i \in all \ matured : Offset(p[i], Now) = j}
             ladder  == [j \in 0 .. NumMaturities - 1 |-> SlotValue(SumOf(counted, slot(j)), j, Now)]
  <1>1. p \in Portfolio
    BY WorldParts
  <1>2. \A i \in all : claim[i] \in Int /\ fCash[i] \in Int /\ counted[i] \in Int
    BY EntryValues
  <1>3. IsFiniteSet(all) /\ IsFiniteSet(matured) /\ \A j : IsFiniteSet(slot(j))
    <2>1. all \in SUBSET DOMAIN p /\ matured \in SUBSET DOMAIN p /\ \A j : slot(j) \in SUBSET DOMAIN p
      OBVIOUS
    <2> HIDE DEF matured, slot, p
    <2> QED
      BY <1>1, <2>1, PositionsFinite
  <1>4. \A i \in matured : fCash[i] \in Int
    BY <1>2
  <1>5. \A j : \A i \in slot(j) : counted[i] \in Int
    BY <1>2
  <1>6. GroupValueAt(p, all, TRUE, w.markets, Now)
          = SumOf(claim, all) + SumOf(fCash, matured) + SumOf(ladder, 0 .. NumMaturities - 1)
    BY DEF GroupValueAt, SumOf
  <1> HIDE DEF matured, claim, fCash, counted, slot
  <1>7. /\ SumOf(claim, all) \in Int /\ SumOf(fCash, matured) \in Int
        /\ \A j : SumOf(counted, slot(j)) \in Int
    BY <1>2, <1>3, <1>4, <1>5, SumInt
  <1>8. \A j \in 0 .. NumMaturities - 1 : ladder[j] \in Int
    <2> SUFFICES ASSUME NEW j \in 0 .. NumMaturities - 1
                 PROVE  SlotValue(SumOf(counted, slot(j)), j, Now) \in Int
      OBVIOUS
    <2> DEFINE n == SumOf(counted, slot(j))
               maturity == SlotMaturity(j, Now)
    <2>1. n \in Int
      BY <1>7
    <2>2. maturity \in Int
      BY GroupAssumption, GroupsAssumption DEF SlotMaturity, InitialMaturity
    <2> HIDE DEF n, maturity
    <2>3. ReceiverValue(n, maturity, Now) \in Int
      BY <2>1, <2>2, GroupsAssumption, ReceiverValueInt
    <2> QED
      BY <2>1, <2>3 DEF SlotValue, n, maturity
  <1>9. IsFiniteSet(0 .. NumMaturities - 1)
    BY GroupAssumption, FS_Interval
  <1> HIDE DEF ladder
  <1>10. SumOf(ladder, 0 .. NumMaturities - 1) \in Int
    BY <1>8, <1>9, SumInt
  <1> DEFINE x == SumOf(claim, all)
             y == SumOf(fCash, matured)
             z == SumOf(ladder, 0 .. NumMaturities - 1)
  <1>11. x \in Int /\ y \in Int /\ z \in Int /\ GroupValueAt(p, all, TRUE, w.markets, Now) = x + y + z
    BY <1>6, <1>7, <1>10
  <1> HIDE DEF x, y, z
  <1>12. x + y + z \in Int
    BY <1>11
  <1> QED
    BY <1>11, <1>12, Zenon

\* An account's net position in a currency, and the claims of its tokens.
LEMMA NetAvailableInt ==
  ASSUME NEW w \in Worlds, NEW a \in Accounts, CanValue(w.assets[a], w.markets, Now),
         NEW c \in Currencies
  PROVE  NetAvailable(w, a, c) \in Int /\ CashClaims(w, a, c) \in Nat
  <1> DEFINE p == w.assets[a]
             of(g) == {i \in DOMAIN p : p[i].cashGroupId = g}
             value == [g \in GroupsOf(c) |-> GroupValueAt(p, of(g), TRUE, w.markets, Now)]
             claim == [i \in DOMAIN p |-> CashClaimOf(p[i], w.markets, Now)]
             inC == {i \in DOMAIN p : IsIn(p[i], c)}
  <1>1. \A g \in GroupsOf(c) : value[g] \in Int
    BY GroupValueInt
  <1>2. IsFiniteSet(GroupsOf(c))
    <2>1. GroupsOf(c) \in SUBSET Groups
      BY DEF GroupsOf, Groups
    <2> QED
      BY <2>1, ConstantFacts, FS_Subset
  <1>3. \A i \in inC : claim[i] \in Nat /\ claim[i] \in Int
    BY EntryValues
  <1>4. IsFiniteSet(inC)
    <2>1. p \in Portfolio /\ inC \in SUBSET DOMAIN p
      BY WorldParts
    <2> HIDE DEF p, inC
    <2> QED
      BY <2>1, PositionsFinite
  <1>5. NetAvailable(w, a, c) = w.cash[c][a] + SumOf(value, GroupsOf(c))
    BY DEF NetAvailable, SumOf
  <1>6. CashClaims(w, a, c) = SumOf(claim, inC)
    BY DEF CashClaims, SumOf
  <1>7. w.cash[c][a] \in Int
    BY WorldParts, ConstantFacts
  <1> HIDE DEF value, claim, inC
  <1>8. SumOf(value, GroupsOf(c)) \in Int
    BY <1>1, <1>2, SumInt
  <1>9. SumOf(claim, inC) \in Nat
    BY <1>3, <1>4, SumInt
  <1> QED
    BY <1>5, <1>6, <1>7, <1>8, <1>9

(****************************************************************************)
(* Conversions.                                                             *)
(****************************************************************************)
Rates == [Priced -> Nat \ {0}]

\* The constants that the conversions multiply with and divide by.
LEMMA Divisors ==
  /\ Decimals \in Nat \ {0} /\ Decimals * Decimals \in Nat \ {0} /\ Buffer \in Nat
  /\ RepoIncentive \in Nat \ {0}
  /\ LiquidityHaircut \in Nat \ {0} /\ LiquidityHaircut < Decimals
  /\ Decimals - LiquidityHaircut \in Nat \ {0}
  /\ \A discount \in {LiquidationDiscount, SettlementDiscount} :
       /\ discount \in Nat \ {0} /\ Buffer - discount \in Nat \ {0}
  <1>1. /\ Decimals \in Nat \ {0} /\ Buffer \in Nat
        /\ LiquidityHaircut \in 1 .. Decimals - 1
        /\ LiquidationDiscount \in Decimals .. Buffer - 1
        /\ SettlementDiscount \in Decimals .. Buffer - 1
    BY DecimalsAssumption, RatesAssumption, DiscountsAssumption
  <1>2. Decimals * Decimals \in Nat \ {0}
    BY <1>1
  <1>3. RepoIncentive \in Nat \ {0}
    BY <1>1, DiscountsAssumption
  <1> QED
    BY <1>1, <1>2, <1>3

\* What an amount is worth in ether.
LEMMA ToEthInt ==
  ASSUME NEW c \in Currencies, NEW n \in Int, NEW buffer \in Nat, NEW rates \in Rates
  PROVE  ToEth(c, n, buffer, rates) \in Int
  <1>1. CASE c = Ether
    <2>1. n * buffer \in Int
      BY ProductInt
    <2> QED
      BY <1>1, <2>1, Divisors, QuotientInt DEF ToEth
  <1>2. CASE c # Ether
    <2> DEFINE r == rates[c]
    <2>1. r \in Nat
      BY <1>2 DEF Rates, Priced
    <2> HIDE DEF r
    <2>2. r * n * buffer \in Int
      BY <2>1
    <2>3. (r * n * buffer) \div (Decimals * Decimals) \in Int
      BY <2>2, Divisors, QuotientInt
    <2> QED
      BY <1>2, <2>3 DEF ToEth, r
  <1> QED
    BY <1>1, <1>2

\* Nor is the value in ether, buffered or not, anything but a number.
LEMMA EthValueInt ==
  ASSUME NEW c \in Currencies, NEW n \in Int, NEW rates \in Rates
  PROVE  EthValue(c, n, rates) \in Int
  <1>1. -n \in Int /\ Buffer \in Nat /\ Decimals \in Nat
    BY Divisors
  <1>2. ToEth(c, -n, Buffer, rates) \in Int /\ ToEth(c, n, Decimals, rates) \in Int
    BY <1>1, ToEthInt
  <1> DEFINE x == ToEth(c, -n, Buffer, rates)
             y == ToEth(c, n, Decimals, rates)
  <1>3. EthValue(c, n, rates) = IF n < 0 THEN -x ELSE y
    BY DEF EthValue
  <1> HIDE DEF x, y
  <1> QED
    BY <1>2, <1>3 DEF x, y

\* An account's free collateral.
LEMMA FreeCollateralInt ==
  ASSUME NEW w \in Worlds, NEW a \in Accounts, CanValue(w.assets[a], w.markets, Now), ethRate \in Rates
  PROVE  FreeCollateral(w, a) \in Int
  <1> DEFINE value == [c \in Currencies |-> EthValue(c, NetAvailable(w, a, c), ethRate)]
  <1>1. \A c \in Currencies : value[c] \in Int
    BY NetAvailableInt, EthValueInt
  <1>2. FreeCollateral(w, a) = SumOf(value, Currencies)
    BY DEF FreeCollateral, SumOf
  <1> HIDE DEF value
  <1> QED
    BY <1>1, <1>2, CurrenciesAssumption, SumInt

\* The rate between two currencies.
LEMMA CrossRateNat ==
  ASSUME NEW local \in Priced, NEW collateral \in Currencies, NEW rates \in Rates
  PROVE  CrossRate(local, collateral, rates) \in Nat
  <1>1. rates[local] \in Nat
    BY DEF Rates
  <1>2. CASE collateral # Ether
    <2> DEFINE r == rates[collateral]
               n == rates[local] * Decimals
    <2>1. r \in Nat /\ r > 0 /\ n \in Nat
      BY <1>1, <1>2, Divisors DEF Rates, Priced
    <2> HIDE DEF r, n
    <2>2. n \div r \in Nat
      BY <2>1, QuotientBounds
    <2> QED
      BY <1>2, <2>2 DEF CrossRate, r, n
  <1> QED
    BY <1>1, <1>2 DEF CrossRate

\* What an account lacks is an amount if it lacks something.
LEMMA ShortfallNat ==
  ASSUME NEW aggregate \in Int, aggregate < 0, NEW local \in Priced, NEW rates \in Rates
  PROVE  Shortfall(aggregate, local, rates) \in Nat
  <1> DEFINE lacking == -aggregate
             r == rates[local]
             buffered == lacking * LiquidationBuffer
             perEth == (Decimals * Decimals) \div r
             eth == buffered \div Decimals
             product == perEth * eth
  <1>1. lacking \in Nat /\ r \in Nat /\ r > 0 /\ Decimals \in Nat /\ Decimals > 0
    BY Divisors DEF Rates
  <1>2. LiquidationBuffer \in Nat
    <2>1. Decimals * 101 \in Nat
      BY <1>1
    <2> QED
      BY <2>1, QuotientBounds DEF LiquidationBuffer
  <1>3. Decimals * Decimals \in Nat
    BY <1>1
  <1> HIDE DEF lacking, r
  <1>4. buffered \in Nat
    BY <1>1, <1>2, ProductNat
  <1> HIDE DEF buffered
  <1>5. perEth \in Nat /\ eth \in Nat
    BY <1>1, <1>3, <1>4, QuotientBounds
  <1> HIDE DEF perEth, eth
  <1>6. product \in Nat
    BY <1>5, ProductNat
  <1> HIDE DEF product
  <1>7. product \div Decimals \in Nat
    BY <1>1, <1>6, QuotientBounds
  <1>8. -aggregate * LiquidationBuffer = buffered
    BY <1>2 DEF buffered, lacking
  <1> QED
    BY <1>7, <1>8 DEF Shortfall, FromEth, product, perEth, eth, r

Discounts == {LiquidationDiscount, SettlementDiscount}

\* Amounts of one currency for another.
LEMMA TradeAmounts ==
  ASSUME NEW discount \in Discounts, NEW n \in Int, NEW rate \in Nat
  PROVE  /\ CollateralToSell(discount, n, rate) \in Int
         /\ rate = 0 => CollateralToSell(discount, n, rate) = 0
         /\ rate # 0 => LocalCurrencyAmount(discount, n, rate) \in Int
         /\ \A debt \in Int : LocalCurrencyToTrade(n, discount, debt) \in Int
  <1> DEFINE scaled == Decimals * Decimals
             x == rate * n * discount
             y == n * Decimals * Decimals
             z == n * Decimals
  <1>1. /\ scaled \in Nat \ {0} /\ discount \in Nat \ {0} /\ Buffer - discount \in Nat \ {0}
        /\ Decimals \in Nat \ {0}
    BY Divisors DEF Discounts
  <1>2. x \in Int /\ y \in Int /\ z \in Int
    BY <1>1
  <1>3. rate = 0 => x = 0
    BY <1>1
  <1>4. rate # 0 => rate * discount \in Nat \ {0}
    BY <1>1
  <1> HIDE DEF scaled, x, y, z
  <1>5. x \div scaled \in Int /\ (rate # 0 => y \div (rate * discount) \in Int) /\ z \div (Buffer - discount) \in Int
    BY <1>1, <1>2, <1>4, QuotientInt
  <1>6. rate = 0 => x \div scaled = 0
    BY <1>1, <1>3
  <1>7. CollateralToSell(discount, n, rate) = x \div scaled
    BY DEF CollateralToSell, x, scaled
  <1>8. LocalCurrencyAmount(discount, n, rate) = y \div (rate * discount)
    BY DEF LocalCurrencyAmount, y
  <1>9. \A debt \in Int : LocalCurrencyToTrade(n, discount, debt) \in Int
    BY <1>5 DEF LocalCurrencyToTrade, LowerOf, z
  <1> QED
    BY <1>5, <1>6, <1>7, <1>8, <1>9

\* Amounts before and after the haircut of tokens.
LEMMA HaircutAmounts ==
  ASSUME NEW n \in Nat
  PROVE  PreHaircut(n) \in Nat /\ HaircutClaim(n) \in Nat
  <1> DEFINE z == n * Decimals
             cut == z \div LiquidityHaircut
  <1>1. /\ Decimals \in Nat /\ LiquidityHaircut \in Nat /\ LiquidityHaircut > 0 /\ LiquidityHaircut < Decimals
        /\ Decimals - LiquidityHaircut \in Nat /\ Decimals - LiquidityHaircut > 0
    BY Divisors
  <1>2. z \in Nat /\ LiquidityHaircut * n <= z
    BY <1>1
  <1> HIDE DEF z
  <1>3. z \div (Decimals - LiquidityHaircut) \in Nat
    BY <1>1, <1>2, QuotientBounds
  <1>4. cut \in Nat /\ z < LiquidityHaircut * cut + LiquidityHaircut
    BY <1>1, <1>2, QuotientBounds
  <1> HIDE DEF cut
  <1>5. cut >= n
    <2> SUFFICES ASSUME cut + 1 <= n
                 PROVE  FALSE
      BY <1>4
    <2>1. LiquidityHaircut * (cut + 1) <= LiquidityHaircut * n
      BY <1>1, <1>4
    <2>2. LiquidityHaircut * (cut + 1) = LiquidityHaircut * cut + LiquidityHaircut
      BY <1>1, <1>4
    <2> DEFINE s == LiquidityHaircut * cut
               t == LiquidityHaircut * n
    <2>3. s \in Nat /\ t \in Nat
      BY <1>1, <1>4
    <2>4. t <= z /\ z < s + LiquidityHaircut /\ s + LiquidityHaircut <= t
      BY <1>2, <1>4, <2>1, <2>2
    <2> HIDE DEF s, t
    <2> QED
      BY <1>1, <1>2, <2>3, <2>4
  <1>6. PreHaircut(n) = z \div (Decimals - LiquidityHaircut) /\ HaircutClaim(n) = cut - n
    BY DEF PreHaircut, HaircutClaim, z, cut
  <1> QED
    BY <1>3, <1>4, <1>5, <1>6

(****************************************************************************)
(* Trades.                                                                  *)
(****************************************************************************)

\* A trade's world has what the trade still has to book: in local currency the payer's gain less
\* what the liquidator pays, in the collateral what the liquidator takes and the payer's new
\* balance says.
Sound(u, local, collateral, t) ==
  /\ t.world \in Worlds /\ t.payer \in Int /\ t.liquidator \in Int
  /\ t.collateral \in Int /\ t.balance \in Int
  /\ AccountsKeepCash(u, t.world) /\ SameStock(u, t.world)
  /\ Surplus(t.world, local) = Surplus(u, local) + (t.payer - t.liquidator)
  /\ Surplus(t.world, collateral)
       = Surplus(u, collateral) + (t.balance - u.cash[collateral][Payer]) + t.collateral
  /\ \A d \in Currencies \ {local, collateral} : Surplus(t.world, d) = Surplus(u, d)

TradeOf(w, balance, payer, liquidator, sold) ==
  [world |-> w, payer |-> payer, liquidator |-> liquidator, collateral |-> sold, balance |-> balance]

\* Where collateral comes from, it comes from once.
LEMMA DrawnFacts ==
  ASSUME NEW balance \in Int, NEW sell \in Int, NEW raise \in Nat
  PROVE  LET drawn == Drawn(balance, sell, raise)
         IN  /\ drawn.raise \in Nat /\ drawn.balance \in Int
             /\ drawn.balance = balance - sell + drawn.raise
  BY DEF Drawn

\* What is not sold out of the balance is raised.
LEMMA CollateralBalancesFacts ==
  ASSUME NEW w \in Worlds, NEW balance \in Int, NEW c \in Currencies, NEW sell \in Int, NEW raise \in Nat,
         NEW b \in CollateralBalances(w, Payer, balance, c, sell, raise)
  PROVE  \E n \in Int : Unlocks(w, b.world, c, n) /\ b.balance = balance - sell + n
  <1> DEFINE drawn == Drawn(balance, sell, raise)
             need == drawn.raise
             left == drawn.balance
  <1>1. need \in Nat /\ left \in Int /\ left = balance - sell + need
    BY DrawnFacts
  <1>2. IF need = 0 THEN b = [world |-> w, balance |-> left]
        ELSE \E r \in RaiseViaLiquidityToken(w, Payer, c, need) :
               b = [world |-> r.world, balance |-> left - r.remaining]
    BY DEF CollateralBalances
  <1> HIDE DEF need, left
  <1>3. CASE need = 0
    <2>1. b.world = w /\ b.balance = left
      BY <1>2, <1>3
    <2>2. Shifts(w, w, c, 0)
      BY ShiftsNot
    <2>3. Unlocks(w, b.world, c, 0)
      BY <2>1, <2>2 DEF Unlocks, AccountsKeepCash
    <2> QED
      BY <1>1, <1>3, <2>1, <2>3
  <1>4. CASE need # 0
    <2>1. PICK r \in RaiseViaLiquidityToken(w, Payer, c, need) :
            b = [world |-> r.world, balance |-> left - r.remaining]
      BY <1>2, <1>4
    <2>2. r.remaining \in Nat /\ Unlocks(w, r.world, c, need - r.remaining)
      BY <1>1, ConstantFacts, RaiseTokensFacts
    <2> DEFINE n == need - r.remaining
    <2>3. n \in Int /\ Unlocks(w, b.world, c, n) /\ b.balance = balance - sell + n
      BY <1>1, <2>1, <2>2
    <2> HIDE DEF n
    <2> QED
      BY <2>3
  <1> QED
    BY <1>3, <1>4

\* What is bought are amounts.
LEMMA PurchaseFacts ==
  ASSUME NEW required \in Int, NEW discount \in Discounts, NEW claim \in Nat, NEW net \in Int,
         NEW rate \in Nat, CollateralToSell(discount, required, rate) # 0
  PROVE  LET bought == Purchase(required, discount, HaircutClaim(claim), net, rate)
         IN  bought.raise \in Nat /\ bought.local \in Int /\ bought.sell \in Int
  <1> DEFINE toSell == CollateralToSell(discount, required, rate)
             more == HaircutClaim(claim)
             amount == LocalCurrencyAmount(discount, net + more, rate)
  <1>1. toSell \in Int /\ rate # 0
    BY TradeAmounts
  <1>2. more \in Nat /\ PreHaircut(more) \in Nat
    <2>1. more \in Nat
      BY HaircutAmounts
    <2> HIDE DEF more
    <2> QED
      BY <2>1, HaircutAmounts
  <1>3. amount \in Int
    <2> HIDE DEF more
    <2>1. net + more \in Int
      BY <1>2
    <2> QED
      BY <1>1, <2>1, TradeAmounts
  <1>4. net < toSell => PreHaircut(toSell - net) \in Nat
    <2> SUFFICES ASSUME net < toSell
                 PROVE  PreHaircut(toSell - net) \in Nat
      OBVIOUS
    <2> HIDE DEF toSell
    <2>1. toSell - net \in Nat
      BY <1>1
    <2> QED
      BY <2>1, HaircutAmounts
  <1> DEFINE bought == Purchase(required, discount, more, net, rate)
  <1>5. bought = CASE net >= toSell -> [raise |-> 0, local |-> required, sell |-> toSell]
                   [] net < toSell /\ net + more >= toSell ->
                        [raise |-> PreHaircut(toSell - net), local |-> required, sell |-> toSell]
                   [] OTHER -> [raise |-> PreHaircut(more), sell |-> net + more, local |-> amount]
    BY DEF Purchase
  <1> HIDE DEF toSell, amount, bought
  <1>6. bought.raise \in Nat /\ bought.local \in Int /\ bought.sell \in Int
    <2> HIDE DEF more
    <2> QED
      BY <1>1, <1>2, <1>3, <1>4, <1>5
  <1> QED
    BY <1>6 DEF bought

\* The purchase of collateral leaves a sound trade sound.
LEMMA TradeCollateralFacts ==
  ASSUME NEW u \in Worlds, NEW local \in Currencies, NEW collateral \in Currencies, local # collateral,
         NEW t0, NEW w \in Worlds, NEW balance \in Int, NEW payer \in Int, NEW liquidator \in Int,
         t0 = TradeOf(w, balance, payer, liquidator, 0), Sound(u, local, collateral, t0),
         NEW required \in Int, NEW discount \in Discounts, NEW net \in Int, NEW claim \in Nat,
         NEW rate \in Nat,
         NEW t \in TradeCollateralCurrency(t0, Payer, required, discount, collateral, net, claim, rate)
  PROVE  Sound(u, local, collateral, t)
  <1> DEFINE post == PostfCashValue(net, claim, t0.balance)
             net2 == post.net
             adj == post.adjustment
             bought == Purchase(required, discount, HaircutClaim(claim), net2, rate)
             paid == bought.local
             sell == bought.sell
             raise == bought.raise
             start == t0.balance + adj
             toSell == CollateralToSell(discount, required, rate)
  <1>1. /\ t0.balance = balance /\ t0.world = w
        /\ t0.payer = payer /\ t0.liquidator = liquidator
    BY DEF TradeOf
  <1>2. \/ t = t0
        \/ /\ toSell # 0
           /\ \E b \in CollateralBalances(w, Payer, start, collateral, sell, raise) :
                t = TradeOf(b.world, b.balance - adj, payer + paid, liquidator + paid, sell)
    <2> DEFINE After(b) == TradeOf(b.world, b.balance - adj, t0.payer + paid, t0.liquidator + paid, sell)
    <2>1. t \in CASE toSell = 0 -> {t0}
                  [] toSell > 0 /\ net2 <= 0 -> {}
                  [] OTHER ->
                       {After(b) : b \in CollateralBalances(t0.world, Payer, start, collateral, sell, raise)}
      BY DEF TradeCollateralCurrency, TradeOf
    <2>2. ASSUME NEW b
          PROVE  After(b) = TradeOf(b.world, b.balance - adj, payer + paid, liquidator + paid, sell)
      <3> HIDE DEF adj, paid, sell
      <3> QED
        BY <1>1
    <2> HIDE DEF toSell, net2, adj, paid, sell, raise, start, After
    <2>3. \/ t = t0
          \/ /\ toSell # 0
             /\ \E b \in CollateralBalances(t0.world, Payer, start, collateral, sell, raise) : t = After(b)
      BY <2>1
    <2> QED
      BY <1>1, <2>2, <2>3
  <1>3. net2 \in Int /\ adj \in Int
    BY <1>1 DEF PostfCashValue
  <1>4. CASE t = t0
    BY <1>4
  <1>5. CASE /\ toSell # 0
             /\ \E b \in CollateralBalances(w, Payer, start, collateral, sell, raise) :
                  t = TradeOf(b.world, b.balance - adj, payer + paid, liquidator + paid, sell)
    <2>1. raise \in Nat /\ paid \in Int /\ sell \in Int
      <3> HIDE DEF net2
      <3> QED
        BY <1>3, <1>5, PurchaseFacts
    <2>2. PICK b \in CollateralBalances(w, Payer, start, collateral, sell, raise) :
                t = TradeOf(b.world, b.balance - adj, payer + paid, liquidator + paid, sell)
      BY <1>5
    <2>3. start \in Int /\ start = balance + adj
      BY <1>1, <1>3
    <2> HIDE DEF raise, paid, sell, start, adj, net2
    <2>4. PICK n \in Int : Unlocks(w, b.world, collateral, n) /\ b.balance = start - sell + n
      BY <2>1, <2>2, <2>3, CollateralBalancesFacts
    <2> DEFINE v == b.world
               after == b.balance - adj
    <2>5. v \in Worlds /\ Shifts(w, v, collateral, n) /\ AccountsKeepCash(w, v)
      BY <2>4 DEF Unlocks
    <2>6. after \in Int /\ after = balance - sell + n
      BY <1>3, <2>1, <2>3, <2>4
    <2>7. /\ t.world = v /\ t.payer = payer + paid /\ t.liquidator = liquidator + paid
          /\ t.collateral = sell /\ t.balance = after
      BY <2>2 DEF TradeOf
    <2>8. /\ AccountsKeepCash(u, w) /\ SameStock(u, w)
          /\ Surplus(w, local) = Surplus(u, local) + (payer - liquidator)
          /\ Surplus(w, collateral) = Surplus(u, collateral) + (balance - u.cash[collateral][Payer]) + 0
          /\ \A d \in Currencies \ {local, collateral} : Surplus(w, d) = Surplus(u, d)
      BY DEF Sound, TradeOf
    <2> HIDE DEF v, after
    <2>9. AccountsKeepCash(u, v) /\ SameStock(u, v)
      BY <2>5, <2>8 DEF AccountsKeepCash, SameStock, Shifts
    <2>10. /\ Surplus(w, collateral) \in Int /\ Surplus(u, collateral) \in Int
           /\ Surplus(u, local) \in Int /\ u.cash[collateral][Payer] \in Int
      BY SurplusFacts, WorldParts, ConstantFacts
    <2>11. Surplus(v, collateral) = Surplus(w, collateral) + n
      BY <2>5 DEF Shifts
    <2>12. Surplus(v, collateral)
             = Surplus(u, collateral) + (after - u.cash[collateral][Payer]) + sell
      BY <2>1, <2>6, <2>8, <2>10, <2>11
    <2>13. Surplus(v, local) = Surplus(w, local)
      BY <2>5 DEF Shifts
    <2>14. Surplus(v, local) = Surplus(u, local) + ((payer + paid) - (liquidator + paid))
      BY <2>1, <2>8, <2>10, <2>13
    <2>15. \A d \in Currencies \ {local, collateral} : Surplus(v, d) = Surplus(u, d)
      BY <2>5, <2>8 DEF Shifts
    <2>16. payer + paid \in Int /\ liquidator + paid \in Int
      BY <2>1
    <2> QED
      BY <2>1, <2>5, <2>6, <2>7, <2>9, <2>12, <2>14, <2>15, <2>16 DEF Sound
  <1> QED
    BY <1>2, <1>4, <1>5

\* Before collateral is bought a trade has the cash that was raised to book.
LEMMA UnlocksSound ==
  ASSUME NEW u \in Worlds, NEW local \in Currencies, NEW collateral \in Currencies, local # collateral,
         NEW balance, balance = u.cash[collateral][Payer],
         NEW w, NEW payer \in Int, NEW liquidator \in Int, Unlocks(u, w, local, payer - liquidator),
         NEW t, t = TradeOf(w, balance, payer, liquidator, 0)
  PROVE  Sound(u, local, collateral, t) /\ w \in Worlds /\ balance \in Int
  <1>1. /\ t.world = w /\ t.payer = payer /\ t.liquidator = liquidator /\ t.collateral = 0
        /\ t.balance = balance
    BY DEF TradeOf
  <1>2. balance \in Int
    BY WorldParts, ConstantFacts
  <1>3. w \in Worlds /\ AccountsKeepCash(u, w) /\ SameStock(u, w)
        /\ Surplus(w, local) = Surplus(u, local) + (payer - liquidator)
        /\ \A d \in Currencies : d # local => Surplus(w, d) = Surplus(u, d)
    BY DEF Unlocks, Shifts
  <1>4. Surplus(w, collateral) = Surplus(u, collateral) + (balance - u.cash[collateral][Payer]) + 0
    BY <1>2, <1>3, SurplusFacts
  <1> QED
    BY <1>1, <1>2, <1>3, <1>4 DEF Sound

\* A world unlocks nothing beyond itself.
LEMMA UnlocksNot ==
  ASSUME NEW u \in Worlds, NEW c \in Currencies
  PROVE  Unlocks(u, u, c, 0)
  BY ShiftsNot DEF Unlocks, AccountsKeepCash

(****************************************************************************)
(* liquidate and settle.                                                    *)
(****************************************************************************)

\* The payer's tokens give what the payer gains less what the liquidator pays.
LEMMA LocalTokensFacts ==
  ASSUME NEW u \in Worlds, NEW local \in Currencies, NEW required \in Nat, NEW localNet \in Int,
         NEW x \in LiquidateLocalTokens(u, Payer, local, required, localNet)
  PROVE  /\ x.payer \in Int /\ x.liquidator \in Int /\ x.required \in Int /\ x.localNet \in Int
         /\ Unlocks(u, x.world, local, x.payer - x.liquidator)
  <1> DEFINE claims == (required * RepoIncentive) \div (Decimals - LiquidityHaircut)
             raised(r) == IF r.remaining = 0 THEN required
                          ELSE ((claims - r.remaining) * (Decimals - LiquidityHaircut)) \div RepoIncentive
  <1>1. claims \in Nat
    <2>1. required * RepoIncentive \in Nat
      BY Divisors
    <2> QED
      BY <2>1, Divisors, QuotientBounds
  <1>2. PICK r \in RaiseViaLiquidityToken(u, Payer, local, claims) :
          x = [world |-> r.world, required |-> required - raised(r), localNet |-> localNet + raised(r),
               payer |-> Extracted(claims - r.remaining, raised(r)).payer,
               liquidator |-> Extracted(claims - r.remaining, raised(r)).liquidator]
    BY DEF LiquidateLocalTokens
  <1> HIDE DEF claims
  <1> DEFINE withdrawn == claims - r.remaining
             got == raised(r)
             outside == OutsideHaircut(withdrawn)
  <1>3. r.remaining \in Nat /\ Unlocks(u, r.world, local, withdrawn)
    BY <1>1, ConstantFacts, RaiseTokensFacts
  <1>4. withdrawn \in Int
    BY <1>1, <1>3
  <1>5. got \in Int
    <2> HIDE DEF withdrawn
    <2>1. withdrawn * (Decimals - LiquidityHaircut) \in Int
      BY <1>4, Divisors
    <2>2. (withdrawn * (Decimals - LiquidityHaircut)) \div RepoIncentive \in Int
      BY <2>1, Divisors, QuotientInt
    <2> QED
      BY <2>2 DEF withdrawn
  <1>6. outside \in Int
    <2> HIDE DEF withdrawn
    <2>1. withdrawn * (Decimals - LiquidityHaircut) \in Int
      BY <1>4, Divisors
    <2> QED
      BY <2>1, Divisors, QuotientInt DEF OutsideHaircut
  <1>7. /\ Extracted(withdrawn, got).payer = withdrawn - (outside - got)
        /\ Extracted(withdrawn, got).liquidator = -(outside - got)
    BY DEF Extracted
  <1> HIDE DEF withdrawn, got, outside
  <1>8. /\ x.world = r.world /\ x.required = required - got /\ x.localNet = localNet + got
        /\ x.payer = withdrawn - (outside - got) /\ x.liquidator = -(outside - got)
    BY <1>2, <1>7 DEF got, withdrawn
  <1>9. x.payer - x.liquidator = withdrawn
    BY <1>4, <1>5, <1>6, <1>8
  <1> QED
    BY <1>3, <1>4, <1>5, <1>6, <1>8, <1>9

\* liquidate
LEMMA LiquidateSound ==
  ASSUME NEW u \in Worlds, NEW local \in Priced, NEW collateral \in Currencies, local # collateral,
         NEW balance, balance = u.cash[collateral][Payer], NEW rates \in Rates,
         NEW fc, fc.aggregate \in Int, fc.aggregate < 0, fc.localNet \in Int, fc.collateralNet \in Int,
         fc.collateralClaim \in Nat, NEW maxAmount \in Nat,
         NEW t \in Liquidate(u, Payer, local, collateral, balance, fc, maxAmount, rates)
  PROVE  Sound(u, local, collateral, t)
  <1> DEFINE required == Shortfall(fc.aggregate, local, rates)
             first == IF fc.localClaim > 0
                      THEN LiquidateLocalTokens(u, Payer, local, required, fc.localNet)
                      ELSE {[world |-> u, required |-> required, localNet |-> fc.localNet,
                             payer |-> 0, liquidator |-> 0]}
             amount(x) == Capped(LocalCurrencyToTrade(x.required, LiquidationDiscount, -x.localNet),
                                 maxAmount)
             rate == CrossRate(local, collateral, rates)
             trade(x) == TradeOf(x.world, balance, x.payer, x.liquidator, 0)
  <1>1. PICK x \in first :
          t \in IF x.required > 0 /\ x.localNet < 0
                THEN TradeCollateralCurrency(trade(x), Payer, amount(x), LiquidationDiscount,
                                             collateral, fc.collateralNet, fc.collateralClaim, rate)
                ELSE {trade(x)}
    BY DEF Liquidate, TradeOf
  <1>2. local \in Currencies /\ required \in Nat /\ rate \in Nat
    BY ShortfallNat, CrossRateNat DEF Priced
  <1> HIDE DEF required
  <1>3. /\ x.payer \in Int /\ x.liquidator \in Int /\ x.required \in Int /\ x.localNet \in Int
        /\ Unlocks(u, x.world, local, x.payer - x.liquidator)
    <2>1. CASE fc.localClaim > 0
      BY <1>2, <2>1, LocalTokensFacts
    <2>2. CASE ~(fc.localClaim > 0)
      <3>1. /\ x.world = u /\ x.required = required /\ x.localNet = fc.localNet
            /\ x.payer = 0 /\ x.liquidator = 0
        BY <2>2
      <3>2. Unlocks(u, u, local, 0)
        BY <1>2, UnlocksNot
      <3> QED
        BY <1>2, <3>1, <3>2
    <2> QED
      BY <2>1, <2>2
  <1>4. amount(x) \in Int
    <2> DEFINE debt == -x.localNet
               n == LocalCurrencyToTrade(x.required, LiquidationDiscount, debt)
    <2>1. debt \in Int
      BY <1>3
    <2> HIDE DEF debt
    <2>2. n \in Int
      BY <1>3, <2>1, TradeAmounts DEF Discounts
    <2> HIDE DEF n
    <2>3. Capped(n, maxAmount) \in Int
      BY <2>2 DEF Capped, LowerOf
    <2> QED
      BY <2>3 DEF n, debt
  <1> HIDE DEF first, amount, rate
  <1>5. Sound(u, local, collateral, trade(x)) /\ x.world \in Worlds /\ balance \in Int
    <2> DEFINE s == trade(x)
    <2>1. s = TradeOf(x.world, balance, x.payer, x.liquidator, 0)
      OBVIOUS
    <2> HIDE DEF s
    <2>2. Sound(u, local, collateral, s) /\ x.world \in Worlds /\ balance \in Int
      BY <1>2, <1>3, <2>1, UnlocksSound
    <2> QED
      BY <2>2 DEF s
  <1>6. CASE t = trade(x)
    BY <1>5, <1>6
  <1>7. CASE t \in TradeCollateralCurrency(trade(x), Payer, amount(x), LiquidationDiscount,
                                           collateral, fc.collateralNet, fc.collateralClaim, rate)
    <2>1. LiquidationDiscount \in Discounts
      BY DEF Discounts
    <2> DEFINE s == trade(x)
               n == amount(x)
    <2>2. s = TradeOf(x.world, balance, x.payer, x.liquidator, 0)
      OBVIOUS
    <2> HIDE DEF s, n
    <2> QED
      BY <1>2, <1>3, <1>4, <1>5, <1>7, <2>1, <2>2, TradeCollateralFacts DEF s, n
  <1> QED
    BY <1>1, <1>6, <1>7

\* settleCashBalance
LEMMA SettleSound ==
  ASSUME NEW u \in Worlds, NEW local \in Priced, NEW collateral \in Currencies, local # collateral,
         NEW balance, balance = u.cash[collateral][Payer], NEW rates \in Rates,
         NEW fc, fc.collateralNet \in Int, fc.collateralClaim \in Nat, NEW value \in Nat,
         NEW t \in Settle(u, Payer, local, collateral, balance, fc, value, rates)
  PROVE  Sound(u, local, collateral, t)
  <1> DEFINE first == IF fc.localClaim > 0
                      THEN RaiseViaLiquidityToken(u, Payer, local, value)
                      ELSE {[world |-> u, remaining |-> value]}
             rate == CrossRate(local, collateral, rates)
             trade(x) == TradeOf(x.world, balance, value - x.remaining, 0, 0)
  <1>1. PICK x \in first :
          \/ t = trade(x)
          \/ t \in TradeCollateralCurrency(trade(x), Payer, x.remaining, SettlementDiscount,
                                           collateral, fc.collateralNet, fc.collateralClaim, rate)
    BY DEF Settle, TradeOf
  <1>2. local \in Currencies /\ rate \in Nat
    BY CrossRateNat DEF Priced
  <1>3. x.remaining \in Nat /\ Unlocks(u, x.world, local, value - x.remaining)
    <2>1. CASE fc.localClaim > 0
      BY <1>2, <2>1, ConstantFacts, RaiseTokensFacts
    <2>2. CASE ~(fc.localClaim > 0)
      <3>1. x.world = u /\ x.remaining = value
        BY <2>2
      <3>2. Unlocks(u, u, local, 0)
        BY <1>2, UnlocksNot
      <3> QED
        BY <3>1, <3>2
    <2> QED
      BY <2>1, <2>2
  <1> HIDE DEF first, rate
  <1> DEFINE paid == value - x.remaining
             s == trade(x)
  <1>4. paid \in Int /\ Unlocks(u, x.world, local, paid - 0) /\ 0 \in Int
    <2>1. paid \in Int /\ paid - 0 = paid
      BY <1>3
    <2> QED
      BY <1>3, <2>1
  <1>5. s = TradeOf(x.world, balance, paid, 0, 0)
    OBVIOUS
  <1> HIDE DEF paid, s
  <1>6. Sound(u, local, collateral, s) /\ x.world \in Worlds /\ balance \in Int
    BY <1>2, <1>4, <1>5, UnlocksSound
  <1>7. CASE t = s
    BY <1>6, <1>7
  <1>8. CASE t \in TradeCollateralCurrency(s, Payer, x.remaining, SettlementDiscount,
                                           collateral, fc.collateralNet, fc.collateralClaim, rate)
    <2>1. SettlementDiscount \in Discounts /\ x.remaining \in Int
      BY <1>3 DEF Discounts
    <2> QED
      BY <1>2, <1>4, <1>5, <1>6, <1>8, <2>1, TradeCollateralFacts
  <1> QED
    BY <1>1, <1>7, <1>8 DEF s

(****************************************************************************)
(* _tradefCash                                                              *)
(****************************************************************************)

\* The collateral owed is what is bought, and the payer's gain is an amount.
LEMMA TradefCashFacts ==
  ASSUME NEW u \in Worlds, NEW liquidator \in Accounts, NEW required \in Int, NEW net \in Int,
         NEW discount \in Discounts, NEW local \in Priced, NEW collateral \in Currencies,
         NEW rates \in Rates,
         NEW t \in TradefCash(u, Payer, liquidator, required, net, discount, local, collateral, rates)
  PROVE  t.payer \in Int /\ t.collateral = 0 /\ t.world \in Worlds /\ OnlyAssetsMove(u, t.world)
  <1> DEFINE rate    == CrossRate(local, collateral, rates)
             wanted  == CollateralToSell(discount, required, rate)
             toSell  == LowerOf(wanted, net)
             covered == IF wanted > net THEN LocalCurrencyAmount(discount, net, rate) ELSE required
             short(r) == IF r.remaining > 0 THEN LocalCurrencyAmount(discount, r.remaining, rate) ELSE 0
  <1>1. /\ net > 0
        /\ \E r \in RaiseViaCashReceiver(u, Payer, liquidator, collateral, toSell) :
             t = [world |-> r.world, payer |-> covered - short(r),
                  collateral |-> r.payment - (toSell - r.remaining)]
    BY DEF TradefCash
  <1>2. PICK r \in RaiseViaCashReceiver(u, Payer, liquidator, collateral, toSell) :
          t = [world |-> r.world, payer |-> covered - short(r),
               collateral |-> r.payment - (toSell - r.remaining)]
    BY <1>1
  <1>3. rate \in Nat
    BY CrossRateNat
  <1> HIDE DEF rate
  <1>4. wanted \in Int /\ (rate = 0 => wanted = 0)
    BY <1>3, TradeAmounts
  <1>5. toSell \in Int
    BY <1>4 DEF LowerOf
  <1>6. /\ r.world \in Worlds /\ OnlyAssetsMove(u, r.world)
        /\ r.remaining \in Nat /\ r.payment = toSell - r.remaining
        /\ toSell > 0
    <2> HIDE DEF toSell
    <2> QED
      BY <1>5, ConstantFacts, RaiseReceiversFacts
  <1>7. rate # 0
    <2> SUFFICES ASSUME rate = 0
                 PROVE  FALSE
      OBVIOUS
    <2>1. toSell = 0
      BY <1>1, <1>4 DEF LowerOf
    <2> QED
      BY <1>6, <2>1
  <1>8. covered \in Int
    <2>1. LocalCurrencyAmount(discount, net, rate) \in Int
      BY <1>3, <1>7, TradeAmounts
    <2> QED
      BY <2>1
  <1> HIDE DEF wanted, toSell, covered
  <1>9. short(r) \in Int
    <2>1. LocalCurrencyAmount(discount, r.remaining, rate) \in Int
      BY <1>3, <1>6, <1>7, TradeAmounts
    <2> QED
      BY <2>1
  <1> HIDE DEF short
  <1> QED
    BY <1>2, <1>5, <1>6, <1>8, <1>9

(****************************************************************************)
(* Payments.                                                                *)
(****************************************************************************)
PlainKinds == [Currencies -> {"ERC20", "FeeERC20"}]

\* The surplus of c rises by n, and nothing else is created.
Pays(u, v, c, n) == v \in Worlds /\ Shifts(u, v, c, n)

\* A currency's book and its tokens change.
CashEdited(w, c, book, n) ==
  [assets |-> w.assets, markets |-> w.markets, cash |-> [w.cash EXCEPT ![c] = book],
   custody |-> [w.custody EXCEPT ![c] = @ + n]]

\* An edit of a balance by m, with n tokens, shifts the surplus by the difference.
LEMMA CashEdit ==
  ASSUME NEW w \in Worlds, NEW c \in Currencies, NEW h \in Holders, NEW m \in Int, NEW n \in Int,
         NEW v, v = CashEdited(w, c, Credit(w.cash[c], h, m), n)
  PROVE  Pays(w, v, c, n - m) /\ v.cash[c] = Credit(w.cash[c], h, m)
  <1> DEFINE old == w.cash[c]
             book == Credit(old, h, m)
             cash == [w.cash EXCEPT ![c] = book]
             vault == [w.custody EXCEPT ![c] = @ + n]
  <1>1. /\ w.assets \in [Accounts -> Portfolio] /\ w.markets \in [DOMAIN Pools -> Pool]
        /\ w.cash \in [Currencies -> Book] /\ w.custody \in [Currencies -> Int]
        /\ old \in Book /\ w.custody[c] \in Int
    BY WorldParts
  <1> HIDE DEF old
  <1>2. Credited(old, h, m, book)
    BY <1>1, CreditFacts
  <1> HIDE DEF book
  <1>3. book \in Book /\ SumOf(book, Holders) = SumOf(old, Holders) + m
    BY <1>2 DEF Credited
  <1>4. cash \in [Currencies -> Book] /\ vault \in [Currencies -> Int] /\ cash[c] = book
    BY <1>1, <1>3
  <1>5. v = [assets |-> w.assets, markets |-> w.markets, cash |-> cash, custody |-> vault]
    BY DEF CashEdited, book, old
  <1> HIDE DEF cash, vault
  <1>6. v \in Worlds /\ v.assets = w.assets /\ v.markets = w.markets /\ v.cash = cash /\ v.custody = vault
    BY <1>1, <1>4, <1>5 DEF Worlds
  <1>7. EditsCash(w, v, c, book, n)
    BY <1>6 DEF EditsCash, cash, vault
  <1>8. SumOf(book, Holders) = SumOf(w.cash[c], Holders) + m
    BY <1>3 DEF old
  <1>9. Shifts(w, v, c, n - m)
    BY <1>3, <1>7, <1>8, CashShifts
  <1> QED
    BY <1>4, <1>6, <1>9 DEF Pays, book, old

\* No balance changes, and n tokens come or go.
LEMMA CustodyEdit ==
  ASSUME NEW w \in Worlds, NEW c \in Currencies, NEW n \in Int,
         NEW v, v = [w EXCEPT !.custody[c] = @ + n]
  PROVE  Pays(w, v, c, n)
  <1> DEFINE vault == [w.custody EXCEPT ![c] = @ + n]
  <1>1. /\ w.assets \in [Accounts -> Portfolio] /\ w.markets \in [DOMAIN Pools -> Pool]
        /\ w.cash \in [Currencies -> Book] /\ w.custody \in [Currencies -> Int]
        /\ w.cash[c] \in Book /\ w.custody[c] \in Int
    BY WorldParts
  <1>2. vault \in [Currencies -> Int]
    BY <1>1
  <1>3. v = [assets |-> w.assets, markets |-> w.markets, cash |-> w.cash, custody |-> vault]
    BY DEF Worlds
  <1> HIDE DEF vault
  <1>4. v \in Worlds /\ v.assets = w.assets /\ v.markets = w.markets /\ v.cash = w.cash /\ v.custody = vault
    BY <1>1, <1>2, <1>3 DEF Worlds
  <1>5. w.cash = [w.cash EXCEPT ![c] = w.cash[c]]
    BY <1>1
  <1>6. EditsCash(w, v, c, w.cash[c], n)
    BY <1>4, <1>5 DEF EditsCash, vault
  <1>7. SumOf(w.cash[c], Holders) = SumOf(w.cash[c], Holders) + 0 /\ n - 0 = n
    BY SurplusFacts
  <1>8. Shifts(w, v, c, n - 0)
    BY <1>1, <1>6, <1>7, CashShifts
  <1> QED
    BY <1>4, <1>7, <1>8 DEF Pays

\* A balance that is written without tokens is the edit with none.
LEMMA NoTokens ==
  ASSUME NEW w \in Worlds, NEW c \in Currencies, NEW book
  PROVE  [w EXCEPT !.cash[c] = book] = CashEdited(w, c, book, 0)
  <1>1. w.custody \in [Currencies -> Int] /\ w.custody[c] \in Int
    BY WorldParts
  <1>2. w.custody = [w.custody EXCEPT ![c] = @ + 0]
    BY <1>1
  <1>3. [w EXCEPT !.cash[c] = book]
          = [assets |-> w.assets, markets |-> w.markets, cash |-> [w.cash EXCEPT ![c] = book],
             custody |-> w.custody]
    BY DEF Worlds
  <1> QED
    BY <1>2, <1>3 DEF CashEdited

\* What the caller pays comes in, whether in tokens or out of a balance; the tokens that an
\* ERC777 announces are credited besides.
Finished(w, x, c, n) == \E m \in Int : Pays(w, x, c, m) /\ (kind \in PlainKinds => m = n)

\* _finishLiquidateSettle brings in what is owed.
LEMMA FinishFacts ==
  ASSUME NEW w \in Worlds, NEW caller \in Accounts, NEW c \in Currencies, NEW n \in Int,
         NEW x \in FinishLiquidateSettle(w, caller, c, n)
  PROVE  Finished(w, x, c, n)
  <1>1. caller \in Holders /\ w.cash[c] \in Book /\ (kind \in PlainKinds => kind[c] # "ERC777")
    BY ConstantFacts, WorldParts DEF PlainKinds
  <1>2. CASE n > 0 /\ kind[c] = "FeeERC20"
    <2>1. PICK book \in DebitNoNeg(w.cash[c], caller, n) : x = [w EXCEPT !.cash[c] = book]
      BY <1>2 DEF FinishLiquidateSettle
    <2>2. book = Credit(w.cash[c], caller, -n)
      BY <2>1 DEF DebitNoNeg
    <2>3. x = CashEdited(w, c, Credit(w.cash[c], caller, -n), 0)
      BY <2>1, <2>2, NoTokens
    <2>4. -n \in Int /\ 0 - (-n) = n
      OBVIOUS
    <2>5. Pays(w, x, c, 0 - (-n))
      BY <1>1, <2>3, <2>4, CashEdit
    <2> QED
      BY <2>4, <2>5 DEF Finished
  <1>3. CASE n > 0 /\ kind[c] # "FeeERC20"
    <2> DEFINE received == TokensReceived(c, n)
    <2>1. received \in Int /\ (kind \in PlainKinds => received = 0)
      BY <1>1 DEF TokensReceived
    <2>2. x = [w EXCEPT !.custody[c] = @ + n, !.cash[c] = Credit(@, caller, received)]
      BY <1>3 DEF FinishLiquidateSettle
    <2> HIDE DEF received
    <2>3. x = CashEdited(w, c, Credit(w.cash[c], caller, received), n)
      BY <2>2, WorldParts DEF Worlds, CashEdited
    <2>4. Pays(w, x, c, n - received)
      BY <1>1, <2>1, <2>3, CashEdit
    <2>5. n - received \in Int /\ (kind \in PlainKinds => n - received = n)
      BY <2>1
    <2> QED
      BY <2>4, <2>5 DEF Finished
  <1>4. CASE ~(n > 0)
    <2>1. x = [w EXCEPT !.custody[c] = @ + n]
      BY <1>4 DEF FinishLiquidateSettle
    <2>2. Pays(w, x, c, n)
      BY <2>1, CustodyEdit
    <2> QED
      BY <2>2 DEF Finished
  <1> QED
    BY <1>2, <1>3, <1>4

\* Paid books a gain of n.
LEMMA PaidFacts ==
  ASSUME NEW w \in Worlds, NEW c \in Currencies, NEW n \in Int
  PROVE  Pays(w, Paid(w, c, n), c, -n)
  <1> DEFINE v == Paid(w, c, n)
  <1>1. v = CashEdited(w, c, Credit(w.cash[c], Payer, n), 0)
    BY NoTokens DEF Paid
  <1> DEFINE none == 0
  <1>2. Payer \in Holders /\ none \in Int /\ none - n = -n
    BY ConstantFacts
  <1>3. v = CashEdited(w, c, Credit(w.cash[c], Payer, n), none)
    BY <1>1
  <1> HIDE DEF v, none
  <1>4. Pays(w, v, c, none - n)
    BY <1>2, <1>3, CashEdit
  <1> QED
    BY <1>2, <1>4 DEF v

\* In v the payer's side of a trade is booked since u, and what the caller is to pay of both
\* currencies is still lacking.
Owed(u, v, local, m, collateral, n) ==
  /\ v \in Worlds /\ SameStock(u, v)
  /\ \A c \in Currencies :
       Surplus(v, c) = Surplus(u, c) - (IF c = local THEN m ELSE 0) - (IF c = collateral THEN n ELSE 0)

\* From u to v nothing is created: no cash either, but for what an ERC777 announces.
Balanced(u, v) ==
  /\ v \in Worlds /\ SameStock(u, v)
  /\ kind \in PlainKinds => \A c \in Currencies : Surplus(v, c) = Surplus(u, c)

\* What is owed is paid in the end.
LEMMA FinishBalances ==
  ASSUME World \in Worlds, NEW w, NEW caller \in Accounts,
         NEW local \in Currencies, NEW m \in Int, NEW collateral \in Currencies, NEW n \in Int,
         Owed(World, w, local, m, collateral, n), Finish(w, caller, local, m, collateral, n)
  PROVE  Balanced(World, World2)
  <1>1. PICK x \in FinishLiquidateSettle(w, caller, local, m) :
          \E y \in FinishLiquidateSettle(x, caller, collateral, n) :
            /\ accountAssets' = y.assets /\ markets' = y.markets
            /\ cashBalances' = y.cash /\ custody' = y.custody
    BY DEF Finish
  <1>2. PICK y \in FinishLiquidateSettle(x, caller, collateral, n) :
            /\ accountAssets' = y.assets /\ markets' = y.markets
            /\ cashBalances' = y.cash /\ custody' = y.custody
    BY <1>1
  <1>3. w \in Worlds /\ SameStock(World, w)
    BY DEF Owed
  <1>4. PICK i \in Int : Pays(w, x, local, i) /\ (kind \in PlainKinds => i = m)
    BY <1>3, FinishFacts DEF Finished
  <1>5. x \in Worlds
    BY <1>4 DEF Pays
  <1>6. PICK j \in Int : Pays(x, y, collateral, j) /\ (kind \in PlainKinds => j = n)
    BY <1>5, FinishFacts DEF Finished
  <1>7. y \in Worlds
    BY <1>6 DEF Pays
  <1>8. World2 = y
    BY <1>2, <1>7 DEF World2, Worlds
  <1>9. SameStock(World, y)
    BY <1>3, <1>4, <1>6 DEF SameStock, Pays, Shifts
  <1>10. ASSUME kind \in PlainKinds, NEW c \in Currencies
         PROVE  Surplus(y, c) = Surplus(World, c)
    <2>1. Surplus(World, c) \in Int /\ Surplus(w, c) \in Int /\ Surplus(x, c) \in Int
      BY <1>3, <1>5, SurplusFacts
    <2>2. Surplus(w, c) = Surplus(World, c) - (IF c = local THEN m ELSE 0)
                            - (IF c = collateral THEN n ELSE 0)
      BY DEF Owed
    <2>3. Surplus(x, c) = Surplus(w, c) + (IF c = local THEN m ELSE 0)
      BY <1>4, <1>10, <2>1 DEF Pays, Shifts
    <2>4. Surplus(y, c) = Surplus(x, c) + (IF c = collateral THEN n ELSE 0)
      BY <1>6, <1>10, <2>1 DEF Pays, Shifts
    <2> QED
      BY <2>1, <2>2, <2>3, <2>4
  <1> QED
    BY <1>7, <1>8, <1>9, <1>10 DEF Balanced

\* The payer's balances after a sound trade leave what the liquidator pays and takes.
LEMMA BookedOwes ==
  ASSUME NEW u \in Worlds, NEW local \in Currencies, NEW collateral \in Currencies, local # collateral,
         NEW t, Sound(u, local, collateral, t)
  PROVE  /\ Owed(u, Booked(t, local, collateral), local, t.liquidator, collateral, -t.collateral)
         /\ t.liquidator \in Int /\ -t.collateral \in Int
  <1> DEFINE w == t.world
             old == u.cash[collateral][Payer]
             change == t.balance - old
             book == Credit(w.cash[collateral], Payer, change)
             v == CashEdited(w, collateral, book, 0)
             z == Paid(v, local, t.payer)
  <1>1. /\ w \in Worlds /\ AccountsKeepCash(u, w) /\ SameStock(u, w) /\ t.payer \in Int
        /\ t.liquidator \in Int /\ t.collateral \in Int /\ t.balance \in Int
    BY DEF Sound
  <1>2. old \in Int /\ Payer \in Holders /\ w.cash[collateral][Payer] = old
    BY <1>1, WorldParts, ConstantFacts DEF AccountsKeepCash
  <1>3. change \in Int /\ old + change = t.balance
    BY <1>1, <1>2
  <1> HIDE DEF change
  <1>4. Pays(w, v, collateral, 0 - change)
    <2> DEFINE none == 0
               x == CashEdited(w, collateral, book, none)
    <2>1. none \in Int
      OBVIOUS
    <2> HIDE DEF none
    <2>2. Pays(w, x, collateral, none - change)
      <3> HIDE DEF w
      <3> QED
        BY <1>1, <1>2, <1>3, <2>1, CashEdit
    <2> QED
      BY <2>2 DEF none
  <1>5. book = [w.cash[collateral] EXCEPT ![Payer] = t.balance]
    BY <1>2, <1>3 DEF Credit
  <1>6. Booked(t, local, collateral) = z
    <2> DEFINE row == [w.cash[collateral] EXCEPT ![Payer] = t.balance]
               first == [w.cash EXCEPT ![collateral] = row]
               last == [first EXCEPT ![local] = Credit(@, Payer, t.payer)]
    <2>1. Booked(t, local, collateral)
            = [assets |-> w.assets, markets |-> w.markets, cash |-> last, custody |-> w.custody]
      <3> DEFINE one == [w EXCEPT !.cash[collateral][Payer] = t.balance]
                 two == [one EXCEPT !.cash[local][Payer] = @ + t.payer]
      <3>1. Booked(t, local, collateral) = two
        BY DEF Booked
      <3>2. one = [assets |-> w.assets, markets |-> w.markets, cash |-> first, custody |-> w.custody]
        BY <1>1 DEF Worlds
      <3> HIDE DEF one, first
      <3>3. two = [assets |-> w.assets, markets |-> w.markets, cash |-> last, custody |-> w.custody]
        BY <3>2 DEF Credit
      <3> QED
        BY <3>1, <3>3
    <2>2. v = [assets |-> w.assets, markets |-> w.markets, cash |-> first,
               custody |-> [w.custody EXCEPT ![collateral] = @ + 0]]
      BY <1>5 DEF CashEdited
    <2>3. w.custody = [w.custody EXCEPT ![collateral] = @ + 0]
      BY <1>1, WorldParts
    <2>4. v = [assets |-> w.assets, markets |-> w.markets, cash |-> first, custody |-> w.custody]
      BY <2>2, <2>3
    <2> HIDE DEF v, first
    <2>5. z = [assets |-> w.assets, markets |-> w.markets, cash |-> last, custody |-> w.custody]
      BY <2>4 DEF Paid
    <2> QED
      BY <2>1, <2>5
  <1> HIDE DEF book, v
  <1>7. v \in Worlds /\ Shifts(w, v, collateral, 0 - change)
    BY <1>4 DEF Pays
  <1>8. Pays(v, z, local, -t.payer)
    BY <1>1, <1>7, PaidFacts
  <1> HIDE DEF z, w
  <1>9. z \in Worlds /\ SameStock(u, z)
    BY <1>1, <1>7, <1>8 DEF Pays, Shifts, SameStock
  <1>10. ASSUME NEW c \in Currencies
         PROVE  Surplus(z, c) = Surplus(u, c) - (IF c = local THEN t.liquidator ELSE 0)
                                  - (IF c = collateral THEN -t.collateral ELSE 0)
    <2>1. Surplus(u, c) \in Int /\ Surplus(w, c) \in Int /\ Surplus(v, c) \in Int
      BY <1>1, <1>7, SurplusFacts
    <2>2. Surplus(v, c) = Surplus(w, c) + (IF c = collateral THEN 0 - change ELSE 0)
      BY <1>7, <2>1 DEF Shifts
    <2>3. Surplus(z, c) = Surplus(v, c) + (IF c = local THEN -t.payer ELSE 0)
      BY <1>8, <2>1 DEF Pays, Shifts
    <2>4. Surplus(w, c) = Surplus(u, c) + (IF c = local THEN t.payer - t.liquidator ELSE 0)
                            + (IF c = collateral THEN change + t.collateral ELSE 0)
      <3>1. CASE c = local
        BY <1>1, <2>1, <3>1 DEF Sound, w
      <3>2. CASE c = collateral
        <4>1. Surplus(w, c) = Surplus(u, c) + (t.balance - old) + t.collateral
          BY <3>2 DEF Sound, w
        <4> QED
          BY <1>1, <1>2, <1>3, <2>1, <3>2, <4>1 DEF change
      <3>3. CASE c # local /\ c # collateral
        BY <2>1, <3>3 DEF Sound, w
      <3> QED
        BY <3>1, <3>2, <3>3
    <2> QED
      BY <1>1, <1>3, <2>1, <2>2, <2>3, <2>4
  <1> QED
    BY <1>1, <1>6, <1>9, <1>10 DEF Owed

\* A sale of receivers leaves what is paid for them.
LEMMA PaidOwes ==
  ASSUME NEW u \in Worlds, NEW w \in Worlds, OnlyAssetsMove(u, w), NEW local \in Currencies,
         NEW m \in Int, NEW c \in Currencies
  PROVE  Owed(u, Paid(w, local, m), local, m, c, 0)
  <1> DEFINE z == Paid(w, local, m)
  <1>1. z \in Worlds /\ Shifts(w, z, local, -m)
    BY PaidFacts DEF Pays
  <1> HIDE DEF z
  <1>2. SameStock(u, z)
    BY <1>1 DEF OnlyAssetsMove, Shifts, SameStock
  <1>3. ASSUME NEW d \in Currencies
        PROVE  Surplus(z, d) = Surplus(u, d) - (IF d = local THEN m ELSE 0) - (IF d = c THEN 0 ELSE 0)
    <2>1. Surplus(u, d) \in Int
      BY SurplusFacts
    <2>2. Surplus(w, d) = Surplus(u, d)
      BY DEF OnlyAssetsMove, Surplus
    <2> QED
      BY <1>1, <2>1, <2>2 DEF Shifts
  <1> QED
    BY <1>1, <1>2, <1>3 DEF Owed, z

(****************************************************************************)
(* The invariant and the calls.                                             *)
(****************************************************************************)
AllKinds == [Currencies -> {"ERC20", "FeeERC20", "ERC777"}]

IInv ==
  /\ World \in Worlds
  /\ ethRate \in Rates
  /\ kind \in AllKinds
  /\ calls \in 0 .. MaxCalls

\* The calls that buy collateral.
LEMMA FactorsFacts ==
  ASSUME IInv, NEW local \in Priced, NEW collateral \in Currencies, Valid(local, collateral)
  PROVE  LET fc == Factors(World, Payer, local, collateral)
         IN  /\ local \in Currencies /\ local # collateral
             /\ fc.aggregate \in Int /\ fc.aggregate = FreeCollateral(World, Payer)
             /\ fc.localNet \in Int /\ fc.collateralNet \in Int
             /\ fc.collateralNet = NetAvailable(World, Payer, collateral)
             /\ fc.collateralClaim \in Nat
  <1>1. local \in Currencies /\ local # collateral /\ Payer \in Accounts
    BY ConstantFacts DEF Priced, Valid
  <1>2. CanValue(World.assets[Payer], World.markets, Now)
    BY DEF Valid, World
  <1>3. World \in Worlds /\ ethRate \in Rates
    BY DEF IInv
  <1>4. FreeCollateral(World, Payer) \in Int
    BY <1>1, <1>2, <1>3, FreeCollateralInt
  <1>5. /\ NetAvailable(World, Payer, local) \in Int /\ NetAvailable(World, Payer, collateral) \in Int
        /\ CashClaims(World, Payer, collateral) \in Nat
    BY <1>1, <1>2, <1>3, NetAvailableInt
  <1> QED
    BY <1>1, <1>4, <1>5 DEF Factors

\* settleCashBalance and liquidate end with a sound trade that is booked and paid.
LEMMA SoundBalances ==
  ASSUME IInv, NEW local \in Currencies, NEW collateral \in Currencies, local # collateral,
         NEW t, Sound(World, local, collateral, t),
         Finish(Booked(t, local, collateral), Liquidator,
                local, t.liquidator, collateral, -t.collateral)
  PROVE  Balanced(World, World2)
  <1> DEFINE w == Booked(t, local, collateral)
  <1>1. World \in Worlds /\ Liquidator \in Accounts
    BY ConstantFacts DEF IInv
  <1>2. /\ Owed(World, w, local, t.liquidator, collateral, -t.collateral)
        /\ t.liquidator \in Int /\ -t.collateral \in Int
    BY <1>1, BookedOwes
  <1> HIDE DEF w
  <1> QED
    BY <1>1, <1>2, FinishBalances DEF w

\* settlefCash and liquidatefCash end with receivers that are sold and paid for.
LEMMA TradefCashBalances ==
  ASSUME IInv, NEW local \in Priced, NEW collateral \in Currencies, NEW caller \in Accounts,
         NEW required \in Int, NEW net \in Int, NEW discount \in Discounts,
         NEW t \in TradefCash(World, Payer, caller, required, net, discount, local, collateral, ethRate),
         Finish(Paid(t.world, local, t.payer), caller, local, t.payer, collateral, t.collateral)
  PROVE  Balanced(World, World2)
  <1>1. World \in Worlds /\ ethRate \in Rates /\ local \in Currencies
    BY DEF IInv, Priced
  <1>2. /\ t.payer \in Int /\ t.collateral = 0 /\ t.world \in Worlds
        /\ OnlyAssetsMove(World, t.world)
    BY <1>1, TradefCashFacts
  <1> DEFINE w == Paid(t.world, local, t.payer)
  <1>3. Owed(World, w, local, t.payer, collateral, t.collateral) /\ t.collateral \in Int
    BY <1>1, <1>2, PaidOwes
  <1> HIDE DEF w
  <1> QED
    BY <1>1, <1>2, <1>3, FinishBalances DEF w

\* settleCashBalance
LEMMA SettleCashBalanceKeeps ==
  ASSUME IInv, NEW local \in Priced, NEW collateral \in Currencies, NEW value \in Nat,
         SettleCashBalance(local, collateral, value)
  PROVE  Balanced(World, World2)
  <1> DEFINE fc == Factors(World, Payer, local, collateral)
             balance == cashBalances[collateral][Payer]
  <1>1. PICK t \in Settle(World, Payer, local, collateral, balance, fc, value, ethRate) :
          Finish(Booked(t, local, collateral), Liquidator,
                 local, t.liquidator, collateral, -t.collateral)
    BY DEF SettleCashBalance
  <1>2. /\ local \in Currencies /\ local # collateral
        /\ fc.collateralNet \in Int /\ fc.collateralClaim \in Nat
    BY FactorsFacts DEF SettleCashBalance
  <1>3. balance = World.cash[collateral][Payer] /\ World \in Worlds /\ ethRate \in Rates
    BY DEF World, IInv
  <1> HIDE DEF fc, balance
  <1>4. Sound(World, local, collateral, t)
    BY <1>1, <1>2, <1>3, SettleSound
  <1> QED
    BY <1>1, <1>2, <1>4, SoundBalances

\* liquidate
LEMMA LiquidateAccountKeeps ==
  ASSUME IInv, NEW local \in Priced, NEW collateral \in Currencies, NEW maxAmount \in Nat,
         LiquidateAccount(local, collateral, maxAmount)
  PROVE  Balanced(World, World2)
  <1> DEFINE fc == Factors(World, Payer, local, collateral)
             balance == cashBalances[collateral][Payer]
  <1>1. PICK t \in Liquidate(World, Payer, local, collateral, balance, fc, maxAmount, ethRate) :
          Finish(Booked(t, local, collateral), Liquidator,
                 local, t.liquidator, collateral, -t.collateral)
    BY DEF LiquidateAccount
  <1>2. /\ local \in Currencies /\ local # collateral
        /\ fc.aggregate \in Int /\ fc.aggregate < 0 /\ fc.localNet \in Int
        /\ fc.collateralNet \in Int /\ fc.collateralClaim \in Nat
    BY FactorsFacts DEF LiquidateAccount
  <1>3. balance = World.cash[collateral][Payer] /\ World \in Worlds /\ ethRate \in Rates
    BY DEF World, IInv
  <1> HIDE DEF fc, balance
  <1>4. Sound(World, local, collateral, t)
    BY <1>1, <1>2, <1>3, LiquidateSound
  <1> QED
    BY <1>1, <1>2, <1>4, SoundBalances

\* settlefCash in one currency
LEMMA SettleLocalfCashKeeps ==
  ASSUME IInv, NEW caller \in Accounts, NEW local \in Currencies, NEW value \in Nat,
         SettleLocalfCash(caller, local, value)
  PROVE  Balanced(World, World2)
  <1>1. PICK r \in RaiseViaCashReceiver(World, Payer, caller, local, value) :
          Finish(Paid(r.world, local, value - r.remaining), caller, local, r.payment, local, 0)
    BY DEF SettleLocalfCash
  <1>2. World \in Worlds /\ Payer \in Accounts
    BY ConstantFacts DEF IInv
  <1>3. /\ r.world \in Worlds /\ OnlyAssetsMove(World, r.world)
        /\ r.remaining \in Nat /\ r.payment = value - r.remaining
    BY <1>2, RaiseReceiversFacts
  <1> DEFINE paid == value - r.remaining
             w == Paid(r.world, local, paid)
  <1>4. paid \in Int /\ r.payment = paid
    BY <1>3
  <1> HIDE DEF paid
  <1>5. Owed(World, w, local, paid, local, 0) /\ 0 \in Int
    BY <1>2, <1>3, <1>4, PaidOwes
  <1>6. Finish(w, caller, local, paid, local, 0)
    BY <1>1, <1>4 DEF paid
  <1> HIDE DEF w
  <1> QED
    BY <1>2, <1>4, <1>5, <1>6, FinishBalances

\* settlefCash against another currency
LEMMA SettlefCashKeeps ==
  ASSUME IInv, NEW caller \in Accounts, NEW local \in Priced, NEW collateral \in Currencies,
         NEW value \in Nat, SettlefCash(caller, local, collateral, value)
  PROVE  Balanced(World, World2)
  <1> DEFINE net == NetAvailable(World, Payer, collateral)
  <1>1. PICK t \in TradefCash(World, Payer, caller, value, net, SettlementDiscount, local, collateral,
                              ethRate) :
          Finish(Paid(t.world, local, t.payer), caller, local, t.payer, collateral, t.collateral)
    BY DEF SettlefCash
  <1>2. net \in Int
    BY FactorsFacts DEF SettlefCash
  <1>3. SettlementDiscount \in Discounts
    BY DEF Discounts
  <1> HIDE DEF net
  <1> QED
    BY <1>1, <1>2, <1>3, TradefCashBalances

\* liquidatefCash
LEMMA LiquidatefCashKeeps ==
  ASSUME IInv, NEW caller \in Accounts, NEW local \in Priced, NEW collateral \in Currencies,
         LiquidatefCash(caller, local, collateral)
  PROVE  Balanced(World, World2)
  <1> DEFINE fc == Factors(World, Payer, local, collateral)
             short == Shortfall(fc.aggregate, local, ethRate)
             debt == -fc.localNet
             required == LocalCurrencyToTrade(short, LiquidationDiscount, debt)
  <1>1. /\ fc.aggregate < 0
        /\ \E t \in TradefCash(World, Payer, caller, required, fc.collateralNet, LiquidationDiscount,
                               local, collateral, ethRate) :
             Finish(Paid(t.world, local, t.payer), caller, local, t.payer, collateral, t.collateral)
    BY DEF LiquidatefCash
  <1>2. /\ fc.aggregate \in Int /\ fc.localNet \in Int /\ fc.collateralNet \in Int
    BY FactorsFacts DEF LiquidatefCash
  <1>3. LiquidationDiscount \in Discounts /\ ethRate \in Rates
    BY DEF Discounts, IInv
  <1> HIDE DEF fc
  <1>4. short \in Nat
    BY <1>1, <1>2, <1>3, ShortfallNat
  <1>5. debt \in Int
    BY <1>2
  <1> HIDE DEF short, debt
  <1>6. required \in Int
    BY <1>3, <1>4, <1>5, TradeAmounts
  <1> HIDE DEF required
  <1> QED
    BY <1>1, <1>2, <1>3, <1>6, TradefCashBalances

\* What a pool holds is a number.
LEMMA PoolCashInt ==
  ASSUME NEW m
  PROVE  PoolCash(m) \in Int
  <1> DEFINE S == {k \in DOMAIN Pools : MarketOf[k[1]] = m}
             f == [k \in DOMAIN Pools |-> Pools[k].totalCurrentCash]
  <1>1. IsFiniteSet(S)
    BY PoolsAssumption, FS_Subset
  <1>2. \A k \in S : f[k] \in Int
    BY PoolsAssumption DEF Market
  <1>3. SumOf(f, S) \in Int
    BY <1>1, <1>2, SumInt
  <1> QED
    BY <1>3 DEF PoolCash, SumOf

\* The balances at the start.
LEMMA HoldingsBook ==
  ASSUME NEW start \in PayerStarts, NEW c \in Currencies
  PROVE  Holdings(start, c) \in Book
  <1>1. start.cash[c] \in Int /\ LiquidatorCash \in Int /\ OthersCash \in Int
    BY StartsAssumption, AmountsAssumption
  <1> QED
    BY <1>1, PoolCashInt DEF Holdings, Book, Holders

\* The total of a book is the sum over its holders.
LEMMA BookSum ==
  ASSUME NEW book \in Book
  PROVE  Sum(book) = SumOf(book, Holders)
  <1>1. DOMAIN book = Holders
    BY DEF Book
  <1> QED
    BY <1>1 DEF Sum, SumOf

\* The invariant holds at the start.
LEMMA InitInv ==
  ASSUME Init
  PROVE  IInv
  <1>1. PICK start \in PayerStarts :
          /\ accountAssets = [a \in Accounts |-> IF a = Payer THEN start.assets ELSE << >>]
          /\ markets = Pools
          /\ cashBalances = [c \in Currencies |-> Holdings(start, c)]
          /\ custody = [c \in Currencies |-> Sum(cashBalances[c])]
          /\ \E k \in Kinds : kind = [c \in Currencies |-> IF c = Ether THEN "ERC20" ELSE k]
          /\ ethRate \in [Priced -> Answers]
          /\ calls = 0
    BY DEF Init
  <1>2. start.assets \in Portfolio
    BY StartsAssumption
       DEF Portfolio, Stored, Entries, HeldAsset, OneEntryEach, NoDuplicates, SameSide
  <1>3. << >> \in Portfolio
    BY DEF Portfolio, NoDuplicates
  <1>4. accountAssets \in [Accounts -> Portfolio]
    BY <1>1, <1>2, <1>3
  <1>5. markets \in [DOMAIN Pools -> Pool]
    BY <1>1, PoolsAssumption DEF Pool
  <1>6. cashBalances \in [Currencies -> Book]
    BY <1>1, HoldingsBook
  <1>7. custody \in [Currencies -> Int]
    <2>1. ASSUME NEW c \in Currencies
          PROVE  Sum(cashBalances[c]) \in Int
      <3>1. cashBalances[c] \in Book
        BY <1>6
      <3> QED
        BY <3>1, BookSum, ConstantFacts, SumType DEF Book
    <2> QED
      BY <1>1, <2>1
  <1>8. World \in Worlds
    BY <1>4, <1>5, <1>6, <1>7 DEF World, Worlds
  <1>9. ethRate \in Rates
    BY <1>1, AmountsAssumption DEF Rates
  <1>10. kind \in AllKinds
    BY <1>1, CurrenciesAssumption DEF AllKinds
  <1>11. calls \in 0 .. MaxCalls
    BY <1>1, AmountsAssumption
  <1> QED
    BY <1>8, <1>9, <1>10, <1>11 DEF IInv

\* Without ERC777 among the kinds no currency is one.
LEMMA InitPlain ==
  ASSUME Init, "ERC777" \notin Kinds
  PROVE  kind \in PlainKinds
  <1>1. \E k \in Kinds : kind = [c \in Currencies |-> IF c = Ether THEN "ERC20" ELSE k]
    BY DEF Init
  <1> QED
    BY <1>1, CurrenciesAssumption DEF PlainKinds

\* What a call leaves alone, and the bound on the calls.
LEMMA CallKeeps ==
  ASSUME IInv, NEW w, NEW caller, NEW local, NEW m, NEW collateral, NEW n,
         Finish(w, caller, local, m, collateral, n), calls < MaxCalls
  PROVE  UNCHANGED <<kind, ethRate>> /\ calls' \in 0 .. MaxCalls
  BY AmountsAssumption DEF Finish, IInv

\* The rates change what nothing is made of.
LEMMA RateMovesKeeps ==
  ASSUME IInv, NEW currency \in Priced, RateMoves(currency)
  PROVE  /\ Balanced(World, World2) /\ ethRate' \in Rates
         /\ UNCHANGED <<kind, calls>>
  <1>1. World2 = World
    BY DEF RateMoves, World, World2
  <1>2. ethRate' \in Rates
    BY AmountsAssumption DEF RateMoves, IInv, Rates
  <1> QED
    BY <1>1, <1>2 DEF RateMoves, Balanced, SameStock, IInv

\* What every step does.
Kept == Balanced(World, World2) /\ ethRate' \in Rates /\ kind' = kind /\ calls' \in 0 .. MaxCalls

\* Every call and every move of the rates does so.
LEMMA NextKeeps ==
  ASSUME IInv, Next
  PROVE  Kept
  <1>1. ethRate \in Rates /\ calls \in 0 .. MaxCalls
    BY DEF IInv
  <1>2. Values \subseteq Nat /\ MaxAmounts \subseteq Nat
    BY AmountsAssumption
  <1>3. ASSUME NEW local \in Priced, NEW collateral \in Currencies, NEW value \in Values,
               SettleCashBalance(local, collateral, value)
        PROVE  Kept
    <2>1. UNCHANGED <<kind, ethRate>> /\ calls' \in 0 .. MaxCalls
      BY <1>3, CallKeeps DEF SettleCashBalance, Valid
    <2> QED
      BY <1>1, <1>2, <1>3, <2>1, SettleCashBalanceKeeps DEF Kept
  <1>4. ASSUME NEW local \in Priced, NEW collateral \in Currencies, NEW maxAmount \in MaxAmounts,
               LiquidateAccount(local, collateral, maxAmount)
        PROVE  Kept
    <2>1. UNCHANGED <<kind, ethRate>> /\ calls' \in 0 .. MaxCalls
      BY <1>4, CallKeeps DEF LiquidateAccount, Valid
    <2> QED
      BY <1>1, <1>2, <1>4, <2>1, LiquidateAccountKeeps DEF Kept
  <1>5. ASSUME NEW local \in Priced, NEW collateral \in Currencies, NEW caller \in Accounts,
               NEW value \in Values, SettlefCash(caller, local, collateral, value)
        PROVE  Kept
    <2>1. UNCHANGED <<kind, ethRate>> /\ calls' \in 0 .. MaxCalls
      BY <1>5, CallKeeps DEF SettlefCash, Valid
    <2> QED
      BY <1>1, <1>2, <1>5, <2>1, SettlefCashKeeps DEF Kept
  <1>6. ASSUME NEW local \in Priced, NEW collateral \in Currencies, NEW caller \in Accounts,
               LiquidatefCash(caller, local, collateral)
        PROVE  Kept
    <2>1. UNCHANGED <<kind, ethRate>> /\ calls' \in 0 .. MaxCalls
      BY <1>6, CallKeeps DEF LiquidatefCash, Valid
    <2> QED
      BY <1>1, <1>6, <2>1, LiquidatefCashKeeps DEF Kept
  <1>7. ASSUME NEW caller \in Accounts, NEW local \in Currencies, NEW value \in Values,
               SettleLocalfCash(caller, local, value)
        PROVE  Kept
    <2>1. UNCHANGED <<kind, ethRate>> /\ calls' \in 0 .. MaxCalls
      BY <1>7, CallKeeps DEF SettleLocalfCash
    <2> QED
      BY <1>1, <1>2, <1>7, <2>1, SettleLocalfCashKeeps DEF Kept
  <1>8. ASSUME NEW currency \in Priced, RateMoves(currency)
        PROVE  Kept
    BY <1>1, <1>8, RateMovesKeeps DEF Kept
  <1> QED
    BY <1>3, <1>4, <1>5, <1>6, <1>7, <1>8 DEF Next

\* The invariant is kept.
LEMMA StepInv ==
  ASSUME IInv, [Next]_vars
  PROVE  IInv'
  <1>1. CASE Next
    <2>1. Kept
      BY <1>1, NextKeeps
    <2> QED
      BY <2>1 DEF Kept, Balanced, IInv, World, World2
  <1>2. CASE UNCHANGED vars
    BY <1>2 DEF vars, IInv, World
  <1> QED
    BY <1>1, <1>2

\* It types the variables.
LEMMA InvTypes ==
  ASSUME IInv
  PROVE  TypeOK
  <1>1. /\ accountAssets \in [Accounts -> Portfolio] /\ markets \in [DOMAIN Pools -> Pool]
        /\ cashBalances \in [Currencies -> Book] /\ custody \in [Currencies -> Int]
    BY DEF IInv, World, Worlds
  <1>2. accountAssets \in [Accounts -> Seq(HeldAsset)] /\ \A a \in Accounts : OneEntryEach(accountAssets[a])
    BY <1>1 DEF Portfolio, Stored, Entries, HeldAsset, OneEntryEach, NoDuplicates, SameSide
  <1>3. markets \in [DOMAIN Pools -> Market] /\ \A k \in DOMAIN Pools : Consistent(markets[k])
    BY <1>1 DEF Pool
  <1>4. cashBalances \in [Currencies -> [Accounts \cup MarketAccounts \cup {Others} -> Int]]
    BY <1>1 DEF Book, Holders
  <1> QED
    BY <1>1, <1>2, <1>3, <1>4 DEF IInv, TypeOK, Rates, AllKinds

\* A balanced step creates nothing.
LEMMA BalancedCreatesNothing ==
  ASSUME IInv, IInv', kind \in PlainKinds, Balanced(World, World2)
  PROVE  /\ \A c \in Currencies :
              custody'[c] - Sum(cashBalances'[c]) = custody[c] - Sum(cashBalances[c])
         /\ \A k \in DOMAIN Pools : Undivided(World2, k) = Undivided(World, k)
  <1>1. ASSUME NEW c \in Currencies
        PROVE  custody'[c] - Sum(cashBalances'[c]) = custody[c] - Sum(cashBalances[c])
    <2>1. World \in Worlds /\ World2 \in Worlds /\ Surplus(World2, c) = Surplus(World, c)
      BY DEF IInv, Balanced
    <2>2. World.cash[c] \in Book /\ World2.cash[c] \in Book
      BY <2>1, WorldParts
    <2>3. Sum(World.cash[c]) = SumOf(World.cash[c], Holders) /\ Sum(World2.cash[c]) = SumOf(World2.cash[c], Holders)
      BY <2>2, BookSum
    <2>4. World2.custody[c] - Sum(World2.cash[c]) = World.custody[c] - Sum(World.cash[c])
      BY <2>1, <2>3 DEF Surplus
    <2> QED
      BY <2>4 DEF World, World2
  <1>2. \A k \in DOMAIN Pools : Undivided(World2, k) = Undivided(World, k)
    BY DEF Balanced, SameStock
  <1> QED
    BY <1>1, <1>2

\* Whatever third parties do, portfolios and pools keep their types, an entry for each instrument
\* and all three totals or none.
THEOREM ThirdPartyTypes == Spec => []TypeOK
  <1>1. Init => IInv
    BY InitInv
  <1>2. IInv /\ [Next]_vars => IInv'
    BY StepInv
  <1>3. IInv => TypeOK
    BY InvTypes
  <1> QED
    BY <1>1, <1>2, <1>3, PTL DEF Spec

\* Settlements and liquidations by third parties create no cash, fCash or tokens: the payer's side,
\* the market's and the liquidator's, which are computed apart, add up.  An ERC777 announces what
\* it transfers and is credited twice, which run liquidator_pays shows.
THEOREM NothingIsCreated ==
  ASSUME "ERC777" \notin Kinds
  PROVE  Spec => NothingCreated
  <1> DEFINE J == IInv /\ kind \in PlainKinds
             Step == /\ \A c \in Currencies :
                          custody'[c] - Sum(cashBalances'[c]) = custody[c] - Sum(cashBalances[c])
                     /\ \A k \in DOMAIN Pools : Undivided(World2, k) = Undivided(World, k)
  <1>1. Init => J
    BY InitInv, InitPlain
  <1>2. J /\ [Next]_vars => J' /\ [Step]_vars
    <2> SUFFICES ASSUME J, [Next]_vars
                 PROVE  J' /\ [Step]_vars
      OBVIOUS
    <2>1. IInv'
      BY StepInv
    <2>2. CASE Next
      <3>1. Kept
        BY <2>2, NextKeeps
      <3>2. Step
        BY <2>1, <3>1, BalancedCreatesNothing DEF Kept
      <3> HIDE DEF Step
      <3> QED
        BY <2>1, <3>1, <3>2 DEF Kept
    <2>3. CASE UNCHANGED vars
      <3> HIDE DEF Step
      <3> QED
        BY <2>1, <2>3 DEF vars
    <2> QED
      BY <2>2, <2>3
  <1> QED
    BY <1>1, <1>2, PTL DEF Spec, NothingCreated
=============================================================================
