--------------------------- MODULE OperatorProofs ---------------------------
(****************************************************************************)
(* Lemmas about the operators: what the arithmetic of a pool preserves, for *)
(* every pool and every amount; what the operations on an account's array   *)
(* of assets preserve: its type, that no two entries are for the same side  *)
(* of an instrument, and the positions the entries sum to.                  *)
(****************************************************************************)
EXTENDS LiquidityPool, AssetList, FoldProofs

(****************************************************************************)
(* Integer division.                                                        *)
(****************************************************************************)

\* A quotient rounds down: it is the largest natural that b times does not exceed a.
LEMMA QuotientBounds ==
  ASSUME NEW a \in Nat, NEW b \in Nat, b > 0
  PROVE  /\ a \div b \in Nat
         /\ b * (a \div b) <= a
         /\ a < b * (a \div b) + b
  BY SMT

\* A product of naturals is a natural.
LEMMA ProductNat ==
  ASSUME NEW a \in Nat, NEW b \in Nat
  PROVE  a * b \in Nat
  BY SMT

(****************************************************************************)
(* Shares: what the part t of a whole of b is worth in a total of a.        *)
(****************************************************************************)

\* A share rounds down, and is at most the total; the share of the whole is the total, and a
\* strict part of a positive total leaves something behind.
LEMMA ProRata ==
  ASSUME NEW a \in Nat, NEW b \in Nat, NEW t \in Nat, b > 0, t <= b
  PROVE  LET s == (a * t) \div b
         IN  /\ s \in Nat
             /\ s <= a
             /\ b * s <= a * t
             /\ a * t < b * s + b
             /\ t = b => s = a
             /\ (t < b /\ a > 0) => s < a
  <1> DEFINE s == (a * t) \div b
  <1>1. a * t \in Nat
    BY ProductNat
  <1>2. s \in Nat /\ b * s <= a * t /\ a * t < b * s + b
    BY <1>1, QuotientBounds
  <1>3. a * t <= a * b
    BY SMT
  <1>4. s <= a
    BY <1>2, <1>3, SMT
  <1>5. t = b => s = a
    BY <1>2, <1>4, SMT
  <1>6. (t < b /\ a > 0) => s < a
    BY <1>2, <1>4, SMT
  <1> QED
    BY <1>2, <1>4, <1>5, <1>6

(****************************************************************************)
(* Redemption.                                                              *)
(****************************************************************************)

\* Redeeming tokens the pool has issued leaves a pool, a consistent one if it was, and does not
\* dilute the tokens left in it.
LEMMA RedeemFacts ==
  ASSUME NEW mk \in Market, NEW tokens \in Nat, CanRedeem(mk, tokens)
  PROVE  /\ RedeemFrom(mk, tokens) \in Market
         /\ Consistent(mk) => Consistent(RedeemFrom(mk, tokens))
         /\ NoDilution(mk, RedeemFrom(mk, tokens))
  <1> DEFINE F == mk.totalfCash
             C == mk.totalCurrentCash
             L == mk.totalLiquidity
             f == fCashClaim(mk, tokens)
             c == CashClaim(mk, tokens)
             new == RedeemFrom(mk, tokens)
  <1>1. F \in Nat /\ C \in Nat /\ L \in Nat /\ L > 0 /\ tokens <= L
    BY DEF Market, CanRedeem
  <1>2. /\ c \in Nat /\ c <= C /\ L * c <= C * tokens
        /\ tokens = L => c = C
        /\ (tokens < L /\ C > 0) => c < C
    BY <1>1, ProRata DEF CashClaim
  <1>3. /\ f \in Nat /\ f <= F /\ L * f <= F * tokens
        /\ tokens = L => f = F
        /\ (tokens < L /\ F > 0) => f < F
    BY <1>1, ProRata DEF fCashClaim
  <1>4. /\ new.totalfCash = F - f
        /\ new.totalCurrentCash = C - c
        /\ new.totalLiquidity = L - tokens
    BY DEF RedeemFrom
  <1>5. new \in Market
    <2>1. F - f \in Nat /\ C - c \in Nat /\ L - tokens \in Nat
      <3> HIDE DEF F, C, L, f, c
      <3> QED
        BY <1>1, <1>2, <1>3
    <2> QED
      BY <2>1 DEF RedeemFrom, Market
  <1>6. Consistent(mk) => Consistent(new)
    <2>1. (C > 0 /\ F > 0) =>
            /\ L - tokens = 0 <=> C - c = 0
            /\ L - tokens = 0 <=> F - f = 0
      <3> HIDE DEF F, C, L, f, c
      <3>1. CASE tokens = L
        BY <3>1, <1>1, <1>2, <1>3
      <3>2. CASE tokens < L
        BY <3>2, <1>1, <1>2, <1>3
      <3> QED
        BY <3>1, <3>2, <1>1
    <2> QED
      BY <2>1, <1>1, <1>4 DEF Consistent
  <1>7. (C - c) * L >= C * (L - tokens)
    BY <1>1, <1>2, SMT
  <1>8. (F - f + 1) * L >= F * (L - tokens)
    BY <1>1, <1>3, SMT
  <1>9. NoDilution(mk, new)
    BY <1>4, <1>7, <1>8 DEF NoDilution
  <1> HIDE DEF new
  <1> QED
    BY <1>5, <1>6, <1>9 DEF new

(****************************************************************************)
(* Entry.                                                                   *)
(****************************************************************************)

\* Joining a pool that has cash leaves a pool, a consistent one if it was, and does not dilute
\* the tokens it had issued.
LEMMA JoinFacts ==
  ASSUME NEW mk \in Market, NEW cash \in Nat, mk.totalCurrentCash > 0
  PROVE  /\ AddLiquidityTo(mk, cash) \in Market
         /\ Consistent(mk) => Consistent(AddLiquidityTo(mk, cash))
         /\ NoDilution(mk, AddLiquidityTo(mk, cash))
  <1> DEFINE F == mk.totalfCash
             C == mk.totalCurrentCash
             L == mk.totalLiquidity
             f == fCashOwed(mk, cash)
             t == TokensMinted(mk, cash)
             new == AddLiquidityTo(mk, cash)
  <1>1. F \in Nat /\ C \in Nat /\ L \in Nat /\ C > 0
    BY DEF Market
  <1>2. f \in Nat /\ C * f <= F * cash /\ F * cash < C * f + C
    BY <1>1, ProductNat, QuotientBounds DEF fCashOwed
  <1>3. t \in Nat /\ C * t <= L * cash
    BY <1>1, ProductNat, QuotientBounds DEF TokensMinted
  <1>4. /\ new.totalfCash = F + f
        /\ new.totalCurrentCash = C + cash
        /\ new.totalLiquidity = L + t
    BY DEF AddLiquidityTo
  <1>5. new \in Market
    BY <1>1, <1>2, <1>3 DEF AddLiquidityTo, Market
  <1>6. Consistent(mk) => Consistent(new)
    BY <1>1, <1>2, <1>3, <1>4 DEF Consistent
  <1>7. (C + cash) * L >= C * (L + t)
    BY <1>1, <1>3, SMT
  <1>8. (F + f + 1) * L >= F * (L + t)
    <2>1. F * (C * t) <= F * (L * cash)
      BY <1>1, <1>3, SMT
    <2>2. L * (F * cash) <= L * (C * f + C)
      BY <1>1, <1>2, SMT
    <2>3. C * (F * t) <= C * (L * (f + 1))
      BY <2>1, <2>2, <1>1, <1>2, <1>3, SMT
    <2>4. F * t <= L * (f + 1)
      BY <2>3, <1>1, <1>2, <1>3, SMT
    <2> QED
      BY <2>4, <1>1, <1>2, <1>3, SMT
  <1>9. NoDilution(mk, new)
    BY <1>4, <1>7, <1>8 DEF NoDilution
  <1> HIDE DEF new
  <1> QED
    BY <1>5, <1>6, <1>9 DEF new

\* The first provider opens a consistent pool.
LEMMA OpenFacts ==
  ASSUME NEW cash \in Nat, NEW maxfCash \in Nat,
         HasImpliedRate(FirstLiquidity(cash, maxfCash))
  PROVE  /\ FirstLiquidity(cash, maxfCash) \in Market
         /\ Consistent(FirstLiquidity(cash, maxfCash))
  BY DEF FirstLiquidity, HasImpliedRate, Market, Consistent

(****************************************************************************)
(* Trades.                                                                  *)
(****************************************************************************)

\* A trade leaves a pool, with the same tokens and something on both sides of it.
LEMMA TradeFacts ==
  ASSUME NEW mk \in Market, NEW fCash \in Nat, NEW cash \in Nat
  PROVE  /\ CanBorrow(mk, fCash, cash) =>
              /\ BorrowFrom(mk, fCash, cash) \in Market
              /\ HasImpliedRate(BorrowFrom(mk, fCash, cash))
              /\ BorrowFrom(mk, fCash, cash).totalLiquidity = mk.totalLiquidity
         /\ CanLend(mk, fCash, cash) =>
              /\ LendTo(mk, fCash, cash) \in Market
              /\ HasImpliedRate(LendTo(mk, fCash, cash))
              /\ LendTo(mk, fCash, cash).totalLiquidity = mk.totalLiquidity
  BY DEF Market, CanBorrow, CanLend, BorrowFrom, LendTo, HasImpliedRate,
         PriceBounds, SimulatedfCash, PoolSize

\* A pool with an implied rate has liquidity if it is consistent, and stays consistent when only
\* its two sides move and neither is emptied.
LEMMA RatedPool ==
  ASSUME NEW old \in Market, NEW new \in Market,
         Consistent(old), HasImpliedRate(old), HasImpliedRate(new),
         new.totalLiquidity = old.totalLiquidity
  PROVE  Consistent(new)
  BY DEF Market, Consistent, HasImpliedRate

(****************************************************************************)
(* Round trips, lots and liquidation.                                       *)
(****************************************************************************)

\* Two shares taken one after the other, the second of what the first left, are worth no more
\* than the share of the two together.
LEMMA SplitShare ==
  ASSUME NEW a \in Nat, NEW b \in Nat, NEW x \in Nat, NEW y \in Nat, x < b, x + y <= b
  PROVE  LET s == (a * x) \div b
         IN  s + ((a - s) * y) \div (b - x) <= (a * (x + y)) \div b
  <1> DEFINE s == (a * x) \div b
             r == ((a - s) * y) \div (b - x)
             w == (a * (x + y)) \div b
  <1>1. s \in Nat /\ s <= a /\ b * s <= a * x
    BY ProRata
  <1>2. a - s \in Nat /\ b - x \in Nat /\ b - x > 0 /\ y <= b - x
    <2> HIDE DEF s
    <2> QED
      BY <1>1
  <1>3. r \in Nat /\ (b - x) * r <= (a - s) * y
    <2> HIDE DEF s
    <2> QED
      BY <1>2, ProductNat, QuotientBounds
  <1>4. w \in Nat /\ a * (x + y) < b * w + b
    BY ProductNat, QuotientBounds
  <1> HIDE DEF s, r, w
  <1>5. b * (s + r) <= a * (x + y)
    <2> DEFINE D == a * x - b * s
    <2>1. D \in Nat /\ a * y \in Nat
      BY <1>1, ProductNat
    <2>2. (b - x) * (b * r) <= b * ((a - s) * y)
      BY <1>1, <1>2, <1>3, SMT
    <2>3. b * ((a - s) * y) = (b - x) * (a * y) + D * y
      BY <1>1, SMT
    <2>4. D * y <= D * (b - x)
      <3> HIDE DEF D
      <3> QED
        BY <1>2, <2>1, SMT
    <2>5. (b - x) * (b * r) <= (b - x) * (a * y + D)
      <3> HIDE DEF D
      <3> QED
        BY <1>2, <1>3, <2>1, <2>2, <2>3, <2>4, SMT
    <2>6. b * r <= a * y + D
      <3> HIDE DEF D
      <3> QED
        BY <1>2, <1>3, <2>1, <2>5, SMT
    <2> QED
      BY <1>1, <1>3, <2>6, SMT
  <1>6. s + r <= w
    BY <1>1, <1>3, <1>4, <1>5, SMT
  <1> QED
    BY <1>6 DEF s, r, w

\* Leaving right after joining returns at most what was put in, on both sides.
LEMMA RoundTripFacts ==
  ASSUME NEW mk \in Market, NEW cash \in Nat, mk.totalCurrentCash > 0, mk.totalLiquidity > 0
  PROVE  LET joined == AddLiquidityTo(mk, cash)
             tokens == TokensMinted(mk, cash)
         IN  /\ CashClaim(joined, tokens) <= cash
             /\ fCashClaim(joined, tokens) <= fCashOwed(mk, cash)
  <1> DEFINE F == mk.totalfCash
             C == mk.totalCurrentCash
             L == mk.totalLiquidity
             f == fCashOwed(mk, cash)
             t == TokensMinted(mk, cash)
             joined == AddLiquidityTo(mk, cash)
  <1>1. F \in Nat /\ C \in Nat /\ L \in Nat /\ C > 0 /\ L > 0
    BY DEF Market
  <1>2. f \in Nat /\ C * f <= F * cash /\ F * cash < C * f + C
    BY <1>1, ProductNat, QuotientBounds DEF fCashOwed
  <1>3. t \in Nat /\ C * t <= L * cash
    BY <1>1, ProductNat, QuotientBounds DEF TokensMinted
  <1>4. /\ CashClaim(joined, t) = ((C + cash) * t) \div (L + t)
        /\ fCashClaim(joined, t) = ((F + f) * t) \div (L + t)
    BY DEF AddLiquidityTo, CashClaim, fCashClaim
  <1> HIDE DEF F, C, L, f, t, joined
  <1>5. ((C + cash) * t) \div (L + t) <= cash
    <2>1. (L + t) * (((C + cash) * t) \div (L + t)) <= (C + cash) * t
      BY <1>1, <1>3, ProductNat, QuotientBounds
    <2>2. (C + cash) * t <= (L + t) * cash
      BY <1>1, <1>3, SMT
    <2> QED
      BY <2>1, <2>2, <1>1, <1>3, ProductNat, QuotientBounds, SMT
  <1>6. ((F + f) * t) \div (L + t) <= f
    <2>1. F * (C * t) <= F * (L * cash)
      BY <1>1, <1>3, SMT
    <2>2. L * (F * cash) <= L * (C * f + C)
      BY <1>1, <1>2, SMT
    <2>3. C * (F * t) <= C * (L * (f + 1))
      BY <2>1, <2>2, <1>1, <1>2, <1>3, SMT
    <2>4. F * t <= L * (f + 1)
      BY <2>3, <1>1, <1>2, <1>3, SMT
    <2>5. (F + f) * t < (L + t) * (f + 1)
      BY <2>4, <1>1, <1>2, <1>3, SMT
    <2>6. (L + t) * (((F + f) * t) \div (L + t)) <= (F + f) * t
      BY <1>1, <1>2, <1>3, ProductNat, QuotientBounds
    <2>7. ((F + f) * t) \div (L + t) \in Nat
      BY <1>1, <1>2, <1>3, ProductNat, QuotientBounds
    <2> DEFINE q == ((F + f) * t) \div (L + t)
    <2> HIDE DEF q
    <2>8. (L + t) * q < (L + t) * (f + 1)
      BY <2>5, <2>6, <2>7, <1>1, <1>2, <1>3, SMT DEF q
    <2>9. q <= f
      BY <2>7, <2>8, <1>1, <1>2, <1>3, SMT DEF q
    <2> QED
      BY <2>9 DEF q
  <1> QED
    BY <1>4, <1>5, <1>6 DEF f, t, joined

\* Redeeming takes from each total of a pool and adds to none.
LEMMA RedeemShrinks ==
  ASSUME NEW mk \in Market, NEW tokens \in Nat, CanRedeem(mk, tokens)
  PROVE  LET new == RedeemFrom(mk, tokens)
         IN  /\ new.totalfCash <= mk.totalfCash
             /\ new.totalCurrentCash <= mk.totalCurrentCash
             /\ new.totalLiquidity <= mk.totalLiquidity
  <1>1. /\ mk.totalfCash \in Nat /\ mk.totalCurrentCash \in Nat /\ mk.totalLiquidity \in Nat
        /\ mk.totalLiquidity > 0 /\ tokens <= mk.totalLiquidity
    BY DEF Market, CanRedeem
  <1>2. CashClaim(mk, tokens) \in Nat /\ fCashClaim(mk, tokens) \in Nat
    BY <1>1, ProRata DEF CashClaim, fCashClaim
  <1> QED
    BY <1>1, <1>2 DEF RedeemFrom

\* Liquidation asks for a natural number of tokens.
LEMMA TokensToRaiseNat ==
  ASSUME NEW mk \in Market, Consistent(mk), mk.totalLiquidity > 0,
         NEW cashRequired \in Nat, NEW maxTokens \in Nat
  PROVE  TokensToRaise(mk, cashRequired, maxTokens) \in Nat
  <1>1. mk.totalLiquidity \in Nat /\ mk.totalCurrentCash \in Nat
    BY DEF Market
  <1>2. mk.totalCurrentCash > 0
    BY <1>1 DEF Consistent
  <1>3. (cashRequired * mk.totalLiquidity) \div mk.totalCurrentCash \in Nat
    BY <1>1, <1>2, ProductNat, QuotientBounds
  <1> QED
    BY <1>3 DEF TokensToRaise

\* The tokens liquidation takes are no more than it may and raise no more than it needs; where
\* all of them would have sufficed they fall short by less than a token's worth and a unit.
LEMMA RaiseFacts ==
  ASSUME NEW mk \in Market, Consistent(mk), mk.totalLiquidity > 0,
         NEW cashRequired \in Nat, NEW maxTokens \in Nat
  PROVE  LET tokens == TokensToRaise(mk, cashRequired, maxTokens)
             raised == CashClaim(mk, tokens)
         IN  /\ tokens <= maxTokens
             /\ raised <= cashRequired
             /\ CashClaim(mk, maxTokens) >= cashRequired =>
                  (cashRequired - raised) * mk.totalLiquidity
                    < mk.totalCurrentCash + mk.totalLiquidity
  <1> DEFINE C == mk.totalCurrentCash
             L == mk.totalLiquidity
             part == (cashRequired * L) \div C
             tokens == TokensToRaise(mk, cashRequired, maxTokens)
             raised == CashClaim(mk, tokens)
             all == CashClaim(mk, maxTokens)
  <1>1. C \in Nat /\ L \in Nat /\ L > 0 /\ C > 0
    BY DEF Market, Consistent
  <1>2. part \in Nat /\ C * part <= cashRequired * L /\ cashRequired * L < C * part + C
    BY <1>1, ProductNat, QuotientBounds
  <1>3. all \in Nat /\ L * all <= C * maxTokens /\ C * maxTokens < L * all + L
    BY <1>1, ProductNat, QuotientBounds DEF CashClaim
  <1>4. CASE all > cashRequired
    <2>1. tokens = part
      BY <1>4 DEF TokensToRaise
    <2>2. raised \in Nat /\ L * raised <= C * part /\ C * part < L * raised + L
      BY <1>1, <1>2, <2>1, ProductNat, QuotientBounds DEF CashClaim
    <2> HIDE DEF C, L, part, tokens, raised, all
    <2>3. L * (cashRequired + 1) <= L * all
      BY <1>1, <1>3, <1>4, SMT
    <2>4. C * part <= C * maxTokens
      BY <2>3, <1>1, <1>2, <1>3, SMT
    <2>5. part <= maxTokens
      BY <2>4, <1>1, <1>2, SMT
    <2>6. L * raised <= L * cashRequired
      BY <2>2, <1>1, <1>2, SMT
    <2>7. raised <= cashRequired
      BY <2>6, <2>2, <1>1, SMT
    <2>8. (cashRequired - raised) * L < C + L
      BY <2>2, <1>1, <1>2, SMT
    <2> QED
      BY <2>1, <2>5, <2>7, <2>8 DEF C, L, part, tokens, raised, all
  <1>5. CASE ~(all > cashRequired)
    <2>1. tokens = maxTokens /\ raised = all
      BY <1>5 DEF TokensToRaise
    <2> HIDE DEF C, L, tokens, raised, all
    <2>2. all >= cashRequired => (cashRequired - all) * L = 0
      BY <1>1, <1>3, <1>5
    <2>3. /\ tokens <= maxTokens
          /\ raised <= cashRequired
          /\ all >= cashRequired => (cashRequired - raised) * L < C + L
      BY <2>1, <2>2, <1>1, <1>3, <1>5
    <2> QED
      BY <2>3 DEF C, L, tokens, raised, all
  <1> QED
    BY <1>4, <1>5

(****************************************************************************)
(* Sums over a list, of a weight w given to each kind of element.           *)
(****************************************************************************)
ListSum(s, w) == SumOf([i \in DOMAIN s |-> w[s[i]]], DOMAIN s)

\* A list's weights are a function on its positions.
LEMMA ListFacts ==
  ASSUME NEW E, NEW s \in Seq(E), NEW w \in [E -> Int]
  PROVE  /\ IsFiniteSet(DOMAIN s) /\ DOMAIN s = 1 .. Len(s) /\ Len(s) \in Nat
         /\ [i \in DOMAIN s |-> w[s[i]]] \in [DOMAIN s -> Int]
         /\ \A i \in DOMAIN s : s[i] \in E /\ w[s[i]] \in Int
         /\ ListSum(s, w) \in Int
         /\ (\A i \in DOMAIN s : w[s[i]] = 0) => ListSum(s, w) = 0
  <1>1. /\ DOMAIN s = 1 .. Len(s) /\ Len(s) \in Nat
        /\ \A i \in DOMAIN s : s[i] \in E /\ w[s[i]] \in Int
    OBVIOUS
  <1>2. IsFiniteSet(DOMAIN s)
    BY <1>1, FS_Interval
  <1>3. [i \in DOMAIN s |-> w[s[i]]] \in [DOMAIN s -> Int]
    BY <1>1
  <1>4. ListSum(s, w) \in Int /\ ((\A i \in DOMAIN s : w[s[i]] = 0) => ListSum(s, w) = 0)
    BY <1>2, <1>3, SumType DEF ListSum
  <1> QED
    BY <1>1, <1>2, <1>3, <1>4

\* Replacing an entry exchanges its weight.
LEMMA ListReplace ==
  ASSUME NEW E, NEW s \in Seq(E), NEW w \in [E -> Int], NEW i \in DOMAIN s, NEW e \in E
  PROVE  /\ ReplaceAt(s, i, e) \in Seq(E) /\ Len(ReplaceAt(s, i, e)) = Len(s)
         /\ ReplaceAt(s, i, e)[i] = e
         /\ \A j \in DOMAIN s : j # i => ReplaceAt(s, i, e)[j] = s[j]
         /\ ListSum(ReplaceAt(s, i, e), w) = ListSum(s, w) - w[s[i]] + w[e]
  <1> DEFINE t == ReplaceAt(s, i, e)
             f == [j \in DOMAIN s |-> w[s[j]]]
             n == w[e] - w[s[i]]
  <1>1. /\ f \in [DOMAIN s -> Int] /\ IsFiniteSet(DOMAIN s) /\ w[s[i]] \in Int /\ w[e] \in Int
        /\ \A j \in DOMAIN s : w[s[j]] \in Int
    BY ListFacts
  <1>2. /\ t \in Seq(E) /\ Len(t) = Len(s) /\ DOMAIN t = DOMAIN s
        /\ t[i] = e /\ \A j \in DOMAIN s : j # i => t[j] = s[j]
    BY DEF ReplaceAt
  <1>3. n \in Int /\ f[i] + n = w[e]
    BY <1>1
  <1>4. SumOf([f EXCEPT ![i] = @ + n], DOMAIN s) = SumOf(f, DOMAIN s) + n
    <2> HIDE DEF f, n
    <2> QED
      BY <1>1, <1>3, SumAdd
  <1>5. [f EXCEPT ![i] = @ + n] = [j \in DOMAIN t |-> w[t[j]]]
    BY <1>1, <1>2, <1>3
  <1>6. ListSum(t, w) = ListSum(s, w) + n
    BY <1>2, <1>4, <1>5 DEF ListSum
  <1>7. ListSum(s, w) \in Int
    BY ListFacts
  <1> QED
    BY <1>1, <1>2, <1>6, <1>7

\* Appending an entry adds its weight.
LEMMA ListAppend ==
  ASSUME NEW E, NEW s \in Seq(E), NEW w \in [E -> Int], NEW e \in E
  PROVE  ListSum(Append(s, e), w) = ListSum(s, w) + w[e]
  <1> DEFINE t == Append(s, e)
             h == Len(s) + 1
             f == [j \in DOMAIN s |-> w[s[j]]]
             g == [j \in DOMAIN t |-> w[t[j]]]
  <1>1. /\ t \in Seq(E) /\ DOMAIN t = DOMAIN s \cup {h} /\ h \notin DOMAIN s
        /\ t[h] = e /\ \A j \in DOMAIN s : t[j] = s[j]
    OBVIOUS
  <1>2. /\ f \in [DOMAIN s -> Int] /\ IsFiniteSet(DOMAIN s) /\ g \in [DOMAIN t -> Int]
        /\ ListSum(s, w) = SumOf(f, DOMAIN s) /\ ListSum(t, w) = SumOf(g, DOMAIN t)
    BY <1>1, ListFacts DEF ListSum
  <1>3. g[h] = w[e] /\ \A j \in DOMAIN s : g[j] = f[j]
    BY <1>1
  <1> HIDE DEF t, h, f, g
  <1>4. SumOf(g, DOMAIN t) = SumOf(g, DOMAIN s) + g[h]
    BY <1>1, <1>2, SumExtend
  <1>5. SumOf(g, DOMAIN s) = SumOf(f, DOMAIN s)
    BY <1>2, <1>3, SumSame
  <1> QED
    BY <1>2, <1>3, <1>4, <1>5 DEF t

\* The empty list weighs nothing.
LEMMA ListEmpty ==
  ASSUME NEW E, NEW w \in [E -> Int]
  PROVE  ListSum(<< >>, w) = 0
  <1>1. << >> \in Seq(E) /\ \A i \in DOMAIN << >> : w[<< >>[i]] = 0
    OBVIOUS
  <1> QED
    BY <1>1, ListFacts

\* Weights that agree on the entries of a list give it the same sum.
LEMMA ListSame ==
  ASSUME NEW E, NEW s \in Seq(E), NEW w \in [E -> Int], NEW v \in [E -> Int],
         \A i \in DOMAIN s : v[s[i]] = w[s[i]]
  PROVE  ListSum(s, v) = ListSum(s, w)
  <1>1. [i \in DOMAIN s |-> v[s[i]]] = [i \in DOMAIN s |-> w[s[i]]]
    OBVIOUS
  <1> QED
    BY <1>1 DEF ListSum

\* _removeAsset drops one entry and keeps the others: position i of the shorter list, if it is
\* still there, has the last entry.
Origin(s, i, j) == IF j = i THEN Len(s) ELSE j

LEMMA RemoveFacts ==
  ASSUME NEW E, NEW s \in Seq(E), NEW i \in DOMAIN s
  PROVE  /\ RemoveAsset(s, i) \in Seq(E) /\ Len(RemoveAsset(s, i)) = Len(s) - 1
         /\ \A j \in DOMAIN RemoveAsset(s, i) :
              /\ Origin(s, i, j) \in DOMAIN s
              /\ RemoveAsset(s, i)[j] = s[Origin(s, i, j)]
         /\ \A w \in [E -> Int] : ListSum(RemoveAsset(s, i), w) = ListSum(s, w) - w[s[i]]
  <1> DEFINE n == Len(s)
             t == [s EXCEPT ![i] = s[n]]
             r == RemoveAsset(s, i)
  <1>1. n \in Nat /\ i \in 1 .. n /\ n \in DOMAIN s /\ s[n] \in E /\ DOMAIN s = 1 .. n
    OBVIOUS
  <1>2. t \in Seq(E) /\ Len(t) = n /\ t[i] = s[n] /\ \A j \in 1 .. n : j # i => t[j] = s[j]
    BY <1>1
  <1>3. r = SubSeq(t, 1, n - 1)
    BY <1>2 DEF RemoveAsset, Front, Last
  <1>4. /\ r \in Seq(E) /\ Len(r) = n - 1 /\ DOMAIN r = 1 .. (n - 1)
        /\ \A j \in 1 .. (n - 1) : r[j] = t[j]
    <2> HIDE DEF t, r
    <2> QED
      BY <1>1, <1>2, <1>3
  <1>5. t = Append(r, t[n])
    <2> HIDE DEF n, t, r
    <2> DEFINE x == t[n]
    <2>0. x \in E
      BY <1>1, <1>2
    <2> HIDE DEF x
    <2>1. Append(r, x) \in Seq(E) /\ Len(Append(r, x)) = n
      BY <1>1, <1>4, <2>0
    <2>2. \A j \in 1 .. n : Append(r, x)[j] = t[j]
      BY <1>1, <1>2, <1>4, <2>0 DEF x
    <2>3. t = Append(r, x)
      BY <1>1, <1>2, <2>1, <2>2
    <2> QED
      BY <2>3 DEF x
  <1>6. ASSUME NEW w \in [E -> Int]
        PROVE  ListSum(r, w) = ListSum(s, w) - w[s[i]]
    <2> HIDE DEF n, r
    <2> DEFINE e == s[n]
    <2>0. e \in E /\ t = ReplaceAt(s, i, e)
      BY <1>1 DEF ReplaceAt
    <2> HIDE DEF e, t
    <2>1. ListSum(ReplaceAt(s, i, e), w) = ListSum(s, w) - w[s[i]] + w[e]
      BY <2>0, ListReplace
    <2>2. t[n] = e
      BY <1>1, <1>2 DEF e
    <2>3. ListSum(Append(r, e), w) = ListSum(r, w) + w[e]
      BY <1>4, <2>0, ListAppend
    <2>4. ListSum(r, w) \in Int /\ ListSum(s, w) \in Int
      BY <1>4, ListFacts
    <2>5. w[s[i]] \in Int /\ w[e] \in Int
      BY <1>1, <2>0
    <2>6. ReplaceAt(s, i, e) = Append(r, e)
      BY <1>5, <2>0, <2>2
    <2>7. ListSum(r, w) + w[e] = ListSum(s, w) - w[s[i]] + w[e]
      BY <2>1, <2>3, <2>6
    <2> DEFINE x == w[s[i]]
               y == w[e]
    <2>8. x \in Int /\ y \in Int /\ ListSum(r, w) + y = ListSum(s, w) - x + y
      BY <2>5, <2>7
    <2> HIDE DEF x, y
    <2>9. ListSum(r, w) = ListSum(s, w) - x
      <3> DEFINE before == ListSum(s, w)
                 after == ListSum(r, w)
      <3>1. before \in Int /\ after \in Int /\ after + y = before - x + y
        BY <2>4, <2>8
      <3> HIDE DEF before, after
      <3>2. after = before - x
        BY <2>8, <3>1
      <3> QED
        BY <3>2 DEF before, after
    <2>10. x = w[s[i]]
      BY DEF x
    <2> QED
      BY <2>9, <2>10
  <1>7. \A j \in 1 .. (n - 1) : Origin(s, i, j) \in 1 .. n /\ r[j] = s[Origin(s, i, j)]
    <2> HIDE DEF t, r
    <2> QED
      BY <1>1, <1>2, <1>4 DEF Origin
  <1> QED
    BY <1>1, <1>4, <1>6, <1>7

(****************************************************************************)
(* Positions.  A posting may be of any type, an entry in store is never a   *)
(* payer of liquidity.  The types of one side net against each other.       *)
(****************************************************************************)
Postings(G, M) ==
  [cashGroupId : G, maturity : M, assetType : AssetTypes, notional : Nat]

Entries(G, M) ==
  [cashGroupId : G, maturity : M, assetType : AssetTypes \ {LiquidityPayer}, notional : Nat]

Sides == {{CashPayer, CashReceiver}, {LiquidityToken, LiquidityPayer}}

SameSide(x, y) == SameInstrument(x, y) /\ IsLiquidityToken(x.assetType) = IsLiquidityToken(y.assetType)

NoDuplicates(p) == \A i, j \in DOMAIN p : i # j => ~SameSide(p[i], p[j])

\* What an entry of E adds to the position in instrument k.
Shares(E, types, k) == [x \in E |-> Share(x, types, k)]

\* Postings and entries are integers to add up.
LEMMA ShareFacts ==
  ASSUME NEW G, NEW M, NEW types, NEW k
  PROVE  /\ \A x \in Postings(G, M) : Share(x, types, k) \in Int
         /\ Entries(G, M) \subseteq Postings(G, M)
         /\ Shares(Entries(G, M), types, k) \in [Entries(G, M) -> Int]
         /\ \A x \in Entries(G, M) : Shares(Entries(G, M), types, k)[x] = Share(x, types, k)
  <1>1. \A x \in Postings(G, M) : Share(x, types, k) \in Int
    <2>1. \A x \in Postings(G, M) : Signed(x) \in Int
      BY DEF Postings, Signed
    <2> QED
      BY <2>1 DEF Share
  <1>2. Entries(G, M) \subseteq Postings(G, M)
    BY DEF Entries, Postings
  <1> QED
    BY <1>1, <1>2 DEF Shares

\* A position is the sum of the entries' shares in it.
LEMMA PositionSum ==
  ASSUME NEW G, NEW M, NEW p \in Seq(Entries(G, M)), NEW types, NEW k
  PROVE  Position(p, types, k) = ListSum(p, Shares(Entries(G, M), types, k))
  <1>1. [i \in DOMAIN p |-> Share(p[i], types, k)]
          = [i \in DOMAIN p |-> Shares(Entries(G, M), types, k)[p[i]]]
    BY ShareFacts
  <1>2. Position(p, types, k) = SumOf([i \in DOMAIN p |-> Share(p[i], types, k)], DOMAIN p)
    BY DEF Position, SumOf, MapThenSumSet, MapThenFoldSet
  <1> QED
    BY <1>1, <1>2 DEF ListSum

\* How a change of the array changes a position.
LEMMA PositionFacts ==
  ASSUME NEW G, NEW M, NEW p \in Seq(Entries(G, M)), NEW types, NEW k
  PROVE  /\ Position(p, types, k) \in Int
         /\ (\A i \in DOMAIN p : Share(p[i], types, k) = 0) => Position(p, types, k) = 0
         /\ \A x \in Entries(G, M) :
              /\ Position(Append(p, x), types, k) = Position(p, types, k) + Share(x, types, k)
              /\ \A i \in DOMAIN p :
                   Position(ReplaceAt(p, i, x), types, k)
                     = Position(p, types, k) - Share(p[i], types, k) + Share(x, types, k)
         /\ \A i \in DOMAIN p :
              Position(RemoveAsset(p, i), types, k) = Position(p, types, k) - Share(p[i], types, k)
  <1> DEFINE E == Entries(G, M)
             w == Shares(E, types, k)
  <1>1. w \in [E -> Int] /\ \A x \in E : w[x] = Share(x, types, k)
    BY ShareFacts
  <1>2. \A i \in DOMAIN p : p[i] \in E /\ w[p[i]] = Share(p[i], types, k)
    BY <1>1
  <1>3. \A q \in Seq(E) : Position(q, types, k) = ListSum(q, w)
    BY PositionSum
  <1> HIDE DEF w, E
  <1>4. p \in Seq(E)
    BY DEF E
  <1>5. /\ ListSum(p, w) \in Int
        /\ (\A i \in DOMAIN p : w[p[i]] = 0) => ListSum(p, w) = 0
    BY <1>1, <1>4, ListFacts
  <1>6. ASSUME NEW x \in E
        PROVE  /\ Append(p, x) \in Seq(E)
               /\ ListSum(Append(p, x), w) = ListSum(p, w) + w[x]
    BY <1>1, <1>4, ListAppend
  <1>7. ASSUME NEW x \in E, NEW i \in DOMAIN p
        PROVE  /\ ReplaceAt(p, i, x) \in Seq(E)
               /\ ListSum(ReplaceAt(p, i, x), w) = ListSum(p, w) - w[p[i]] + w[x]
    BY <1>1, <1>4, ListReplace
  <1>8. ASSUME NEW i \in DOMAIN p
        PROVE  /\ RemoveAsset(p, i) \in Seq(E)
               /\ ListSum(RemoveAsset(p, i), w) = ListSum(p, w) - w[p[i]]
    BY <1>1, <1>4, RemoveFacts
  <1>9. Position(p, types, k) = ListSum(p, w)
    BY <1>3, <1>4
  <1>10. ASSUME NEW x \in E
         PROVE  Position(Append(p, x), types, k) = Position(p, types, k) + Share(x, types, k)
    BY <1>1, <1>3, <1>6, <1>9
  <1>11. ASSUME NEW x \in E, NEW i \in DOMAIN p
         PROVE  Position(ReplaceAt(p, i, x), types, k)
                  = Position(p, types, k) - Share(p[i], types, k) + Share(x, types, k)
    BY <1>1, <1>2, <1>3, <1>7, <1>9
  <1>12. ASSUME NEW i \in DOMAIN p
         PROVE  Position(RemoveAsset(p, i), types, k) = Position(p, types, k) - Share(p[i], types, k)
    BY <1>2, <1>3, <1>8, <1>9
  <1>13. Position(p, types, k) \in Int
    BY <1>5, <1>9
  <1>14. (\A i \in DOMAIN p : Share(p[i], types, k) = 0) => Position(p, types, k) = 0
    BY <1>2, <1>5, <1>9
  <1> QED
    BY <1>10, <1>11, <1>12, <1>13, <1>14 DEF E

\* Nobody holds a payer of liquidity: a position in liquidity tokens is their number.
LEMMA TokenPosition ==
  ASSUME NEW G, NEW M, NEW p \in Seq(Entries(G, M)), NEW k
  PROVE  /\ Position(p, {LiquidityToken}, k) \in Nat
         /\ Position(p, {LiquidityToken}, k) = Position(p, {LiquidityToken, LiquidityPayer}, k)
  <1> DEFINE f == [i \in DOMAIN p |-> Share(p[i], {LiquidityToken}, k)]
             g == [i \in DOMAIN p |-> Share(p[i], {LiquidityToken, LiquidityPayer}, k)]
  <1>1. DOMAIN p = 1 .. Len(p) /\ Len(p) \in Nat /\ \A i \in DOMAIN p : p[i] \in Entries(G, M)
    OBVIOUS
  <1>2. \A e \in Entries(G, M) :
          /\ Share(e, {LiquidityToken}, k) \in Nat
          /\ Share(e, {LiquidityToken}, k) = Share(e, {LiquidityToken, LiquidityPayer}, k)
    <2> SUFFICES ASSUME NEW e \in Entries(G, M)
                 PROVE  /\ Share(e, {LiquidityToken}, k) \in Nat
                        /\ Share(e, {LiquidityToken}, k)
                             = Share(e, {LiquidityToken, LiquidityPayer}, k)
      OBVIOUS
    <2>1. /\ e.notional \in Nat /\ e.assetType # LiquidityPayer
          /\ e.assetType = LiquidityToken => Signed(e) = e.notional
      BY DEF Entries, Signed, CashPayer, LiquidityPayer, LiquidityToken
    <2> QED
      BY <2>1 DEF Share
  <1>3. f \in [DOMAIN p -> Nat] /\ f = g
    BY <1>1, <1>2
  <1>4. /\ Position(p, {LiquidityToken}, k) = SumOf(f, DOMAIN p)
        /\ Position(p, {LiquidityToken, LiquidityPayer}, k) = SumOf(g, DOMAIN p)
    BY DEF Position, SumOf, MapThenSumSet, MapThenFoldSet
  <1>5. IsFiniteSet(DOMAIN p)
    BY <1>1, FS_Interval
  <1> HIDE DEF f, g
  <1>6. SumOf(f, DOMAIN p) \in Nat
    BY <1>3, <1>5, SumNat
  <1> QED
    BY <1>3, <1>4, <1>6

\* An empty list has no positions.
LEMMA EmptyPosition ==
  ASSUME NEW types, NEW k
  PROVE  Position(<< >>, types, k) = 0
  <1> DEFINE none == << >>
  <1>1. none \in Seq(Entries({}, {})) /\ DOMAIN none = {}
    OBVIOUS
  <1> HIDE DEF none
  <1>2. (\A j \in DOMAIN none : Share(none[j], types, k) = 0) => Position(none, types, k) = 0
    <2>1. none \in Seq(Entries({}, {}))
      BY <1>1
    <2> QED
      BY <2>1, PositionFacts
  <1>3. Position(none, types, k) = 0
    BY <1>1, <1>2
  <1> QED
    BY <1>3 DEF none

(****************************************************************************)
(* No duplicates.                                                           *)
(****************************************************************************)

\* A side of an instrument is removed or replaced by itself, or appended when there is none.
LEMMA NoDuplicatesFacts ==
  ASSUME NEW G, NEW M, NEW p \in Seq(Entries(G, M)), NoDuplicates(p)
  PROVE  /\ \A i \in DOMAIN p : NoDuplicates(RemoveAsset(p, i))
         /\ \A i \in DOMAIN p, x \in Entries(G, M) :
              SameSide(x, p[i]) => NoDuplicates(ReplaceAt(p, i, x))
         /\ \A x \in Entries(G, M) :
              (\A i \in DOMAIN p : ~SameSide(p[i], x)) => NoDuplicates(Append(p, x))
  <1>1. ASSUME NEW i \in DOMAIN p
        PROVE  NoDuplicates(RemoveAsset(p, i))
    <2> DEFINE r == RemoveAsset(p, i)
    <2>1. /\ r \in Seq(Entries(G, M)) /\ Len(r) = Len(p) - 1
          /\ \A j \in DOMAIN r : Origin(p, i, j) \in DOMAIN p /\ r[j] = p[Origin(p, i, j)]
      BY RemoveFacts
    <2> HIDE DEF r
    <2>2. DOMAIN r = 1 .. (Len(p) - 1) /\ Len(p) \in Nat
      BY <2>1
    <2>3. \A j, h \in DOMAIN r : j # h => Origin(p, i, j) # Origin(p, i, h)
      BY <2>2 DEF Origin
    <2>4. NoDuplicates(r)
      BY <2>1, <2>3 DEF NoDuplicates
    <2> QED
      BY <2>4 DEF r
  <1>2. ASSUME NEW i \in DOMAIN p, NEW x \in Entries(G, M), SameSide(x, p[i])
        PROVE  NoDuplicates(ReplaceAt(p, i, x))
    <2> DEFINE q == ReplaceAt(p, i, x)
    <2>1. DOMAIN q = DOMAIN p /\ q[i] = x /\ \A j \in DOMAIN p : j # i => q[j] = p[j]
      BY DEF ReplaceAt
    <2> HIDE DEF q
    <2>2. \A y : /\ SameSide(x, y) => SameSide(p[i], y)
                 /\ SameSide(y, x) => SameSide(y, p[i])
      BY <1>2 DEF SameSide, SameInstrument
    <2>3. NoDuplicates(q)
      BY <2>1, <2>2 DEF NoDuplicates
    <2> QED
      BY <2>3 DEF q
  <1>3. ASSUME NEW x \in Entries(G, M), \A i \in DOMAIN p : ~SameSide(p[i], x)
        PROVE  NoDuplicates(Append(p, x))
    <2> DEFINE q == Append(p, x)
    <2>1. /\ DOMAIN q = DOMAIN p \cup {Len(p) + 1} /\ q[Len(p) + 1] = x
          /\ \A j \in DOMAIN p : q[j] = p[j]
      OBVIOUS
    <2> HIDE DEF q
    <2>2. \A y : SameSide(x, y) => SameSide(y, x)
      BY DEF SameSide, SameInstrument
    <2>3. NoDuplicates(q)
      BY <1>3, <2>1, <2>2 DEF NoDuplicates
    <2> QED
      BY <2>3 DEF q
  <1> QED
    BY <1>1, <1>2, <1>3

\* The entry for a side of an instrument is the whole position in it.
LEMMA OnlyEntry ==
  ASSUME NEW G, NEW M, NEW p \in Seq(Entries(G, M)), NoDuplicates(p), NEW i \in DOMAIN p,
         NEW types \in Sides, p[i].assetType \in types
  PROVE  Position(p, types, <<p[i].cashGroupId, p[i].maturity>>) = Signed(p[i])
  <1> DEFINE e == p[i]
             k == <<e.cashGroupId, e.maturity>>
             r == RemoveAsset(p, i)
  <1>1. e \in Entries(G, M) /\ \A j \in DOMAIN p : p[j] \in Entries(G, M)
    OBVIOUS
  <1>2. \A x \in Entries(G, M) :
          Share(x, types, k) # 0 => SameSide(x, e)
    <2> SUFFICES ASSUME NEW x \in Entries(G, M), Share(x, types, k) # 0
                 PROVE  SameSide(x, e)
      OBVIOUS
    <2>1. x.cashGroupId = e.cashGroupId /\ x.maturity = e.maturity /\ x.assetType \in types
      BY DEF Share
    <2>2. IsLiquidityToken(x.assetType) = IsLiquidityToken(e.assetType)
      BY <2>1 DEF Sides, IsLiquidityToken, CashPayer, CashReceiver, LiquidityToken, LiquidityPayer
    <2> QED
      BY <2>1, <2>2 DEF SameSide, SameInstrument
  <1>3. /\ r \in Seq(Entries(G, M)) /\ DOMAIN r = 1 .. (Len(p) - 1)
        /\ Len(p) \in Nat /\ DOMAIN p = 1 .. Len(p)
        /\ \A j \in DOMAIN r : Origin(p, i, j) \in DOMAIN p /\ r[j] = p[Origin(p, i, j)]
    <2>1. /\ r \in Seq(Entries(G, M)) /\ Len(r) = Len(p) - 1
          /\ \A j \in DOMAIN r : Origin(p, i, j) \in DOMAIN p /\ r[j] = p[Origin(p, i, j)]
      BY RemoveFacts
    <2> HIDE DEF r
    <2>2. DOMAIN r = 1 .. (Len(p) - 1)
      BY <2>1
    <2> QED
      BY <2>1, <2>2
  <1> HIDE DEF r
  <1>4. \A j \in DOMAIN r : Origin(p, i, j) # i
    BY <1>3 DEF Origin
  <1>5. ASSUME NEW j \in DOMAIN r
        PROVE  Share(r[j], types, k) = 0
    <2>1. ~SameSide(p[Origin(p, i, j)], e)
      BY <1>3, <1>4 DEF NoDuplicates
    <2> QED
      BY <1>1, <1>2, <1>3, <2>1
  <1>6. Position(r, types, k) = 0
    <2>1. r \in Seq(Entries(G, M)) /\ \A j \in DOMAIN r : Share(r[j], types, k) = 0
      BY <1>3, <1>5
    <2> QED
      BY <2>1, PositionFacts
  <1>7. /\ Position(r, types, k) = Position(p, types, k) - Share(e, types, k)
        /\ Position(p, types, k) \in Int
    BY PositionFacts DEF r
  <1>8. Share(e, types, k) = Signed(e) /\ Share(e, types, k) \in Int
    <2>1. Share(e, types, k) \in Int
      BY <1>1, ShareFacts
    <2> QED
      BY <2>1 DEF Share
  <1> HIDE DEF k
  <1>9. Position(p, types, k) = Signed(e)
    BY <1>6, <1>7, <1>8
  <1> QED
    BY <1>9 DEF k

(****************************************************************************)
(* _upsertAsset                                                             *)
(****************************************************************************)

\* Two types are on the same side if they are equal or each other's counterparty, and then their
\* notionals are signed alike or oppositely.
LEMMA CounterpartyFacts ==
  ASSUME NEW s \in AssetTypes, NEW t \in AssetTypes
  PROVE  /\ IsLiquidityToken(s) = IsLiquidityToken(t) <=> s = t \/ s = MakeCounterparty(t)
         /\ s = MakeCounterparty(t) =>
              /\ s \in {CashPayer, LiquidityPayer} <=> ~(t \in {CashPayer, LiquidityPayer})
              /\ \A types \in Sides : s \in types <=> t \in types
  BY DEF AssetTypes, IsLiquidityToken, MakeCounterparty, Sides, CashPayer, CashReceiver,
         LiquidityToken, LiquidityPayer

\* i is an entry that matches x, if there is one.
Finds(p, x, findCounterparty, i) ==
  /\ i # NotFound =>
       /\ i \in DOMAIN p /\ SameInstrument(p[i], x)
       /\ \/ p[i].assetType = x.assetType
          \/ findCounterparty /\ p[i].assetType = MakeCounterparty(x.assetType)
  /\ i = NotFound /\ findCounterparty => \A j \in DOMAIN p : ~SameSide(p[j], x)

\* The search finds an entry of the posting's side, if there is one.
LEMMA SearchFacts ==
  ASSUME NEW G, NEW M, NEW p \in Seq(Entries(G, M)), NEW x \in Postings(G, M),
         NEW findCounterparty \in BOOLEAN
  PROVE  Finds(p, x, findCounterparty, SearchAsset(p, x, findCounterparty))
  <1> DEFINE matches == { i \in DOMAIN p :
                            /\ SameInstrument(p[i], x)
                            /\ \/ p[i].assetType = x.assetType
                               \/ /\ findCounterparty
                                  /\ p[i].assetType = MakeCounterparty(x.assetType) }
             i == SearchAsset(p, x, findCounterparty)
  <1>1. i = IF matches = {} THEN NotFound ELSE Min(matches)
    BY DEF SearchAsset
  <1>2. matches \in SUBSET Nat /\ NotFound \notin DOMAIN p
    BY DEF NotFound
  <1>3. matches # {} => Min(matches) \in matches
    <2> HIDE DEF matches
    <2> QED
      BY <1>2, MinFacts
  <1>4. i # NotFound => i \in matches
    BY <1>1, <1>3
  <1>5. i = NotFound => matches = {}
    BY <1>1, <1>2, <1>3
  <1> HIDE DEF i
  <1>6. ASSUME findCounterparty, matches = {}, NEW j \in DOMAIN p
        PROVE  ~SameSide(p[j], x)
    <2>1. /\ p[j].assetType \in AssetTypes \ {LiquidityPayer}
          /\ x.assetType \in AssetTypes
      <3>1. p[j] \in Entries(G, M)
        OBVIOUS
      <3> QED
        BY <3>1 DEF Entries, Postings
    <2>2. IsLiquidityToken(p[j].assetType) = IsLiquidityToken(x.assetType) =>
            p[j].assetType = x.assetType \/ p[j].assetType = MakeCounterparty(x.assetType)
      BY <2>1, CounterpartyFacts
    <2> QED
      BY <1>6, <2>2 DEF SameSide
  <1> QED
    BY <1>4, <1>5, <1>6 DEF i, Finds

\* Entries are structs whose fields are assigned one at a time.
Renoted(e, n) == [e EXCEPT !.notional = n]
Retyped(e, t) == [e EXCEPT !.assetType = t]

\* The fields of an entry with another notional, and with another type.
LEMMA EntryExcept ==
  ASSUME NEW G, NEW M, NEW e \in Postings(G, M), NEW v, NEW t
  PROVE  /\ Renoted(e, v) = Asset(e.cashGroupId, e.maturity, e.assetType, v)
         /\ Retyped(Renoted(e, v), t) = Asset(e.cashGroupId, e.maturity, t, v)
  <1>1. \A g, m, s, n : /\ Renoted(Asset(g, m, s, n), v) = Asset(g, m, s, v)
                        /\ Retyped(Asset(g, m, s, n), t) = Asset(g, m, t, n)
    BY DEF Asset, Renoted, Retyped
  <1>2. PICK g, m, s, n : /\ e = Asset(g, m, s, n)
                          /\ e.cashGroupId = g /\ e.maturity = m /\ e.assetType = s
    BY DEF Postings, Asset
  <1> QED
    BY <1>1, <1>2

\* Assigning to the fields of an entry replaces it.
LEMMA ListExcept ==
  ASSUME NEW G, NEW M, NEW p \in Seq(Entries(G, M)), NEW i \in DOMAIN p, NEW v, NEW t
  PROVE  LET e == p[i]
         IN  /\ [p EXCEPT ![i].notional = v]
                  = ReplaceAt(p, i, Asset(e.cashGroupId, e.maturity, e.assetType, v))
             /\ [p EXCEPT ![i].notional = v, ![i].assetType = t]
                  = ReplaceAt(p, i, Asset(e.cashGroupId, e.maturity, t, v))
  <1> DEFINE e == p[i]
  <1>1. e \in Postings(G, M)
    <2>1. e \in Entries(G, M)
      OBVIOUS
    <2> QED
      BY <2>1, ShareFacts
  <1>2. /\ Renoted(e, v) = Asset(e.cashGroupId, e.maturity, e.assetType, v)
        /\ Retyped(Renoted(e, v), t) = Asset(e.cashGroupId, e.maturity, t, v)
    BY <1>1, EntryExcept
  <1>3. [p EXCEPT ![i].notional = v] = ReplaceAt(p, i, Renoted(e, v))
    BY DEF ReplaceAt, Renoted
  <1>4. [p EXCEPT ![i].notional = v, ![i].assetType = t] = ReplaceAt(p, i, Retyped(Renoted(e, v), t))
    BY DEF ReplaceAt, Renoted, Retyped
  <1> QED
    BY <1>2, <1>3, <1>4

\* The weights that count nothing of x's instrument.
Elsewhere(E, x) == {w \in [E -> Int] : \A e \in E : SameInstrument(e, x) => w[e] = 0}

\* q is p with the posting x added: of p's type, without duplicates, with every position changed
\* by x's share in it, and the same in everything that does not count x's instrument.
Adds(G, M, p, x, q) ==
  /\ q \in Seq(Entries(G, M)) /\ NoDuplicates(q)
  /\ \A types \in Sides : \A k :
       Position(q, types, k) = Position(p, types, k) + Share(x, types, k)
  /\ \A w \in Elsewhere(Entries(G, M), x) : ListSum(q, w) = ListSum(p, w)

\* An entry gives way to another of its side.
LEMMA ReplaceAdds ==
  ASSUME NEW G, NEW M, NEW p \in Seq(Entries(G, M)), NoDuplicates(p), NEW i \in DOMAIN p,
         NEW x \in Postings(G, M), SameInstrument(p[i], x),
         NEW y \in Entries(G, M), SameSide(y, p[i]),
         \A types \in Sides : \A k : Share(y, types, k) = Share(p[i], types, k) + Share(x, types, k)
  PROVE  /\ Adds(G, M, p, x, ReplaceAt(p, i, y)) /\ Len(ReplaceAt(p, i, y)) = Len(p)
  <1> DEFINE q == ReplaceAt(p, i, y)
  <1>1. q \in Seq(Entries(G, M)) /\ Len(q) = Len(p)
    BY DEF ReplaceAt
  <1>2. NoDuplicates(q)
    BY NoDuplicatesFacts
  <1>3. ASSUME NEW types \in Sides, NEW k
        PROVE  Position(q, types, k) = Position(p, types, k) + Share(x, types, k)
    <2>1. /\ Position(q, types, k)
               = Position(p, types, k) - Share(p[i], types, k) + Share(y, types, k)
          /\ Position(p, types, k) \in Int
      BY PositionFacts
    <2>2. Share(p[i], types, k) \in Int /\ Share(x, types, k) \in Int
      <3>1. p[i] \in Entries(G, M)
        OBVIOUS
      <3>2. p[i] \in Postings(G, M)
        BY <3>1, ShareFacts
      <3> QED
        BY <3>2, ShareFacts
    <2> QED
      BY <2>1, <2>2
  <1>4. ASSUME NEW w \in Elsewhere(Entries(G, M), x)
        PROVE  ListSum(q, w) = ListSum(p, w)
    <2>1. w \in [Entries(G, M) -> Int] /\ p[i] \in Entries(G, M)
      BY DEF Elsewhere
    <2>2. SameInstrument(y, x)
      BY DEF SameSide, SameInstrument
    <2>3. w[p[i]] = 0 /\ w[y] = 0
      BY <2>1, <2>2 DEF Elsewhere
    <2>4. ListSum(q, w) = ListSum(p, w) - w[p[i]] + w[y] /\ ListSum(p, w) \in Int
      BY <2>1, ListReplace, ListFacts
    <2> QED
      BY <2>3, <2>4
  <1> QED
    BY <1>1, <1>2, <1>3, <1>4 DEF Adds

\* An entry that the posting cancels goes.
LEMMA RemoveAdds ==
  ASSUME NEW G, NEW M, NEW p \in Seq(Entries(G, M)), NoDuplicates(p), NEW i \in DOMAIN p,
         NEW x \in Postings(G, M), SameInstrument(p[i], x),
         \A types \in Sides : \A k : Share(p[i], types, k) + Share(x, types, k) = 0
  PROVE  Adds(G, M, p, x, RemoveAsset(p, i)) /\ Len(RemoveAsset(p, i)) = Len(p) - 1
  <1> DEFINE q == RemoveAsset(p, i)
  <1>1. q \in Seq(Entries(G, M)) /\ Len(q) = Len(p) - 1
    BY RemoveFacts
  <1>2. NoDuplicates(q)
    BY NoDuplicatesFacts
  <1>3. ASSUME NEW types \in Sides, NEW k
        PROVE  Position(q, types, k) = Position(p, types, k) + Share(x, types, k)
    <2>1. /\ Position(q, types, k) = Position(p, types, k) - Share(p[i], types, k)
          /\ Position(p, types, k) \in Int
      BY PositionFacts
    <2>2. Share(p[i], types, k) \in Int /\ Share(x, types, k) \in Int
      <3>1. p[i] \in Entries(G, M)
        OBVIOUS
      <3>2. p[i] \in Postings(G, M)
        BY <3>1, ShareFacts
      <3> QED
        BY <3>2, ShareFacts
    <2>3. Share(p[i], types, k) + Share(x, types, k) = 0
      OBVIOUS
    <2> QED
      BY <2>1, <2>2, <2>3
  <1>4. ASSUME NEW w \in Elsewhere(Entries(G, M), x)
        PROVE  ListSum(q, w) = ListSum(p, w)
    <2>1. w \in [Entries(G, M) -> Int] /\ p[i] \in Entries(G, M)
      BY DEF Elsewhere
    <2>2. w[p[i]] = 0
      BY <2>1 DEF Elsewhere
    <2>3. ListSum(q, w) = ListSum(p, w) - w[p[i]] /\ ListSum(p, w) \in Int
      BY <2>1, RemoveFacts, ListFacts
    <2> QED
      BY <2>2, <2>3
  <1> QED
    BY <1>1, <1>2, <1>3, <1>4 DEF Adds

\* _reduceAsset posts the value with the opposite sign.
LEMMA ReduceAdds ==
  ASSUME NEW G, NEW M, NEW p \in Seq(Entries(G, M)), NoDuplicates(p), NEW i \in DOMAIN p,
         NEW x \in Postings(G, M), SameInstrument(p[i], x),
         p[i].assetType = MakeCounterparty(x.assetType), x.notional <= p[i].notional
  PROVE  /\ Adds(G, M, p, x, ReduceAsset(p, i, x.notional))
         /\ Len(ReduceAsset(p, i, x.notional)) <= Len(p)
  <1> DEFINE e == p[i]
             n == x.notional
  <1>1. /\ e \in Entries(G, M) /\ e \in Postings(G, M) /\ e.notional \in Nat /\ n \in Nat
        /\ e.assetType \in AssetTypes /\ x.assetType \in AssetTypes /\ Len(p) \in Nat
    <2>1. e \in Entries(G, M)
      OBVIOUS
    <2> HIDE DEF e
    <2> QED
      BY <2>1 DEF Entries, Postings
  <1>2. /\ e.assetType \in {CashPayer, LiquidityPayer} <=> ~(x.assetType \in {CashPayer, LiquidityPayer})
        /\ \A types \in Sides : e.assetType \in types <=> x.assetType \in types
    BY <1>1, CounterpartyFacts
  <1>3. CASE e.notional = n
    <2>1. ReduceAsset(p, i, n) = RemoveAsset(p, i)
      BY <1>3 DEF ReduceAsset
    <2>2. \A types \in Sides : \A k : Share(e, types, k) + Share(x, types, k) = 0
      <3>1. Signed(e) + Signed(x) = 0
        BY <1>1, <1>2, <1>3 DEF Signed
      <3> QED
        BY <1>2, <3>1 DEF Share, SameInstrument
    <2> QED
      BY <1>1, <2>1, <2>2, RemoveAdds
  <1>4. CASE e.notional # n
    <2> DEFINE y == Asset(e.cashGroupId, e.maturity, e.assetType, e.notional - n)
    <2>1. ReduceAsset(p, i, n) = ReplaceAt(p, i, y)
      BY <1>4, ListExcept DEF ReduceAsset
    <2>2. y \in Entries(G, M) /\ SameSide(y, e)
      <3>1. e.notional - n \in Nat
        BY <1>1, <1>4
      <3> HIDE DEF e
      <3> QED
        BY <1>1, <3>1 DEF Asset, Entries, SameSide, SameInstrument
    <2>3. \A types \in Sides : \A k :
            Share(y, types, k) = Share(e, types, k) + Share(x, types, k)
      <3>1. /\ y.assetType = e.assetType /\ y.notional = e.notional - n
            /\ y.cashGroupId = e.cashGroupId /\ y.maturity = e.maturity
        BY DEF Asset
      <3> HIDE DEF y
      <3>2. Signed(y) = Signed(e) + Signed(x)
        BY <1>1, <1>2, <3>1 DEF Signed
      <3> QED
        BY <1>2, <3>1, <3>2 DEF Share, SameInstrument
    <2> HIDE DEF y, e
    <2>4. Adds(G, M, p, x, ReplaceAt(p, i, y)) /\ Len(ReplaceAt(p, i, y)) = Len(p)
      BY <2>2, <2>3, ReplaceAdds DEF e
    <2> QED
      BY <1>1, <2>1, <2>4
  <1> QED
    BY <1>3, <1>4

\* _upsertAsset adds the posting to the positions, whether it appends, aggregates, nets or flips,
\* and an array grows by one entry at most, beyond the bound only where that is allowed.
LEMMA UpsertAdds ==
  ASSUME NEW G, NEW M, NEW p \in Seq(Entries(G, M)), NoDuplicates(p), NEW x \in Postings(G, M),
         NEW allow \in BOOLEAN, NEW q \in UpsertAsset(p, x, allow)
  PROVE  Adds(G, M, p, x, q) /\ (Len(q) <= Len(p) \/ Len(q) <= MaxAssets + 1 \/ allow)
  <1> DEFINE i == SearchAsset(p, x, TRUE)
             e == p[i]
  <1>1. /\ i # NotFound =>
             /\ i \in DOMAIN p /\ SameInstrument(e, x)
             /\ e.assetType = x.assetType \/ e.assetType = MakeCounterparty(x.assetType)
        /\ i = NotFound => \A j \in DOMAIN p : ~SameSide(p[j], x)
    <2>1. Finds(p, x, TRUE, i)
      BY SearchFacts
    <2> HIDE DEF i
    <2> QED
      BY <2>1 DEF Finds
  <1>2. Len(p) \in Nat /\ x.notional \in Nat /\ x.assetType \in AssetTypes
    BY DEF Postings
  <1>3. /\ i = NotFound => q \in AppendAsset(p, x, allow)
        /\ i # NotFound /\ e.assetType = x.assetType =>
             q = [p EXCEPT ![i].notional = @ + x.notional]
        /\ i # NotFound /\ e.assetType # x.assetType => q \in NetAgainst(p, i, x)
    BY DEF UpsertAsset
  <1> HIDE DEF i
  <1>4. CASE i = NotFound
    <2>1. q = Append(p, x) /\ (Len(p) <= MaxAssets \/ allow) /\ x.assetType # LiquidityPayer
      BY <1>3, <1>4 DEF AppendAsset
    <2>2. x \in Entries(G, M)
      BY <2>1 DEF Entries, Postings
    <2>3. q \in Seq(Entries(G, M)) /\ Len(q) = Len(p) + 1
      BY <2>1, <2>2
    <2>4. NoDuplicates(q)
      BY <1>1, <1>4, <2>1, <2>2, NoDuplicatesFacts
    <2>5. \A types, k : Position(q, types, k) = Position(p, types, k) + Share(x, types, k)
      BY <2>1, <2>2, PositionFacts
    <2>6. ASSUME NEW w \in Elsewhere(Entries(G, M), x)
          PROVE  ListSum(q, w) = ListSum(p, w)
      <3>1. w \in [Entries(G, M) -> Int] /\ w[x] = 0
        BY <2>2 DEF Elsewhere, SameInstrument
      <3>2. ListSum(Append(p, x), w) = ListSum(p, w) + w[x] /\ ListSum(p, w) \in Int
        BY <2>2, <3>1, ListAppend, ListFacts
      <3> QED
        BY <2>1, <3>1, <3>2
    <2> QED
      BY <1>2, <2>1, <2>3, <2>4, <2>5, <2>6, MaxAssetsAssumption DEF Adds
  <1>5. ASSUME i # NotFound
        PROVE  /\ e \in Entries(G, M) /\ e \in Postings(G, M) /\ e.notional \in Nat
               /\ e.cashGroupId \in G /\ e.maturity \in M
               /\ e.assetType \in AssetTypes \ {LiquidityPayer}
    <2>1. e \in Entries(G, M)
      BY <1>1, <1>5
    <2> HIDE DEF e
    <2> QED
      BY <2>1 DEF Entries, Postings
  <1>6. CASE i # NotFound /\ e.assetType = x.assetType
    <2> DEFINE y == Asset(e.cashGroupId, e.maturity, e.assetType, e.notional + x.notional)
    <2>1. q = ReplaceAt(p, i, y)
      BY <1>1, <1>3, <1>6, ListExcept
    <2> HIDE DEF e
    <2>2. y \in Entries(G, M) /\ SameSide(y, e)
      <3>1. e.notional + x.notional \in Nat
        BY <1>2, <1>5, <1>6
      <3> QED
        BY <1>5, <1>6, <3>1 DEF Asset, Entries, SameSide, SameInstrument
    <2>3. \A types \in Sides : \A k :
            Share(y, types, k) = Share(e, types, k) + Share(x, types, k)
      <3>1. /\ y.assetType = e.assetType /\ y.notional = e.notional + x.notional
            /\ y.cashGroupId = e.cashGroupId /\ y.maturity = e.maturity
        BY DEF Asset
      <3> HIDE DEF y
      <3>2. Signed(y) = Signed(e) + Signed(x)
        BY <1>2, <1>5, <1>6, <3>1 DEF Signed
      <3> QED
        BY <1>1, <1>6, <3>1, <3>2 DEF Share, SameInstrument
    <2> HIDE DEF y
    <2>4. Adds(G, M, p, x, ReplaceAt(p, i, y)) /\ Len(ReplaceAt(p, i, y)) = Len(p)
      BY <1>1, <1>6, <2>2, <2>3, ReplaceAdds DEF e
    <2> QED
      BY <1>2, <2>1, <2>4
  <1>7. CASE i # NotFound /\ e.assetType # x.assetType
    <2>1. q \in NetAgainst(p, i, x) /\ e.assetType = MakeCounterparty(x.assetType)
      BY <1>1, <1>3, <1>7
    <2>2. CASE e.notional >= x.notional
      <3>1. q = ReduceAsset(p, i, x.notional)
        BY <2>1, <2>2 DEF NetAgainst
      <3>2. x.notional <= e.notional
        BY <1>2, <1>5, <1>7, <2>2
      <3> QED
        BY <1>1, <1>7, <2>1, <3>1, <3>2, ReduceAdds
    <2>3. CASE ~(e.notional >= x.notional)
      <3> DEFINE y == Asset(e.cashGroupId, e.maturity, x.assetType, x.notional - e.notional)
      <3>1. /\ ~IsLiquidityToken(x.assetType)
            /\ q = [p EXCEPT ![i].notional = x.notional - @, ![i].assetType = x.assetType]
        BY <2>1, <2>3 DEF NetAgainst
      <3>2. q = ReplaceAt(p, i, y)
        BY <1>1, <1>7, <3>1, ListExcept
      <3> HIDE DEF e
      <3>3. /\ e.assetType \in {CashPayer, LiquidityPayer}
                 <=> ~(x.assetType \in {CashPayer, LiquidityPayer})
            /\ \A types \in Sides : e.assetType \in types <=> x.assetType \in types
            /\ IsLiquidityToken(e.assetType) = IsLiquidityToken(x.assetType)
        BY <1>2, <1>5, <1>7, <2>1, CounterpartyFacts
      <3>4. x.assetType \in AssetTypes \ {LiquidityPayer} /\ x.notional - e.notional \in Nat
        BY <1>2, <1>5, <1>7, <2>3, <3>1 DEF IsLiquidityToken
      <3>5. y \in Entries(G, M) /\ SameSide(y, e)
        BY <1>5, <1>7, <3>3, <3>4 DEF Asset, Entries, SameSide, SameInstrument
      <3>6. \A types \in Sides : \A k :
              Share(y, types, k) = Share(e, types, k) + Share(x, types, k)
        <4>1. /\ y.assetType = x.assetType /\ y.notional = x.notional - e.notional
              /\ y.cashGroupId = e.cashGroupId /\ y.maturity = e.maturity
          BY DEF Asset
        <4> HIDE DEF y
        <4>2. Signed(y) = Signed(e) + Signed(x)
          BY <1>2, <1>5, <1>7, <3>3, <4>1 DEF Signed
        <4> QED
          BY <1>1, <1>7, <3>3, <4>1, <4>2 DEF Share, SameInstrument
      <3> HIDE DEF y
      <3>7. Adds(G, M, p, x, ReplaceAt(p, i, y)) /\ Len(ReplaceAt(p, i, y)) = Len(p)
        BY <1>1, <1>7, <3>5, <3>6, ReplaceAdds DEF e
      <3> QED
        BY <1>2, <3>2, <3>7
    <2> QED
      BY <2>2, <2>3
  <1> QED
    BY <1>4, <1>6, <1>7

\* _upsertAsset without that allowance: only an array of at most MaxAssets entries grows.
LEMMA UpsertFacts ==
  ASSUME NEW G, NEW M, NEW p \in Seq(Entries(G, M)), NoDuplicates(p), NEW x \in Postings(G, M),
         NEW q \in UpsertAsset(p, x, FALSE)
  PROVE  Adds(G, M, p, x, q) /\ (Len(q) <= Len(p) \/ Len(q) <= MaxAssets + 1)
  BY UpsertAdds

\* Weights that grow with what an entry entitles to, and have its sign.
Rising(E) ==
  {f \in [E -> Int] : /\ \A y, z \in E : SameSide(y, z) /\ Signed(y) <= Signed(z) => f[y] <= f[z]
                      /\ \A y \in E : /\ Signed(y) <= 0 => f[y] <= 0
                                      /\ Signed(y) >= 0 => f[y] >= 0}

\* A list grows in every such weight when an entitlement is added to it, on its own, to an
\* entry of its kind or against an obligation.
LEMMA UpsertRises ==
  ASSUME NEW G, NEW M, NEW p \in Seq(Entries(G, M)), NEW x \in Entries(G, M), IsReceiver(x.assetType),
         NEW q \in UpsertAsset(p, x, FALSE), NEW f \in Rising(Entries(G, M))
  PROVE  ListSum(p, f) <= ListSum(q, f)
  <1> DEFINE E == Entries(G, M)
             i == SearchAsset(p, x, TRUE)
             e == p[i]
             n == x.notional
  <1>1. /\ i # NotFound =>
             /\ i \in DOMAIN p /\ SameInstrument(e, x)
             /\ e.assetType = x.assetType \/ e.assetType = MakeCounterparty(x.assetType)
        /\ x \in Postings(G, M)
    <2>1. x \in Postings(G, M)
      BY ShareFacts
    <2>2. Finds(p, x, TRUE, i)
      BY <2>1, SearchFacts
    <2> HIDE DEF i
    <2> QED
      BY <2>1, <2>2 DEF Finds
  <1>2. n \in Nat /\ Signed(x) = n
    BY DEF Entries, Signed, IsReceiver, CashPayer, LiquidityPayer, CashReceiver, LiquidityToken
  <1>3. /\ i = NotFound => q \in AppendAsset(p, x, FALSE)
        /\ i # NotFound /\ e.assetType = x.assetType => q = [p EXCEPT ![i].notional = @ + n]
        /\ i # NotFound /\ e.assetType # x.assetType => q \in NetAgainst(p, i, x)
    BY DEF UpsertAsset
  <1>4. /\ f \in [E -> Int]
        /\ \A y, z \in E : SameSide(y, z) /\ Signed(y) <= Signed(z) => f[y] <= f[z]
        /\ \A y \in E : (Signed(y) <= 0 => f[y] <= 0) /\ (Signed(y) >= 0 => f[y] >= 0)
    BY DEF Rising
  <1>5. \A y \in E : f[y] \in Int
    BY <1>4
  <1>6. ListSum(p, f) \in Int
    <2> HIDE DEF E
    <2>1. p \in Seq(E)
      BY DEF E
    <2> QED
      BY <1>4, <2>1, ListFacts
  <1> HIDE DEF i
  <1>7. ASSUME i # NotFound
        PROVE  /\ e \in E /\ e.notional \in Nat /\ e.cashGroupId \in G /\ e.maturity \in M
               /\ e.assetType \in AssetTypes \ {LiquidityPayer}
    <2>1. e \in E
      BY <1>1, <1>7
    <2> HIDE DEF e
    <2> QED
      BY <2>1 DEF Entries
  <1>8. ASSUME i # NotFound, NEW y \in E, SameSide(e, y), Signed(e) <= Signed(y), q = ReplaceAt(p, i, y)
        PROVE  ListSum(p, f) <= ListSum(q, f)
    <2>1. f[e] \in Int /\ f[y] \in Int /\ f[e] <= f[y]
      BY <1>4, <1>5, <1>7, <1>8
    <2>2. ListSum(ReplaceAt(p, i, y), f) = ListSum(p, f) - f[p[i]] + f[y]
      <3>1. i \in DOMAIN p
        BY <1>1, <1>8
      <3> HIDE DEF E
      <3> QED
        BY <1>4, <1>8, <3>1, ListReplace DEF E
    <2> QED
      BY <1>6, <1>8, <2>1, <2>2
  <1>9. CASE i = NotFound
    <2>1. q = Append(p, x)
      BY <1>3, <1>9 DEF AppendAsset
    <2>2. ListSum(Append(p, x), f) = ListSum(p, f) + f[x]
      <3> HIDE DEF E
      <3> QED
        BY <1>4, ListAppend DEF E
    <2>3. f[x] \in Int /\ f[x] >= 0
      BY <1>2, <1>4, <1>5
    <2> QED
      BY <1>6, <2>1, <2>2, <2>3
  <1>10. CASE i # NotFound /\ e.assetType = x.assetType
    <2> DEFINE y == Asset(e.cashGroupId, e.maturity, e.assetType, e.notional + n)
    <2>1. q = ReplaceAt(p, i, y)
      BY <1>1, <1>3, <1>10, ListExcept
    <2> HIDE DEF e
    <2>2. e.notional + n \in Nat
      BY <1>2, <1>7, <1>10
    <2>3. y \in E /\ SameSide(e, y)
      BY <1>7, <1>10, <2>2 DEF Asset, Entries, SameSide, SameInstrument
    <2>4. Signed(e) <= Signed(y)
      <3>1. y.assetType = e.assetType /\ y.notional = e.notional + n
        BY DEF Asset
      <3>2. ~(e.assetType \in {CashPayer, LiquidityPayer})
        BY <1>10 DEF IsReceiver, CashPayer, LiquidityPayer, CashReceiver, LiquidityToken
      <3> HIDE DEF y
      <3>3. Signed(y) = e.notional + n /\ Signed(e) = e.notional
        BY <3>1, <3>2 DEF Signed
      <3> QED
        BY <1>2, <1>7, <1>10, <3>3
    <2> QED
      BY <1>8, <1>10, <2>1, <2>3, <2>4 DEF e
  <1>11. CASE i # NotFound /\ e.assetType # x.assetType
    <2>1. q \in NetAgainst(p, i, x) /\ e.assetType = MakeCounterparty(x.assetType)
      BY <1>1, <1>3, <1>11
    <2>2. e.assetType = CashPayer /\ x.assetType = CashReceiver
      BY <1>7, <1>11, <2>1 DEF IsReceiver, MakeCounterparty, CashPayer, LiquidityPayer, CashReceiver, LiquidityToken, AssetTypes
    <2>3. Signed(e) = -e.notional
      BY <2>2 DEF Signed
    <2>4. \A v \in Nat, t \in {CashPayer, CashReceiver} :
            /\ Asset(e.cashGroupId, e.maturity, t, v) \in E
            /\ SameSide(e, Asset(e.cashGroupId, e.maturity, t, v))
            /\ Signed(Asset(e.cashGroupId, e.maturity, t, v)) = IF t = CashPayer THEN -v ELSE v
      <3> HIDE DEF e
      <3> SUFFICES ASSUME NEW v \in Nat, NEW t \in {CashPayer, CashReceiver},
                          NEW y, y = Asset(e.cashGroupId, e.maturity, t, v)
                   PROVE  y \in E /\ SameSide(e, y) /\ Signed(y) = IF t = CashPayer THEN -v ELSE v
        OBVIOUS
      <3>1. y.cashGroupId = e.cashGroupId /\ y.maturity = e.maturity /\ y.assetType = t /\ y.notional = v
        BY DEF Asset
      <3>2. y \in E
        BY <1>7, <1>11 DEF Asset, Entries, AssetTypes, CashPayer, LiquidityPayer, CashReceiver
      <3>3. SameSide(e, y)
        BY <2>2, <3>1 DEF SameSide, SameInstrument, IsLiquidityToken, CashPayer, LiquidityPayer, CashReceiver, LiquidityToken
      <3>4. Signed(y) = IF t = CashPayer THEN -v ELSE v
        BY <3>1 DEF Signed, CashPayer, LiquidityPayer, CashReceiver
      <3> QED
        BY <3>2, <3>3, <3>4
    <2>5. CASE e.notional >= n
      <3>1. q = ReduceAsset(p, i, n)
        BY <2>1, <2>5 DEF NetAgainst
      <3>2. CASE e.notional = n
        <4>1. q = RemoveAsset(p, i)
          BY <3>1, <3>2 DEF ReduceAsset
        <4>2. ListSum(RemoveAsset(p, i), f) = ListSum(p, f) - f[p[i]]
          <5>1. i \in DOMAIN p
            BY <1>1, <1>11
          <5> HIDE DEF E
          <5>2. p \in Seq(E) /\ f \in [E -> Int]
            BY <1>4 DEF E
          <5> QED
            BY <5>1, <5>2, RemoveFacts
        <4>3. f[e] \in Int /\ f[e] <= 0
          <5>1. Signed(e) <= 0
            BY <1>7, <1>11, <2>3
          <5> QED
            BY <1>4, <1>5, <1>7, <1>11, <5>1
        <4> QED
          BY <1>6, <4>1, <4>2, <4>3
      <3>3. CASE e.notional # n
        <4> DEFINE y == Asset(e.cashGroupId, e.maturity, e.assetType, e.notional - n)
        <4>1. q = ReplaceAt(p, i, y)
          BY <1>1, <1>11, <3>1, <3>3, ListExcept DEF ReduceAsset
        <4>2. e.notional - n \in Nat /\ -e.notional <= -(e.notional - n)
          BY <1>2, <1>7, <1>11, <2>5
        <4>3. y \in E /\ SameSide(e, y) /\ Signed(y) = -(e.notional - n)
          BY <2>2, <2>4, <4>2
        <4>4. Signed(e) <= Signed(y)
          BY <2>3, <4>2, <4>3
        <4> HIDE DEF y
        <4> QED
          BY <1>8, <1>11, <4>1, <4>3, <4>4
      <3> QED
        BY <3>2, <3>3
    <2>6. CASE ~(e.notional >= n)
      <3> DEFINE y == Asset(e.cashGroupId, e.maturity, x.assetType, n - e.notional)
      <3>1. q = [p EXCEPT ![i].notional = n - @, ![i].assetType = x.assetType]
        BY <2>1, <2>6 DEF NetAgainst
      <3>2. q = ReplaceAt(p, i, y)
        BY <1>1, <1>11, <3>1, ListExcept
      <3>3. n - e.notional \in Nat /\ -e.notional <= n - e.notional
        BY <1>2, <1>7, <1>11, <2>6
      <3>4. y \in E /\ SameSide(e, y) /\ Signed(y) = n - e.notional
        BY <2>2, <2>4, <3>3 DEF CashPayer, CashReceiver
      <3>5. Signed(e) <= Signed(y)
        BY <2>3, <3>3, <3>4
      <3> HIDE DEF y
      <3> QED
        BY <1>8, <1>11, <3>2, <3>4, <3>5
    <2> QED
      BY <2>5, <2>6
  <1> QED
    BY <1>9, <1>10, <1>11

\* The postings of a list are upserted one after the other.
UpsertAll(portfolios, x, allow) == UNION {UpsertAsset(q, x, allow) : q \in portfolios}

IsUpsertChain(F, p, xs, allow) ==
  F = [s \in SUBSET DOMAIN xs |->
         IF s = {} THEN {p}
         ELSE UpsertAll(F[s \ {Max(s)}], xs[Max(s)], allow)]

\* The portfolios after each prefix of the list.
IsUpsertSteps(F, p, xs, allow) ==
  /\ UpsertAssets(p, xs, allow) = F[1 .. Len(xs)]
  /\ F[1 .. 0] = {p}
  /\ \A n \in 1 .. Len(xs) : F[1 .. n] = UpsertAll(F[1 .. (n - 1)], xs[n], allow)

\* That is what the fold of upsertAccountAssetBatch comes to.
LEMMA UpsertChain ==
  ASSUME NEW G, NEW M, NEW p \in Seq(Entries(G, M)), NoDuplicates(p),
         NEW xs \in Seq(Postings(G, M)), NEW allow \in BOOLEAN
  PROVE  \E F : IsUpsertSteps(F, p, xs, allow)
  <1> DEFINE N == Len(xs)
             P == {q \in Seq(Entries(G, M)) : NoDuplicates(q)}
             V == SUBSET P
             base == {p}
             After(n, v) == UpsertAll(v, xs[n], allow)
             g == [z \in (1 .. N) \X V |-> After(z[1], z[2])]
  <1>1. N \in Nat /\ DOMAIN xs = 1 .. N /\ \A n \in 1 .. N : xs[n] \in Postings(G, M)
    OBVIOUS
  <1>2. base \in V
    OBVIOUS
  <1>3. ASSUME NEW n \in 1 .. N, NEW v \in V
        PROVE  After(n, v) \in V
    <2>1. \A q \in v : q \in Seq(Entries(G, M)) /\ NoDuplicates(q)
      OBVIOUS
    <2>2. \A q \in v : \A r \in UpsertAsset(q, xs[n], allow) : r \in P
      BY <1>1, <2>1, UpsertAdds DEF Adds
    <2> QED
      BY <2>2 DEF UpsertAll
  <1> HIDE DEF V, base, After
  <1>4. g \in [(1 .. N) \X V -> V]
    BY <1>3
  <1>5. \A n \in 1 .. N, v \in V : g[<<n, v>>] = After(n, v)
    OBVIOUS
  <1> HIDE DEF N, g
  <1>6. PICK F \in [SUBSET (1 .. N) -> V] : IsChain(F, N, base, g)
    BY <1>1, <1>2, <1>4, ChainExists
  <1>7. ASSUME NEW s \in SUBSET (1 .. N), s # {}
        PROVE  g[<<Max(s), F[s \ {Max(s)}]>>] = After(Max(s), F[s \ {Max(s)}])
    <2>1. Max(s) \in 1 .. N /\ s \ {Max(s)} \in SUBSET (1 .. N)
      BY <1>1, <1>7, MaxFacts
    <2> QED
      BY <1>5, <2>1
  <1>8. IsUpsertChain(F, p, xs, allow)
    <2>1. \A s \in SUBSET (1 .. N) : F[s] = IF s = {} THEN base ELSE After(Max(s), F[s \ {Max(s)}])
      BY <1>6, <1>7 DEF IsChain
    <2> QED
      BY <1>1, <2>1 DEF IsUpsertChain, After, base
  <1> DEFINE C == CHOOSE H : IsUpsertChain(H, p, xs, allow)
  <1>9. IsUpsertChain(C, p, xs, allow)
    BY <1>8
  <1>10. UpsertAssets(p, xs, allow) = C[1 .. N]
    <2>1. UpsertAssets(p, xs, allow) = C[DOMAIN xs]
      BY DEF UpsertAssets, FoldLeft, MapThenFoldSet, IsUpsertChain, UpsertAll
    <2> QED
      BY <1>1, <2>1
  <1> HIDE DEF C
  <1>11. C[1 .. 0] = {p}
    <2>1. 1 .. 0 = {} /\ {} \in SUBSET DOMAIN xs
      BY <1>1, ChainPrefix
    <2> QED
      BY <1>9, <2>1 DEF IsUpsertChain
  <1>12. ASSUME NEW n \in 1 .. N
         PROVE  C[1 .. n] = UpsertAll(C[1 .. (n - 1)], xs[n], allow)
    <2>1. /\ 1 .. n \in SUBSET DOMAIN xs /\ 1 .. n # {}
          /\ Max(1 .. n) = n /\ (1 .. n) \ {n} = 1 .. (n - 1)
      BY <1>1, ChainPrefix
    <2>2. C[1 .. n] = UpsertAll(C[(1 .. n) \ {Max(1 .. n)}], xs[Max(1 .. n)], allow)
      BY <1>9, <2>1 DEF IsUpsertChain
    <2> QED
      BY <2>1, <2>2
  <1> QED
    BY <1>10, <1>11, <1>12 DEF N, IsUpsertSteps

\* A batch of one posting is the posting.
LEMMA UpsertOne ==
  ASSUME NEW G, NEW M, NEW p \in Seq(Entries(G, M)), NoDuplicates(p), NEW x \in Postings(G, M)
  PROVE  UpsertAssets(p, <<x>>, FALSE) = UpsertAsset(p, x, FALSE)
  <1> DEFINE xs == <<x>>
  <1>1. xs \in Seq(Postings(G, M)) /\ Len(xs) = 1 /\ xs[1] = x
    OBVIOUS
  <1> HIDE DEF xs
  <1>2. PICK F : IsUpsertSteps(F, p, xs, FALSE)
    BY <1>1, UpsertChain
  <1>3. F[1 .. 1] = UpsertAll(F[1 .. 0], xs[1], FALSE)
    <2>1. 1 \in 1 .. Len(xs) /\ 1 - 1 = 0
      BY <1>1
    <2> QED
      BY <1>2, <2>1 DEF IsUpsertSteps
  <1>4. UpsertAll({p}, x, FALSE) = UpsertAsset(p, x, FALSE)
    BY DEF UpsertAll
  <1>5. UpsertAssets(p, xs, FALSE) = UpsertAsset(p, x, FALSE)
    BY <1>1, <1>2, <1>3, <1>4 DEF IsUpsertSteps
  <1> QED
    BY <1>5 DEF xs

\* A batch of two is one after the other.
UpsertsBoth(p, xs) ==
  UpsertAssets(p, xs, FALSE) = UpsertAll(UpsertAsset(p, xs[1], FALSE), xs[2], FALSE)

\* That is what two postings come to.
LEMMA UpsertTwo ==
  ASSUME NEW G, NEW M, NEW p \in Seq(Entries(G, M)), NoDuplicates(p),
         NEW xs \in Seq(Postings(G, M)), Len(xs) = 2
  PROVE  UpsertsBoth(p, xs)
  <1>1. PICK F : IsUpsertSteps(F, p, xs, FALSE)
    BY UpsertChain
  <1>2. /\ F[1 .. 1] = UpsertAll(F[1 .. 0], xs[1], FALSE)
        /\ F[1 .. 2] = UpsertAll(F[1 .. 1], xs[2], FALSE)
    <2>1. 1 \in 1 .. Len(xs) /\ 1 - 1 = 0 /\ 2 \in 1 .. Len(xs) /\ 2 - 1 = 1
      OBVIOUS
    <2> QED
      BY <1>1, <2>1 DEF IsUpsertSteps
  <1>3. F[1 .. 1] = UpsertAsset(p, xs[1], FALSE)
    <2>1. UpsertAll({p}, xs[1], FALSE) = UpsertAsset(p, xs[1], FALSE)
      BY DEF UpsertAll
    <2> QED
      BY <1>1, <1>2, <2>1 DEF IsUpsertSteps
  <1> QED
    BY <1>1, <1>2, <1>3 DEF IsUpsertSteps, UpsertsBoth

(****************************************************************************)
(* The loop of _settleMaturedAssets.                                        *)
(****************************************************************************)
LoopAt(q, i, settled) == [portfolio |-> q, i |-> i, settled |-> settled]

\* A pass assigns to fields of its state, and so to all of it.
Shrunk(s, q) == [s EXCEPT !.portfolio = q]
Took(s, t)   == [s EXCEPT !.settled = t]
Moved(s, i)  == [s EXCEPT !.i = i]

\* One pass over the entry at i, of state s.
LEMMA PassFacts ==
  ASSUME NEW q, NEW i, NEW t, NEW blockTime
  PROVE  SettlePass(LoopAt(q, i, t), blockTime)
           = IF q[i].maturity <= blockTime
             THEN LoopAt(RemoveAsset(q, i), i, Append(t, q[i]))
             ELSE LoopAt(q, i + 1, t)
  <1> DEFINE s == LoopAt(q, i, t)
             r == RemoveAsset(q, i)
             u == Append(t, q[i])
  <1>1. s.portfolio = q /\ s.i = i /\ s.settled = t
    BY DEF LoopAt
  <1>2. \A v : Moved(s, v) = LoopAt(q, v, t)
    BY DEF LoopAt, Moved
  <1>3. Shrunk(s, r) = LoopAt(r, i, t)
    BY DEF LoopAt, Shrunk
  <1>4. Took(LoopAt(r, i, t), u) = LoopAt(r, i, u)
    BY DEF LoopAt, Took
  <1> HIDE DEF s
  <1>5. [s EXCEPT !.portfolio = r, !.settled = u] = Took(Shrunk(s, r), u)
    BY DEF Took, Shrunk
  <1>6. [s EXCEPT !.portfolio = RemoveAsset(@, s.i), !.settled = Append(@, s.portfolio[s.i])]
           = [s EXCEPT !.portfolio = r, !.settled = u]
    BY <1>1
  <1>7. [s EXCEPT !.i = @ + 1] = Moved(s, i + 1)
    BY <1>1 DEF Moved
  <1>8. SettlePass(s, blockTime)
          = IF s.portfolio[s.i].maturity <= blockTime
            THEN [s EXCEPT !.portfolio = RemoveAsset(@, s.i), !.settled = Append(@, s.portfolio[s.i])]
            ELSE [s EXCEPT !.i = @ + 1]
    BY DEF SettlePass
  <1> QED
    BY <1>1, <1>2, <1>3, <1>4, <1>5, <1>6, <1>7, <1>8 DEF s

IsSettleChain(F, p, blockTime) ==
  F = [s \in SUBSET DOMAIN p |->
         IF s = {} THEN LoopAt(p, 1, << >>) ELSE SettlePass(F[s \ {Max(s)}], blockTime)]

\* The state of the loop after each number of passes.
IsSettleSteps(F, p, blockTime) ==
  /\ SettleLoop(p, blockTime) = F[1 .. Len(p)]
  /\ F[1 .. 0] = LoopAt(p, 1, << >>)
  /\ \A n \in 1 .. Len(p) : F[1 .. n] = SettlePass(F[1 .. (n - 1)], blockTime)

\* A pass keeps a list of entries one, wherever it looks.
LEMMA PassType ==
  ASSUME NEW E, NEW q \in Seq(E), NEW i \in Nat
  PROVE  RemoveAsset(q, i) \in Seq(E)
  <1>1. CASE i \in DOMAIN q
    BY <1>1, RemoveFacts
  <1>2. CASE i \notin DOMAIN q
    <2>1. [q EXCEPT ![i] = Last(q)] = q
      BY <1>2
    <2>2. RemoveAsset(q, i) = SubSeq(q, 1, Len(q) - 1)
      BY <2>1 DEF RemoveAsset, Front
    <2>3. \A n \in Int : n <= Len(q) => SubSeq(q, 1, n) \in Seq(E)
      OBVIOUS
    <2>4. Len(q) - 1 \in Int /\ Len(q) - 1 <= Len(q)
      OBVIOUS
    <2> QED
      BY <2>2, <2>3, <2>4
  <1> QED
    BY <1>1, <1>2

\* The loop's fold makes the passes one after the other.
LEMMA SettleChain ==
  ASSUME NEW E, NEW p \in Seq(E), NEW blockTime
  PROVE  \E F : IsSettleSteps(F, p, blockTime)
  <1> DEFINE N == Len(p)
             J == {q[j] : q \in Seq(E), j \in Nat}
             V == [portfolio : Seq(E), i : Nat, settled : Seq(J)]
             base == LoopAt(p, 1, << >>)
             After(v) == SettlePass(v, blockTime)
             g == [z \in (1 .. N) \X V |-> After(z[2])]
  <1>1. N \in Nat /\ DOMAIN p = 1 .. N
    OBVIOUS
  <1>2. base \in V
    <2>1. << >> \in Seq(J) /\ 1 \in Nat
      OBVIOUS
    <2> HIDE DEF J
    <2> QED
      BY <2>1 DEF LoopAt
  <1>3. ASSUME NEW v \in V
        PROVE  After(v) \in V
    <2> DEFINE q == v.portfolio
               i == v.i
               t == v.settled
    <2>1. q \in Seq(E) /\ i \in Nat /\ t \in Seq(J) /\ v = LoopAt(q, i, t)
      <3> HIDE DEF J
      <3> QED
        BY DEF LoopAt
    <2> HIDE DEF q, i, t
    <2>2. RemoveAsset(q, i) \in Seq(E)
      BY <2>1, PassType
    <2>3. q[i] \in J
      BY <2>1
    <2> DEFINE r == RemoveAsset(q, i)
               u == Append(t, q[i])
    <2>4. r \in Seq(E) /\ u \in Seq(J) /\ i + 1 \in Nat
      <3> HIDE DEF J
      <3> QED
        BY <2>1, <2>2, <2>3
    <2>5. After(v) = IF q[i].maturity <= blockTime THEN LoopAt(r, i, u) ELSE LoopAt(q, i + 1, t)
      BY <2>1, PassFacts
    <2> HIDE DEF r, u, J
    <2>6. LoopAt(r, i, u) \in V /\ LoopAt(q, i + 1, t) \in V
      BY <2>1, <2>4 DEF LoopAt
    <2> HIDE DEF V, After
    <2> QED
      BY <2>5, <2>6
  <1> HIDE DEF V, base, After
  <1>4. g \in [(1 .. N) \X V -> V]
    BY <1>3
  <1>5. \A n \in 1 .. N, v \in V : g[<<n, v>>] = After(v)
    OBVIOUS
  <1> HIDE DEF N, g
  <1>6. PICK F \in [SUBSET (1 .. N) -> V] : IsChain(F, N, base, g)
    BY <1>1, <1>2, <1>4, ChainExists
  <1>7. ASSUME NEW s \in SUBSET (1 .. N), s # {}
        PROVE  g[<<Max(s), F[s \ {Max(s)}]>>] = After(F[s \ {Max(s)}])
    <2>1. Max(s) \in 1 .. N /\ s \ {Max(s)} \in SUBSET (1 .. N)
      BY <1>1, <1>7, MaxFacts
    <2> QED
      BY <1>5, <2>1
  <1>8. IsSettleChain(F, p, blockTime)
    <2>1. \A s \in SUBSET (1 .. N) : F[s] = IF s = {} THEN base ELSE After(F[s \ {Max(s)}])
      BY <1>6, <1>7 DEF IsChain
    <2>2. F = [s \in SUBSET (1 .. N) |-> IF s = {} THEN base ELSE After(F[s \ {Max(s)}])]
      BY <1>6, <2>1
    <2> QED
      BY <1>1, <2>2 DEF IsSettleChain, After, base
  <1> DEFINE C == CHOOSE H : IsSettleChain(H, p, blockTime)
  <1>9. IsSettleChain(C, p, blockTime)
    BY <1>8
  <1>10. SettleLoop(p, blockTime) = C[1 .. N]
    <2>1. SettleLoop(p, blockTime) = C[DOMAIN p]
      BY DEF SettleLoop, FoldLeft, MapThenFoldSet, IsSettleChain, LoopAt
    <2> QED
      BY <1>1, <2>1
  <1> HIDE DEF C
  <1>11. C[1 .. 0] = LoopAt(p, 1, << >>)
    <2>1. 1 .. 0 = {} /\ {} \in SUBSET DOMAIN p
      BY <1>1, ChainPrefix
    <2> QED
      BY <1>9, <2>1 DEF IsSettleChain
  <1>12. ASSUME NEW n \in 1 .. N
         PROVE  C[1 .. n] = SettlePass(C[1 .. (n - 1)], blockTime)
    <2>1. /\ 1 .. n \in SUBSET DOMAIN p /\ 1 .. n # {}
          /\ Max(1 .. n) = n /\ (1 .. n) \ {n} = 1 .. (n - 1)
      BY <1>1, ChainPrefix
    <2>2. C[1 .. n] = SettlePass(C[(1 .. n) \ {Max(1 .. n)}], blockTime)
      BY <1>9, <2>1 DEF IsSettleChain
    <2> QED
      BY <2>1, <2>2
  <1> QED
    BY <1>10, <1>11, <1>12 DEF N, IsSettleSteps

\* After n passes: the entries before i are unmatured, those taken matured, and together with
\* what is left they have the weight of p, however entries are weighed. What is left was in p,
\* and no two entries, taken or left, are for one side of an instrument.
Apart(q, t) == \A j \in DOMAIN q, k \in DOMAIN t : ~SameSide(q[j], t[k])

FoundIn(q, p) == \A j \in DOMAIN q : \E k \in DOMAIN p : q[j] = p[k]

HalfSettled(G, M, p, blockTime, n, q, i, t) ==
  /\ q \in Seq(Entries(G, M)) /\ NoDuplicates(q) /\ i \in Nat \ {0} /\ t \in Seq(Entries(G, M))
  /\ Len(q) + Len(t) = Len(p) /\ i - 1 + Len(t) = n
  /\ \A j \in DOMAIN q : j < i => ~(q[j].maturity <= blockTime)
  /\ \A j \in DOMAIN t : t[j].maturity <= blockTime
  /\ \A w \in [Entries(G, M) -> Int] : ListSum(q, w) + ListSum(t, w) = ListSum(p, w)
  /\ NoDuplicates(t) /\ Apart(q, t) /\ FoundIn(q, p)

\* A pass takes the entry at i or leaves it behind.
LEMMA PassKeeps ==
  ASSUME NEW G, NEW M, NEW p \in Seq(Entries(G, M)), NEW blockTime, NEW n \in Nat, n < Len(p),
         NEW q, NEW i, NEW t, HalfSettled(G, M, p, blockTime, n, q, i, t)
  PROVE  /\ q[i].maturity <= blockTime =>
              HalfSettled(G, M, p, blockTime, n + 1, RemoveAsset(q, i), i, Append(t, q[i]))
         /\ ~(q[i].maturity <= blockTime) =>
              HalfSettled(G, M, p, blockTime, n + 1, q, i + 1, t)
  <1> DEFINE E == Entries(G, M)
             e == q[i]
             r == RemoveAsset(q, i)
             u == Append(t, e)
  <1>1. /\ q \in Seq(E) /\ NoDuplicates(q) /\ i \in Nat \ {0} /\ t \in Seq(E)
        /\ Len(q) + Len(t) = Len(p) /\ i - 1 + Len(t) = n
    BY DEF HalfSettled
  <1>2. /\ i \in DOMAIN q /\ Len(q) \in Nat /\ Len(t) \in Nat /\ DOMAIN q = 1 .. Len(q)
        /\ DOMAIN t = 1 .. Len(t)
    <2> HIDE DEF E
    <2>1. Len(q) \in Nat /\ Len(t) \in Nat /\ DOMAIN q = 1 .. Len(q) /\ DOMAIN t = 1 .. Len(t)
      BY <1>1
    <2> QED
      BY <1>1, <2>1
  <1>3. /\ e \in E
        /\ \A j \in DOMAIN q : j < i => ~(q[j].maturity <= blockTime)
        /\ \A j \in DOMAIN t : t[j].maturity <= blockTime
        /\ \A w \in [E -> Int] : ListSum(q, w) + ListSum(t, w) = ListSum(p, w)
        /\ NoDuplicates(t) /\ Apart(q, t) /\ FoundIn(q, p)
    <2>1. e \in E
      BY <1>1, <1>2
    <2> QED
      BY <2>1 DEF HalfSettled
  <1> HIDE DEF e
  <1>4. ASSUME e.maturity <= blockTime
        PROVE  HalfSettled(G, M, p, blockTime, n + 1, r, i, u)
    <2>1. /\ r \in Seq(E) /\ Len(r) = Len(q) - 1
          /\ \A j \in DOMAIN r : Origin(q, i, j) \in DOMAIN q /\ r[j] = q[Origin(q, i, j)]
      BY <1>1, <1>2, RemoveFacts
    <2>2. /\ u \in Seq(E) /\ Len(u) = Len(t) + 1 /\ DOMAIN u = DOMAIN t \cup {Len(t) + 1}
          /\ u[Len(t) + 1] = e /\ \A j \in DOMAIN t : u[j] = t[j]
      <3> HIDE DEF E, e
      <3>1. t \in Seq(E) /\ e \in E /\ DOMAIN t = 1 .. Len(t) /\ Len(t) \in Nat
        BY <1>1, <1>2, <1>3
      <3>2. u \in Seq(E) /\ Len(u) = Len(t) + 1 /\ u[Len(t) + 1] = e
        BY <3>1
      <3>3. \A j \in DOMAIN t : u[j] = t[j]
        BY <3>1
      <3>4. DOMAIN u = DOMAIN t \cup {Len(t) + 1}
        BY <3>1
      <3> QED
        BY <3>2, <3>3, <3>4
    <2>3. NoDuplicates(r)
      BY <1>1, <1>2, NoDuplicatesFacts
    <2>4. ASSUME NEW w \in [E -> Int]
          PROVE  ListSum(r, w) + ListSum(u, w) = ListSum(p, w)
      <3>1. ListSum(r, w) = ListSum(q, w) - w[e]
        <4> HIDE DEF E
        <4>1. q \in Seq(E) /\ i \in DOMAIN q /\ w \in [E -> Int]
          BY <1>1, <1>2
        <4>2. ListSum(RemoveAsset(q, i), w) = ListSum(q, w) - w[q[i]]
          BY <4>1, RemoveFacts
        <4> QED
          BY <4>2 DEF e
      <3>2. ListSum(u, w) = ListSum(t, w) + w[e]
        BY <1>1, <1>3, ListAppend
      <3>3. w[e] \in Int
        BY <1>3
      <3>4. ListSum(q, w) \in Int /\ ListSum(t, w) \in Int
        <4> HIDE DEF E
        <4> QED
          BY <1>1, ListFacts
      <3>5. ListSum(q, w) + ListSum(t, w) = ListSum(p, w)
        BY <1>3
      <3> HIDE DEF r, u
      <3> QED
        BY <3>1, <3>2, <3>3, <3>4, <3>5
    <2> HIDE DEF r, u, E
    <2>5. Len(r) + Len(u) = Len(p) /\ i - 1 + Len(u) = n + 1
      <3> DEFINE a == Len(q)
                 b == Len(t)
                 c == Len(p)
      <3>1. /\ a \in Nat /\ b \in Nat /\ a + b = c /\ i - 1 + b = n
            /\ Len(r) = a - 1 /\ Len(u) = b + 1
        BY <1>1, <1>2, <2>1, <2>2
      <3>2. i \in Nat /\ n \in Nat
        BY <1>1
      <3> HIDE DEF a, b, c
      <3>3. Len(r) + Len(u) = c /\ i - 1 + Len(u) = n + 1
        BY <3>1, <3>2
      <3> QED
        BY <3>3 DEF c
    <2>6. \A j \in DOMAIN r : j < i => ~(r[j].maturity <= blockTime)
      BY <1>3, <2>1 DEF Origin
    <2>7. \A j \in DOMAIN u : u[j].maturity <= blockTime
      BY <1>3, <1>4, <2>2
    <2>8. FoundIn(r, p)
      BY <1>3, <2>1 DEF FoundIn
    <2>9. \A j \in DOMAIN r : Origin(q, i, j) # i
      <3>1. \A j \in DOMAIN r : j # Len(q)
        <4>1. DOMAIN r = 1 .. Len(r)
          BY <2>1
        <4> QED
          BY <1>2, <2>1, <4>1
      <3>2. ASSUME NEW j \in DOMAIN r, Origin(q, i, j) = i
            PROVE  FALSE
        <4>1. j = i /\ Len(q) = i
          BY <3>2 DEF Origin
        <4> QED
          BY <3>1, <4>1
      <3> QED
        BY <3>2
    <2>10. \A j \in DOMAIN r : ~SameSide(r[j], e) /\ ~SameSide(e, r[j])
      BY <1>1, <1>2, <2>1, <2>9 DEF NoDuplicates, e
    <2>11. \A j \in DOMAIN t : ~SameSide(t[j], e) /\ ~SameSide(e, t[j])
      BY <1>2, <1>3 DEF Apart, SameSide, SameInstrument, e
    <2>12. NoDuplicates(u)
      BY <1>3, <2>2, <2>11 DEF NoDuplicates
    <2>13. Apart(r, u)
      BY <1>3, <2>1, <2>2, <2>10 DEF Apart
    <2> QED
      BY <1>1, <2>1, <2>2, <2>3, <2>4, <2>5, <2>6, <2>7, <2>8, <2>12, <2>13 DEF HalfSettled, E
  <1>5. ASSUME ~(e.maturity <= blockTime)
        PROVE  HalfSettled(G, M, p, blockTime, n + 1, q, i + 1, t)
    <2>1. i + 1 \in Nat \ {0} /\ (i + 1) - 1 + Len(t) = n + 1
      BY <1>1, <1>2
    <2>2. \A j \in DOMAIN q : j < i + 1 => ~(q[j].maturity <= blockTime)
      BY <1>1, <1>2, <1>3, <1>5 DEF e
    <2> QED
      BY <1>1, <1>3, <2>1, <2>2 DEF HalfSettled
  <1> QED
    BY <1>4, <1>5 DEF e

\* _settleMaturedAssets takes exactly the matured entries: it leaves a list of the others with
\* their positions, and reports a list with the positions in the matured instruments.
LEMMA SettleFacts ==
  ASSUME NEW G, NEW M, NEW p \in Seq(Entries(G, M)), NoDuplicates(p), NEW blockTime,
         NEW loop, loop = SettleLoop(p, blockTime)
  PROVE  /\ loop.portfolio \in Seq(Entries(G, M)) /\ NoDuplicates(loop.portfolio)
         /\ Len(loop.portfolio) <= Len(p) /\ loop.settled \in Seq(Entries(G, M))
         /\ FoundIn(loop.portfolio, p) /\ NoDuplicates(loop.settled)
         /\ \A j \in DOMAIN loop.portfolio : ~(loop.portfolio[j].maturity <= blockTime)
         /\ \A j \in DOMAIN loop.settled : loop.settled[j].maturity <= blockTime
         /\ \A w \in [Entries(G, M) -> Int] :
              ListSum(loop.portfolio, w) + ListSum(loop.settled, w) = ListSum(p, w)
         /\ \A types, k :
              /\ Position(loop.portfolio, types, k)
                   = IF k[2] <= blockTime THEN 0 ELSE Position(p, types, k)
              /\ Position(loop.settled, types, k)
                   = IF k[2] <= blockTime THEN Position(p, types, k) ELSE 0
  <1> DEFINE N == Len(p)
  <1>1. PICK F : IsSettleSteps(F, p, blockTime)
    BY SettleChain
  <1> DEFINE Reached(n, q, i, t) == /\ F[1 .. n] = LoopAt(q, i, t)
                                    /\ HalfSettled(G, M, p, blockTime, n, q, i, t)
             T == {n \in Nat : n <= N => \E q, i, t : Reached(n, q, i, t)}
  <1> HIDE DEF T
  <1>2. N \in Nat
    OBVIOUS
  <1>3. 0 \in T
    <2>1. /\ << >> \in Seq(Entries(G, M)) /\ Len(<< >>) = 0 /\ DOMAIN << >> = {} /\ 1 \in Nat \ {0}
      OBVIOUS
    <2>2. \A j \in DOMAIN p : ~(j < 1)
      OBVIOUS
    <2>3. ASSUME NEW w \in [Entries(G, M) -> Int]
          PROVE  ListSum(p, w) + ListSum(<< >>, w) = ListSum(p, w)
      <3>1. ListSum(p, w) \in Int
        BY ListFacts
      <3> QED
        BY <3>1, ListEmpty
    <2>5. Len(p) + Len(<< >>) = Len(p) /\ 1 - 1 + Len(<< >>) = 0
      BY <1>2, <2>1
    <2>6. NoDuplicates(<< >>) /\ Apart(p, << >>) /\ FoundIn(p, p)
      BY <2>1 DEF NoDuplicates, Apart, FoundIn
    <2>7. HalfSettled(G, M, p, blockTime, 0, p, 1, << >>)
      BY <2>1, <2>2, <2>3, <2>5, <2>6 DEF HalfSettled
    <2> QED
      BY <1>1, <2>7 DEF T, IsSettleSteps
  <1>4. ASSUME NEW n \in Nat, n \in T
        PROVE  n + 1 \in T
    <2> SUFFICES ASSUME n + 1 <= N
                 PROVE  \E q, i, t : Reached(n + 1, q, i, t)
      BY DEF T
    <2>1. PICK q, i, t : Reached(n, q, i, t)
      BY <1>2, <1>4 DEF T
    <2>2. F[1 .. (n + 1)] = SettlePass(LoopAt(q, i, t), blockTime)
      <3>1. n + 1 \in 1 .. N /\ (n + 1) - 1 = n
        BY <1>2
      <3> QED
        BY <1>1, <2>1, <3>1 DEF IsSettleSteps
    <2>3. n < Len(p)
      BY <1>2
    <2>4. CASE q[i].maturity <= blockTime
      <3>1. F[1 .. (n + 1)] = LoopAt(RemoveAsset(q, i), i, Append(t, q[i]))
        BY <2>2, <2>4, PassFacts
      <3>2. HalfSettled(G, M, p, blockTime, n + 1, RemoveAsset(q, i), i, Append(t, q[i]))
        BY <2>1, <2>3, <2>4, PassKeeps
      <3> QED
        BY <3>1, <3>2
    <2>5. CASE ~(q[i].maturity <= blockTime)
      <3>1. F[1 .. (n + 1)] = LoopAt(q, i + 1, t)
        BY <2>2, <2>5, PassFacts
      <3>2. HalfSettled(G, M, p, blockTime, n + 1, q, i + 1, t)
        BY <2>1, <2>3, <2>5, PassKeeps
      <3> QED
        BY <3>1, <3>2
    <2> QED
      BY <2>4, <2>5
  <1>5. N \in T
    BY <1>2, <1>3, <1>4, NaturalInduction
  <1>6. PICK q, i, t : Reached(N, q, i, t)
    BY <1>2, <1>5 DEF T
  <1>7. loop.portfolio = q /\ loop.settled = t
    BY <1>1, <1>6 DEF IsSettleSteps, LoopAt
  <1>8. /\ q \in Seq(Entries(G, M)) /\ NoDuplicates(q) /\ t \in Seq(Entries(G, M))
        /\ \A j \in DOMAIN t : t[j].maturity <= blockTime
        /\ \A w \in [Entries(G, M) -> Int] : ListSum(q, w) + ListSum(t, w) = ListSum(p, w)
        /\ FoundIn(q, p) /\ NoDuplicates(t)
    BY <1>6 DEF HalfSettled
  <1>9. Len(q) <= Len(p) /\ \A j \in DOMAIN q : ~(q[j].maturity <= blockTime)
    <2>1. /\ Len(q) + Len(t) = N /\ i - 1 + Len(t) = N /\ i \in Nat
          /\ \A j \in DOMAIN q : j < i => ~(q[j].maturity <= blockTime)
      BY <1>6 DEF HalfSettled
    <2>2. Len(q) \in Nat /\ Len(t) \in Nat /\ DOMAIN q = 1 .. Len(q)
      BY <1>8
    <2>3. i = Len(q) + 1
      BY <1>2, <2>1, <2>2
    <2> QED
      BY <1>2, <2>1, <2>2, <2>3
  <1>10. ASSUME NEW types, NEW k
         PROVE  /\ Position(q, types, k) = IF k[2] <= blockTime THEN 0 ELSE Position(p, types, k)
                /\ Position(t, types, k) = IF k[2] <= blockTime THEN Position(p, types, k) ELSE 0
    <2>1. /\ k[2] <= blockTime => \A j \in DOMAIN q : Share(q[j], types, k) = 0
          /\ ~(k[2] <= blockTime) => \A j \in DOMAIN t : Share(t[j], types, k) = 0
      BY <1>8, <1>9 DEF Share
    <2>2. /\ k[2] <= blockTime => Position(q, types, k) = 0
          /\ ~(k[2] <= blockTime) => Position(t, types, k) = 0
          /\ Position(q, types, k) \in Int /\ Position(t, types, k) \in Int
      BY <1>8, <2>1, PositionFacts
    <2>3. Position(q, types, k) + Position(t, types, k) = Position(p, types, k)
      BY <1>8, PositionSum, ShareFacts
    <2> QED
      BY <2>2, <2>3
  <1> QED
    BY <1>7, <1>8, <1>9, <1>10

\* Whatever is summed over a list, its settled entries and those it keeps sum to the same.
LEMMA SettleSums ==
  ASSUME NEW G, NEW M, NEW p \in Seq(Entries(G, M)), NoDuplicates(p), NEW blockTime,
         NEW loop, loop = SettleLoop(p, blockTime), NEW w \in [Entries(G, M) -> Int]
  PROVE  ListSum(loop.portfolio, w) + ListSum(loop.settled, w) = ListSum(p, w)
  <1>1. \A u \in [Entries(G, M) -> Int] :
          ListSum(loop.portfolio, u) + ListSum(loop.settled, u) = ListSum(p, u)
    BY SettleFacts
  <1> QED
    BY <1>1
=============================================================================
