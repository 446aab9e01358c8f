--------------------------- MODULE CashMarketProofs ---------------------------
(****************************************************************************)
(* Theorems about one CashMarket contract, for every value of its           *)
(* constants.  The arithmetic of a pool is settled first, in lemmas about   *)
(* the operators of LiquidityPool; the invariants then follow action by     *)
(* action.                                                                  *)
(****************************************************************************)
EXTENDS CashMarket, OperatorProofs

(****************************************************************************)
(* The invariant.  It is inductive once it is paired with the type of the   *)
(* pools: a quotient of a negative total would not round the right way.     *)
(****************************************************************************)
IInv == TypeOK /\ PoolConsistent

\* Storing a consistent pool keeps the invariant.
LEMMA UpdateKeeps ==
  ASSUME IInv, NEW m \in Maturities, NEW mk \in Market, Consistent(mk), UpdateMarket(m, mk)
  PROVE  IInv'
  BY DEF IInv, TypeOK, PoolConsistent, UpdateMarket

\* Every entry point keeps the invariant.
LEMMA LiquidityStep ==
  ASSUME IInv, ChangeLiquidity
  PROVE  IInv'
  <1> PICK m \in Maturities, x \in Amounts, y \in Amounts :
         \/ AddLiquidity(m, x, y)
         \/ RemoveLiquidity(m, x)
         \/ SettleLiquidityToken(m, x)
         \/ TradeLiquidityToken(m, x, y)
    BY DEF ChangeLiquidity
  <1>1. x \in Nat /\ y \in Nat /\ markets[m] \in Market /\ Consistent(markets[m])
    BY AmountsAssumption DEF IInv, TypeOK, PoolConsistent
  <1>2. CASE OpenMarket(m, x, y)
    BY <1>1, <1>2, OpenFacts, UpdateKeeps DEF OpenMarket
  <1>3. CASE JoinMarket(m, x, y)
    BY <1>1, <1>3, JoinFacts, UpdateKeeps DEF JoinMarket
  <1>4. CASE RemoveLiquidity(m, x)
    BY <1>1, <1>4, RedeemFacts, UpdateKeeps DEF RemoveLiquidity
  <1>5. CASE SettleLiquidityToken(m, x)
    BY <1>1, <1>5, RedeemFacts, UpdateKeeps DEF SettleLiquidityToken
  <1>6. CASE TradeLiquidityToken(m, x, y)
    <2> DEFINE tokens == TokensToRaise(markets[m], x, y)
    <2>1. /\ markets[m].totalLiquidity > 0
          /\ CanRedeem(markets[m], tokens)
          /\ UpdateMarket(m, RedeemFrom(markets[m], tokens))
      BY <1>6 DEF TradeLiquidityToken
    <2>2. tokens \in Nat
      BY <1>1, <1>6, TokensToRaiseNat DEF TradeLiquidityToken
    <2> HIDE DEF tokens
    <2> QED
      BY <1>1, <2>1, <2>2, RedeemFacts, UpdateKeeps
  <1> QED
    BY <1>2, <1>3, <1>4, <1>5, <1>6 DEF AddLiquidity

\* A trade needs an implied rate on both sides of it, so it keeps a consistent pool consistent.
LEMMA TradeStep ==
  ASSUME IInv, Trade
  PROVE  IInv'
  <1> PICK m \in Maturities, fCash \in Amounts, cash \in Amounts :
         TakeCurrentCash(m, fCash, cash) \/ TakefCash(m, fCash, cash)
    BY DEF Trade
  <1>1. fCash \in Nat /\ cash \in Nat /\ markets[m] \in Market /\ Consistent(markets[m])
    BY AmountsAssumption DEF IInv, TypeOK, PoolConsistent
  <1>2. CASE TakeCurrentCash(m, fCash, cash)
    BY <1>1, <1>2, TradeFacts, RatedPool, UpdateKeeps DEF TakeCurrentCash, CanBorrow
  <1>3. CASE TakefCash(m, fCash, cash)
    BY <1>1, <1>3, TradeFacts, RatedPool, UpdateKeeps DEF TakefCash, CanLend
  <1> QED
    BY <1>2, <1>3

\* Time passing changes no pool.
LEMMA TickStep ==
  ASSUME IInv, Tick
  PROVE  IInv'
  BY MaxTimeAssumption DEF IInv, TypeOK, PoolConsistent, Tick

\* The invariant is inductive: it holds at the start and every step keeps it.
LEMMA Invariance == Spec => []IInv
  <1>1. Init => IInv
    BY MaxTimeAssumption DEF Init, IInv, TypeOK, PoolConsistent, Consistent, EmptyMarket, Market
  <1>2. IInv /\ [Next]_vars => IInv'
    <2> SUFFICES ASSUME IInv, [Next]_vars
                 PROVE  IInv'
      OBVIOUS
    <2>1. CASE Next
      BY <2>1, LiquidityStep, TradeStep, TickStep DEF Next
    <2>2. CASE UNCHANGED vars
      BY <2>2 DEF vars, IInv, TypeOK, PoolConsistent
    <2> QED
      BY <2>1, <2>2
  <1> QED
    BY <1>1, <1>2, PTL DEF Spec

\* The totals of every pool stay natural numbers: no redemption or trade takes more from a side
\* of a pool than it holds.
THEOREM TypeCorrect == Spec => []TypeOK
  BY Invariance, PTL DEF IInv

\* No run of entries, trades and exits leaves a pool with token holders and an empty side, or
\* cash or fCash that nobody has a token for.
THEOREM PoolsStayConsistent == Spec => []PoolConsistent
  BY Invariance, PTL DEF IInv

(****************************************************************************)
(* Rounding cannot be turned into a gain.                                   *)
(****************************************************************************)

\* Entering a pool and leaving it at once never pays, in any reachable pool and for any amount.
THEOREM NoGainFromRoundTrip == Spec => []RoundTripNoGain
  <1>1. IInv => RoundTripNoGain
    <2> SUFFICES ASSUME IInv, NEW m \in Maturities, NEW cash \in Amounts,
                        markets[m].totalLiquidity > 0
                 PROVE  LET joined == AddLiquidityTo(markets[m], cash)
                            tokens == TokensMinted(markets[m], cash)
                        IN  /\ CashClaim(joined, tokens) <= cash
                            /\ fCashClaim(joined, tokens) <= fCashOwed(markets[m], cash)
      BY DEF RoundTripNoGain
    <2>1. cash \in Nat /\ markets[m] \in Market /\ markets[m].totalCurrentCash > 0
      BY AmountsAssumption DEF IInv, TypeOK, PoolConsistent, Consistent, Market
    <2> QED
      BY <2>1, RoundTripFacts
  <1> QED
    BY <1>1, Invariance, PTL

\* Redeeming in two lots never pays more than redeeming at once.
THEOREM NoGainFromSplitting == Spec => []SplitNoGain
  <1>1. IInv => SplitNoGain
    <2> SUFFICES ASSUME IInv, NEW m \in Maturities, NEW x \in Amounts, NEW y \in Amounts,
                        x < markets[m].totalLiquidity,
                        x + y <= markets[m].totalLiquidity
                 PROVE  LET mk == markets[m]
                        IN  /\ CashClaim(mk, x) + CashClaim(RedeemFrom(mk, x), y)
                                 <= CashClaim(mk, x + y)
                            /\ fCashClaim(mk, x) + fCashClaim(RedeemFrom(mk, x), y)
                                 <= fCashClaim(mk, x + y)
      BY DEF SplitNoGain
    <2> DEFINE mk == markets[m]
    <2>1. x \in Nat /\ y \in Nat
      BY AmountsAssumption
    <2>2. mk.totalfCash \in Nat /\ mk.totalCurrentCash \in Nat /\ mk.totalLiquidity \in Nat
      BY DEF IInv, TypeOK, Market
    <2>3. /\ CashClaim(RedeemFrom(mk, x), y)
               = ((mk.totalCurrentCash - CashClaim(mk, x)) * y) \div (mk.totalLiquidity - x)
          /\ fCashClaim(RedeemFrom(mk, x), y)
               = ((mk.totalfCash - fCashClaim(mk, x)) * y) \div (mk.totalLiquidity - x)
      BY DEF RedeemFrom, CashClaim, fCashClaim
    <2>4. CashClaim(mk, x) + CashClaim(RedeemFrom(mk, x), y) <= CashClaim(mk, x + y)
      BY <2>1, <2>2, <2>3, SplitShare DEF CashClaim
    <2>5. fCashClaim(mk, x) + fCashClaim(RedeemFrom(mk, x), y) <= fCashClaim(mk, x + y)
      BY <2>1, <2>2, <2>3, SplitShare DEF fCashClaim
    <2> QED
      BY <2>4, <2>5
  <1> QED
    BY <1>1, Invariance, PTL

\* Liquidation raises what it needs from a provider's tokens, no more, and falls short by less
\* than one token's worth and a unit when the tokens suffice.
THEOREM RaisesEnough == Spec => []RaisesWhatIsRequired
  <1>1. IInv => RaisesWhatIsRequired
    <2> SUFFICES ASSUME IInv, NEW m \in Maturities, NEW cashRequired \in Amounts,
                        NEW maxTokens \in Amounts, 0 < markets[m].totalLiquidity,
                        maxTokens <= markets[m].totalLiquidity
                 PROVE  LET mk     == markets[m]
                            tokens == TokensToRaise(mk, cashRequired, maxTokens)
                            raised == CashClaim(mk, tokens)
                        IN  /\ tokens <= maxTokens
                            /\ raised <= cashRequired
                            /\ CashClaim(mk, maxTokens) >= cashRequired =>
                                 (cashRequired - raised) * mk.totalLiquidity
                                   < mk.totalCurrentCash + mk.totalLiquidity
      BY DEF RaisesWhatIsRequired
    <2>1. /\ markets[m] \in Market /\ Consistent(markets[m]) /\ markets[m].totalLiquidity > 0
          /\ cashRequired \in Nat /\ maxTokens \in Nat
      BY AmountsAssumption DEF IInv, TypeOK, PoolConsistent, Market
    <2> QED
      BY <2>1, RaiseFacts
  <1> QED
    BY <1>1, Invariance, PTL

(****************************************************************************)
(* Action properties.                                                       *)
(****************************************************************************)

\* Storing the result of a step that does not dilute one pool dilutes none.
LEMMA UpdateNotDiluting ==
  ASSUME IInv, NEW m \in Maturities, NEW mk \in Market,
         UpdateMarket(m, mk), NoDilution(markets[m], mk)
  PROVE  UndilutedStep
  BY DEF IInv, TypeOK, UpdateMarket, NoDilution, UndilutedStep

\* A trade moves no token, a first entry finds none, and every other change of the supply
\* rounds in favour of the tokens left.
LEMMA NoStepDilutes ==
  ASSUME IInv, [Next]_vars
  PROVE  UndilutedStep
  <1>1. CASE ChangeLiquidity
    <2> PICK m \in Maturities, x \in Amounts, y \in Amounts :
           \/ AddLiquidity(m, x, y)
           \/ RemoveLiquidity(m, x)
           \/ SettleLiquidityToken(m, x)
           \/ TradeLiquidityToken(m, x, y)
      BY <1>1 DEF ChangeLiquidity
    <2>1. x \in Nat /\ y \in Nat /\ markets[m] \in Market /\ Consistent(markets[m])
      BY AmountsAssumption DEF IInv, TypeOK, PoolConsistent
    <2>2. CASE OpenMarket(m, x, y)
      <3>1. NoDilution(markets[m], FirstLiquidity(x, y))
        BY <2>2 DEF OpenMarket, NoDilution
      <3> QED
        BY <2>1, <2>2, <3>1, OpenFacts, UpdateNotDiluting DEF OpenMarket
    <2>3. CASE JoinMarket(m, x, y)
      BY <2>1, <2>3, JoinFacts, UpdateNotDiluting DEF JoinMarket
    <2>4. CASE RemoveLiquidity(m, x)
      BY <2>1, <2>4, RedeemFacts, UpdateNotDiluting DEF RemoveLiquidity
    <2>5. CASE SettleLiquidityToken(m, x)
      BY <2>1, <2>5, RedeemFacts, UpdateNotDiluting DEF SettleLiquidityToken
    <2>6. CASE TradeLiquidityToken(m, x, y)
      <3> DEFINE tokens == TokensToRaise(markets[m], x, y)
      <3>1. CanRedeem(markets[m], tokens) /\ UpdateMarket(m, RedeemFrom(markets[m], tokens))
        BY <2>6 DEF TradeLiquidityToken
      <3>2. tokens \in Nat
        BY <2>1, <2>6, TokensToRaiseNat DEF TradeLiquidityToken
      <3> HIDE DEF tokens
      <3> QED
        BY <2>1, <3>1, <3>2, RedeemFacts, UpdateNotDiluting
    <2> QED
      BY <2>2, <2>3, <2>4, <2>5, <2>6 DEF AddLiquidity
  <1>2. CASE Trade
    <2> PICK m \in Maturities, fCash \in Amounts, cash \in Amounts :
           TakeCurrentCash(m, fCash, cash) \/ TakefCash(m, fCash, cash)
      BY <1>2 DEF Trade
    <2>1. fCash \in Nat /\ cash \in Nat /\ markets[m] \in Market
      BY AmountsAssumption DEF IInv, TypeOK
    <2>2. CASE TakeCurrentCash(m, fCash, cash)
      BY <2>1, <2>2, TradeFacts, UpdateNotDiluting DEF TakeCurrentCash, NoDilution
    <2>3. CASE TakefCash(m, fCash, cash)
      BY <2>1, <2>3, TradeFacts, UpdateNotDiluting DEF TakefCash, NoDilution
    <2> QED
      BY <2>2, <2>3
  <1>3. CASE Tick \/ UNCHANGED vars
    BY <1>3 DEF Tick, vars, NoDilution, UndilutedStep
  <1> QED
    BY <1>1, <1>2, <1>3 DEF Next

\* Whoever joins, leaves or is liquidated, and whatever is traded in between: the cash behind one
\* token never falls when the supply changes, and the fCash by less than a unit.
THEOREM TokensNotDiluted == Spec => ProvidersNotDiluted
  <1>1. IInv /\ [Next]_vars => [UndilutedStep]_vars
    BY NoStepDilutes
  <1> QED
    BY <1>1, Invariance, PTL DEF Spec, ProvidersNotDiluted

\* A step that stores a pool no total of which has grown pays out of that pool and no other.
LEMMA ShrinkingUpdate ==
  ASSUME IInv, NEW m \in Maturities, NEW tokens \in Nat, CanRedeem(markets[m], tokens),
         UpdateMarket(m, RedeemFrom(markets[m], tokens))
  PROVE  PayOutStep
  <1> DEFINE new == RedeemFrom(markets[m], tokens)
  <1>1. markets \in [Maturities -> Market] /\ markets' = [markets EXCEPT ![m] = new]
    BY DEF IInv, TypeOK, UpdateMarket
  <1>2. /\ new.totalfCash <= markets[m].totalfCash
        /\ new.totalCurrentCash <= markets[m].totalCurrentCash
        /\ new.totalLiquidity <= markets[m].totalLiquidity
    BY <1>1, RedeemShrinks
  <1> HIDE DEF new
  <1>3. \A k \in Maturities : markets'[k] = IF k = m THEN new ELSE markets[k]
    BY <1>1
  <1>4. \A k \in Maturities : markets[k] \in Market
    BY <1>1
  <1> QED
    BY <1>2, <1>3, <1>4 DEF PayOutStep, Market

\* A step that stores the pool of an unmatured maturity leaves the matured ones alone.
LEMMA UnmaturedUpdate ==
  ASSUME IInv, NEW m \in Maturities, NEW mk, blockTime < m, UpdateMarket(m, mk)
  PROVE  PayOutStep
  <1>1. /\ markets \in [Maturities -> Market] /\ markets' = [markets EXCEPT ![m] = mk]
        /\ blockTime \in 0 .. MaxTime /\ m \in Int
    BY DEF IInv, TypeOK, UpdateMarket, Maturities
  <1>2. \A k \in Maturities : k <= blockTime => markets'[k] = markets[k]
    BY <1>1, MaxTimeAssumption DEF Maturities
  <1> QED
    BY <1>1, <1>2 DEF PayOutStep, Market

\* What the contract accepts new trades for has not matured; the other entry points redeem.
LEMMA MaturedStep ==
  ASSUME IInv, [Next]_vars
  PROVE  PayOutStep
  <1>1. CASE ChangeLiquidity
    <2> PICK m \in Maturities, x \in Amounts, y \in Amounts :
           \/ AddLiquidity(m, x, y)
           \/ RemoveLiquidity(m, x)
           \/ SettleLiquidityToken(m, x)
           \/ TradeLiquidityToken(m, x, y)
      BY <1>1 DEF ChangeLiquidity
    <2>1. x \in Nat /\ y \in Nat /\ markets[m] \in Market /\ Consistent(markets[m])
      BY AmountsAssumption DEF IInv, TypeOK, PoolConsistent
    <2>2. CASE AddLiquidity(m, x, y)
      BY <2>2, UnmaturedUpdate DEF AddLiquidity, OpenMarket, JoinMarket, Tradeable, IsValidBlock
    <2>3. CASE RemoveLiquidity(m, x) \/ SettleLiquidityToken(m, x)
      BY <2>1, <2>3, ShrinkingUpdate DEF RemoveLiquidity, SettleLiquidityToken
    <2>4. CASE TradeLiquidityToken(m, x, y)
      <3> DEFINE tokens == TokensToRaise(markets[m], x, y)
      <3>1. CanRedeem(markets[m], tokens) /\ UpdateMarket(m, RedeemFrom(markets[m], tokens))
        BY <2>4 DEF TradeLiquidityToken
      <3>2. tokens \in Nat
        BY <2>1, <2>4, TokensToRaiseNat DEF TradeLiquidityToken
      <3> HIDE DEF tokens
      <3> QED
        BY <3>1, <3>2, ShrinkingUpdate
    <2> QED
      BY <2>2, <2>3, <2>4
  <1>2. CASE Trade
    BY <1>2, UnmaturedUpdate DEF Trade, TakeCurrentCash, TakefCash, Tradeable, IsValidBlock
  <1>3. CASE Tick \/ UNCHANGED vars
    BY <1>3 DEF IInv, TypeOK, Market, Tick, vars, PayOutStep
  <1> QED
    BY <1>1, <1>2, <1>3 DEF Next

\* After its maturity a pool is only paid out: nobody can join it or trade against it.
THEOREM MaturedPoolsPayOut == Spec => MaturedPoolOnlyPaysOut
  <1>1. IInv /\ [Next]_vars => [PayOutStep]_vars
    BY MaturedStep
  <1> QED
    BY <1>1, Invariance, PTL DEF Spec, MaturedPoolOnlyPaysOut

(****************************************************************************)
(* Maturities.                                                              *)
(****************************************************************************)

\* The maturities accepted are the next numMaturities multiples of the length after the block
\* time, whatever the block time is.
LEMMA NextMaturities ==
  ASSUME NEW t \in Nat, NEW len \in Nat, len > 0, NEW num \in Nat, NEW m \in Nat
  PROVE  IsValidBlock(t, m, len, num) <=> m \in ActiveMaturities(t, len, num)
  <1> DEFINE p == t \div len
             q == m \div len
  <1>1. p \in Nat /\ t - (t % len) = len * p /\ len * p <= t /\ t < len * p + len
    BY SMT
  <1>2. q \in Nat /\ (m % len = 0 <=> m = len * q)
    BY SMT
  <1> HIDE DEF p, q
  <1>3. ASSUME IsValidBlock(t, m, len, num)
        PROVE  m \in ActiveMaturities(t, len, num)
    <2>1. len * q > t /\ m = len * q /\ len * q <= len * p + len * num
      BY <1>1, <1>2, <1>3 DEF IsValidBlock
    <2>2. q > p
      BY <1>1, <1>2, <2>1, SMT
    <2>3. q <= p + num
      BY <1>1, <1>2, <2>1, SMT
    <2>4. m = len * p + len * (q - p)
      BY <1>1, <1>2, <2>1, SMT
    <2>5. q - p \in 1 .. num
      BY <1>1, <1>2, <2>2, <2>3
    <2> QED
      BY <1>1, <2>4, <2>5 DEF ActiveMaturities
  <1>4. ASSUME m \in ActiveMaturities(t, len, num)
        PROVE  IsValidBlock(t, m, len, num)
    <2>1. PICK i \in 1 .. num : m = len * p + len * i
      BY <1>1, <1>4 DEF ActiveMaturities
    <2>2. m = len * (p + i) /\ p + i \in Nat
      BY <1>1, <2>1, SMT
    <2>3. m % len = 0
      <3> DEFINE k == p + i
                 d == m \div len
                 r == m % len
      <3>1. m = len * k /\ k \in Nat
        BY <2>2
      <3>2. d \in Nat /\ r \in Nat /\ r < len /\ m = len * d + r
        BY SMT
      <3> HIDE DEF k, d, r
      <3>3. len * (k - d) = r
        BY <3>1, <3>2, SMT
      <3>4. k - d < 1
        BY <3>1, <3>2, <3>3, SMT
      <3>5. k - d > -1
        BY <3>1, <3>2, <3>3, SMT
      <3>6. k - d = 0
        BY <3>1, <3>2, <3>4, <3>5
      <3>7. r = 0
        BY <3>3, <3>6
      <3> QED
        BY <3>7 DEF r
    <2>4. len * i >= len /\ len * i <= len * num
      BY <2>1, SMT
    <2> QED
      BY <1>1, <2>1, <2>3, <2>4 DEF IsValidBlock
  <1> QED
    BY <1>3, <1>4

\* What the contract advertises is what it accepts, at every block time.
THEOREM AdvertisedAccepted == Spec => []AdvertisedIsTradeable
  <1>1. IInv => AdvertisedIsTradeable
    <2> SUFFICES ASSUME IInv
                 PROVE  AdvertisedIsTradeable
      OBVIOUS
    <2>1. blockTime \in Nat /\ blockTime <= MaxTime
      BY MaxTimeAssumption DEF IInv, TypeOK
    <2>2. \A m \in ActiveMaturities(blockTime, MaturityLength, NumMaturities) : m \in Maturities
      <3> TAKE m \in ActiveMaturities(blockTime, MaturityLength, NumMaturities)
      <3>1. PICK i \in 1 .. NumMaturities :
              m = blockTime - (blockTime % MaturityLength) + MaturityLength * i
        BY DEF ActiveMaturities
      <3>2. MaturityLength * i >= MaturityLength /\ MaturityLength * i <= MaturityLength * NumMaturities
        BY <3>1, MaturityLengthAssumption, NumMaturitiesAssumption, SMT
      <3>3. blockTime % MaturityLength \in 0 .. MaturityLength - 1
        BY <2>1, MaturityLengthAssumption
      <3>4. m \in Int /\ 1 <= m /\ m <= MaxTime + MaturityLength * NumMaturities
        <4> DEFINE r == blockTime % MaturityLength
                   x == MaturityLength * i
                   y == MaturityLength * NumMaturities
        <4>1. x \in Int /\ y \in Int
          BY <3>1, MaturityLengthAssumption, NumMaturitiesAssumption
        <4>2. blockTime % MaturityLength <= blockTime
          BY <2>1, MaturityLengthAssumption, SMT
        <4> HIDE DEF r, x, y
        <4> QED
          BY <2>1, <3>1, <3>2, <3>3, <4>1, <4>2, MaxTimeAssumption, MaturityLengthAssumption
             DEF r, x, y
      <3> QED
        BY <3>4 DEF Maturities
    <2>3. Maturities \subseteq Nat
      BY DEF Maturities
    <2>4. \A m \in Maturities :
            Tradeable(m) <=> m \in ActiveMaturities(blockTime, MaturityLength, NumMaturities)
      BY <2>1, <2>3, NextMaturities, MaturityLengthAssumption, NumMaturitiesAssumption
         DEF Tradeable
    <2> QED
      BY <2>2, <2>4 DEF AdvertisedIsTradeable
  <1> QED
    BY <1>1, Invariance, PTL
=============================================================================
