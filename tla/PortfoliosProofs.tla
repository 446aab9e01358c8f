-------------------------- MODULE PortfoliosProofs --------------------------
(****************************************************************************)
(* The accounts' arrays have their type, no two entries of one are for the  *)
(* same side of an instrument, and they implement the ledger of positions.  *)
(****************************************************************************)
EXTENDS Portfolios, OperatorProofs

\* Liquidity tokens exist in the groups with a cash market only.
TokensInMarketsOnly ==
  \A a \in Accounts, k \in Instruments : k[1] \notin AMMGroups => LiquidityPositions[a][k] = 0

\* The inductive invariant.
IInv == TypeOK /\ NoDuplicateEntries /\ TokensInMarketsOnly

\* What IInv says of the arrays, of the arrays a call is about to store.
SoundArray(p) ==
  /\ p \in Seq(Entries(Groups, Maturities)) /\ NoDuplicates(p) /\ Len(p) <= MaxAssets + 1
  /\ \A k \in Instruments : k[1] \notin AMMGroups => Position(p, LiquidityTypes, k) = 0

Sound(portfolios) ==
  /\ portfolios \in [Accounts -> Seq(Entries(Groups, Maturities))]
  /\ \A a \in Accounts : SoundArray(portfolios[a])

\* The two kinds of position an array stands for, and all of them.
Kinds == {CashTypes, LiquidityTypes}

Table(portfolios, types) == [a \in Accounts |-> Positions(portfolios[a], types)]

SoundState ==
  /\ blockTime \in 0 .. MaxTime /\ Sound(accountAssets)
  /\ settledCash \in [Accounts -> [Instruments -> Int]]
  /\ redeemed \in [Accounts -> [Instruments -> Nat]]

\* The arrays of an invariant state are sound.
LEMMA InvSound == (IInv <=> SoundState) /\ (IInv <=> SoundState)'
  <1>1. Entry = Entries(Groups, Maturities)
    BY DEF Entry, Entries
  <1>2. /\ NoDuplicateEntries <=> \A a \in Accounts : NoDuplicates(accountAssets[a])
        /\ NoDuplicateEntries' <=> \A a \in Accounts : NoDuplicates(accountAssets'[a])
    BY DEF NoDuplicateEntries, NoDuplicates, SameSide
  <1>3. /\ TokensInMarketsOnly <=>
             \A a \in Accounts, k \in Instruments :
               k[1] \notin AMMGroups => Position(accountAssets[a], LiquidityTypes, k) = 0
        /\ TokensInMarketsOnly' <=>
             \A a \in Accounts, k \in Instruments :
               k[1] \notin AMMGroups => Position(accountAssets'[a], LiquidityTypes, k) = 0
    BY DEF TokensInMarketsOnly, LiquidityPositions, Positions
  <1> QED
    BY <1>1, <1>2, <1>3 DEF IInv, TypeOK, Sound, SoundArray, SoundState

\* Positions of sound arrays are integers, those in tokens naturals.
LEMMA PositionsType ==
  ASSUME NEW p \in Seq(Entries(Groups, Maturities))
  PROVE  /\ \A types : Positions(p, types) \in [Instruments -> Int]
         /\ Positions(p, LiquidityTypes) \in [Instruments -> Nat]
         /\ \A types : \A k \in Instruments : Positions(p, types)[k] = Position(p, types, k)
  <1>1. \A types, k : Position(p, types, k) \in Int
    BY PositionFacts
  <1>2. \A k : Position(p, LiquidityTypes, k) \in Nat
    BY TokenPosition DEF LiquidityTypes
  <1> QED
    BY <1>1, <1>2 DEF Positions

\* A posting of liquidity may be of a payer.
TokenSide == {LiquidityToken, LiquidityPayer}

\* Each kind of position adds up as the side it belongs to.
LEMMA KindFacts ==
  ASSUME NEW p \in Seq(Entries(Groups, Maturities)),
         NEW x \in Postings(Groups, Maturities), NEW q,
         Adds(Groups, Maturities, p, x, q), NEW k
  PROVE  /\ Position(q, CashTypes, k) = Position(p, CashTypes, k) + Share(x, CashTypes, k)
         /\ Position(q, LiquidityTypes, k)
              = Position(p, LiquidityTypes, k) + Share(x, TokenSide, k)
  <1>1. q \in Seq(Entries(Groups, Maturities))
    BY DEF Adds
  <1>2. TokenSide \in Sides /\ CashTypes \in Sides
    BY DEF Sides, CashTypes, TokenSide
  <1>3. /\ Position(q, CashTypes, k) = Position(p, CashTypes, k) + Share(x, CashTypes, k)
        /\ Position(q, TokenSide, k) = Position(p, TokenSide, k) + Share(x, TokenSide, k)
    BY <1>2 DEF Adds
  <1>4. /\ Position(p, LiquidityTypes, k) = Position(p, TokenSide, k)
        /\ Position(q, LiquidityTypes, k) = Position(q, TokenSide, k)
    BY <1>1, TokenPosition DEF LiquidityTypes, TokenSide
  <1> QED
    BY <1>3, <1>4

\* What a posting adds to its instrument's position of each kind.
CashPart(x)  == IF x.assetType \in CashTypes THEN Signed(x) ELSE 0
TokenPart(x) == IF x.assetType \in TokenSide THEN Signed(x) ELSE 0

InstrumentOf(x) == <<x.cashGroupId, x.maturity>>

Posted(portfolios, a, q) == [portfolios EXCEPT ![a] = q]

\* R is P after a posting of f and of tokens for a in the instrument k.
Posting(P, R, a, k, f, tokens) ==
  /\ Sound(R)
  /\ Table(R, CashTypes) = Ledger!Post(Table(P, CashTypes), a, k, f)
  /\ Table(R, LiquidityTypes) = Ledger!Post(Table(P, LiquidityTypes), a, k, tokens)

\* A call that adds a posting to an account's array posts it to the account's positions.
LEMMA PostingFacts ==
  ASSUME NEW P, Sound(P), NEW a \in Accounts, NEW x \in Postings(Groups, Maturities),
         TokenPart(x) = 0 \/ x.cashGroupId \in AMMGroups,
         NEW q, Adds(Groups, Maturities, P[a], x, q), Len(q) <= MaxAssets + 1
  PROVE  Posting(P, Posted(P, a, q), a, InstrumentOf(x), CashPart(x), TokenPart(x))
  <1> DEFINE R == Posted(P, a, q)
             E == Entries(Groups, Maturities)
  <1>1. /\ P \in [Accounts -> Seq(E)] /\ P[a] \in Seq(E) /\ q \in Seq(E) /\ NoDuplicates(q)
        /\ \A b \in Accounts : SoundArray(P[b])
    BY DEF Sound, Adds
  <1>2. /\ R \in [Accounts -> Seq(E)] /\ R[a] = q
        /\ \A b \in Accounts : b # a => R[b] = P[b]
    <2> HIDE DEF E
    <2> QED
      BY <1>1 DEF Posted
  <1> HIDE DEF R
  <1>3. ASSUME NEW k
        PROVE  /\ Position(q, CashTypes, k)
                    = Position(P[a], CashTypes, k) + IF k = InstrumentOf(x) THEN CashPart(x) ELSE 0
               /\ Position(q, LiquidityTypes, k)
                    = Position(P[a], LiquidityTypes, k)
                        + IF k = InstrumentOf(x) THEN TokenPart(x) ELSE 0
    <2>1. /\ Position(q, CashTypes, k) = Position(P[a], CashTypes, k) + Share(x, CashTypes, k)
          /\ Position(q, LiquidityTypes, k) = Position(P[a], LiquidityTypes, k) + Share(x, TokenSide, k)
      <3> DEFINE p == P[a]
      <3>1. p \in Seq(Entries(Groups, Maturities)) /\ Adds(Groups, Maturities, p, x, q)
        BY <1>1
      <3> HIDE DEF p
      <3>2. /\ Position(q, CashTypes, k) = Position(p, CashTypes, k) + Share(x, CashTypes, k)
            /\ Position(q, LiquidityTypes, k) = Position(p, LiquidityTypes, k) + Share(x, TokenSide, k)
        BY <3>1, KindFacts
      <3> QED
        BY <3>2 DEF p
    <2>2. /\ Share(x, CashTypes, k) = IF k = InstrumentOf(x) THEN CashPart(x) ELSE 0
          /\ Share(x, TokenSide, k) = IF k = InstrumentOf(x) THEN TokenPart(x) ELSE 0
      BY DEF Share, InstrumentOf, CashPart, TokenPart
    <2> QED
      BY <2>1, <2>2
  <1>4. SoundArray(q)
    <2>1. ASSUME NEW k \in Instruments, k[1] \notin AMMGroups
          PROVE  Position(q, LiquidityTypes, k) = 0
      <3>1. k = InstrumentOf(x) => TokenPart(x) = 0
        BY <2>1 DEF InstrumentOf
      <3>2. (IF k = InstrumentOf(x) THEN TokenPart(x) ELSE 0) = 0
        BY <3>1
      <3>3. Position(P[a], LiquidityTypes, k) = 0
        BY <1>1, <2>1 DEF SoundArray
      <3> QED
        BY <1>3, <3>2, <3>3
    <2> QED
      BY <1>1, <2>1 DEF SoundArray
  <1>5. Sound(R)
    BY <1>1, <1>2, <1>4 DEF Sound
  <1>6. ASSUME NEW types \in Kinds, NEW n,
               \A k : Position(q, types, k)
                        = Position(P[a], types, k) + IF k = InstrumentOf(x) THEN n ELSE 0
        PROVE  Table(R, types) = Ledger!Post(Table(P, types), a, InstrumentOf(x), n)
    <2>1. ASSUME NEW b \in Accounts, NEW k \in Instruments
          PROVE  Table(R, types)[b][k]
                   = Table(P, types)[b][k] + IF b = a /\ k = InstrumentOf(x) THEN n ELSE 0
      <3>1. /\ Table(R, types)[b][k] = Position(R[b], types, k)
            /\ Table(P, types)[b][k] = Position(P[b], types, k)
        BY DEF Table, Positions
      <3>2. Position(P[b], types, k) \in Int
        BY <1>1, PositionFacts
      <3> QED
        BY <1>2, <1>6, <3>1, <3>2
    <2>2. Table(R, types) = [b \in Accounts |-> [k \in Instruments |-> Table(R, types)[b][k]]]
      BY DEF Table, Positions
    <2> HIDE DEF Kinds
    <2>3. Ledger!Post(Table(P, types), a, InstrumentOf(x), n)
            = [b \in Accounts |-> [k \in Instruments |->
                 Table(P, types)[b][k] + IF b = a /\ k = InstrumentOf(x) THEN n ELSE 0]]
      BY DEF Ledger!Post, Ledger!Instruments, Instruments
    <2> QED
      BY <2>1, <2>2, <2>3
  <1> QED
    <2>1. /\ Table(R, CashTypes) = Ledger!Post(Table(P, CashTypes), a, InstrumentOf(x), CashPart(x))
          /\ Table(R, LiquidityTypes)
               = Ledger!Post(Table(P, LiquidityTypes), a, InstrumentOf(x), TokenPart(x))
      BY <1>3, <1>6 DEF Kinds
    <2>2. Posting(P, R, a, InstrumentOf(x), CashPart(x), TokenPart(x))
      BY <1>5, <2>1 DEF Posting
    <2> QED
      BY <2>2 DEF R

(****************************************************************************)
(* Storing what a call leaves.                                              *)
(****************************************************************************)

\* The positions of the state are those of its arrays.
LEMMA PositionTables ==
  /\ fCashPositions = Table(accountAssets, CashTypes)
  /\ LiquidityPositions = Table(accountAssets, LiquidityTypes)
  /\ fCashPositions' = Table(accountAssets', CashTypes)
  /\ LiquidityPositions' = Table(accountAssets', LiquidityTypes)
  BY DEF fCashPositions, LiquidityPositions, Table

\* A position after settlement, and what settlement turned it into.
Cleared(n, k)   == IF k[2] <= blockTime THEN 0 ELSE n
Collected(n, k) == IF k[2] <= blockTime THEN n ELSE 0

\* Settling account a of sound arrays clears its matured positions.
LEMMA SettledTable ==
  ASSUME NEW P, Sound(P), NEW a \in Accounts, NEW loop, loop = SettleLoop(P[a], blockTime)
  PROVE  /\ Sound(Posted(P, a, loop.portfolio))
         /\ loop.settled \in Seq(Entries(Groups, Maturities))
         /\ \A types :
              /\ Table(Posted(P, a, loop.portfolio), types) = Ledger!Clear(Table(P, types), a)
              /\ \A k \in Instruments :
                   Positions(loop.settled, types)[k] = Collected(Table(P, types)[a][k], k)
  <1> DEFINE E == Entries(Groups, Maturities)
             p == P[a]
             q == loop.portfolio
             R == Posted(P, a, q)
  <1>1. p \in Seq(Entries(Groups, Maturities)) /\ NoDuplicates(p) /\ Len(p) <= MaxAssets + 1
    BY DEF Sound, SoundArray
  <1>2. loop = SettleLoop(p, blockTime)
    OBVIOUS
  <1>3. /\ q \in Seq(Entries(Groups, Maturities)) /\ NoDuplicates(q)
        /\ Len(q) <= Len(p) /\ loop.settled \in Seq(Entries(Groups, Maturities))
        /\ \A types, k :
             /\ Position(q, types, k)
                  = IF k[2] <= blockTime THEN 0 ELSE Position(p, types, k)
             /\ Position(loop.settled, types, k)
                  = IF k[2] <= blockTime THEN Position(p, types, k) ELSE 0
    <2> HIDE DEF p
    <2> QED
      BY <1>1, <1>2, SettleFacts
  <1>4. SoundArray(q)
    <2>1. \A k \in Instruments : k[1] \notin AMMGroups => Position(p, LiquidityTypes, k) = 0
      BY DEF Sound, SoundArray
    <2>2. Len(q) <= MaxAssets + 1
      BY <1>1, <1>3, MaxAssetsAssumption
    <2> HIDE DEF p, q
    <2> QED
      BY <1>3, <2>1, <2>2 DEF SoundArray
  <1>5. /\ R \in [Accounts -> Seq(E)] /\ R[a] = q
        /\ \A b \in Accounts : b # a => R[b] = P[b]
    <2>1. P \in [Accounts -> Seq(E)] /\ q \in Seq(E)
      BY <1>3 DEF Sound
    <2> HIDE DEF E, q
    <2> QED
      BY <2>1 DEF Posted
  <1> HIDE DEF R, q
  <1>6. Sound(R)
    BY <1>4, <1>5 DEF Sound
  <1>7. ASSUME NEW types
        PROVE  Table(R, types) = Ledger!Clear(Table(P, types), a)
    <2>1. ASSUME NEW b \in Accounts, NEW k \in Instruments
          PROVE  Table(R, types)[b][k]
                   = IF b = a /\ k[2] <= blockTime THEN 0 ELSE Table(P, types)[b][k]
      <3>1. /\ Table(R, types)[b][k] = Position(R[b], types, k)
            /\ Table(P, types)[b][k] = Position(P[b], types, k)
        BY DEF Table, Positions
      <3> QED
        BY <1>3, <1>5, <3>1
    <2>2. Table(R, types) = [b \in Accounts |-> [k \in Instruments |-> Table(R, types)[b][k]]]
      BY DEF Table, Positions
    <2>3. Ledger!Clear(Table(P, types), a)
            = [b \in Accounts |-> [k \in Instruments |->
                 IF b = a /\ k[2] <= blockTime THEN 0 ELSE Table(P, types)[b][k]]]
      BY DEF Ledger!Clear, Ledger!Matured, Ledger!Instruments, Instruments
    <2> QED
      BY <2>1, <2>2, <2>3
  <1>8. ASSUME NEW types, NEW k \in Instruments
        PROVE  Positions(loop.settled, types)[k] = Collected(Table(P, types)[a][k], k)
    BY <1>3 DEF Positions, Table, Collected
  <1> QED
    BY <1>3, <1>6, <1>7, <1>8 DEF R, q

\* A total that grows by what settlement hands on.
LEMMA CollectFacts ==
  ASSUME NEW N, N \in {Int, Nat}, NEW C \in [Accounts -> [Instruments -> N]], NEW T,
         NEW a \in Accounts, NEW s \in [Instruments -> N],
         \A k \in Instruments : s[k] = Collected(T[a][k], k)
  PROVE  /\ Posted(C, a, Plus(C[a], s)) \in [Accounts -> [Instruments -> N]]
         /\ Posted(C, a, Plus(C[a], s)) = Ledger!Collect(C, T, a)
  <1> DEFINE x == Plus(C[a], s)
             D == Posted(C, a, x)
  <1>1. \A b \in Accounts : C[b] \in [Instruments -> N]
    OBVIOUS
  <1>2. \A m, n \in N : m + n \in N /\ m + 0 = m
    OBVIOUS
  <1>3. x \in [Instruments -> N] /\ \A k \in Instruments : x[k] = C[a][k] + s[k]
    <2>1. \A k \in Instruments : C[a][k] \in N /\ s[k] \in N
      BY <1>1
    <2> QED
      BY <1>2, <2>1 DEF Plus
  <1> HIDE DEF x
  <1>4. /\ D \in [Accounts -> [Instruments -> N]] /\ D[a] = x
        /\ \A b \in Accounts : b # a => D[b] = C[b]
    BY <1>3 DEF Posted
  <1> HIDE DEF D
  <1>5. ASSUME NEW b \in Accounts, NEW k \in Instruments
        PROVE  D[b][k] = C[b][k] + IF b = a /\ k[2] <= blockTime THEN T[b][k] ELSE 0
    <2>1. CASE b = a
      BY <1>3, <1>4, <2>1 DEF Collected
    <2>2. CASE b # a
      <3>1. C[b][k] \in N
        BY <1>1
      <3>2. C[b][k] + 0 = C[b][k]
        BY <1>2, <3>1
      <3> QED
        BY <1>4, <2>2, <3>2
    <2> QED
      BY <2>1, <2>2
  <1>6. D = [b \in Accounts |-> [k \in Instruments |-> D[b][k]]]
    BY <1>4
  <1>7. Ledger!Collect(C, T, a)
          = [b \in Accounts |-> [k \in Instruments |->
               C[b][k] + IF b = a /\ k[2] <= blockTime THEN T[b][k] ELSE 0]]
    BY DEF Ledger!Collect, Ledger!Matured, Ledger!Instruments, Instruments
  <1> QED
    BY <1>4, <1>5, <1>6, <1>7 DEF D, x

\* A call that settles account a after its postings.
LEMMA StoreSettledFacts ==
  ASSUME IInv, NEW P, Sound(P), NEW a \in Accounts, StoreSettled(P, a)
  PROVE  /\ IInv'
         /\ Ledger!Store(Table(P, CashTypes), Table(P, LiquidityTypes), a, TRUE)
  <1> DEFINE loop == SettleLoop(P[a], blockTime)
             cash == Positions(loop.settled, CashTypes)
             tokens == Positions(loop.settled, LiquidityTypes)
  <1>1. /\ accountAssets' = Posted(P, a, loop.portfolio)
        /\ settledCash' = [settledCash EXCEPT ![a] = Plus(@, cash)]
        /\ redeemed' = [redeemed EXCEPT ![a] = Plus(@, tokens)]
        /\ blockTime' = blockTime
    BY DEF StoreSettled, Posted
  <1>2. /\ Sound(Posted(P, a, loop.portfolio))
        /\ loop.settled \in Seq(Entries(Groups, Maturities))
        /\ \A types :
             /\ Table(Posted(P, a, loop.portfolio), types) = Ledger!Clear(Table(P, types), a)
             /\ \A k \in Instruments :
                  Positions(loop.settled, types)[k] = Collected(Table(P, types)[a][k], k)
    BY SettledTable
  <1> HIDE DEF loop
  <1>3. SoundState
    BY InvSound
  <1>4. /\ cash \in [Instruments -> Int]
        /\ \A k \in Instruments : cash[k] = Collected(Table(P, CashTypes)[a][k], k)
        /\ tokens \in [Instruments -> Nat]
        /\ \A k \in Instruments : tokens[k] = Collected(Table(P, LiquidityTypes)[a][k], k)
    BY <1>2, PositionsType
  <1> HIDE DEF cash, tokens
  <1>5. /\ settledCash' = Posted(settledCash, a, Plus(settledCash[a], cash))
        /\ redeemed' = Posted(redeemed, a, Plus(redeemed[a], tokens))
    BY <1>1 DEF Posted
  <1>6. /\ settledCash' \in [Accounts -> [Instruments -> Int]]
        /\ settledCash' = Ledger!Collect(settledCash, Table(P, CashTypes), a)
    BY <1>3, <1>4, <1>5, CollectFacts DEF SoundState
  <1>7. /\ redeemed' \in [Accounts -> [Instruments -> Nat]]
        /\ redeemed' = Ledger!Collect(redeemed, Table(P, LiquidityTypes), a)
    BY <1>3, <1>4, <1>5, CollectFacts DEF SoundState
  <1>8. SoundState'
    BY <1>1, <1>2, <1>3, <1>6, <1>7 DEF SoundState
  <1>9. /\ fCashPositions' = Ledger!Clear(Table(P, CashTypes), a)
        /\ LiquidityPositions' = Ledger!Clear(Table(P, LiquidityTypes), a)
    BY <1>1, <1>2, PositionTables
  <1> QED
    BY <1>1, <1>6, <1>7, <1>8, <1>9, InvSound DEF Ledger!Store

\* A call that does not settle.
LEMMA StoreUnsettledFacts ==
  ASSUME IInv, NEW P, Sound(P), NEW a \in Accounts, StoreUnsettled(P)
  PROVE  /\ IInv'
         /\ Ledger!Store(Table(P, CashTypes), Table(P, LiquidityTypes), a, FALSE)
  <1>1. /\ accountAssets' = P /\ blockTime' = blockTime
        /\ settledCash' = settledCash /\ redeemed' = redeemed
    BY DEF StoreUnsettled
  <1>2. SoundState'
    BY <1>1, InvSound DEF SoundState
  <1>3. /\ fCashPositions' = Table(P, CashTypes)
        /\ LiquidityPositions' = Table(P, LiquidityTypes)
    BY <1>1, PositionTables
  <1> QED
    BY <1>1, <1>2, <1>3, InvSound DEF Ledger!Store

(****************************************************************************)
(* Posting through _upsertAsset.                                            *)
(****************************************************************************)

\* The postings of the entry points and the parts they have in the positions.
LEMMA AssetFacts ==
  ASSUME NEW g \in Groups, NEW m \in Maturities, NEW n \in Nat
  PROVE  /\ \A type \in AssetTypes :
              /\ Asset(g, m, type, n) \in Postings(Groups, Maturities)
              /\ InstrumentOf(Asset(g, m, type, n)) = <<g, m>>
              /\ Asset(g, m, type, n).cashGroupId = g
         /\ CashPart(Asset(g, m, CashPayer, n)) = -n
         /\ CashPart(Asset(g, m, CashReceiver, n)) = n
         /\ TokenPart(Asset(g, m, LiquidityPayer, n)) = -n
         /\ TokenPart(Asset(g, m, LiquidityToken, n)) = n
         /\ \A type \in CashTypes : TokenPart(Asset(g, m, type, n)) = 0
         /\ \A type \in TokenSide : CashPart(Asset(g, m, type, n)) = 0
  BY DEF Asset, Postings, InstrumentOf, CashPart, TokenPart, Signed, CashTypes, TokenSide,
         AssetTypes, CashPayer, CashReceiver, LiquidityPayer, LiquidityToken

\* Posting nothing changes nothing.
LEMMA PostNothing ==
  ASSUME NEW P, Sound(P), NEW types, NEW a, NEW k
  PROVE  Ledger!Post(Table(P, types), a, k, 0) = Table(P, types)
  <1> DEFINE T == Table(P, types)
  <1>1. ASSUME NEW b \in Accounts, NEW j \in Instruments
        PROVE  T[b][j] + (IF b = a /\ j = k THEN 0 ELSE 0) = T[b][j]
    <2>1. T[b][j] = Position(P[b], types, j)
      BY DEF Table, Positions
    <2>2. P[b] \in Seq(Entries(Groups, Maturities))
      BY DEF Sound
    <2>3. Position(P[b], types, j) \in Int
      BY <2>2, PositionFacts
    <2> HIDE DEF T
    <2> QED
      BY <2>1, <2>3
  <1>2. T = [b \in Accounts |-> [j \in Instruments |-> T[b][j]]]
    BY DEF Table, Positions
  <1> HIDE DEF T
  <1>3. Ledger!Post(T, a, k, 0)
          = [b \in Accounts |-> [j \in Instruments |->
               T[b][j] + (IF b = a /\ j = k THEN 0 ELSE 0)]]
    BY DEF Ledger!Post, Ledger!Instruments, Instruments
  <1>4. Ledger!Post(T, a, k, 0) = T
    BY <1>1, <1>2, <1>3
  <1> QED
    BY <1>4 DEF T

\* Upserting a posting posts it.
LEMMA UpsertPosts ==
  ASSUME NEW P, Sound(P), NEW a \in Accounts, NEW x \in Postings(Groups, Maturities),
         TokenPart(x) = 0 \/ x.cashGroupId \in AMMGroups,
         NEW q \in UpsertAsset(P[a], x, FALSE)
  PROVE  Posting(P, Posted(P, a, q), a, InstrumentOf(x), CashPart(x), TokenPart(x))
  <1> DEFINE p == P[a]
  <1>1. p \in Seq(Entries(Groups, Maturities)) /\ NoDuplicates(p) /\ Len(p) <= MaxAssets + 1
    BY DEF Sound, SoundArray
  <1>2. q \in UpsertAsset(p, x, FALSE)
    OBVIOUS
  <1> HIDE DEF p
  <1>3. Adds(Groups, Maturities, p, x, q) /\ (Len(q) <= Len(p) \/ Len(q) <= MaxAssets + 1)
    BY <1>1, <1>2, UpsertFacts
  <1>4. Len(q) <= MaxAssets + 1
    <2>1. Len(q) \in Nat /\ Len(p) \in Nat
      BY <1>1, <1>3 DEF Adds
    <2> QED
      BY <1>1, <1>3, <2>1, MaxAssetsAssumption
  <1> QED
    BY <1>3, <1>4, PostingFacts DEF p

\* Tokens and then cash in the same instrument of a group with a market.
IsPair(x, y) ==
  /\ InstrumentOf(x) = InstrumentOf(y) /\ x.cashGroupId \in AMMGroups
  /\ CashPart(x) = 0 /\ TokenPart(y) = 0

\* A market's posting of such a pair.
LEMMA TwoPostings ==
  ASSUME NEW P, Sound(P), NEW a \in Accounts, NEW x \in Postings(Groups, Maturities),
         NEW y \in Postings(Groups, Maturities), IsPair(x, y),
         NEW q \in UpsertAssets(P[a], <<x, y>>, FALSE)
  PROVE  Posting(P, Posted(P, a, q), a, InstrumentOf(x), CashPart(y), TokenPart(x))
  <1> DEFINE p == P[a]
  <1>1. p \in Seq(Entries(Groups, Maturities)) /\ NoDuplicates(p)
    BY DEF Sound, SoundArray
  <1>2. UpsertAssets(p, <<x, y>>, FALSE) = UpsertAll(UpsertAsset(p, x, FALSE), y, FALSE)
    <2> DEFINE xs == <<x, y>>
    <2>1. xs \in Seq(Postings(Groups, Maturities)) /\ Len(xs) = 2 /\ xs[1] = x /\ xs[2] = y
      OBVIOUS
    <2> HIDE DEF p, xs
    <2>2. UpsertsBoth(p, xs)
      BY <1>1, <2>1, UpsertTwo
    <2> QED
      BY <2>1, <2>2 DEF xs, UpsertsBoth
  <1>3. PICK r \in UpsertAsset(p, x, FALSE) : q \in UpsertAsset(r, y, FALSE)
    <2> HIDE DEF p
    <2>1. q \in UpsertAssets(p, <<x, y>>, FALSE)
      BY DEF p
    <2> QED
      BY <1>2, <2>1 DEF UpsertAll
  <1> USE DEF IsPair
  <1> DEFINE R == Posted(P, a, r)
             k == InstrumentOf(x)
  <1>4. /\ Sound(R)
        /\ Table(R, CashTypes) = Ledger!Post(Table(P, CashTypes), a, k, CashPart(x))
        /\ Table(R, LiquidityTypes) = Ledger!Post(Table(P, LiquidityTypes), a, k, TokenPart(x))
    <2>1. Posting(P, R, a, k, CashPart(x), TokenPart(x))
      BY <1>3, UpsertPosts
    <2> QED
      BY <2>1 DEF Posting
  <1>5. R[a] = r /\ Posted(R, a, q) = Posted(P, a, q)
    <2>1. P \in [Accounts -> Seq(Entries(Groups, Maturities))]
      BY DEF Sound
    <2> QED
      BY <2>1 DEF Posted
  <1> HIDE DEF R
  <1>6. q \in UpsertAsset(R[a], y, FALSE)
    BY <1>3, <1>5
  <1>7. /\ Sound(Posted(R, a, q))
        /\ Table(Posted(R, a, q), CashTypes)
             = Ledger!Post(Table(R, CashTypes), a, InstrumentOf(y), CashPart(y))
        /\ Table(Posted(R, a, q), LiquidityTypes)
             = Ledger!Post(Table(R, LiquidityTypes), a, InstrumentOf(y), TokenPart(y))
    <2>1. Posting(R, Posted(R, a, q), a, InstrumentOf(y), CashPart(y), TokenPart(y))
      BY <1>4, <1>6, UpsertPosts
    <2> QED
      BY <2>1 DEF Posting
  <1>8. /\ Table(R, CashTypes) = Table(P, CashTypes)
        /\ Ledger!Post(Table(R, LiquidityTypes), a, InstrumentOf(y), TokenPart(y))
             = Table(R, LiquidityTypes)
    BY <1>4, PostNothing
  <1> QED
    BY <1>4, <1>5, <1>7, <1>8 DEF Posting

\* What a market posts for an account is one amount of cash and at most one of tokens.
LEMMA MarketPosts ==
  ASSUME NEW P, Sound(P), NEW a \in Accounts, NEW g \in AMMGroups, NEW m \in Maturities,
         NEW x \in Amounts, NEW y \in Amounts, NEW assets \in MarketAssets(g, m, x, y),
         NEW q \in UpsertAssets(P[a], assets, FALSE)
  PROVE  \E f, tokens \in Ledger!SignedAmounts :
           Posting(P, Posted(P, a, q), a, <<g, m>>, f, tokens)
  <1>1. /\ g \in Groups /\ x \in Nat /\ y \in Nat
        /\ {CashPayer, CashReceiver} \subseteq AssetTypes /\ CashTypes \subseteq AssetTypes
        /\ {LiquidityPayer, LiquidityToken} \subseteq AssetTypes
        /\ CashPayer \in CashTypes /\ CashReceiver \in CashTypes
        /\ LiquidityPayer \in TokenSide /\ LiquidityToken \in TokenSide
    BY GroupsAssumption, AmountsAssumption DEF AssetTypes, CashTypes, TokenSide
  <1>2. /\ x \in Ledger!SignedAmounts /\ -x \in Ledger!SignedAmounts
        /\ y \in Ledger!SignedAmounts /\ -y \in Ledger!SignedAmounts
        /\ 0 \in Ledger!SignedAmounts
    BY DEF Ledger!SignedAmounts
  <1>3. ASSUME NEW s \in TokenSide, NEW t \in CashTypes,
               assets = <<Asset(g, m, s, x), Asset(g, m, t, y)>>
        PROVE  Posting(P, Posted(P, a, q), a, <<g, m>>,
                       CashPart(Asset(g, m, t, y)), TokenPart(Asset(g, m, s, x)))
    <2> DEFINE u == Asset(g, m, s, x)
               v == Asset(g, m, t, y)
    <2>1. /\ u \in Postings(Groups, Maturities) /\ v \in Postings(Groups, Maturities)
          /\ InstrumentOf(u) = <<g, m>> /\ InstrumentOf(v) = <<g, m>>
          /\ u.cashGroupId \in AMMGroups /\ CashPart(u) = 0 /\ TokenPart(v) = 0
      <3>1. s \in AssetTypes /\ t \in AssetTypes
        BY <1>1 DEF TokenSide
      <3> QED
        BY <1>1, <3>1, AssetFacts
    <2>2. q \in UpsertAssets(P[a], <<u, v>>, FALSE)
      BY <1>3
    <2> HIDE DEF u, v
    <2>3. IsPair(u, v)
      BY <2>1 DEF IsPair
    <2>4. Posting(P, Posted(P, a, q), a, InstrumentOf(u), CashPart(v), TokenPart(u))
      BY <2>1, <2>2, <2>3, TwoPostings
    <2> QED
      BY <2>1, <2>4 DEF u, v
  <1>4. ASSUME NEW t \in CashTypes, assets = <<Asset(g, m, t, y)>>
        PROVE  Posting(P, Posted(P, a, q), a, <<g, m>>, CashPart(Asset(g, m, t, y)), 0)
    <2> DEFINE v == Asset(g, m, t, y)
               p == P[a]
    <2>1. /\ v \in Postings(Groups, Maturities) /\ InstrumentOf(v) = <<g, m>> /\ TokenPart(v) = 0
      <3>1. t \in AssetTypes
        BY <1>1
      <3> QED
        BY <1>1, <3>1, AssetFacts
    <2>2. q \in UpsertAssets(p, <<v>>, FALSE)
      BY <1>4
    <2>3. p \in Seq(Entries(Groups, Maturities)) /\ NoDuplicates(p)
      BY DEF Sound, SoundArray
    <2> HIDE DEF v, p
    <2>4. UpsertAssets(p, <<v>>, FALSE) = UpsertAsset(p, v, FALSE)
      BY <2>1, <2>3, UpsertOne
    <2>5. q \in UpsertAsset(P[a], v, FALSE)
      BY <2>2, <2>4 DEF p
    <2>6. Posting(P, Posted(P, a, q), a, InstrumentOf(v), CashPart(v), TokenPart(v))
      BY <2>1, <2>5, UpsertPosts
    <2> QED
      BY <2>1, <2>6 DEF v
  <1>5. /\ CashPart(Asset(g, m, CashPayer, y)) = -y /\ CashPart(Asset(g, m, CashReceiver, y)) = y
        /\ TokenPart(Asset(g, m, LiquidityPayer, x)) = -x
        /\ TokenPart(Asset(g, m, LiquidityToken, x)) = x
    BY <1>1, AssetFacts
  <1>6. CASE assets = <<Asset(g, m, LiquidityToken, x), Asset(g, m, CashPayer, y)>>
    BY <1>1, <1>2, <1>3, <1>5, <1>6
  <1>7. CASE assets = <<Asset(g, m, LiquidityPayer, x), Asset(g, m, CashReceiver, y)>>
    BY <1>1, <1>2, <1>3, <1>5, <1>7
  <1>8. CASE assets = <<Asset(g, m, CashPayer, y)>>
    BY <1>1, <1>2, <1>4, <1>5, <1>8
  <1>9. CASE assets = <<Asset(g, m, CashReceiver, y)>>
    BY <1>1, <1>2, <1>4, <1>5, <1>9
  <1> QED
    BY <1>6, <1>7, <1>8, <1>9 DEF MarketAssets

(****************************************************************************)
(* The steps, each of them a step of the ledger.                            *)
(****************************************************************************)

\* The arrays of an invariant state.
LEMMA InvFacts ==
  ASSUME IInv
  PROVE  /\ Sound(accountAssets) /\ blockTime \in 0 .. MaxTime
         /\ fCashPositions = Table(accountAssets, CashTypes)
         /\ LiquidityPositions = Table(accountAssets, LiquidityTypes)
  BY InvSound, PositionTables DEF SoundState

\* A market's call is a trade of the ledger.
LEMMA MarketCallStep ==
  ASSUME IInv, MarketCall
  PROVE  IInv' /\ Ledger!Next
  <1>0. PICK a \in Accounts, g \in AMMGroups, m \in Maturities, x \in Amounts, y \in Amounts :
          \E assets \in MarketAssets(g, m, x, y), checkFreeCollateral \in BOOLEAN :
            /\ Mintable(g, m)
            /\ UpsertAccountAssetBatch(a, assets, checkFreeCollateral)
    BY DEF MarketCall
  <1>1. PICK assets \in MarketAssets(g, m, x, y), checkFreeCollateral \in BOOLEAN :
          /\ Mintable(g, m)
          /\ UpsertAccountAssetBatch(a, assets, checkFreeCollateral)
    BY <1>0
  <1>2. PICK q \in UpsertAssets(accountAssets[a], assets, FALSE) :
          LET P == Posted(accountAssets, a, q)
          IN  \/ StoreSettled(P, a)
              \/ StoreUnsettled(P)
    BY <1>1 DEF UpsertAccountAssetBatch, Posted
  <1> DEFINE P == Posted(accountAssets, a, q)
             k == <<g, m>>
  <1>3. PICK f \in Ledger!SignedAmounts, tokens \in Ledger!SignedAmounts :
          Posting(accountAssets, P, a, k, f, tokens)
    <2>1. Sound(accountAssets)
      BY InvFacts
    <2> QED
      BY <2>1, MarketPosts
  <1>4. /\ Sound(P)
        /\ Table(P, CashTypes) = Ledger!Post(Table(accountAssets, CashTypes), a, k, f)
        /\ Table(P, LiquidityTypes)
             = Ledger!Post(Table(accountAssets, LiquidityTypes), a, k, tokens)
    <2> HIDE DEF P, k
    <2> QED
      BY <1>3 DEF Posting
  <1>5. k \in AMMGroups \X Maturities /\ k \in Instruments /\ Ledger!Unmatured(k)
    BY <1>1, GroupsAssumption DEF Mintable, Instruments, Ledger!Unmatured
  <1> HIDE DEF P, k
  <1>6. LiquidityPositions[a][k] + tokens >= 0
    <2>1. Table(P, LiquidityTypes)[a][k] >= 0
      <3>1. P[a] \in Seq(Entries(Groups, Maturities))
        BY <1>4 DEF Sound
      <3>2. Position(P[a], LiquidityTypes, k) \in Nat
        BY <3>1, TokenPosition DEF LiquidityTypes
      <3> QED
        BY <1>5, <3>2 DEF Table, Positions
    <2>2. Ledger!Post(LiquidityPositions, a, k, tokens)[a][k] = LiquidityPositions[a][k] + tokens
      BY <1>5 DEF Ledger!Post, Ledger!Instruments, Instruments
    <2> QED
      BY <1>4, <2>1, <2>2, InvFacts
  <1>7. CASE StoreSettled(P, a)
    <2>1. IInv' /\ Ledger!Store(Table(P, CashTypes), Table(P, LiquidityTypes), a, TRUE)
      BY <1>4, <1>7, StoreSettledFacts
    <2>2. Ledger!Trade(a, k, f, tokens, TRUE)
      BY <1>4, <1>5, <1>6, <2>1, InvFacts DEF Ledger!Trade
    <2> QED
      BY <1>5, <2>1, <2>2 DEF Ledger!Next
  <1>8. CASE StoreUnsettled(P)
    <2>1. IInv' /\ Ledger!Store(Table(P, CashTypes), Table(P, LiquidityTypes), a, FALSE)
      BY <1>4, <1>8, StoreUnsettledFacts
    <2>2. Ledger!Trade(a, k, f, tokens, FALSE)
      BY <1>4, <1>5, <1>6, <2>1, InvFacts DEF Ledger!Trade
    <2> QED
      BY <1>5, <2>1, <2>2 DEF Ledger!Next
  <1> QED
    BY <1>2, <1>7, <1>8 DEF P

\* The two postings of a pair are the ledger's.
LEMMA MintStep ==
  ASSUME IInv, Mint
  PROVE  IInv' /\ Ledger!Next
  <1>1. PICK payer \in Accounts, receiver \in Accounts, g \in Groups, m \in Maturities,
             n \in Amounts : MintfCashPair(payer, receiver, g, m, n)
    BY DEF Mint
  <1> DEFINE x == Asset(g, m, CashPayer, n)
             y == Asset(g, m, CashReceiver, n)
             k == <<g, m>>
             A == accountAssets
  <1>2. PICK p \in UpsertAsset(A[payer], x, FALSE) :
          \E r \in UpsertAsset(Posted(A, payer, p)[receiver], y, FALSE) :
            StoreSettled(Posted(Posted(A, payer, p), receiver, r), payer)
    BY <1>1 DEF MintfCashPair, Posted
  <1> DEFINE P == Posted(A, payer, p)
  <1>3. PICK r \in UpsertAsset(P[receiver], y, FALSE) :
          StoreSettled(Posted(P, receiver, r), payer)
    BY <1>2
  <1> DEFINE R == Posted(P, receiver, r)
  <1>4. /\ n \in Nat /\ k \in Instruments /\ Ledger!Unmatured(k)
        /\ CashPayer \in CashTypes /\ CashReceiver \in CashTypes
        /\ CashPayer \in AssetTypes /\ CashReceiver \in AssetTypes
    BY <1>1, AmountsAssumption
    DEF MintfCashPair, Mintable, Instruments, Ledger!Unmatured, CashTypes, AssetTypes
  <1>5. /\ x \in Postings(Groups, Maturities) /\ InstrumentOf(x) = k
        /\ CashPart(x) = -n /\ TokenPart(x) = 0
        /\ y \in Postings(Groups, Maturities) /\ InstrumentOf(y) = k
        /\ CashPart(y) = n /\ TokenPart(y) = 0
    BY <1>4, AssetFacts
  <1>6. Sound(A)
    BY InvFacts
  <1> HIDE DEF x, y, k, A
  <1>7. /\ Sound(P)
        /\ Table(P, CashTypes) = Ledger!Post(Table(A, CashTypes), payer, k, -n)
        /\ Table(P, LiquidityTypes) = Table(A, LiquidityTypes)
    <2>1. Posting(A, P, payer, k, CashPart(x), TokenPart(x))
      BY <1>5, <1>6, UpsertPosts
    <2>2. Ledger!Post(Table(A, LiquidityTypes), payer, k, 0) = Table(A, LiquidityTypes)
      BY <1>6, PostNothing
    <2> HIDE DEF P
    <2> QED
      BY <1>5, <2>1, <2>2 DEF Posting
  <1> HIDE DEF P
  <1>8. /\ Sound(R)
        /\ Table(R, CashTypes) = Ledger!Post(Table(P, CashTypes), receiver, k, n)
        /\ Table(R, LiquidityTypes) = Table(P, LiquidityTypes)
    <2>1. Posting(P, R, receiver, k, CashPart(y), TokenPart(y))
      BY <1>3, <1>5, <1>7, UpsertPosts
    <2>2. Ledger!Post(Table(P, LiquidityTypes), receiver, k, 0) = Table(P, LiquidityTypes)
      BY <1>7, PostNothing
    <2> HIDE DEF R
    <2> QED
      BY <1>5, <2>1, <2>2 DEF Posting
  <1> HIDE DEF R
  <1>9. /\ IInv'
        /\ Ledger!Store(Table(R, CashTypes), Table(R, LiquidityTypes), payer, TRUE)
    BY <1>3, <1>8, StoreSettledFacts DEF R
  <1>10. Ledger!MintfCashPair(payer, receiver, k, n)
    BY <1>4, <1>7, <1>8, <1>9, InvFacts DEF Ledger!MintfCashPair, A
  <1> QED
    BY <1>4, <1>9, <1>10 DEF Ledger!Next, Ledger!Instruments, Instruments

\* Settling an account is the ledger's settlement.
LEMMA SettleStep ==
  ASSUME IInv, Settle
  PROVE  IInv' /\ Ledger!Next
  <1>1. PICK a \in Accounts : StoreSettled(accountAssets, a)
    BY DEF Settle, SettleMaturedAssets
  <1>2. /\ IInv'
        /\ Ledger!Store(Table(accountAssets, CashTypes), Table(accountAssets, LiquidityTypes),
                        a, TRUE)
    BY <1>1, InvFacts, StoreSettledFacts
  <1>3. Ledger!SettleMaturedAssets(a)
    BY <1>2, InvFacts DEF Ledger!SettleMaturedAssets
  <1> QED
    BY <1>2, <1>3 DEF Ledger!Next

\* Time passes for the ledger too.
LEMMA TickStep ==
  ASSUME IInv, Tick
  PROVE  IInv' /\ Ledger!Next
  <1>1. /\ blockTime < MaxTime /\ blockTime' = blockTime + 1 /\ accountAssets' = accountAssets
        /\ settledCash' = settledCash /\ redeemed' = redeemed
    BY DEF Tick
  <1>2. SoundState
    BY InvSound
  <1>3. SoundState'
    BY <1>1, <1>2, MaxTimeAssumption DEF SoundState
  <1>4. Ledger!Tick
    BY <1>1, PositionTables DEF Ledger!Tick
  <1> QED
    BY <1>3, <1>4, InvSound DEF Ledger!Next

\* transferAccountAsset takes n off the entitlement at i of p and leaves q.
Takes(p, g, m, type, n, i, q) ==
  /\ i = SearchAsset(p, Asset(g, m, type, n), FALSE) /\ i # NotFound /\ n <= p[i].notional
  /\ q = ReduceAsset(p, i, n)

\* The arrays P are those of the state with n taken off a position of a.
TakenOff(P, a, g, m, type, n) ==
  /\ Sound(P)
  /\ type = CashReceiver =>
       /\ n <= fCashPositions[a][<<g, m>>]
       /\ Table(P, CashTypes) = Ledger!Post(fCashPositions, a, <<g, m>>, -n)
       /\ Table(P, LiquidityTypes) = LiquidityPositions
  /\ type = LiquidityToken =>
       /\ n <= LiquidityPositions[a][<<g, m>>]
       /\ Table(P, LiquidityTypes) = Ledger!Post(LiquidityPositions, a, <<g, m>>, -n)
       /\ Table(P, CashTypes) = fCashPositions
       /\ g \notin AMMGroups => n = 0

\* An entitlement in an array is the account's position, and reducing it posts what is taken
\* off with the opposite sign.
LEMMA TransferFrom ==
  ASSUME IInv, NEW a \in Accounts, NEW g \in Groups, NEW m \in Maturities,
         NEW type \in AssetTypes, type \in {CashReceiver, LiquidityToken}, NEW n \in Amounts,
         NEW i, NEW q, Takes(accountAssets[a], g, m, type, n, i, q)
  PROVE  TakenOff(Posted(accountAssets, a, q), a, g, m, type, n)
  <1> DEFINE A == accountAssets
             p == A[a]
             y == Asset(g, m, type, n)
             x == Asset(g, m, MakeCounterparty(type), n)
             k == <<g, m>>
             e == p[i]
             P == Posted(A, a, q)
             side == IF type = CashReceiver THEN CashTypes ELSE TokenSide
  <1>1. /\ Sound(A) /\ n \in Nat /\ k \in Instruments
        /\ p \in Seq(Entries(Groups, Maturities)) /\ NoDuplicates(p) /\ Len(p) <= MaxAssets + 1
        /\ fCashPositions = Table(A, CashTypes) /\ LiquidityPositions = Table(A, LiquidityTypes)
    BY InvFacts, AmountsAssumption DEF Sound, SoundArray, Instruments
  <1>2. /\ type \in AssetTypes /\ MakeCounterparty(type) \in AssetTypes
        /\ MakeCounterparty(MakeCounterparty(type)) = type
        /\ type = CashReceiver => MakeCounterparty(type) = CashPayer
        /\ type = LiquidityToken => MakeCounterparty(type) = LiquidityPayer
    BY DEF MakeCounterparty, AssetTypes, CashPayer, CashReceiver, LiquidityToken, LiquidityPayer
  <1>3. /\ y \in Postings(Groups, Maturities) /\ x \in Postings(Groups, Maturities)
        /\ y.cashGroupId = g /\ x.cashGroupId = g /\ InstrumentOf(x) = k
        /\ y.maturity = m /\ x.maturity = m /\ y.assetType = type
        /\ x.assetType = MakeCounterparty(type) /\ x.notional = n
    <2>1. y.maturity = m /\ x.maturity = m /\ y.assetType = type /\ x.notional = n
      BY DEF Asset
    <2>2. x.assetType = MakeCounterparty(type)
      BY DEF Asset
    <2> QED
      BY <1>1, <1>2, <2>1, <2>2, AssetFacts
  <1>4. /\ type = CashReceiver => CashPart(x) = -n /\ TokenPart(x) = 0
        /\ type = LiquidityToken => CashPart(x) = 0 /\ TokenPart(x) = -n
    <2>1. CashPayer \in CashTypes /\ LiquidityPayer \in TokenSide
      BY DEF CashTypes, TokenSide
    <2> QED
      BY <1>1, <1>2, <2>1, AssetFacts
  <1>5. /\ i = SearchAsset(p, y, FALSE) /\ i # NotFound /\ n <= e.notional
        /\ q = ReduceAsset(p, i, n)
    BY DEF Takes
  <1> HIDE DEF x, y, k, p, A
  <1>6. i \in DOMAIN p /\ SameInstrument(e, y) /\ e.assetType = type
    <2> DEFINE h == SearchAsset(p, y, FALSE)
    <2>1. h # NotFound =>
            h \in DOMAIN p /\ SameInstrument(p[h], y) /\ p[h].assetType = y.assetType
      <3>1. p \in Seq(Entries(Groups, Maturities)) /\ y \in Postings(Groups, Maturities)
        BY <1>1, <1>3
      <3>2. Finds(p, y, FALSE, h)
        BY <3>1, SearchFacts
      <3> HIDE DEF h
      <3> QED
        BY <3>2 DEF Finds
    <2>2. h = i
      BY <1>5
    <2> HIDE DEF h
    <2> QED
      BY <1>3, <1>5, <2>1, <2>2
  <1>7. /\ e \in Entries(Groups, Maturities) /\ e.cashGroupId = g /\ e.maturity = m
        /\ Signed(e) = e.notional /\ e.notional \in Nat
    <2>1. e \in Entries(Groups, Maturities)
      <3>1. \A j \in DOMAIN p : p[j] \in Entries(Groups, Maturities)
        BY <1>1
      <3> QED
        BY <1>6, <3>1
    <2>2. e.cashGroupId = g /\ e.maturity = m
      BY <1>3, <1>6 DEF SameInstrument
    <2>3. Signed(e) = e.notional
      BY <1>6 DEF Signed, CashReceiver, CashPayer, LiquidityToken, LiquidityPayer
    <2> HIDE DEF e
    <2> QED
      BY <2>1, <2>2, <2>3 DEF Entries
  <1>8. /\ Adds(Groups, Maturities, p, x, q) /\ Len(q) <= MaxAssets + 1
    <2>1. /\ SameInstrument(p[i], x) /\ p[i].assetType = MakeCounterparty(x.assetType)
          /\ x.notional <= p[i].notional
      BY <1>2, <1>3, <1>5, <1>6, <1>7 DEF SameInstrument
    <2>2. /\ Adds(Groups, Maturities, p, x, ReduceAsset(p, i, x.notional))
          /\ Len(ReduceAsset(p, i, x.notional)) <= Len(p)
      BY <1>1, <1>3, <1>6, <2>1, ReduceAdds
    <2>3. Adds(Groups, Maturities, p, x, q) /\ Len(q) <= Len(p)
      BY <1>3, <1>5, <2>2
    <2>4. q \in Seq(Entries(Groups, Maturities))
      BY <2>3 DEF Adds
    <2>5. Len(q) \in Nat /\ Len(p) \in Nat /\ Len(p) <= MaxAssets + 1
      BY <1>1, <2>4
    <2>6. Len(q) <= MaxAssets + 1
      BY <2>3, <2>5, MaxAssetsAssumption
    <2> QED
      BY <2>3, <2>6
  <1>9. Position(p, side, k) = e.notional
    <2>1. side \in Sides /\ e.assetType \in side
      BY <1>6 DEF Sides, CashTypes, TokenSide
    <2>2. Position(p, side, <<p[i].cashGroupId, p[i].maturity>>) = Signed(p[i])
      <3> HIDE DEF side
      <3> QED
        BY <1>1, <1>6, <2>1, OnlyEntry
    <2> QED
      BY <1>7, <2>2 DEF k
  <1>10. /\ type = CashReceiver => fCashPositions[a][k] = e.notional
         /\ type = LiquidityToken => LiquidityPositions[a][k] = e.notional
    <2>1. /\ fCashPositions[a][k] = Position(p, CashTypes, k)
          /\ LiquidityPositions[a][k] = Position(p, LiquidityTypes, k)
      BY <1>1 DEF Table, Positions, p
    <2>2. Position(p, LiquidityTypes, k) = Position(p, TokenSide, k)
      BY <1>1, TokenPosition DEF LiquidityTypes, TokenSide
    <2>3. LiquidityToken # CashReceiver
      BY DEF LiquidityToken, CashReceiver
    <2> QED
      BY <1>9, <2>1, <2>2, <2>3
  <1>11. g \notin AMMGroups /\ type = LiquidityToken => n = 0
    <2>1. g \notin AMMGroups => LiquidityPositions[a][k] = 0
      <3>1. k[1] = g
        BY DEF k
      <3> QED
        BY <1>1, <3>1 DEF IInv, TokensInMarketsOnly
    <2> SUFFICES ASSUME g \notin AMMGroups, type = LiquidityToken
                 PROVE  n = 0
      OBVIOUS
    <2>2. e.notional = 0
      BY <1>10, <2>1
    <2>3. n <= 0 /\ n \in Nat
      BY <1>1, <1>5, <2>2
    <2> QED
      BY <2>3
  <1>12. TokenPart(x) = 0 \/ x.cashGroupId \in AMMGroups
    <2>1. n = 0 => -n = 0
      <3> DEFINE back == -n
      <3>1. back \in Int /\ n + back = 0
        BY <1>1
      <3> HIDE DEF back
      <3>2. n = 0 => back = 0
        BY <3>1
      <3> QED
        BY <3>2 DEF back
    <2> QED
      BY <1>3, <1>4, <1>11, <2>1
  <1>13. /\ Sound(P)
         /\ Table(P, CashTypes) = Ledger!Post(fCashPositions, a, k, CashPart(x))
         /\ Table(P, LiquidityTypes) = Ledger!Post(LiquidityPositions, a, k, TokenPart(x))
    <2>1. Adds(Groups, Maturities, A[a], x, q)
      BY <1>8 DEF p
    <2>2. Posting(A, P, a, InstrumentOf(x), CashPart(x), TokenPart(x))
      BY <1>1, <1>3, <1>8, <1>12, <2>1, PostingFacts
    <2> HIDE DEF P
    <2> QED
      BY <1>1, <1>3, <2>2 DEF Posting
  <1>14. /\ Ledger!Post(fCashPositions, a, k, 0) = fCashPositions
         /\ Ledger!Post(LiquidityPositions, a, k, 0) = LiquidityPositions
    BY <1>1, PostNothing
  <1> HIDE DEF P
  <1>15. type = CashReceiver =>
              /\ n <= fCashPositions[a][k]
              /\ Table(P, CashTypes) = Ledger!Post(fCashPositions, a, k, -n)
              /\ Table(P, LiquidityTypes) = LiquidityPositions
    BY <1>4, <1>5, <1>10, <1>13, <1>14
  <1>16. type = LiquidityToken =>
              /\ n <= LiquidityPositions[a][k]
              /\ Table(P, LiquidityTypes) = Ledger!Post(LiquidityPositions, a, k, -n)
              /\ Table(P, CashTypes) = fCashPositions
    BY <1>4, <1>5, <1>10, <1>13, <1>14
  <1> QED
    BY <1>11, <1>13, <1>15, <1>16 DEF P, k, A, TakenOff

\* A transfer is one of the ledger's; of no tokens, of a group without a market, it only settles.
LEMMA TransferStep ==
  ASSUME IInv, Transfer
  PROVE  IInv' /\ Ledger!Next
  <1>1. PICK from \in Accounts, to \in Accounts, g \in Groups, m \in Maturities,
             type \in AssetTypes, n \in Amounts :
               TransferAccountAsset(from, to, Asset(g, m, type, n))
    BY DEF Transfer
  <1> DEFINE A == accountAssets
             y == Asset(g, m, type, n)
             k == <<g, m>>
             i == SearchAsset(A[from], y, FALSE)
             q == ReduceAsset(A[from], i, n)
             P == Posted(A, from, q)
  <1>2. y.assetType = type /\ y.maturity = m /\ y.notional = n
    BY DEF Asset
  <1>3. /\ IsReceiver(type) /\ blockTime < m /\ i # NotFound /\ n <= A[from][i].notional
        /\ \E r \in UpsertAsset(P[to], y, FALSE) : StoreSettled(Posted(P, to, r), from)
    <2> HIDE DEF y
    <2> QED
      BY <1>1, <1>2 DEF TransferAccountAsset, Posted, y
  <1>4. PICK r \in UpsertAsset(P[to], y, FALSE) : StoreSettled(Posted(P, to, r), from)
    BY <1>3
  <1> DEFINE R == Posted(P, to, r)
  <1>5. type \in {CashReceiver, LiquidityToken}
    BY <1>3 DEF IsReceiver
  <1>6. /\ n \in Nat /\ k \in Instruments /\ Ledger!Unmatured(k)
        /\ CashReceiver \in CashTypes /\ LiquidityToken \in TokenSide
        /\ CashReceiver # LiquidityToken
    BY <1>3, AmountsAssumption
    DEF Instruments, Ledger!Unmatured, CashTypes, TokenSide, CashReceiver, LiquidityToken
  <1>7. /\ Sound(P)
        /\ type = CashReceiver =>
             /\ n <= fCashPositions[from][k]
             /\ Table(P, CashTypes) = Ledger!Post(fCashPositions, from, k, -n)
             /\ Table(P, LiquidityTypes) = LiquidityPositions
        /\ type = LiquidityToken =>
             /\ n <= LiquidityPositions[from][k]
             /\ Table(P, LiquidityTypes) = Ledger!Post(LiquidityPositions, from, k, -n)
             /\ Table(P, CashTypes) = fCashPositions
             /\ g \notin AMMGroups => n = 0
    <2>1. Takes(accountAssets[from], g, m, type, n, i, q)
      BY <1>3 DEF Takes
    <2> HIDE DEF i, q
    <2>2. TakenOff(P, from, g, m, type, n)
      BY <1>5, <2>1, TransferFrom
    <2> HIDE DEF P
    <2> QED
      BY <2>2 DEF TakenOff
  <1>8. /\ y \in Postings(Groups, Maturities) /\ InstrumentOf(y) = k /\ y.cashGroupId = g
        /\ type = CashReceiver => CashPart(y) = n /\ TokenPart(y) = 0
        /\ type = LiquidityToken => CashPart(y) = 0 /\ TokenPart(y) = n
    BY <1>6, AssetFacts
  <1> HIDE DEF y, i, q, P
  <1>9. TokenPart(y) = 0 \/ y.cashGroupId \in AMMGroups
    BY <1>5, <1>7, <1>8
  <1>10. /\ Sound(R)
         /\ Table(R, CashTypes) = Ledger!Post(Table(P, CashTypes), to, k, CashPart(y))
         /\ Table(R, LiquidityTypes) = Ledger!Post(Table(P, LiquidityTypes), to, k, TokenPart(y))
    <2>1. Posting(P, R, to, InstrumentOf(y), CashPart(y), TokenPart(y))
      BY <1>4, <1>7, <1>8, <1>9, UpsertPosts
    <2> QED
      BY <1>8, <2>1 DEF Posting
  <1>11. /\ Ledger!Post(Table(P, CashTypes), to, k, 0) = Table(P, CashTypes)
         /\ Ledger!Post(Table(P, LiquidityTypes), to, k, 0) = Table(P, LiquidityTypes)
    BY <1>7, PostNothing
  <1> HIDE DEF R, k
  <1>12. /\ IInv'
         /\ Ledger!Store(Table(R, CashTypes), Table(R, LiquidityTypes), from, TRUE)
    BY <1>4, <1>10, StoreSettledFacts DEF R
  <1>13. CASE type = CashReceiver
    <2>1. /\ Table(R, CashTypes)
               = Ledger!Post(Ledger!Post(fCashPositions, from, k, -n), to, k, n)
          /\ Table(R, LiquidityTypes) = LiquidityPositions
      BY <1>7, <1>8, <1>10, <1>11, <1>13
    <2>2. Ledger!TransferfCash(from, to, k, n)
      BY <1>6, <1>7, <1>12, <1>13, <2>1 DEF Ledger!TransferfCash
    <2> QED
      BY <1>6, <1>12, <2>2 DEF Ledger!Next, Ledger!Instruments, Instruments
  <1>14. CASE type = LiquidityToken
    <2>1. /\ Table(R, LiquidityTypes)
               = Ledger!Post(Ledger!Post(LiquidityPositions, from, k, -n), to, k, n)
          /\ Table(R, CashTypes) = fCashPositions
      BY <1>7, <1>8, <1>10, <1>11, <1>14
    <2>2. CASE g \in AMMGroups
      <3>1. Ledger!TransferLiquidity(from, to, k, n)
        BY <1>6, <1>7, <1>12, <1>14, <2>1 DEF Ledger!TransferLiquidity
      <3>2. k \in AMMGroups \X Maturities
        BY <2>2 DEF k
      <3> QED
        BY <1>12, <3>1, <3>2 DEF Ledger!Next
    <2>3. CASE g \notin AMMGroups
      <3>1. n = 0 /\ TokenPart(y) = 0
        BY <1>7, <1>8, <1>14, <2>3
      <3>2. -n = 0
        <4> DEFINE back == -n
        <4>1. back \in Int /\ n + back = 0
          BY <1>6
        <4> HIDE DEF back
        <4>2. back = 0
          BY <3>1, <4>1
        <4> QED
          BY <4>2 DEF back
      <3>3. Ledger!Post(LiquidityPositions, from, k, 0) = LiquidityPositions
        BY InvFacts, PostNothing
      <3>4. Table(R, LiquidityTypes) = LiquidityPositions
        BY <1>7, <1>10, <1>11, <1>14, <3>1, <3>2, <3>3
      <3>5. Ledger!SettleMaturedAssets(from)
        BY <1>12, <2>1, <3>4 DEF Ledger!SettleMaturedAssets
      <3> QED
        BY <1>12, <3>5 DEF Ledger!Next
    <2> QED
      BY <2>2, <2>3
  <1> QED
    BY <1>5, <1>13, <1>14

(****************************************************************************)
(* The theorems.                                                            *)
(****************************************************************************)

\* The empty arrays are an initial state of the ledger.
LEMMA InitFacts ==
  ASSUME Init
  PROVE  IInv /\ Ledger!Init
  <1>1. \A types : Positions(<< >>, types) = [k \in Instruments |-> 0]
    BY EmptyPosition DEF Positions
  <1>2. SoundArray(<< >>)
    <2>1. Len(<< >>) <= MaxAssets + 1
      BY MaxAssetsAssumption
    <2>2. << >> \in Seq(Entries(Groups, Maturities)) /\ NoDuplicates(<< >>)
      BY DEF NoDuplicates
    <2> QED
      BY <2>1, <2>2, EmptyPosition DEF SoundArray
  <1>3. Sound(accountAssets)
    <2>1. << >> \in Seq(Entries(Groups, Maturities))
      OBVIOUS
    <2>2. accountAssets = [a \in Accounts |-> << >>]
      BY DEF Init
    <2> QED
      BY <1>2, <2>1, <2>2 DEF Sound
  <1>4. SoundState
    <2>1. 0 \in 0 .. MaxTime
      BY MaxTimeAssumption
    <2> QED
      BY <1>1, <1>3, <2>1 DEF SoundState, Init
  <1>5. Ledger!Init
    <2>1. /\ fCashPositions = [a \in Accounts |-> [k \in Instruments |-> 0]]
          /\ LiquidityPositions = [a \in Accounts |-> [k \in Instruments |-> 0]]
          /\ settledCash = [a \in Accounts |-> [k \in Instruments |-> 0]]
          /\ redeemed = [a \in Accounts |-> [k \in Instruments |-> 0]]
          /\ blockTime = 0
      BY <1>1 DEF Init, fCashPositions, LiquidityPositions
    <2> QED
      BY <2>1 DEF Ledger!Init, Ledger!Instruments, Instruments
  <1> QED
    BY <1>4, <1>5, InvSound

\* A step of the contract is a step of the ledger, or stutters.
LEMMA StepFacts ==
  ASSUME IInv, [Next]_vars
  PROVE  IInv' /\ [Ledger!Next]_Ledger!vars
  <1>1. CASE Tick
    BY <1>1, TickStep
  <1>2. CASE MarketCall
    BY <1>2, MarketCallStep
  <1>3. CASE Transfer
    BY <1>3, TransferStep
  <1>4. CASE Mint
    BY <1>4, MintStep
  <1>5. CASE Settle
    BY <1>5, SettleStep
  <1>6. CASE UNCHANGED vars
    <2>1. /\ blockTime' = blockTime /\ accountAssets' = accountAssets
          /\ settledCash' = settledCash /\ redeemed' = redeemed
      BY <1>6 DEF vars
    <2>2. SoundState'
      BY <2>1, InvSound DEF SoundState
    <2>3. UNCHANGED Ledger!vars
      BY <2>1, PositionTables DEF Ledger!vars
    <2> QED
      BY <2>2, <2>3, InvSound
  <1> QED
    BY <1>1, <1>2, <1>3, <1>4, <1>5, <1>6 DEF Next

\* IInv is an invariant of the specification.
LEMMA Inductive == Spec => []IInv
  <1>1. Init => IInv
    BY InitFacts
  <1>2. IInv /\ [Next]_vars => IInv'
    BY StepFacts
  <1> QED
    BY <1>1, <1>2, PTL DEF Spec

\* Portfolios.sol keeps every array an array of assets of the groups, at most one longer than
\* G_MAX_ASSETS.
THEOREM PortfoliosTypeCorrect == Spec => []TypeOK
  <1>1. IInv => TypeOK
    BY DEF IInv
  <1> QED
    BY <1>1, Inductive, PTL

\* No sequence of upserts, transfers and settlements leaves an account two entries for a side of
\* an instrument, of which _searchAsset would find the first only.
THEOREM OneEntryPerSide == Spec => []NoDuplicateEntries
  <1>1. IInv => NoDuplicateEntries
    BY DEF IInv
  <1> QED
    BY <1>1, Inductive, PTL

\* Whatever the order in which entries are appended, aggregated, netted, flipped, swapped out and
\* settled, the arrays change the accounts' positions as the ledger of positions says.
THEOREM ArraysImplementLedger == Spec => ImplementsLedger
  <1>1. Init => Ledger!Init
    BY InitFacts
  <1>2. IInv /\ [Next]_vars => [Ledger!Next]_Ledger!vars
    BY StepFacts
  <1> QED
    BY <1>1, <1>2, Inductive, PTL DEF Spec, ImplementsLedger, Ledger!Spec
=============================================================================
