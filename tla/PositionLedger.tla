---------------------------- MODULE PositionLedger ----------------------------
(****************************************************************************)
(* What Portfolios promises, without arrays: every account has one signed   *)
(* position per instrument, a cash group and a maturity, in fCash and one   *)
(* in liquidity tokens.  Calls post amounts to positions; settlement turns every matured *)
(* fCash position of an account into cash of the same amount and redeems    *)
(* its matured liquidity tokens.                                            *)
(****************************************************************************)
EXTENDS Integers

CONSTANTS
  Accounts,
  Groups,           \* cash group ids
  AMMGroups,        \* the groups with a cash market
  Maturities,
  Amounts           \* the amounts that calls post

Instruments == Groups \X Maturities

VARIABLES
  blockTime,
  fCash,            \* account, instrument -> net fCash
  liquidity,        \* account, instrument -> liquidity tokens
  settledCash,      \* account, instrument -> cash its matured fCash has become
  redeemed          \* account, instrument -> matured tokens it handed in

vars == <<blockTime, fCash, liquidity, settledCash, redeemed>>

Init ==
  LET zero == [a \in Accounts |-> [k \in Instruments |-> 0]]
  IN  /\ blockTime = 0
      /\ fCash = zero /\ liquidity = zero
      /\ settledCash = zero /\ redeemed = zero

Matured(k)   == k[2] <= blockTime
Unmatured(k) == blockTime < k[2]

\* A position table with n added to one entry.
Post(positions, a, k, n) ==
  [b \in Accounts |-> [j \in Instruments |->
     positions[b][j] + IF b = a /\ j = k THEN n ELSE 0]]

\* A position table with account a's matured entries cleared.
Clear(positions, a) ==
  [b \in Accounts |-> [k \in Instruments |->
     IF b = a /\ Matured(k) THEN 0 ELSE positions[b][k]]]

\* What the accounts have received for their positions, with a's matured ones
\* added.
Collect(received, positions, a) ==
  [b \in Accounts |-> [k \in Instruments |->
     received[b][k] + IF b = a /\ Matured(k) THEN positions[b][k] ELSE 0]]

\* Given the positions after a call's postings, store them, with account a
\* settled or not.
Store(fCashPosted, liquidityPosted, a, settles) ==
  IF settles
  THEN /\ fCash' = Clear(fCashPosted, a)
       /\ liquidity' = Clear(liquidityPosted, a)
       /\ settledCash' = Collect(settledCash, fCashPosted, a)
       /\ redeemed' = Collect(redeemed, liquidityPosted, a)
       /\ UNCHANGED blockTime
  ELSE /\ fCash' = fCashPosted
       /\ liquidity' = liquidityPosted
       /\ UNCHANGED <<blockTime, settledCash, redeemed>>

\* A market posts to one account's positions in one unmatured instrument;
\* its liquidity tokens never go below zero.
Trade(a, k, f, tokens, settles) ==
  /\ Unmatured(k)
  /\ liquidity[a][k] + tokens >= 0
  /\ Store(Post(fCash, a, k, f), Post(liquidity, a, k, tokens), a, settles)

\* An entitlement that from really has moves to another account.
TransferfCash(from, to, k, n) ==
  /\ Unmatured(k)
  /\ n <= fCash[from][k]
  /\ Store(Post(Post(fCash, from, k, -n), to, k, n), liquidity, from, TRUE)

TransferLiquidity(from, to, k, n) ==
  /\ Unmatured(k)
  /\ n <= liquidity[from][k]
  /\ Store(fCash, Post(Post(liquidity, from, k, -n), to, k, n), from, TRUE)

\* A payer and a receiver take opposite positions.
MintfCashPair(payer, receiver, k, n) ==
  /\ Unmatured(k)
  /\ Store(Post(Post(fCash, payer, k, -n), receiver, k, n), liquidity, payer, TRUE)

SettleMaturedAssets(a) == Store(fCash, liquidity, a, TRUE)

Tick ==
  /\ blockTime' = blockTime + 1
  /\ UNCHANGED <<fCash, liquidity, settledCash, redeemed>>

\* What a trade posts in fCash or in tokens: an amount, either way, or nothing.
SignedAmounts == {0} \cup Amounts \cup {-n : n \in Amounts}

Next ==
  \/ Tick
  \/ \E a \in Accounts : SettleMaturedAssets(a)
  \/ \E a \in Accounts, k \in AMMGroups \X Maturities, f, tokens \in SignedAmounts,
        settles \in BOOLEAN : Trade(a, k, f, tokens, settles)
  \/ \E x, y \in Accounts, k \in AMMGroups \X Maturities, n \in Amounts :
        TransferLiquidity(x, y, k, n)
  \/ \E x, y \in Accounts, k \in Instruments, n \in Amounts :
        TransferfCash(x, y, k, n) \/ MintfCashPair(x, y, k, n)

Spec == Init /\ [][Next]_vars
=============================================================================
