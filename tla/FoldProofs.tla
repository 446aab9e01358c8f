------------------------------ MODULE FoldProofs ------------------------------
(****************************************************************************)
(* Induction on natural numbers and what the folds of the library compute.  *)
(* The induction theorems of the library take the property as an operator,  *)
(* which the provers cannot instantiate; here it is the set of the numbers  *)
(* that have it.                                                            *)
(****************************************************************************)
EXTENDS SequencesExt, FiniteSetTheorems, TLAPS

\* Every non-empty set of naturals has a least element.
LEMMA LeastNatural ==
  ASSUME NEW T \in SUBSET Nat, T # {}
  PROVE  \E n \in T : \A m \in T : n <= m
  <1> DEFINE R == OpToRel(<, Nat)
  <1>1. IsWellFoundedOn(R, Nat)
    BY NatLessThanWellFounded
  <1>2. \A x, y \in Nat : x < y => <<x, y>> \in R
    BY DEF OpToRel
  <1> HIDE DEF R
  <1>3. PICK x \in T : \A y \in T : ~(<<y, x>> \in R)
    BY <1>1, WFMin
  <1>4. \A y \in T : ~(y < x)
    BY <1>2, <1>3
  <1>5. \A y \in T : x \in Int /\ y \in Int
    OBVIOUS
  <1>6. \A y \in T : x <= y
    BY <1>4, <1>5
  <1> QED
    BY <1>6

\* A set that has 0 and with each number the next has all of them.
LEMMA NaturalInduction ==
  ASSUME NEW T, 0 \in T, \A n \in Nat : n \in T => n + 1 \in T
  PROVE  \A n \in Nat : n \in T
  <1> SUFFICES ASSUME Nat \ T # {} PROVE FALSE
    OBVIOUS
  <1>1. PICK n \in Nat \ T : \A m \in Nat \ T : n <= m
    BY LeastNatural
  <1>2. n # 0 /\ n - 1 \in Nat /\ n - 1 \notin Nat \ T
    BY <1>1
  <1> QED
    BY <1>1, <1>2

(****************************************************************************)
(* Folds.  A fold over a finite set D, which takes out of each set s the    *)
(* element c[s] and combines it by g with the fold of the rest, is well     *)
(* defined: it can be tabulated for the sets of at most n elements, for     *)
(* every n.                                                                 *)
(****************************************************************************)
UpTo(D, n) == {s \in SUBSET D : Cardinality(s) <= n}

IsFold(F, D, base, c, g) ==
  \A s \in SUBSET D : F[s] = IF s = {} THEN base ELSE g[<<c[s], F[s \ {c[s]}]>>]

\* Such a fold exists, with values in V if base and the results of g are.
LEMMA FoldExists ==
  ASSUME NEW D, IsFiniteSet(D), NEW V, NEW base \in V,
         NEW c, \A s \in SUBSET D : s # {} => c[s] \in s,
         NEW g \in [D \X V -> V]
  PROVE  \E F \in [SUBSET D -> V] : IsFold(F, D, base, c, g)
  <1> DEFINE Step(F, s) == IF s = {} THEN base ELSE g[<<c[s], F[s \ {c[s]}]>>]
             Table(n) == {F \in [UpTo(D, n) -> V] : \A s \in UpTo(D, n) : F[s] = Step(F, s)}
             T == {n \in Nat : Table(n) # {}}
  <1> HIDE DEF Step, Table, T
  <1>1. \A s \in SUBSET D : /\ IsFiniteSet(s) /\ Cardinality(s) \in Nat
                            /\ Cardinality(s) <= Cardinality(D)
                            /\ Cardinality(s) = 0 <=> s = {}
    BY FS_Subset, FS_CardinalityType, FS_EmptySet
  <1>2. \A s \in SUBSET D : s # {} => /\ s \ {c[s]} \in SUBSET D
                                      /\ Cardinality(s \ {c[s]}) = Cardinality(s) - 1
    BY <1>1, FS_RemoveElement
  <1>3. 0 \in T
    <2> DEFINE F == [s \in UpTo(D, 0) |-> base]
    <2>1. \A s \in UpTo(D, 0) : s = {}
      BY <1>1 DEF UpTo
    <2>2. F \in Table(0)
      BY <2>1 DEF Table, Step
    <2> QED
      BY <2>2 DEF T
  <1>4. ASSUME NEW n \in Nat, n \in T
        PROVE  n + 1 \in T
    <2>1. PICK F : F \in Table(n)
      BY <1>4 DEF T
    <2> DEFINE G == [s \in UpTo(D, n + 1) |-> Step(F, s)]
    <2> HIDE DEF G
    <2>2. ASSUME NEW s \in UpTo(D, n + 1), s # {}
          PROVE  s \ {c[s]} \in UpTo(D, n)
      <3>1. s \in SUBSET D /\ Cardinality(s) <= n + 1
        BY DEF UpTo
      <3>2. Cardinality(s) \in Nat
        BY <1>1, <3>1
      <3>3. s \ {c[s]} \in SUBSET D /\ Cardinality(s \ {c[s]}) = Cardinality(s) - 1
        BY <1>2, <2>2, <3>1
      <3>4. Cardinality(s \ {c[s]}) <= n
        BY <3>1, <3>2, <3>3
      <3> QED
        BY <3>3, <3>4 DEF UpTo
    <2>3. ASSUME NEW s \in UpTo(D, n)
          PROVE  s \in UpTo(D, n + 1)
      <3>1. s \in SUBSET D /\ Cardinality(s) <= n
        BY DEF UpTo
      <3>2. Cardinality(s) \in Nat
        BY <1>1, <3>1
      <3>3. Cardinality(s) <= n + 1
        BY <3>1, <3>2
      <3> QED
        BY <3>1, <3>3 DEF UpTo
    <2>4. \A s \in UpTo(D, n) : F[s] = Step(F, s) /\ F[s] \in V
      BY <2>1 DEF Table
    <2>5. \A s \in UpTo(D, n + 1) : s # {} => c[s] \in D
      BY DEF UpTo
    <2>6. \A s \in UpTo(D, n + 1) : Step(F, s) \in V
      BY <2>2, <2>4, <2>5 DEF Step
    <2>7. G \in [UpTo(D, n + 1) -> V]
      BY <2>6 DEF G
    <2>8. \A s \in UpTo(D, n) : G[s] = F[s]
      BY <2>3, <2>4 DEF G
    <2>9. \A s \in UpTo(D, n + 1) : G[s] = Step(G, s)
      BY <2>2, <2>8 DEF G, Step
    <2>10. G \in Table(n + 1)
      BY <2>7, <2>9 DEF Table
    <2> QED
      BY <2>10 DEF T
  <1>5. Cardinality(D) \in T
    BY <1>1, <1>3, <1>4, NaturalInduction
  <1>6. UpTo(D, Cardinality(D)) = SUBSET D
    BY <1>1 DEF UpTo
  <1>7. PICK F : F \in Table(Cardinality(D))
    BY <1>5 DEF T
  <1> QED
    BY <1>6, <1>7 DEF Table, Step, IsFold

(****************************************************************************)
(* Sums over a finite set, by MapThenSumSet.                                *)
(****************************************************************************)
SumOf(f, S) == MapThenSumSet(LAMBDA x : f[x], S)

Some(s) == CHOOSE x \in s : TRUE

\* A family of subsets of S that has the empty set, and any set if it has those with one element
\* fewer, has all of them.
LEMMA RemovalInduction ==
  ASSUME NEW S, IsFiniteSet(S), NEW T, {} \in T,
         \A s \in SUBSET S : s # {} /\ (\A x \in s : s \ {x} \in T) => s \in T
  PROVE  S \in T
  <1> DEFINE N == {n \in Nat : \A s \in SUBSET S : Cardinality(s) <= n => s \in T}
  <1> HIDE DEF N
  <1>1. \A s \in SUBSET S : /\ IsFiniteSet(s) /\ Cardinality(s) \in Nat
                            /\ Cardinality(s) = 0 <=> s = {}
    <2>1. \A s \in SUBSET S : IsFiniteSet(s)
      BY FS_Subset
    <2> QED
      BY <2>1, FS_CardinalityType, FS_EmptySet
  <1>2. 0 \in N
    <2>1. ASSUME NEW s \in SUBSET S, Cardinality(s) <= 0
          PROVE  s \in T
      <3>1. Cardinality(s) \in Nat /\ (Cardinality(s) = 0 <=> s = {})
        BY <1>1
      <3>2. s = {}
        BY <2>1, <3>1
      <3> QED
        BY <3>2
    <2> QED
      BY <2>1 DEF N
  <1>3. ASSUME NEW n \in Nat, n \in N
        PROVE  n + 1 \in N
    <2> SUFFICES ASSUME NEW s \in SUBSET S, Cardinality(s) <= n + 1
                 PROVE  s \in T
      BY DEF N
    <2>1. ASSUME NEW x \in s
          PROVE  s \ {x} \in T
      <3>1. s \ {x} \in SUBSET S /\ Cardinality(s \ {x}) = Cardinality(s) - 1
        BY <1>1, FS_RemoveElement
      <3>2. Cardinality(s \ {x}) <= n
        BY <1>1, <3>1
      <3> QED
        BY <1>3, <3>1, <3>2 DEF N
    <2>2. CASE s = {}
      BY <2>2
    <2>3. CASE s # {}
      BY <2>1, <2>3
    <2> QED
      BY <2>2, <2>3
  <1>4. Cardinality(S) \in N /\ Cardinality(S) \in Nat
    BY <1>1, <1>2, <1>3, NaturalInduction
  <1> QED
    BY <1>4 DEF N

\* The same where it is always the same element of a set that is left out.
LEMMA SubsetInduction ==
  ASSUME NEW S, IsFiniteSet(S), NEW T, {} \in T,
         \A s \in SUBSET S : s # {} /\ s \ {Some(s)} \in T => s \in T
  PROVE  S \in T
  <1>1. ASSUME NEW s \in SUBSET S, s # {}, \A x \in s : s \ {x} \in T
        PROVE  s \in T
    <2>1. Some(s) \in s
      BY <1>1 DEF Some
    <2> QED
      BY <1>1, <2>1
  <1> QED
    BY <1>1, RemovalInduction

\* A sum is the last entry of a table of the sums over the subsets of S, in which each set
\* but the empty one adds one element to a smaller one, the same in the table of every f.
IsSumTable(F, f, S) ==
  F = [s \in SUBSET S |-> IF s = {} THEN 0 ELSE f[Some(s)] + F[s \ {Some(s)}]]

\* A sum has such a table.
LEMMA SumTable ==
  ASSUME NEW S, IsFiniteSet(S), NEW f \in [S -> Int]
  PROVE  \E F : IsSumTable(F, f, S) /\ SumOf(f, S) = F[S]
  <1> DEFINE c == [s \in SUBSET S |-> Some(s)]
             g == [p \in S \X Int |-> f[p[1]] + p[2]]
  <1>1. \A s \in SUBSET S : s # {} => Some(s) \in s
    BY DEF Some
  <1>2. PICK F \in [SUBSET S -> Int] : IsFold(F, S, 0, c, g)
    <2>1. g \in [S \X Int -> Int]
      OBVIOUS
    <2>2. \A s \in SUBSET S : s # {} => c[s] \in s
      BY <1>1
    <2>3. 0 \in Int
      OBVIOUS
    <2> HIDE DEF g, c
    <2> QED
      BY <2>1, <2>2, <2>3, FoldExists
  <1>3. \A s \in SUBSET S : F[s] = IF s = {} THEN 0 ELSE f[Some(s)] + F[s \ {Some(s)}]
    <2> SUFFICES ASSUME NEW s \in SUBSET S, s # {}
                 PROVE  g[<<c[s], F[s \ {c[s]}]>>] = f[Some(s)] + F[s \ {Some(s)}]
      BY <1>2 DEF IsFold
    <2>1. c[s] = Some(s) /\ Some(s) \in S /\ F[s \ {Some(s)}] \in Int
      BY <1>1
    <2> QED
      BY <2>1
  <1>4. IsSumTable(F, f, S)
    BY <1>3 DEF IsSumTable
  <1>5. SumOf(f, S) = (CHOOSE G : IsSumTable(G, f, S))[S]
    BY DEF SumOf, MapThenSumSet, MapThenFoldSet, Some, IsSumTable
  <1> QED
    BY <1>4, <1>5

\* A sum of integers is one; it is zero if all of them are.
LEMMA SumType ==
  ASSUME NEW S, IsFiniteSet(S), NEW f \in [S -> Int]
  PROVE  /\ SumOf(f, S) \in Int
         /\ (\A x \in S : f[x] = 0) => SumOf(f, S) = 0
  <1>1. PICK F : IsSumTable(F, f, S) /\ SumOf(f, S) = F[S]
    BY SumTable
  <1> DEFINE T == {s \in SUBSET S : F[s] \in Int /\ ((\A x \in S : f[x] = 0) => F[s] = 0)}
  <1> HIDE DEF T
  <1>2. {} \in T
    BY <1>1 DEF T, IsSumTable
  <1>3. ASSUME NEW s \in SUBSET S, s # {}, s \ {Some(s)} \in T
        PROVE  s \in T
    <2>1. Some(s) \in S
      BY <1>3 DEF Some
    <2>2. f[Some(s)] \in Int /\ F[s \ {Some(s)}] \in Int
      BY <1>3, <2>1 DEF T
    <2>3. F[s] = f[Some(s)] + F[s \ {Some(s)}]
      BY <1>1, <1>3 DEF IsSumTable
    <2> QED
      BY <1>3, <2>1, <2>2, <2>3 DEF T
  <1>4. S \in T
    BY <1>2, <1>3, SubsetInduction
  <1> QED
    BY <1>1, <1>4 DEF T

\* A sum of naturals is one.
LEMMA SumNat ==
  ASSUME NEW S, IsFiniteSet(S), NEW f \in [S -> Nat]
  PROVE  SumOf(f, S) \in Nat
  <1>1. PICK F : IsSumTable(F, f, S) /\ SumOf(f, S) = F[S]
    <2>1. f \in [S -> Int]
      OBVIOUS
    <2> QED
      BY <2>1, SumTable
  <1> DEFINE T == {s \in SUBSET S : F[s] \in Nat}
  <1> HIDE DEF T
  <1>2. {} \in T
    BY <1>1 DEF T, IsSumTable
  <1>3. ASSUME NEW s \in SUBSET S, s # {}, s \ {Some(s)} \in T
        PROVE  s \in T
    <2>1. Some(s) \in S
      BY <1>3 DEF Some
    <2>2. f[Some(s)] \in Nat /\ F[s \ {Some(s)}] \in Nat
      BY <1>3, <2>1 DEF T
    <2>3. F[s] = f[Some(s)] + F[s \ {Some(s)}]
      BY <1>1, <1>3 DEF IsSumTable
    <2> QED
      BY <2>2, <2>3 DEF T
  <1>4. S \in T
    BY <1>2, <1>3, SubsetInduction
  <1> QED
    BY <1>1, <1>4 DEF T

\* Adding n to one of the terms adds n to the sum.
LEMMA SumAdd ==
  ASSUME NEW S, IsFiniteSet(S), NEW f \in [S -> Int], NEW h \in S, NEW n \in Int
  PROVE  SumOf([f EXCEPT ![h] = @ + n], S) = SumOf(f, S) + n
  <1> DEFINE e == [f EXCEPT ![h] = @ + n]
  <1>1. e \in [S -> Int] /\ e[h] = f[h] + n /\ \A x \in S : x # h => e[x] = f[x]
    OBVIOUS
  <1> HIDE DEF e
  <1>2. PICK F : IsSumTable(F, f, S) /\ SumOf(f, S) = F[S]
    BY SumTable
  <1>3. PICK G : IsSumTable(G, e, S) /\ SumOf(e, S) = G[S]
    BY <1>1, SumTable
  <1> DEFINE T == {s \in SUBSET S : F[s] \in Int /\ G[s] = F[s] + IF h \in s THEN n ELSE 0}
  <1> HIDE DEF T
  <1>4. {} \in T
    BY <1>2, <1>3 DEF T, IsSumTable
  <1>5. ASSUME NEW s \in SUBSET S, s # {}, s \ {Some(s)} \in T
        PROVE  s \in T
    <2> DEFINE x == Some(s)
               r == s \ {x}
    <2>1. x \in S /\ x \in s
      BY <1>5 DEF Some
    <2>2. F[s] = f[x] + F[r] /\ G[s] = e[x] + G[r]
      BY <1>2, <1>3, <1>5 DEF IsSumTable
    <2>3. f[x] \in Int /\ F[r] \in Int /\ G[r] = F[r] + IF h \in r THEN n ELSE 0
      BY <1>5, <2>1 DEF T
    <2> HIDE DEF x
    <2>4. CASE x = h
      <3>1. h \notin r /\ h \in s
        BY <2>1, <2>4
      <3>2. F[s] \in Int /\ G[s] = F[s] + n
        BY <1>1, <2>2, <2>3, <2>4, <3>1
      <3> QED
        BY <3>1, <3>2 DEF T
    <2>5. CASE x # h
      <3>1. h \in r <=> h \in s
        BY <2>5
      <3>2. F[s] \in Int /\ G[s] = F[s] + IF h \in s THEN n ELSE 0
        BY <1>1, <2>1, <2>2, <2>3, <2>5, <3>1
      <3> QED
        BY <3>2 DEF T
    <2> QED
      BY <2>4, <2>5
  <1>6. S \in T
    BY <1>4, <1>5, SubsetInduction
  <1> QED
    BY <1>2, <1>3, <1>6 DEF T, e

\* A table adds the elements of a set in some order; any other order gives the same.
LEMMA SumOrder ==
  ASSUME NEW S, IsFiniteSet(S), NEW f \in [S -> Int], NEW F, IsSumTable(F, f, S)
  PROVE  \A s \in SUBSET S : F[s] \in Int /\ \A x \in s : F[s] = f[x] + F[s \ {x}]
  <1> DEFINE Good(s) == F[s] \in Int /\ \A x \in s : F[s] = f[x] + F[s \ {x}]
             N == {n \in Nat : \A s \in SUBSET S : Cardinality(s) <= n => Good(s)}
  <1> HIDE DEF N, Good
  <1>1. \A s \in SUBSET S : /\ IsFiniteSet(s) /\ Cardinality(s) \in Nat
                            /\ Cardinality(s) = 0 <=> s = {}
    BY FS_Subset, FS_CardinalityType, FS_EmptySet
  <1>2. Good({})
    BY DEF IsSumTable, Good
  <1>3. 0 \in N
    BY <1>1, <1>2 DEF N
  <1>4. ASSUME NEW n \in Nat, n \in N
        PROVE  n + 1 \in N
    <2> SUFFICES ASSUME NEW s \in SUBSET S, Cardinality(s) <= n + 1, s # {}
                 PROVE  Good(s)
      BY <1>2 DEF N
    <2>1. ASSUME NEW x \in s
          PROVE  Good(s \ {x}) /\ s \ {x} \in SUBSET S
      <3>1. s \ {x} \in SUBSET S /\ Cardinality(s \ {x}) = Cardinality(s) - 1
        BY <1>1, FS_RemoveElement
      <3>2. Cardinality(s \ {x}) <= n
        BY <1>1, <3>1
      <3> QED
        BY <1>4, <3>1, <3>2 DEF N
    <2> DEFINE y == Some(s)
    <2>2. y \in s /\ F[s] = f[y] + F[s \ {y}]
      BY DEF Some, IsSumTable
    <2> HIDE DEF y
    <2>3. f[y] \in Int /\ F[s \ {y}] \in Int
      BY <2>1, <2>2 DEF Good
    <2>4. ASSUME NEW x \in s, x # y
          PROVE  F[s] = f[x] + F[s \ {x}]
      <3>1. (s \ {y}) \ {x} = (s \ {x}) \ {y}
        OBVIOUS
      <3> DEFINE rest == F[(s \ {x}) \ {y}]
      <3>2. /\ F[s \ {y}] = f[x] + rest /\ F[s \ {x}] = f[y] + rest
        BY <2>1, <2>2, <2>4, <3>1 DEF Good
      <3>3. rest \in Int /\ f[x] \in Int
        <4>1. (s \ {x}) \ {y} \in SUBSET S /\ Cardinality((s \ {x}) \ {y}) <= n
          <5>1. s \ {x} \in SUBSET S /\ Cardinality(s \ {x}) = Cardinality(s) - 1
            BY <1>1, FS_RemoveElement
          <5>2. y \in s \ {x}
            BY <2>2, <2>4
          <5>3. Cardinality((s \ {x}) \ {y}) = Cardinality(s \ {x}) - 1
            BY <1>1, <5>1, <5>2, FS_RemoveElement
          <5> QED
            BY <1>1, <5>1, <5>3
        <4> QED
          BY <1>4, <4>1 DEF N, Good
      <3> HIDE DEF rest
      <3> QED
        BY <2>2, <2>3, <3>2, <3>3
    <2>5. F[s] \in Int
      BY <2>2, <2>3
    <2>6. \A x \in s : F[s] = f[x] + F[s \ {x}]
      BY <2>2, <2>4
    <2> QED
      BY <2>5, <2>6 DEF Good
  <1>5. Cardinality(S) \in N /\ \A s \in SUBSET S : Cardinality(s) <= Cardinality(S)
    BY <1>1, <1>3, <1>4, NaturalInduction, FS_Subset
  <1> QED
    BY <1>5 DEF N, Good

\* One table is as good as another.
LEMMA SumTableUnique ==
  ASSUME NEW S, IsFiniteSet(S), NEW f, NEW F, NEW G,
         IsSumTable(F, f, S), IsSumTable(G, f, S)
  PROVE  F[S] = G[S]
  <1> DEFINE T == {s \in SUBSET S : F[s] = G[s]}
  <1> HIDE DEF T
  <1>1. {} \in T
    BY DEF T, IsSumTable
  <1>2. \A s \in SUBSET S : s # {} /\ s \ {Some(s)} \in T => s \in T
    BY DEF T, IsSumTable
  <1>3. S \in T
    BY <1>1, <1>2, SubsetInduction
  <1> QED
    BY <1>3 DEF T

\* A sum depends on the values at the elements only.
LEMMA SumSame ==
  ASSUME NEW S, IsFiniteSet(S), NEW e \in [S -> Int], NEW f, \A x \in S : f[x] = e[x]
  PROVE  SumOf(f, S) = SumOf(e, S)
  <1>1. PICK F : IsSumTable(F, e, S) /\ SumOf(e, S) = F[S]
    BY SumTable
  <1>2. IsSumTable(F, f, S)
    <2>1. \A s \in SUBSET S : s # {} => f[Some(s)] = e[Some(s)]
      BY DEF Some
    <2> QED
      BY <1>1, <2>1 DEF IsSumTable
  <1>3. SumOf(f, S) = (CHOOSE H : IsSumTable(H, f, S))[S]
    BY DEF SumOf, MapThenSumSet, MapThenFoldSet, Some, IsSumTable
  <1>4. IsSumTable(CHOOSE H : IsSumTable(H, f, S), f, S)
    BY <1>2
  <1> QED
    BY <1>1, <1>2, <1>3, <1>4, SumTableUnique

\* A sum over a set is one element more than the sum over the rest.
LEMMA SumExtend ==
  ASSUME NEW S, IsFiniteSet(S), NEW h, h \notin S, NEW f \in [S \cup {h} -> Int]
  PROVE  SumOf(f, S \cup {h}) = SumOf(f, S) + f[h]
  <1> DEFINE D == S \cup {h}
             e == [x \in S |-> f[x]]
  <1>1. IsFiniteSet(D)
    BY FS_AddElement
  <1>2. PICK F : IsSumTable(F, f, D) /\ SumOf(f, D) = F[D]
    BY <1>1, SumTable
  <1> DEFINE G == [s \in SUBSET S |-> F[s]]
  <1>3. F[D] = f[h] + F[S] /\ F[S] \in Int /\ f[h] \in Int
    <2>1. D \ {h} = S /\ h \in D /\ S \in SUBSET D /\ D \in SUBSET D
      OBVIOUS
    <2>2. \A s \in SUBSET D : F[s] \in Int /\ \A x \in s : F[s] = f[x] + F[s \ {x}]
      BY <1>1, <1>2, SumOrder
    <2>3. F[D] = f[h] + F[D \ {h}]
      BY <2>1, <2>2
    <2> QED
      BY <2>1, <2>2, <2>3
  <1>4. IsSumTable(G, e, S)
    <2>1. \A s \in SUBSET S : s # {} => s \ {Some(s)} \in SUBSET S /\ e[Some(s)] = f[Some(s)]
      BY DEF Some
    <2>2. \A s \in SUBSET S : F[s] = IF s = {} THEN 0 ELSE f[Some(s)] + F[s \ {Some(s)}]
      BY <1>2 DEF IsSumTable
    <2> HIDE DEF e
    <2> QED
      BY <2>1, <2>2 DEF IsSumTable
  <1>5. SumOf(e, S) = F[S]
    <2>1. e \in [S -> Int] /\ G[S] = F[S]
      OBVIOUS
    <2> HIDE DEF e, G
    <2>2. PICK H : IsSumTable(H, e, S) /\ SumOf(e, S) = H[S]
      BY <2>1, SumTable
    <2> QED
      BY <1>4, <2>1, <2>2, SumTableUnique
  <1>6. SumOf(f, S) = SumOf(e, S)
    <2>1. e \in [S -> Int] /\ \A x \in S : f[x] = e[x]
      OBVIOUS
    <2> HIDE DEF e
    <2> QED
      BY <2>1, SumSame
  <1> QED
    BY <1>2, <1>3, <1>5, <1>6

\* The same over any set the function is defined on.
LEMMA SumInsert ==
  ASSUME NEW S, IsFiniteSet(S), NEW f \in [S -> Int], NEW r \in SUBSET S, NEW h \in S, h \notin r
  PROVE  /\ SumOf(f, r) \in Int
         /\ SumOf(f, r \cup {h}) = SumOf(f, r) + f[h]
  <1> DEFINE D == r \cup {h}
             e == [x \in D |-> f[x]]
             d == [x \in r |-> f[x]]
  <1>1. IsFiniteSet(r) /\ IsFiniteSet(D)
    BY FS_Subset, FS_AddElement
  <1>2. /\ e \in [D -> Int] /\ \A x \in D : f[x] = e[x]
        /\ d \in [r -> Int] /\ \A x \in r : f[x] = d[x] /\ e[x] = d[x]
    OBVIOUS
  <1> HIDE DEF e, d
  <1>3. SumOf(f, r) = SumOf(d, r) /\ SumOf(e, r) = SumOf(d, r) /\ SumOf(d, r) \in Int
    BY <1>1, <1>2, SumSame, SumType
  <1>4. SumOf(f, D) = SumOf(e, D)
    BY <1>1, <1>2, SumSame
  <1>5. SumOf(e, D) = SumOf(e, r) + e[h]
    BY <1>1, <1>2, SumExtend
  <1> QED
    BY <1>2, <1>3, <1>4, <1>5

\* Terms of zero may be left out.
LEMMA SumSupport ==
  ASSUME NEW S, IsFiniteSet(S), NEW f \in [S -> Int], NEW R \in SUBSET S,
         \A x \in S \ R : f[x] = 0
  PROVE  SumOf(f, R) = SumOf(f, S)
  <1> DEFINE T == {s \in SUBSET S : SumOf(f, s) = SumOf(f, s \cap R)}
  <1> HIDE DEF T
  <1>1. {} \in T
    <2>1. {} \cap R = {}
      OBVIOUS
    <2> QED
      BY <2>1 DEF T
  <1>2. ASSUME NEW s \in SUBSET S, s # {}, s \ {Some(s)} \in T
        PROVE  s \in T
    <2> DEFINE x == Some(s)
               r == s \ {x}
    <2>1. x \in s
      BY <1>2 DEF Some
    <2> HIDE DEF x
    <2>2. /\ r \in SUBSET S /\ x \in S /\ x \notin r /\ r \cup {x} = s
          /\ r \cap R \in SUBSET S /\ x \notin r \cap R
      BY <2>1
    <2>3. SumOf(f, r) \in Int /\ SumOf(f, s) = SumOf(f, r) + f[x]
      BY <2>2, SumInsert
    <2>4. SumOf(f, (r \cap R) \cup {x}) = SumOf(f, r \cap R) + f[x]
      BY <2>2, SumInsert
    <2>5. SumOf(f, r) = SumOf(f, r \cap R)
      BY <1>2 DEF T, x
    <2>6. CASE x \in R
      <3>1. s \cap R = (r \cap R) \cup {x}
        BY <2>2, <2>6
      <3> QED
        BY <2>3, <2>4, <2>5, <3>1 DEF T
    <2>7. CASE x \notin R
      <3>1. s \cap R = r \cap R /\ f[x] = 0
        BY <2>2, <2>7
      <3> DEFINE u == s \cap R
                 v == r \cap R
                 sum == SumOf(f, r)
      <3>2. SumOf(f, u) = sum /\ sum \in Int /\ SumOf(f, s) = sum + f[x]
        <4>1. u = v /\ sum = SumOf(f, v)
          BY <2>5, <3>1
        <4> HIDE DEF u, v
        <4>2. SumOf(f, u) = sum
          BY <4>1
        <4> QED
          BY <2>3, <4>2
      <3>3. SumOf(f, s) = SumOf(f, s \cap R)
        <4> HIDE DEF sum
        <4> QED
          BY <3>1, <3>2
      <3> QED
        BY <3>3 DEF T
    <2> QED
      BY <2>6, <2>7
  <1>3. S \in T
    BY <1>1, <1>2, SubsetInduction
  <1>4. S \cap R = R
    OBVIOUS
  <1> QED
    BY <1>3, <1>4 DEF T

\* The sum over a part is that of what is zero outside of it.
LEMMA SumPart ==
  ASSUME NEW S, IsFiniteSet(S), NEW f \in [S -> Int], NEW R \in SUBSET S, NEW g \in [S -> Int],
         \A x \in S : g[x] = IF x \in R THEN f[x] ELSE 0
  PROVE  SumOf(f, R) = SumOf(g, S)
  <1> DEFINE e == [x \in R |-> f[x]]
  <1>1. IsFiniteSet(R)
    BY FS_Subset
  <1>2. e \in [R -> Int] /\ \A x \in R : f[x] = e[x] /\ g[x] = e[x]
    OBVIOUS
  <1> HIDE DEF e
  <1>3. SumOf(f, R) = SumOf(e, R) /\ SumOf(g, R) = SumOf(e, R)
    BY <1>1, <1>2, SumSame
  <1>4. SumOf(g, R) = SumOf(g, S)
    BY SumSupport
  <1> QED
    BY <1>3, <1>4

\* A sum of terms that are no less is no less.
LEMMA SumMonotone ==
  ASSUME NEW S, IsFiniteSet(S), NEW f \in [S -> Int], NEW g \in [S -> Int],
         \A x \in S : f[x] <= g[x]
  PROVE  SumOf(f, S) <= SumOf(g, S)
  <1>1. PICK F : IsSumTable(F, f, S) /\ SumOf(f, S) = F[S]
    BY SumTable
  <1>2. PICK G : IsSumTable(G, g, S) /\ SumOf(g, S) = G[S]
    BY SumTable
  <1> DEFINE T == {s \in SUBSET S : F[s] \in Int /\ G[s] \in Int /\ F[s] <= G[s]}
  <1> HIDE DEF T
  <1>3. {} \in T
    BY <1>1, <1>2 DEF T, IsSumTable
  <1>4. ASSUME NEW s \in SUBSET S, s # {}, s \ {Some(s)} \in T
        PROVE  s \in T
    <2> DEFINE x == Some(s)
               r == s \ {x}
    <2>1. x \in S
      BY <1>4 DEF Some
    <2>2. F[s] = f[x] + F[r] /\ G[s] = g[x] + G[r]
      BY <1>1, <1>2, <1>4 DEF IsSumTable
    <2>3. F[r] \in Int /\ G[r] \in Int /\ F[r] <= G[r]
      BY <1>4 DEF T
    <2>4. f[x] \in Int /\ g[x] \in Int /\ f[x] <= g[x]
      BY <2>1
    <2> HIDE DEF x, r
    <2>5. F[s] \in Int /\ G[s] \in Int /\ F[s] <= G[s]
      BY <2>2, <2>3, <2>4
    <2> QED
      BY <2>5 DEF T
  <1>5. S \in T
    BY <1>3, <1>4, SubsetInduction
  <1> QED
    BY <1>1, <1>2, <1>5 DEF T

(****************************************************************************)
(* FoldLeft takes out of the positions 1 .. N the greatest, and so applies  *)
(* its operator to the prefixes of the sequence, one after the other.       *)
(****************************************************************************)

\* A set of positions has a greatest one.
LEMMA MaxFacts ==
  ASSUME NEW N \in Nat, NEW s \in SUBSET (1 .. N), s # {}
  PROVE  Max(s) \in s /\ \A y \in s : y <= Max(s)
  <1> DEFINE T == {d \in Nat : N - d \in s}
  <1> HIDE DEF T
  <1>1. \A y \in s : y \in Int /\ N - y \in Nat /\ N - (N - y) = y
    OBVIOUS
  <1>2. \A y \in s : N - y \in T
    BY <1>1 DEF T
  <1>3. PICK d \in T : \A e \in T : d <= e
    BY <1>2, LeastNatural DEF T
  <1>4. N - d \in s /\ d \in Nat
    BY DEF T
  <1>5. \A y \in s : y <= N - d
    BY <1>1, <1>2, <1>3, <1>4
  <1>6. \E x \in s : \A y \in s : x >= y
    BY <1>1, <1>4, <1>5
  <1>7. Max(s) \in s /\ \A y \in s : Max(s) >= y
    BY <1>6 DEF Max
  <1> QED
    BY <1>1, <1>7

\* A set of naturals has a least one.
LEMMA MinFacts ==
  ASSUME NEW s \in SUBSET Nat, s # {}
  PROVE  Min(s) \in s /\ \A y \in s : Min(s) <= y
  BY LeastNatural DEF Min

IsChain(F, N, base, g) ==
  F = [s \in SUBSET (1 .. N) |-> IF s = {} THEN base ELSE g[<<Max(s), F[s \ {Max(s)}]>>]]

\* The fold exists, with values in V if base and the results of g are.
LEMMA ChainExists ==
  ASSUME NEW N \in Nat, NEW V, NEW base \in V, NEW g \in [(1 .. N) \X V -> V]
  PROVE  \E F \in [SUBSET (1 .. N) -> V] : IsChain(F, N, base, g)
  <1> DEFINE D == 1 .. N
             c == [s \in SUBSET D |-> Max(s)]
  <1>1. IsFiniteSet(D)
    BY FS_Interval
  <1>2. \A s \in SUBSET D : s # {} => c[s] \in s
    BY MaxFacts
  <1> HIDE DEF c
  <1>3. PICK F \in [SUBSET D -> V] : IsFold(F, D, base, c, g)
    BY <1>1, <1>2, FoldExists
  <1>4. \A s \in SUBSET D : F[s] = IF s = {} THEN base ELSE g[<<Max(s), F[s \ {Max(s)}]>>]
    BY <1>3 DEF IsFold, c
  <1>5. IsChain(F, N, base, g)
    BY <1>3, <1>4 DEF IsChain
  <1> QED
    BY <1>5

\* The prefixes of the positions.
LEMMA ChainPrefix ==
  ASSUME NEW N \in Nat
  PROVE  /\ 1 .. 0 = {}
         /\ \A n \in 1 .. N : /\ 1 .. n \in SUBSET (1 .. N) /\ 1 .. n # {}
                              /\ Max(1 .. n) = n /\ (1 .. n) \ {n} = 1 .. (n - 1)
  <1>1. ASSUME NEW n \in 1 .. N
        PROVE  Max(1 .. n) = n
    <2>1. n \in Nat /\ 1 .. n # {} /\ n \in 1 .. n /\ 1 .. n \in SUBSET (1 .. n)
      OBVIOUS
    <2>2. Max(1 .. n) \in 1 .. n /\ n <= Max(1 .. n)
      BY <2>1, MaxFacts
    <2> QED
      BY <2>2
  <1>2. ASSUME NEW n \in 1 .. N
        PROVE  1 .. n \in SUBSET (1 .. N) /\ 1 .. n # {}
    <2>1. n \in 1 .. n
      OBVIOUS
    <2> QED
      BY <2>1
  <1>3. ASSUME NEW n \in 1 .. N
        PROVE  (1 .. n) \ {n} = 1 .. (n - 1)
    OBVIOUS
  <1>4. 1 .. 0 = {}
    OBVIOUS
  <1> QED
    BY <1>1, <1>2, <1>3, <1>4

\* A sequence of values that is in V at its start and stays there ends in V.
LEMMA ChainStays ==
  ASSUME NEW N \in Nat, NEW V, NEW C, C[{}] \in V,
         \A n \in 1 .. N : C[(1 .. n) \ {n}] \in V => C[1 .. n] \in V
  PROVE  C[1 .. N] \in V
  <1> DEFINE T == {n \in Nat : n <= N => C[1 .. n] \in V}
  <1> HIDE DEF T
  <1>1. 0 \in T
    BY ChainPrefix DEF T
  <1>2. ASSUME NEW n \in Nat, n \in T
        PROVE  n + 1 \in T
    <2> SUFFICES ASSUME n + 1 <= N
                 PROVE  C[1 .. (n + 1)] \in V
      BY DEF T
    <2>1. C[1 .. n] \in V
      BY <1>2 DEF T
    <2>2. n + 1 \in 1 .. N /\ (1 .. (n + 1)) \ {n + 1} = 1 .. n
      OBVIOUS
    <2> QED
      BY <2>1, <2>2
  <1>3. N \in T
    BY <1>1, <1>2, NaturalInduction
  <1> QED
    BY <1>3 DEF T
=============================================================================
