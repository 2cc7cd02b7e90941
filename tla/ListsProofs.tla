----------------------------- MODULE ListsProofs ------------------------------
(*****************************************************************************)
(* Theorems about lists and recursion: induction on numbers and on finite    *)
(* sets, functions by recursion, what the folds of the community modules     *)
(* compute, and lists filtered and sorted (Lists).                           *)
(*****************************************************************************)
EXTENDS Lists, FiniteSetTheorems, SequenceTheorems, WellFoundedInduction, TLAPS

-----------------------------------------------------------------------------
(* Numbers, sets and recursion *)

\* Of numbers there is a least.
LEMMA NatLeast ==
  ASSUME NEW T \in SUBSET Nat, T # {}
  PROVE  \E n \in T : \A m \in T : n <= m
  <1>1. PICK n \in T : \A m \in T : ~(<<m, n>> \in OpToRel(<, Nat))
    BY NatLessThanWellFounded, WFMin
  <1>2. \A m \in T : ~(m < n)
    BY <1>1 DEF OpToRel
  <1> QED BY <1>2

LEMMA LeastFits ==
  ASSUME NEW T \in SUBSET Nat, T # {}
  PROVE  Least(T) \in T /\ \A m \in T : Least(T) <= m
  BY NatLeast DEF Least

\* Induction, for a set.
LEMMA SetInduction ==
  ASSUME NEW S, 0 \in S, \A n \in Nat : n \in S => n + 1 \in S
  PROVE  Nat \subseteq S
  <1> DEFINE T == Nat \ S
  <1> SUFFICES ASSUME T # {} PROVE FALSE OBVIOUS
  <1>1. PICK n \in T : \A m \in T : n <= m BY NatLeast
  <1>2. n # 0 /\ n - 1 \in Nat BY <1>1
  <1>3. n - 1 \in S BY <1>1, <1>2
  <1> QED BY <1>1, <1>2, <1>3

\* Induction as far as n.
LEMMA UpTo ==
  ASSUME NEW n \in Nat, NEW S, 0 \in S, \A i \in 0 .. n - 1 : i \in S => i + 1 \in S
  PROVE  0 .. n \subseteq S
  <1> DEFINE T == S \cup {i \in Nat : i > n}
  <1>1. 0 \in T OBVIOUS
  <1>2. ASSUME NEW i \in Nat, i \in T PROVE i + 1 \in T BY <1>2
  <1>3. Nat \subseteq T BY <1>1, <1>2, SetInduction
  <1> QED BY <1>3

-----------------------------------------------------------------------------
(* A function by recursion *)

\* f[n + 1] is what step makes of f[n].
Follows(f, A, base, step) ==
  f \in [Nat -> A] /\ f[0] = base /\ \A n \in Nat : f[n + 1] = step[n][f[n]]

LEMMA Recursion ==
  ASSUME NEW A, NEW base \in A, NEW step \in [Nat -> [A -> A]]
  PROVE  \E f : Follows(f, A, base, step)
  <1> DEFINE Good(g, n) == g[0] = base /\ \A i \in 0 .. n - 1 : g[i + 1] = step[i][g[i]]
             S == {n \in Nat : \E g \in [0 .. n -> A] : Good(g, n)}
  <1>1. 0 \in S
    <2>1. [i \in 0 .. 0 |-> base] \in [0 .. 0 -> A] /\ Good([i \in 0 .. 0 |-> base], 0) OBVIOUS
    <2> QED BY <2>1
  <1>2. ASSUME NEW n \in Nat, n \in S PROVE n + 1 \in S
    <2>1. PICK g \in [0 .. n -> A] : Good(g, n) BY <1>2
    <2> DEFINE h == [i \in 0 .. n + 1 |-> IF i = n + 1 THEN step[n][g[n]] ELSE g[i]]
    <2>2. h \in [0 .. n + 1 -> A] BY <2>1
    <2>3. h[0] = base BY <2>1
    <2>4. ASSUME NEW i \in 0 .. n PROVE h[i + 1] = step[i][h[i]]
      <3>1. CASE i = n BY <3>1
      <3>2. CASE i # n
        <4>1. i \in 0 .. n - 1 BY <3>2
        <4> QED BY <2>1, <4>1
      <3> QED BY <3>1, <3>2
    <2> HIDE DEF h
    <2>5. (n + 1) - 1 = n OBVIOUS
    <2>6. Good(h, n + 1) BY <2>3, <2>4, <2>5
    <2> HIDE DEF Good
    <2> QED BY <2>2, <2>6
  <1>3. Nat \subseteq S
    <2> HIDE DEF S
    <2> QED BY <1>1, <1>2, SetInduction
  <1> DEFINE F == [n \in Nat |-> CHOOSE g \in [0 .. n -> A] : Good(g, n)]
  <1>4. ASSUME NEW n \in Nat PROVE F[n] \in [0 .. n -> A] /\ Good(F[n], n)
    <2>1. \E g \in [0 .. n -> A] : Good(g, n) BY <1>3
    <2> HIDE DEF Good
    <2> QED BY <2>1
  <1> DEFINE f == [n \in Nat |-> F[n][n]]
  <1>5. ASSUME NEW n \in Nat PROVE \A i \in 0 .. n : F[n][i] = F[n + 1][i]
    <2> DEFINE T == {i \in 0 .. n : F[n][i] = F[n + 1][i]}
    <2>0. n + 1 \in Nat OBVIOUS
    <2>1. Good(F[n], n) /\ Good(F[n + 1], n + 1) BY <1>4, <2>0
    <2> HIDE DEF F
    <2>2. 0 \in T BY <2>1
    <2>3. ASSUME NEW i \in 0 .. n - 1, i \in T PROVE i + 1 \in T
      <3>1. F[n][i + 1] = step[i][F[n][i]] BY <2>1
      <3>2. F[n + 1][i + 1] = step[i][F[n + 1][i]] BY <2>1, i \in 0 .. (n + 1) - 1
      <3> QED BY <3>1, <3>2, <2>3
    <2>4. 0 .. n \subseteq T
      <3> HIDE DEF T
      <3> QED BY <2>2, <2>3, UpTo
    <2> QED BY <2>4
  <1>6. f \in [Nat -> A]
    <2> SUFFICES ASSUME NEW n \in Nat PROVE F[n][n] \in A OBVIOUS
    <2>1. F[n] \in [0 .. n -> A] BY <1>4
    <2> HIDE DEF F
    <2> QED BY <2>1
  <1>7. f[0] = base BY <1>4
  <1>8. ASSUME NEW n \in Nat PROVE f[n + 1] = step[n][f[n]]
    <2>1. n + 1 \in Nat OBVIOUS
    <2>2. Good(F[n + 1], n + 1) BY <1>4, <2>1
    <2>3. F[n + 1][n + 1] = step[n][F[n + 1][n]]
      <3> HIDE DEF F
      <3> QED BY <2>2, n \in 0 .. (n + 1) - 1
    <2>4. F[n + 1][n] = F[n][n]
      <3> HIDE DEF F
      <3> QED BY <1>5
    <2>5. f[n + 1] = F[n + 1][n + 1] /\ f[n] = F[n][n] BY <2>1
    <2> HIDE DEF f, F
    <2> QED BY <2>3, <2>4, <2>5
  <1> HIDE DEF f
  <1> QED BY <1>6, <1>7, <1>8 DEF Follows
  -----------------------------------------------------------------------------
  (* Folds: iter of MapThenFoldSet, as FoldLeft uses it, takes the greatest    *)
  (* place first.  base and step are the fold's own, step[place][what is before]. *)

LEMMA GreatestFits ==
  ASSUME NEW n \in Nat, NEW s \in SUBSET (1 .. n), s # {}
  PROVE  \E x \in s : \A y \in s : y <= x
  <1> DEFINE T == {n - y : y \in s}
  <1>1. T \in SUBSET Nat /\ T # {}
    <2>1. \A y \in s : n - y \in Nat OBVIOUS
    <2>2. PICK y \in s : TRUE OBVIOUS
    <2>3. n - y \in T OBVIOUS
    <2> QED BY <2>1, <2>3
  <1>2. PICK t \in T : \A m \in T : t <= m
    <2> HIDE DEF T
    <2> QED BY <1>1, NatLeast
  <1>3. PICK x \in s : t = n - x BY <1>2
  <1>4. \A y \in s : n - x <= n - y BY <1>2, <1>3
  <1>5. \A y \in s : y <= x
    <2> SUFFICES ASSUME NEW y \in s PROVE y <= x OBVIOUS
    <2>1. x \in Int /\ y \in Int OBVIOUS
    <2> QED BY <1>4, <2>1
  <1> QED BY <1>5

\* The same at the places of s only.
FollowsAt(g, A, base, step, s) ==
  /\ g \in [Nat -> A] /\ g[0] = base
  /\ \A i \in Nat : g[i + 1] = IF i + 1 \in s THEN step[i + 1][g[i]] ELSE g[i]

LEMMA Along ==
  ASSUME NEW A, NEW base \in A, NEW step \in [Nat -> [A -> A]], NEW s
  PROVE  \E g : FollowsAt(g, A, base, step, s)
  <1> DEFINE some == [i \in Nat |-> [a \in A |-> IF i + 1 \in s THEN step[i + 1][a] ELSE a]]
  <1>1. some \in [Nat -> [A -> A]]
    <2> SUFFICES ASSUME NEW i \in Nat, NEW a \in A PROVE (IF i + 1 \in s THEN step[i + 1][a] ELSE a) \in A
      OBVIOUS
    <2>1. step[i + 1] \in [A -> A] OBVIOUS
    <2> QED BY <2>1
  <1>2. PICK g : Follows(g, A, base, some)
    <2> HIDE DEF some
    <2> QED BY <1>1, Recursion
  <1>3. \A i \in Nat : g[i] \in A BY <1>2 DEF Follows
  <1>4. \A i \in Nat : some[i][g[i]] = IF i + 1 \in s THEN step[i + 1][g[i]] ELSE g[i] BY <1>3
  <1> HIDE DEF some
  <1> QED BY <1>2, <1>4 DEF Follows, FollowsAt

Iterates(iter, n, A, base, step) ==
  /\ iter[{}] = base
  /\ \A s \in SUBSET (1 .. n), x \in 1 .. n :
        x \in s /\ (\A y \in s : y <= x) /\ iter[s \ {x}] \in A => iter[s] = step[x][iter[s \ {x}]]
FoldsTo(F, n, A, base, step) ==
  F \in [0 .. n -> A] /\ F[0] = base /\ \A k \in 0 .. n - 1 : F[k + 1] = step[k + 1][F[k]]

LEMMA FoldExists ==
  ASSUME NEW n \in Nat, NEW A, NEW base \in A, NEW step \in [Nat -> [A -> A]]
  PROVE  \E iter : iter \in [SUBSET (1 .. n) -> A] /\ Iterates(iter, n, A, base, step)
  <1> DEFINE Good(g, s) == FollowsAt(g, A, base, step, s)
             G == [s \in SUBSET (1 .. n) |-> CHOOSE g : Good(g, s)]
             iter == [s \in SUBSET (1 .. n) |-> G[s][n]]
  <1>1. ASSUME NEW s \in SUBSET (1 .. n)
        PROVE  /\ G[s] \in [Nat -> A] /\ G[s][0] = base
               /\ \A i \in Nat : G[s][i + 1] = IF i + 1 \in s THEN step[i + 1][G[s][i]] ELSE G[s][i]
    <2>1. \E g : Good(g, s) BY Along
    <2>2. Good(G[s], s)
      <3> HIDE DEF Good
      <3> QED BY <2>1
    <2> HIDE DEF G
    <2> QED BY <2>2 DEF FollowsAt
  <1>2. iter \in [SUBSET (1 .. n) -> A]
    <2> SUFFICES ASSUME NEW s \in SUBSET (1 .. n) PROVE G[s][n] \in A OBVIOUS
    <2> HIDE DEF G
    <2> QED BY <1>1
  \* Nothing happens above the places of s.
  <1>3. ASSUME NEW s \in SUBSET (1 .. n), NEW x \in Nat, \A y \in s : y <= x
        PROVE  \A i \in Nat : G[s][x + i] = G[s][x]
    <2> DEFINE T == {i \in Nat : G[s][x + i] = G[s][x]}
    <2> HIDE DEF G
    <2>1. \A i \in Nat : G[s][i + 1] = IF i + 1 \in s THEN step[i + 1][G[s][i]] ELSE G[s][i] BY <1>1
    <2>2. 0 \in T OBVIOUS
    <2>3. ASSUME NEW i \in Nat, i \in T PROVE i + 1 \in T
      <3>1. x + i \in Nat /\ (x + i) + 1 \notin s BY <1>3
      <3>2. G[s][(x + i) + 1] = G[s][x + i] BY <2>1, <3>1
      <3>3. (x + i) + 1 = x + (i + 1) OBVIOUS
      <3> QED BY <2>3, <3>2, <3>3
    <2>4. Nat \subseteq T
      <3> HIDE DEF T
      <3> QED BY <2>2, <2>3, SetInduction
    <2> QED BY <2>4
  <1>4. iter[{}] = base
    <2>1. G[{}][0] = base BY <1>1
    <2>2. G[{}][0 + n] = G[{}][0]
      <3> HIDE DEF G
      <3> QED BY <1>3
    <2>3. iter[{}] = G[{}][n] OBVIOUS
    <2> HIDE DEF G, iter
    <2> QED BY <2>1, <2>2, <2>3
  <1>5. ASSUME NEW s \in SUBSET (1 .. n), NEW x \in 1 .. n, x \in s, \A y \in s : y <= x
        PROVE  iter[s] = step[x][iter[s \ {x}]]
    <2> DEFINE t == s \ {x}
               T == {i \in 0 .. x - 1 : G[t][i] = G[s][i]}
    <2>0. t \in SUBSET (1 .. n) OBVIOUS
    <2>2. iter[s] = G[s][n] /\ iter[t] = G[t][n] BY <2>0
    <2> HIDE DEF G, iter
    <2>1. \A r \in {s, t} :
            /\ G[r][0] = base
            /\ \A i \in Nat : G[r][i + 1] = IF i + 1 \in r THEN step[i + 1][G[r][i]] ELSE G[r][i]
      BY <1>1, <2>0
    <2>3. 0 \in T BY <2>1
    <2>4. ASSUME NEW i \in 0 .. (x - 1) - 1, i \in T PROVE i + 1 \in T
      <3>1. i + 1 \in s <=> i + 1 \in t OBVIOUS
      <3>2. i \in Nat /\ i + 1 \in 0 .. x - 1 OBVIOUS
      <3>3. G[t][i + 1] = IF i + 1 \in t THEN step[i + 1][G[t][i]] ELSE G[t][i] BY <2>1, <3>2
      <3>4. G[s][i + 1] = IF i + 1 \in s THEN step[i + 1][G[s][i]] ELSE G[s][i] BY <2>1, <3>2
      <3>5. G[t][i] = G[s][i] BY <2>4
      <3> QED BY <3>1, <3>2, <3>3, <3>4, <3>5
    <2>5. 0 .. x - 1 \subseteq T
      <3> HIDE DEF T
      <3> QED BY <2>3, <2>4, UpTo, x - 1 \in Nat
    <2>6. G[t][x - 1] = G[s][x - 1]
      <3>1. x - 1 \in 0 .. x - 1 OBVIOUS
      <3> QED BY <2>5, <3>1
    <2>7. \A y \in t : y <= x - 1 BY <1>5
    <2>8. G[t][(x - 1) + (n - (x - 1))] = G[t][x - 1]
      <3> HIDE DEF t
      <3> QED BY <1>3, <2>0, <2>7, x - 1 \in Nat, n - (x - 1) \in Nat
    <2>9. G[s][x + (n - x)] = G[s][x] BY <1>3, <1>5, x \in Nat, n - x \in Nat
    <2>10. G[s][(x - 1) + 1] = step[(x - 1) + 1][G[s][x - 1]] BY <1>5, <2>1, x - 1 \in Nat, (x - 1) + 1 = x
    <2>11. (x - 1) + 1 = x /\ x + (n - x) = n /\ (x - 1) + (n - (x - 1)) = n OBVIOUS
    <2> QED BY <2>2, <2>6, <2>8, <2>9, <2>10, <2>11
  <1> HIDE DEF iter
  <1>6. Iterates(iter, n, A, base, step) BY <1>4, <1>5 DEF Iterates
  <1> QED BY <1>2, <1>6

LEMMA FoldValue ==
  ASSUME NEW n \in Nat, NEW A, NEW base \in A, NEW step \in [Nat -> [A -> A]], NEW iter,
         Iterates(iter, n, A, base, step)
  PROVE  \E F : FoldsTo(F, n, A, base, step) /\ iter[1 .. n] = F[n]
  <1> DEFINE F == [k \in 0 .. n |-> iter[1 .. k]]
             T == {k \in 0 .. n : F[k] \in A}
  <1>1. F[0] = base
    <2>1. F[0] = iter[1 .. 0] /\ 1 .. 0 = {} OBVIOUS
    <2> QED BY <2>1 DEF Iterates
  <1>2. ASSUME NEW k \in 0 .. n - 1, F[k] \in A PROVE F[k + 1] = step[k + 1][F[k]]
    <2>1. (1 .. k + 1) \ {k + 1} = 1 .. k OBVIOUS
    <2>2. 1 .. k + 1 \in SUBSET (1 .. n) /\ k + 1 \in 1 .. n /\ k + 1 \in 1 .. k + 1 /\ \A y \in 1 .. k + 1 : y <= k + 1
      OBVIOUS
    <2>3. F[k] = iter[1 .. k] /\ F[k + 1] = iter[1 .. k + 1] OBVIOUS
    <2> HIDE DEF F
    <2>4. iter[(1 .. k + 1) \ {k + 1}] \in A BY <1>2, <2>1, <2>3
    <2>5. iter[1 .. k + 1] = step[k + 1][iter[(1 .. k + 1) \ {k + 1}]] BY <2>2, <2>4 DEF Iterates
    <2> QED BY <2>1, <2>3, <2>5
  <1>3. 0 \in T BY <1>1
  <1>4. ASSUME NEW k \in 0 .. n - 1, k \in T PROVE k + 1 \in T
    <2>1. F[k + 1] = step[k + 1][F[k]] /\ F[k] \in A BY <1>2, <1>4
    <2>2. step[k + 1] \in [A -> A] OBVIOUS
    <2> HIDE DEF F
    <2> QED BY <2>1, <2>2
  <1>5. 0 .. n \subseteq T
    <2> HIDE DEF T
    <2> QED BY <1>3, <1>4, UpTo
  <1>6. F \in [0 .. n -> A] BY <1>5
  <1>7. iter[1 .. n] = F[n] OBVIOUS
  <1>8. \A k \in 0 .. n - 1 : F[k + 1] = step[k + 1][F[k]]
    <2> HIDE DEF F
    <2> SUFFICES ASSUME NEW k \in 0 .. n - 1 PROVE F[k + 1] = step[k + 1][F[k]] OBVIOUS
    <2>1. k \in 0 .. n OBVIOUS
    <2>2. F[k] \in A BY <1>5, <2>1
    <2> QED BY <1>2, <2>2
  <1>9. FoldsTo(F, n, A, base, step)
    <2> HIDE DEF F
    <2> QED BY <1>1, <1>6, <1>8 DEF FoldsTo
  <1> HIDE DEF F
  <1> QED BY <1>7, <1>9

-----------------------------------------------------------------------------
(* Sets in an order *)

IsOrder(S, before) ==
  /\ \A x \in S : <<x, x>> \notin before
  /\ \A x, y \in S : x # y => <<x, y>> \in before \/ <<y, x>> \in before
  /\ \A x, y, z \in S : <<x, y>> \in before /\ <<y, z>> \in before => <<x, z>> \in before

\* Every element has its own place, before those that it is before.
LEMMA OrderedFits ==
  ASSUME NEW S, IsFiniteSet(S), NEW before, IsOrder(S, before)
  PROVE  /\ Cardinality(S) \in Nat
         /\ Ordered(S, before) \in [1 .. Cardinality(S) -> S]
         /\ \A x \in S : \E n \in 1 .. Cardinality(S) : Ordered(S, before)[n] = x
         /\ \A m, n \in 1 .. Cardinality(S) :
               m < n <=> <<Ordered(S, before)[m], Ordered(S, before)[n]>> \in before
         /\ \A m, n \in 1 .. Cardinality(S) :
               Ordered(S, before)[m] = Ordered(S, before)[n] => m = n
  <1> DEFINE N == Cardinality(S)
             below(x) == {y \in S : <<y, x>> \in before}
             rank == [x \in S |-> Cardinality(below(x))]
             o == [n \in 1 .. N |-> CHOOSE x \in S : rank[x] = n - 1]
  <1>1. N \in Nat BY FS_CardinalityType
  <1>2. ASSUME NEW x \in S PROVE IsFiniteSet(below(x)) /\ rank[x] \in 0 .. N - 1
    <2>1. below(x) \in SUBSET S /\ x \notin below(x) BY DEF IsOrder
    <2>2. IsFiniteSet(below(x)) /\ Cardinality(below(x)) <= N /\ (N = Cardinality(below(x)) => S = below(x))
      <3> HIDE DEF below
      <3> QED BY <2>1, FS_Subset
    <2>3. Cardinality(below(x)) \in Nat
      <3> HIDE DEF below
      <3> QED BY <2>2, FS_CardinalityType
    <2>4. Cardinality(below(x)) # N BY <2>1, <2>2
    <2>5. rank[x] = Cardinality(below(x)) OBVIOUS
    <2> HIDE DEF below, N, rank
    <2> QED BY <1>1, <2>2, <2>3, <2>4, <2>5
  <1>12. \A x \in S : rank[x] \in 0 .. N - 1 /\ rank[x] \in Int
    <2> SUFFICES ASSUME NEW x \in S PROVE rank[x] \in 0 .. N - 1 /\ rank[x] \in Int OBVIOUS
    <2>1. rank[x] \in 0 .. N - 1 BY <1>2
    <2> HIDE DEF N, rank
    <2> QED BY <1>1, <2>1
  <1>3. ASSUME NEW x \in S, NEW y \in S, <<x, y>> \in before PROVE rank[x] < rank[y]
    <2>1. below(x) \subseteq below(y) /\ x \in below(y) /\ x \notin below(x) BY <1>3 DEF IsOrder
    <2>2. Cardinality(below(x)) <= Cardinality(below(y))
          /\ (Cardinality(below(y)) = Cardinality(below(x)) => below(y) = below(x))
      <3>1. IsFiniteSet(below(y)) BY <1>2
      <3> HIDE DEF below
      <3> QED BY <2>1, <3>1, FS_Subset
    <2>3. rank[x] = Cardinality(below(x)) /\ rank[y] = Cardinality(below(y)) OBVIOUS
    <2>4. rank[x] \in Int /\ rank[y] \in Int BY <1>12
    <2> HIDE DEF below, rank
    <2> QED BY <2>1, <2>2, <2>3, <2>4
  <1>4. ASSUME NEW x \in S, NEW y \in S, rank[x] <= rank[y], x # y PROVE <<x, y>> \in before
    <2>1. rank[x] \in Int /\ rank[y] \in Int BY <1>12
    <2>2. <<x, y>> \in before \/ <<y, x>> \in before BY <1>4 DEF IsOrder
    <2> HIDE DEF rank
    <2>3. <<y, x>> \in before => rank[y] < rank[x] BY <1>3
    <2> QED BY <1>4, <2>1, <2>2, <2>3
  <1>13. ASSUME NEW x \in S, NEW y \in S, rank[x] = rank[y] PROVE x = y
    <2> SUFFICES ASSUME x # y PROVE FALSE OBVIOUS
    <2>1. rank[x] \in Int /\ rank[y] \in Int BY <1>12
    <2> HIDE DEF rank
    <2>2. <<x, y>> \in before BY <1>4, <1>13, <2>1
    <2> QED BY <1>3, <1>13, <2>1, <2>2
  <1>5. \A k \in 0 .. N - 1 : \E x \in S : rank[x] = k
    <2>1. rank \in [S -> 0 .. N - 1] BY <1>12
    <2>2. \A x, y \in S : rank[x] = rank[y] => x = y BY <1>13
    <2>3. IsFiniteSet(0 .. N - 1) /\ Cardinality(0 .. N - 1) = N
      <3>1. IsFiniteSet(0 .. N - 1) /\ Cardinality(0 .. N - 1) = IF 0 > N - 1 THEN 0 ELSE (N - 1) - 0 + 1
        <4> HIDE DEF N
        <4> QED BY <1>1, FS_Interval
      <3> HIDE DEF N
      <3> QED BY <1>1, <3>1
    <2> HIDE DEF rank
    <2>4. rank \in Injection(S, 0 .. N - 1) BY <2>1, <2>2 DEF Injection, IsInjective
    <2>5. rank \in Surjection(S, 0 .. N - 1)
      <3>1. Cardinality(S) = Cardinality(0 .. N - 1) BY <2>3
      <3> HIDE DEF N
      <3> QED BY <2>3, <2>4, <3>1, FS_Injection
    <2> QED BY <2>5 DEF Surjection
  <1>6. \A n \in 1 .. N : o[n] \in S /\ rank[o[n]] = n - 1
    <2> SUFFICES ASSUME NEW n \in 1 .. N PROVE o[n] \in S /\ rank[o[n]] = n - 1 OBVIOUS
    <2>1. n - 1 \in 0 .. N - 1 BY <1>1
    <2>2. \E x \in S : rank[x] = n - 1 BY <1>5, <2>1
    <2> HIDE DEF rank
    <2> QED BY <2>2
  <1>7. o \in [1 .. N -> S] BY <1>6
  <1>8. Ordered(S, before) = o BY DEF Ordered
  <1> HIDE DEF o, rank, N
  <1>9. ASSUME NEW x \in S PROVE \E n \in 1 .. N : o[n] = x
    <2>1. rank[x] + 1 \in 1 .. N BY <1>1, <1>12
    <2>2. o[rank[x] + 1] \in S /\ rank[o[rank[x] + 1]] = (rank[x] + 1) - 1 BY <1>6, <2>1
    <2>3. rank[x] \in Int BY <1>12
    <2>4. rank[o[rank[x] + 1]] = rank[x] BY <2>2, <2>3
    <2>5. o[rank[x] + 1] = x BY <1>13, <2>2, <2>4
    <2> QED BY <2>1, <2>5
  <1>10. ASSUME NEW m \in 1 .. N, NEW n \in 1 .. N
         PROVE  /\ m < n <=> <<o[m], o[n]>> \in before
                /\ o[m] = o[n] => m = n
    <2>1. o[m] \in S /\ o[n] \in S /\ rank[o[m]] = m - 1 /\ rank[o[n]] = n - 1 BY <1>6
    <2>2. o[m] = o[n] => m = n BY <1>1, <2>1
    <2>3. m < n => <<o[m], o[n]>> \in before BY <1>1, <1>4, <2>1
    <2>4. <<o[m], o[n]>> \in before => m < n BY <1>1, <1>3, <2>1
    <2> QED BY <2>2, <2>3, <2>4
  <1>11. o \in [1 .. N -> S] BY <1>7
  <1> QED BY <1>1, <1>8, <1>9, <1>10, <1>11 DEF N

-----------------------------------------------------------------------------
(* Lists filtered and sorted *)

Arranges(spot, places, before) ==
  /\ Cardinality(places) \in Nat
  /\ spot \in [1 .. Cardinality(places) -> places]
  /\ \A x \in places : \E n \in 1 .. Cardinality(places) : spot[n] = x
  /\ \A m, n \in 1 .. Cardinality(places) : m < n <=> <<spot[m], spot[n]>> \in before
  /\ \A m, n \in 1 .. Cardinality(places) : spot[m] = spot[n] => m = n

LEMMA ArrangedFits ==
  ASSUME NEW list, NEW places, IsFiniteSet(places), NEW before, IsOrder(places, before)
  PROVE  /\ Arranges(Ordered(places, before), places, before)
         /\ Arranged(list, places, before) = [n \in 1 .. Cardinality(places) |-> list[Ordered(places, before)[n]]]
  <1>1. Arranges(Ordered(places, before), places, before) BY OrderedFits DEF Arranges
  <1>2. DOMAIN Ordered(places, before) = 1 .. Cardinality(places) BY <1>1 DEF Arranges
  <1> QED BY <1>1, <1>2 DEF Arranged

LEMMA PlacesFinite ==
  ASSUME NEW n \in Nat, NEW places \in SUBSET (1 .. n)
  PROVE  /\ IsFiniteSet(places) /\ Cardinality(places) \in Nat /\ Cardinality(places) <= n
         /\ Cardinality(1 .. n) = n /\ IsFiniteSet(1 .. n)
  <1>1. IsFiniteSet(1 .. n) /\ Cardinality(1 .. n) = n
    <2>1. IsFiniteSet(1 .. n) /\ Cardinality(1 .. n) = IF 1 > n THEN 0 ELSE n - 1 + 1 BY FS_Interval
    <2> QED BY <2>1
  <1>2. IsFiniteSet(places) /\ Cardinality(places) <= Cardinality(1 .. n) BY <1>1, FS_Subset
  <1>3. Cardinality(places) \in Nat BY <1>2, FS_CardinalityType
  <1> QED BY <1>1, <1>2, <1>3

Upward(places) == {p \in places \X places : p[1] < p[2]}

LEMMA UpwardOrder ==
  ASSUME NEW places \in SUBSET Nat
  PROVE  IsOrder(places, Upward(places))
  <1>1. \A x, y : <<x, y>> \in Upward(places) <=> x \in places /\ y \in places /\ x < y BY DEF Upward
  <1>2. \A x \in places : x \in Nat OBVIOUS
  <1> QED BY <1>1, <1>2 DEF IsOrder

\* What is left of a list, in its order.
Keeps(spot, places) ==
  /\ Cardinality(places) \in Nat
  /\ spot \in [1 .. Cardinality(places) -> places]
  /\ \A x \in places : \E n \in 1 .. Cardinality(places) : spot[n] = x
  /\ \A m, n \in 1 .. Cardinality(places) : m < n <=> spot[m] < spot[n]

LEMMA OnlyAtFits ==
  ASSUME NEW list, NEW n \in Nat, NEW places \in SUBSET (1 .. n)
  PROVE  \E spot : /\ Keeps(spot, places)
                 /\ OnlyAt(list, places) = [k \in 1 .. Cardinality(places) |-> list[spot[k]]]
  <1> DEFINE spot == Ordered(places, Upward(places))
  <1>1. IsFiniteSet(places) BY PlacesFinite
  <1>2. IsOrder(places, Upward(places)) BY UpwardOrder, places \in SUBSET Nat
  <1>3. /\ Arranges(spot, places, Upward(places))
        /\ Arranged(list, places, Upward(places)) = [k \in 1 .. Cardinality(places) |-> list[spot[k]]]
    BY <1>1, <1>2, ArrangedFits
  <1> HIDE DEF spot
  <1>4. Keeps(spot, places)
    <2>1. \A x, y : <<x, y>> \in Upward(places) <=> x \in places /\ y \in places /\ x < y BY DEF Upward
    <2> QED BY <1>3, <2>1 DEF Arranges, Keeps
  <1>5. OnlyAt(list, places) = Arranged(list, places, Upward(places)) BY DEF OnlyAt, Upward
  <1> QED BY <1>3, <1>4, <1>5

===============================================================================
