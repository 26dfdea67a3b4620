--------------------------- MODULE Schema_proofs ---------------------------
(***************************************************************************)
(* Proofs about the operators of module Schema: what binary search finds,  *)
(* that the sort sorts, that a table is found by its name, and how lists   *)
(* are laid out when they are flattened.                                   *)
(*                                                                         *)
(* Recursive functions are shown to exist, and what they compute is shown  *)
(* by induction, with sets in the place of predicates: a set of numbers    *)
(* that has 0, and with a number the next, has them all.                   *)
(***************************************************************************)
EXTENDS Schema, FiniteSetTheorems, WellFoundedInduction, TLAPS

-----------------------------------------------------------------------------
(* Induction, over sets instead of predicates.                             *)

\* A set of natural numbers has a least one.
LEMMA Least ==
    ASSUME NEW S \in SUBSET Nat, S # {}
    PROVE  \E i \in S : \A j \in S : i <= j
<1>1. \E R : /\ IsWellFoundedOn(R, Nat)
             /\ \A a, b \in Nat : a < b => <<a, b>> \in R
  BY NatLessThanWellFounded DEF OpToRel
<1>2. PICK R : /\ IsWellFoundedOn(R, Nat)
               /\ \A a, b \in Nat : a < b => <<a, b>> \in R
  BY <1>1
<1>3. IsWellFoundedOn(R, Nat)
  BY <1>2
<1>4. PICK i \in S : \A j \in S : ~ (<<j, i>> \in R)
  BY <1>3, WFMin, Zenon
<1>5. \A j \in S : ~ (j < i)
  BY <1>2, <1>4
<1>6. \A j \in S : i <= j
  BY <1>5
<1> QED
  BY <1>6

\* Induction up to n.
LEMMA UpTo ==
    ASSUME NEW n \in Nat, NEW P, 0 \in P,
           \A i \in Nat : i < n /\ i \in P => i + 1 \in P
    PROVE  \A i \in 0..n : i \in P
<1> DEFINE Bad == {i \in 0..n : i \notin P}
<1>1. SUFFICES ASSUME Bad # {} PROVE FALSE
  OBVIOUS
<1>2. PICK i \in Bad : \A j \in Bad : i <= j
  <2>1. Bad \in SUBSET Nat
    OBVIOUS
  <2> HIDE DEF Bad
  <2> QED
    BY <1>1, <2>1, Least
<1>3. i \in 0..n /\ i \notin P /\ i # 0
  BY <1>2
<1>4. i - 1 \in Nat /\ i - 1 < n /\ i - 1 \in 0..n /\ (i - 1) + 1 = i
  BY <1>3
<1>5. i - 1 \in P
  <2>1. i - 1 \notin Bad
    BY <1>2, <1>4
  <2> QED
    BY <1>4, <2>1
<1>6. (i - 1) + 1 \in P
  BY <1>4, <1>5
<1> QED
  BY <1>3, <1>4, <1>6

IsRecursive(f, n, base, H) ==
    f[0] = base /\ \A i \in 1..n : f[i] = H[<<f[i - 1], i>>]

\* A function defined by recursion over 0..n exists; H is the recursive case.
LEMMA RecursiveFunction ==
    ASSUME NEW n \in Nat, NEW T, NEW base \in T, NEW H \in [T \X Nat -> T]
    PROVE  \E f \in [0..n -> T] : IsRecursive(f, n, base, H)
<1> DEFINE Good(k) == \E f \in [0..k -> T] :
                         /\ f[0] = base
                         /\ \A i \in 1..k : f[i] = H[<<f[i - 1], i>>]
           P == {k \in Nat : Good(k)}
<1>1. 0 \in P
  <2> DEFINE f == [i \in 0..0 |-> base]
  <2>1. f \in [0..0 -> T] /\ f[0] = base /\ 1..0 = {}
    OBVIOUS
  <2> HIDE DEF f
  <2>2. Good(0)
    BY <2>1
  <2> QED
    BY <2>2
<1>2. ASSUME NEW k \in Nat, k \in P PROVE k + 1 \in P
  <2>1. PICK f \in [0..k -> T] : /\ f[0] = base
                                 /\ \A i \in 1..k : f[i] = H[<<f[i - 1], i>>]
    BY <1>2
  <2> DEFINE g == [i \in 0..(k + 1) |-> IF i <= k THEN f[i]
                                        ELSE H[<<f[k], k + 1>>]]
  <2>2. f[k] \in T /\ H[<<f[k], k + 1>>] \in T
    OBVIOUS
  <2>3. g \in [0..(k + 1) -> T] /\ g[0] = base
    BY <2>1, <2>2
  <2>4. ASSUME NEW i \in 1..(k + 1) PROVE g[i] = H[<<g[i - 1], i>>]
    <3>1. CASE i <= k
      BY <2>1, <3>1
    <3>2. CASE i = k + 1
      <4>1. g[k + 1] = H[<<f[k], k + 1>>] /\ g[k] = f[k] /\ i - 1 = k
        BY <3>2
      <4> QED
        BY <3>2, <4>1
    <3> QED
      BY <3>1, <3>2
  <2> HIDE DEF g
  <2>5. Good(k + 1)
    BY <2>3, <2>4
  <2> QED
    BY <2>5
<1>3. \A i \in 0..n : i \in P
  <2> HIDE DEF P
  <2> QED
    BY <1>1, <1>2, UpTo
<1>4. n \in P
  BY <1>3
<1> QED
  BY <1>4 DEF IsRecursive

\* So does one that is defined by a tail call on a smaller argument: w measures
\* the arguments, step is the next one, and Done those that need none.
IsTailRecursive(f, S, Done, result, step) ==
    \A r \in S : f[r] = IF r \in Done THEN result[r] ELSE f[step[r]]

LEMMA TailRecursion ==
    ASSUME NEW S, NEW T, NEW w \in [S -> Nat], NEW Done,
           NEW result \in [S -> T], NEW step \in [S -> S],
           \A r \in S \ Done : w[step[r]] < w[r], NEW n \in Nat,
           \A r \in S : w[r] <= n
    PROVE  \E f \in [S -> T] : IsTailRecursive(f, S, Done, result, step)
<1> DEFINE Good(k) == \E f \in [S -> T] : \A r \in S : w[r] <= k =>
                         f[r] = IF r \in Done THEN result[r] ELSE f[step[r]]
           P == {k \in Nat : Good(k)}
<1>1. 0 \in P
  <2>1. \A r \in S : w[r] <= 0 => r \in Done
    <3> SUFFICES ASSUME NEW r \in S, w[r] <= 0, r \notin Done PROVE FALSE
      OBVIOUS
    <3>1. w[r] \in Nat /\ w[step[r]] \in Nat /\ w[step[r]] < w[r]
      OBVIOUS
    <3> QED
      BY <3>1
  <2>2. Good(0)
    BY <2>1
  <2> QED
    BY <2>2
<1>2. ASSUME NEW k \in Nat, k \in P PROVE k + 1 \in P
  <2>1. PICK f \in [S -> T] : \A r \in S : w[r] <= k =>
           f[r] = IF r \in Done THEN result[r] ELSE f[step[r]]
    BY <1>2
  <2> DEFINE g == [r \in S |-> IF w[r] <= k THEN f[r]
                               ELSE IF r \in Done THEN result[r]
                               ELSE f[step[r]]]
  <2>2. g \in [S -> T]
    OBVIOUS
  <2>3. ASSUME NEW r \in S, w[r] <= k + 1
        PROVE  g[r] = IF r \in Done THEN result[r] ELSE g[step[r]]
    <3>1. CASE r \in Done
      BY <2>1, <3>1
    <3>2. CASE r \notin Done
      <4>1. step[r] \in S /\ w[r] \in Nat /\ w[step[r]] \in Nat
            /\ w[step[r]] < w[r]
        BY <3>2
      <4>2. w[step[r]] <= k
        BY <2>3, <4>1
      <4>3. g[step[r]] = f[step[r]]
        BY <4>1, <4>2
      <4>4. g[r] = f[step[r]]
        BY <2>1, <3>2
      <4> QED
        BY <3>2, <4>3, <4>4
    <3> QED
      BY <3>1, <3>2
  <2> HIDE DEF g
  <2>4. Good(k + 1)
    BY <2>2, <2>3
  <2> QED
    BY <2>4
<1>3. \A i \in 0..n : i \in P
  <2> HIDE DEF P
  <2> QED
    BY <1>1, <1>2, UpTo
<1>4. PICK f \in [S -> T] : \A r \in S : w[r] <= n =>
         f[r] = IF r \in Done THEN result[r] ELSE f[step[r]]
  <2>1. n \in P
    BY <1>3
  <2> QED
    BY <2>1
<1> QED
  BY <1>4 DEF IsTailRecursive

-----------------------------------------------------------------------------
(* Binary search.                                                          *)

Places(keys) == (0..Len(keys)) \X (0..Len(keys))

LEMMA PlacesAre ==
    ASSUME NEW keys, Len(keys) \in Nat, NEW r \in Places(keys)
    PROVE  /\ r = <<r[1], r[2]>>
           /\ r[1] \in Nat /\ r[2] \in Nat
           /\ r[1] <= Len(keys) /\ r[2] <= Len(keys)
BY DEF Places

\* The middle is inside, and each half is smaller.
LEMMA HalfIsSmaller ==
    ASSUME NEW keys, Len(keys) \in Nat, NEW x, NEW r \in Places(keys),
           r[1] < r[2]
    PROVE  /\ Middle(r) \in Nat /\ r[1] <= Middle(r) /\ Middle(r) < r[2]
           /\ Half(keys, x, r) \in Places(keys)
           /\ Half(keys, x, r)[2] - Half(keys, x, r)[1] < r[2] - r[1]
<1>1. r[1] \in Nat /\ r[2] \in Nat /\ r[2] <= Len(keys)
  BY PlacesAre
<1>2. Middle(r) \in Nat /\ r[1] <= Middle(r) /\ Middle(r) < r[2]
  BY <1>1 DEF Middle
<1> DEFINE m == Middle(r)
           a == <<m + 1, r[2]>>
           b == <<r[1], m>>
<1>3. Half(keys, x, r) = a \/ Half(keys, x, r) = b
  BY DEF Half
<1> HIDE DEF m
<1>4. m \in Nat /\ r[1] <= m /\ m < r[2]
  BY <1>2 DEF m
<1>5. a \in Places(keys) /\ b \in Places(keys)
  BY <1>1, <1>4 DEF Places
<1>6. a[2] - a[1] < r[2] - r[1] /\ b[2] - b[1] < r[2] - r[1]
  BY <1>1, <1>4
<1> HIDE DEF a, b
<1> QED
  BY <1>2, <1>3, <1>5, <1>6

\* The function that BinarySearch defines exists.
LEMMA SearchFunction ==
    ASSUME NEW keys, Len(keys) \in Nat, NEW x
    PROVE  \E f :
              /\ \A r \in Places(keys) :
                    f[r] = IF r[1] >= r[2] THEN None
                           ELSE IF At(keys, Middle(r)) = x THEN Middle(r)
                           ELSE f[Half(keys, x, r)]
              /\ BinarySearch(keys, x) = f[<<0, Len(keys)>>]
<1> DEFINE S == Places(keys)
           T == Nat \cup {None}
           Body(f, r) == IF r[1] >= r[2] THEN None
                         ELSE IF At(keys, Middle(r)) = x THEN Middle(r)
                         ELSE f[Half(keys, x, r)]
           Done == {r \in S : r[1] >= r[2] \/ At(keys, Middle(r)) = x}
           w == [r \in S |-> IF r[1] >= r[2] THEN 0 ELSE r[2] - r[1]]
           result == [r \in S |-> IF r[1] >= r[2] THEN None ELSE Middle(r)]
           step == [r \in S |-> IF r[1] >= r[2] THEN r ELSE Half(keys, x, r)]
<1>1. \A r \in S : r[1] \in Nat /\ r[2] \in Nat /\ r[2] <= Len(keys)
  BY PlacesAre
<1>2. \A r \in S : r[1] < r[2] =>
         /\ Middle(r) \in Nat /\ Half(keys, x, r) \in S
         /\ Half(keys, x, r)[2] - Half(keys, x, r)[1] < r[2] - r[1]
  BY HalfIsSmaller
<1> HIDE DEF S
<1>3. w \in [S -> Nat] /\ \A r \in S : w[r] <= Len(keys)
  BY <1>1
<1>4. result \in [S -> T]
  BY <1>1, <1>2
<1>5. step \in [S -> S]
  BY <1>1, <1>2
<1>6. ASSUME NEW r \in S \ Done PROVE w[step[r]] < w[r]
  <2> DEFINE h == Half(keys, x, r)
  <2>1. r \in S /\ r[1] \in Nat /\ r[2] \in Nat /\ r[1] < r[2]
    BY <1>1
  <2>2. h \in S /\ h[2] - h[1] < r[2] - r[1] /\ h[1] \in Nat /\ h[2] \in Nat
    BY <1>1, <1>2, <2>1
  <2>3. step[r] = h /\ w[r] = r[2] - r[1]
    BY <2>1
  <2> HIDE DEF h
  <2>4. w[h] = 0 \/ w[h] = h[2] - h[1]
    BY <2>2
  <2> HIDE DEF w, step
  <2>5. 0 < r[2] - r[1]
    BY <2>1
  <2> QED
    BY <2>2, <2>3, <2>4, <2>5
<1>7. PICK f \in [S -> T] : IsTailRecursive(f, S, Done, result, step)
  <2>1. \A r \in S \ Done : w[step[r]] < w[r]
    BY <1>6
  <2>2. w \in [S -> Nat]
    BY <1>3
  <2>3. \A r \in S : w[r] <= Len(keys)
    BY <1>3
  <2> HIDE DEF w, Done, result, step, T
  <2> QED
    BY <1>4, <1>5, <2>1, <2>2, <2>3, TailRecursion
<1>8. ASSUME NEW r \in S PROVE f[r] = Body(f, r)
  <2>1. r[1] \in Nat /\ r[2] \in Nat
    BY <1>1
  <2>2. CASE r[1] >= r[2]
    BY <1>7, <2>2 DEF IsTailRecursive
  <2>3. CASE ~ (r[1] >= r[2]) /\ At(keys, Middle(r)) = x
    BY <1>7, <2>3 DEF IsTailRecursive
  <2>4. CASE ~ (r[1] >= r[2]) /\ At(keys, Middle(r)) # x
    <3>1. r \notin Done /\ step[r] = Half(keys, x, r)
      BY <2>4
    <3>2. f[r] = f[step[r]]
      BY <1>7, <3>1 DEF IsTailRecursive
    <3> QED
      BY <2>4, <3>1, <3>2
  <2> QED
    BY <2>2, <2>3, <2>4
<1> DEFINE Def(g) == g = [r \in S |-> Body(g, r)]
<1>9. Def(f)
  BY <1>8
<1> DEFINE g == CHOOSE h : Def(h)
<1>10. Def(g)
  <2> HIDE DEF Def
  <2> QED
    BY <1>9
<1>11. BinarySearch(keys, x) = g[<<0, Len(keys)>>]
  BY DEF BinarySearch, S, Places
<1>12. \A r \in S : g[r] = Body(g, r)
  BY <1>10
<1> HIDE DEF g
<1> QED
  BY <1>11, <1>12 DEF S

Sorted(keys) == \A i, j \in 0..(Len(keys) - 1) : i < j => At(keys, i) <= At(keys, j)

\* slice::binary_search: what it finds has the key that is looked for, and if
\* the keys are in order and one of them is looked for, it finds one.
THEOREM SearchFinds ==
    ASSUME NEW keys, Len(keys) \in Nat, NEW x
    PROVE  LET found == BinarySearch(keys, x)
           IN  /\ found # None =>
                     found \in 0..(Len(keys) - 1) /\ At(keys, found) = x
               /\ /\ keys \in Seq(Int) /\ x \in Int /\ None \notin Nat
                  /\ Sorted(keys)
                  /\ \E i \in 0..(Len(keys) - 1) : At(keys, i) = x
                  => found # None
<1> DEFINE S == Places(keys)
           n == Len(keys)
<1>1. PICK f : /\ \A r \in S :
                    f[r] = IF r[1] >= r[2] THEN None
                           ELSE IF At(keys, Middle(r)) = x THEN Middle(r)
                           ELSE f[Half(keys, x, r)]
               /\ BinarySearch(keys, x) = f[<<0, n>>]
  BY SearchFunction
<1> DEFINE Sound(r) == f[r] # None => f[r] \in r[1]..(r[2] - 1) /\ At(keys, f[r]) = x
           Ordered == keys \in Seq(Int) /\ x \in Int /\ None \notin Nat /\ Sorted(keys)
           Complete(r) == Ordered /\ (\E i \in r[1]..(r[2] - 1) : At(keys, i) = x)
                          => f[r] # None
           P == {k \in Nat : \A r \in S : r[2] - r[1] <= k => Sound(r) /\ Complete(r)}
<1>2. \A r \in S : r[1] \in Nat /\ r[2] \in Nat /\ r[2] <= n
  BY PlacesAre
<1>3. ASSUME NEW r \in S, r[1] >= r[2] PROVE Sound(r) /\ Complete(r)
  <2>1. f[r] = None
    BY <1>1, <1>3
  <2>2. r[1]..(r[2] - 1) = {}
    BY <1>2, <1>3
  <2> QED
    BY <2>1, <2>2
<1>4. ASSUME NEW r \in S, r[1] < r[2],
             Sound(Half(keys, x, r)) /\ Complete(Half(keys, x, r))
      PROVE  Sound(r) /\ Complete(r)
  <2> DEFINE m == Middle(r)
             h == Half(keys, x, r)
  <2>1. r[1] \in Nat /\ r[2] \in Nat /\ r[2] <= n
    BY <1>2
  <2>2. m \in Nat /\ r[1] <= m /\ m < r[2]
    BY <1>4, HalfIsSmaller
  <2>3. CASE At(keys, m) = x
    <3>1. f[r] = m
      BY <1>1, <1>4, <2>1, <2>3
    <3>2. Ordered => m # None
      BY <2>2
    <3> HIDE DEF Ordered
    <3> QED
      BY <2>1, <2>2, <2>3, <3>1, <3>2
  <2>4. CASE At(keys, m) # x
    <3>1. f[r] = f[h]
      BY <1>1, <1>4, <2>1, <2>4
    <3>2. \/ h = <<m + 1, r[2]>> /\ At(keys, m) < x
          \/ h = <<r[1], m>> /\ ~ (At(keys, m) < x)
      BY DEF Half
    <3> HIDE DEF m, h
    <3>3. h[1] \in Nat /\ h[2] \in Nat /\ r[1] <= h[1] /\ h[2] <= r[2]
      BY <2>1, <2>2, <3>2
    <3>4. Sound(r)
      <4>1. f[h] # None => f[h] \in h[1]..(h[2] - 1) /\ At(keys, f[h]) = x
        BY <1>4 DEF h
      <4> QED
        BY <2>1, <3>1, <3>3, <4>1
    <3>5. ASSUME Ordered, NEW i \in r[1]..(r[2] - 1), At(keys, i) = x
          PROVE  i \in h[1]..(h[2] - 1)
      <4>1. \A j \in 0..(n - 1) : At(keys, j) \in Int
        BY <3>5 DEF At
      <4>2. m \in 0..(n - 1) /\ i \in 0..(n - 1) /\ i # m
        BY SMTT(30), <2>1, <2>2, <2>4, <3>5
      <4>3. /\ i < m => At(keys, i) <= At(keys, m)
            /\ m < i => At(keys, m) <= At(keys, i)
        BY <3>5, <4>2 DEF Sorted
      <4>4. CASE h = <<m + 1, r[2]>> /\ At(keys, m) < x
        <5>1. ~ (i < m)
          BY <3>5, <4>1, <4>2, <4>3, <4>4
        <5> QED
          BY <2>1, <2>2, <4>2, <4>4, <5>1
      <4>5. CASE h = <<r[1], m>> /\ ~ (At(keys, m) < x)
        <5>1. ~ (m < i)
          <6>1. At(keys, m) \in Int /\ At(keys, i) \in Int /\ At(keys, i) = x
            BY <3>5, <4>1, <4>2
          <6>2. At(keys, m) > x
            BY <2>4, <4>5, <6>1
          <6> QED
            BY <4>3, <6>1, <6>2
        <5> QED
          BY <2>1, <2>2, <4>2, <4>5, <5>1
      <4> QED
        BY <3>2, <4>4, <4>5
    <3>6. Complete(r)
      <4>1. Ordered /\ (\E i \in h[1]..(h[2] - 1) : At(keys, i) = x) => f[h] # None
        BY <1>4 DEF h
      <4> HIDE DEF Ordered
      <4> QED
        BY <3>1, <3>5, <4>1
    <3> QED
      BY <3>4, <3>6
  <2> QED
    BY <2>3, <2>4
<1> HIDE DEF S
<1>5. 0 \in P
  <2>1. \A r \in S : r[2] - r[1] <= 0 => r[1] >= r[2]
    BY <1>2
  <2> HIDE DEF Sound, Complete
  <2> QED
    BY <1>3, <2>1
<1>6. ASSUME NEW k \in Nat, k \in P PROVE k + 1 \in P
  <2> SUFFICES ASSUME NEW r \in S, r[2] - r[1] <= k + 1
               PROVE  Sound(r) /\ Complete(r)
    OBVIOUS
  <2>1. CASE r[1] >= r[2]
    BY <1>3, <2>1
  <2>2. CASE r[1] < r[2]
    <3> DEFINE h == Half(keys, x, r)
    <3>1. h \in S /\ h[2] - h[1] < r[2] - r[1]
      BY <2>2, HalfIsSmaller DEF S
    <3>2. h[2] - h[1] <= k
      BY <1>2, <3>1
    <3> HIDE DEF h, Sound, Complete
    <3>3. Sound(h) /\ Complete(h)
      BY <1>6, <3>1, <3>2
    <3> QED
      BY <1>4, <2>2, <3>3 DEF h
  <2> QED
    BY <1>2, <2>1, <2>2
<1>7. n \in P
  <2>1. \A i \in 0..n : i \in P
    <3> HIDE DEF P
    <3> QED
      BY <1>5, <1>6, UpTo
  <2> QED
    BY <2>1
<1> DEFINE all == <<0, n>>
<1>8. all \in S /\ all[1] = 0 /\ all[2] = n /\ all[2] - all[1] <= n
  BY DEF S, Places
<1>9. Sound(all) /\ Complete(all)
  <2> HIDE DEF Sound, Complete, all
  <2> QED
    BY <1>7, <1>8
<1> HIDE DEF all
<1>10. BinarySearch(keys, x) = f[all]
  BY <1>1 DEF all
<1> QED
  BY <1>8, <1>9, <1>10

-----------------------------------------------------------------------------
(* Sorting.                                                                *)

Before(key, t, u) == key[t] < key[u] \/ (key[t] = key[u] /\ t < u)

LEMMA BeforeIsTotal ==
    ASSUME NEW S \in SUBSET Int, NEW key \in [S -> Int]
    PROVE  /\ \A t \in S : ~ Before(key, t, t)
           /\ \A t, u \in S : t # u => Before(key, t, u) \/ Before(key, u, t)
           /\ \A t, u, v \in S : Before(key, t, u) /\ Before(key, u, v)
                                 => Before(key, t, v)
<1>1. \A t \in S : key[t] \in Int /\ t \in Int
  OBVIOUS
<1> QED
  BY <1>1 DEF Before

\* Among finitely many there is a last one.
LEMMA LastExists ==
    ASSUME NEW S \in SUBSET Int, NEW key \in [S -> Int],
           NEW T \in SUBSET S, IsFiniteSet(T), T # {}
    PROVE  \E m \in T : \A u \in T \ {m} : Before(key, u, m)
<1> DEFINE HasLast(U) == \E m \in U : \A u \in U \ {m} : Before(key, u, m)
           P == {k \in Nat : \A U \in SUBSET S :
                    IsFiniteSet(U) /\ Cardinality(U) = k + 1 => HasLast(U)}
<1>1. 0 \in P
  <2> SUFFICES ASSUME NEW U \in SUBSET S, IsFiniteSet(U), Cardinality(U) = 1
               PROVE  HasLast(U)
    OBVIOUS
  <2>1. PICK x : U = {x}
    BY FS_Singleton
  <2> QED
    BY <2>1
<1>2. ASSUME NEW k \in Nat, k \in P PROVE k + 1 \in P
  <2> SUFFICES ASSUME NEW U \in SUBSET S, IsFiniteSet(U),
                      Cardinality(U) = (k + 1) + 1
               PROVE  HasLast(U)
    OBVIOUS
  <2>1. U # {}
    BY FS_EmptySet
  <2>2. PICK x \in U : TRUE
    BY <2>1
  <2>3. /\ IsFiniteSet(U \ {x})
        /\ Cardinality(U \ {x}) = (k + 1 + 1) - 1
    BY <2>2, FS_RemoveElement
  <2>4. Cardinality(U \ {x}) = k + 1
    BY <2>3
  <2>5. HasLast(U \ {x})
    <3>1. U \ {x} \in SUBSET S
      OBVIOUS
    <3> HIDE DEF HasLast
    <3> QED
      BY <1>2, <2>3, <2>4, <3>1
  <2>6. PICK y \in U \ {x} : \A u \in (U \ {x}) \ {y} : Before(key, u, y)
    BY <2>5
  <2>7. x \in S /\ y \in S /\ x # y
    BY <2>2, <2>6
  <2>8. CASE Before(key, x, y)
    <3>1. \A u \in U \ {y} : Before(key, u, y)
      BY <2>6, <2>8
    <3> QED
      BY <3>1, <2>6
  <2>9. CASE Before(key, y, x)
    <3>1. ASSUME NEW u \in U \ {x} PROVE Before(key, u, x)
      <4>1. u \in S /\ (u = y \/ Before(key, u, y))
        BY <2>6
      <4> QED
        BY <2>7, <2>9, <4>1, BeforeIsTotal
    <3> QED
      BY <3>1, <2>2
  <2> QED
    BY <2>7, <2>8, <2>9, BeforeIsTotal
<1>3. Cardinality(T) \in Nat /\ Cardinality(T) # 0
  BY FS_CardinalityType, FS_EmptySet
<1> DEFINE n == Cardinality(T) - 1
<1>4. n \in Nat /\ n + 1 = Cardinality(T)
  BY <1>3
<1> HIDE DEF n
<1>5. \A i \in 0..n : i \in P
  <2> HIDE DEF P
  <2> QED
    BY <1>1, <1>2, <1>4, UpTo
<1>6. n \in P
  BY <1>4, <1>5
<1>7. HasLast(T)
  <2> HIDE DEF HasLast
  <2> QED
    BY <1>4, <1>6
<1> QED
  BY <1>7

\* A sequence in the order of the keys, without equals.
InKeyOrder(key, s, n) ==
    \A i, j \in 1..n : i < j => Before(key, s[i], s[j])

LEMMA OrderExists ==
    ASSUME NEW S \in SUBSET Int, IsFiniteSet(S), NEW key \in [S -> Int]
    PROVE  \E s \in [1..Cardinality(S) -> S] :
              InKeyOrder(key, s, Cardinality(S))
<1> DEFINE Ordered(T, k) == \E s \in [1..k -> T] : InKeyOrder(key, s, k)
           P == {k \in Nat : \A T \in SUBSET S :
                    IsFiniteSet(T) /\ Cardinality(T) = k => Ordered(T, k)}
<1>1. 0 \in P
  <2> SUFFICES ASSUME NEW T \in SUBSET S PROVE Ordered(T, 0)
    OBVIOUS
  <2> DEFINE s == [i \in 1..0 |-> CHOOSE x \in T : TRUE]
  <2>1. s \in [1..0 -> T] /\ InKeyOrder(key, s, 0)
    BY DEF InKeyOrder
  <2> QED
    BY <2>1
<1>2. ASSUME NEW k \in Nat, k \in P PROVE k + 1 \in P
  <2> SUFFICES ASSUME NEW T \in SUBSET S, IsFiniteSet(T),
                      Cardinality(T) = k + 1
               PROVE  Ordered(T, k + 1)
    OBVIOUS
  <2>1. T # {}
    BY FS_EmptySet
  <2>2. PICK m \in T : \A u \in T \ {m} : Before(key, u, m)
    BY <2>1, LastExists
  <2>3. IsFiniteSet(T \ {m}) /\ Cardinality(T \ {m}) = (k + 1) - 1
    BY FS_RemoveElement
  <2>4. Cardinality(T \ {m}) = k
    BY <2>3
  <2>5. Ordered(T \ {m}, k)
    <3>1. T \ {m} \in SUBSET S
      OBVIOUS
    <3> HIDE DEF Ordered
    <3> QED
      BY <1>2, <2>3, <2>4, <3>1
  <2>6. PICK s \in [1..k -> T \ {m}] : InKeyOrder(key, s, k)
    BY <2>5
  <2> DEFINE t == [i \in 1..(k + 1) |-> IF i = k + 1 THEN m ELSE s[i]]
  <2>7. \A i \in 1..k : t[i] = s[i] /\ s[i] \in T \ {m}
    OBVIOUS
  <2>8. t[k + 1] = m
    OBVIOUS
  <2>9. t \in [1..(k + 1) -> T]
    BY <2>2
  <2> HIDE DEF t
  <2>10. ASSUME NEW i \in 1..(k + 1), NEW j \in 1..(k + 1), i < j
         PROVE  Before(key, t[i], t[j])
    <3>1. i \in 1..k
      BY <2>10
    <3>2. CASE j = k + 1
      BY <2>2, <2>7, <2>8, <3>1, <3>2
    <3>3. CASE j # k + 1
      <4>1. j \in 1..k
        BY <3>3
      <4> QED
        BY <2>6, <2>7, <2>10, <3>1, <4>1 DEF InKeyOrder
    <3> QED
      BY <3>2, <3>3
  <2>11. InKeyOrder(key, t, k + 1)
    BY <2>10 DEF InKeyOrder
  <2> QED
    BY <2>9, <2>11
<1>3. Cardinality(S) \in Nat
  BY FS_CardinalityType
<1>4. \A i \in 0..Cardinality(S) : i \in P
  <2> HIDE DEF P
  <2> QED
    BY <1>1, <1>2, <1>3, UpTo
<1>5. Cardinality(S) \in P
  BY <1>3, <1>4
<1>6. Ordered(S, Cardinality(S))
  <2> HIDE DEF Ordered
  <2> QED
    BY <1>5
<1> QED
  BY <1>6

\* sort_by_key: SortedBy lists all of S, each once, in the order of the keys.
THEOREM SortedBySorts ==
    ASSUME NEW S \in SUBSET Int, IsFiniteSet(S), NEW key \in [S -> Int]
    PROVE  /\ Cardinality(S) \in Nat
           /\ SortedBy(key, S) \in Seq(S)
           /\ Len(SortedBy(key, S)) = Cardinality(S)
           /\ InKeyOrder(key, SortedBy(key, S), Cardinality(S))
           /\ \A x \in S : \E i \in 1..Cardinality(S) :
                 SortedBy(key, S)[i] = x
           /\ \A i, j \in 1..Cardinality(S) :
                 SortedBy(key, S)[i] = SortedBy(key, S)[j] => i = j
<1> DEFINE n == Cardinality(S)
           s == SortedBy(key, S)
<1>1. n \in Nat
  BY FS_CardinalityType
<1>2. s \in [1..n -> S] /\ InKeyOrder(key, s, n)
  <2>1. s = CHOOSE q \in [1..n -> S] : InKeyOrder(key, q, n)
    BY DEF SortedBy, InKeyOrder, Before
  <2> QED
    BY <2>1, OrderExists
<1> HIDE DEF n, s
<1>3. s \in Seq(S) /\ Len(s) = n
  BY <1>1, <1>2
<1>4. ASSUME NEW i \in 1..n, NEW j \in 1..n, s[i] = s[j] PROVE i = j
  <2>1. s[i] \in S /\ ~ Before(key, s[i], s[i])
    BY <1>2, BeforeIsTotal
  <2>2. ~ (i < j) /\ ~ (j < i)
    BY <1>2, <1>4, <2>1 DEF InKeyOrder
  <2> QED
    BY <1>1, <2>2
<1>5. s \in Injection(1..n, S)
  BY <1>2, <1>4 DEF Injection, IsInjective
<1>6. Cardinality(1..n) = n
  BY <1>1, FS_Interval
<1>7. s \in Surjection(1..n, S)
  BY <1>5, <1>6, FS_Injection DEF n
<1>8. \A x \in S : \E i \in 1..n : s[i] = x
  BY <1>7 DEF Surjection
<1> QED
  BY <1>1, <1>2, <1>3, <1>4, <1>8 DEF n, s

-----------------------------------------------------------------------------
(* Looking a table up.                                                     *)

LEMMA PositionFinds ==
    ASSUME NEW s, Len(s) \in Nat, NEW x, None \notin Nat
    PROVE  /\ Position(s, x) # None =>
                 Position(s, x) \in Indices(s) /\ At(s, Position(s, x)) = x
           /\ (\E i \in 1..Len(s) : s[i] = x) => Position(s, x) # None
<1> DEFINE I == {i \in 1..Len(s) : s[i] = x}
           p == SelectInSeq(s, LAMBDA y : y = x)
<1>1. p = IF I # {} THEN Min(I) ELSE 0
  BY DEF SelectInSeq
<1>2. I # {} => Min(I) \in I
  <2>1. ASSUME I # {} PROVE \E m \in I : \A j \in I : m <= j
    <3>1. I \in SUBSET Nat
      OBVIOUS
    <3> HIDE DEF I
    <3> QED
      BY <2>1, <3>1, Least
  <2> HIDE DEF I
  <2> QED
    BY <2>1 DEF Min
<1>3. Position(s, x) = IF p = 0 THEN None ELSE p - 1
  BY DEF Position
<1>4. CASE I = {}
  <2>1. p = 0
    BY <1>1, <1>4
  <2>2. Position(s, x) = None
    BY <1>3, <2>1
  <2> QED
    BY <1>4, <2>2
<1>5. CASE I # {}
  <2>1. p \in I
    BY <1>1, <1>2, <1>5
  <2> HIDE DEF p
  <2>2. p \in 1..Len(s) /\ s[p] = x
    BY <2>1
  <2>3. Position(s, x) = p - 1 /\ p - 1 \in Nat
    BY <1>3, <2>2
  <2> QED
    BY <2>2, <2>3 DEF Indices, At
<1> QED
  BY <1>4, <1>5

\* Through the index of the tables by name, binary search finds a table of
\* the name looked for if there is one, and none otherwise.
LEMMA IndexFinds ==
    ASSUME NEW s, Len(s.tables) \in Nat,
           \A t \in Tables(s) : TableName(s, t) \in Int,
           NEW by_name, by_name = SortedByName(s.tables),
           NEW symbol \in Int, None \notin Nat
    PROVE  LET slot == BinarySearch(KeysByName(s, by_name), symbol)
           IN  /\ by_name \in Seq(Tables(s))
               /\ Len(by_name) = Len(s.tables)
               /\ slot # None => /\ slot \in Indices(by_name)
                                 /\ At(by_name, slot) \in Tables(s)
                                 /\ TableName(s, At(by_name, slot)) = symbol
               /\ (\E t \in Tables(s) : TableName(s, t) = symbol)
                     => slot # None
<1> DEFINE T == Tables(s)
           key == [t \in T |-> TableName(s, t)]
           n == Len(s.tables)
           keys == KeysByName(s, by_name)
           slot == BinarySearch(keys, symbol)
<1>1. IsFiniteSet(T) /\ Cardinality(T) = n
  <2>1. T = 0..(n - 1) /\ n \in Nat
    BY DEF Tables, Indices
  <2> HIDE DEF T, n
  <2>2. /\ IsFiniteSet(0..(n - 1))
        /\ Cardinality(0..(n - 1)) = IF 0 > n - 1 THEN 0 ELSE n - 1 - 0 + 1
    BY <2>1, FS_Interval
  <2> QED
    BY <2>1, <2>2
<1>2. T \in SUBSET Int
  BY DEF Tables, Indices
<1>3. key \in [T -> Int]
  OBVIOUS
<1>4. by_name = SortedBy(key, T)
  BY DEF SortedByName, Tables, TableName
<1> HIDE DEF T, key
<1>5. /\ by_name \in Seq(T) /\ Len(by_name) = n
      /\ InKeyOrder(key, by_name, n)
      /\ \A t \in T : \E i \in 1..n : by_name[i] = t
  BY <1>1, <1>2, <1>3, <1>4, SortedBySorts
<1>6. \A t \in T : key[t] = TableName(s, t)
  BY DEF key
<1>7. /\ keys = [i \in 1..n |-> TableName(s, by_name[i])]
      /\ \A i \in 1..n : by_name[i] \in T /\ TableName(s, by_name[i]) \in Int
  BY <1>5 DEF KeysByName, T
<1>8. keys \in Seq(Int) /\ Len(keys) = n
  BY <1>7
<1>9. \A i \in 1..n : keys[i] = TableName(s, by_name[i])
                      /\ keys[i] = key[by_name[i]]
  BY <1>6, <1>7
<1> HIDE DEF keys
<1>10. Sorted(keys)
  <2> SUFFICES ASSUME NEW i \in 0..(n - 1), NEW j \in 0..(n - 1), i < j
               PROVE  keys[i + 1] <= keys[j + 1]
    BY <1>8 DEF Sorted, At
  <2>1. i + 1 \in 1..n /\ j + 1 \in 1..n /\ i + 1 < j + 1
    OBVIOUS
  <2>2. Before(key, by_name[i + 1], by_name[j + 1])
    BY <1>5, <2>1 DEF InKeyOrder
  <2>3. /\ keys[i + 1] = key[by_name[i + 1]] /\ keys[j + 1] = key[by_name[j + 1]]
        /\ keys[i + 1] \in Int /\ keys[j + 1] \in Int
    BY <1>7, <1>9, <2>1
  <2> QED
    BY <2>2, <2>3 DEF Before
<1>11. /\ slot # None => slot \in 0..(n - 1) /\ At(keys, slot) = symbol
       /\ (\E i \in 0..(n - 1) : At(keys, i) = symbol) => slot # None
  BY <1>8, <1>10, SearchFinds
<1> HIDE DEF slot
<1>12. ASSUME slot # None
       PROVE  /\ slot \in Indices(by_name) /\ At(by_name, slot) \in T
              /\ TableName(s, At(by_name, slot)) = symbol
  <2>1. slot \in 0..(n - 1) /\ keys[slot + 1] = symbol
    BY <1>11, <1>12 DEF At
  <2>2. slot + 1 \in 1..n
    BY <2>1
  <2> QED
    BY <1>5, <1>7, <1>9, <2>1, <2>2 DEF Indices, At
<1>13. ASSUME NEW t \in T, TableName(s, t) = symbol PROVE slot # None
  <2>1. PICK i \in 1..n : by_name[i] = t
    BY <1>5
  <2>2. i - 1 \in 0..(n - 1) /\ (i - 1) + 1 = i
    OBVIOUS
  <2>3. At(keys, i - 1) = symbol
    BY <1>9, <1>13, <2>1, <2>2 DEF At
  <2> QED
    BY <1>11, <2>2, <2>3
<1> QED
  BY <1>5, <1>12, <1>13 DEF T, slot, keys

\* table_by_symbol finds a table exactly when one has the name, and then one
\* that has it.
THEOREM LookupFinds ==
    ASSUME NEW s, Len(s.tables) \in Nat,
           \A t \in Tables(s) : TableName(s, t) \in Int,
           s.by_name = SortedByName(s.tables),
           NEW symbol \in Int, None \notin Nat
    PROVE  /\ TableBySymbol(s, symbol) # None <=>
                 \E t \in Tables(s) : TableName(s, t) = symbol
           /\ TableBySymbol(s, symbol) # None =>
                 /\ TableBySymbol(s, symbol) \in Tables(s)
                 /\ TableName(s, TableBySymbol(s, symbol)) = symbol
<1> DEFINE slot == BinarySearch(KeysByName(s, s.by_name), symbol)
           t == At(s.by_name, slot)
<1>1. /\ slot # None => t \in Tables(s) /\ TableName(s, t) = symbol
      /\ (\E u \in Tables(s) : TableName(s, u) = symbol) => slot # None
  BY IndexFinds
<1>2. TableBySymbol(s, symbol) = IF slot = None THEN None ELSE TableAt(s, t)
  BY DEF TableBySymbol
<1> HIDE DEF slot
<1>3. t \in Tables(s) => TableAt(s, t) = t /\ t # None
  BY DEF TableAt, Tables, Indices
<1> QED
  BY <1>1, <1>2, <1>3

-----------------------------------------------------------------------------
(* Lists of lists.                                                         *)

LEMMA ConcatAt ==
    ASSUME NEW S, NEW s \in Seq(S), NEW t \in Seq(S)
    PROVE  /\ s \o t \in Seq(S)
           /\ Len(s \o t) = Len(s) + Len(t)
           /\ \A i \in 1..Len(s) :
                 i \in 1..Len(s \o t) /\ (s \o t)[i] = s[i]
           /\ \A j \in 1..Len(t) :
                 Len(s) + j \in 1..Len(s \o t) /\ (s \o t)[Len(s) + j] = t[j]
OBVIOUS

LEMMA ConcatIs ==
    ASSUME NEW S, NEW s \in Seq(S), NEW t \in Seq(S), NEW u, u = s \o t
    PROVE  /\ \A i \in 1..Len(s) : i \in 1..Len(u) /\ u[i] = s[i]
           /\ \A j \in 1..Len(t) :
                 Len(s) + j \in 1..Len(u) /\ u[Len(s) + j] = t[j]
  BY ConcatAt

\* The function that FlattenSeq defines exists.
LEMMA FlattenFunction ==
    ASSUME NEW S, NEW seqs \in Seq(Seq(S)), Len(seqs) # 0
    PROVE  \E f \in [1..Len(seqs) -> Seq(S)] :
              /\ f[1] = seqs[1]
              /\ \A i \in 2..Len(seqs) : f[i] = f[i - 1] \o seqs[i]
              /\ FlattenSeq(seqs) = f[Len(seqs)]
<1> DEFINE n == Len(seqs)
           T == Seq(S)
           base == seqs[1]
           H == [p \in T \X Nat |->
                    IF p[2] + 1 \in 1..n THEN p[1] \o seqs[p[2] + 1] ELSE p[1]]
<1>1. n \in Nat /\ n - 1 \in Nat /\ \A i \in 1..n : seqs[i] \in T
  OBVIOUS
<1>2. base \in T
  BY <1>1
<1>3. H \in [T \X Nat -> T]
  <2> SUFFICES ASSUME NEW p \in T \X Nat
               PROVE  (IF p[2] + 1 \in 1..n THEN p[1] \o seqs[p[2] + 1]
                       ELSE p[1]) \in T
    OBVIOUS
  <2>1. p[1] \in Seq(S) /\ p[2] \in Nat
    OBVIOUS
  <2>2. CASE p[2] + 1 \in 1..n
    <3>1. seqs[p[2] + 1] \in Seq(S)
      BY <1>1, <2>2
    <3> QED
      BY <2>1, <2>2, <3>1
  <2> QED
    BY <2>1, <2>2
<1> DEFINE l == n - 1
<1>4. PICK g \in [0..l -> T] : IsRecursive(g, l, base, H)
  <2>1. l \in Nat
    BY <1>1
  <2> HIDE DEF l, T, base, H
  <2> QED
    BY <1>2, <1>3, <2>1, RecursiveFunction
<1>5. ASSUME NEW i \in 1..(n - 1) PROVE g[i] = g[i - 1] \o seqs[i + 1]
  <2>4. i - 1 \in 0..l /\ i + 1 \in 1..n /\ i \in 1..l /\ i \in Nat
    BY <1>1
  <2>1. g[i - 1] \in T
    <3> HIDE DEF T, l
    <3> QED
      BY <2>4
  <2>2. <<g[i - 1], i>> \in T \X Nat
    BY <2>1, <2>4
  <2>3. H[<<g[i - 1], i>>] = g[i - 1] \o seqs[i + 1]
    <3> HIDE DEF T
    <3> QED
      BY <2>2, <2>4
  <2> HIDE DEF H
  <2> QED
    BY <1>4, <2>3, <2>4 DEF IsRecursive
<1> DEFINE Body(f, i) == IF i = 1 THEN seqs[i] ELSE f[i - 1] \o seqs[i]
           Def(f) == f = [i \in 1..n |-> Body(f, i)]
           h == [i \in 1..n |-> g[i - 1]]
<1>6. \A i \in 1..n : h[i] = Body(h, i)
  <2> SUFFICES ASSUME NEW i \in 1..n PROVE h[i] = Body(h, i)
    OBVIOUS
  <2>1. CASE i = 1
    BY <1>1, <1>4, <2>1 DEF IsRecursive
  <2>2. CASE i # 1
    <3>1. i - 1 \in 1..(n - 1) /\ i - 1 \in 1..n /\ (i - 1) + 1 = i
      BY <1>1, <2>2
    <3>2. g[i - 1] = g[(i - 1) - 1] \o seqs[i]
      BY <1>5, <3>1
    <3>3. h[i] = g[i - 1] /\ h[i - 1] = g[(i - 1) - 1]
      BY <3>1
    <3> QED
      BY <2>2, <3>2, <3>3
  <2> QED
    BY <2>1, <2>2
<1>7. Def(h)
  BY <1>6
<1> DEFINE f == CHOOSE k : Def(k)
<1>8. Def(f)
  <2> HIDE DEF Def, h
  <2> QED
    BY <1>7
<1>9. FlattenSeq(seqs) = f[n]
  BY <1>1 DEF FlattenSeq
<1>10. \A i \in 1..n : f[i] = Body(f, i)
  BY <1>8
<1>11. f = [i \in 1..n |-> f[i]]
  BY ZenonT(60), <1>8
<1> HIDE DEF f
<1>12. \A i \in 1..n : f[i] \in Seq(S)
  <2> DEFINE P == {i \in Nat : i + 1 \in 1..n => f[i + 1] \in Seq(S)}
  <2>1. 0 \in P
    BY <1>1, <1>10
  <2>2. ASSUME NEW i \in Nat, i \in P PROVE i + 1 \in P
    <3> SUFFICES ASSUME i + 1 + 1 \in 1..n PROVE f[i + 1 + 1] \in Seq(S)
      OBVIOUS
    <3>1. i + 1 \in 1..n /\ (i + 1 + 1) - 1 = i + 1 /\ i + 1 + 1 # 1
      BY <1>1
    <3>2. f[i + 1] \in Seq(S)
      BY <2>2, <3>1
    <3>3. f[i + 1 + 1] = f[i + 1] \o seqs[i + 1 + 1]
      BY <1>10, <3>1
    <3>4. seqs[i + 1 + 1] \in Seq(S)
      BY <1>1
    <3> QED
      BY <3>2, <3>3, <3>4
  <2>3. \A i \in 0..n : i \in P
    <3> HIDE DEF P
    <3> QED
      BY <1>1, <2>1, <2>2, UpTo
  <2> SUFFICES ASSUME NEW i \in 1..n PROVE f[i] \in Seq(S)
    OBVIOUS
  <2>4. i - 1 \in 0..n /\ (i - 1) + 1 = i
    BY <1>1
  <2>5. i - 1 \in P
    BY <2>3, <2>4
  <2> QED
    BY <2>4, <2>5
<1>13. f \in [1..n -> Seq(S)]
  BY <1>11, <1>12
<1>14. f[1] = seqs[1]
  BY <1>1, <1>10
<1>15. ASSUME NEW i \in 2..n PROVE f[i] = f[i - 1] \o seqs[i]
  <2>1. i \in 1..n /\ i # 1
    BY <1>1
  <2> QED
    BY <1>10, <2>1
<1> QED
  BY <1>9, <1>13, <1>14, <1>15

\* Where each list starts in the flattened one.
IsLayout(off, seqs) ==
    /\ off \in [0..Len(seqs) -> Nat]
    /\ off[0] = 0
    /\ \A i \in 1..Len(seqs) : off[i] = off[i - 1] + Len(seqs[i])

IsFlattened(flat, off, seqs) ==
    /\ Len(flat) = off[Len(seqs)]
    /\ \A i \in 1..Len(seqs) : \A j \in 1..Len(seqs[i]) :
          /\ off[i - 1] + j \in 1..Len(flat)
          /\ flat[off[i - 1] + j] = seqs[i][j]

\* What encode writes for a list: the flattened list has the elements of each
\* part, one after the other, where the layout says.
THEOREM FlattenSeqIs ==
    ASSUME NEW S, NEW seqs \in Seq(Seq(S))
    PROVE  /\ FlattenSeq(seqs) \in Seq(S)
           /\ \E off : /\ IsLayout(off, seqs)
                       /\ IsFlattened(FlattenSeq(seqs), off, seqs)
<1> DEFINE n == Len(seqs)
           flat == FlattenSeq(seqs)
<1>1. n \in Nat /\ \A i \in 1..n : seqs[i] \in Seq(S)
  OBVIOUS
<1>2. CASE n = 0
  <2>1. flat = seqs /\ seqs = <<>>
    BY <1>2 DEF FlattenSeq
  <2> DEFINE off == [i \in 0..n |-> 0]
  <2>2. IsLayout(off, seqs)
    BY <1>2 DEF IsLayout
  <2>3. off[n] = 0
    BY <1>2
  <2> HIDE DEF off
  <2> QED
    BY <1>2, <2>1, <2>2, <2>3 DEF IsFlattened
<1>3. CASE n # 0
  <2>1. PICK f \in [1..n -> Seq(S)] :
           /\ f[1] = seqs[1]
           /\ \A i \in 2..n : f[i] = f[i - 1] \o seqs[i]
           /\ flat = f[n]
    BY <1>3, FlattenFunction
  <2> DEFINE off == [i \in 0..n |-> IF i = 0 THEN 0 ELSE Len(f[i])]
  <2>2. off \in [0..n -> Nat] /\ off[0] = 0
    BY <1>1
  <2>3. \A i \in 1..n : off[i] = Len(f[i])
    BY <1>1
  <2> HIDE DEF off
  <2>4. ASSUME NEW i \in 1..n PROVE off[i] = off[i - 1] + Len(seqs[i])
    <3>1. CASE i = 1
      BY <1>1, <2>1, <2>2, <2>3, <3>1
    <3>2. CASE i # 1
      <4>1. i \in 2..n /\ i - 1 \in 1..n
        BY <1>1, <3>2
      <4>2. f[i] = f[i - 1] \o seqs[i] /\ f[i - 1] \in Seq(S)
            /\ seqs[i] \in Seq(S)
        BY <1>1, <2>1, <4>1
      <4>3. Len(f[i]) = Len(f[i - 1]) + Len(seqs[i])
        BY <4>2
      <4> QED
        BY <2>3, <4>1, <4>3
    <3> QED
      BY <3>1, <3>2
  <2> DEFINE Good(i) == \A k \in 1..i : \A j \in 1..Len(seqs[k]) :
                           /\ off[k - 1] + j \in 1..Len(f[i])
                           /\ f[i][off[k - 1] + j] = seqs[k][j]
             P == {i \in Nat : i + 1 \in 1..n => Good(i + 1)}
  <2>5. 0 \in P
    <3>1. Good(1)
      <4> SUFFICES ASSUME NEW k \in 1..1, NEW j \in 1..Len(seqs[k])
                   PROVE  /\ off[k - 1] + j \in 1..Len(f[1])
                          /\ f[1][off[k - 1] + j] = seqs[k][j]
        OBVIOUS
      <4>1. k = 1 /\ k - 1 = 0 /\ seqs[1] \in Seq(S)
        BY <1>1, <1>3
      <4>2. off[k - 1] + j = j
        BY <2>2, <4>1
      <4> QED
        BY <2>1, <4>1, <4>2
    <3> QED
      BY <3>1
  <2>6. ASSUME NEW i \in Nat, i \in P PROVE i + 1 \in P
    <3> SUFFICES ASSUME i + 1 + 1 \in 1..n PROVE Good(i + 1 + 1)
      OBVIOUS
    <3> DEFINE m == i + 1
    <3>1. m \in 1..n /\ m + 1 \in 2..n /\ (m + 1) - 1 = m /\ m + 1 \in 1..n
      BY <1>1
    <3>2. Good(m)
      BY <2>6, <3>1
    <3> HIDE DEF m
    <3> DEFINE before == f[m]
               next == seqs[m + 1]
               after == f[m + 1]
    <3>3. after = before \o next /\ before \in Seq(S)
          /\ next \in Seq(S) /\ off[m] = Len(before)
      BY <1>1, <2>1, <2>3, <3>1
    <3>6. /\ \A a \in 1..Len(before) :
                a \in 1..Len(after) /\ after[a] = before[a]
          /\ \A a \in 1..Len(next) :
                /\ Len(before) + a \in 1..Len(after)
                /\ after[Len(before) + a] = next[a]
      <4> HIDE DEF before, next, after
      <4> QED
        BY <3>3, ConcatIs
    <3>4. ASSUME NEW k \in 1..(m + 1), NEW j \in 1..Len(seqs[k])
          PROVE  /\ off[k - 1] + j \in 1..Len(f[m + 1])
                 /\ f[m + 1][off[k - 1] + j] = seqs[k][j]
      <4>1. CASE k = m + 1
        <5>1. k - 1 = m /\ j \in 1..Len(seqs[m + 1])
          BY <3>1, <4>1
        <5>2. off[k - 1] + j = Len(f[m]) + j
          BY <3>3, <5>1
        <5>3. /\ Len(f[m]) + j \in 1..Len(f[m + 1])
              /\ f[m + 1][Len(f[m]) + j] = seqs[m + 1][j]
          BY <3>6, <5>1
        <5> QED
          BY <4>1, <5>2, <5>3
      <4>2. CASE k # m + 1
        <5>1. k \in 1..m
          BY <3>1, <4>2
        <5>2. /\ off[k - 1] + j \in 1..Len(f[m])
              /\ f[m][off[k - 1] + j] = seqs[k][j]
          BY <3>2, <5>1
        <5> DEFINE a == off[k - 1] + j
        <5>3. a \in 1..Len(f[m + 1]) /\ f[m + 1][a] = f[m][a]
          <6> HIDE DEF a
          <6>1. a \in 1..Len(f[m])
            BY <5>2 DEF a
          <6> QED
            BY <3>6, <6>1
        <5> QED
          BY <5>2, <5>3
      <4> QED
        BY <4>1, <4>2
    <3>5. Good(m + 1)
      BY <3>4
    <3> QED
      BY <3>5 DEF m
  <2>7. Good(n)
    <3>1. \A i \in 0..n : i \in P
      <4> HIDE DEF P
      <4> QED
        BY <1>1, <2>5, <2>6, UpTo
    <3> HIDE DEF Good
    <3>2. n - 1 \in P /\ (n - 1) + 1 = n /\ n \in 1..n
      <4> HIDE DEF P
      <4>1. n - 1 \in 0..n /\ (n - 1) + 1 = n /\ n \in 1..n
        BY <1>1, <1>3
      <4> QED
        BY <3>1, <4>1
    <3> QED
      BY <3>2
  <2>8. IsLayout(off, seqs)
    BY <2>2, <2>4 DEF IsLayout
  <2>9. Len(flat) = off[n] /\ flat \in Seq(S)
    BY <1>1, <1>3, <2>1, <2>3
  <2> HIDE DEF flat
  <2>10. \A i \in 1..n : \A j \in 1..Len(seqs[i]) :
            /\ off[i - 1] + j \in 1..Len(flat)
            /\ flat[off[i - 1] + j] = seqs[i][j]
    BY <2>1, <2>7
  <2> QED
    BY <2>8, <2>9, <2>10 DEF flat, IsFlattened
<1> QED
  BY <1>2, <1>3
=============================================================================
